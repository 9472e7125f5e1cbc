----------------------------- MODULE CustodyLog -----------------------------
(***************************************************************************)
(* What the custody ledger of a run promises its readers: the transfers of *)
(* the whole run form one serial history, in which every entry hands a     *)
(* shift over from the worker who holds it at that moment.  Entries are    *)
(* only appended.                                                          *)
(***************************************************************************)
EXTENDS Sequences

CONSTANTS Workers, Shifts, Requests, OriginalOwner

VARIABLES
    log,    \* the history: who handed which shift to whom, for which request
    owner   \* the worker who holds each shift

Init ==
    /\ log = <<>>
    /\ owner = OriginalOwner

HandOver(r, s, w) ==
    /\ log' = Append(log, [request |-> r, shift |-> s,
                           from |-> owner[s], to |-> w])
    /\ owner' = [owner EXCEPT ![s] = w]

Next == \E r \in Requests, s \in Shifts, w \in Workers : HandOver(r, s, w)

Spec == Init /\ [][Next]_<<log, owner>>

=============================================================================
