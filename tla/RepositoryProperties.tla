------------------------ MODULE RepositoryProperties ------------------------
(***************************************************************************)
(* What the repository promises, whoever calls it.                         *)
(***************************************************************************)
EXTENDS FirestoreRepository, Sequences

\* The run document and the ledger agree: a shift's head names an edge of that
\* shift that handed it to the current owner at the current version, so the
\* walk of custody_chain starts at the truth.
HeadIsCurrent ==
    \A s \in Shifts : \E x \in ledger :
        /\ x.id = shifts[s].head
        /\ x.shift = s
        /\ x.to = shifts[s].owner
        /\ x.shift_version = shifts[s].version

\* Every transfer continues an edge of the same shift, one version older,
\* from the very worker that edge handed the shift to, and is serialized after
\* it: the walk from any head meets no gap, no foreign shift and no cycle.
PredecessorLinks ==
    \A x \in ledger : x.request # None =>
        \E p \in ledger :
            /\ p.id = x.predecessor
            /\ p.shift = x.shift
            /\ p.to = x.from
            /\ p.shift_version + 1 = x.shift_version
            /\ p.schedule_version < x.schedule_version

\* No version of a shift is reached by two edges: stale or concurrent commits
\* never fork the chain of custody.
NoFork ==
    \A x, y \in ledger :
        x.shift = y.shift /\ x.shift_version = y.shift_version => x = y

\* Two transfers of a run, of whatever shifts, never carry the same schedule
\* version: the commits of a run are totally ordered.
SerialSchedule ==
    \A x, y \in ledger :
        /\ x.request # None => x.schedule_version \in 1..scheduleVersion
        /\ /\ x.request # None /\ y.request # None
           /\ x.schedule_version = y.schedule_version
           => x = y

\* No ledger id names two edges, although an id carries request and version but
\* no shift: without the lookup of the id in commit_transfer a request read for
\* another shift than before would overwrite its first edge.
LedgerIsKeyed == \A x, y \in ledger : x.id = y.id => x = y

\* Verification and no-op records are never about anything but an edge that was
\* applied for that very request, whatever later saves do to the event document.
RecordsBackedByEdge ==
    /\ \A v \in verifications : \E x \in ledger :
          /\ x.id = v.applied
          /\ x.request = v.request
          /\ <<x.shift, x.to, x.shift_version, x.schedule_version>> =
             <<v.shift, v.to, v.shift_version, v.schedule_version>>
    /\ \A n \in noops : \E v \in verifications :
          v.request = n.event /\ v.applied = n.applied

\* The lost acknowledgement is injected only once the effect is durably
\* verified, as the docstring of consume_failure_injection promises.
FaultAfterVerification == fault = "USED" => IsVerified(AwaitingEvent)

\* Confirmation evidence is written once, together with a new generation, and
\* a generation never goes back, whatever blind saves come in between (that of
\* the confirming event only copies its target's).
EvidenceAndGenerationMonotone ==
    [][\A e \in Events \ {ConfirmingEvent} :
          /\ events'[e].generation >= events[e].generation
          /\ events'[e].evidence # events[e].evidence =>
                /\ events[e].evidence = None
                /\ events'[e].generation > events[e].generation]_repoVars

-----------------------------------------------------------------------------
(* What readers of the custody chain see.                                  *)

\* get_ledger_event: the predecessor of an edge, nothing beyond the first.
Predecessor(id) ==
    IF InLedger(id) THEN (CHOOSE x \in ledger : x.id = id).predecessor ELSE None

\* custody_chain: where its cursor stands after n steps from the head.
Cursor(s) ==
    LET at[n \in Nat] ==
          IF n = 0 THEN shifts[s].head ELSE Predecessor(at[n - 1])
    IN  at

\* The walk of custody_chain visits one edge per version of the shift, from the
\* current one down to the initial assignment, and ends there: it never raises
\* for a missing edge or a cycle, and leaves no hand-over out.
ChainWalksBack ==
    \A s \in Shifts :
        LET n == shifts[s].version IN
        /\ \A k \in 0..n : \E x \in ledger :
              x.id = Cursor(s)[k] /\ x.shift = s /\ x.shift_version = n - k
        /\ Cursor(s)[n] = InitialEdge(s).id
        /\ Cursor(s)[n + 1] = None

-----------------------------------------------------------------------------
(* The inductive strengthening of the custody invariants.                  *)

\* The run document is ahead of every edge, and only transfers advance it.
VersionsBounded ==
    \A x \in ledger :
        /\ x.shift_version <= shifts[x.shift].version
        /\ x.request = None => x.schedule_version = 0

\* Only the seeded assignments belong to no request.
SeedEdges == \A x \in ledger : x.request = None => x = InitialEdge(x.shift)

\* Every schedule version was produced by a transfer.
ScheduleComplete ==
    \A n \in 1..scheduleVersion :
        \E x \in ledger : x.request # None /\ x.schedule_version = n

CustodyInv ==
    /\ HeadIsCurrent
    /\ PredecessorLinks
    /\ NoFork
    /\ SerialSchedule
    /\ LedgerIsKeyed
    /\ VersionsBounded
    /\ SeedEdges
    /\ ScheduleComplete

-----------------------------------------------------------------------------
(* The ledger implements the abstract custody log: the n-th entry is the   *)
(* transfer that produced schedule version n.                              *)

EdgeAt(n) ==
    CHOOSE x \in ledger : x.request # None /\ x.schedule_version = n

LogOfLedger ==
    [n \in 1..scheduleVersion |->
        [request |-> EdgeAt(n).request, shift |-> EdgeAt(n).shift,
         from    |-> EdgeAt(n).from,    to    |-> EdgeAt(n).to]]

Custody == INSTANCE CustodyLog
    WITH Requests <- Events,
         log      <- LogOfLedger,
         owner    <- [s \in Shifts |-> shifts[s].owner]

\* Under arbitrary callers, every step of the repository appends one hand-over
\* by the current owner to the serial history, or leaves it alone.
ImplementsCustodyLog == Custody!Spec

=============================================================================
