---------------------------- MODULE MCRepository ----------------------------
(***************************************************************************)
(* A small run for the repository under arbitrary callers: one request     *)
(* hands shift s1 from w1 to w2, or may be read as handing s2 over without *)
(* its recipient's consent so far; the other hands s1 back.                *)
(***************************************************************************)
EXTENDS RepositoryProperties, TLC

CONSTANTS w1, w2, s1, s2, e1, e2

MCOriginalOwner == [s \in Shifts |-> IF s = s1 THEN w1 ELSE w2]
MCStartAt == [s \in Shifts |-> IF s = s1 THEN 18 ELSE 32]
MCEndAt == [s \in Shifts |-> IF s = s1 THEN 22 ELSE 36]
MCAvailability == [w \in {w1, w2} |-> {<<17, 23>>, <<30, 38>>}]

Transfer(e, s, from, to, present) ==
    [source |-> e, type |-> "TRANSFER_SHIFT", from |-> from, to |-> to, shift |-> s,
     target |-> None, dependency |-> None,
     confirmation |-> IF present THEN "PRESENT" ELSE "ABSENT",
     by |-> IF present THEN to ELSE None,
     decision |-> "NOT_APPLICABLE", ambiguous |-> FALSE]

MCTwoShifts ==
    e1 :> {Transfer(e1, s1, w1, w2, TRUE), Transfer(e1, s2, w2, w1, FALSE)} @@
    e2 :> {Transfer(e2, s1, w2, w1, TRUE)}

=============================================================================
