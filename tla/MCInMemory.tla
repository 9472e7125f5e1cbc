----------------------------- MODULE MCInMemory -----------------------------
(***************************************************************************)
(* A small run for the in-memory repository: shift s1 goes from w1 to w2   *)
(* and back, and w2 hands s2 to w1.  Every message has one reading, as in  *)
(* the demo and the tests, which take it from intent_for.                  *)
(***************************************************************************)
EXTENDS InMemoryRepository, TLC

CONSTANTS w1, w2, s1, s2, e1, e2, e3

MCOriginalOwner == [s \in Shifts |-> IF s = s1 THEN w1 ELSE w2]
MCStartAt == [s \in Shifts |-> IF s = s1 THEN 18 ELSE 32]
MCEndAt == [s \in Shifts |-> IF s = s1 THEN 22 ELSE 36]
MCAvailability == [w \in {w1, w2} |-> {<<17, 23>>, <<30, 38>>}]

Transfer(e, s, from, to) ==
    [source |-> e, type |-> "TRANSFER_SHIFT", from |-> from, to |-> to, shift |-> s,
     target |-> None, dependency |-> None, confirmation |-> "PRESENT", by |-> to,
     decision |-> "NOT_APPLICABLE", ambiguous |-> FALSE]

MCParses ==
    e1 :> {Transfer(e1, s1, w1, w2)} @@ e2 :> {Transfer(e2, s1, w2, w1)} @@
    e3 :> {Transfer(e3, s2, w2, w1)}

\* Every message is about one shift, as the proofs about custody suppose.
ASSUME MessagesAskOnce == OneShiftEach

=============================================================================
