----------------------------- MODULE MCOverlap ------------------------------
(***************************************************************************)
(* Two requests that may not both succeed: shifts sx and sy overlap, both  *)
(* are offered to worker wc, and sy touches sz, which wc holds, at its     *)
(* very end.                                                               *)
(***************************************************************************)
EXTENDS EngineProperties, TLC

CONSTANTS wa, wb, wc, sx, sy, sz, ex, ey

MCWorkers == {wa, wb, wc}
MCShifts == {sx, sy, sz}
MCEvents == {ex, ey}

MCOriginalOwner == sx :> wa @@ sy :> wb @@ sz :> wc
MCStartAt == sx :> 8 @@ sy :> 10 @@ sz :> 14
MCEndAt == sx :> 12 @@ sy :> 14 @@ sz :> 18
MCAvailability == wa :> {<<6, 14>>} @@ wb :> {<<6, 14>>} @@ wc :> {<<8, 18>>}

Offer(e, from, to, s) ==
    [source |-> e, type |-> "TRANSFER_SHIFT", from |-> from, to |-> to,
     shift |-> s, target |-> None, dependency |-> None,
     confirmation |-> "PRESENT", by |-> to,
     decision |-> "NOT_APPLICABLE", ambiguous |-> FALSE]

Accept(e, target, by, s) ==
    [source |-> e, type |-> "CONFIRM_REQUEST", from |-> None, to |-> None,
     shift |-> s, target |-> target, dependency |-> None,
     confirmation |-> "PRESENT", by |-> by,
     decision |-> "ACCEPT", ambiguous |-> FALSE]

\* The message about sy may also be read as handing sx back once the first
\* request is verified; as offering sz to wb, whose consent is missing, or as wb
\* giving it; and the parse may name another event as its source.
MCParses ==
    ex :> {Offer(ex, wa, wc, sx)} @@
    ey :> {Offer(ey, wb, wc, sy),
           [Offer(ey, wc, wb, sz) EXCEPT !.confirmation = "ABSENT", !.by = None],
           Offer(ex, wb, wc, sy),
           [Offer(ey, wc, wa, sx) EXCEPT !.dependency = ex],
           Accept(ey, ey, wb, sz)}

\* What the proofs about rosters and dependencies suppose.  A shift may come back
\* here, so the one about single effects does not apply.
ASSUME OverlapHypotheses == SeedFeasible /\ DependenciesAreTransfers

\* Handlers differ in nothing but their names.
HandlerSymmetry == Permutations(Handlers)

=============================================================================
