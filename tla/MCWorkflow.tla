----------------------------- MODULE MCWorkflow -----------------------------
(***************************************************************************)
(* The service on the frozen run.                                          *)
(***************************************************************************)
EXTENDS WorkflowProperties, FrozenData

\* Whoever answers may be taken for Emma or Lucas, and the answer for yes or no.
MCAnswers ==
    [FrozenParses EXCEPT ![EVT4] =
        @ \cup {AcceptIntent(EVT4, EVT3, Shift27M, Lucas),
                [AcceptIntent(EVT4, EVT3, Shift27M, Emma)
                    EXCEPT !.decision = "DECLINE"]}]

\* The frozen messages hand every shift on and never back.
FrozenRank ==
    [s \in Shifts |->
        Maya :> 0 @@ Liam :> 1 @@ Sofia :> 2 @@ Noah :> 0 @@ Emma :> 1 @@ Lucas :> 0]

\* What the proofs suppose of seed and messages holds of the frozen run.
ASSUME FrozenHypotheses ==
    /\ SeedFeasible
    /\ DependenciesAreTransfers
    /\ AnswersOneRequest
    /\ AwaitsConsent
    /\ AnswersAwaiting
    /\ MovesForward(FrozenRank)

\* Handlers differ in nothing but their names.
HandlerSymmetry == Permutations(Handlers)

=============================================================================
