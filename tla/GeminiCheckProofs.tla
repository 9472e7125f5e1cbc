-------------------------- MODULE GeminiCheckProofs --------------------------
(***************************************************************************)
(* The feasibility check is right for every list of fixtures, every set of *)
(* contracts and every limit of attempts.                                  *)
(***************************************************************************)
EXTENDS GeminiCheck, TLAPS

Running == pc # "idle"

\* What a report shows was earned, whether it is on disk or in the making.
ReportsAreEarned ==
    \A r \in {artifact, report} \ {Missing, Garbled} :
        /\ {r.contract} \X r.passed \subseteq earned
        /\ r.repeat => <<r.contract, "repeat">> \in earned
        /\ r.status = "PASS" =>
             {r.contract} \X (Fixtures \cup {"repeat", "adk"}) \subseteq earned

\* The locals of a running check.
RunIsSound ==
    Running =>
        /\ report # Missing
        /\ report.contract = contract
        /\ pc # "finish" => report.status = "BLOCKED"
        /\ pc \in {"call", "write"} /\ position > Len(Order) => report.passed = Fixtures
        /\ pc = "adk" => report.passed = Fixtures /\ report.repeat
        /\ pc = "call" => IF position > Len(Order) THEN ~report.repeat
                          ELSE Order[position] \notin report.passed

\* A running check knows everything the checkpoint on disk knows.
NothingForgotten ==
    Running /\ IsReport(artifact) /\ artifact.contract = contract =>
        /\ artifact.passed \subseteq report.passed
        /\ artifact.repeat => report.repeat

CheckInv == CheckTypeOK /\ ReportsAreEarned /\ RunIsSound /\ NothingForgotten

-----------------------------------------------------------------------------
LEMMA OrderFacts ==
    /\ Len(Order) \in Nat \ {0}
    /\ \A i \in 1..Len(Order) : Order[i] \in Fixtures
    /\ "repeat" \notin Fixtures
<1>1. Order \in Seq(Fixtures) /\ Len(Order) > 0 /\ "repeat" \notin Fixtures
  BY CheckConstants DEF Fixtures
<1>2. \A i \in 1..Len(Order) : Order[i] \in Fixtures
  BY <1>1
<1> QED  BY <1>1, <1>2

LEMMA CheckInvInit == CheckInit => CheckInv
<1> SUFFICES ASSUME CheckInit PROVE CheckInv
  OBVIOUS
<1>1. CheckTypeOK
  BY OrderFacts, CheckConstants DEF CheckInit, CheckTypeOK
<1>2. ReportsAreEarned /\ RunIsSound /\ NothingForgotten
  BY DEF CheckInit, ReportsAreEarned, RunIsSound, NothingForgotten, Running
<1> QED  BY <1>1, <1>2 DEF CheckInv

LEMMA CheckInvNext == CheckInv /\ [CheckNext]_checkVars => CheckInv'
<1> SUFFICES ASSUME CheckInv, [CheckNext]_checkVars PROVE CheckInv'
  OBVIOUS
<1> USE OrderFacts, CheckConstants, NoReport DEF CheckInv, Running
<1>1. ASSUME NEW hasRoute \in BOOLEAN, StartCheck(hasRoute) PROVE CheckInv'
  <2>0. IsReport(artifact) => artifact \in Report
    BY DEF CheckTypeOK, IsReport
  <2>1. report' \in Report /\ report'.contract = contract /\ report'.status = "BLOCKED"
    BY <1>1, <2>0 DEF StartCheck, Report, Resumable, CheckTypeOK
  <2>2. CheckTypeOK'
    BY <1>1, <2>1 DEF StartCheck, CheckTypeOK
  <2>3. ReportsAreEarned'
    <3>1. artifact' = artifact /\ earned' = earned
      BY <1>1 DEF StartCheck
    <3>2. CASE IsReport(artifact) /\ artifact.contract = contract
      <4>1. /\ report'.passed = artifact.passed
            /\ report'.repeat = artifact.repeat
        BY <1>1, <3>2, <2>0 DEF StartCheck, Resumable, Report
      <4> QED  BY <2>0, <2>1, <3>1, <3>2, <4>1 DEF ReportsAreEarned, IsReport
    <3>3. CASE ~(IsReport(artifact) /\ artifact.contract = contract)
      <4>1. report'.passed = {} /\ report'.repeat = FALSE
        BY <1>1, <3>3 DEF StartCheck, Resumable
      <4> QED  BY <2>1, <3>1, <4>1 DEF ReportsAreEarned
    <3> QED  BY <3>2, <3>3
  <2>4. RunIsSound'
    BY <1>1, <2>1 DEF StartCheck, RunIsSound
  <2>5. NothingForgotten'
    BY <1>1, <2>1 DEF StartCheck, NothingForgotten, Resumable
  <2> QED  BY <2>2, <2>3, <2>4, <2>5
<1>2. ASSUME NextParse PROVE CheckInv'
  BY <1>2 DEF NextParse, CheckTypeOK, Report, Skipped, ReportsAreEarned, RunIsSound,
              NothingForgotten
<1>3. ASSUME ModelBusy PROVE CheckInv'
  BY <1>3 DEF ModelBusy, MayRetry, CheckTypeOK, ReportsAreEarned, RunIsSound,
              NothingForgotten
<1>4. ASSUME ParseRaises PROVE CheckInv'
  BY <1>4 DEF ParseRaises, CheckTypeOK, ReportsAreEarned, RunIsSound, NothingForgotten
<1>5. ASSUME NEW matches \in BOOLEAN, ModelAnswers(matches) PROVE CheckInv'
  BY <1>5 DEF ModelAnswers, Evaluate, Asked, CheckTypeOK, Report, ReportsAreEarned,
              RunIsSound, NothingForgotten
<1>6. ASSUME WriteProgress PROVE CheckInv'
  BY <1>6 DEF WriteProgress, CheckTypeOK, Report, ReportsAreEarned, RunIsSound,
              NothingForgotten
<1>7. ASSUME NEW outcome \in {"PASS", "PARTIAL", "BLOCKED"}, RunAdk(outcome)
      PROVE CheckInv'
  BY <1>7 DEF RunAdk, CheckTypeOK, Report, ReportsAreEarned, RunIsSound,
              NothingForgotten
<1>8. ASSUME Finish PROVE CheckInv'
  BY <1>8 DEF Finish, CheckTypeOK, Report, ReportsAreEarned, RunIsSound,
              NothingForgotten
<1>9. ASSUME WriteRaises \/ Die PROVE CheckInv'
  <2>1. artifact' \in {Missing, Garbled, artifact} /\ UNCHANGED <<contract, earned>>
    BY <1>9 DEF WriteRaises, Die, TornOrNot
  <2>2. /\ report' \in {Missing, report}
        /\ pc' \in {"idle", "finish"} /\ Running
        /\ Running' => report' = report
        /\ UNCHANGED <<position, attempt>>
    BY <1>9 DEF WriteRaises, Die
  <2>3. CheckTypeOK'
    BY <2>1, <2>2 DEF CheckTypeOK
  <2>4. ReportsAreEarned'
    BY <2>1, <2>2 DEF ReportsAreEarned
  <2>5. RunIsSound'
    BY <2>1, <2>2 DEF RunIsSound
  <2>6. NothingForgotten'
    BY <2>1, <2>2 DEF NothingForgotten, IsReport
  <2> QED  BY <2>3, <2>4, <2>5, <2>6
<1>10. ASSUME EditCode PROVE CheckInv'
  BY <1>10 DEF EditCode, CheckTypeOK, ReportsAreEarned, RunIsSound, NothingForgotten
<1>11. ASSUME UNCHANGED checkVars PROVE CheckInv'
  BY <1>11 DEF checkVars, CheckTypeOK, ReportsAreEarned, RunIsSound, NothingForgotten
<1> QED  BY <1>1, <1>2, <1>3, <1>4, <1>5, <1>6, <1>7, <1>8, <1>9, <1>10, <1>11
            DEF CheckNext

LEMMA CheckInvAlways == CheckSpec => []CheckInv
  BY CheckInvInit, CheckInvNext, PTL DEF CheckSpec

\* Type correctness of the check; the attempts of a parse stay within the limit.
THEOREM CheckTypeCorrect == CheckSpec => []CheckTypeOK
<1>1. CheckInv => CheckTypeOK
  BY DEF CheckInv
<1> QED  BY <1>1, CheckInvAlways, PTL

\* A report on disk that says PASS was earned under the contract it names.
THEOREM PassCorrect == CheckSpec => []PassIsEarned
<1>1. CheckInv => PassIsEarned
  BY DEF CheckInv, ReportsAreEarned, PassIsEarned, IsReport
<1> QED  BY <1>1, CheckInvAlways, PTL

\* The model is not asked again for what the report on disk shows passed.
THEOREM NothingIsAskedTwice == CheckSpec => []NothingAskedTwice
<1>1. CheckInv => NothingAskedTwice
  BY OrderFacts, NoReport
     DEF CheckInv, CheckTypeOK, Report, RunIsSound, NothingForgotten, Running,
         NothingAskedTwice, Resumable, IsReport, Asked
<1> QED  BY <1>1, CheckInvAlways, PTL

\* No run takes back what an earlier one recorded under the same contract.
THEOREM ProgressIsKept == CheckSpec => ProgressKept
<1> DEFINE Kept ==
      IsReport(artifact) /\ IsReport(artifact')
      /\ artifact'.contract = artifact.contract
      => /\ artifact.passed \subseteq artifact'.passed
         /\ artifact.repeat => artifact'.repeat
<1>1. CheckInv /\ [CheckNext]_checkVars => [Kept]_checkVars
  <2> SUFFICES ASSUME CheckInv, [CheckNext]_checkVars PROVE Kept
    OBVIOUS
  <2>1. \/ artifact' = artifact
        \/ artifact' \in {Missing, Garbled}
        \/ Running /\ artifact' = report
    BY DEF CheckNext, checkVars, StartCheck, NextParse, ModelBusy, ParseRaises,
           ModelAnswers, WriteProgress, RunAdk, Finish, WriteRaises, Die, TornOrNot,
           EditCode, Running
  <2> QED
    BY <2>1 DEF CheckInv, RunIsSound, NothingForgotten, IsReport
<1> QED  BY <1>1, CheckInvAlways, PTL DEF CheckSpec, ProgressKept

=============================================================================
