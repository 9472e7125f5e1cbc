--------------------------- MODULE DemoResetProofs ---------------------------
(***************************************************************************)
(* Whatever the number of resets and wherever the numbers end, resets that *)
(* do not overlap never meet.                                              *)
(***************************************************************************)
EXTENDS DemoReset, FiniteSetTheorems, NaturalNumbers, TLAPS

\* r wrote the run it was handed out or is about to be.
Wrote(r) == reset[r].pc \in {"arm", "answered"}

\* The number of r does not change any more; r may have written that run.
Settled(r) == reset[r].pc \in {"arm", "answered", "dead"}

\* A listing that finds nothing but numbers it cannot count beyond.
NumbersEnd == LastMatching = 0 \/ runs[LastMatching] # None

Alone(r) == \A q \in Resets : {r, q} \notin overlapped

RunsAreWritten ==
    /\ \A r \in Resets : Wrote(r) => runs[reset[r].number] # None
    /\ \A n \in Numbers :
          /\ IsFiniteSet(edges[n])
          /\ runs[n] = None => edges[n] = {}
          /\ runs[n] # None /\ runs[n].version > 0 =>
               \E q \in Resets : reset[q].pc = "answered" /\ reset[q].number = n

ProgressOverlaps ==
    \A r, q \in Resets :
        r # q /\ InProgress(r) /\ InProgress(q) => {r, q} \in overlapped

\* Whoever passed the existence check and whoever wrote the same run overlap.
SharersOverlap ==
    \A r, q \in Resets :
        /\ r # q /\ reset[r].number = reset[q].number
        /\ reset[r].pc = "write" \/ Wrote(r)
        /\ Wrote(q)
        => {r, q} \in overlapped

NoHistoryYet ==
    \A r \in Resets :
        Alone(r) /\ reset[r].pc = "write" => edges[reset[r].number] = {}

AloneIsAsAsked ==
    \A r \in Resets, n \in Numbers :
        Alone(r) /\ Wrote(r) /\ reset[r].number = n =>
            /\ runs[n].version = Cardinality(edges[n])
            /\ runs[n].fault = IF WantProof[r] /\ reset[r].pc = "answered"
                               THEN "ARMED" ELSE "OFF"
            /\ reset[r].pc = "arm" => WantProof[r]

\* The last number is used only when the listing cannot see beyond it.
CountsUp ==
    \A r \in Resets :
        reset[r].number # None /\ reset[r].number > LastMatching => NumbersEnd

\* A rival took the number n while r was in progress.
TookIt(r, n) ==
    n > LastMatching
    \/ \E q \in Resets : Settled(q) /\ {r, q} \in overlapped /\ reset[q].number = n

\* A number that is taken after it was listed was taken by a rival.
TakenByRival ==
    \A r \in Resets, n \in Numbers :
        reset[r].pc = "exists" /\ reset[r].number = n /\ runs[n] # None => TookIt(r, n)

RetriesAfterRival ==
    \A r \in Resets :
        reset[r].pc = "list" /\ reset[r].retried =>
            \E n \in Numbers :
                reset[r].number = n /\ runs[n] # None /\ TookIt(r, n)

\* The retry leaves a rival behind, who has a smaller number.
PassedRival ==
    \A r \in Resets :
        reset[r].pc = "exists" /\ reset[r].retried =>
            reset[r].number > LastMatching
            \/ \E m \in Numbers : m < reset[r].number /\ m <= LastMatching /\ TookIt(r, m)

HasNumber ==
    \A r \in Resets :
        /\ reset[r].pc = "ready" => ~reset[r].retried
        /\ reset[r].pc \in {"exists", "write", "arm", "answered", "raised"}
            => reset[r].number # None

DemoInv ==
    /\ DemoTypeOK /\ HasNumber
    /\ RunsAreWritten /\ ProgressOverlaps /\ SharersOverlap
    /\ NoHistoryYet /\ AloneIsAsAsked /\ CountsUp
    /\ TakenByRival /\ RetriesAfterRival /\ PassedRival /\ RaisesAfterTwoRivals

-----------------------------------------------------------------------------
LEMMA MaxOfBounded ==
    ASSUME NEW N \in Nat, NEW S \in SUBSET (0..N), S # {}
    PROVE  Max(S) \in S /\ \A k \in S : k <= Max(S)
<1> DEFINE T == {N - k : k \in S}
<1>1. PICK m \in T : \A k \in T : m <= k
  <2>1. \A k \in S : k \in 0..N /\ N - k \in Nat
    OBVIOUS
  <2>2. T \in SUBSET Nat
    BY <2>1
  <2>3. T # {}
    OBVIOUS
  <2> QED  BY <2>2, <2>3, LeastNatural
<1>2. PICK j \in S : m = N - j
  OBVIOUS
<1>3. ASSUME NEW k \in S PROVE j >= k
  <2>1. k \in 0..N /\ j \in 0..N /\ N - k \in T
    OBVIOUS
  <2>2. m <= N - k
    BY <1>1, <2>1
  <2> HIDE DEF T
  <2> QED  BY <1>2, <2>1, <2>2
<1>4. Max(S) \in S /\ \A k \in S : Max(S) >= k
  <2>1. \E x \in S : \A k \in S : x >= k
    BY <1>3
  <2> QED  BY <2>1, Zenon DEF Max
<1>5. Max(S) \in 0..N
  BY <1>4
<1> QED  BY <1>4, <1>5

\* What a listing finds: a number nobody has, or that the numbers have ended.
LEMMA NextNumber ==
    ASSUME DemoTypeOK
    PROVE  /\ NextDemoRunId \in Numbers
           /\ \A n \in 1..LastMatching : runs[n] # None => n < NextDemoRunId
           /\ NextDemoRunId > LastMatching <=> NumbersEnd
<1> DEFINE S == {0} \cup {n \in 1..LastMatching : Exists(n)}
<1>1. S \in SUBSET (0..LastMatching) /\ S # {} /\ LastMatching \in Nat
  BY DemoConstants
<1>2. NextDemoRunId = 1 + Max(S)
  BY DEF NextDemoRunId
<1>3. \A n \in 1..LastMatching : runs[n] # None => n \in S
  BY DEF Exists
<1>4. \A n \in S : n = 0 \/ runs[n] # None
  BY DEF Exists
<1> HIDE DEF S
<1>5. Max(S) \in S /\ \A k \in S : k <= Max(S)
  BY <1>1, MaxOfBounded
<1>6. Max(S) \in 0..LastMatching
  BY <1>1, <1>5
<1> QED  BY <1>1, <1>2, <1>3, <1>4, <1>5, <1>6 DEF Numbers, NumbersEnd

LEMMA DemoInvInit == DemoInit => DemoInv
<1> SUFFICES ASSUME DemoInit PROVE DemoInv
  OBVIOUS
<1>1. DemoTypeOK
  BY DEF DemoInit, DemoTypeOK, ResetPc
<1> QED  BY <1>1, FS_EmptySet
            DEF DemoInit, DemoInv, HasNumber, RunsAreWritten, ProgressOverlaps,
                SharersOverlap, NoHistoryYet, AloneIsAsAsked, CountsUp, TakenByRival,
                RetriesAfterRival, PassedRival, RaisesAfterTwoRivals,
                InProgress, Wrote

LEMMA DemoInvNext == DemoInv /\ [DemoNext]_demoVars => DemoInv'
<1> SUFFICES ASSUME DemoInv, [DemoNext]_demoVars PROVE DemoInv'
  OBVIOUS
<1> USE DemoConstants, NoDocument
<1>inv. DemoTypeOK /\ HasNumber /\ RunsAreWritten /\ ProgressOverlaps /\ SharersOverlap
      /\ NoHistoryYet /\ AloneIsAsAsked /\ CountsUp /\ TakenByRival /\ RetriesAfterRival
      /\ PassedRival /\ RaisesAfterTwoRivals
  BY DEF DemoInv
<1>types.
    /\ \A q \in Resets : reset[q].number = None \/ reset[q].number \in Numbers
    /\ \A q \in Resets :
          reset[q].pc \in {"exists", "write", "arm", "answered", "raised"}
             => reset[q].number \in Numbers
    /\ \A n \in Numbers :
          runs[n] # None => runs[n] \in RunDocument /\ runs[n].version \in Nat
    /\ \A n \in Numbers : n \in Nat
    /\ LastMatching \in Nat
    /\ LastMatching # 0 => LastMatching \in Numbers
    /\ \A q \in Resets : WantProof[q] \in BOOLEAN
  BY <1>inv DEF DemoTypeOK, HasNumber, Numbers, RunDocument
<1>pair. \A p, q : {p, q} = {q, p}
  OBVIOUS
<1>alone. \A p, q \in Resets :
        Alone(p) /\ p # q /\ reset[p].number = reset[q].number =>
            /\ ~(Wrote(q) /\ (reset[p].pc = "write" \/ Wrote(p)))
            /\ ~(Wrote(p) /\ (reset[q].pc = "write" \/ Wrote(q)))
  BY <1>inv, <1>pair DEF Alone, SharersOverlap
<1>1. ASSUME NEW r \in Resets, StartReset(r) PROVE DemoInv'
  <2>1. reset[r].pc = "ready"
    BY <1>inv, <1>1 DEF StartReset
  <2>2. DemoTypeOK'
    <3>1. overlapped' \in SUBSET (SUBSET Resets)
      BY <1>inv, <1>1 DEF StartReset, DemoTypeOK
    <3> QED  BY <1>inv, <1>1, <3>1 DEF StartReset, Goto, DemoTypeOK, ResetPc
  <2>3. /\ reset'[r].pc = "list" /\ reset'[r].number = reset[r].number
        /\ reset'[r].retried = reset[r].retried
        /\ \A q \in Resets \ {r} : reset'[q] = reset[q]
    BY <1>inv, <1>1, <2>1, <2>2 DEF StartReset, Goto, DemoTypeOK
  <2>4. /\ runs' = runs /\ edges' = edges
        /\ \A x : x \in overlapped' <=>
              x \in overlapped \/ \E q \in Resets : InProgress(q) /\ x = {r, q}
    BY <1>inv, <1>1, <2>1, <2>2, <2>3 DEF StartReset
  <2>5. \A p \in Resets, m \in Numbers : TookIt(p, m) => TookIt(p, m)'
    BY <1>inv, <1>types, <2>1, <2>2, <2>3, <2>4 DEF TookIt, Settled, InProgress
  <2>6. \A p \in Resets : Alone(p)' => Alone(p)
    BY <2>1, <2>2, <2>3, <2>4 DEF Alone
  <2>7. HasNumber'
    BY <1>inv, <2>1, <2>2, <2>3, <2>4 DEF HasNumber
  <2>8. RunsAreWritten'
    BY <1>inv, <1>types, <2>1, <2>2, <2>3, <2>4 DEF RunsAreWritten, Wrote
  <2>9. ProgressOverlaps'
    BY <1>inv, <1>pair, <2>1, <2>2, <2>3, <2>4 DEF ProgressOverlaps, InProgress
  <2>10. SharersOverlap'
    BY <1>inv, <1>pair, <2>1, <2>2, <2>3, <2>4 DEF SharersOverlap, Wrote
  <2>11. NoHistoryYet'
    BY <1>inv, <1>types, <2>1, <2>2, <2>3, <2>4, <2>6, <1>alone DEF NoHistoryYet
  <2>12. AloneIsAsAsked'
    BY <1>inv, <1>types, <2>1, <2>2, <2>3, <2>4, <2>6, <1>alone
       DEF AloneIsAsAsked, Wrote
  <2>13. CountsUp'
    BY <1>inv, <1>types, <2>1, <2>2, <2>3, <2>4 DEF CountsUp, NumbersEnd
  <2>14. TakenByRival'
    BY <1>inv, <1>types, <2>1, <2>2, <2>3, <2>4, <2>5 DEF TakenByRival
  <2>15. RetriesAfterRival'
    BY <1>inv, <1>types, <2>1, <2>2, <2>3, <2>4, <2>5
       DEF RetriesAfterRival, HasNumber
  <2>16. PassedRival'
    BY <1>inv, <1>types, <2>1, <2>2, <2>3, <2>4, <2>5 DEF PassedRival
  <2>17. RaisesAfterTwoRivals'
    BY <1>inv, <2>1, <2>2, <2>3, <2>4 DEF RaisesAfterTwoRivals
  <2> QED  BY <2>2, <2>7, <2>8, <2>9, <2>10, <2>11, <2>12, <2>13, <2>14, <2>15,
          <2>16, <2>17 DEF DemoInv
<1>2. ASSUME NEW r \in Resets, ListRuns(r) PROVE DemoInv'
  <2>1. reset[r].pc = "list"
    BY <1>inv, <1>2 DEF ListRuns
  <2>2. /\ NextDemoRunId \in Numbers /\ NextDemoRunId \in Nat
        /\ \A n \in 1..LastMatching : runs[n] # None => n < NextDemoRunId
        /\ NextDemoRunId > LastMatching <=> NumbersEnd
    BY <1>inv, <1>2, <2>1, NextNumber DEF Numbers
  <2>3. DemoTypeOK'
    BY <1>inv, <1>2, <2>1, <2>2 DEF ListRuns, DemoTypeOK, ResetPc
  <2>4. /\ reset'[r].pc = "exists" /\ reset'[r].number = NextDemoRunId
        /\ reset'[r].retried = reset[r].retried
        /\ \A q \in Resets \ {r} : reset'[q] = reset[q]
    BY <1>inv, <1>2, <2>1, <2>2, <2>3 DEF ListRuns, DemoTypeOK
  <2>5. runs' = runs /\ edges' = edges /\ overlapped' = overlapped
    BY <1>inv, <1>2, <2>1, <2>2, <2>3, <2>4 DEF ListRuns
  <2>6. \A p \in Resets, m \in Numbers : TookIt(p, m) => TookIt(p, m)'
    BY <1>inv, <1>types, <2>1, <2>2, <2>3, <2>4, <2>5
       DEF TookIt, Settled, InProgress
  <2>7. \A p \in Resets : Alone(p)' => Alone(p)
    BY <2>1, <2>2, <2>3, <2>4, <2>5 DEF Alone
  <2>8. HasNumber'
    BY <1>inv, <2>1, <2>2, <2>3, <2>4, <2>5 DEF HasNumber
  <2>9. RunsAreWritten'
    BY <1>inv, <1>types, <2>1, <2>2, <2>3, <2>4, <2>5 DEF RunsAreWritten, Wrote
  <2>10. ProgressOverlaps'
    BY <1>inv, <1>pair, <2>1, <2>2, <2>3, <2>4, <2>5
       DEF ProgressOverlaps, InProgress
  <2>11. SharersOverlap'
    BY <1>inv, <1>pair, <2>1, <2>2, <2>3, <2>4, <2>5 DEF SharersOverlap, Wrote
  <2>12. NoHistoryYet'
    BY <1>inv, <1>types, <2>1, <2>2, <2>3, <2>4, <2>5, <2>7, <1>alone
       DEF NoHistoryYet
  <2>13. AloneIsAsAsked'
    BY <1>inv, <1>types, <2>1, <2>2, <2>3, <2>4, <2>5, <2>7, <1>alone
       DEF AloneIsAsAsked, Wrote
  <2>14. CountsUp'
    BY <1>inv, <1>types, <2>1, <2>2, <2>3, <2>4, <2>5 DEF CountsUp, NumbersEnd
  <2>15. TakenByRival'
    <3> SUFFICES ASSUME NEW p \in Resets, NEW m \in Numbers,
                        reset'[p].pc = "exists", reset'[p].number = m, runs'[m] # None
                 PROVE  TookIt(p, m)'
      BY DEF TakenByRival
    <3>1. CASE p = r
      <4>1. NextDemoRunId > LastMatching
        BY <1>types, <2>2, <2>4, <2>5, <3>1 DEF Numbers
      <4> QED  BY <2>4, <3>1, <4>1 DEF TookIt
    <3>2. CASE p # r
      BY <1>inv, <2>4, <2>5, <2>6, <3>2 DEF TakenByRival
    <3> QED  BY <3>1, <3>2
  <2>16. RetriesAfterRival'
    BY <1>inv, <1>types, <2>1, <2>2, <2>3, <2>4, <2>5, <2>6 DEF RetriesAfterRival
  <2>17. PassedRival'
    <3> SUFFICES ASSUME NEW p \in Resets, reset'[p].pc = "exists", reset'[p].retried
                 PROVE  \/ reset'[p].number > LastMatching
                        \/ \E m \in Numbers : /\ m < reset'[p].number /\ m <= LastMatching
                                              /\ TookIt(p, m)'
      BY DEF PassedRival
    <3>1. CASE p = r
      <4> DEFINE m == reset[r].number
      <4>1. m \in Numbers /\ runs[m] # None /\ TookIt(r, m)
        BY <1>inv, <1>types, <2>1, <2>4, <3>1 DEF RetriesAfterRival
      <4>2. CASE m > LastMatching
        BY <1>inv, <1>types, <2>2, <2>4, <3>1, <4>1, <4>2 DEF CountsUp
      <4>3. CASE m <= LastMatching
        <5>1. m \in 1..LastMatching
          BY <1>types, <4>1, <4>3 DEF Numbers
        <5>2. m < NextDemoRunId
          BY <2>2, <4>1, <5>1
        <5> HIDE DEF m
        <5> QED  BY <2>4, <2>6, <3>1, <4>1, <4>3, <5>2
      <4> QED  BY <1>types, <4>1, <4>2, <4>3
    <3>2. CASE p # r
      BY <1>inv, <2>4, <2>5, <2>6, <3>2 DEF PassedRival
    <3> QED  BY <3>1, <3>2
  <2>18. RaisesAfterTwoRivals'
    BY <1>inv, <2>1, <2>2, <2>3, <2>4, <2>5 DEF RaisesAfterTwoRivals
  <2> QED  BY <2>3, <2>8, <2>9, <2>10, <2>11, <2>12, <2>13, <2>14, <2>15, <2>16,
          <2>17, <2>18 DEF DemoInv
<1>3. ASSUME NEW r \in Resets, CheckExists(r) PROVE DemoInv'
  <2>1. reset[r].pc = "exists" /\ reset[r].number \in Numbers
    BY <1>inv, <1>3 DEF CheckExists, DemoTypeOK, HasNumber
  <2>2. DemoTypeOK'
    <3>1. \E pc \in {"write", "list", "raised"}, b \in BOOLEAN :
            reset' = [reset EXCEPT ![r] =
                        [pc |-> pc, number |-> reset[r].number, retried |-> b]]
      BY <1>inv, <1>3 DEF CheckExists, Goto, RetryFrom, DemoTypeOK
    <3>2. runs' = runs /\ edges' = edges /\ overlapped' = overlapped
      BY <1>3 DEF CheckExists
    <3> QED  BY <1>inv, <1>types, <2>1, <3>1, <3>2 DEF DemoTypeOK, ResetPc
  <2>3. /\ reset'[r].number = reset[r].number
        /\ \/ /\ reset'[r].pc = "write" /\ runs[reset[r].number] = None
              /\ reset'[r].retried = reset[r].retried
           \/ /\ reset'[r].pc = "list" /\ runs[reset[r].number] # None
              /\ reset'[r].retried
           \/ /\ reset'[r].pc = "raised" /\ runs[reset[r].number] # None
              /\ reset[r].retried /\ reset'[r].retried
        /\ \A q \in Resets \ {r} : reset'[q] = reset[q]
    BY <1>inv, <1>3, <2>1, <2>2
       DEF CheckExists, Goto, Taken, Exists, RetryFrom, DemoTypeOK
  <2>4. runs' = runs /\ edges' = edges /\ overlapped' = overlapped
    BY <1>inv, <1>3, <2>1, <2>2, <2>3 DEF CheckExists
  <2>5. \A p \in Resets, m \in Numbers : TookIt(p, m) => TookIt(p, m)'
    BY <1>inv, <1>types, <2>1, <2>2, <2>3, <2>4 DEF TookIt, Settled, InProgress
  <2>6. \A p \in Resets : Alone(p)' => Alone(p)
    BY <2>1, <2>2, <2>3, <2>4 DEF Alone
  <2>7. HasNumber'
    BY <1>inv, <2>1, <2>2, <2>3, <2>4 DEF HasNumber
  <2>8. RunsAreWritten'
    BY <1>inv, <1>types, <2>1, <2>2, <2>3, <2>4 DEF RunsAreWritten, Wrote
  <2>9. ProgressOverlaps'
    BY <1>inv, <1>pair, <2>1, <2>2, <2>3, <2>4 DEF ProgressOverlaps, InProgress
  <2>10. SharersOverlap'
    <3> SUFFICES ASSUME NEW p \in Resets, NEW q \in Resets, p # q,
                        reset'[p].number = reset'[q].number,
                        reset'[p].pc = "write" \/ Wrote(p)', Wrote(q)'
                 PROVE  {p, q} \in overlapped'
      BY DEF SharersOverlap
    <3>1. q # r /\ Wrote(q) /\ runs[reset[q].number] # None
      BY <1>inv, <2>3 DEF Wrote, RunsAreWritten
    <3>2. p # r
      BY <2>3, <3>1 DEF Wrote
    <3> QED  BY <1>inv, <2>3, <2>4, <3>1, <3>2 DEF SharersOverlap, Wrote
  <2>11. NoHistoryYet'
    <3>1. \A n \in Numbers : runs[n] = None => edges[n] = {}
      BY <1>inv DEF RunsAreWritten
    <3> QED  BY <1>inv, <2>1, <2>3, <2>4, <2>6, <3>1 DEF NoHistoryYet
  <2>12. AloneIsAsAsked'
    BY <1>inv, <1>types, <2>1, <2>2, <2>3, <2>4, <2>6, <1>alone
       DEF AloneIsAsAsked, Wrote
  <2>13. CountsUp'
    BY <1>inv, <1>types, <2>1, <2>2, <2>3, <2>4 DEF CountsUp, NumbersEnd
  <2>14. TakenByRival'
    BY <1>inv, <1>types, <2>1, <2>2, <2>3, <2>4, <2>5 DEF TakenByRival
  <2>15. RetriesAfterRival'
    BY <1>inv, <1>types, <2>1, <2>2, <2>3, <2>4, <2>5
       DEF RetriesAfterRival, TakenByRival
  <2>16. PassedRival'
    BY <1>inv, <1>types, <2>1, <2>2, <2>3, <2>4, <2>5 DEF PassedRival
  <2>17. RaisesAfterTwoRivals'
    <3> SUFFICES ASSUME NEW p \in Resets, reset'[p].pc = "raised"
                 PROVE  \/ reset'[p].number > LastMatching
                        \/ \E a, b \in Resets : /\ a # b
                                              /\ {p, a} \in overlapped'
                                              /\ {p, b} \in overlapped'
      BY DEF RaisesAfterTwoRivals
    <3>1. CASE p # r
      BY <1>inv, <2>3, <2>4, <3>1 DEF RaisesAfterTwoRivals
    <3>2. PICK n \in Numbers : n = reset[r].number
      BY <2>1
    <3>3. n \in Nat /\ LastMatching \in Nat
      BY <1>types
    <3>4. CASE p = r /\ n > LastMatching
      BY <2>3, <3>2, <3>4
    <3>5. CASE p = r /\ ~(n > LastMatching)
      <4>1. runs[n] # None /\ reset[r].retried /\ reset[r].pc = "exists"
        BY <2>1, <2>3, <3>2, <3>5
      <4>2. TookIt(r, n)
        BY <1>inv, <3>2, <4>1 DEF TakenByRival
      <4>3. PICK a \in Resets : {r, a} \in overlapped /\ reset[a].number = n
        BY <3>5, <4>2 DEF TookIt
      <4>4. PICK m \in Numbers : m < n /\ m <= LastMatching /\ TookIt(r, m)
        BY <1>inv, <3>2, <3>5, <4>1 DEF PassedRival
      <4>5. m \in Nat /\ ~(m > LastMatching) /\ m # n
        BY <1>types, <3>3, <4>4
      <4>6. PICK b \in Resets : {r, b} \in overlapped /\ reset[b].number = m
        BY <4>4, <4>5 DEF TookIt
      <4>7. a # b
        BY <4>3, <4>5, <4>6
      <4> QED  BY <2>4, <3>5, <4>3, <4>6, <4>7
    <3> QED  BY <3>1, <3>4, <3>5
  <2> QED  BY <2>2, <2>7, <2>8, <2>9, <2>10, <2>11, <2>12, <2>13, <2>14, <2>15,
          <2>16, <2>17 DEF DemoInv
<1>4. ASSUME NEW r \in Resets, WriteSeed(r) PROVE DemoInv'
  <2>1. reset[r].pc = "write" /\ reset[r].number \in Numbers
    BY <1>inv, <1>4 DEF WriteSeed, DemoTypeOK, HasNumber
  <2>2. DemoTypeOK'
    BY <1>inv, <1>4, <2>1
       DEF WriteSeed, AfterSeeding, Goto, DemoTypeOK, ResetPc, RunDocument
  <2>3. /\ reset'[r].number = reset[r].number
        /\ reset'[r].pc = IF WantProof[r] THEN "arm" ELSE "answered"
        /\ reset'[r].retried = reset[r].retried
        /\ \A q \in Resets \ {r} : reset'[q] = reset[q]
    BY <1>inv, <1>4, <2>1, <2>2 DEF WriteSeed, AfterSeeding, Goto, DemoTypeOK
  <2>4. /\ runs'[reset[r].number] # None
        /\ runs'[reset[r].number].version = 0 /\ runs'[reset[r].number].fault = "OFF"
        /\ \A n \in Numbers \ {reset[r].number} : runs'[n] = runs[n]
        /\ edges' = edges /\ overlapped' = overlapped
    BY <1>inv, <1>4, <2>1, <2>2, <2>3 DEF WriteSeed, DemoTypeOK, RunDocument
  <2>5. \A p \in Resets, m \in Numbers : TookIt(p, m) => TookIt(p, m)'
    BY <1>inv, <1>types, <2>1, <2>2, <2>3, <2>4 DEF TookIt, Settled, InProgress
  <2>6. \A p \in Resets : Alone(p)' => Alone(p)
    BY <2>1, <2>2, <2>3, <2>4 DEF Alone
  <2>7. HasNumber'
    BY <1>inv, <2>1, <2>2, <2>3, <2>4 DEF HasNumber
  <2>8. RunsAreWritten'
    BY <1>inv, <1>types, <2>1, <2>2, <2>3, <2>4 DEF RunsAreWritten, Wrote
  <2>9. ProgressOverlaps'
    BY <1>inv, <1>pair, <2>1, <2>2, <2>3, <2>4 DEF ProgressOverlaps, InProgress
  <2>10. SharersOverlap'
    BY <1>inv, <1>pair, <2>1, <2>2, <2>3, <2>4
       DEF SharersOverlap, Wrote, ProgressOverlaps, InProgress
  <2>11. NoHistoryYet'
    BY <1>inv, <1>types, <2>1, <2>2, <2>3, <2>4, <2>6, <1>alone DEF NoHistoryYet
  <2>12. AloneIsAsAsked'
    <3> SUFFICES ASSUME NEW p \in Resets, NEW n \in Numbers, Alone(p)', Wrote(p)',
                        reset'[p].number = n
                 PROVE  /\ runs'[n].version = Cardinality(edges'[n])
                        /\ runs'[n].fault = IF WantProof[p] /\ reset'[p].pc = "answered"
                                            THEN "ARMED" ELSE "OFF"
                        /\ reset'[p].pc = "arm" => WantProof[p]
      BY DEF AloneIsAsAsked
    <3>1. CASE p = r
      <4>1. edges[n] = {}
        BY <1>inv, <2>1, <2>3, <2>6, <3>1 DEF NoHistoryYet
      <4> QED  BY <1>types, <2>3, <2>4, <3>1, <4>1, FS_EmptySet
    <3>2. CASE p # r
      <4>1. Wrote(p) /\ Alone(p) /\ reset[p].number = n
        BY <2>3, <2>6, <3>2 DEF Wrote
      <4>2. n # reset[r].number
        BY <1>alone, <2>1, <3>2, <4>1
      <4> QED  BY <1>inv, <2>3, <2>4, <3>2, <4>1, <4>2 DEF AloneIsAsAsked
    <3> QED  BY <3>1, <3>2
  <2>13. CountsUp'
    BY <1>inv, <1>types, <2>1, <2>2, <2>3, <2>4 DEF CountsUp, NumbersEnd
  <2>14. TakenByRival'
    <3> SUFFICES ASSUME NEW p \in Resets, NEW n \in Numbers,
                        reset'[p].pc = "exists", reset'[p].number = n, runs'[n] # None
                 PROVE  TookIt(p, n)'
      BY DEF TakenByRival
    <3>1. p # r /\ reset[p].pc = "exists" /\ reset[p].number = n
      BY <2>3
    <3>2. CASE n = reset[r].number
      <4>1. {p, r} \in overlapped
        BY <1>inv, <2>1, <3>1 DEF ProgressOverlaps, InProgress
      <4>2. reset'[r].pc \in {"arm", "answered", "dead"}
        BY <2>3
      <4> QED  BY <2>3, <2>4, <3>2, <4>1, <4>2 DEF TookIt, Settled
    <3>3. CASE n # reset[r].number
      BY <1>inv, <2>4, <2>5, <3>1, <3>3 DEF TakenByRival
    <3> QED  BY <3>2, <3>3
  <2>15. RetriesAfterRival'
    BY <1>inv, <1>types, <2>1, <2>2, <2>3, <2>4, <2>5 DEF RetriesAfterRival
  <2>16. PassedRival'
    BY <1>inv, <1>types, <2>1, <2>2, <2>3, <2>4, <2>5 DEF PassedRival
  <2>17. RaisesAfterTwoRivals'
    BY <1>inv, <2>1, <2>2, <2>3, <2>4 DEF RaisesAfterTwoRivals
  <2> QED  BY <2>2, <2>7, <2>8, <2>9, <2>10, <2>11, <2>12, <2>13, <2>14, <2>15,
          <2>16, <2>17 DEF DemoInv
<1>5. ASSUME NEW r \in Resets, ArmFault(r) PROVE DemoInv'
  <2>1. /\ reset[r].pc = "arm" /\ reset[r].number \in Numbers
        /\ runs[reset[r].number] \in RunDocument
    BY <1>inv, <1>5 DEF ArmFault, DemoTypeOK, HasNumber, RunsAreWritten, Wrote
  <2>2. DemoTypeOK'
    BY <1>inv, <1>5, <2>1 DEF ArmFault, Goto, DemoTypeOK, ResetPc, RunDocument
  <2>3. /\ reset'[r].pc = "answered" /\ reset'[r].number = reset[r].number
        /\ reset'[r].retried = reset[r].retried
        /\ \A q \in Resets \ {r} : reset'[q] = reset[q]
    BY <1>inv, <1>5, <2>1, <2>2 DEF ArmFault, Goto, DemoTypeOK
  <2>4. /\ runs'[reset[r].number] # None
        /\ runs'[reset[r].number].version = runs[reset[r].number].version
        /\ runs'[reset[r].number].fault = "ARMED"
        /\ \A n \in Numbers \ {reset[r].number} : runs'[n] = runs[n]
        /\ edges' = edges /\ overlapped' = overlapped
    BY <1>inv, <1>5, <2>2, <2>3, <2>1 DEF ArmFault, DemoTypeOK, RunDocument
  <2>5. \A p \in Resets, m \in Numbers : TookIt(p, m) => TookIt(p, m)'
    BY <1>inv, <1>types, <2>1, <2>2, <2>3, <2>4 DEF TookIt, Settled, InProgress
  <2>6. \A p \in Resets : Alone(p)' => Alone(p)
    BY <2>1, <2>2, <2>3, <2>4 DEF Alone
  <2>7. HasNumber'
    BY <1>inv, <2>1, <2>2, <2>3, <2>4 DEF HasNumber
  <2>8. RunsAreWritten'
    BY <1>inv, <1>types, <2>1, <2>2, <2>3, <2>4 DEF RunsAreWritten, Wrote
  <2>9. ProgressOverlaps'
    BY <1>inv, <1>pair, <2>1, <2>2, <2>3, <2>4 DEF ProgressOverlaps, InProgress
  <2>10. SharersOverlap'
    BY <1>inv, <1>pair, <2>1, <2>2, <2>3, <2>4 DEF SharersOverlap, Wrote
  <2>11. NoHistoryYet'
    BY <1>inv, <1>types, <2>1, <2>2, <2>3, <2>4, <2>6, <1>alone DEF NoHistoryYet
  <2>12. AloneIsAsAsked'
    BY <1>inv, <1>types, <2>1, <2>2, <2>3, <2>4, <2>6, <1>alone
       DEF AloneIsAsAsked, Wrote
  <2>13. CountsUp'
    BY <1>inv, <1>types, <2>1, <2>2, <2>3, <2>4 DEF CountsUp, NumbersEnd
  <2>14. TakenByRival'
    BY <1>inv, <1>types, <2>1, <2>2, <2>3, <2>4, <2>5 DEF TakenByRival
  <2>15. RetriesAfterRival'
    BY <1>inv, <1>types, <2>1, <2>2, <2>3, <2>4, <2>5 DEF RetriesAfterRival
  <2>16. PassedRival'
    BY <1>inv, <1>types, <2>1, <2>2, <2>3, <2>4, <2>5 DEF PassedRival
  <2>17. RaisesAfterTwoRivals'
    BY <1>inv, <2>1, <2>2, <2>3, <2>4 DEF RaisesAfterTwoRivals
  <2> QED  BY <2>2, <2>7, <2>8, <2>9, <2>10, <2>11, <2>12, <2>13, <2>14, <2>15,
          <2>16, <2>17 DEF DemoInv
<1>6. ASSUME NEW r \in Resets, CutOff(r) PROVE DemoInv'
  <2>1. InProgress(r)
    BY <1>inv, <1>6 DEF CutOff
  <2>2. DemoTypeOK'
    BY <1>inv, <1>6, <2>1 DEF CutOff, Goto, DemoTypeOK, ResetPc
  <2>3. /\ reset'[r].pc = "dead" /\ reset'[r].number = reset[r].number
        /\ reset'[r].retried = reset[r].retried
        /\ \A q \in Resets \ {r} : reset'[q] = reset[q]
    BY <1>inv, <1>6, <2>1, <2>2 DEF CutOff, Goto, DemoTypeOK
  <2>4. runs' = runs /\ edges' = edges /\ overlapped' = overlapped
    BY <1>inv, <1>6, <2>1, <2>2, <2>3 DEF CutOff
  <2>5. \A p \in Resets, m \in Numbers : TookIt(p, m) => TookIt(p, m)'
    BY <1>inv, <1>types, <2>1, <2>2, <2>3, <2>4 DEF TookIt, Settled, InProgress
  <2>6. \A p \in Resets : Alone(p)' => Alone(p)
    BY <2>1, <2>2, <2>3, <2>4 DEF Alone
  <2>7. HasNumber'
    BY <1>inv, <2>1, <2>2, <2>3, <2>4 DEF HasNumber
  <2>8. RunsAreWritten'
    BY <1>inv, <1>types, <2>1, <2>2, <2>3, <2>4
       DEF RunsAreWritten, Wrote, InProgress
  <2>9. ProgressOverlaps'
    BY <1>inv, <1>pair, <2>1, <2>2, <2>3, <2>4 DEF ProgressOverlaps, InProgress
  <2>10. SharersOverlap'
    BY <1>inv, <1>pair, <2>1, <2>2, <2>3, <2>4 DEF SharersOverlap, Wrote
  <2>11. NoHistoryYet'
    BY <1>inv, <1>types, <2>1, <2>2, <2>3, <2>4, <2>6, <1>alone DEF NoHistoryYet
  <2>12. AloneIsAsAsked'
    BY <1>inv, <1>types, <2>1, <2>2, <2>3, <2>4, <2>6, <1>alone
       DEF AloneIsAsAsked, Wrote
  <2>13. CountsUp'
    BY <1>inv, <1>types, <2>1, <2>2, <2>3, <2>4 DEF CountsUp, NumbersEnd
  <2>14. TakenByRival'
    BY <1>inv, <1>types, <2>1, <2>2, <2>3, <2>4, <2>5 DEF TakenByRival
  <2>15. RetriesAfterRival'
    BY <1>inv, <1>types, <2>1, <2>2, <2>3, <2>4, <2>5 DEF RetriesAfterRival
  <2>16. PassedRival'
    BY <1>inv, <1>types, <2>1, <2>2, <2>3, <2>4, <2>5 DEF PassedRival
  <2>17. RaisesAfterTwoRivals'
    BY <1>inv, <2>1, <2>2, <2>3, <2>4 DEF RaisesAfterTwoRivals
  <2> QED  BY <2>2, <2>7, <2>8, <2>9, <2>10, <2>11, <2>12, <2>13, <2>14, <2>15,
          <2>16, <2>17 DEF DemoInv
<1>7. ASSUME NEW n \in Numbers, NEW q \in Requests, Transfer(n, q) PROVE DemoInv'
  <2>1. PICK r \in Resets : reset[r].pc = "answered" /\ reset[r].number = n
    BY <1>inv, <1>7 DEF Transfer
  <2>2. runs[n] \in RunDocument /\ IsFiniteSet(edges[n])
    BY <1>inv, <1>7, <2>1 DEF DemoTypeOK, RunsAreWritten, Wrote
  <2>3. DemoTypeOK'
    BY <1>inv, <1>7, <2>1, <2>2 DEF Transfer, DemoTypeOK, RunDocument
  <2>4. /\ runs'[n] # None
        /\ runs'[n].version = runs[n].version + 1 /\ runs'[n].fault = runs[n].fault
        /\ \A m \in Numbers \ {n} : runs'[m] = runs[m] /\ edges'[m] = edges[m]
        /\ reset' = reset /\ overlapped' = overlapped
    BY <1>inv, <1>7, <2>1, <2>3, <2>2 DEF Transfer, DemoTypeOK, RunDocument
  <2>5. IsFiniteSet(edges'[n]) /\ Cardinality(edges'[n]) = Cardinality(edges[n]) + 1
    BY <1>inv, <1>7, <2>1, <2>3, <2>4, <2>2, FS_AddElement
       DEF Transfer, DemoTypeOK
  <2>6. \A p \in Resets, m \in Numbers : TookIt(p, m) => TookIt(p, m)'
    BY <1>inv, <1>types, <2>1, <2>2, <2>3, <2>4, <2>5
       DEF TookIt, Settled, InProgress
  <2>7. \A p \in Resets : Alone(p)' => Alone(p)
    BY <2>1, <2>2, <2>3, <2>4, <2>5 DEF Alone
  <2>8. HasNumber'
    BY <1>inv, <2>1, <2>2, <2>3, <2>4, <2>5 DEF HasNumber
  <2>9. RunsAreWritten'
    BY <1>inv, <1>types, <2>1, <2>2, <2>3, <2>4, <2>5 DEF RunsAreWritten, Wrote
  <2>10. ProgressOverlaps'
    BY <1>inv, <1>pair, <2>1, <2>2, <2>3, <2>4, <2>5
       DEF ProgressOverlaps, InProgress
  <2>11. SharersOverlap'
    BY <1>inv, <1>pair, <2>1, <2>2, <2>3, <2>4, <2>5 DEF SharersOverlap, Wrote
  <2>12. NoHistoryYet'
    BY <1>inv, <1>types, <2>1, <2>2, <2>3, <2>4, <2>5, <2>7, <1>alone
       DEF NoHistoryYet, Wrote
  <2>13. AloneIsAsAsked'
    BY <1>inv, <1>types, <2>1, <2>2, <2>3, <2>4, <2>5, <2>7, <1>alone
       DEF AloneIsAsAsked, Wrote
  <2>14. CountsUp'
    BY <1>inv, <1>types, <2>1, <2>2, <2>3, <2>4, <2>5 DEF CountsUp, NumbersEnd
  <2>15. TakenByRival'
    BY <1>inv, <1>types, <2>1, <2>2, <2>3, <2>4, <2>5, <2>6 DEF TakenByRival
  <2>16. RetriesAfterRival'
    BY <1>inv, <1>types, <2>1, <2>2, <2>3, <2>4, <2>5, <2>6 DEF RetriesAfterRival
  <2>17. PassedRival'
    BY <1>inv, <1>types, <2>1, <2>2, <2>3, <2>4, <2>5, <2>6 DEF PassedRival
  <2>18. RaisesAfterTwoRivals'
    BY <1>inv, <2>1, <2>2, <2>3, <2>4, <2>5 DEF RaisesAfterTwoRivals
  <2> QED  BY <2>3, <2>8, <2>9, <2>10, <2>11, <2>12, <2>13, <2>14, <2>15, <2>16,
          <2>17, <2>18 DEF DemoInv
<1>8. ASSUME UNCHANGED demoVars PROVE DemoInv'
  <2>1. /\ runs' = runs /\ edges' = edges /\ reset' = reset /\ overlapped' = overlapped
    BY <1>8 DEF demoVars
  <2>2. \A p \in Resets, m \in Numbers : TookIt(p, m) => TookIt(p, m)'
    BY <2>1 DEF TookIt, Settled
  <2>3. DemoTypeOK' /\ HasNumber' /\ RunsAreWritten' /\ CountsUp'
    BY <1>inv, <2>1
       DEF DemoTypeOK, HasNumber, RunsAreWritten, Wrote, CountsUp, NumbersEnd
  <2>4. ProgressOverlaps' /\ SharersOverlap' /\ NoHistoryYet' /\ AloneIsAsAsked'
    BY <1>inv, <2>1
       DEF ProgressOverlaps, InProgress, SharersOverlap, NoHistoryYet,
                      AloneIsAsAsked, Wrote, Alone
  <2>5. TakenByRival' /\ RetriesAfterRival' /\ PassedRival'
    BY <1>inv, <2>1, <2>2 DEF TakenByRival, RetriesAfterRival, PassedRival
  <2>6. RaisesAfterTwoRivals'
    BY <1>inv, <2>1 DEF RaisesAfterTwoRivals
  <2> QED  BY <2>3, <2>4, <2>5, <2>6 DEF DemoInv
<1> QED  BY <1>1, <1>2, <1>3, <1>4, <1>5, <1>6, <1>7, <1>8 DEF DemoNext

LEMMA DemoInvAlways == DemoSpec => []DemoInv
  BY DemoInvInit, DemoInvNext, PTL DEF DemoSpec

\* Type correctness of the runs and of the resets' locals.
THEOREM DemoTypeCorrect == DemoSpec => []DemoTypeOK
<1>1. DemoInv => DemoTypeOK
  BY DEF DemoInv
<1> QED  BY <1>1, DemoInvAlways, PTL

\* Resets that did not overlap are given different runs.
THEOREM RunsAreFreshAlways == DemoSpec => []RunsAreFresh
<1>1. DemoInv => RunsAreFresh
  BY DEF DemoInv, SharersOverlap, RunsAreFresh, Answered, Wrote
<1> QED  BY <1>1, DemoInvAlways, PTL

\* A run that was reset by itself is as asked for, without a foreign history.
THEOREM RunsAreAsAskedAlways == DemoSpec => []RunsAreAsAsked
<1>1. DemoInv => RunsAreAsAsked
  <2> SUFFICES ASSUME DemoInv, NEW r \in Resets, Answered(r),
                      \A q \in Resets : {r, q} \notin overlapped
               PROVE  /\ runs[reset[r].number].fault =
                             IF WantProof[r] THEN "ARMED" ELSE "OFF"
                      /\ runs[reset[r].number].version =
                             Cardinality(edges[reset[r].number])
    BY DEF RunsAreAsAsked
  <2>1. reset[r].number \in Numbers
    BY DEF DemoInv, DemoTypeOK, HasNumber, Answered
  <2>2. Alone(r) /\ Wrote(r) /\ reset[r].pc = "answered"
    BY DEF Alone, Wrote, Answered
  <2> QED  BY <2>1, <2>2 DEF DemoInv, AloneIsAsAsked
<1> QED  BY <1>1, DemoInvAlways, PTL

\* A reset gives up only after two rivals or where the numbers end.
THEOREM RaisesAfterTwoRivalsAlways == DemoSpec => []RaisesAfterTwoRivals
<1>1. DemoInv => RaisesAfterTwoRivals
  BY DEF DemoInv
<1> QED  BY <1>1, DemoInvAlways, PTL

\* A history is lost only between two resets that overlapped.
THEOREM OnlyOverlapRewindsAlways == DemoSpec => OnlyOverlapRewinds
<1> DEFINE Blamed ==
      \A n \in Numbers : Rewound(n) =>
          \E r, q \in Resets :
             /\ {r, q} \in overlapped
             /\ reset[r].pc = "write" /\ reset[r].number = n
             /\ reset[q].pc = "answered" /\ reset[q].number = n
<1>1. DemoInv /\ [DemoNext]_demoVars => [Blamed]_demoVars
  <2> SUFFICES ASSUME DemoInv, [DemoNext]_demoVars, NEW n \in Numbers, Rewound(n)
               PROVE  \E r, q \in Resets :
                         /\ {r, q} \in overlapped
                         /\ reset[r].pc = "write" /\ reset[r].number = n
                         /\ reset[q].pc = "answered" /\ reset[q].number = n
    OBVIOUS
  <2> USE NoDocument, DemoConstants
  <2>1. DemoTypeOK /\ runs[n] # None /\ runs[n] \in RunDocument
    BY DEF DemoInv, DemoTypeOK, Rewound, Exists
  <2>2. PICK r \in Resets : WriteSeed(r)
    <3>1. ASSUME NEW r \in Resets,
                 StartReset(r) \/ ListRuns(r) \/ CheckExists(r) \/ CutOff(r)
          PROVE  FALSE
      BY <2>1, <3>1
         DEF StartReset, ListRuns, CheckExists, CutOff, Rewound, RunDocument
    <3>2. ASSUME NEW r \in Resets, ArmFault(r) PROVE FALSE
      BY <2>1, <3>2 DEF ArmFault, DemoTypeOK, Rewound, RunDocument
    <3>3. ASSUME NEW m \in Numbers, NEW q \in Requests, Transfer(m, q) PROVE FALSE
      BY <2>1, <3>3 DEF Transfer, DemoTypeOK, Rewound, RunDocument
    <3>4. ASSUME UNCHANGED demoVars PROVE FALSE
      BY <2>1, <3>4 DEF demoVars, Rewound, RunDocument
    <3> QED  BY <3>1, <3>2, <3>3, <3>4 DEF DemoNext
  <2>3. reset[r].pc = "write" /\ reset[r].number = n
    BY <2>1, <2>2 DEF WriteSeed, DemoTypeOK, Rewound, RunDocument
  <2>4. runs[n].version > 0
    BY <2>1, <2>2, <2>3 DEF WriteSeed, DemoTypeOK, Rewound, RunDocument
  <2>5. PICK q \in Resets : reset[q].pc = "answered" /\ reset[q].number = n
    BY <2>1, <2>4 DEF DemoInv, RunsAreWritten
  <2>6. {r, q} \in overlapped
    BY <2>3, <2>5 DEF DemoInv, SharersOverlap, Wrote
  <2> QED  BY <2>3, <2>5, <2>6
<1> QED  BY <1>1, DemoInvAlways, PTL DEF DemoSpec, OnlyOverlapRewinds

=============================================================================
