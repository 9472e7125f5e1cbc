-------------------------- MODULE RepositoryProofs --------------------------
(***************************************************************************)
(* What the repository promises holds for every set of workers, shifts,    *)
(* events and parses, for every bound, and for arbitrary callers.          *)
(***************************************************************************)
EXTENDS RepositoryProperties, SequenceTheorems, NaturalNumbers, TLAPS

-----------------------------------------------------------------------------
(* Type correctness.                                                       *)

\* An intent of a request names shifts, workers and requests or nothing, also
\* after a confirmation completed it.
LEMMA IntentFields ==
    ASSUME NEW e \in Events, NEW i \in Intents(e)
    PROVE  /\ i.shift \in Shifts \cup {None}
           /\ i.from \in Workers \cup {None}
           /\ i.to \in Workers \cup {None}
<1>1. StorableParses(e) \subseteq StructuredIntent
  BY ParsesWellFormed DEF StorableParses
<1>2. CASE i \in StorableParses(e)
  BY <1>1, <1>2 DEF StructuredIntent, Optional
<1>3. ASSUME NEW j \in StorableParses(e), NEW w \in Workers, i = Confirmed(j, w)
      PROVE  /\ i.shift \in Shifts \cup {None}
             /\ i.from \in Workers \cup {None}
             /\ i.to \in Workers \cup {None}
  BY <1>1, <1>3 DEF StructuredIntent, Optional, Confirmed
<1> QED
  BY <1>2, <1>3 DEF Intents, StorableIntents

\* The edges every ledger starts with are well typed.
LEMMA InitialEdges ==
    ASSUME NEW s \in Shifts
    PROVE  InitialEdge(s) \in CustodyLedgerEvent
BY SeedWellFormed DEF InitialEdge, CustodyLedgerEvent, LedgerId, Optional

\* Whatever command SomeTransfer builds is a well-typed TransferCommit.
LEMMA TransfersAreCommits ==
    ASSUME RepoTypeOK, SomeTransfer
    PROVE  \E c \in TransferCommit : ApplyTransfer(c)
<1>1. PICK e \in Events : \E i \in Intents(e), sv \in 0..scheduleVersion, h \in ledger :
        /\ None \notin {i.shift, i.from, i.to}
        /\ \E v \in 0..shifts[i.shift].version :
             ApplyTransfer([request |-> e, shift |-> i.shift,
                            from |-> i.from, to |-> i.to,
                            expected_schedule_version |-> sv,
                            expected_shift_version    |-> v,
                            expected_custody_head     |-> h.id])
  BY DEF SomeTransfer
<1>2. PICK i \in Intents(e), sv \in 0..scheduleVersion, h \in ledger :
        /\ None \notin {i.shift, i.from, i.to}
        /\ \E v \in 0..shifts[i.shift].version :
             ApplyTransfer([request |-> e, shift |-> i.shift,
                            from |-> i.from, to |-> i.to,
                            expected_schedule_version |-> sv,
                            expected_shift_version    |-> v,
                            expected_custody_head     |-> h.id])
  BY <1>1
<1>3. PICK v \in 0..shifts[i.shift].version :
             ApplyTransfer([request |-> e, shift |-> i.shift,
                            from |-> i.from, to |-> i.to,
                            expected_schedule_version |-> sv,
                            expected_shift_version    |-> v,
                            expected_custody_head     |-> h.id])
  BY <1>2
<1>4. /\ i.shift \in Shifts
      /\ i.from \in Workers
      /\ i.to \in Workers
  BY <1>2, IntentFields
<1>5. /\ sv \in Nat
      /\ v \in Nat
      /\ h.id \in LedgerId
  BY <1>4 DEF RepoTypeOK, ShiftDocument, CustodyLedgerEvent
<1> QED
  BY <1>3, <1>4, <1>5 DEF TransferCommit

\* The edge a commit writes is well typed.
LEMMA NewEdgeTyped ==
    ASSUME NEW c \in TransferCommit
    PROVE  /\ NewEdge(c) \in CustodyLedgerEvent
           /\ TransferredShift(c) \in ShiftDocument
           /\ NewLedgerId(c) \in LedgerId
BY DEF TransferCommit, NewEdge, NewLedgerId, TransferredShift, CustodyLedgerEvent,
       ShiftDocument, LedgerId, Optional

\* One step of the repository keeps the documents well typed.
LEMMA TypeStep ==
    ASSUME RepoTypeOK, [RepoNext]_repoVars
    PROVE  RepoTypeOK'
<1> USE DEF RepoTypeOK
<1>1. CASE SomeTransfer
  <2>1. PICK c \in TransferCommit : ApplyTransfer(c)
    BY <1>1, TransfersAreCommits
  <2>2. scheduleVersion' \in Nat /\ ledger' \subseteq CustodyLedgerEvent
    BY <2>1, NewEdgeTyped DEF ApplyTransfer, TransferCommit
  <2>3. shifts' \in [Shifts -> ShiftDocument]
    BY <2>1, NewEdgeTyped DEF ApplyTransfer
  <2>4. events' \in [Events -> EventDocument]
    <3>1. c.request \in Events /\ NewLedgerId(c) \in Optional(LedgerId)
      BY NewEdgeTyped DEF TransferCommit, Optional
    <3>2. \A d \in EventDocument :
            [d EXCEPT !.status = "APPLIED", !.applied = NewLedgerId(c)]
               \in EventDocument
      BY <3>1 DEF EventDocument, RequestState
    <3>3. events' = [events EXCEPT ![c.request] =
                       [@ EXCEPT !.status = "APPLIED", !.applied = NewLedgerId(c)]]
      BY <2>1 DEF ApplyTransfer
    <3> QED
      BY <3>1, <3>2, <3>3
  <2> QED
    BY <2>1, <2>2, <2>3, <2>4 DEF ApplyTransfer
<1>2. CASE SomeSave
  <2>1. PICK e \in Events, st \in SavedStates :
          \E i \in Intents(e) \cup {events[e].intent}, a \in AppliedIds(e) :
            SaveRequest(e, st, i, a)
    BY <1>2 DEF SomeSave
  <2>2. PICK i \in Intents(e) \cup {events[e].intent}, a \in AppliedIds(e) :
            SaveRequest(e, st, i, a)
    BY <2>1
  <2>3. /\ st \in RequestState
        /\ i \in Optional(UNION {Intents(x) : x \in Events})
        /\ a \in Optional(LedgerId)
    BY RepoBounds DEF AppliedIds, CustodyLedgerEvent, EventDocument, Optional
  <2>4. events' \in [Events -> EventDocument]
    BY <2>2, <2>3 DEF SaveRequest, EventDocument
  <2> QED
    BY <2>2, <2>4 DEF SaveRequest
<1>3. CASE SomeVerification
  <2>1. PICK e \in Events, x \in ledger : x.request = e /\ SaveVerification(e, x.id)
    BY <1>3 DEF SomeVerification
  <2>2. CASE IsVerified(e)
    BY <2>1, <2>2 DEF SaveVerification, repoVars
  <2>3. CASE ~IsVerified(e)
    <3>1. PICK y \in ledger :
             /\ verifications' = verifications \cup
                  {[request          |-> e,
                    applied          |-> y.id,
                    shift            |-> y.shift,
                    to               |-> y.to,
                    shift_version    |-> y.shift_version,
                    schedule_version |-> y.schedule_version]}
             /\ events' = [events EXCEPT ![e].status = "VERIFIED", ![e].attested = TRUE]
             /\ UNCHANGED <<scheduleVersion, shifts, fault, ledger, noops>>
      BY <2>1, <2>3 DEF SaveVerification
    <3>2. verifications' \subseteq Verification
      BY <3>1 DEF Verification, CustodyLedgerEvent
    <3>3. events' \in [Events -> EventDocument]
      BY <3>1 DEF EventDocument, RequestState
    <3> QED
      BY <3>1, <3>2, <3>3
  <2> QED
    BY <2>2, <2>3
<1>4. CASE SomeSchedule
  <2>1. PICK e \in Events, g \in 0..MaxGeneration : PersistSchedule(e, g)
    BY <1>4 DEF SomeSchedule
  <2>2. events' \in [Events -> EventDocument]
    BY <2>1, RepoBounds DEF PersistSchedule, EventDocument, repoVars
  <2> QED
    BY <2>1, <2>2 DEF PersistSchedule, repoVars
<1>5. CASE SomeConfirmation
  <2>1. PICK t \in Events, w \in Workers, g \in 0..MaxGeneration :
          RecordConfirmation(ConfirmingEvent, t, w, g)
    BY <1>5 DEF SomeConfirmation
  <2>2. ConfirmingEvent \in Events
    BY <1>5, SeedWellFormed DEF SomeConfirmation
  <2>3. [source |-> ConfirmingEvent, by |-> w] \in Evidence
    BY <2>2 DEF Evidence
  <2>4. g + 1 \in Nat
    BY RepoBounds
  <2>5. events' \in [Events -> EventDocument]
    BY <2>1, <2>2, <2>3, <2>4 DEF RecordConfirmation, EventDocument, Optional, repoVars
  <2> QED
    BY <2>1, <2>5 DEF RecordConfirmation, repoVars
<1>6. CASE SomeReliabilityStep
  <2>1. PICK e \in Events :
          \/ ConsumeFailureInjection(e)
          \/ \E g \in 0..MaxGeneration : RecordNoOp(e, g)
    BY <1>6 DEF SomeReliabilityStep
  <2>2. CASE ConsumeFailureInjection(e)
    BY <2>2 DEF ConsumeFailureInjection
  <2>3. ASSUME NEW g \in 0..MaxGeneration, RecordNoOp(e, g)
        PROVE  RepoTypeOK'
    <3>1. [event |-> e, generation |-> g, applied |-> events[e].applied] \in NoOp
      BY <2>3, RepoBounds DEF RecordNoOp, EffectReadsBack, NoOp, EventDocument, Optional
    <3> QED
      BY <2>3, <3>1 DEF RecordNoOp, repoVars
  <2> QED
    BY <2>1, <2>2, <2>3
<1>7. CASE ConfigureFailureInjection
  BY <1>7 DEF ConfigureFailureInjection
<1>8. CASE UNCHANGED repoVars
  BY <1>8 DEF repoVars
<1> QED
  BY <1>1, <1>2, <1>3, <1>4, <1>5, <1>6, <1>7, <1>8 DEF RepoNext

\* The seeded documents are well typed.
LEMMA TypeInit == RepoInit => RepoTypeOK
<1> SUFFICES ASSUME RepoInit PROVE RepoTypeOK
  OBVIOUS
<1>1. ledger \subseteq CustodyLedgerEvent
  BY InitialEdges DEF RepoInit
<1>2. shifts \in [Shifts -> ShiftDocument]
  BY SeedWellFormed DEF RepoInit, InitialEdge, ShiftDocument, LedgerId
<1>3. events \in [Events -> EventDocument]
  BY DEF RepoInit, SeededEvent, EventDocument, RequestState, Optional
<1> QED
  BY <1>1, <1>2, <1>3 DEF RepoInit, RepoTypeOK

\* Type correctness of the run's documents under arbitrary callers.
THEOREM RepoTypeCorrect == RepoSpec => []RepoTypeOK
BY TypeInit, TypeStep, PTL DEF RepoSpec

-----------------------------------------------------------------------------
(* Custody.  The invariant is inductive as a whole: the chain of a shift    *)
(* stays linear because no edge is ahead of the run document, and the run   *)
(* document stays true because the commit compares all four of its fields.  *)

\* Only a commit touches custody.
LEMMA CustodyFrame ==
    ASSUME RepoTypeOK, [RepoNext]_repoVars
    PROVE  \/ \E c \in TransferCommit : ApplyTransfer(c)
           \/ UNCHANGED <<scheduleVersion, shifts, ledger>>
<1>1. CASE SomeTransfer
  BY <1>1, TransfersAreCommits
<1>2. CASE SomeSave
  BY <1>2 DEF SomeSave, SaveRequest
<1>3. CASE SomeVerification
  BY <1>3 DEF SomeVerification, SaveVerification, repoVars
<1>4. CASE SomeSchedule
  BY <1>4 DEF SomeSchedule, PersistSchedule, repoVars
<1>5. CASE SomeConfirmation
  BY <1>5 DEF SomeConfirmation, RecordConfirmation, repoVars
<1>6. CASE SomeReliabilityStep
  BY <1>6 DEF SomeReliabilityStep, ConsumeFailureInjection, RecordNoOp, repoVars
<1>7. CASE ConfigureFailureInjection
  BY <1>7 DEF ConfigureFailureInjection
<1>8. CASE UNCHANGED repoVars
  BY <1>8 DEF repoVars
<1> QED
  BY <1>1, <1>2, <1>3, <1>4, <1>5, <1>6, <1>7, <1>8 DEF RepoNext

\* The edge a commit writes continues the head of its shift, one version and
\* one schedule version later, under an id nobody used.
LEMMA NewEdgeFollowsHead ==
    ASSUME RepoTypeOK, CustodyInv,
           NEW c \in TransferCommit, ApplyTransfer(c)
    PROVE  LET n == NewEdge(c) IN
           /\ n.shift = c.shift /\ n.request # None /\ n.to = c.to
           /\ n.id = NewLedgerId(c)
           /\ n.shift_version = shifts[c.shift].version + 1
           /\ n.schedule_version = scheduleVersion + 1
           /\ scheduleVersion' = scheduleVersion + 1
           /\ shifts' = [shifts EXCEPT ![c.shift] =
                            [owner |-> n.to, version |-> n.shift_version, head |-> n.id]]
           /\ \A x \in ledger : x.id # n.id
           /\ \E p \in ledger :
                /\ p.id = n.predecessor
                /\ p.shift = n.shift
                /\ p.to = n.from
                /\ p.shift_version + 1 = n.shift_version
                /\ p.schedule_version < n.schedule_version
<1> DEFINE n == NewEdge(c)
<1>1. c.shift \in Shifts /\ c.request \in Events
  BY DEF TransferCommit
<1>2. /\ scheduleVersion = c.expected_schedule_version
      /\ shifts[c.shift].version = c.expected_shift_version
      /\ shifts[c.shift].head = c.expected_custody_head
      /\ shifts[c.shift].owner = c.from
  BY DEF ApplyTransfer, CommitApplies, CasPasses
<1>3. /\ n.shift = c.shift /\ n.request = c.request /\ n.to = c.to
      /\ n.from = c.from /\ n.id = NewLedgerId(c)
      /\ n.predecessor = c.expected_custody_head
      /\ n.shift_version = c.expected_shift_version + 1
      /\ n.schedule_version = c.expected_schedule_version + 1
  BY DEF NewEdge
<1>4. n.request # None
  BY <1>1, <1>3, NamesDistinct
<1>5. /\ scheduleVersion' = scheduleVersion + 1
      /\ shifts' = [shifts EXCEPT ![c.shift] =
                       [owner |-> n.to, version |-> n.shift_version, head |-> n.id]]
  BY <1>2, <1>3 DEF ApplyTransfer, TransferredShift
<1>6. \A x \in ledger : x.id # n.id
  BY <1>3 DEF ApplyTransfer, CommitApplies, CommitIsReplay, InLedger
<1>7. PICK p \in ledger :
         /\ p.id = shifts[c.shift].head
         /\ p.shift = c.shift
         /\ p.to = shifts[c.shift].owner
         /\ p.shift_version = shifts[c.shift].version
  BY <1>1 DEF CustodyInv, HeadIsCurrent
<1>8. p.schedule_version <= scheduleVersion
  BY <1>7 DEF CustodyInv, SerialSchedule, VersionsBounded, RepoTypeOK
<1>9. p.schedule_version < n.schedule_version
  BY <1>2, <1>3, <1>8 DEF RepoTypeOK, CustodyLedgerEvent
<1> QED
  BY <1>2, <1>3, <1>4, <1>5, <1>6, <1>7, <1>9

\* The part of a run that custody is about is well typed.
LedgerTypeOK ==
    /\ scheduleVersion \in Nat
    /\ shifts \in [Shifts -> ShiftDocument]
    /\ ledger \subseteq CustodyLedgerEvent

\* n continues the head of its shift, under a fresh id.
ContinuesHead(n) ==
    /\ n.shift \in Shifts
    /\ n.request # None
    /\ n.shift_version = shifts[n.shift].version + 1
    /\ n.schedule_version = scheduleVersion + 1
    /\ \A x \in ledger : x.id # n.id
    /\ \E p \in ledger :
          /\ p.id = n.predecessor
          /\ p.shift = n.shift
          /\ p.to = n.from
          /\ p.shift_version + 1 = n.shift_version
          /\ p.schedule_version < n.schedule_version

Appends(n) ==
    /\ ledger' = ledger \cup {n}
    /\ scheduleVersion' = scheduleVersion + 1
    /\ shifts' = [shifts EXCEPT ![n.shift] =
                      [owner |-> n.to, version |-> n.shift_version, head |-> n.id]]

\* Whoever appends an edge that continues the head of its shift preserves the
\* custody invariant.
LEMMA AppendKeepsCustody ==
    ASSUME LedgerTypeOK, CustodyInv, NEW n, ContinuesHead(n), Appends(n)
    PROVE  CustodyInv'
<1> USE DEF LedgerTypeOK, ContinuesHead, Appends
<1> USE DEF CustodyInv
<1>1. shifts[n.shift].version \in Nat
  BY DEF ShiftDocument
<1>2. \A x \in ledger : /\ x.shift \in Shifts
                        /\ x.shift_version \in Nat
                        /\ x.schedule_version \in Nat
                        /\ shifts[x.shift].version \in Nat
  BY DEF CustodyLedgerEvent, ShiftDocument
<1>3. HeadIsCurrent'
  <2> SUFFICES ASSUME NEW s \in Shifts
               PROVE  \E x \in ledger' :
                         /\ x.id = shifts'[s].head
                         /\ x.shift = s
                         /\ x.to = shifts'[s].owner
                         /\ x.shift_version = shifts'[s].version
    BY DEF HeadIsCurrent
  <2>1. CASE s = n.shift
    BY <1>1, <2>1
  <2>2. CASE s # n.shift
    BY <1>1, <2>2 DEF HeadIsCurrent
  <2> QED
    BY <2>1, <2>2
<1>4. PredecessorLinks'
  BY DEF PredecessorLinks
<1>5. NoFork'
  <2>1. \A x \in ledger : x.shift = n.shift => x.shift_version < n.shift_version
    BY <1>1, <1>2 DEF VersionsBounded
  <2> QED
    BY <1>2, <2>1 DEF NoFork
<1>6. SerialSchedule'
  <2>1. \A x \in ledger : x.request # None =>
           x.schedule_version \in 1..scheduleVersion
    BY DEF SerialSchedule
  <2>2. \A x \in ledger' : x.request # None =>
           x.schedule_version \in 1..scheduleVersion'
    BY <1>1, <1>2, <2>1
  <2>3. \A x, y \in ledger' :
           /\ x.request # None /\ y.request # None
           /\ x.schedule_version = y.schedule_version
           => x = y
    BY <1>1, <2>1 DEF SerialSchedule
  <2> QED
    BY <2>2, <2>3 DEF SerialSchedule
<1>7. LedgerIsKeyed'
  BY DEF LedgerIsKeyed
<1>8. VersionsBounded'
  <2> SUFFICES ASSUME NEW x \in ledger'
               PROVE  /\ x.shift_version <= shifts'[x.shift].version
                      /\ x.request = None => x.schedule_version = 0
    BY DEF VersionsBounded
  <2>1. CASE x = n
    BY <1>1, <2>1
  <2>2. CASE x \in ledger
    <3>1. x.shift_version <= shifts[x.shift].version
      BY <2>2 DEF VersionsBounded
    <3>2. shifts[x.shift].version <= shifts'[x.shift].version
      BY <1>1, <1>2, <2>2
    <3>3. shifts'[x.shift].version \in Nat
      BY <1>1, <1>2, <2>2
    <3> QED
      BY <1>2, <2>2, <3>1, <3>2, <3>3 DEF VersionsBounded
  <2> QED
    BY <2>1, <2>2
<1>9. ScheduleComplete'
  <2> SUFFICES ASSUME NEW m \in 1..scheduleVersion'
               PROVE  \E x \in ledger' : x.request # None /\ x.schedule_version = m
    BY DEF ScheduleComplete
  <2>1. CASE m = scheduleVersion + 1
    BY <1>1, <2>1
  <2>2. CASE m \in 1..scheduleVersion
    BY <2>2 DEF ScheduleComplete
  <2> QED
    BY <1>1, <2>1, <2>2
<1>10. SeedEdges'
  BY DEF SeedEdges
<1> QED
  BY <1>3, <1>4, <1>5, <1>6, <1>7, <1>8, <1>9, <1>10

\* A commit appends such an edge.
LEMMA CommitContinuesHead ==
    ASSUME RepoTypeOK, CustodyInv, NEW c \in TransferCommit, ApplyTransfer(c)
    PROVE  ContinuesHead(NewEdge(c)) /\ Appends(NewEdge(c))
<1>1. c.shift \in Shifts /\ ledger' = ledger \cup {NewEdge(c)}
  BY DEF ApplyTransfer, TransferCommit
<1> QED
  BY <1>1, NewEdgeFollowsHead DEF ContinuesHead, Appends

\* A commit preserves the custody invariant.
LEMMA CommitKeepsCustody ==
    ASSUME RepoTypeOK, CustodyInv, NEW c \in TransferCommit, ApplyTransfer(c)
    PROVE  CustodyInv'
BY CommitContinuesHead, AppendKeepsCustody DEF RepoTypeOK, LedgerTypeOK

\* Custody as seed_frozen_run leaves it.
SeededCustody ==
    /\ scheduleVersion = 0
    /\ shifts = [s \in Shifts |->
                    [owner |-> OriginalOwner[s], version |-> 0,
                     head  |-> InitialEdge(s).id]]
    /\ ledger = {InitialEdge(s) : s \in Shifts}

\* The seeded run satisfies the custody invariant.
LEMMA SeedHasCustody == SeededCustody => CustodyInv
<1> SUFFICES ASSUME SeededCustody PROVE CustodyInv
  OBVIOUS
<1>1. \A s \in Shifts : /\ shifts[s].owner = OriginalOwner[s]
                        /\ shifts[s].version = 0
                        /\ shifts[s].head = <<s, 0>>
  BY DEF SeededCustody, InitialEdge
<1>2. \A s \in Shifts :
        /\ InitialEdge(s).id = <<s, 0>> /\ InitialEdge(s).shift = s
        /\ InitialEdge(s).request = None /\ InitialEdge(s).to = OriginalOwner[s]
        /\ InitialEdge(s).shift_version = 0 /\ InitialEdge(s).schedule_version = 0
  BY DEF InitialEdge
<1>3. HeadIsCurrent
  <2> SUFFICES ASSUME NEW s \in Shifts
               PROVE  \E x \in ledger :
                         /\ x.id = shifts[s].head
                         /\ x.shift = s
                         /\ x.to = shifts[s].owner
                         /\ x.shift_version = shifts[s].version
    BY DEF HeadIsCurrent
  <2>1. InitialEdge(s) \in ledger
    BY DEF SeededCustody
  <2> QED
    BY <1>1, <1>2, <2>1
<1>4. \A x \in ledger :
        /\ x.shift \in Shifts /\ x = InitialEdge(x.shift) /\ x.id = <<x.shift, 0>>
        /\ x.request = None /\ x.shift_version = 0 /\ x.schedule_version = 0
        /\ shifts[x.shift].version = 0
  <2> TAKE x \in ledger
  <2>1. PICK s \in Shifts : x = InitialEdge(s)
    BY DEF SeededCustody
  <2>2. x.shift = s
    BY <1>2, <2>1
  <2> QED
    BY <1>1, <1>2, <2>1, <2>2
<1>5. /\ PredecessorLinks
      /\ NoFork
      /\ SerialSchedule
      /\ LedgerIsKeyed
  <2>1. PredecessorLinks
    BY <1>4 DEF PredecessorLinks
  <2>2. \A x, y \in ledger : x.shift = y.shift => x = y
    BY <1>4
  <2>3. NoFork
    BY <2>2 DEF NoFork
  <2>4. SerialSchedule
    BY <1>4 DEF SerialSchedule
  <2>5. LedgerIsKeyed
    BY <1>4, <2>2 DEF LedgerIsKeyed
  <2> QED
    BY <2>1, <2>3, <2>4, <2>5
<1>6. VersionsBounded
  BY <1>4 DEF VersionsBounded
<1>7. ScheduleComplete
  BY DEF ScheduleComplete, SeededCustody
<1>8. SeedEdges
  BY <1>4 DEF SeedEdges
<1> QED
  BY <1>3, <1>5, <1>6, <1>7, <1>8 DEF CustodyInv

LEMMA CustodyInit == RepoInit => CustodyInv
BY SeedHasCustody DEF RepoInit, SeededCustody

\* One step of the repository preserves the custody invariant.
LEMMA CustodyStep ==
    ASSUME RepoTypeOK, CustodyInv, [RepoNext]_repoVars
    PROVE  CustodyInv'
<1>1. CASE \E c \in TransferCommit : ApplyTransfer(c)
  BY <1>1, CommitKeepsCustody
<1>2. CASE UNCHANGED <<scheduleVersion, shifts, ledger>>
  BY <1>2 DEF CustodyInv, HeadIsCurrent, PredecessorLinks, NoFork, SerialSchedule,
              LedgerIsKeyed, VersionsBounded, SeedEdges, ScheduleComplete
<1> QED
  BY <1>1, <1>2, CustodyFrame

\* Whatever stale, repeated or conflicting commands callers send, the run
\* document and the ledger agree, chains are linear and the schedule is serial.
THEOREM CustodyCorrect == RepoSpec => []CustodyInv
<1>1. RepoTypeOK /\ CustodyInv /\ [RepoNext]_repoVars => CustodyInv'
  BY CustodyStep
<1> QED
  BY <1>1, CustodyInit, RepoTypeCorrect, PTL DEF RepoSpec

-----------------------------------------------------------------------------
(* What readers of the chain see follows from the custody invariant.        *)

\* The edge that gave a shift its version v.
EdgeOfVersion(s, v) == CHOOSE x \in ledger : x.shift = s /\ x.shift_version = v

\* No version of a shift is missing, down to its seeded assignment.
LEMMA ChainComplete ==
    ASSUME LedgerTypeOK, CustodyInv, NEW s \in Shifts, NEW k \in Nat, k <= shifts[s].version
    PROVE  \E x \in ledger : x.shift = s /\ x.shift_version = shifts[s].version - k
<1> USE DEF LedgerTypeOK
<1> DEFINE n == shifts[s].version
           Reached(j) == \E x \in ledger : x.shift = s /\ x.shift_version = n - j
           T == {j \in Nat : j <= n => Reached(j)}
<1>1. n \in Nat
  BY DEF ShiftDocument
<1>2. Reached(0)
  BY <1>1 DEF CustodyInv, HeadIsCurrent
<1>3. ASSUME NEW j \in Nat, j \in T PROVE j + 1 \in T
  <2> SUFFICES ASSUME j + 1 <= n PROVE Reached(j + 1)
    OBVIOUS
  <2>1. PICK x \in ledger : x.shift = s /\ x.shift_version = n - j
    BY <1>1, <1>3
  <2>2. x.request # None
    BY <1>1, <2>1 DEF CustodyInv, SeedEdges, InitialEdge
  <2>3. PICK p \in ledger : p.shift = x.shift /\ p.shift_version + 1 = x.shift_version
    BY <2>2 DEF CustodyInv, PredecessorLinks
  <2>4. p.shift_version \in Nat
    BY DEF CustodyLedgerEvent
  <2> QED
    BY <1>1, <2>1, <2>3, <2>4
<1>4. 0 \in T
  BY <1>2
<1> HIDE DEF T
<1>5. Nat \subseteq T
  BY <1>3, <1>4, NaturalInduction
<1> QED
  BY <1>5 DEF T

\* Where the cursor stands, edge by edge.
LEMMA WalkVisitsVersions ==
    ASSUME LedgerTypeOK, CustodyInv, NEW s \in Shifts
    PROVE  \A k \in Nat : Cursor(s)[k] = IF k <= shifts[s].version
                                        THEN EdgeOfVersion(s, shifts[s].version - k).id
                                        ELSE None
<1> USE DEF LedgerTypeOK
<1> DEFINE n == shifts[s].version
           edge(k) == EdgeOfVersion(s, n - k)
           walk == [k \in Nat |-> IF k <= n THEN edge(k).id ELSE None]
           Follows(f) == f = [k \in Nat |-> IF k = 0 THEN shifts[s].head
                                            ELSE Predecessor(f[k - 1])]
<1>0. n \in Nat
  BY DEF ShiftDocument
<1>1. \A k \in Nat : k <= n => /\ edge(k) \in ledger
                               /\ edge(k).shift = s /\ edge(k).shift_version = n - k
  BY ChainComplete DEF EdgeOfVersion
<1>2. \A x, y \in ledger : x.shift = y.shift /\ x.shift_version = y.shift_version => x = y
  BY DEF CustodyInv, NoFork
<1>3. \A x \in ledger : Predecessor(x.id) = x.predecessor
  BY DEF Predecessor, InLedger, CustodyInv, LedgerIsKeyed
<1> HIDE DEF edge
<1>4. walk[0] = shifts[s].head
  <2>1. PICK x \in ledger : x.id = shifts[s].head /\ x.shift = s /\ x.shift_version = n
    BY DEF CustodyInv, HeadIsCurrent
  <2> QED
    BY <1>0, <1>1, <1>2, <2>1
<1>5. ASSUME NEW k \in Nat, k # 0 PROVE walk[k] = Predecessor(walk[k - 1])
  <2>1. k - 1 \in Nat
    BY <1>5
  <2>2. CASE k <= n
    <3>1. /\ edge(k - 1) \in ledger /\ edge(k - 1).shift = s
          /\ edge(k - 1).shift_version = n - k + 1
      BY <1>0, <1>1, <2>1, <2>2
    <3>2. edge(k - 1).request # None
      BY <1>0, <2>2, <3>1 DEF CustodyInv, SeedEdges, InitialEdge
    <3>3. PICK p \in ledger : /\ p.id = edge(k - 1).predecessor /\ p.shift = s
                              /\ p.shift_version + 1 = edge(k - 1).shift_version
      BY <3>1, <3>2 DEF CustodyInv, PredecessorLinks
    <3>4. p.shift_version \in Nat
      BY DEF CustodyLedgerEvent
    <3>5. p = edge(k)
      BY <1>0, <1>1, <1>2, <2>2, <3>1, <3>3, <3>4
    <3> QED
      BY <1>0, <1>3, <2>1, <2>2, <3>1, <3>3, <3>5
  <2>3. CASE k = n + 1
    <3>1. edge(n) \in ledger /\ edge(n).shift = s /\ edge(n).shift_version = 0
      BY <1>0, <1>1
    <3>2. edge(n).request = None
      <4> SUFFICES ASSUME edge(n).request # None PROVE FALSE
        OBVIOUS
      <4>1. PICK p \in ledger : p.shift_version + 1 = 0
        BY <3>1 DEF CustodyInv, PredecessorLinks
      <4>2. p.shift_version \in Nat
        BY DEF CustodyLedgerEvent
      <4> QED
        BY <4>1, <4>2
    <3>3. edge(n).predecessor = None
      BY <3>1, <3>2 DEF CustodyInv, SeedEdges, InitialEdge
    <3> QED
      BY <1>0, <1>3, <2>3, <3>1, <3>3
  <2>4. CASE k > n + 1
    <3>1. walk[k] = None /\ walk[k - 1] = None
      BY <1>0, <2>1, <2>4
    <3>2. ~InLedger(None)
      BY NamesDistinct DEF InLedger, CustodyLedgerEvent, LedgerId
    <3> QED
      BY <3>1, <3>2 DEF Predecessor
  <2> QED
    BY <1>0, <2>2, <2>3, <2>4
<1>6. Follows(walk)
  BY <1>4, <1>5
<1> DEFINE at == Cursor(s)
<1>7. Follows(at)
  <2>1. at = CHOOSE f : Follows(f)
    BY DEF Cursor
  <2> HIDE DEF at, Follows, walk
  <2> QED
    BY <1>6, <2>1
<1> HIDE DEF at, walk
<1>8. at[0] = walk[0]
  BY <1>4, <1>7
<1>9. ASSUME NEW k \in Nat, at[k] = walk[k] PROVE at[k + 1] = walk[k + 1]
  <2>1. k + 1 \in Nat /\ k + 1 # 0 /\ (k + 1) - 1 = k
    OBVIOUS
  <2>2. at[k + 1] = Predecessor(at[k])
    BY <1>7, <2>1
  <2> QED
    BY <1>5, <1>9, <2>1, <2>2
<1> DEFINE T == {k \in Nat : at[k] = walk[k]}
<1>10. Nat \subseteq T
  <2>1. 0 \in T /\ \A k \in Nat : k \in T => k + 1 \in T
    BY <1>8, <1>9
  <2> HIDE DEF T
  <2> QED
    BY <2>1, NaturalInduction
<1> QED
  BY <1>10 DEF T, at, walk, edge

\* A ledger that satisfies the custody invariant can be walked back from any head.
LEMMA CustodyWalksBack == LedgerTypeOK /\ CustodyInv => ChainWalksBack
<1> USE DEF LedgerTypeOK
<1> SUFFICES ASSUME LedgerTypeOK, CustodyInv,
                    NEW s \in Shifts, NEW n, n = shifts[s].version
             PROVE  /\ \A k \in 0..n : \E x \in ledger :
                          x.id = Cursor(s)[k] /\ x.shift = s /\ x.shift_version = n - k
                    /\ Cursor(s)[n] = InitialEdge(s).id
                    /\ Cursor(s)[n + 1] = None
  BY DEF ChainWalksBack
<1>0. n \in Nat
  BY DEF ShiftDocument
<1>1. \A k \in Nat : Cursor(s)[k] = IF k <= n THEN EdgeOfVersion(s, n - k).id ELSE None
  BY WalkVisitsVersions
<1>2. ASSUME NEW k \in 0..n
      PROVE  /\ EdgeOfVersion(s, n - k) \in ledger
             /\ EdgeOfVersion(s, n - k).shift = s
             /\ EdgeOfVersion(s, n - k).shift_version = n - k
  BY <1>0, ChainComplete DEF EdgeOfVersion
<1>3. EdgeOfVersion(s, 0).request = None
  <2> SUFFICES ASSUME EdgeOfVersion(s, 0).request # None PROVE FALSE
    OBVIOUS
  <2>1. PICK p \in ledger : p.shift_version + 1 = 0
    BY <1>0, <1>2 DEF CustodyInv, PredecessorLinks
  <2>2. p.shift_version \in Nat
    BY DEF CustodyLedgerEvent
  <2> QED
    BY <2>1, <2>2
<1>4. EdgeOfVersion(s, 0) = InitialEdge(s)
  BY <1>0, <1>2, <1>3 DEF CustodyInv, SeedEdges
<1> QED
  BY <1>0, <1>1, <1>2, <1>4

\* Under arbitrary callers the walk of custody_chain visits every version of a shift
\* once, from the current one to the seeded assignment, and ends there.
THEOREM ChainsWalkBack == RepoSpec => []ChainWalksBack
<1>1. RepoTypeOK /\ CustodyInv => ChainWalksBack
  BY CustodyWalksBack DEF RepoTypeOK, LedgerTypeOK
<1> QED
  BY <1>1, RepoTypeCorrect, CustodyCorrect, PTL

-----------------------------------------------------------------------------
(* The ledger refines the serial custody log.                              *)

\* EdgeAt names the one transfer that produced a schedule version.
LEMMA EdgeAtIsTheEdge ==
    ASSUME CustodyInv, NEW x \in ledger, x.request # None
    PROVE  EdgeAt(x.schedule_version) = x
BY DEF EdgeAt, CustodyInv, SerialSchedule

\* There is such a transfer for every version of the schedule so far.
LEMMA EdgeAtExists ==
    ASSUME CustodyInv, NEW n \in 1..scheduleVersion
    PROVE  EdgeAt(n) \in ledger /\ EdgeAt(n).request # None
           /\ EdgeAt(n).schedule_version = n
<1>1. PICK x \in ledger : x.request # None /\ x.schedule_version = n
  BY DEF CustodyInv, ScheduleComplete
<1> QED
  BY <1>1, EdgeAtIsTheEdge

LogEntry ==
    [request : Optional(Events), shift : Shifts,
     from : Optional(Workers), to : Workers]

EntryOf(x) ==
    [request |-> x.request, shift |-> x.shift, from |-> x.from, to |-> x.to]

\* The log read off the ledger is a sequence as long as the schedule version.
LogFacts ==
    /\ LogOfLedger \in Seq(LogEntry)
    /\ Len(LogOfLedger) = scheduleVersion
    /\ \A n \in 1..scheduleVersion : LogOfLedger[n] = EntryOf(EdgeAt(n))

LEMMA LogIsSequence == LedgerTypeOK /\ CustodyInv => LogFacts
<1> SUFFICES ASSUME LedgerTypeOK, CustodyInv PROVE LogFacts
  OBVIOUS
<1>1. \A n \in 1..scheduleVersion : EntryOf(EdgeAt(n)) \in LogEntry
  BY EdgeAtExists DEF EntryOf, LogEntry, LedgerTypeOK, CustodyLedgerEvent
<1>2. LogOfLedger = [n \in 1..scheduleVersion |-> EntryOf(EdgeAt(n))]
  BY DEF LogOfLedger, EntryOf
<1>3. LogOfLedger \in [1..scheduleVersion -> LogEntry]
  BY <1>1, <1>2
<1>4. scheduleVersion \in Nat
  BY DEF LedgerTypeOK
<1>5. LogOfLedger \in Seq(LogEntry)
  BY <1>3, <1>4, SeqDef
<1>6. DOMAIN LogOfLedger = 1..scheduleVersion
  BY <1>2
<1>7. Len(LogOfLedger) \in Nat /\ DOMAIN LogOfLedger = 1..Len(LogOfLedger)
  BY <1>5, LenProperties
<1> QED
  BY <1>2, <1>4, <1>5, <1>6, <1>7 DEF LogFacts

\* Such an edge is one more entry of the log.
LEMMA AppendExtendsLog ==
    ASSUME LedgerTypeOK, CustodyInv, LedgerTypeOK', CustodyInv',
           NEW n \in CustodyLedgerEvent, ContinuesHead(n), Appends(n)
    PROVE  LogOfLedger' = Append(LogOfLedger, EntryOf(n))
<1> DEFINE new == Append(LogOfLedger, EntryOf(n))
<1>1. /\ n.request # None
      /\ n.schedule_version = scheduleVersion + 1
      /\ scheduleVersion' = scheduleVersion + 1
      /\ ledger' = ledger \cup {n}
  BY DEF ContinuesHead, Appends
<1>2. LogFacts /\ LogFacts'
  BY LogIsSequence, PTL
<1>3. EntryOf(n) \in LogEntry
  BY DEF EntryOf, LogEntry, CustodyLedgerEvent
<1>4. /\ new \in Seq(LogEntry)
      /\ Len(new) = scheduleVersion + 1
      /\ \A m \in 1..scheduleVersion : new[m] = LogOfLedger[m]
      /\ new[scheduleVersion + 1] = EntryOf(n)
  BY <1>2, <1>3, AppendProperties DEF LogFacts
<1>5. ASSUME NEW m \in Nat, m = scheduleVersion + 1 PROVE EdgeAt(m)' = n
  BY <1>1, <1>5 DEF EdgeAt, CustodyInv, SerialSchedule
<1>6. ASSUME NEW m \in 1..scheduleVersion PROVE EdgeAt(m)' = EdgeAt(m)
  BY <1>1, <1>6, EdgeAtExists DEF EdgeAt, CustodyInv, SerialSchedule
<1>7. ASSUME NEW m \in 1..scheduleVersion + 1
      PROVE  LogOfLedger'[m] = new[m]
  <2> HIDE DEF new
  <2>1. scheduleVersion \in Nat
    BY DEF LedgerTypeOK
  <2>2. LogOfLedger'[m] = EntryOf(EdgeAt(m)')
    BY <1>1, <1>2 DEF LogFacts, EntryOf
  <2>3. CASE m = scheduleVersion + 1
    BY <1>4, <1>5, <2>2, <2>3, <2>1
  <2>4. CASE m \in 1..scheduleVersion
    <3>1. EdgeAt(m)' = EdgeAt(m)
      BY <1>6, <2>4
    <3>2. new[m] = LogOfLedger[m] /\ LogOfLedger[m] = EntryOf(EdgeAt(m))
      BY <1>2, <1>4, <2>4 DEF LogFacts
    <3> QED
      BY <2>2, <3>1, <3>2
  <2> QED
    BY <2>3, <2>4, <2>1
<1>8. /\ LogOfLedger' \in Seq(LogEntry)
      /\ Len(LogOfLedger') = scheduleVersion + 1
  BY <1>1, <1>2 DEF LogFacts
<1> QED
  BY <1>4, <1>7, <1>8, SeqEqual

\* It hands its shift over from the worker who holds it.
LEMMA AppendIsHandOver ==
    ASSUME LedgerTypeOK, CustodyInv, LedgerTypeOK', CustodyInv',
           NEW n \in CustodyLedgerEvent, ContinuesHead(n), Appends(n)
    PROVE  Custody!Next
<1>1. LogOfLedger' = Append(LogOfLedger, EntryOf(n))
  BY AppendExtendsLog
<1>2. n.request \in Events /\ n.shift \in Shifts /\ n.to \in Workers
  BY DEF ContinuesHead, CustodyLedgerEvent, Optional
<1>3. n.from = shifts[n.shift].owner
  <2>1. PICK p \in ledger : /\ p.shift = n.shift /\ p.to = n.from
                            /\ p.shift_version + 1 = n.shift_version
    BY DEF ContinuesHead
  <2>2. PICK x \in ledger : /\ x.shift = n.shift /\ x.to = shifts[n.shift].owner
                            /\ x.shift_version = shifts[n.shift].version
    BY <1>2 DEF CustodyInv, HeadIsCurrent
  <2>3. p.shift_version = x.shift_version
    BY <1>2, <2>1, <2>2 DEF ContinuesHead, LedgerTypeOK, CustodyLedgerEvent, ShiftDocument
  <2> QED
    BY <2>1, <2>2, <2>3 DEF CustodyInv, NoFork
<1>4. EntryOf(n) = [request |-> n.request, shift |-> n.shift,
                    from |-> [s \in Shifts |-> shifts[s].owner][n.shift], to |-> n.to]
  BY <1>2, <1>3 DEF EntryOf
<1>5. [s \in Shifts |-> shifts[s].owner]' =
        [[s \in Shifts |-> shifts[s].owner] EXCEPT ![n.shift] = n.to]
  BY <1>2 DEF Appends, LedgerTypeOK
<1>6. Custody!HandOver(n.request, n.shift, n.to)
  BY <1>1, <1>4, <1>5 DEF Custody!HandOver
<1> QED
  BY <1>2, <1>6 DEF Custody!Next

\* The seeded run starts the empty history.
LEMMA CustodyLogInit == SeededCustody /\ LedgerTypeOK => Custody!Init
<1> SUFFICES ASSUME SeededCustody, LedgerTypeOK PROVE Custody!Init
  OBVIOUS
<1>1. LogFacts
  BY SeedHasCustody, LogIsSequence
<1>2. LogOfLedger = <<>>
  BY <1>1, EmptySeq DEF LogFacts, SeededCustody
<1>3. [s \in Shifts |-> shifts[s].owner] = OriginalOwner
  BY SeedWellFormed DEF SeededCustody
<1> QED
  BY <1>2, <1>3 DEF Custody!Init

\* Every step of the repository is a step of the log or leaves it alone.
LEMMA CustodyLogStep ==
    ASSUME RepoTypeOK, CustodyInv, RepoTypeOK', CustodyInv', [RepoNext]_repoVars
    PROVE  [Custody!Next]_<<LogOfLedger, [s \in Shifts |-> shifts[s].owner]>>
<1>1. ASSUME NEW c \in TransferCommit, ApplyTransfer(c)
      PROVE  Custody!Next
  BY <1>1, CommitContinuesHead, NewEdgeTyped, AppendIsHandOver DEF RepoTypeOK, LedgerTypeOK
<1>2. CASE UNCHANGED <<scheduleVersion, shifts, ledger>>
  BY <1>2 DEF LogOfLedger, EdgeAt
<1> QED
  BY <1>1, <1>2, CustodyFrame

\* The repository implements the serial custody log: whatever interleaving of
\* stale, repeated and conflicting commands it receives, it hands shifts over
\* one after the other, each time from the worker who holds the shift.
THEOREM RepositoryImplementsCustodyLog == RepoSpec => ImplementsCustodyLog
<1>1. RepoTypeOK /\ CustodyInv /\ RepoTypeOK' /\ CustodyInv' /\ [RepoNext]_repoVars
      => [Custody!Next]_<<LogOfLedger, [s \in Shifts |-> shifts[s].owner]>>
  BY CustodyLogStep
<1>2. RepoInit => Custody!Init
  BY TypeInit, CustodyLogInit DEF RepoInit, SeededCustody, RepoTypeOK, LedgerTypeOK
<1> QED
  BY <1>1, <1>2, RepoTypeCorrect, CustodyCorrect, PTL
     DEF RepoSpec, ImplementsCustodyLog, Custody!Spec

-----------------------------------------------------------------------------
(* What a reader of the ledger relies on, part by part.                     *)

\* The head in the run document is always the newest edge of its shift.
THEOREM HeadsAreCurrent == RepoSpec => []HeadIsCurrent
<1>1. CustodyInv => HeadIsCurrent
  BY DEF CustodyInv
<1> QED
  BY <1>1, CustodyCorrect, PTL

\* Every edge always extends the hand-over before it, without gap or foreign shift.
THEOREM LinksAreSound == RepoSpec => []PredecessorLinks
<1>1. CustodyInv => PredecessorLinks
  BY DEF CustodyInv
<1> QED
  BY <1>1, CustodyCorrect, PTL

\* No version of a shift is ever reached by two edges.
THEOREM ChainsDoNotFork == RepoSpec => []NoFork
<1>1. CustodyInv => NoFork
  BY DEF CustodyInv
<1> QED
  BY <1>1, CustodyCorrect, PTL

\* The transfers of a run are always totally ordered by schedule version.
THEOREM TransfersAreSerial == RepoSpec => []SerialSchedule
<1>1. CustodyInv => SerialSchedule
  BY DEF CustodyInv
<1> QED
  BY <1>1, CustodyCorrect, PTL

\* No two edges ever share a ledger id.
THEOREM LedgerIdsAreKeys == RepoSpec => []LedgerIsKeyed
<1>1. CustodyInv => LedgerIsKeyed
  BY DEF CustodyInv
<1> QED
  BY <1>1, CustodyCorrect, PTL

-----------------------------------------------------------------------------
(* Evidence.                                                               *)

\* Evidence is only added, and every new record has its edge behind it.
LEMMA RecordsStep ==
    ASSUME RepoTypeOK, CustodyInv, RecordsBackedByEdge, [RepoNext]_repoVars
    PROVE  RecordsBackedByEdge'
<1>1. CASE UNCHANGED <<verifications, noops>> /\ ledger \subseteq ledger'
  BY <1>1 DEF RecordsBackedByEdge
<1>2. ASSUME NEW e \in Events, NEW x \in ledger, x.request = e,
             SaveVerification(e, x.id)
      PROVE  RecordsBackedByEdge'
  <2>1. CASE IsVerified(e)
    BY <1>1, <1>2, <2>1 DEF SaveVerification, repoVars
  <2>2. CASE ~IsVerified(e)
    <3> DEFINE v == [request          |-> e,
                     applied          |-> x.id,
                     shift            |-> x.shift,
                     to               |-> x.to,
                     shift_version    |-> x.shift_version,
                     schedule_version |-> x.schedule_version]
    <3>1. verifications' = verifications \cup {v} /\ UNCHANGED <<ledger, noops>>
      BY <1>2, <2>2 DEF SaveVerification, CustodyInv, LedgerIsKeyed
    <3>2. /\ v.applied = x.id /\ v.request = x.request /\ v.shift = x.shift
          /\ v.to = x.to /\ v.shift_version = x.shift_version
          /\ v.schedule_version = x.schedule_version
      BY <1>2
    <3> HIDE DEF v
    <3> QED
      BY <1>2, <3>1, <3>2 DEF RecordsBackedByEdge
  <2> QED
    BY <2>1, <2>2
<1>3. ASSUME NEW e \in Events, NEW g, RecordNoOp(e, g)
      PROVE  RecordsBackedByEdge'
  <2>1. \E v \in verifications : v.request = e /\ v.applied = events[e].applied
    BY <1>3 DEF RecordNoOp, EffectReadsBack
  <2>2. CASE UNCHANGED repoVars
    BY <1>1, <2>2 DEF repoVars
  <2>3. CASE noops' = noops \cup
              {[event |-> e, generation |-> g, applied |-> events[e].applied]}
    BY <1>3, <2>1, <2>3 DEF RecordsBackedByEdge, RecordNoOp, repoVars
  <2> QED
    BY <1>3, <2>2, <2>3 DEF RecordNoOp
<1>4. CASE SomeTransfer
  BY <1>1, <1>4, TransfersAreCommits DEF ApplyTransfer
<1>5. CASE SomeVerification
  BY <1>2, <1>5 DEF SomeVerification
<1>6. CASE SomeReliabilityStep
  BY <1>1, <1>3, <1>6 DEF SomeReliabilityStep, ConsumeFailureInjection
<1>7. CASE SomeSave \/ SomeSchedule \/ SomeConfirmation \/ ConfigureFailureInjection
           \/ UNCHANGED repoVars
  BY <1>1, <1>7 DEF SomeSave, SaveRequest, SomeSchedule, PersistSchedule,
     SomeConfirmation, RecordConfirmation, ConfigureFailureInjection, repoVars
<1> QED
  BY <1>4, <1>5, <1>6, <1>7 DEF RepoNext

\* Verification and no-op records are always about an edge that was applied for
\* that request.
THEOREM RecordsAreBacked == RepoSpec => []RecordsBackedByEdge
<1>1. RepoInit => RecordsBackedByEdge
  BY DEF RepoInit, RecordsBackedByEdge
<1>2. RepoTypeOK /\ CustodyInv /\ RecordsBackedByEdge /\ [RepoNext]_repoVars
      => RecordsBackedByEdge'
  BY RecordsStep
<1> QED
  BY <1>1, <1>2, RepoTypeCorrect, CustodyCorrect, PTL DEF RepoSpec

\* The acknowledgement is lost on purpose only after durable verification.
THEOREM FaultIsLate == RepoSpec => []FaultAfterVerification
<1>1. RepoInit => FaultAfterVerification
  BY DEF RepoInit, FaultAfterVerification
<1>2. FaultAfterVerification /\ [RepoNext]_repoVars => FaultAfterVerification'
  <2> SUFFICES ASSUME FaultAfterVerification, [RepoNext]_repoVars
               PROVE  FaultAfterVerification'
    OBVIOUS
  <2>1. CASE UNCHANGED fault /\ verifications \subseteq verifications'
    BY <2>1 DEF FaultAfterVerification, IsVerified
  <2>2. CASE SomeTransfer
    BY <2>1, <2>2 DEF SomeTransfer, ApplyTransfer
  <2>3. CASE SomeVerification
    BY <2>1, <2>3 DEF SomeVerification, SaveVerification, repoVars
  <2>4. CASE SomeReliabilityStep
    BY <2>1, <2>4 DEF SomeReliabilityStep, RecordNoOp, ConsumeFailureInjection,
       FailureInjectionEligible, FaultAfterVerification, IsVerified, repoVars
  <2>5. CASE ConfigureFailureInjection
    BY <2>5 DEF ConfigureFailureInjection, FaultAfterVerification
  <2>6. CASE SomeSave \/ SomeSchedule \/ SomeConfirmation \/ UNCHANGED repoVars
    BY <2>1, <2>6 DEF SomeSave, SaveRequest, SomeSchedule, PersistSchedule,
       SomeConfirmation, RecordConfirmation, repoVars
  <2> QED
    BY <2>2, <2>3, <2>4, <2>5, <2>6 DEF RepoNext
<1> QED
  BY <1>1, <1>2, PTL DEF RepoSpec

\* A confirmation is recorded once and generations only advance.
THEOREM EvidenceIsWriteOnce == RepoSpec => EvidenceAndGenerationMonotone
<1> DEFINE Advances(e) ==
             /\ events'[e].generation >= events[e].generation
             /\ events'[e].evidence # events[e].evidence =>
                   /\ events[e].evidence = None
                   /\ events'[e].generation > events[e].generation
<1>1. RepoTypeOK /\ [RepoNext]_repoVars =>
        [\A e \in Events \ {ConfirmingEvent} : Advances(e)]_repoVars
  <2> SUFFICES ASSUME RepoTypeOK, [RepoNext]_repoVars,
                      NEW e \in Events \ {ConfirmingEvent}
               PROVE  Advances(e)
    OBVIOUS
  <2>1. events[e].generation \in Nat
    BY DEF RepoTypeOK, EventDocument
  <2>2. CASE events'[e].generation = events[e].generation
             /\ events'[e].evidence = events[e].evidence
    BY <2>1, <2>2
  <2> DEFINE Kept == /\ events'[e].generation = events[e].generation
                     /\ events'[e].evidence = events[e].evidence
  <2>0. events \in [Events -> EventDocument]
    BY DEF RepoTypeOK
  <2>3. CASE SomeTransfer
    <3>1. PICK c \in TransferCommit : ApplyTransfer(c)
      BY <2>3, TransfersAreCommits
    <3>2. events' = [events EXCEPT ![c.request].status  = "APPLIED",
                                   ![c.request].applied = NewLedgerId(c)]
      BY <3>1 DEF ApplyTransfer
    <3>3. Kept
      BY <2>0, <3>2 DEF EventDocument
    <3> QED
      BY <2>2, <3>3
  <2>4. CASE SomeSave
    BY <2>2, <2>4 DEF SomeSave, SaveRequest, RepoTypeOK, EventDocument
  <2>5. CASE SomeVerification
    <3>1. PICK f \in Events, x \in ledger : SaveVerification(f, x.id)
      BY <2>5 DEF SomeVerification
    <3>2. \/ events' = events
          \/ events' = [events EXCEPT ![f].status = "VERIFIED", ![f].attested = TRUE]
      BY <3>1 DEF SaveVerification, repoVars
    <3>3. CASE events' = [events EXCEPT ![f].status = "VERIFIED", ![f].attested = TRUE]
      <4>1. Kept
        BY <2>0, <3>3 DEF EventDocument
      <4> QED
        BY <2>2, <4>1
    <3> QED
      BY <2>2, <3>2, <3>3
  <2>6. CASE SomeSchedule
    <3>1. PICK f \in Events, g \in 0..MaxGeneration : PersistSchedule(f, g)
      BY <2>6 DEF SomeSchedule
    <3>2. \/ events' = events
          \/ /\ events[f].generation = g
             /\ events' = [events EXCEPT ![f].generation = g + 1]
      BY <3>1 DEF PersistSchedule, ScheduleAccepted, repoVars
    <3>3. CASE events' = [events EXCEPT ![f].generation = g + 1] /\ e # f
      BY <2>0, <2>2, <3>3
    <3>4. CASE /\ events[f].generation = g /\ e = f
               /\ events' = [events EXCEPT ![f].generation = g + 1]
      <4>1. /\ events'[e].generation = events[e].generation + 1
            /\ events'[e].evidence = events[e].evidence
        BY <2>0, <3>4 DEF EventDocument
      <4> QED
        BY <2>1, <4>1
    <3> QED
      BY <2>2, <3>2, <3>3, <3>4
  <2>7. CASE SomeConfirmation
    <3>1. PICK t \in Events \ {ConfirmingEvent}, w \in Workers, g \in 0..MaxGeneration :
            RecordConfirmation(ConfirmingEvent, t, w, g)
      BY <2>7 DEF SomeConfirmation
    <3>2. \/ events' = events
          \/ /\ events[t].generation = g /\ events[t].evidence = None
             /\ events' = [events EXCEPT
                  ![t].evidence   = [source |-> ConfirmingEvent, by |-> w],
                  ![t].generation = g + 1,
                  ![ConfirmingEvent].generation = g + 1]
      BY <3>1 DEF RecordConfirmation, ConfirmationAccepted, repoVars
    <3> DEFINE Confirming == [events EXCEPT
                  ![t].evidence   = [source |-> ConfirmingEvent, by |-> w],
                  ![t].generation = g + 1,
                  ![ConfirmingEvent].generation = g + 1]
    <3>3. CASE events' = Confirming /\ e # t
      <4>1. Kept
        BY <2>0, <3>3
      <4> QED
        BY <2>2, <4>1
    <3>4. CASE /\ events[t].generation = g /\ events[t].evidence = None
               /\ events' = Confirming /\ e = t
      <4>1. events'[e].generation = events[e].generation + 1
        BY <2>0, <3>4 DEF EventDocument
      <4> QED
        BY <2>1, <3>4, <4>1
    <3> QED
      BY <2>2, <3>2, <3>3, <3>4
  <2>8. CASE SomeReliabilityStep \/ ConfigureFailureInjection \/ UNCHANGED repoVars
    BY <2>2, <2>8 DEF SomeReliabilityStep, RecordNoOp, ConsumeFailureInjection,
       ConfigureFailureInjection, repoVars
  <2> QED
    BY <2>3, <2>4, <2>5, <2>6, <2>7, <2>8 DEF RepoNext
<1> QED
  BY <1>1, RepoTypeCorrect, PTL DEF RepoSpec, EvidenceAndGenerationMonotone

=============================================================================
