---------------------------- MODULE EngineProofs ----------------------------
(***************************************************************************)
(* Concurrent calls of the engine, for every number of handlers and every  *)
(* run: each step is a step of the repository, so that its theorems carry  *)
(* over, and what the rules decided on a snapshot still holds when the     *)
(* commit changes custody.                                                 *)
(***************************************************************************)
EXTENDS EngineProperties, RepositoryProofs

-----------------------------------------------------------------------------
(* Intents.                                                                *)

\* An intent has the validated shape, as parsed and as completed.
LEMMA IntentShape ==
    ASSUME NEW e \in Events, NEW i \in Parses[e] \cup Intents(e)
    PROVE  /\ i.type \in IntentType
           /\ i.ambiguous \in BOOLEAN
           /\ i.shift \in Optional(Shifts)
           /\ {i.from, i.to, i.by} \subseteq Optional(Workers)
           /\ {i.target, i.dependency} \subseteq Optional(RequestCandidates)
           /\ ValidShape(i)
<1>1. ASSUME NEW j \in Parses[e]
      PROVE  /\ j.type \in IntentType
             /\ j.ambiguous \in BOOLEAN
             /\ j.shift \in Optional(Shifts)
             /\ {j.from, j.to, j.by} \subseteq Optional(Workers)
             /\ {j.target, j.dependency} \subseteq Optional(RequestCandidates)
             /\ ValidShape(j)
  BY <1>1, ParsesWellFormed DEF StructuredIntent, EnforceCandidateBoundary
<1>2. CASE i \in Parses[e]
  BY <1>1, <1>2
<1>3. ASSUME NEW j \in StorableParses(e), NEW w \in Workers, i = Confirmed(j, w)
      PROVE  /\ i.type = j.type /\ i.ambiguous = j.ambiguous
             /\ i.shift = j.shift /\ i.from = j.from /\ i.to = j.to
             /\ i.target = j.target /\ i.dependency = j.dependency
             /\ i.by = w
             /\ j \in Parses[e]
  BY <1>3, ParsesWellFormed DEF StorableParses, StructuredIntent, Confirmed
<1>4. ASSUME NEW j \in StorableParses(e), NEW w \in Workers, i = Confirmed(j, w)
      PROVE  /\ i.type \in IntentType
             /\ i.ambiguous \in BOOLEAN
             /\ i.shift \in Optional(Shifts)
             /\ {i.from, i.to, i.by} \subseteq Optional(Workers)
             /\ {i.target, i.dependency} \subseteq Optional(RequestCandidates)
             /\ ValidShape(i)
  <2>1. /\ i.type = j.type /\ i.ambiguous = j.ambiguous
        /\ i.shift = j.shift /\ i.from = j.from /\ i.to = j.to
        /\ i.target = j.target /\ i.dependency = j.dependency
        /\ i.by = w
        /\ j \in Parses[e]
    BY <1>3, <1>4
  <2>2. i.by # None
    BY <2>1, NamesDistinct
  <2> QED
    BY <1>1, <2>1, <2>2 DEF ValidShape, Optional
<1> QED
  BY <1>2, <1>4 DEF Intents, StorableIntents, StorableParses

\* An intent is never mistaken for an absent one.
LEMMA IntentIsSomething ==
    ASSUME NEW e \in Events
    PROVE  None \notin Parses[e] \cup Intents(e)
<1>1. \A i \in Parses[e] : i \in StructuredIntent
  BY ParsesWellFormed
<1>2. ASSUME NEW j \in StorableParses(e), NEW w \in Workers
      PROVE  Confirmed(j, w) \in StructuredIntent
  <2>1. j \in StructuredIntent
    BY <1>1 DEF StorableParses
  <2>2. w # None
    BY NamesDistinct
  <2> QED
    BY <2>1, <2>2 DEF StructuredIntent, ValidShape, Confirmed, Optional
<1> QED
  BY <1>1, <1>2, ParsesWellFormed DEF Intents, StorableIntents, StorableParses

\* Completing an intent twice leaves the last confirmation.
LEMMA ConfirmedIsStorable ==
    ASSUME NEW e \in Events, NEW i \in Intents(e), NEW w \in Workers
    PROVE  Confirmed(i, w) \in Intents(e)
<1>1. CASE i \in StorableParses(e)
  BY <1>1 DEF Intents, StorableIntents
<1>2. ASSUME NEW j \in StorableParses(e), NEW v \in Workers, i = Confirmed(j, v)
      PROVE  Confirmed(i, w) = Confirmed(j, w)
  BY <1>2, ParsesWellFormed DEF StorableParses, StructuredIntent, Confirmed
<1> QED
  BY <1>1, <1>2 DEF Intents, StorableIntents

-----------------------------------------------------------------------------
(* What no step of the repository takes back.                              *)

\* Documents of the run only advance, and an owner changes only together with
\* the schedule version.
Advances ==
    /\ ledger \subseteq ledger'
    /\ verifications \subseteq verifications'
    /\ scheduleVersion <= scheduleVersion'
    /\ \A s \in Shifts : shifts[s].version <= shifts'[s].version
    /\ scheduleVersion' = scheduleVersion => shifts' = shifts
    /\ \A e \in Events :
          /\ events[e].intent \in Intents(e) => events'[e].intent \in Intents(e)
          /\ events[e].evidence # None => events'[e].evidence = events[e].evidence

\* Every write of an event document changes one document, or two generations.
LEMMA DocumentWrites ==
    ASSUME RepoTypeOK, [RepoNext]_repoVars, NEW e \in Events
    PROVE  /\ \/ /\ events'[e].intent = events[e].intent
                 /\ events'[e].applied = events[e].applied
              \/ /\ events'[e].intent \in Intents(e) \cup {events[e].intent}
                 /\ events'[e].applied \in AppliedIds(e)
              \/ /\ events'[e].intent = events[e].intent
                 /\ \E x \in ledger' : x.request = e /\ events'[e].applied = x.id
           /\ events[e].evidence # None => events'[e].evidence = events[e].evidence
<1>0. events \in [Events -> EventDocument]
  BY DEF RepoTypeOK
<1>1. CASE SomeTransfer
  <2>1. PICK c \in TransferCommit : ApplyTransfer(c)
    BY <1>1, TransfersAreCommits
  <2>2. events' = [events EXCEPT ![c.request].status  = "APPLIED",
                                 ![c.request].applied = NewLedgerId(c)]
    BY <2>1 DEF ApplyTransfer
  <2>3. /\ NewEdge(c) \in ledger'
        /\ NewEdge(c).request = c.request /\ NewEdge(c).id = NewLedgerId(c)
    BY <2>1 DEF ApplyTransfer, NewEdge
  <2>4. CASE e = c.request
    <3>1. /\ events'[e].intent = events[e].intent
          /\ events'[e].evidence = events[e].evidence
          /\ events'[e].applied = NewLedgerId(c)
      BY <1>0, <2>2, <2>4 DEF EventDocument
    <3> QED
      BY <2>3, <2>4, <3>1
  <2>5. CASE e # c.request
    BY <1>0, <2>2, <2>5
  <2> QED
    BY <2>4, <2>5
<1>2. CASE SomeSave
  BY <1>0, <1>2 DEF SomeSave, SaveRequest, EventDocument
<1>3. CASE SomeVerification
  <2>1. PICK f \in Events, x \in ledger : SaveVerification(f, x.id)
    BY <1>3 DEF SomeVerification
  <2>2. \/ events' = events
        \/ events' = [events EXCEPT ![f].status = "VERIFIED", ![f].attested = TRUE]
    BY <2>1 DEF SaveVerification, repoVars
  <2>3. CASE events' = [events EXCEPT ![f].status = "VERIFIED", ![f].attested = TRUE]
    <3>1. /\ events'[e].intent = events[e].intent
          /\ events'[e].applied = events[e].applied
          /\ events'[e].evidence = events[e].evidence
      BY <1>0, <2>3 DEF EventDocument
    <3> QED
      BY <3>1
  <2> QED
    BY <2>2, <2>3
<1>4. CASE SomeSchedule
  <2>1. PICK f \in Events, g \in 0..MaxGeneration : PersistSchedule(f, g)
    BY <1>4 DEF SomeSchedule
  <2>2. \/ events' = events
        \/ events' = [events EXCEPT ![f].generation = g + 1]
    BY <2>1 DEF PersistSchedule, repoVars
  <2>3. CASE events' = [events EXCEPT ![f].generation = g + 1]
    <3>1. /\ events'[e].intent = events[e].intent
          /\ events'[e].applied = events[e].applied
          /\ events'[e].evidence = events[e].evidence
      BY <1>0, <2>3 DEF EventDocument
    <3> QED
      BY <3>1
  <2> QED
    BY <2>2, <2>3
<1>5. CASE SomeConfirmation
  <2>1. PICK t \in Events, w \in Workers, g \in 0..MaxGeneration :
          RecordConfirmation(ConfirmingEvent, t, w, g)
    BY <1>5 DEF SomeConfirmation
  <2>2. \/ events' = events
        \/ /\ events[t].evidence = None
           /\ events' = [events EXCEPT
                ![t].evidence   = [source |-> ConfirmingEvent, by |-> w],
                ![t].generation = g + 1,
                ![ConfirmingEvent].generation = g + 1]
    BY <2>1 DEF RecordConfirmation, ConfirmationAccepted, repoVars
  <2> DEFINE d == [events EXCEPT
                ![t].evidence   = [source |-> ConfirmingEvent, by |-> w],
                ![t].generation = g + 1,
                ![ConfirmingEvent].generation = g + 1]
  <2>3. CASE events' = d
    <3>1. /\ d[e].intent = events[e].intent
          /\ d[e].applied = events[e].applied
          /\ e # t => d[e].evidence = events[e].evidence
      <4>1. CASE e = t
        BY <1>0, <4>1 DEF EventDocument
      <4>2. CASE e # t
        BY <1>0, <4>2 DEF EventDocument
      <4> QED
        BY <4>1, <4>2
    <3> HIDE DEF d
    <3> QED
      BY <2>2, <2>3, <3>1
  <2> QED
    BY <2>2, <2>3
<1>6. CASE SomeReliabilityStep \/ ConfigureFailureInjection \/ UNCHANGED repoVars
  BY <1>6 DEF SomeReliabilityStep, RecordNoOp, ConsumeFailureInjection,
     ConfigureFailureInjection, repoVars
<1> QED
  BY <1>1, <1>2, <1>3, <1>4, <1>5, <1>6 DEF RepoNext

\* Blind saves, commits and verifications leave evidence and generation alone.
LEMMA ScheduleStands ==
    ASSUME RepoTypeOK, NEW e \in Events,
           SomeSave \/ SomeTransfer \/ SomeVerification
           \/ SomeReliabilityStep \/ ConfigureFailureInjection \/ UNCHANGED repoVars
    PROVE  /\ events'[e].evidence = events[e].evidence
           /\ events'[e].generation = events[e].generation
<1>0. events \in [Events -> EventDocument]
  BY DEF RepoTypeOK
<1>1. CASE SomeTransfer
  <2>1. PICK c \in TransferCommit : ApplyTransfer(c)
    BY <1>1, TransfersAreCommits
  <2>2. events' = [events EXCEPT ![c.request].status  = "APPLIED",
                                 ![c.request].applied = NewLedgerId(c)]
    BY <2>1 DEF ApplyTransfer
  <2> QED
    BY <1>0, <2>2 DEF EventDocument
<1>2. CASE SomeSave
  <2>1. PICK f \in Events : \E st, i, a : SaveRequest(f, st, i, a)
    BY <1>2 DEF SomeSave
  <2>2. CASE e = f
    BY <1>0, <2>1, <2>2 DEF SaveRequest, EventDocument
  <2>3. CASE e # f
    BY <1>0, <2>1, <2>3 DEF SaveRequest
  <2> QED
    BY <2>2, <2>3
<1>3. CASE SomeVerification
  <2>1. PICK f \in Events : \/ events' = events
                            \/ events' = [events EXCEPT ![f].status   = "VERIFIED",
                                                        ![f].attested = TRUE]
    BY <1>3 DEF SomeVerification, SaveVerification, repoVars
  <2>2. CASE e = f
    BY <1>0, <2>1, <2>2 DEF EventDocument
  <2>3. CASE e # f
    BY <1>0, <2>1, <2>3
  <2> QED
    BY <2>2, <2>3
<1>4. CASE SomeReliabilityStep \/ ConfigureFailureInjection \/ UNCHANGED repoVars
  BY <1>4 DEF SomeReliabilityStep, RecordNoOp, ConsumeFailureInjection,
     ConfigureFailureInjection, repoVars
<1> QED
  BY <1>1, <1>2, <1>3, <1>4

\* Only a confirmation writes evidence.
LEMMA EvidenceStands ==
    ASSUME RepoTypeOK, NEW e \in Events,
           SomeSave \/ SomeTransfer \/ SomeVerification \/ SomeSchedule
           \/ SomeReliabilityStep \/ ConfigureFailureInjection \/ UNCHANGED repoVars
    PROVE  events'[e].evidence = events[e].evidence
<1>1. CASE SomeSchedule
  <2>1. events \in [Events -> EventDocument]
    BY DEF RepoTypeOK
  <2>2. PICK f \in Events, g \in Nat : \/ events' = events
                                     \/ events' = [events EXCEPT ![f].generation = g]
    BY <1>1 DEF SomeSchedule, PersistSchedule, repoVars
  <2> QED
    BY <2>1, <2>2 DEF EventDocument
<1> QED
  BY <1>1, ScheduleStands

\* Verification records are only added.
LEMMA VerificationsGrow ==
    ASSUME [RepoNext]_repoVars
    PROVE  verifications \subseteq verifications'
<1>1. CASE SomeVerification
  BY <1>1 DEF SomeVerification, SaveVerification, repoVars
<1>2. CASE SomeTransfer
  BY <1>2 DEF SomeTransfer, ApplyTransfer
<1>3. CASE SomeSave \/ SomeSchedule \/ SomeConfirmation
  BY <1>3 DEF SomeSave, SaveRequest, SomeSchedule, PersistSchedule,
     SomeConfirmation, RecordConfirmation, repoVars
<1>4. CASE SomeReliabilityStep \/ ConfigureFailureInjection \/ UNCHANGED repoVars
  BY <1>4 DEF SomeReliabilityStep, RecordNoOp, ConsumeFailureInjection,
     ConfigureFailureInjection, repoVars
<1> QED
  BY <1>1, <1>2, <1>3, <1>4 DEF RepoNext

\* Every step of the repository advances the run.
LEMMA RepoAdvances ==
    ASSUME RepoTypeOK, CustodyInv, [RepoNext]_repoVars
    PROVE  Advances
<1>1. \A e \in Events :
        /\ events[e].intent \in Intents(e) => events'[e].intent \in Intents(e)
        /\ events[e].evidence # None => events'[e].evidence = events[e].evidence
  BY DocumentWrites
<1>2. /\ scheduleVersion \in Nat
      /\ shifts \in [Shifts -> ShiftDocument]
      /\ \A s \in Shifts : shifts[s].version \in Nat
  BY DEF RepoTypeOK, ShiftDocument
<1>3. ASSUME NEW c \in TransferCommit, ApplyTransfer(c)
      PROVE  Advances
  <2>1. /\ scheduleVersion' = scheduleVersion + 1
        /\ shifts' = [shifts EXCEPT ![c.shift] =
                        [owner |-> NewEdge(c).to, version |-> NewEdge(c).shift_version,
                         head  |-> NewEdge(c).id]]
        /\ NewEdge(c).shift_version = shifts[c.shift].version + 1
        /\ ledger \subseteq ledger'
    BY <1>3, NewEdgeFollowsHead DEF ApplyTransfer
  <2>2. \A s \in Shifts : shifts[s].version <= shifts'[s].version
    BY <1>2, <2>1
  <2> QED
    BY <1>1, <1>2, <2>1, <2>2, VerificationsGrow DEF Advances
<1>4. CASE UNCHANGED <<scheduleVersion, shifts, ledger>>
  BY <1>1, <1>2, <1>4, VerificationsGrow DEF Advances
<1> QED
  BY <1>3, <1>4, CustodyFrame

\* Documents stay about their own message and edges.
LEMMA DocumentsOwnStep ==
    ASSUME RepoTypeOK, CustodyInv, DocumentsOwn, [RepoNext]_repoVars
    PROVE  DocumentsOwn'
<1>1. Advances
  BY RepoAdvances
<1>2. \A e \in Events : AppliedIds(e) \subseteq AppliedIds(e)'
  BY <1>1 DEF Advances, AppliedIds
<1>3. \A e \in Events : \A x \in ledger' : x.request = e => x.id \in AppliedIds(e)'
  BY DEF AppliedIds
<1> QED
  BY <1>2, <1>3, DocumentWrites DEF DocumentsOwn

-----------------------------------------------------------------------------
(* Type correctness.                                                       *)

\* The rules end in one of four states, and a transfer that is READY is a
\* complete and unambiguous one whose recipient consents and fits.
LEMMA Outcomes ==
    ASSUME NEW e \in Events, NEW i \in Parses[e] \cup Intents(e), NEW late
    PROVE  /\ RunDecision(i, late) \in
                {"REJECTED", "NEEDS_CLARIFICATION", "WAITING_CONFIRMATION", "READY"}
           /\ RunDecision(i, late) = "READY" /\ i.type # "CONFIRM_REQUEST" =>
                /\ <<i.type, i.ambiguous>> = <<"TRANSFER_SHIFT", FALSE>>
                /\ i.shift \in Shifts /\ {i.from, i.to} \subseteq Workers
                /\ RecipientFits(i)
<1>1. i.type \in IntentType /\ i.ambiguous \in BOOLEAN
  BY IntentShape
<1>2. i.type = "TRANSFER_SHIFT" /\ ~i.ambiguous =>
        i.shift \in Shifts /\ {i.from, i.to} \subseteq Workers
  BY IntentShape DEF ValidShape, Optional
<1>3. TransferDecision(i) \in {"REJECTED", "WAITING_CONFIRMATION", "READY"}
  BY DEF TransferDecision
<1>4. TransferDecision(i) = "READY" => RecipientFits(i)
  BY DEF TransferDecision
<1> QED
  BY <1>1, <1>2, <1>3, <1>4 DEF RunDecision, IntentType

\* Each action leaves its handler with well-typed locals.
LEMMA EngineTypeStep ==
    ASSUME EngineTypeOK, CallsInv, [EngineNext]_engineVars, RepoTypeOK'
    PROVE  EngineTypeOK'
<1> DEFINE T == [Handlers -> EngineLocals]
<1>0. RepoTypeOK /\ proc \in T /\ expired \in BOOLEAN
  BY DEF EngineTypeOK
<1>1. Idle \in EngineLocals
  BY DEF Idle, EngineLocals, EnginePc, Optional
<1>2. ASSUME NEW h \in Handlers, NEW r \in RequestState \cup {"RAISED"}, Return(h, r)
      PROVE  proc' \in T
  <2>1. [Idle EXCEPT !.pc = "returned", !.result = r] \in EngineLocals
    BY <1>1 DEF EngineLocals, EnginePc, Optional
  <2> QED
    BY <1>0, <1>2, <2>1 DEF Return
<1>3. ASSUME NEW h \in Handlers, NEW pc \in EnginePc, Goto(h, pc)
      PROVE  proc' \in T
  BY <1>0, <1>3 DEF Goto, EngineLocals
<1>4. ASSUME NEW h \in Handlers, proc' = [proc EXCEPT ![h] = Idle]
      PROVE  proc' \in T
  BY <1>0, <1>1, <1>4
<1>5. ASSUME NEW e \in Events
      PROVE  /\ events[e].status \in RequestState
             /\ events[e].intent \in Optional(Readings)
             /\ events[e].applied \in Optional(LedgerId)
  BY <1>0 DEF RepoTypeOK, EventDocument, Readings, Optional
<1>6. ASSUME NEW h \in Handlers, proc[h].pc \notin {"idle", "returned"}
      PROVE  proc[h].event \in Events
  BY <1>6 DEF CallsInv, CallReads, InCall
<1>7. ASSUME NEW h \in Handlers, NEW e \in Events, NEW i \in CallableIntents(e),
             Call(h, e, i)
      PROVE  proc' \in T
  <2>1. i \in Readings
    <3>1. CASE i \in Parses[e]
      BY <3>1 DEF Readings
    <3>2. CASE i \notin Parses[e]
      <4>1. /\ events[e].intent # None /\ events[e].evidence # None
            /\ i = Confirmed(events[e].intent, events[e].evidence.by)
        BY <1>7, <3>2 DEF CallableIntents
      <4>2. events[e].intent \in Intents(e)
        BY <4>1 DEF CallsInv, DocumentsOwn
      <4>3. events[e].evidence.by \in Workers
        BY <1>0, <4>1 DEF RepoTypeOK, EventDocument, Optional, Evidence
      <4> QED
        BY <4>1, <4>2, <4>3, ConfirmedIsStorable DEF Readings
    <3> QED
      BY <3>1, <3>2
  <2>2. [Idle EXCEPT !.pc = "existing", !.event = e, !.intent = i] \in EngineLocals
    BY <1>1, <2>1 DEF EngineLocals, EnginePc, Optional
  <2> QED
    BY <1>0, <1>7, <2>2 DEF Call
<1>8. ASSUME NEW h \in Handlers, NEW e \in Events, CallVerify(h, e)
      PROVE  proc' \in T
  <2>1. [Idle EXCEPT !.pc = "readback", !.event = e, !.intent = events[e].intent,
                     !.applied = events[e].applied, !.ledger = events[e].applied]
          \in EngineLocals
    BY <1>1, <1>5 DEF EngineLocals, EnginePc, Optional
  <2> QED
    BY <1>0, <1>8, <2>1 DEF CallVerify
<1>9. ASSUME NEW h \in Handlers, ReadExisting(h)
      PROVE  proc' \in T
  <2>1. proc[h].event \in Events
    BY <1>6, <1>9 DEF ReadExisting
  <2>2. CASE \E r \in {"REJECTED", "VERIFIED"} : Return(h, r)
    BY <1>2, <2>2 DEF RequestState
  <2>3. CASE proc' = [proc EXCEPT ![h].pc = "validate",
                                  ![h].applied = events[proc[h].event].applied]
    <3>1. [proc[h] EXCEPT !.pc = "validate", !.applied = events[proc[h].event].applied]
            \in EngineLocals
      BY <1>0, <1>5, <2>1 DEF EngineLocals, EnginePc
    <3> QED
      BY <1>0, <2>3, <3>1
  <2> QED
    BY <1>9, <2>2, <2>3 DEF ReadExisting
<1>10. ASSUME NEW h \in Handlers, Validate(h)
       PROVE  proc' \in T /\ expired' \in BOOLEAN
  <2> DEFINE p == proc[h]
             state == RunDecision(p.intent, expired')
             ready == state = "READY" /\ p.intent.type = "TRANSFER_SHIFT"
             d == [state    |-> state,
                   schedule |-> IF ready THEN scheduleVersion ELSE None,
                   version  |-> IF ready THEN shifts[p.intent.shift].version ELSE None,
                   head     |-> IF ready THEN shifts[p.intent.shift].head ELSE None]
             pc == IF NeedsLookup(p.intent, state) THEN "lookup" ELSE "save"
  <2>1. p.event \in Events /\ p.intent \in Intents(p.event)
    BY <1>6, <1>10 DEF Validate, CallsInv, CallReads, InCall
  <2>2. /\ state \in RequestState
        /\ ready => p.intent.shift \in Shifts
    BY <2>1, Outcomes DEF RequestState
  <2>3. \A s \in Shifts : shifts[s].version \in Nat /\ shifts[s].head \in LedgerId
    BY <1>0 DEF RepoTypeOK, ShiftDocument
  <2>4. d \in Decision
    BY <1>0, <2>2, <2>3 DEF Decision, Optional, RepoTypeOK
  <2>5. proc' = [proc EXCEPT ![h].pc = pc, ![h].decision = d] /\ LookAtClock
    BY <1>10 DEF Validate
  <2>6. pc \in EnginePc
    BY DEF EnginePc
  <2> HIDE DEF d, pc
  <2>7. proc' \in T
    BY <1>0, <2>4, <2>5, <2>6 DEF EngineLocals, Optional
  <2> QED
    BY <1>0, <2>5, <2>7, EngineConstants DEF LookAtClock
<1>11. ASSUME NEW h \in Handlers, Lookup(h)
       PROVE  proc' \in T
  <2>1. PICK st \in RequestState :
          proc' = [proc EXCEPT ![h].pc = "save", ![h].decision.state = st]
    BY <1>11 DEF Lookup, RequestState
  <2>2. proc[h].decision \in Decision
    BY <1>11 DEF Lookup, CallsInv, CallDecides
  <2>3. [proc[h].decision EXCEPT !.state = st] \in Decision
    BY <2>2 DEF Decision
  <2>4. [proc[h] EXCEPT !.pc = "save", !.decision.state = st] \in EngineLocals
    BY <1>0, <2>3 DEF EngineLocals, EnginePc, Optional
  <2> QED
    BY <1>0, <2>1, <2>4
<1>12. ASSUME NEW h \in Handlers, Save(h)
       PROVE  proc' \in T
  <2>1. proc[h].decision.state \in RequestState
    BY <1>12 DEF Save, CallsInv, CallDecides, RequestState
  <2> QED
    BY <1>2, <1>3, <1>12, <2>1 DEF Save, EnginePc
<1>13. ASSUME NEW h \in Handlers, Commit(h)
       PROVE  proc' \in T
  <2>1. proc[h].event \in Events
    BY <1>6, <1>13 DEF Commit
  <2>2. NewLedgerId(Command(proc[h])) \in LedgerId
    <3>1. ReadyTransfer(h)
      BY <1>13 DEF Commit, CallsInv, CallDecides, ReadyTransfer
    <3>2. proc[h].decision.version \in Nat
      <4>1. /\ proc[h].intent.shift \in Shifts
            /\ proc[h].decision.version \in 0..shifts[proc[h].intent.shift].version
        BY <3>1 DEF CallsInv, CallDecides
      <4>2. shifts[proc[h].intent.shift].version \in Nat
        BY <1>0, <4>1 DEF RepoTypeOK, ShiftDocument
      <4> QED
        BY <4>1, <4>2
    <3> QED
      BY <2>1, <3>2 DEF NewLedgerId, Command, LedgerId
  <2> DEFINE id == NewLedgerId(Command(proc[h]))
  <2> HIDE DEF id
  <2>3. [proc[h] EXCEPT !.pc = "reread", !.decision = None, !.ledger = id]
          \in EngineLocals
    BY <1>0, <2>2 DEF EngineLocals, EnginePc, Optional, id
  <2>4. proc' = [proc EXCEPT ![h].pc = "reread", ![h].decision = None, ![h].ledger = id]
    BY <1>13 DEF Commit, id
  <2> QED
    BY <1>0, <2>3, <2>4
<1>14. ASSUME NEW h \in Handlers, CommitRefused(h)
       PROVE  proc' \in T
  BY <1>0, <1>14 DEF CommitRefused, EngineLocals, EnginePc, Optional
<1>15. ASSUME NEW h \in Handlers, Reread(h)
       PROVE  proc' \in T
  <2>1. proc[h].event \in Events
    BY <1>6, <1>15 DEF Reread
  <2>2. CASE Return(h, "RAISED")
    BY <1>2, <2>2
  <2>3. CASE proc' = [proc EXCEPT ![h].pc = "readback",
                                  ![h].intent = events[proc[h].event].intent,
                                  ![h].applied = events[proc[h].event].applied]
    <3>1. [proc[h] EXCEPT !.pc = "readback", !.intent = events[proc[h].event].intent,
                          !.applied = events[proc[h].event].applied] \in EngineLocals
      BY <1>0, <1>5, <2>1 DEF EngineLocals, EnginePc
    <3> QED
      BY <1>0, <2>3, <3>1
  <2> QED
    BY <1>15, <2>2, <2>3 DEF Reread
<1>16. ASSUME NEW h \in Handlers, Attest(h)
       PROVE  proc' \in T
  <2>1. proc[h].event \in Events
    BY <1>6, <1>16 DEF Attest
  <2>2. CASE Return(h, "RAISED")
    BY <1>2, <2>2
  <2>3. CASE proc' = [proc EXCEPT ![h].pc = "record",
                                  ![h].ledger = events[proc[h].event].applied]
    <3>1. [proc[h] EXCEPT !.pc = "record", !.ledger = events[proc[h].event].applied]
            \in EngineLocals
      BY <1>0, <1>5, <2>1 DEF EngineLocals, EnginePc
    <3> QED
      BY <1>0, <2>3, <3>1
  <2> QED
    BY <1>16, <2>2, <2>3 DEF Attest
<1>17. ASSUME NEW h \in Handlers, Confirm(h) \/ Conflict(h) \/ Unreadable(h) \/ Publish(h)
       PROVE  proc' \in T
  BY <1>2, <1>17 DEF Confirm, Conflict, Unreadable, Publish, RequestState
<1>18. ASSUME NEW h \in Handlers, Replay(h)
       PROVE  proc' \in T
  <2>1. proc[h].event \in Events
    BY <1>6, <1>18 DEF Replay
  <2> QED
    BY <1>2, <1>5, <1>18, <2>1 DEF Replay
<1>19. ASSUME NEW h \in Handlers, Readback(h) \/ Record(h)
       PROVE  proc' \in T
  BY <1>3, <1>19 DEF Readback, Record, EnginePc
<1>20. ASSUME NEW h \in Handlers, Collect(h) \/ Crash(h)
       PROVE  proc' \in T
  BY <1>4, <1>20 DEF Collect, Crash
<1>21. proc' \in T /\ expired' \in BOOLEAN
  <2>1. ASSUME NEW h \in Handlers, EngineStep(h)
        PROVE  proc' \in T
    BY <1>9, <1>10, <1>11, <1>12, <1>13, <1>14, <1>15, <1>16, <1>17, <1>18, <1>19, <2>1
       DEF EngineStep
  <2>2. ASSUME NEW h \in Handlers, EngineStep(h) \/ Collect(h) \/ Crash(h)
        PROVE  expired' \in BOOLEAN
    BY <1>0, <1>10, <2>2 DEF EngineStep, ReadExisting, Lookup, Save, Confirm, Commit,
       CommitRefused, Replay, Conflict, Reread, Readback, Unreadable, Attest, Record,
       Publish, Collect, Crash
  <2>3. CASE OtherWriter \/ UNCHANGED engineVars
    BY <1>0, <2>3 DEF OtherWriter, engineVars
  <2>4. ASSUME NEW h \in Handlers, NEW e \in Events,
               \/ \E i \in CallableIntents(e) : Call(h, e, i)
               \/ CallVerify(h, e)
        PROVE  proc' \in T /\ expired' \in BOOLEAN
    BY <1>0, <1>7, <1>8, <2>4 DEF Call, CallVerify
  <2> QED
    BY <1>20, <2>1, <2>2, <2>3, <2>4 DEF EngineNext
<1> QED
  BY <1>21 DEF EngineTypeOK

-----------------------------------------------------------------------------
(* Every step is a step of the repository.                                 *)

\* A save by a call past its first read is one the repository offers anybody.
LEMMA CallSaves ==
    ASSUME CallsInv, NEW h \in Handlers, InCall(h), proc[h].pc # "existing",
           NEW st \in {"REJECTED", "NEEDS_CLARIFICATION", "WAITING_CONFIRMATION",
                       "READY", "FAILED", "VERIFIED"},
           SaveRequest(proc[h].event, st, proc[h].intent, proc[h].applied)
    PROVE  SomeSave
<1>1. st \in SavedStates
  BY EngineSaves
<1>2. /\ proc[h].event \in Events
      /\ proc[h].intent \in Intents(proc[h].event)
      /\ proc[h].applied \in AppliedIds(proc[h].event)
  BY DEF CallsInv, CallReads
<1> QED
  BY <1>1, <1>2 DEF SomeSave

\* A step of the engine's own is a save, a transfer, a verification, or a read.
LEMMA EngineStepWrites ==
    ASSUME CallsInv, NEW h \in Handlers, EngineStep(h)
    PROVE  SomeSave \/ SomeTransfer \/ SomeVerification \/ UNCHANGED repoVars
<1>1. CASE ReadExisting(h) \/ Validate(h) \/ Lookup(h) \/ CommitRefused(h)
             \/ Replay(h) \/ Reread(h) \/ Readback(h) \/ Attest(h)
  BY <1>1 DEF ReadExisting, Validate, Lookup, CommitRefused, Replay, Reread, Readback,
     Attest
<1>2. CASE Save(h)
  BY <1>2, CallSaves DEF Save, InCall, CallsInv, CallDecides
<1>3. CASE Confirm(h) \/ Conflict(h) \/ Unreadable(h) \/ Publish(h)
  BY <1>3, CallSaves DEF Confirm, Conflict, Unreadable, Publish, InCall
<1>4. CASE Record(h)
  BY <1>4 DEF Record, SomeVerification, CallsInv, CallReads, InCall, AppliedIds
<1>5. CASE Commit(h)
  <2> DEFINE p == proc[h]
  <2>1. p.event \in Events /\ p.intent \in Intents(p.event)
    BY <1>5 DEF Commit, CallsInv, CallReads, InCall
  <2>2. /\ p.intent.shift \in Shifts /\ {p.intent.from, p.intent.to} \subseteq Workers
        /\ p.decision.schedule \in 0..scheduleVersion
        /\ p.decision.version \in 0..shifts[p.intent.shift].version
        /\ \E x \in ledger : x.id = p.decision.head
    BY <1>5 DEF Commit, CallsInv, CallDecides, ReadyTransfer
  <2>3. ApplyTransfer([request |-> p.event, shift |-> p.intent.shift,
                       from |-> p.intent.from, to |-> p.intent.to,
                       expected_schedule_version |-> p.decision.schedule,
                       expected_shift_version    |-> p.decision.version,
                       expected_custody_head     |-> p.decision.head])
    BY <1>5 DEF Commit, Command
  <2>4. None \notin {p.intent.shift, p.intent.from, p.intent.to}
    BY <2>2, NamesDistinct
  <2> HIDE DEF p
  <2> QED
    BY <2>1, <2>2, <2>3, <2>4 DEF SomeTransfer
<1> QED
  BY <1>1, <1>2, <1>3, <1>4, <1>5 DEF EngineStep

\* Whatever a call of the engine, a crash or another writer does, the repository
\* does it for arbitrary callers, or does not notice.
LEMMA EngineStepsImplement ==
    ASSUME EngineTypeOK, CallsInv, [EngineNext]_engineVars
    PROVE  [RepoNext]_repoVars
<1>1. ASSUME NEW h \in Handlers,
             \/ \E e \in Events : CallVerify(h, e) \/ \E i \in CallableIntents(e) : Call(h, e, i)
             \/ Collect(h) \/ Crash(h)
      PROVE  UNCHANGED repoVars
  BY <1>1 DEF Collect, Crash, CallVerify, Call
<1>2. CASE OtherWriter
  BY <1>2 DEF OtherWriter, RepoNext
<1>3. CASE UNCHANGED engineVars
  BY <1>3 DEF engineVars
<1> QED
  BY <1>1, <1>2, <1>3, EngineStepWrites DEF EngineNext, RepoNext

-----------------------------------------------------------------------------
(* The calls' invariant.                                                   *)

CallInv(h) == CallReads(h) /\ CallDecides(h)

\* What a call has read stands, whatever anybody else does meanwhile.
LEMMA CallStands ==
    ASSUME EngineTypeOK, RepoTypeOK', Advances,
           NEW h \in Handlers, CallInv(h), proc'[h] = proc[h]
    PROVE  CallInv(h)'
<1> DEFINE p == proc[h]
<1>1. \A e \in Events : AppliedIds(e) \subseteq AppliedIds(e)'
  BY DEF Advances, AppliedIds
<1>2. \A e \in Events : IsVerified(e) => IsVerified(e)'
  BY DEF Advances, IsVerified
<1>3. \A e \in Events : events[e].intent \in Intents(e) => events'[e].intent \in Intents(e)
  BY DEF Advances
<1>4. CallReads(h)'
  <2>1. InCall(h)' = InCall(h)
    BY DEF InCall
  <2>2. p.event \in Events \/ ~InCall(h)
    BY DEF CallInv, CallReads
  <2>3. p.pc = "publish" => IsVerified(p.event)'
    BY <1>2, <2>2 DEF CallInv, CallReads, InCall
  <2> QED
    BY <1>1, <1>3, <2>1, <2>2, <2>3 DEF CallInv, CallReads, InCall, IsVerified
<1>5. CallDecides(h)'
  <2>1. ReadyTransfer(h)' = ReadyTransfer(h)
    BY DEF ReadyTransfer
  <2>2. ASSUME ReadyTransfer(h)
        PROVE  /\ p.decision.schedule \in 0..scheduleVersion'
               /\ p.decision.version \in 0..shifts'[p.intent.shift].version
               /\ \E x \in ledger' : x.id = p.decision.head
               /\ p.decision.schedule = scheduleVersion' =>
                    p.decision.schedule = scheduleVersion /\ shifts' = shifts
    <3>1. /\ p.intent.shift \in Shifts
          /\ p.decision.schedule \in 0..scheduleVersion
          /\ p.decision.version \in 0..shifts[p.intent.shift].version
          /\ \E x \in ledger : x.id = p.decision.head
      BY <2>2 DEF CallInv, CallDecides
    <3>2. /\ scheduleVersion \in Nat /\ shifts[p.intent.shift].version \in Nat
          /\ scheduleVersion' \in Nat /\ shifts'[p.intent.shift].version \in Nat
      BY <3>1 DEF EngineTypeOK, RepoTypeOK, ShiftDocument
    <3> QED
      BY <3>1, <3>2 DEF Advances
  <2>3. RecipientFits(p.intent) /\ shifts' = shifts => RecipientFits(p.intent)'
    BY DEF RecipientFits, ShiftConflict
  <2> QED
    BY <2>1, <2>2, <2>3 DEF CallInv, CallDecides, RecipientFits, ShiftConflict
<1> QED
  BY <1>4, <1>5 DEF CallInv

\* Nothing is asked of a handler whose call is over.
LEMMA CallEnds ==
    ASSUME NEW h \in Handlers, proc'[h] = Idle \/ proc'[h].pc = "returned"
    PROVE  CallInv(h)'
<1>1. /\ proc'[h].pc \in {"idle", "returned"}
      /\ proc'[h].pc = "idle" => proc'[h] = Idle
  BY DEF Idle
<1>2. CallReads(h)'
  BY <1>1 DEF CallReads, InCall
<1>3. CallDecides(h)'
  BY <1>1 DEF CallDecides, ReadyTransfer
<1> QED
  BY <1>2, <1>3 DEF CallInv

\* A call begins with a message of its event or with the stored intent completed,
\* or, for a verification alone, with what is stored.
LEMMA CallBegins ==
    ASSUME EngineTypeOK, DocumentsOwn, NEW h \in Handlers, NEW e \in Events,
           \/ \E i \in CallableIntents(e) : Call(h, e, i)
           \/ CallVerify(h, e)
    PROVE  CallInv(h)'
<1>0. proc \in [Handlers -> EngineLocals] /\ UNCHANGED repoVars
  BY DEF EngineTypeOK, Call, CallVerify
<1>1. None \in AppliedIds(e) /\ AppliedIds(e)' = AppliedIds(e)
  BY <1>0 DEF AppliedIds, repoVars
<1>2. ASSUME NEW i \in CallableIntents(e), Call(h, e, i)
      PROVE  CallInv(h)'
  <2>1. i \in Parses[e] \cup Intents(e)
    <3>1. ASSUME i \notin Parses[e]
          PROVE  /\ events[e].intent # None /\ events[e].evidence # None
                 /\ i = Confirmed(events[e].intent, events[e].evidence.by)
      BY <1>2, <3>1 DEF CallableIntents
    <3>2. events[e].intent # None => events[e].intent \in Intents(e)
      BY DEF DocumentsOwn
    <3>3. events[e].evidence # None => events[e].evidence.by \in Workers
      BY DEF EngineTypeOK, RepoTypeOK, EventDocument, Optional, Evidence
    <3> QED
      BY <3>1, <3>2, <3>3, ConfirmedIsStorable
  <2>2. proc'[h] = [Idle EXCEPT !.pc = "existing", !.event = e, !.intent = i]
    BY <1>0, <1>2 DEF Call
  <2>3. /\ proc'[h].pc = "existing" /\ proc'[h].event = e /\ proc'[h].intent = i
        /\ proc'[h].applied = None
    BY <2>2 DEF Idle
  <2>4. CallReads(h)'
    BY <1>1, <2>1, <2>3 DEF CallReads, InCall
  <2>5. CallDecides(h)'
    BY <2>3 DEF CallDecides, ReadyTransfer
  <2> QED
    BY <2>4, <2>5 DEF CallInv
<1>3. CASE CallVerify(h, e)
  <2>1. /\ events[e].intent \in Intents(e)
        /\ events[e].applied \in AppliedIds(e) \ {None}
    BY <1>3 DEF CallVerify, DocumentsOwn
  <2>2. proc'[h] = [Idle EXCEPT !.pc = "readback", !.event = e,
                       !.intent = events[e].intent, !.applied = events[e].applied,
                       !.ledger = events[e].applied]
    BY <1>0, <1>3 DEF CallVerify
  <2>3. /\ proc'[h].pc = "readback" /\ proc'[h].event = e
        /\ proc'[h].intent = events[e].intent
        /\ proc'[h].applied = events[e].applied /\ proc'[h].ledger = events[e].applied
    BY <2>2 DEF Idle
  <2>4. CallReads(h)'
    BY <1>1, <2>1, <2>3 DEF CallReads, InCall
  <2>5. CallDecides(h)'
    BY <2>3 DEF CallDecides, ReadyTransfer
  <2> QED
    BY <2>4, <2>5 DEF CallInv
<1> QED
  BY <1>2, <1>3

\* The first read lets only messages pass that name the event as their source.
LEMMA ReadExistingKeeps ==
    ASSUME EngineTypeOK, DocumentsOwn, NEW h \in Handlers, CallInv(h), ReadExisting(h)
    PROVE  CallInv(h)'
<1> DEFINE p == proc[h]
<1>0. p \in EngineLocals /\ proc \in [Handlers -> EngineLocals] /\ UNCHANGED repoVars
  BY DEF EngineTypeOK, ReadExisting
<1>1. /\ p.event \in Events
      /\ p.intent \in Parses[p.event] \cup Intents(p.event)
  BY DEF ReadExisting, CallInv, CallReads, InCall
<1>2. CASE \E r \in {"REJECTED", "VERIFIED"} : Return(h, r)
  <2>1. proc'[h].pc = "returned"
    BY <1>0, <1>2 DEF Return, Idle
  <2> QED
    BY <2>1, CallEnds
<1>3. CASE /\ OwnSource(p)
           /\ proc' = [proc EXCEPT ![h].pc = "validate",
                                   ![h].applied = events[p.event].applied]
  <2>1. p.intent \in Intents(p.event)
    BY <1>1, <1>3 DEF OwnSource, Intents, StorableIntents, StorableParses
  <2>2. /\ proc'[h].pc = "validate" /\ proc'[h].event = p.event
        /\ proc'[h].intent = p.intent /\ proc'[h].applied = events[p.event].applied
    BY <1>0, <1>3 DEF EngineLocals
  <2>3. proc'[h].applied \in AppliedIds(p.event)'
    BY <1>0, <1>1, <2>2 DEF DocumentsOwn, AppliedIds, repoVars
  <2>4. CallReads(h)'
    BY <1>1, <2>1, <2>2, <2>3 DEF CallReads, InCall
  <2>5. CallDecides(h)'
    BY <2>2 DEF CallDecides, ReadyTransfer
  <2> QED
    BY <2>4, <2>5 DEF CallInv
<1> QED
  BY <1>2, <1>3 DEF ReadExisting

\* validate decides on versions and a head that are the run's at this moment.
LEMMA ValidateKeeps ==
    ASSUME EngineTypeOK, CustodyInv, NEW h \in Handlers, CallInv(h), Validate(h)
    PROVE  CallInv(h)'
<1> DEFINE p == proc[h]
           state == RunDecision(p.intent, expired')
           ready == state = "READY" /\ p.intent.type = "TRANSFER_SHIFT"
           d == [state    |-> state,
                 schedule |-> IF ready THEN scheduleVersion ELSE None,
                 version  |-> IF ready THEN shifts[p.intent.shift].version ELSE None,
                 head     |-> IF ready THEN shifts[p.intent.shift].head ELSE None]
<1>0. /\ proc \in [Handlers -> EngineLocals] /\ UNCHANGED repoVars
      /\ RepoTypeOK
  BY DEF EngineTypeOK, Validate
<1>1. /\ p.event \in Events /\ p.intent \in Intents(p.event)
      /\ p.applied \in AppliedIds(p.event)
  BY DEF Validate, CallInv, CallReads, InCall
<1>2. /\ state \in {"REJECTED", "NEEDS_CLARIFICATION", "WAITING_CONFIRMATION", "READY"}
      /\ state = "READY" /\ p.intent.type # "CONFIRM_REQUEST" =>
           /\ <<p.intent.type, p.intent.ambiguous>> = <<"TRANSFER_SHIFT", FALSE>>
           /\ p.intent.shift \in Shifts /\ {p.intent.from, p.intent.to} \subseteq Workers
           /\ RecipientFits(p.intent)
  BY <1>1, Outcomes
<1>3. \A s \in Shifts : /\ shifts[s].version \in Nat
                        /\ shifts[s].head \in LedgerId
                        /\ \E x \in ledger : x.id = shifts[s].head
  BY <1>0 DEF RepoTypeOK, ShiftDocument, CustodyInv, HeadIsCurrent
<1>4. d \in Decision
  BY <1>0, <1>2, <1>3 DEF Decision, Optional, RepoTypeOK, RequestState
<1>5. /\ proc'[h].pc = (IF NeedsLookup(p.intent, state) THEN "lookup" ELSE "save")
      /\ proc'[h].event = p.event /\ proc'[h].intent = p.intent
      /\ proc'[h].applied = p.applied /\ proc'[h].decision = d
  BY <1>0 DEF Validate, EngineLocals
<1>6. AppliedIds(p.event)' = AppliedIds(p.event)
  BY <1>0, <1>5 DEF AppliedIds, repoVars
<1>7. CallReads(h)'
  BY <1>1, <1>5, <1>6 DEF CallReads, InCall
<1>8. ASSUME ready
      PROVE  /\ d.schedule = scheduleVersion /\ scheduleVersion \in 0..scheduleVersion
             /\ d.version \in 0..shifts[p.intent.shift].version
             /\ \E x \in ledger : x.id = d.head
  BY <1>0, <1>2, <1>3, <1>8 DEF RepoTypeOK
<1>9. d.state = state
  OBVIOUS
<1> HIDE DEF state, d
<1>10. CallDecides(h)'
  BY <1>0, <1>2, <1>4, <1>5, <1>8, <1>9
     DEF CallDecides, ReadyTransfer, NeedsLookup, RecipientFits, ShiftConflict, repoVars
<1> QED
  BY <1>7, <1>10 DEF CallInv

\* The second document decides between READY and REJECTED, nothing else.
LEMMA LookupKeeps ==
    ASSUME EngineTypeOK, NEW h \in Handlers, CallInv(h), Lookup(h)
    PROVE  CallInv(h)'
<1> DEFINE p == proc[h]
<1>0. proc \in [Handlers -> EngineLocals] /\ UNCHANGED repoVars
  BY DEF EngineTypeOK, Lookup
<1>1. PICK st \in {"READY", "REJECTED"} :
        proc' = [proc EXCEPT ![h].pc = "save", ![h].decision.state = st]
  BY DEF Lookup
<1>2. p.pc = "lookup" /\ p.decision \in Decision /\ p.decision.state = "READY"
  BY DEF Lookup, CallInv, CallDecides
<1>3. [p.decision EXCEPT !.state = st] \in Decision
  BY <1>2 DEF Decision, RequestState
<1>4. /\ proc'[h].pc = "save" /\ proc'[h].event = p.event /\ proc'[h].intent = p.intent
      /\ proc'[h].applied = p.applied
      /\ proc'[h].decision = [p.decision EXCEPT !.state = st]
  BY <1>0, <1>1 DEF EngineLocals
<1>5. /\ proc'[h].decision.state = st
      /\ proc'[h].decision.schedule = p.decision.schedule
      /\ proc'[h].decision.version = p.decision.version
      /\ proc'[h].decision.head = p.decision.head
  BY <1>2, <1>4 DEF Decision
<1>6. AppliedIds(p.event)' = AppliedIds(p.event)
  BY <1>0, <1>4 DEF AppliedIds, repoVars
<1>7. CallReads(h)'
  BY <1>2, <1>4, <1>6 DEF CallReads, InCall, CallInv
<1>8. ReadyTransfer(h)' => ReadyTransfer(h)
  BY <1>2, <1>4, <1>5 DEF ReadyTransfer
<1>9. CallDecides(h)'
  <2>1. /\ proc'[h].decision \in Decision
        /\ proc'[h].decision.state \in
             {"REJECTED", "NEEDS_CLARIFICATION", "WAITING_CONFIRMATION", "READY"}
    BY <1>3, <1>4, <1>5
  <2>2. RecipientFits(p.intent) => RecipientFits(p.intent)'
    BY <1>0, <1>4 DEF RecipientFits, ShiftConflict, repoVars
  <2> QED
    BY <1>0, <1>4, <1>5, <1>8, <2>1, <2>2 DEF CallDecides, CallInv, repoVars
<1> QED
  BY <1>7, <1>9 DEF CallInv

\* Saving the decision ends the call, or leads on to the confirmation or commit.
LEMMA SaveKeeps ==
    ASSUME EngineTypeOK, NEW h \in Handlers, CallInv(h), Save(h)
    PROVE  CallInv(h)'
<1> DEFINE p == proc[h]
<1>0. /\ proc \in [Handlers -> EngineLocals]
      /\ UNCHANGED <<scheduleVersion, shifts, ledger, verifications>>
  BY DEF EngineTypeOK, Save, SaveRequest
<1>1. CASE Return(h, p.decision.state)
  <2>1. proc'[h].pc = "returned"
    BY <1>0, <1>1 DEF Return, Idle
  <2> QED
    BY <2>1, CallEnds
<1>2. ASSUME NEW pc \in {"confirm", "commit"}, Goto(h, pc), p.decision.state = "READY",
             pc = "confirm" <=> p.intent.type = "CONFIRM_REQUEST"
      PROVE  CallInv(h)'
  <2>1. /\ proc'[h].pc = pc /\ proc'[h].event = p.event /\ proc'[h].intent = p.intent
        /\ proc'[h].applied = p.applied /\ proc'[h].decision = p.decision
    BY <1>0, <1>2 DEF Goto, EngineLocals
  <2>2. AppliedIds(p.event)' = AppliedIds(p.event)
    BY <1>0, <2>1 DEF AppliedIds
  <2>3. p.pc = "save"
    BY DEF Save
  <2>4. CallReads(h)'
    BY <1>2, <2>1, <2>2, <2>3 DEF CallReads, InCall, CallInv
  <2>5. ReadyTransfer(h)' => ReadyTransfer(h)
    BY <1>2, <2>1, <2>3 DEF ReadyTransfer
  <2>6. RecipientFits(p.intent) => RecipientFits(p.intent)'
    BY <1>0, <2>1 DEF RecipientFits, ShiftConflict
  <2>7. CallDecides(h)'
    BY <1>0, <1>2, <2>1, <2>3, <2>5, <2>6 DEF CallDecides, CallInv
  <2> QED
    BY <2>4, <2>7 DEF CallInv
<1> QED
  BY <1>1, <1>2 DEF Save

\* The commit names its new edge, and the stored intent it looked at.
LEMMA CommitKeeps ==
    ASSUME EngineTypeOK, DocumentsOwn, NEW h \in Handlers, CallInv(h), Commit(h)
    PROVE  CallInv(h)'
<1> DEFINE p == proc[h]
           c == Command(p)
<1>0. /\ proc \in [Handlers -> EngineLocals]
      /\ events \in [Events -> EventDocument]
      /\ ApplyTransfer(c) /\ p.pc = "commit"
  BY DEF EngineTypeOK, RepoTypeOK, Commit
<1>1. /\ c.request = p.event
      /\ p.event \in Events /\ p.intent \in Intents(p.event)
      /\ p.applied \in AppliedIds(p.event)
  BY <1>0 DEF CallInv, CallReads, InCall, Command
<1>2. ledger' = ledger \cup {NewEdge(c)}
  BY <1>0 DEF ApplyTransfer
<1>3. events'[p.event].intent \in Intents(p.event)
  <2>1. events[p.event].intent \in Intents(p.event)
    BY <1>0, <1>1 DEF ApplyTransfer, CommitApplies, ConsentStored, DocumentsOwn
  <2>2. events' = [events EXCEPT ![p.event].status  = "APPLIED",
                                 ![p.event].applied = NewLedgerId(c)]
    BY <1>0, <1>1 DEF ApplyTransfer
  <2> HIDE DEF c
  <2>3. events'[p.event].intent = events[p.event].intent
    BY <1>0, <1>1, <2>2 DEF EventDocument
  <2> QED
    BY <2>1, <2>3
<1>4. /\ NewEdge(c).request = p.event /\ NewEdge(c).id = NewLedgerId(c)
      /\ NewLedgerId(c) \in LedgerId
  <2>1. ReadyTransfer(h)
    BY <1>0 DEF CallInv, CallDecides, ReadyTransfer
  <2>2. /\ p.intent.shift \in Shifts
        /\ p.decision.version \in 0..shifts[p.intent.shift].version
    BY <2>1 DEF CallInv, CallDecides
  <2>3. p.decision.version \in Nat
    BY <2>2 DEF EngineTypeOK, RepoTypeOK, ShiftDocument
  <2> QED
    BY <1>1, <2>3 DEF NewEdge, NewLedgerId, LedgerId, Command
<1> DEFINE id == NewLedgerId(c)
<1>5. /\ p.applied \in {None} \cup {x.id : x \in {y \in ledger' : y.request = p.event}}
      /\ id \in {x.id : x \in {y \in ledger' : y.request = p.event}}
  BY <1>1, <1>2, <1>4 DEF AppliedIds
<1>6. id # None
  BY <1>4, NamesDistinct DEF LedgerId
<1>7. proc' = [proc EXCEPT ![h].pc = "reread", ![h].decision = None, ![h].ledger = id]
  BY DEF Commit
<1> HIDE DEF c, id
<1>8. /\ proc'[h].pc = "reread" /\ proc'[h].event = p.event /\ proc'[h].intent = p.intent
      /\ proc'[h].applied = p.applied /\ proc'[h].ledger = id
  BY <1>0, <1>7 DEF EngineLocals
<1>9. CallReads(h)'
  BY <1>1, <1>3, <1>5, <1>6, <1>8 DEF CallReads, InCall, AppliedIds
<1>10. CallDecides(h)'
  BY <1>8 DEF CallDecides, ReadyTransfer
<1> QED
  BY <1>9, <1>10 DEF CallInv

\* Nor do the calls that only read, or write through save_verification.
LEMMA RemainingCallsKeep ==
    ASSUME EngineTypeOK, DocumentsOwn, NEW h \in Handlers, CallInv(h),
           CommitRefused(h) \/ Reread(h) \/ Readback(h) \/ Attest(h) \/ Record(h)
    PROVE  CallInv(h)'
<1> DEFINE p == proc[h]
<1>0. /\ proc \in [Handlers -> EngineLocals]
      /\ UNCHANGED ledger
      /\ p.pc \notin {"idle", "returned", "existing"}
  BY DEF EngineTypeOK, CommitRefused, Reread, Readback, Attest, Record,
     SaveVerification, repoVars
<1>1. /\ p.event \in Events /\ p.intent \in Intents(p.event)
      /\ p.applied \in AppliedIds(p.event)
  BY <1>0 DEF CallInv, CallReads, InCall
<1>2. ASSUME proc'[h].pc = "returned" PROVE CallInv(h)'
  BY <1>2, CallEnds
<1>3. ASSUME NEW pc \in EnginePc, proc'[h].pc = pc,
             proc'[h].event = p.event,
             proc'[h].intent \in Intents(p.event),
             proc'[h].applied \in AppliedIds(p.event),
             pc \notin {"idle", "existing", "reread", "lookup", "save", "confirm", "commit"},
             pc \in {"readback", "attest", "record"} =>
                 proc'[h].ledger \in AppliedIds(p.event) \ {None},
             pc = "publish" => IsVerified(p.event)'
      PROVE  CallInv(h)'
  <2>1. AppliedIds(p.event)' = AppliedIds(p.event)
    BY <1>0, <1>3 DEF AppliedIds
  <2>2. CallReads(h)'
    BY <1>1, <1>3, <2>1 DEF CallReads, InCall, IsVerified
  <2>3. CallDecides(h)'
    BY <1>3 DEF CallDecides, ReadyTransfer
  <2> QED
    BY <2>2, <2>3 DEF CallInv
<1>4. CASE CommitRefused(h)
  <2>1. PICK pc \in {"replay", "conflict"} :
          proc' = [proc EXCEPT ![h].decision = None, ![h].pc = pc]
    BY <1>4 DEF CommitRefused
  <2>2. /\ proc'[h].pc = pc /\ proc'[h].event = p.event
        /\ proc'[h].intent = p.intent /\ proc'[h].applied = p.applied
    BY <1>0, <2>1 DEF EngineLocals
  <2> QED
    BY <1>1, <1>3, <2>2 DEF EnginePc
<1>5. CASE Reread(h)
  <2>1. CASE Return(h, "RAISED")
    BY <1>0, <1>2, <2>1 DEF Return, Idle
  <2>2. CASE proc' = [proc EXCEPT ![h].pc = "readback",
                                  ![h].intent = events[p.event].intent,
                                  ![h].applied = events[p.event].applied]
    <3>1. /\ proc'[h].pc = "readback" /\ proc'[h].event = p.event
          /\ proc'[h].intent = events[p.event].intent
          /\ proc'[h].applied = events[p.event].applied
          /\ proc'[h].ledger = p.ledger
      BY <1>0, <2>2 DEF EngineLocals
    <3>2. /\ events[p.event].intent \in Intents(p.event)
          /\ p.ledger \in AppliedIds(p.event) \ {None}
      BY <1>5 DEF Reread, CallInv, CallReads
    <3>3. events[p.event].applied \in AppliedIds(p.event)
      BY <1>1 DEF DocumentsOwn
    <3> QED
      BY <1>1, <1>3, <3>1, <3>2, <3>3 DEF EnginePc
  <2> QED
    BY <1>5, <2>1, <2>2 DEF Reread
<1>6. CASE Readback(h)
  <2>1. PICK pc \in {"attest", "unreadable"} : Goto(h, pc)
    BY <1>6 DEF Readback
  <2>2. /\ proc'[h].pc = pc /\ proc'[h].event = p.event /\ proc'[h].intent = p.intent
        /\ proc'[h].applied = p.applied /\ proc'[h].ledger = p.ledger
    BY <1>0, <2>1 DEF Goto, EngineLocals
  <2>3. p.ledger \in AppliedIds(p.event) \ {None}
    BY <1>6 DEF Readback, CallInv, CallReads
  <2> QED
    BY <1>1, <1>3, <2>2, <2>3 DEF EnginePc
<1>7. CASE Attest(h)
  <2>1. CASE Return(h, "RAISED")
    BY <1>0, <1>2, <2>1 DEF Return, Idle
  <2>2. CASE /\ events[p.event].applied # None
             /\ proc' = [proc EXCEPT ![h].pc = "record",
                                     ![h].ledger = events[p.event].applied]
    <3>1. /\ proc'[h].pc = "record" /\ proc'[h].event = p.event
          /\ proc'[h].intent = p.intent /\ proc'[h].applied = p.applied
          /\ proc'[h].ledger = events[p.event].applied
      BY <1>0, <2>2 DEF EngineLocals
    <3>2. events[p.event].applied \in AppliedIds(p.event) \ {None}
      BY <1>1, <2>2 DEF DocumentsOwn
    <3> QED
      BY <1>1, <1>3, <3>1, <3>2 DEF EnginePc
  <2> QED
    BY <1>7, <2>1, <2>2 DEF Attest
<1>8. CASE Record(h)
  <2>1. /\ proc'[h].pc = "publish" /\ proc'[h].event = p.event
        /\ proc'[h].intent = p.intent /\ proc'[h].applied = p.applied
    BY <1>0, <1>8 DEF Record, Goto, EngineLocals
  <2>2. IsVerified(p.event)'
    <3>1. CASE IsVerified(p.event)
      BY <1>8, <2>1, <3>1 DEF Record, SaveVerification, IsVerified, repoVars
    <3>2. CASE ~IsVerified(p.event)
      <4>1. PICK x \in ledger :
              verifications' = verifications \cup
                {[request |-> p.event, applied |-> x.id, shift |-> x.shift, to |-> x.to,
                  shift_version    |-> x.shift_version,
                  schedule_version |-> x.schedule_version]}
        BY <1>8, <3>2 DEF Record, SaveVerification
      <4> DEFINE v == [request |-> p.event, applied |-> x.id, shift |-> x.shift,
                       to |-> x.to, shift_version |-> x.shift_version,
                       schedule_version |-> x.schedule_version]
      <4>2. v \in verifications' /\ v.request = p.event
        BY <4>1
      <4> QED
        BY <2>1, <4>2 DEF IsVerified
    <3> QED
      BY <3>1, <3>2
  <2> QED
    BY <1>1, <1>3, <2>1, <2>2 DEF EnginePc
<1> QED
  BY <1>4, <1>5, <1>6, <1>7, <1>8

\* A handler's step leaves the calls of the others alone.
LEMMA OthersStay ==
    ASSUME EngineTypeOK, NEW h \in Handlers, NEW k \in Handlers, k # h,
           \/ \E e \in Events : \/ \E i \in CallableIntents(e) : Call(k, e, i)
                              \/ CallVerify(k, e)
           \/ EngineStep(k) \/ Collect(k) \/ Crash(k)
    PROVE  proc'[h] = proc[h]
BY DEF EngineTypeOK, Call, CallVerify, Collect, Crash, EngineStep, ReadExisting, Validate,
   Lookup, Save, Confirm, Commit, CommitRefused, Replay, Conflict, Reread, Readback,
   Unreadable, Attest, Record, Publish, Goto, Return

\* A step of the engine is one handler's, or nobody's.
LEMMA OneHandlerMoves ==
    ASSUME EngineTypeOK, [EngineNext]_engineVars, NEW h \in Handlers
    PROVE  \/ proc'[h] = proc[h]
           \/ \E e \in Events : \/ \E i \in CallableIntents(e) : Call(h, e, i)
                              \/ CallVerify(h, e)
           \/ EngineStep(h) \/ Collect(h) \/ Crash(h)
<1>1. CASE OtherWriter \/ UNCHANGED engineVars
  BY <1>1 DEF OtherWriter, engineVars
<1> QED
  BY <1>1, OthersStay DEF EngineNext

\* One step preserves the calls' invariant.
LEMMA CallsStep ==
    ASSUME EngineTypeOK, CustodyInv, CallsInv, [EngineNext]_engineVars
    PROVE  CallsInv'
<1>1. [RepoNext]_repoVars
  BY EngineStepsImplement
<1>2. RepoTypeOK' /\ Advances /\ DocumentsOwn'
  BY <1>1, TypeStep, RepoAdvances, DocumentsOwnStep DEF EngineTypeOK, CallsInv
<1>3. ASSUME NEW h \in Handlers PROVE CallInv(h)'
  <2>0. CallInv(h) /\ DocumentsOwn
    BY DEF CallsInv, CallInv
  <2>1. CASE proc'[h] = proc[h]
    BY <1>2, <2>0, <2>1, CallStands
  <2>2. ASSUME NEW e \in Events, \/ \E i \in CallableIntents(e) : Call(h, e, i)
                                 \/ CallVerify(h, e)
        PROVE  CallInv(h)'
    BY <2>0, <2>2, CallBegins
  <2>3. CASE Confirm(h) \/ Replay(h) \/ Conflict(h) \/ Unreadable(h) \/ Publish(h)
             \/ Collect(h) \/ Crash(h)
    <3>1. proc'[h] = Idle \/ proc'[h].pc = "returned"
      BY <2>3 DEF Confirm, Replay, Conflict, Unreadable, Publish, Collect, Crash, Return,
         Idle, EngineTypeOK
    <3> QED
      BY <3>1, CallEnds
  <2>4. CASE EngineStep(h)
    BY <2>0, <2>3, <2>4, ReadExistingKeeps, ValidateKeeps, LookupKeeps, SaveKeeps,
       CommitKeeps, RemainingCallsKeep DEF EngineStep
  <2> QED
    BY <2>1, <2>2, <2>3, <2>4, OneHandlerMoves
<1> QED
  BY <1>2, <1>3 DEF CallsInv, CallInv

\* Before the first call nothing was read, and the documents are the seed's.
LEMMA CallsStart == EngineInit => EngineTypeOK /\ CustodyInv /\ CallsInv
<1> SUFFICES ASSUME EngineInit PROVE EngineTypeOK /\ CustodyInv /\ CallsInv
  OBVIOUS
<1>1. RepoTypeOK /\ CustodyInv
  BY TypeInit, CustodyInit DEF EngineInit
<1>2. EngineTypeOK
  BY <1>1 DEF EngineTypeOK, EngineInit, Idle, EngineLocals, EnginePc, Optional
<1>3. DocumentsOwn
  BY DEF DocumentsOwn, EngineInit, RepoInit, SeededEvent, AppliedIds
<1>4. \A h \in Handlers : CallReads(h) /\ CallDecides(h)
  BY DEF EngineInit, CallReads, CallDecides, InCall, ReadyTransfer, Idle
<1> QED
  BY <1>1, <1>2, <1>3, <1>4 DEF CallsInv

\* The engine keeps its locals and the run's documents well typed, its calls keep
\* to their own event, and custody stays one serial unforked history.
EngineInv == EngineTypeOK /\ CustodyInv /\ CallsInv

\* One step of the engine preserves it.
LEMMA EngineInvStep ==
    ASSUME EngineInv, [EngineNext]_engineVars
    PROVE  EngineInv'
<1>1. EngineTypeOK /\ RepoTypeOK /\ CustodyInv /\ CallsInv
  BY DEF EngineInv, EngineTypeOK
<1>2. [RepoNext]_repoVars
  BY <1>1, EngineStepsImplement
<1>3. RepoTypeOK' /\ CustodyInv'
  BY <1>1, <1>2, TypeStep, CustodyStep
<1> QED
  BY <1>1, <1>3, EngineTypeStep, CallsStep DEF EngineInv

\* Whatever the number of handlers and the order of their calls, all of it holds.
THEOREM EngineInvariant == EngineSpec => []EngineInv
<1>1. EngineInit => EngineInv
  BY CallsStart DEF EngineInv
<1>2. EngineInv /\ [EngineNext]_engineVars => EngineInv'
  BY EngineInvStep
<1> QED
  BY <1>1, <1>2, PTL DEF EngineSpec

\* The engine's locals and the documents are always well typed.
THEOREM EngineTypeCorrect == EngineSpec => []EngineTypeOK
<1>1. EngineInv => EngineTypeOK
  BY DEF EngineInv
<1> QED
  BY <1>1, EngineInvariant, PTL

\* Each step of concurrent calls, crashes included, is a step of the repository
\* under arbitrary callers: what is proved of RepoSpec holds of the engine.
THEOREM EngineImplementsRepository == EngineSpec => ImplementsRepository
<1>1. EngineInit => RepoInit
  BY DEF EngineInit
<1>2. EngineInv /\ [EngineNext]_engineVars => [UNCHANGED repoVars \/ RepoNext]_repoVars
  BY EngineStepsImplement DEF EngineInv
<1> QED
  BY <1>1, <1>2, EngineInvariant, PTL DEF EngineSpec, ImplementsRepository

-----------------------------------------------------------------------------
(* The roster.                                                             *)

\* Custody changes by a commit only.
LEMMA OnlyCommitsMove ==
    ASSUME EngineInv, [EngineNext]_engineVars
    PROVE  \/ \E h \in Handlers : Commit(h)
           \/ UNCHANGED <<scheduleVersion, shifts, ledger>>
<1>1. ASSUME NEW h \in Handlers,
             \/ \E e \in Events : \/ \E i \in CallableIntents(e) : Call(h, e, i)
                                \/ CallVerify(h, e)
             \/ Collect(h) \/ Crash(h)
      PROVE  UNCHANGED <<scheduleVersion, shifts, ledger>>
  BY <1>1 DEF Call, CallVerify, Collect, Crash, repoVars
<1>2. ASSUME NEW h \in Handlers, EngineStep(h), ~Commit(h)
      PROVE  UNCHANGED <<scheduleVersion, shifts, ledger>>
  BY <1>2 DEF EngineStep, ReadExisting, Validate, Lookup, Save, Confirm, CommitRefused,
     Replay, Conflict, Reread, Readback, Unreadable, Attest, Record, Publish,
     SaveRequest, SaveVerification, repoVars
<1>3. CASE OtherWriter
  BY <1>3 DEF OtherWriter, SomeSchedule, SomeConfirmation, SomeReliabilityStep,
     ConfigureFailureInjection, PersistSchedule, RecordConfirmation,
     ConsumeFailureInjection, RecordNoOp, repoVars
<1>4. CASE UNCHANGED engineVars
  BY <1>4 DEF engineVars, repoVars
<1> QED
  BY <1>1, <1>2, <1>3, <1>4 DEF EngineNext

\* What a commit found when it compared: the run its decision was taken on.
LEMMA CommitFinds ==
    ASSUME EngineInv, NEW h \in Handlers, Commit(h)
    PROVE  LET p == proc[h]
               i == proc[h].intent
               c == Command(proc[h])
           IN
           /\ c \in TransferCommit
           /\ ApplyTransfer(c)
           /\ c.request = p.event /\ i \in Intents(p.event)
           /\ <<c.shift, c.from, c.to>> = <<i.shift, i.from, i.to>>
           /\ c.expected_custody_head = p.decision.head
           /\ <<i.type, i.ambiguous>> = <<"TRANSFER_SHIFT", FALSE>>
           /\ ReadyTransfer(h)
           /\ RecipientFits(i)
<1> DEFINE p == proc[h]
           c == Command(p)
<1>1. /\ p.event \in Events /\ p.intent \in Intents(p.event)
      /\ ReadyTransfer(h) /\ p.decision \in Decision
  BY DEF Commit, EngineInv, CallsInv, CallReads, CallDecides, InCall, ReadyTransfer
<1>2. /\ <<p.intent.type, p.intent.ambiguous>> = <<"TRANSFER_SHIFT", FALSE>>
      /\ p.intent.shift \in Shifts /\ {p.intent.from, p.intent.to} \subseteq Workers
      /\ p.decision.schedule \in 0..scheduleVersion
      /\ p.decision.version \in 0..shifts[p.intent.shift].version
      /\ \E x \in ledger : x.id = p.decision.head
      /\ p.decision.schedule = scheduleVersion => RecipientFits(p.intent)
  BY <1>1 DEF EngineInv, CallsInv, CallDecides
<1>3. /\ p.decision.schedule \in Nat /\ p.decision.version \in Nat
      /\ p.decision.head \in LedgerId
  BY <1>2 DEF EngineInv, EngineTypeOK, RepoTypeOK, ShiftDocument, CustodyLedgerEvent
<1>4. c \in TransferCommit
  BY <1>1, <1>2, <1>3 DEF Command, TransferCommit
<1>5. ApplyTransfer(c)
  BY DEF Commit
<1>6. scheduleVersion = p.decision.schedule
  BY <1>5 DEF ApplyTransfer, CommitApplies, CasPasses, Command
<1> QED
  BY <1>1, <1>2, <1>4, <1>5, <1>6 DEF Command

\* From a seed that double-books nobody, no interleaving of calls ever does, and
\* whoever received a shift is available for it: a decision taken on an old
\* snapshot is stopped by the schedule version.
THEOREM RosterStaysFeasible == ASSUME SeedFeasible PROVE EngineSpec => []FeasibleRoster
<1>1. EngineInit => FeasibleRoster
  BY DEF EngineInit, RepoInit, SeedFeasible, FeasibleRoster
<1>2. EngineInv /\ FeasibleRoster /\ [EngineNext]_engineVars => FeasibleRoster'
  <2> SUFFICES ASSUME EngineInv, FeasibleRoster, [EngineNext]_engineVars
               PROVE  FeasibleRoster'
    OBVIOUS
  <2>1. CASE UNCHANGED shifts
    BY <2>1 DEF FeasibleRoster
  <2>2. ASSUME NEW h \in Handlers, Commit(h)
        PROVE  FeasibleRoster'
    <3> DEFINE i == proc[h].intent
               c == Command(proc[h])
    <3>1. /\ c.shift = i.shift /\ c.to = i.to /\ c.shift \in Shifts
          /\ RecipientFits(i) /\ ApplyTransfer(c)
      BY <2>2, CommitFinds DEF TransferCommit
    <3>2. shifts' = [shifts EXCEPT ![i.shift] = TransferredShift(c)]
      BY <3>1 DEF ApplyTransfer
    <3>3. TransferredShift(c).owner = i.to
      BY <3>1 DEF TransferredShift
    <3>4. shifts \in [Shifts -> ShiftDocument]
      BY DEF EngineInv, EngineTypeOK, RepoTypeOK
    <3> HIDE DEF c, i
    <3>5. shifts'[i.shift].owner = i.to /\ \A s \in Shifts : s # i.shift => shifts'[s] = shifts[s]
      BY <3>1, <3>2, <3>3, <3>4
    <3>6. /\ IsAvailable(i.to, i.shift)
          /\ \A t \in Shifts :
                t # i.shift /\ shifts[t].owner = i.to =>
                    ~Overlap(i.shift, t) /\ ~Overlap(t, i.shift)
      BY <3>1 DEF RecipientFits, ShiftConflict, Overlap
    <3>7. ASSUME NEW s \in Shifts, NEW t \in Shifts, s # t,
                 shifts'[s].owner = shifts'[t].owner
          PROVE  ~Overlap(s, t)
      BY <3>5, <3>6, <3>7 DEF FeasibleRoster
    <3>8. ASSUME NEW s \in Shifts, shifts'[s].version > 0
          PROVE  IsAvailable(shifts'[s].owner, s)
      BY <3>5, <3>6, <3>8 DEF FeasibleRoster
    <3> QED
      BY <3>7, <3>8 DEF FeasibleRoster
  <2> QED
    BY <2>1, <2>2, OnlyCommitsMove
<1> QED
  BY <1>1, <1>2, EngineInvariant, PTL DEF EngineSpec

-----------------------------------------------------------------------------
(* Event documents.                                                        *)

\* A call that is about to write its request blindly.
Saving(h) == proc[h].pc \in {"save", "confirm", "conflict", "unreadable", "publish"}

\* What a step makes of an event document: a call saves its own intent, with
\* VERIFIED only for a confirmation or over a record; otherwise the intent stays,
\* and a new VERIFIED has its record.
LEMMA EngineWrites ==
    ASSUME EngineInv, [EngineNext]_engineVars, NEW e \in Events
    PROVE  \/ \E h \in Handlers :
                /\ Saving(h) /\ proc[h].event = e
                /\ events'[e].intent = proc[h].intent
                /\ events'[e].status = "VERIFIED" => proc[h].pc \in {"confirm", "publish"}
           \/ /\ events'[e].intent = events[e].intent
              /\ \/ events'[e].status \in {events[e].status, "APPLIED"}
                 \/ IsVerified(e)'
<1>0. events \in [Events -> EventDocument]
  BY DEF EngineInv, EngineTypeOK, RepoTypeOK
<1> DEFINE Same == events'[e].intent = events[e].intent /\ events'[e].status = events[e].status
<1>1. ASSUME NEW h \in Handlers, proc[h].event # e \/ proc[h].event = e, Saving(h),
             NEW st, SaveRequest(proc[h].event, st, proc[h].intent, proc[h].applied)
      PROVE  \/ Same
             \/ /\ proc[h].event = e
                /\ events'[e].intent = proc[h].intent /\ events'[e].status = st
  BY <1>0, <1>1 DEF SaveRequest, EventDocument
<1>2. ASSUME NEW h \in Handlers, Save(h)
      PROVE  \/ Same
             \/ /\ Saving(h) /\ proc[h].event = e
                /\ events'[e].intent = proc[h].intent /\ events'[e].status # "VERIFIED"
  <2>1. proc[h].decision.state # "VERIFIED"
    BY <1>2 DEF Save, EngineInv, CallsInv, CallDecides
  <2> QED
    BY <1>1, <1>2, <2>1 DEF Save, Saving
<1>3. ASSUME NEW h \in Handlers, Confirm(h) \/ Publish(h) \/ Conflict(h) \/ Unreadable(h)
      PROVE  \/ Same
             \/ /\ Saving(h) /\ proc[h].event = e
                /\ events'[e].intent = proc[h].intent
                /\ events'[e].status = "VERIFIED" => proc[h].pc \in {"confirm", "publish"}
  BY <1>1, <1>3 DEF Confirm, Publish, Conflict, Unreadable, Saving
<1>4. ASSUME NEW h \in Handlers, Commit(h)
      PROVE  /\ events'[e].intent = events[e].intent
             /\ events'[e].status \in {events[e].status, "APPLIED"}
  <2> DEFINE c == Command(proc[h])
             id == NewLedgerId(c)
             f == c.request
  <2>1. events' = [events EXCEPT ![f].status  = "APPLIED", ![f].applied = id]
    BY <1>4 DEF Commit, ApplyTransfer
  <2> HIDE DEF c, id, f
  <2>2. CASE e = f
    BY <1>0, <2>1, <2>2 DEF EventDocument
  <2>3. CASE e # f
    BY <1>0, <2>1, <2>3
  <2> QED
    BY <2>2, <2>3
<1>5. ASSUME NEW h \in Handlers, Record(h)
      PROVE  /\ events'[e].intent = events[e].intent
             /\ events'[e].status = events[e].status \/ IsVerified(e)'
  <2> DEFINE f == proc[h].event
  <2>1. CASE IsVerified(f)
    BY <1>5, <2>1 DEF Record, SaveVerification, repoVars
  <2>2. CASE ~IsVerified(f)
    <3>1. PICK x \in ledger :
            /\ verifications' = verifications \cup
                {[request |-> f, applied |-> x.id, shift |-> x.shift, to |-> x.to,
                  shift_version    |-> x.shift_version,
                  schedule_version |-> x.schedule_version]}
            /\ events' = [events EXCEPT ![f].status = "VERIFIED", ![f].attested = TRUE]
      BY <1>5, <2>2 DEF Record, SaveVerification
    <3> DEFINE v == [request |-> f, applied |-> x.id, shift |-> x.shift,
                     to |-> x.to, shift_version |-> x.shift_version,
                     schedule_version |-> x.schedule_version]
    <3>2. v \in verifications' /\ v.request = f
      BY <3>1
    <3> HIDE DEF v, f
    <3>3. CASE e = f
      BY <1>0, <3>1, <3>2, <3>3 DEF IsVerified, EventDocument
    <3>4. CASE e # f
      BY <1>0, <3>1, <3>4
    <3> QED
      BY <3>3, <3>4
  <2> QED
    BY <2>1, <2>2
<1>6. CASE OtherWriter
  <2>1. CASE SomeSchedule
    <3>1. PICK f \in Events, g \in 0..MaxGeneration : PersistSchedule(f, g)
      BY <2>1 DEF SomeSchedule
    <3>2. \/ events' = events
          \/ events' = [events EXCEPT ![f].generation = g + 1]
      BY <3>1 DEF PersistSchedule, repoVars
    <3>3. Same
      <4>1. CASE e = f
        BY <1>0, <3>2, <4>1 DEF EventDocument
      <4>2. CASE e # f
        BY <1>0, <3>2, <4>2
      <4> QED
        BY <4>1, <4>2
    <3> QED
      BY <3>3
  <2>2. CASE SomeConfirmation
    <3>1. PICK t \in Events, w \in Workers, g \in 0..MaxGeneration :
            RecordConfirmation(ConfirmingEvent, t, w, g)
      BY <2>2 DEF SomeConfirmation
    <3>2. \/ events' = events
          \/ events' = [events EXCEPT
                ![t].evidence   = [source |-> ConfirmingEvent, by |-> w],
                ![t].generation = g + 1,
                ![ConfirmingEvent].generation = g + 1]
      BY <3>1 DEF RecordConfirmation, repoVars
    <3>3. Same
      <4>1. CASE e = t
        BY <1>0, <3>2, <4>1 DEF EventDocument
      <4>2. CASE e # t /\ e = ConfirmingEvent
        BY <1>0, <3>2, <4>2 DEF EventDocument
      <4>3. CASE e # t /\ e # ConfirmingEvent
        BY <1>0, <3>2, <4>3
      <4> QED
        BY <4>1, <4>2, <4>3
    <3> QED
      BY <3>3
  <2>3. CASE SomeReliabilityStep \/ ConfigureFailureInjection
    BY <2>3 DEF SomeReliabilityStep, RecordNoOp, ConsumeFailureInjection,
       ConfigureFailureInjection, repoVars
  <2> QED
    BY <1>6, <2>1, <2>2, <2>3 DEF OtherWriter
<1>7. ASSUME NEW h \in Handlers,
             ReadExisting(h) \/ Validate(h) \/ Lookup(h) \/ CommitRefused(h) \/ Replay(h)
             \/ Reread(h) \/ Readback(h) \/ Attest(h) \/ Collect(h) \/ Crash(h)
             \/ \E f \in Events : CallVerify(h, f) \/ \E i \in CallableIntents(f) : Call(h, f, i)
      PROVE  events' = events
  BY <1>7 DEF ReadExisting, Validate, Lookup, CommitRefused, Replay, Reread, Readback,
     Attest, Collect, Crash, CallVerify, Call, repoVars
<1>8. CASE UNCHANGED engineVars
  BY <1>8 DEF engineVars, repoVars
<1> QED
  BY <1>2, <1>3, <1>4, <1>5, <1>6, <1>7, <1>8 DEF EngineNext, EngineStep

\* The documents and records advance from one state to the next.
LEMMA EngineAdvances ==
    ASSUME EngineInv, [EngineNext]_engineVars
    PROVE  Advances
BY EngineStepsImplement, RepoAdvances DEF EngineInv, EngineTypeOK

\* A VERIFIED without a record stays that of a confirmation.
LEMMA StatusBackedStep ==
    ASSUME EngineInv, StatusBacked, [EngineNext]_engineVars
    PROVE  StatusBacked'
<1> SUFFICES ASSUME NEW e \in Events, events'[e].status = "VERIFIED", ~IsVerified(e)'
             PROVE  /\ events'[e].intent \in Intents(e)
                    /\ events'[e].intent.type = "CONFIRM_REQUEST"
  BY DEF StatusBacked
<1>1. ~IsVerified(e)
  BY EngineAdvances DEF Advances, IsVerified
<1>2. ASSUME NEW h \in Handlers, Saving(h), proc[h].event = e,
             events'[e].intent = proc[h].intent, proc[h].pc \in {"confirm", "publish"}
      PROVE  /\ events'[e].intent \in Intents(e)
             /\ events'[e].intent.type = "CONFIRM_REQUEST"
  <2>1. proc[h].pc # "publish"
    BY <1>1, <1>2 DEF EngineInv, CallsInv, CallReads
  <2> QED
    BY <1>2, <2>1 DEF EngineInv, CallsInv, CallReads, CallDecides, InCall
<1>3. CASE events'[e].intent = events[e].intent /\ events[e].status = "VERIFIED"
  BY <1>1, <1>3 DEF StatusBacked
<1> QED
  BY <1>2, <1>3, EngineWrites

LEMMA StatusAlwaysBacked == EngineSpec => []StatusBacked
<1>1. EngineInit => StatusBacked
  BY DEF EngineInit, RepoInit, SeededEvent, StatusBacked
<1>2. EngineInv /\ StatusBacked /\ [EngineNext]_engineVars => StatusBacked'
  BY StatusBackedStep
<1> QED
  BY <1>1, <1>2, EngineInvariant, PTL DEF EngineSpec

\* Whoever reads that a transfer is VERIFIED always finds its record, although
\* the status is written blindly and by calls that take one message differently.
THEOREM VerifiedAlwaysBacked == EngineSpec => []VerifiedIsBacked
<1>1. StatusBacked => VerifiedIsBacked
  BY DEF StatusBacked, VerifiedIsBacked
<1> QED
  BY <1>1, StatusAlwaysBacked, PTL

-----------------------------------------------------------------------------
(* Consent.                                                                *)

\* Where the intent of a call in progress comes from, after a step.
LEMMA EngineIntents ==
    ASSUME EngineInv, [EngineNext]_engineVars, NEW h \in Handlers, InCall(h)'
    PROVE  LET q == proc'[h] IN
           \/ /\ q.intent \in CallableIntents(q.event) /\ q.event \in Events
              /\ q.pc = "existing"
           \/ q.intent = events[q.event].intent /\ q.intent # None /\ q.event \in Events
           \/ /\ InCall(h) /\ q.event = proc[h].event /\ q.intent = proc[h].intent
              /\ \/ proc[h].pc = "existing" <=> q.pc = "existing"
                 \/ OwnSource(proc[h])
<1>0. proc \in [Handlers -> EngineLocals]
  BY DEF EngineInv, EngineTypeOK
<1>1. CASE proc'[h] = proc[h]
  BY <1>1 DEF InCall
<1>2. ASSUME NEW e \in Events, NEW i \in CallableIntents(e), Call(h, e, i)
      PROVE  /\ proc'[h].event = e /\ proc'[h].intent = i /\ proc'[h].pc = "existing"
  BY <1>0, <1>2 DEF Call, Idle
<1>3. ASSUME NEW e \in Events, CallVerify(h, e)
      PROVE  /\ proc'[h].event = e /\ proc'[h].intent = events[e].intent
             /\ events[e].intent # None
  BY <1>0, <1>3 DEF CallVerify, Idle
<1>4. CASE Reread(h)
  <2>1. proc[h].pc = "reread"
    BY <1>4 DEF Reread
  <2>2. /\ proc[h].event \in Events
        /\ events[proc[h].event].intent \in Intents(proc[h].event)
    BY <2>1 DEF EngineInv, CallsInv, CallReads, InCall
  <2>3. proc' = [proc EXCEPT ![h].pc = "readback",
                             ![h].intent = events[proc[h].event].intent,
                             ![h].applied = events[proc[h].event].applied]
    BY <1>0, <1>4 DEF Reread, Return, Idle, InCall
  <2>4. proc'[h].event = proc[h].event /\ proc'[h].intent = events[proc[h].event].intent
    BY <1>0, <2>3 DEF EngineLocals
  <2> QED
    BY <2>2, <2>4, IntentIsSomething
<1>5. ASSUME EngineStep(h), ~Reread(h)
      PROVE  /\ proc'[h].event = proc[h].event /\ proc'[h].intent = proc[h].intent
             /\ InCall(h)
             /\ proc[h].pc = "existing" => OwnSource(proc[h])
             /\ proc'[h].pc # "existing"
  <2>1. /\ ~Confirm(h) /\ ~Replay(h) /\ ~Conflict(h) /\ ~Unreadable(h) /\ ~Publish(h)
    BY <1>0 DEF Confirm, Replay, Conflict, Unreadable, Publish, Return, Idle, InCall
  <2>2. CASE ReadExisting(h)
    BY <1>0, <2>2 DEF ReadExisting, Return, Idle, InCall, EngineLocals
  <2>3. CASE Validate(h)
    BY <1>0, <2>3 DEF Validate, InCall, EngineLocals
  <2>4. CASE Lookup(h)
    BY <1>0, <2>4 DEF Lookup, InCall, EngineLocals
  <2>5. CASE Save(h)
    BY <1>0, <2>5 DEF Save, Return, Goto, Idle, InCall, EngineLocals
  <2>6. CASE Commit(h)
    BY <1>0, <2>6 DEF Commit, InCall, EngineLocals
  <2>7. CASE CommitRefused(h)
    BY <1>0, <2>7 DEF CommitRefused, InCall, EngineLocals
  <2>8. CASE Readback(h) \/ Record(h)
    BY <1>0, <2>8 DEF Readback, Record, Goto, InCall, EngineLocals
  <2>9. CASE Attest(h)
    BY <1>0, <2>9 DEF Attest, Return, Idle, InCall, EngineLocals
  <2> QED
    BY <1>5, <2>1, <2>2, <2>3, <2>4, <2>5, <2>6, <2>7, <2>8, <2>9 DEF EngineStep
<1>6. ~Collect(h) /\ ~Crash(h)
  BY <1>0 DEF Collect, Crash, Idle, InCall
<1> QED
  BY <1>1, <1>2, <1>3, <1>4, <1>5, <1>6, OneHandlerMoves DEF EngineInv

\* Completing a consented intent with the evidence on record leaves it consented.
LEMMA CallableIsConsented ==
    ASSUME RepoTypeOK, NEW e \in Events, NEW i \in CallableIntents(e),
           events[e].intent \in ConsentedIntents(e) \cup {None}
    PROVE  i \in ConsentedIntents(e) \cup Parses[e]
<1>1. SUFFICES ASSUME i \notin Parses[e] PROVE i \in ConsentedIntents(e)
  OBVIOUS
<1> DEFINE w == events[e].evidence.by
<1>2. /\ events[e].intent # None /\ events[e].evidence # None
      /\ i = Confirmed(events[e].intent, w)
  BY <1>1 DEF CallableIntents
<1>3. ASSUME NEW j \in StorableParses(e)
      PROVE  Confirmed(j, w) \in ConsentedIntents(e)
  BY <1>2, <1>3 DEF ConsentedIntents
<1>4. ASSUME NEW j \in StorableParses(e), events[e].intent = Confirmed(j, w)
      PROVE  i = Confirmed(j, w)
  BY <1>2, <1>4, ParsesWellFormed DEF StorableParses, StructuredIntent, Confirmed
<1>5. \/ events[e].intent \in StorableParses(e)
      \/ \E j \in StorableParses(e) : events[e].intent = Confirmed(j, w)
  BY <1>2 DEF ConsentedIntents
<1> QED
  BY <1>2, <1>3, <1>4, <1>5

\* Every intent stored or about to be is a message's, or a message's completed with
\* the evidence of its event.
LEMMA ConsentStep ==
    ASSUME EngineInv, ConsentKept, [EngineNext]_engineVars
    PROVE  ConsentKept'
<1>0. RepoTypeOK /\ Advances
  BY EngineAdvances DEF EngineInv, EngineTypeOK
<1>1. ASSUME NEW e \in Events
      PROVE  ConsentedIntents(e) \subseteq ConsentedIntents(e)'
  BY <1>0 DEF Advances, ConsentedIntents
<1>2. ASSUME NEW e \in Events
      PROVE  events'[e].intent \in ConsentedIntents(e)' \cup {None}
  <2>1. ASSUME NEW h \in Handlers, Saving(h), proc[h].event = e
        PROVE  proc[h].intent \in ConsentedIntents(e)
    BY <2>1 DEF ConsentKept, Saving, InCall
  <2> QED
    BY <1>1, <2>1, EngineWrites DEF ConsentKept
<1>3. ASSUME NEW h \in Handlers, InCall(h)', NEW e, e = proc'[h].event
      PROVE  proc'[h].intent \in ConsentedIntents(e)' \cup
                 (IF proc'[h].pc = "existing" THEN Parses[e] ELSE {})
  <2> DEFINE q == proc'[h]
  <2>1. CASE q.intent \in CallableIntents(e) /\ e \in Events /\ q.pc = "existing"
    <3>1. q.intent \in ConsentedIntents(e) \cup Parses[e]
      BY <1>0, <2>1, CallableIsConsented DEF ConsentKept
    <3> QED
      BY <1>1, <2>1, <3>1
  <2>2. CASE q.intent = events[e].intent /\ q.intent # None /\ e \in Events
    <3>1. q.intent \in ConsentedIntents(e)
      BY <2>2 DEF ConsentKept
    <3> QED
      BY <1>1, <2>2, <3>1
  <2>3. CASE /\ InCall(h) /\ e = proc[h].event /\ q.intent = proc[h].intent
             /\ \/ proc[h].pc = "existing" <=> q.pc = "existing"
                \/ OwnSource(proc[h])
    <3>1. e \in Events
      BY <2>3 DEF EngineInv, CallsInv, CallReads
    <3>2. q.intent \in ConsentedIntents(e) \cup
             (IF proc[h].pc = "existing" THEN Parses[e] ELSE {})
      BY <2>3 DEF ConsentKept
    <3>3. OwnSource(proc[h]) /\ q.intent \in Parses[e] => q.intent \in ConsentedIntents(e)
      BY <2>3 DEF OwnSource, ConsentedIntents, StorableParses
    <3> QED
      BY <1>1, <2>3, <3>1, <3>2, <3>3
  <2> QED
    BY <1>3, <2>1, <2>2, <2>3, EngineIntents
<1>4. ASSUME NEW h \in Handlers, InCall(h)'
      PROVE  (proc[h].intent \in ConsentedIntents(proc[h].event) \cup
                 (IF proc[h].pc = "existing" THEN Parses[proc[h].event] ELSE {}))'
  BY <1>3, <1>4 DEF ConsentedIntents
<1> QED
  BY <1>2, <1>4 DEF ConsentKept, InCall

\* A commit finds the recipient's consent in the stored intent, which has it from
\* the message or from the evidence.
LEMMA ConsentedStep ==
    ASSUME EngineInv, ConsentKept, Consented, [EngineNext]_engineVars
    PROVE  Consented'
<1>0. /\ EngineTypeOK /\ RepoTypeOK /\ CustodyInv /\ Advances
  BY EngineAdvances DEF EngineInv, EngineTypeOK
<1> DEFINE Has(x) == \/ \E i \in StorableParses(x.request) :
                           i.confirmation = "PRESENT" /\ i.by = x.to
                     \/ /\ events'[x.request].evidence # None
                        /\ events'[x.request].evidence.by = x.to
<1>1. ASSUME NEW x \in ledger, x.request # None
      PROVE  Has(x)
  <2>1. x.request \in Events
    BY <1>0, <1>1 DEF RepoTypeOK, CustodyLedgerEvent, Optional
  <2> QED
    BY <1>0, <1>1, <2>1 DEF Consented, Advances
<1>2. ASSUME NEW h \in Handlers, Commit(h)
      PROVE  Consented'
  <2> DEFINE c == Command(proc[h])
             i == events[c.request].intent
  <2>1. c.request \in Events /\ ApplyTransfer(c)
    BY <1>2, CommitFinds DEF TransferCommit
  <2>2. i # None /\ i.confirmation = "PRESENT" /\ i.by = c.to
    BY <2>1 DEF ApplyTransfer, CommitApplies, ConsentStored
  <2>3. i \in ConsentedIntents(c.request)
    BY <2>1, <2>2 DEF ConsentKept
  <2>4. ledger' = ledger \cup {NewEdge(c)}
    BY <2>1 DEF ApplyTransfer
  <2>5. NewEdge(c).request = c.request /\ NewEdge(c).to = c.to
    BY DEF NewEdge
  <2> HIDE DEF c
  <2>6. CASE i \in StorableParses(c.request)
    BY <1>1, <2>2, <2>4, <2>5, <2>6 DEF Consented
  <2>7. ASSUME NEW j \in StorableParses(c.request), i = Confirmed(j, events[c.request].evidence.by),
               events[c.request].evidence # None
        PROVE  Has(NewEdge(c))
    <3>1. i.by = events[c.request].evidence.by
      BY <2>1, <2>7, ParsesWellFormed DEF StorableParses, StructuredIntent, Confirmed
    <3>2. events'[c.request].evidence = events[c.request].evidence
      BY <1>0, <2>1, <2>7 DEF Advances
    <3> QED
      BY <2>2, <2>5, <2>7, <3>1, <3>2
  <2>8. CASE \E j \in StorableParses(c.request) :
               /\ i = Confirmed(j, events[c.request].evidence.by)
               /\ events[c.request].evidence # None
    BY <1>1, <2>4, <2>7, <2>8 DEF Consented
  <2> QED
    BY <2>3, <2>6, <2>8 DEF ConsentedIntents
<1>3. CASE UNCHANGED ledger
  BY <1>1, <1>3 DEF Consented
<1> QED
  BY <1>2, <1>3, OnlyCommitsMove

LEMMA ConsentAlwaysKept == EngineSpec => []ConsentKept
<1>1. EngineInit => ConsentKept
  BY DEF EngineInit, RepoInit, SeededEvent, ConsentKept, InCall, Idle
<1>2. EngineInv /\ ConsentKept /\ [EngineNext]_engineVars => ConsentKept'
  BY ConsentStep
<1> QED
  BY <1>1, <1>2, EngineInvariant, PTL DEF EngineSpec

\* No interleaving of calls, crashes and confirmations moves a shift to a worker
\* who did not agree.
THEOREM TransfersAreConsented == EngineSpec => []Consented
<1>1. EngineInit => Consented
  BY DEF EngineInit, RepoInit, InitialEdge, Consented
<1>2. EngineInv /\ ConsentKept /\ Consented /\ [EngineNext]_engineVars => Consented'
  BY ConsentedStep
<1> QED
  BY <1>1, <1>2, EngineInvariant, ConsentAlwaysKept, PTL DEF EngineSpec

-----------------------------------------------------------------------------
(* Dependencies.                                                           *)

\* Completing an intent changes neither its dependency nor its type.
LEMMA DependencyIntents ==
    ASSUME DependenciesAreTransfers,
           NEW e \in Events, NEW i \in Intents(e), i.dependency # None
    PROVE  /\ i.dependency \in Events
           /\ \A j \in Intents(i.dependency) : j.type # "CONFIRM_REQUEST"
<1>1. ASSUME NEW f \in Events, NEW j \in StorableParses(f), NEW w \in Workers
      PROVE  Confirmed(j, w).dependency = j.dependency /\ Confirmed(j, w).type = j.type
  BY ParsesWellFormed DEF StorableParses, StructuredIntent, Confirmed
<1>2. i.dependency \in Events
  BY IntentShape DEF Optional, RequestCandidates
<1>3. PICK k \in StorableParses(e) : k.dependency = i.dependency
  BY <1>1 DEF Intents, StorableIntents
<1>4. \A j \in StorableParses(i.dependency) : j.type # "CONFIRM_REQUEST"
  BY <1>3 DEF DependenciesAreTransfers
<1>5. ASSUME NEW f \in Events, f = i.dependency, NEW j \in Intents(f)
      PROVE  j.type # "CONFIRM_REQUEST"
  BY <1>1, <1>4, <1>5 DEF Intents, StorableIntents
<1> QED
  BY <1>2, <1>5

\* An edge extends a verified one for ever after.
LEMMA ExtensionStands ==
    ASSUME Advances, NEW i, NEW id, ExtendsVerified(i, id)
    PROVE  ExtendsVerified(i, id)'
BY DEF Advances, ExtendsVerified

\* A lookup that passes found the dependency verified by a record, and the head the
\* transfer will extend applied for it.
LEMMA LookupFinds ==
    ASSUME DependenciesAreTransfers, EngineInv, StatusBacked,
           NEW e \in Events, NEW i \in Intents(e), NEW x \in ledger,
           i.dependency # None, DependencyHolds(i, x.id)
    PROVE  ExtendsVerified(i, x.id)
<1>1. /\ i.dependency \in Events
      /\ \A j \in Intents(i.dependency) : j.type # "CONFIRM_REQUEST"
  BY DependencyIntents
<1>2. IsVerified(i.dependency)
  BY <1>1 DEF DependencyHolds, StatusBacked
<1>3. x.id # None
  BY NamesDistinct DEF EngineInv, EngineTypeOK, RepoTypeOK, CustodyLedgerEvent, LedgerId
<1>4. x.id \in AppliedIds(i.dependency)
  BY <1>1 DEF DependencyHolds, EngineInv, CallsInv, DocumentsOwn
<1>5. PICK y \in ledger : y.id = x.id /\ y.request = i.dependency
  BY <1>3, <1>4 DEF AppliedIds
<1> QED
  BY <1>2, <1>5 DEF ExtendsVerified, IsVerified

\* A call comes to a decided transfer or confirmation from validation, from the
\* lookup or from the save.
LEMMA DecidedBy ==
    ASSUME EngineTypeOK, [EngineNext]_engineVars, NEW h \in Handlers,
           proc'[h].pc \in {"save", "confirm", "commit"}
    PROVE  proc'[h] = proc[h] \/ Validate(h) \/ Lookup(h) \/ Save(h)
<1>0. proc \in [Handlers -> EngineLocals]
  BY DEF EngineTypeOK
<1>1. proc'[h].pc \in {"save", "confirm", "commit"}
  OBVIOUS
<1>2. ~ReadExisting(h) /\ ~Attest(h) /\ ~Reread(h)
  <2>2. \A r : ~Return(h, r)
    BY <1>0, <1>1 DEF Return, Idle
  <2>3. ~ReadExisting(h)
    BY <1>0, <1>1, <2>2 DEF ReadExisting, EngineLocals
  <2>4. ~Attest(h) /\ ~Reread(h)
    BY <1>0, <1>1, <2>2 DEF Attest, Reread, EngineLocals
  <2> QED
    BY <2>3, <2>4
<1>3. /\ ~Confirm(h) /\ ~Replay(h) /\ ~Conflict(h) /\ ~Unreadable(h) /\ ~Publish(h)
      /\ ~Collect(h) /\ ~Crash(h)
  <2>2. \A r : ~Return(h, r)
    BY <1>0, <1>1 DEF Return, Idle
  <2>3. proc' # [proc EXCEPT ![h] = Idle]
    BY <1>0, <1>1 DEF Idle
  <2> QED
    BY <2>2, <2>3 DEF Confirm, Replay, Conflict, Unreadable, Publish, Collect, Crash
<1>4. ~Commit(h) /\ ~CommitRefused(h)
  BY <1>0, <1>1 DEF Commit, CommitRefused, EngineLocals
<1>5. ~Readback(h) /\ ~Record(h)
  BY <1>0, <1>1 DEF Readback, Record, Goto, EngineLocals
<1>6. \A e \in Events : ~CallVerify(h, e) /\ \A k \in CallableIntents(e) : ~Call(h, e, k)
  BY <1>0, <1>1 DEF CallVerify, Call, Idle
<1> QED
  BY <1>2, <1>3, <1>4, <1>5, <1>6, OneHandlerMoves DEF EngineStep

\* A call past the lookup builds on a verified dependency.
LEMMA LookupsStep ==
    ASSUME DependenciesAreTransfers, EngineInv, StatusBacked, LookupsHold,
           [EngineNext]_engineVars
    PROVE  LookupsHold'
<1>0. proc \in [Handlers -> EngineLocals] /\ EngineTypeOK /\ Advances
  BY EngineAdvances DEF EngineInv, EngineTypeOK
<1> SUFFICES ASSUME NEW h \in Handlers, ReadyTransfer(h)', proc'[h].pc # "lookup"
             PROVE  \A i, d : i = proc'[h].intent /\ d = proc'[h].decision =>
                        ExtendsVerified(i, d.head)'
  <2>1. ASSUME NEW h \in Handlers,
               \A i, d : i = proc'[h].intent /\ d = proc'[h].decision =>
                   ExtendsVerified(i, d.head)'
        PROVE  ExtendsVerified(proc[h].intent, proc[h].decision.head)'
    BY <2>1 DEF ExtendsVerified
  <2> QED
    BY <2>1 DEF LookupsHold
<1> TAKE i, d
<1> HAVE i = proc'[h].intent /\ d = proc'[h].decision
<1> DEFINE p == proc[h]
<1>1. proc'[h].pc \in {"save", "commit"} /\ d.state = "READY" /\ i.type # "CONFIRM_REQUEST"
  BY DEF ReadyTransfer
<1>2. CASE proc'[h] = p
  BY <1>0, <1>2, ExtensionStands DEF LookupsHold, ReadyTransfer
<1>3. CASE Validate(h)
  <2> DEFINE state == RunDecision(p.intent, expired')
             ready == state = "READY" /\ p.intent.type = "TRANSFER_SHIFT"
             new == [state    |-> state,
                     schedule |-> IF ready THEN scheduleVersion ELSE None,
                     version  |-> IF ready THEN shifts[p.intent.shift].version ELSE None,
                     head     |-> IF ready THEN shifts[p.intent.shift].head ELSE None]
  <2>1. /\ proc'[h].pc = (IF NeedsLookup(p.intent, state) THEN "lookup" ELSE "save")
        /\ i = p.intent /\ d = new
    BY <1>0, <1>3 DEF Validate, EngineLocals
  <2>2. new.state = state
    OBVIOUS
  <2> HIDE DEF new, state
  <2>3. i.dependency = None
    BY <1>1, <2>1, <2>2 DEF NeedsLookup
  <2> QED
    BY <2>3 DEF ExtendsVerified
<1>4. CASE Lookup(h)
  <2>1. /\ p.pc = "lookup" /\ p.event \in Events /\ p.intent \in Intents(p.event)
        /\ p.decision \in Decision /\ p.decision.state = "READY"
    BY <1>4 DEF Lookup, EngineInv, CallsInv, CallReads, CallDecides, InCall
  <2> DEFINE st == IF LookupHolds(p.intent, p.decision.head) THEN "READY" ELSE "REJECTED"
  <2>2. proc' = [proc EXCEPT ![h].pc = "save", ![h].decision.state = st]
    BY <1>4 DEF Lookup
  <2> HIDE DEF st
  <2>3. i = p.intent /\ d = [p.decision EXCEPT !.state = st]
    BY <1>0, <2>2 DEF EngineLocals
  <2>4. d.state = st /\ d.head = p.decision.head
    BY <2>1, <2>3 DEF Decision
  <2>5. LookupHolds(p.intent, p.decision.head)
    BY <1>1, <2>4 DEF st
  <2>6. ReadyTransfer(h)
    BY <1>1, <2>1, <2>3 DEF ReadyTransfer
  <2>7. PICK x \in ledger : x.id = d.head
    BY <2>4, <2>6 DEF EngineInv, CallsInv, CallDecides
  <2>8. i.dependency # None => DependencyHolds(i, x.id)
    BY <1>1, <2>3, <2>4, <2>5, <2>7 DEF LookupHolds
  <2>9. ExtendsVerified(i, x.id)
    BY <2>1, <2>3, <2>8, LookupFinds DEF ExtendsVerified
  <2> QED
    BY <1>0, <2>7, <2>9, ExtensionStands
<1>5. CASE Save(h)
  <2>1. /\ p.pc = "save" /\ p.decision.state = "READY"
        /\ \E pc \in {"confirm", "commit"} : Goto(h, pc)
    BY <1>0, <1>1, <1>5 DEF Save, Return, Idle
  <2>2. i = p.intent /\ d = p.decision
    BY <1>0, <2>1 DEF Goto, EngineLocals
  <2>3. ReadyTransfer(h)
    BY <1>1, <2>1, <2>2 DEF ReadyTransfer
  <2>4. ExtendsVerified(i, d.head)
    BY <2>1, <2>2, <2>3 DEF LookupsHold
  <2> QED
    BY <1>0, <2>4, ExtensionStands
<1> QED
  BY <1>0, <1>1, <1>2, <1>3, <1>4, <1>5, DecidedBy

\* Each edge is one its message asks for, on a verified edge of its dependency.
LEMMA EdgesStep ==
    ASSUME EngineInv, LookupsHold, EdgesAsked, [EngineNext]_engineVars
    PROVE  EdgesAsked'
<1>0. Advances
  BY EngineAdvances
<1> DEFINE Asked(x) == \E i \in Intents(x.request) :
                          /\ <<i.type, i.ambiguous>> = <<"TRANSFER_SHIFT", FALSE>>
                          /\ <<i.shift, i.from, i.to>> = <<x.shift, x.from, x.to>>
                          /\ ExtendsVerified(i, x.predecessor)'
<1>1. ASSUME NEW x \in ledger, x.request # None
      PROVE  Asked(x)
  <2>1. PICK i \in Intents(x.request) :
          /\ <<i.type, i.ambiguous>> = <<"TRANSFER_SHIFT", FALSE>>
          /\ <<i.shift, i.from, i.to>> = <<x.shift, x.from, x.to>>
          /\ ExtendsVerified(i, x.predecessor)
    BY <1>1 DEF EdgesAsked
  <2>2. ExtendsVerified(i, x.predecessor)'
    BY <1>0, <2>1, ExtensionStands
  <2> QED
    BY <2>1, <2>2
<1>2. ASSUME NEW h \in Handlers, Commit(h)
      PROVE  \E n : ledger' = ledger \cup {n} /\ Asked(n)
  <2> DEFINE c == Command(proc[h])
  <2>1. PICK i \in Intents(proc[h].event) :
          /\ i = proc[h].intent
          /\ ApplyTransfer(c) /\ c.request = proc[h].event
          /\ <<c.shift, c.from, c.to>> = <<i.shift, i.from, i.to>>
          /\ c.expected_custody_head = proc[h].decision.head
          /\ <<i.type, i.ambiguous>> = <<"TRANSFER_SHIFT", FALSE>>
          /\ ReadyTransfer(h)
    BY <1>2, CommitFinds
  <2>2. PICK id : id = c.expected_custody_head
    OBVIOUS
  <2>3. ExtendsVerified(i, id)
    BY <1>2, <2>1, <2>2 DEF LookupsHold, Commit
  <2>4. ExtendsVerified(i, id)'
    BY <1>0, <2>3, ExtensionStands
  <2>5. PICK n : n = NewEdge(c)
    OBVIOUS
  <2>6. /\ n.request = proc[h].event
        /\ <<n.shift, n.from, n.to>> = <<i.shift, i.from, i.to>>
        /\ n.predecessor = id
        /\ ledger' = ledger \cup {n}
    BY <2>1, <2>2, <2>5 DEF NewEdge, ApplyTransfer
  <2>7. Asked(n)
    BY <2>1, <2>4, <2>6
  <2> QED
    BY <2>6, <2>7
<1>3. \A x \in ledger' : x.request # None => Asked(x)
  BY <1>1, <1>2, OnlyCommitsMove
<1> QED
  BY <1>3 DEF EdgesAsked, ExtendsVerified

\* If no message a transfer depends on can be taken for a confirmation, every
\* transfer is one its message asks for, and a dependent one extends an edge of the
\* verified dependency, whatever was committed between its lookup and its commit.
THEOREM TransfersBuildOnVerified ==
    ASSUME DependenciesAreTransfers PROVE EngineSpec => []BuiltOnVerified
<1>1. EngineInit => LookupsHold /\ EdgesAsked /\ RecordsBackedByEdge
  <2>1. EngineInit => LookupsHold
    BY DEF EngineInit, LookupsHold, ReadyTransfer, Idle
  <2>2. EngineInit => EdgesAsked
    BY DEF EngineInit, RepoInit, InitialEdge, EdgesAsked
  <2>3. EngineInit => RecordsBackedByEdge
    BY DEF EngineInit, RepoInit, RecordsBackedByEdge
  <2> QED
    BY <2>1, <2>2, <2>3
<1>2. EngineInv /\ StatusBacked /\ LookupsHold /\ [EngineNext]_engineVars => LookupsHold'
  BY LookupsStep
<1>3. EngineInv /\ LookupsHold /\ EdgesAsked /\ [EngineNext]_engineVars => EdgesAsked'
  BY EdgesStep
<1>4. EngineInv /\ RecordsBackedByEdge /\ [EngineNext]_engineVars => RecordsBackedByEdge'
  BY EngineStepsImplement, RecordsStep DEF EngineInv, EngineTypeOK
<1>5. EdgesAsked /\ RecordsBackedByEdge => BuiltOnVerified
  <2> SUFFICES ASSUME EdgesAsked, RecordsBackedByEdge, NEW x \in ledger, x.request # None
               PROVE  \E i \in Intents(x.request) :
                        /\ <<i.type, i.ambiguous>> = <<"TRANSFER_SHIFT", FALSE>>
                        /\ <<i.shift, i.from, i.to>> = <<x.shift, x.from, x.to>>
                        /\ i.dependency # None =>
                             \E y \in ledger, v \in verifications :
                                /\ y.id = x.predecessor
                                /\ {y.request, v.request} = {i.dependency}
                                /\ SingleEffect => v.applied = y.id
    BY DEF BuiltOnVerified
  <2>1. PICK i \in Intents(x.request) :
          /\ <<i.type, i.ambiguous>> = <<"TRANSFER_SHIFT", FALSE>>
          /\ <<i.shift, i.from, i.to>> = <<x.shift, x.from, x.to>>
          /\ ExtendsVerified(i, x.predecessor)
    BY DEF EdgesAsked
  <2>2. ASSUME NEW y \in ledger, NEW v \in verifications, i.dependency # None,
               {y.request, v.request} = {i.dependency}, SingleEffect
        PROVE  v.applied = y.id
    <3>1. PICK z \in ledger : z.id = v.applied /\ z.request = v.request
      BY DEF RecordsBackedByEdge
    <3>2. z.request = y.request /\ z.request # None
      BY <2>2, <3>1
    <3> QED
      BY <2>2, <3>1, <3>2 DEF SingleEffect
  <2> QED
    BY <2>1, <2>2 DEF ExtendsVerified
<1> QED
  BY <1>1, <1>2, <1>3, <1>4, <1>5, EngineInvariant, StatusAlwaysBacked, PTL DEF EngineSpec

-----------------------------------------------------------------------------
(* Effects.                                                                *)

\* A transfer is committed for a message that asks for it, recipient or not.
LEMMA AskedFor ==
    ASSUME NEW e \in Events, NEW i \in Intents(e),
           <<i.type, i.ambiguous>> = <<"TRANSFER_SHIFT", FALSE>>
    PROVE  \E j \in TransfersAsked(e) :
              <<j.shift, j.from, j.to>> = <<i.shift, i.from, i.to>>
<1>1. ASSUME NEW j \in StorableParses(e), NEW w \in Workers, i = Confirmed(j, w)
      PROVE  /\ <<j.shift, j.from, j.to>> = <<i.shift, i.from, i.to>>
             /\ <<j.type, j.ambiguous>> = <<i.type, i.ambiguous>>
  BY <1>1, ParsesWellFormed DEF StorableParses, StructuredIntent, Confirmed
<1>2. CASE i \in StorableParses(e)
  BY <1>2 DEF TransfersAsked
<1>3. ASSUME NEW j \in StorableParses(e), NEW w \in Workers, i = Confirmed(j, w)
      PROVE  \E k \in TransfersAsked(e) : <<k.shift, k.from, k.to>> = <<i.shift, i.from, i.to>>
  <2>1. j \in TransfersAsked(e)
    BY <1>1, <1>3 DEF TransfersAsked
  <2> QED
    BY <1>1, <1>3, <2>1
<1> QED
  BY <1>2, <1>3 DEF Intents, StorableIntents

\* A commit finds the shift with the worker who gives it, and so above all who gave
\* it before.
LEMMA EffectsStep ==
    ASSUME NEW rank \in [Shifts -> [Workers -> Nat]], MovesForward(rank),
           EngineInv, OwnersAdvance(rank), SingleEffect, [EngineNext]_engineVars
    PROVE  OwnersAdvance(rank)' /\ SingleEffect'
<1>0. /\ shifts \in [Shifts -> ShiftDocument]
      /\ \A x \in ledger : x.shift \in Shifts /\ x.request \in Optional(Events)
      /\ \A x \in ledger : x.request # None => x.from \in Workers
  <2>1. RepoTypeOK /\ PredecessorLinks
    BY DEF EngineInv, EngineTypeOK, CustodyInv
  <2> QED
    BY <2>1 DEF RepoTypeOK, CustodyLedgerEvent, PredecessorLinks
<1>1. CASE UNCHANGED <<shifts, ledger>>
  BY <1>1 DEF OwnersAdvance, SingleEffect
<1>2. ASSUME NEW h \in Handlers, Commit(h)
      PROVE  OwnersAdvance(rank)' /\ SingleEffect'
  <2> DEFINE c == Command(proc[h])
             s == c.shift
             owner == shifts[s].owner
  <2>1. /\ c \in TransferCommit /\ ApplyTransfer(c)
        /\ \E i \in Intents(c.request) :
              /\ <<c.shift, c.from, c.to>> = <<i.shift, i.from, i.to>>
              /\ <<i.type, i.ambiguous>> = <<"TRANSFER_SHIFT", FALSE>>
    BY <1>2, CommitFinds
  <2>2. /\ c.request \in Events /\ s \in Shifts /\ c.from \in Workers /\ c.to \in Workers
        /\ owner = c.from
    BY <2>1 DEF TransferCommit, ApplyTransfer, CommitApplies, CasPasses
  <2>3. PICK j \in TransfersAsked(c.request) :
          <<j.shift, j.from, j.to>> = <<s, c.from, c.to>>
    BY <2>1, <2>2, AskedFor
  <2>4. rank[s][c.from] < rank[s][c.to]
    BY <2>2, <2>3 DEF MovesForward
  <2>5. PICK n : /\ n = NewEdge(c)
                 /\ n.request = c.request /\ n.shift = s /\ n.from = c.from
                 /\ ledger' = ledger \cup {n}
    BY <2>1 DEF NewEdge, ApplyTransfer
  <2>6. PICK d : /\ d = TransferredShift(c) /\ d.owner = c.to
                 /\ shifts' = [shifts EXCEPT ![s] = d]
    BY <2>1 DEF TransferredShift, ApplyTransfer
  <2> HIDE DEF c, owner
  <2>7. shifts'[s].owner = c.to /\ \A t \in Shifts : t # s => shifts'[t] = shifts[t]
    BY <1>0, <2>2, <2>6
  <2>8. ASSUME NEW x \in ledger, x.request # None
        PROVE  rank[x.shift][x.from] < rank[x.shift][shifts'[x.shift].owner]
    <3>1. /\ x.shift \in Shifts /\ x.from \in Workers
          /\ rank[x.shift][x.from] < rank[x.shift][shifts[x.shift].owner]
      BY <1>0, <2>8 DEF OwnersAdvance
    <3>2. CASE x.shift = s
      <4>1. /\ rank[s][x.from] \in Nat /\ rank[s][c.from] \in Nat /\ rank[s][c.to] \in Nat
        BY <2>2, <3>1, <3>2
      <4>2. rank[s][x.from] < rank[s][c.from]
        BY <2>2, <3>1, <3>2 DEF owner
      <4> QED
        BY <2>4, <2>7, <3>2, <4>1, <4>2
    <3>3. CASE x.shift # s
      BY <2>7, <3>1, <3>3
    <3> QED
      BY <3>2, <3>3
  <2>9. OwnersAdvance(rank)'
    <3>1. ASSUME NEW x \in ledger', x.request # None
          PROVE  /\ \E i \in TransfersAsked(x.request) :
                       <<i.shift, i.from>> = <<x.shift, x.from>>
                 /\ rank[x.shift][x.from] < rank[x.shift][shifts'[x.shift].owner]
      BY <2>3, <2>4, <2>5, <2>7, <2>8, <3>1 DEF OwnersAdvance
    <3> QED
      BY <3>1 DEF OwnersAdvance
  <2>10. ASSUME NEW x \in ledger, x.request = c.request
         PROVE  FALSE
    <3>1. x.request # None
      BY <2>2, <2>10, NamesDistinct
    <3>2. PICK i \in TransfersAsked(c.request) : <<i.shift, i.from>> = <<x.shift, x.from>>
      BY <2>10, <3>1 DEF OwnersAdvance
    <3>3. x.shift = s /\ x.from = c.from
      BY <2>2, <2>3, <3>2 DEF MovesForward
    <3>4. rank[s][c.from] < rank[s][c.from]
      BY <2>2, <3>1, <3>3 DEF OwnersAdvance, owner
    <3>5. rank[s][c.from] \in Nat
      BY <2>2
    <3> QED
      BY <3>4, <3>5
  <2> QED
    BY <2>5, <2>9, <2>10 DEF SingleEffect
<1> QED
  BY <1>1, <1>2, OnlyCommitsMove

\* If the messages never hand a shift back, a request takes effect at most once,
\* whatever its calls read, whenever they crash, and although a blind save can make
\* the event document forget the effect.
THEOREM EffectsAreSingle ==
    ASSUME NEW rank \in [Shifts -> [Workers -> Nat]], MovesForward(rank)
    PROVE  EngineSpec => []SingleEffect
<1>1. EngineInit => OwnersAdvance(rank) /\ SingleEffect
  BY DEF EngineInit, RepoInit, InitialEdge, OwnersAdvance, SingleEffect
<1>2. EngineInv /\ OwnersAdvance(rank) /\ SingleEffect /\ [EngineNext]_engineVars
      => OwnersAdvance(rank)' /\ SingleEffect'
  BY EffectsStep
<1> QED
  BY <1>1, <1>2, EngineInvariant, PTL DEF EngineSpec

=============================================================================
