--------------------------- MODULE WorkflowProofs ---------------------------
(***************************************************************************)
(* The service, for every number of handlers, every queue and every run:   *)
(* whatever is delivered, retried or cut off, it drives the engine only as *)
(* EngineSpec allows its callers to, so that what is proved of the engine  *)
(* and of the repository holds of the service.                             *)
(***************************************************************************)
EXTENDS WorkflowProperties, EngineProofs

-----------------------------------------------------------------------------
(* Each step of the service is one the engine allows.                      *)

\* The service's own locals and the queue, on top of what the engine keeps.
WorkflowInv ==
    /\ EngineInv
    /\ WorkflowTypeOK
    /\ GenerationsBounded
    /\ \A h \in Handlers : ServingInv(h)

\* Tasks name requests of the run.
LEMMA TaskShape ==
    ASSUME NEW t \in TaskNames
    PROVE  /\ t[1] \in Events \ {ConfirmingEvent}
           /\ t[2] \in 0..MaxGeneration
BY RepoBounds DEF TaskNames, RequestCandidates

\* A call of the workflow, or a write of its own, is one of the engine's next steps.
LEMMA WorkflowStepsImplement ==
    ASSUME WorkflowInv, [Next]_vars
    PROVE  UNCHANGED engineVars \/ EngineNext
<1>0. ASSUME NEW h \in Handlers PROVE ServingInv(h)
  BY DEF WorkflowInv
<1>1. ASSUME NEW h \in Handlers,
             \/ \E e \in Events : Deliver(h, e)
             \/ \E t \in TaskNames : ResumeTask(h, t) \/ RedeliveredTask(h, t)
             \/ ValidateIntent(h) \/ AgentDone(h) \/ Stored(h) \/ ReadGeneration(h)
             \/ CreateWakeUp(h) \/ ReadTarget(h) \/ CreateResume(h) \/ ReadMetadata(h)
      PROVE  UNCHANGED engineVars
  BY <1>1 DEF Deliver, ResumeTask, RedeliveredTask, StartResume, ValidateIntent,
     AgentDone, Stored, ReadGeneration, CreateWakeUp, ReadTarget, CreateResume, ReadMetadata
<1>2. ASSUME NEW h \in Handlers, ApplyDecision(h)
      PROVE  EngineNext
  <2>1. PICK e \in Events : \E i \in Parses[e] : Call(h, e, i)
    <3>1. CASE Parsed(h) /\ Call(h, wf[h].event, wf[h].parsed)
      BY <1>0, <1>2, <3>1 DEF ApplyDecision, Parsed, At, ServingInv, Optional
    <3>2. CASE ApplyOther(h)
      BY <3>2 DEF ApplyOther
    <3> QED
      BY <1>2, <3>1, <3>2 DEF ApplyDecision
  <2> QED
    BY <2>1 DEF CallableIntents, EngineNext
<1>3. ASSUME NEW h \in Handlers, Applied(h) \/ TakeResult(h) \/ RunEngine(h)
      PROVE  EngineNext
  BY <1>3 DEF Applied, TakeResult, RunEngine, EngineNext
<1>4. ASSUME NEW h \in Handlers, PersistWakeUp(h)
      PROVE  EngineNext
  <2>1. /\ wf[h].event \in Events \ {ConfirmingEvent}
        /\ wf[h].expected \in 0..MaxGeneration
    BY <1>0, <1>4, WorkflowConstants, NamesDistinct DEF PersistWakeUp, At, ServingInv
  <2> QED
    BY <1>4, <2>1 DEF PersistWakeUp, SomeSchedule, OtherWriter, EngineNext
<1>5. ASSUME NEW h \in Handlers, RecordConfirmationStep(h)
      PROVE  EngineNext
  <2>1. /\ ConfirmingEvent \in Events /\ wf[h].event = ConfirmingEvent
        /\ wf[h].parsed.target \in Events \ {ConfirmingEvent}
        /\ wf[h].parsed.by \in Workers
        /\ wf[h].expected \in 0..MaxGeneration
    BY <1>0, <1>5 DEF RecordConfirmationStep, At, ServingInv, RequestCandidates
  <2>2. ConfirmingEvent # None
    BY <2>1, NamesDistinct
  <2>3. SomeConfirmation
    BY <1>5, <2>1, <2>2 DEF RecordConfirmationStep, SomeConfirmation
  <2> QED
    BY <1>5, <2>3 DEF RecordConfirmationStep, OtherWriter, EngineNext
<1>6. ASSUME NEW h \in Handlers, VerifyExistingEffect(h)
      PROVE  UNCHANGED engineVars \/ EngineNext
  <2>1. wf[h].event \in Events /\ wf[h].task[2] \in 0..MaxGeneration
    BY <1>0, <1>6, TaskShape DEF VerifyExistingEffect, At, ServingInv
  <2> QED
    BY <1>6, <2>1 DEF VerifyExistingEffect, SomeReliabilityStep, OtherWriter, EngineNext,
       engineVars
<1>7. ASSUME NEW h \in Handlers, Finish(h)
      PROVE  UNCHANGED engineVars \/ EngineNext
  <2>1. wf[h].event \in Events
    BY <1>0, <1>7, TaskShape DEF Finish, At, ServingInv
  <2> QED
    BY <1>7, <2>1 DEF Finish, SomeReliabilityStep, OtherWriter, EngineNext, engineVars
<1>8. ASSUME NEW h \in Handlers, Checkpoint(h)
      PROVE  UNCHANGED engineVars \/ EngineNext
  <2> DEFINE e == wf[h].event
             m == wf[h].metadata
  <2>1. /\ e \in Events
        /\ m.evidence # None => events[e].evidence = m.evidence
    BY <1>0, <1>8, TaskShape DEF Checkpoint, At, ServingInv
  <2>2. CASE CallVerify(h, e)
    BY <2>1, <2>2 DEF EngineNext
  <2>3. CASE /\ events[e].intent # None /\ m.evidence # None
             /\ Call(h, e, Confirmed(events[e].intent, m.evidence.by))
    BY <2>1, <2>3 DEF CallableIntents, EngineNext
  <2> QED
    BY <1>8, <2>2, <2>3 DEF Checkpoint
<1>9. ASSUME NEW h \in Handlers, CrashHandler(h)
      PROVE  UNCHANGED engineVars \/ EngineNext
  <2>1. proc[h].pc = "idle" => proc[h] = Idle
    BY DEF WorkflowInv, EngineInv, CallsInv, CallReads
  <2>2. proc \in [Handlers -> EngineLocals]
    BY DEF WorkflowInv, EngineInv, EngineTypeOK
  <2>3. CASE proc[h].pc = "idle"
    BY <1>9, <2>1, <2>2, <2>3 DEF CrashHandler, engineVars
  <2>4. CASE proc[h].pc # "idle"
    BY <1>9, <2>4 DEF CrashHandler, Crash, Collect, EngineNext
  <2> QED
    BY <2>3, <2>4
<1>10. CASE ArmFault \/ PageGivesUp
  BY <1>10 DEF ArmFault, PageGivesUp, OtherWriter, EngineNext
<1>11. CASE UNCHANGED vars
  BY <1>11 DEF vars
<1> QED
  BY <1>1, <1>2, <1>3, <1>4, <1>5, <1>6, <1>7, <1>8, <1>9, <1>10, <1>11
     DEF Next, HandlerStep, DeliverStep, ResumeStep

-----------------------------------------------------------------------------
(* Type correctness.                                                       *)

\* The queue changes a task's state or counts a duplicate, nothing else.
LEMMA QueueTypes ==
    ASSUME TasksTypeOK, NEW t,
           CreateTask(t) \/ Dispatch(t) \/ Redeliver(t) \/ Ack(t) \/ Nack(t)
    PROVE  TasksTypeOK'
<1> DEFINE Entry == [state : TaskState, extra : Nat]
<1>0. tasks \in [TaskNames -> Entry]
  BY DEF TasksTypeOK
<1>1. CASE t \notin TaskNames
  <2>1. tasks' = tasks
    BY <1>0, <1>1 DEF CreateTask, Dispatch, Redeliver, Ack, Nack
  <2> QED
    BY <2>1 DEF TasksTypeOK
<1>2. CASE t \in TaskNames
  <2>1. tasks[t] \in Entry
    BY <1>0, <1>2
  <2>2. PICK n \in Entry : tasks' = [tasks EXCEPT ![t] = n]
    BY <2>1 DEF CreateTask, Dispatch, Redeliver, Ack, Nack, TaskState
  <2> QED
    BY <1>0, <2>2 DEF TasksTypeOK
<1> QED
  BY <1>1, <1>2

\* A generation is within its bound.
LEMMA GenerationRange ==
    ASSUME WorkflowInv, NEW e \in Events
    PROVE  events[e].generation \in 0..MaxGeneration
<1>1. events \in [Events -> EventDocument]
  BY DEF WorkflowInv, WorkflowTypeOK, EngineTypeOK, RepoTypeOK
<1>2. events[e].generation \in Nat
  BY <1>1 DEF EventDocument
<1>3. events[e].generation <= MaxGeneration
  BY DEF WorkflowInv, GenerationsBounded
<1> QED
  BY <1>2, <1>3, RepoBounds

\* Each action leaves a request with well-typed locals.
LEMMA LocalsTypes ==
    ASSUME WorkflowInv, [Next]_vars
    PROVE  wf' \in [Handlers -> WorkflowLocals]
<1> DEFINE T == [Handlers -> WorkflowLocals]
<1>0. /\ wf \in T
      /\ \A h \in Handlers : ServingInv(h)
      /\ events \in [Events -> EventDocument]
  BY DEF WorkflowInv, WorkflowTypeOK, EngineTypeOK, RepoTypeOK
<1>1. Free \in WorkflowLocals
  BY WorkflowConstants DEF Free, WorkflowLocals, WorkflowPc, Optional
<1>a. ASSUME NEW h \in Handlers, NEW pc \in WorkflowPc, NEW e \in Events,
             NEW t \in Optional(TaskNames), NEW i \in Optional(Readings),
             NEW g \in Optional(0..MaxGeneration), NEW m \in Optional(Metadata)
      PROVE  /\ [wf[h] EXCEPT !.pc = pc, !.event = e] \in WorkflowLocals
             /\ [wf[h] EXCEPT !.pc = pc, !.task = t, !.event = e] \in WorkflowLocals
             /\ [wf[h] EXCEPT !.pc = pc, !.parsed = i] \in WorkflowLocals
             /\ [wf[h] EXCEPT !.pc = pc, !.expected = g] \in WorkflowLocals
             /\ [wf[h] EXCEPT !.pc = pc, !.metadata = m] \in WorkflowLocals
  <2>1. wf[h] \in WorkflowLocals
    BY <1>0
  <2>2. e \in Optional(Events)
    BY DEF Optional
  <2> QED
    BY <2>1, <2>2 DEF WorkflowLocals
<1>b. ASSUME NEW h \in Handlers, NEW l \in WorkflowLocals, wf' = [wf EXCEPT ![h] = l]
      PROVE  wf' \in T
  BY <1>0, <1>b
<1>2. ASSUME NEW h \in Handlers, Respond(h) PROVE wf' \in T
  BY <1>0, <1>1, <1>2 DEF Respond
<1>3. ASSUME NEW h \in Handlers, NEW pc \in WorkflowPc, Step(h, pc) PROVE wf' \in T
  BY <1>0, <1>3 DEF Step, WorkflowLocals
<1>4. ASSUME NEW h \in Handlers, NEW e \in Events, Deliver(h, e) PROVE wf' \in T
  <2> DEFINE l == [wf[h] EXCEPT !.pc = "adk", !.event = e, !.watched = JudgeUI]
  <2>1. wf[h] \in WorkflowLocals /\ e \in Optional(Events) /\ JudgeUI \in BOOLEAN
    BY <1>0, WorkflowConstants DEF Optional
  <2>2. l \in WorkflowLocals
    BY <2>1 DEF WorkflowLocals, WorkflowPc
  <2>3. wf' = [wf EXCEPT ![h] = l]
    BY <1>0, <1>4 DEF Deliver
  <2> QED
    BY <1>b, <2>2, <2>3
<1>5. ASSUME NEW h \in Handlers, NEW t \in TaskNames, StartResume(h, t) PROVE wf' \in T
  <2>1. [wf[h] EXCEPT !.pc = "resume", !.task = t, !.event = t[1]] \in WorkflowLocals
    BY <1>a, TaskShape DEF WorkflowPc, Optional
  <2> QED
    BY <1>0, <1>5, <1>b, <2>1 DEF StartResume
<1>6. ASSUME NEW h \in Handlers, ValidateIntent(h) PROVE wf' \in T
  <2>1. wf[h].event \in Events
    BY <1>0, <1>6 DEF ValidateIntent, At, ServingInv
  <2>2. PICK i \in Parses[wf[h].event] : wf' = [wf EXCEPT ![h].parsed = i]
    BY <1>6 DEF ValidateIntent
  <2>3. i \in Optional(Readings)
    BY <2>1 DEF Readings, Optional
  <2>4. [wf[h] EXCEPT !.parsed = i] \in WorkflowLocals
    BY <1>0, <2>3 DEF WorkflowLocals
  <2> QED
    BY <1>0, <1>b, <2>2, <2>4
<1>7. ASSUME NEW h \in Handlers, ApplyDecision(h) PROVE wf' \in T
  <2>1. wf[h].applies \in 0..MaxApplies /\ wf[h].applies < MaxApplies
    BY <1>0, <1>7 DEF ApplyDecision, WorkflowLocals
  <2>2. wf[h].applies + 1 \in 0..MaxApplies
    BY <2>1, WorkflowConstants
  <2>3. [wf[h] EXCEPT !.pc = "applying", !.applies = wf[h].applies + 1] \in WorkflowLocals
    BY <1>0, <2>2 DEF WorkflowLocals, WorkflowPc
  <2> QED
    BY <1>0, <1>7, <1>b, <2>3 DEF ApplyDecision
<1>8. ASSUME NEW h \in Handlers, Stored(h) PROVE wf' \in T
  <2>1. wf[h].event \in Events
    BY <1>0, <1>8 DEF Stored, At, ServingInv
  <2>2. ConfirmationIntent(h) \in Optional(Readings)
    <3>1. wf[h].parsed \in Optional(Readings)
      BY <1>0 DEF WorkflowLocals
    <3>2. events[wf[h].event].intent \in Optional(UNION {Intents(e) : e \in Events})
      BY <1>0, <2>1 DEF EventDocument
    <3> QED
      BY <3>1, <3>2 DEF ConfirmationIntent, Readings, Optional
  <2>3. CASE wf' = [wf EXCEPT ![h].pc = "target", ![h].parsed = ConfirmationIntent(h)]
    <3>1. [wf[h] EXCEPT !.pc = "target", !.parsed = ConfirmationIntent(h)] \in WorkflowLocals
      BY <1>a, <2>1, <2>2 DEF WorkflowPc, Optional
    <3> QED
      BY <1>0, <1>b, <2>3, <3>1
  <2> QED
    BY <1>2, <1>3, <1>8, <2>3 DEF Stored, WorkflowPc
<1>9. ASSUME NEW h \in Handlers, ReadGeneration(h) PROVE wf' \in T
  <2>1. wf[h].event \in Events
    BY <1>0, <1>9 DEF ReadGeneration, At, ServingInv
  <2> DEFINE g == events[wf[h].event].generation
  <2>2. g \in Optional(0..MaxGeneration)
    BY <2>1, GenerationRange DEF Optional
  <2>3. [wf[h] EXCEPT !.pc = "create", !.expected = g] \in WorkflowLocals
    BY <1>a, <2>1, <2>2 DEF WorkflowPc, Optional
  <2> QED
    BY <1>0, <1>9, <1>b, <2>3 DEF ReadGeneration
<1>10. ASSUME NEW h \in Handlers, ReadTarget(h) PROVE wf' \in T
  <2>1. wf[h].parsed.target \in Events
    BY <1>0, <1>10 DEF ReadTarget, At, ServingInv, RequestCandidates
  <2> DEFINE g == events[wf[h].parsed.target].generation
  <2>2. g \in Optional(0..MaxGeneration)
    BY <2>1, GenerationRange DEF Optional
  <2>3. CASE wf' = [wf EXCEPT ![h].pc = "createNow", ![h].expected = g]
    <3>1. [wf[h] EXCEPT !.pc = "createNow", !.expected = g] \in WorkflowLocals
      BY <1>a, <2>1, <2>2 DEF WorkflowPc, Optional
    <3> QED
      BY <1>0, <1>b, <2>3, <3>1
  <2> QED
    BY <1>2, <1>10, <2>3 DEF ReadTarget, GenerationOfTarget
<1>11. ASSUME NEW h \in Handlers, ReadMetadata(h) PROVE wf' \in T
  <2> DEFINE d == events[wf[h].event]
             m == [status |-> d.status, evidence |-> d.evidence]
  <2>1. wf[h].event \in Events
    BY <1>0, <1>11, TaskShape DEF ReadMetadata, At, ServingInv
  <2>2. m \in Metadata
    BY <1>0, <2>1 DEF Metadata, EventDocument
  <2> HIDE DEF m
  <2>3. CASE wf' = [wf EXCEPT ![h].pc = AfterMetadata(d), ![h].metadata = m]
    <3>1. AfterMetadata(d) \in WorkflowPc
      BY DEF AfterMetadata, WorkflowPc
    <3>2. m \in Optional(Metadata)
      BY <2>2 DEF Optional
    <3>3. [wf[h] EXCEPT !.pc = AfterMetadata(d), !.metadata = m] \in WorkflowLocals
      BY <1>a, <2>1, <3>1, <3>2 DEF Optional
    <3> QED
      BY <1>0, <1>b, <2>3, <3>3
  <2> QED
    BY <1>2, <1>11, <2>3 DEF ReadMetadata, Acknowledge, Refuse, m
<1>12. ASSUME NEW h \in Handlers,
              Applied(h) \/ AgentDone(h) \/ CreateWakeUp(h) \/ PersistWakeUp(h)
              \/ CreateResume(h) \/ RecordConfirmationStep(h) \/ VerifyExistingEffect(h)
              \/ TakeResult(h) \/ Finish(h) \/ CrashHandler(h)
       PROVE  wf' \in T
  BY <1>2, <1>3, <1>12 DEF Applied, AgentDone, CreateWakeUp, PersistWakeUp, CreateResume,
     RecordConfirmationStep, VerifyExistingEffect, TakeResult, Finish, CrashHandler,
     Acknowledge, Refuse, WorkflowPc
<1>13. ASSUME NEW h \in Handlers, Checkpoint(h) PROVE wf' \in T
  BY <1>2, <1>3, <1>13 DEF Checkpoint, Acknowledge, Refuse, WorkflowPc
<1>14. CASE \/ \E h \in Handlers : RunEngine(h)
            \/ ArmFault
            \/ UNCHANGED vars
  BY <1>0, <1>14 DEF RunEngine, ArmFault, vars
<1>15. CASE PageGivesUp
  <2>1. PICK h \in Handlers : wf' = [wf EXCEPT ![h].watched = FALSE]
    BY <1>15 DEF PageGivesUp
  <2>2. [wf[h] EXCEPT !.watched = FALSE] \in WorkflowLocals
    BY <1>0 DEF WorkflowLocals
  <2> QED
    BY <1>0, <1>b, <2>1, <2>2
<1> QED
  BY <1>4, <1>5, <1>6, <1>7, <1>8, <1>9, <1>10, <1>11, <1>12, <1>13, <1>14, <1>15
     DEF Next, HandlerStep, DeliverStep, ResumeStep, ResumeTask, RedeliveredTask

\* The queue and the budgets stay well typed.
LEMMA BudgetTypes ==
    ASSUME WorkflowInv, [Next]_vars
    PROVE  /\ TasksTypeOK'
           /\ delivered' \subseteq Events
           /\ repeats' \in 0..MaxRepeats
           /\ crashes' \in 0..MaxCrashes
           /\ reloads' \in 0..MaxReloads
<1>0. /\ TasksTypeOK /\ delivered \subseteq Events
      /\ repeats \in 0..MaxRepeats /\ crashes \in 0..MaxCrashes
      /\ reloads \in 0..MaxReloads
  BY DEF WorkflowInv, WorkflowTypeOK
<1>1. ASSUME \/ \E t : CreateTask(t) \/ Dispatch(t) \/ Redeliver(t) \/ Ack(t) \/ Nack(t)
             \/ UNCHANGED tasks
      PROVE  TasksTypeOK'
  BY <1>0, <1>1, QueueTypes DEF TasksTypeOK
<1>2. ASSUME NEW h \in Handlers, NEW e \in Events, Deliver(h, e)
      PROVE  /\ UNCHANGED <<tasks, crashes, reloads>>
             /\ delivered' \subseteq Events /\ repeats' \in 0..MaxRepeats
  BY <1>0, <1>2, WorkflowConstants DEF Deliver
<1>3. ASSUME NEW h \in Handlers, CrashHandler(h)
      PROVE  /\ UNCHANGED <<delivered, repeats, reloads>> /\ crashes' \in 0..MaxCrashes
             /\ UNCHANGED tasks \/ Nack(wf[h].task)
  BY <1>0, <1>3, WorkflowConstants DEF CrashHandler
<1>4. ASSUME NEW h \in Handlers, NEW t \in TaskNames, ResumeTask(h, t) \/ RedeliveredTask(h, t)
      PROVE  UNCHANGED budgets /\ (Dispatch(t) \/ Redeliver(t))
  BY <1>4 DEF ResumeTask, RedeliveredTask, StartResume
<1>5. ASSUME NEW h \in Handlers, DeliverStep(h)
      PROVE  /\ UNCHANGED <<delivered, crashes, reloads>> /\ repeats' \in 0..MaxRepeats
             /\ UNCHANGED tasks \/ \E t : CreateTask(t)
  <2>1. CASE ApplyDecision(h)
    <3>1. UNCHANGED <<tasks, delivered, crashes, reloads>>
      BY <2>1 DEF ApplyDecision
    <3>2. repeats' = repeats \/ (repeats + reloads < MaxRepeats /\ repeats' = repeats + 1)
      BY <2>1 DEF ApplyDecision, ApplyOther
    <3> QED
      BY <1>0, <3>1, <3>2, WorkflowConstants
  <2>2. CASE ~ApplyDecision(h)
    <3>1. UNCHANGED budgets /\ (UNCHANGED tasks \/ \E t : CreateTask(t))
      BY <1>5, <2>2 DEF DeliverStep, ValidateIntent, Applied, AgentDone, Stored,
         ReadGeneration, CreateWakeUp, PersistWakeUp, ReadTarget, CreateResume,
         RecordConfirmationStep
    <3> QED
      BY <1>0, <3>1 DEF budgets
  <2> QED
    BY <2>1, <2>2
<1>6. ASSUME NEW h \in Handlers, ResumeStep(h)
      PROVE  UNCHANGED budgets /\ (UNCHANGED tasks \/ \E t : Ack(t) \/ Nack(t))
  BY <1>6 DEF ResumeStep, ReadMetadata, VerifyExistingEffect, Checkpoint, TakeResult,
     Finish, Acknowledge, Refuse
<1>7. CASE (\E h \in Handlers : RunEngine(h)) \/ ArmFault \/ UNCHANGED vars
  BY <1>0, <1>1, <1>7 DEF RunEngine, ArmFault, vars, budgets
<1>8. CASE PageGivesUp
  <2>1. UNCHANGED <<tasks, delivered, repeats, crashes>> /\ reloads' \in 0..MaxReloads
    BY <1>0, <1>8, WorkflowConstants DEF PageGivesUp
  <2> QED
    BY <1>0, <1>1, <2>1
<1> QED
  BY <1>0, <1>1, <1>2, <1>3, <1>4, <1>5, <1>6, <1>7, <1>8 DEF Next, HandlerStep, budgets

-----------------------------------------------------------------------------
(* What a request being served knows.                                      *)

\* A generation is written only below the bound.
LEMMA GenerationsStep ==
    ASSUME RepoTypeOK, GenerationsBounded, [RepoNext]_repoVars
    PROVE  GenerationsBounded'
<1> SUFFICES ASSUME NEW e \in Events
             PROVE  events'[e].generation <= MaxGeneration
  BY DEF GenerationsBounded
<1>0. /\ events \in [Events -> EventDocument]
      /\ events[e].generation <= MaxGeneration
  BY DEF RepoTypeOK, GenerationsBounded
<1>1. CASE SomeSave \/ SomeTransfer \/ SomeVerification \/ SomeReliabilityStep
           \/ ConfigureFailureInjection \/ UNCHANGED repoVars
  BY <1>0, <1>1, ScheduleStands
<1>2. CASE SomeSchedule
  <2>1. PICK f \in Events, g \in 0..MaxGeneration : PersistSchedule(f, g)
    BY <1>2 DEF SomeSchedule
  <2>2. /\ g + 1 <= MaxGeneration
        /\ \/ events' = events
           \/ events' = [events EXCEPT ![f].generation = g + 1]
    BY <2>1, RepoBounds DEF PersistSchedule, repoVars
  <2>3. CASE e = f
    BY <1>0, <2>2, <2>3 DEF EventDocument
  <2>4. CASE e # f
    BY <1>0, <2>2, <2>4
  <2> QED
    BY <2>3, <2>4
<1>3. CASE SomeConfirmation
  <2>1. PICK t \in Events, w \in Workers, g \in 0..MaxGeneration :
          RecordConfirmation(ConfirmingEvent, t, w, g)
    BY <1>3 DEF SomeConfirmation
  <2>2. /\ g + 1 <= MaxGeneration
        /\ \/ events' = events
           \/ events' = [events EXCEPT
                ![t].evidence   = [source |-> ConfirmingEvent, by |-> w],
                ![t].generation = g + 1,
                ![ConfirmingEvent].generation = g + 1]
    BY <2>1, RepoBounds DEF RecordConfirmation, repoVars
  <2>3. CASE e = t /\ e # ConfirmingEvent
    BY <1>0, <2>2, <2>3 DEF EventDocument
  <2>4. CASE e = ConfirmingEvent
    BY <1>0, <2>2, <2>4 DEF EventDocument
  <2>5. CASE e # t /\ e # ConfirmingEvent
    BY <1>0, <2>2, <2>5
  <2> QED
    BY <2>3, <2>4, <2>5
<1> QED
  BY <1>1, <1>2, <1>3 DEF RepoNext

\* What a handler does with the request it serves.
Serves(h) ==
    \/ \E e \in Events : Deliver(h, e)
    \/ \E t \in TaskNames : ResumeTask(h, t) \/ RedeliveredTask(h, t)
    \/ HandlerStep(h)
    \/ CrashHandler(h)

\* While one handler serves, the others stand.
LEMMA OthersWait ==
    ASSUME WorkflowInv, NEW h \in Handlers, NEW k \in Handlers, k # h, Serves(k)
    PROVE  wf'[h] = wf[h] /\ proc'[h] = proc[h]
<1>0. wf \in [Handlers -> WorkflowLocals] /\ proc \in [Handlers -> EngineLocals]
      /\ EngineTypeOK
  BY DEF WorkflowInv, WorkflowTypeOK, EngineTypeOK
<1>1. wf'[h] = wf[h]
  BY <1>0 DEF Serves, Deliver, ResumeTask, RedeliveredTask, StartResume, HandlerStep,
     DeliverStep, ResumeStep, RunEngine, CrashHandler, ValidateIntent, ApplyDecision,
     Applied, AgentDone, Stored, ReadGeneration, CreateWakeUp, PersistWakeUp, ReadTarget,
     CreateResume, RecordConfirmationStep, ReadMetadata, VerifyExistingEffect, Checkpoint,
     TakeResult, Finish, Step, Respond, Acknowledge, Refuse
<1>2. proc'[h] = proc[h]
  <2>1. CASE RunEngine(k) \/ Applied(k) \/ TakeResult(k)
    BY <1>0, <2>1, OthersStay DEF RunEngine, Applied, TakeResult
  <2>2. CASE ApplyDecision(k) \/ Checkpoint(k) \/ CrashHandler(k)
    BY <1>0, <2>2 DEF ApplyDecision, ApplyOther, Checkpoint, CrashHandler, Call,
       CallVerify, engineVars
  <2>3. CASE \/ \E e \in Events : Deliver(k, e)
             \/ \E t \in TaskNames : ResumeTask(k, t) \/ RedeliveredTask(k, t)
             \/ ValidateIntent(k) \/ AgentDone(k) \/ Stored(k) \/ ReadGeneration(k)
             \/ CreateWakeUp(k) \/ PersistWakeUp(k) \/ ReadTarget(k) \/ CreateResume(k)
             \/ RecordConfirmationStep(k) \/ ReadMetadata(k) \/ VerifyExistingEffect(k)
             \/ Finish(k)
    BY <2>3 DEF Deliver, ResumeTask, RedeliveredTask, StartResume, ValidateIntent,
       AgentDone, Stored, ReadGeneration, CreateWakeUp, PersistWakeUp, ReadTarget,
       CreateResume, RecordConfirmationStep, ReadMetadata, VerifyExistingEffect, Finish,
       engineVars
  <2> QED
    BY <2>1, <2>2, <2>3 DEF Serves, HandlerStep, DeliverStep, ResumeStep
<1> QED
  BY <1>1, <1>2

\* What is left of a request's locals when the page gives up on it.
Unwatched(r) == [r EXCEPT !.watched = FALSE]

\* The page gives up on requests, but touches nothing they work with.
LEMMA PageLeaves ==
    ASSUME WorkflowInv, PageGivesUp, NEW h \in Handlers
    PROVE  /\ wf'[h] = wf[h] \/ (wf[h].watched /\ wf'[h] = Unwatched(wf[h]))
           /\ proc'[h] = proc[h]
           /\ wf'[h].pc = wf[h].pc /\ wf'[h].event = wf[h].event
           /\ wf'[h].parsed = wf[h].parsed /\ wf'[h].expected = wf[h].expected
<1>1. wf \in [Handlers -> WorkflowLocals] /\ wf[h] \in WorkflowLocals
  BY DEF WorkflowInv, WorkflowTypeOK
<1>2. wf'[h] = wf[h] \/ (wf[h].watched /\ wf'[h] = Unwatched(wf[h]))
  BY <1>1 DEF PageGivesUp, Unwatched
<1>3. proc'[h] = proc[h]
  BY DEF PageGivesUp, engineVars
<1> QED
  BY <1>1, <1>2, <1>3 DEF Unwatched, WorkflowLocals

\* A step of the service is one handler's, the page's or nobody's.
LEMMA OneRequestMoves ==
    ASSUME WorkflowInv, [Next]_vars, NEW h \in Handlers
    PROVE  \/ Serves(h)
           \/ wf'[h] = wf[h] /\ proc'[h] = proc[h]
           \/ PageGivesUp
<1>1. CASE ArmFault \/ UNCHANGED vars
  BY <1>1 DEF ArmFault, vars, engineVars
<1> QED
  BY <1>1, OthersWait DEF Next, Serves

\* What was known of a request stays true while others move.
LEMMA RequestStands ==
    ASSUME Advances, NEW h \in Handlers, ServingInv(h), wf[h] \in WorkflowLocals,
           wf'[h] = wf[h] \/ (wf[h].watched /\ wf'[h] = Unwatched(wf[h])),
           proc'[h] = proc[h] \/ wf[h].pc \in {"applying", "resuming"}
    PROVE  ServingInv(h)'
<1> DEFINE r == wf[h]
<1>1. ASSUME r.pc = "checkpoint", r.metadata.evidence # None
      PROVE  events'[r.event].evidence = r.metadata.evidence
  <2>1. r.event \in Events
    BY <1>1, TaskShape DEF ServingInv
  <2> QED
    BY <1>1, <2>1 DEF ServingInv, Advances
<1>2. CASE wf'[h] = r
  BY <1>1, <1>2 DEF ServingInv
<1>3. CASE r.watched /\ wf'[h] = Unwatched(r)
  <2>1. /\ wf'[h].pc = r.pc /\ wf'[h].event = r.event /\ wf'[h].task = r.task
        /\ wf'[h].parsed = r.parsed /\ wf'[h].expected = r.expected
        /\ wf'[h].metadata = r.metadata
    BY <1>3 DEF Unwatched, WorkflowLocals
  <2>2. r # Free
    BY <1>3 DEF Free
  <2> QED
    BY <1>1, <2>1, <2>2 DEF ServingInv
<1> QED
  BY <1>2, <1>3

\* Nothing is known of a handler that is free again.
LEMMA RequestEnds ==
    ASSUME NEW h \in Handlers, wf'[h] = Free, proc'[h] = Idle
    PROVE  ServingInv(h)'
BY DEF Free, ServingInv

\* What a delivery knows after each of its steps.
LEMMA DeliveryKnows ==
    ASSUME WorkflowInv, NEW h \in Handlers,
           (\E e \in Events : Deliver(h, e)) \/ DeliverStep(h)
    PROVE  ServingInv(h)'
<1> DEFINE r == wf[h]
<1>0. /\ wf \in [Handlers -> WorkflowLocals] /\ r \in WorkflowLocals
      /\ proc \in [Handlers -> EngineLocals]
      /\ ServingInv(h)
  BY DEF WorkflowInv, WorkflowTypeOK, EngineTypeOK
<1>1. ASSUME NEW pc \in WorkflowPc, Step(h, pc)
      PROVE  wf'[h] = [r EXCEPT !.pc = pc]
  BY <1>0, <1>1 DEF Step
<1>2. ASSUME Respond(h) PROVE wf'[h] = Free
  BY <1>0, <1>2 DEF Respond
<1>3. ASSUME NEW e \in Events, Deliver(h, e)
      PROVE  ServingInv(h)'
  <2>1. r = Free /\ proc[h] = Idle
    BY <1>0, <1>3 DEF Deliver, At, ServingInv
  <2>2. /\ wf'[h] = [r EXCEPT !.pc = "adk", !.event = e, !.watched = JudgeUI]
        /\ proc'[h] = proc[h]
    BY <1>0, <1>3 DEF Deliver, engineVars
  <2>3. wf'[h].pc = "adk" /\ wf'[h].event = e /\ wf'[h].parsed = None
    BY <2>1, <2>2 DEF Free
  <2> QED
    BY <2>1, <2>2, <2>3 DEF ServingInv, Optional
<1>4. CASE ValidateIntent(h)
  <2>1. PICK i \in Parses[r.event] : wf' = [wf EXCEPT ![h].parsed = i]
    BY <1>4 DEF ValidateIntent
  <2>2. wf'[h].pc = "adk" /\ wf'[h].event = r.event /\ wf'[h].parsed = i
    BY <1>0, <1>4, <2>1 DEF ValidateIntent, At, WorkflowLocals
  <2>3. r.event \in Events /\ proc[h] = Idle /\ proc'[h] = proc[h]
    BY <1>0, <1>4 DEF ValidateIntent, At, ServingInv, engineVars
  <2> QED
    BY <2>1, <2>2, <2>3 DEF ServingInv, Optional
<1>5. CASE ApplyDecision(h)
  <2>1. wf'[h].pc = "applying" /\ wf'[h].event = r.event /\ wf'[h].parsed = r.parsed
    BY <1>0, <1>5 DEF ApplyDecision, WorkflowLocals
  <2> QED
    BY <1>0, <1>5, <2>1 DEF ApplyDecision, At, ServingInv
<1>6. CASE Applied(h)
  <2>1. proc'[h] = Idle /\ r.pc = "applying"
    BY <1>0, <1>6 DEF Applied, Collect, At
  <2>2. CASE Respond(h)
    BY <1>2, <2>1, <2>2, RequestEnds
  <2>3. CASE Step(h, "adk")
    <3>1. wf'[h].pc = "adk" /\ wf'[h].event = r.event /\ wf'[h].parsed = r.parsed
      BY <1>0, <1>1, <2>3 DEF WorkflowLocals, WorkflowPc
    <3> QED
      BY <1>0, <2>1, <3>1 DEF ServingInv
  <2> QED
    BY <1>6, <2>2, <2>3 DEF Applied
<1>7. CASE AgentDone(h)
  <2>1. wf'[h].pc = "stored" /\ wf'[h].event = r.event /\ wf'[h].parsed = r.parsed
    BY <1>0, <1>1, <1>7 DEF AgentDone, WorkflowLocals, WorkflowPc
  <2>2. proc'[h] = proc[h]
    BY <1>7 DEF AgentDone, engineVars
  <2> QED
    BY <1>0, <1>7, <2>1, <2>2 DEF AgentDone, At, ServingInv
<1>8. CASE Stored(h)
  <2> DEFINE i == ConfirmationIntent(h)
  <2>1. /\ r.pc = "stored" /\ proc[h] = Idle /\ proc'[h] = proc[h]
        /\ r.event \in Events /\ r.parsed \in Optional(Parses[r.event])
    BY <1>0, <1>8 DEF Stored, At, ServingInv, engineVars
  <2>2. i \in Parses[r.event] \cup Intents(r.event) \cup {None}
    BY <2>1 DEF ConfirmationIntent, Optional, WorkflowInv, EngineInv, CallsInv, DocumentsOwn
  <2>3. CASE r.event = AwaitingEvent /\ Step(h, "metadata")
    <3>1. wf'[h].pc = "metadata" /\ wf'[h].event = r.event
      BY <1>0, <1>1, <2>3 DEF WorkflowLocals, WorkflowPc
    <3> QED
      BY <2>1, <2>3, <3>1 DEF ServingInv
  <2>4. CASE /\ r.event = ConfirmingEvent
             /\ i # None /\ None \notin {i.target, i.by}
             /\ wf' = [wf EXCEPT ![h].pc = "target", ![h].parsed = i]
    <3>1. wf'[h].pc = "target" /\ wf'[h].event = r.event /\ wf'[h].parsed = i
      BY <1>0, <2>4 DEF WorkflowLocals
    <3>2. i \in Parses[r.event] \cup Intents(r.event)
      BY <2>2, <2>4
    <3>3. i.target \in RequestCandidates /\ i.by \in Workers
      BY <2>1, <2>4, <3>2, IntentShape DEF Optional
    <3> HIDE DEF i
    <3> QED
      BY <2>1, <2>4, <3>1, <3>2, <3>3 DEF ServingInv
  <2>5. CASE Respond(h)
    BY <1>2, <2>1, <2>5, RequestEnds
  <2> QED
    BY <1>8, <2>3, <2>4, <2>5 DEF Stored
<1>9. CASE ReadGeneration(h)
  <2>1. /\ r.pc = "metadata" /\ proc[h] = Idle /\ proc'[h] = proc[h]
        /\ r.event \in Events /\ r.event = AwaitingEvent
    BY <1>0, <1>9 DEF ReadGeneration, At, ServingInv, engineVars
  <2>2. /\ wf'[h].pc = "create" /\ wf'[h].event = r.event
        /\ wf'[h].expected = events[r.event].generation
    BY <1>0, <1>9 DEF ReadGeneration, WorkflowLocals
  <2>3. events[r.event].generation \in 0..MaxGeneration
    BY <2>1, GenerationRange
  <2> QED
    BY <2>1, <2>2, <2>3 DEF ServingInv
<1>10. CASE CreateWakeUp(h)
  <2>1. /\ wf'[h].pc = "persist" /\ wf'[h].event = r.event
        /\ wf'[h].expected = r.expected
    BY <1>0, <1>1, <1>10 DEF CreateWakeUp, WorkflowLocals, WorkflowPc
  <2>2. proc'[h] = proc[h]
    BY <1>10 DEF CreateWakeUp, engineVars
  <2> QED
    BY <1>0, <1>10, <2>1, <2>2 DEF CreateWakeUp, At, ServingInv
<1>11. CASE PersistWakeUp(h) \/ RecordConfirmationStep(h)
  <2>1. proc[h] = Idle /\ proc'[h] = proc[h] /\ wf'[h] = Free
    BY <1>0, <1>2, <1>11 DEF PersistWakeUp, RecordConfirmationStep, At, ServingInv
  <2> QED
    BY <2>1, RequestEnds
<1>12. CASE ReadTarget(h)
  <2>1. /\ r.pc = "target" /\ proc[h] = Idle /\ proc'[h] = proc[h]
        /\ r.parsed.target \in Events
    BY <1>0, <1>12 DEF ReadTarget, At, ServingInv, RequestCandidates, engineVars
  <2> DEFINE g == events[r.parsed.target].generation
  <2>2. g \in 0..MaxGeneration
    BY <2>1, GenerationRange
  <2>3. CASE wf' = [wf EXCEPT ![h].pc = "createNow", ![h].expected = g]
    <3>1. /\ wf'[h].pc = "createNow" /\ wf'[h].event = r.event
          /\ wf'[h].parsed = r.parsed /\ wf'[h].expected = g
      BY <1>0, <2>3 DEF WorkflowLocals
    <3> QED
      BY <1>0, <2>1, <2>2, <3>1 DEF ServingInv
  <2>4. CASE Respond(h)
    BY <1>2, <2>1, <2>4, RequestEnds
  <2> QED
    BY <1>12, <2>3, <2>4 DEF ReadTarget, GenerationOfTarget
<1>13. CASE CreateResume(h)
  <2>1. /\ wf'[h].pc = "recordConfirmation" /\ wf'[h].event = r.event
        /\ wf'[h].parsed = r.parsed /\ wf'[h].expected = r.expected
    BY <1>0, <1>1, <1>13 DEF CreateResume, WorkflowLocals, WorkflowPc
  <2>2. proc'[h] = proc[h]
    BY <1>13 DEF CreateResume, engineVars
  <2> QED
    BY <1>0, <1>13, <2>1, <2>2 DEF CreateResume, At, ServingInv
<1> QED
  BY <1>3, <1>4, <1>5, <1>6, <1>7, <1>8, <1>9, <1>10, <1>11, <1>12, <1>13 DEF DeliverStep

\* What a task attempt knows after each of its steps.
LEMMA AttemptKnows ==
    ASSUME WorkflowInv, NEW h \in Handlers,
           \/ \E t \in TaskNames : StartResume(h, t)
           \/ ResumeStep(h)
    PROVE  ServingInv(h)'
<1> DEFINE r == wf[h]
<1>0. /\ wf \in [Handlers -> WorkflowLocals] /\ r \in WorkflowLocals
      /\ proc \in [Handlers -> EngineLocals]
      /\ ServingInv(h)
  BY DEF WorkflowInv, WorkflowTypeOK, EngineTypeOK
<1>1. ASSUME NEW pc \in {"resuming", "verified"}, Step(h, pc),
             r.task \in TaskNames, r.event = r.task[1],
             pc = "verified" => proc'[h] = Idle
      PROVE  ServingInv(h)'
  <2>1. wf'[h].pc = pc /\ wf'[h].event = r.event /\ wf'[h].task = r.task
    BY <1>0, <1>1 DEF Step, WorkflowLocals
  <2> QED
    BY <1>1, <2>1 DEF ServingInv
<1>2. ASSUME Acknowledge(h) \/ Refuse(h), proc'[h] = Idle
      PROVE  ServingInv(h)'
  <2>1. wf'[h] = Free
    BY <1>0, <1>2 DEF Acknowledge, Refuse, Respond
  <2> QED
    BY <1>2, <2>1, RequestEnds
<1>3. ASSUME NEW t \in TaskNames, StartResume(h, t)
      PROVE  ServingInv(h)'
  <2>1. r = Free /\ proc[h] = Idle /\ proc'[h] = proc[h]
    BY <1>0, <1>3 DEF StartResume, At, ServingInv, engineVars
  <2>2. wf'[h].pc = "resume" /\ wf'[h].task = t /\ wf'[h].event = t[1]
    BY <1>0, <1>3 DEF StartResume, WorkflowLocals
  <2> QED
    BY <2>1, <2>2 DEF ServingInv
<1>4. ASSUME ResumeStep(h)
      PROVE  r.task \in TaskNames /\ r.event = r.task[1] /\ r.event \in Events
  BY <1>0, <1>4, TaskShape DEF ResumeStep, ReadMetadata, VerifyExistingEffect, Checkpoint,
     TakeResult, Finish, At, ServingInv
<1>5. CASE ReadMetadata(h)
  <2> DEFINE d == events[r.event]
             m == [status |-> d.status, evidence |-> d.evidence]
  <2>1. proc[h] = Idle /\ proc'[h] = proc[h] /\ events' = events
    BY <1>0, <1>5 DEF ReadMetadata, At, ServingInv, engineVars, repoVars
  <2>2. r.task \in TaskNames /\ r.event = r.task[1] /\ r.event \in Events
    BY <1>4, <1>5 DEF ResumeStep
  <2>3. m \in Metadata /\ m.evidence = d.evidence
    BY <2>2 DEF WorkflowInv, WorkflowTypeOK, EngineTypeOK, RepoTypeOK, EventDocument, Metadata
  <2> HIDE DEF m
  <2>4. CASE wf' = [wf EXCEPT ![h].pc = AfterMetadata(d), ![h].metadata = m]
    <3>1. /\ wf'[h].pc \in {"noop", "checkpoint"} /\ wf'[h].event = r.event
          /\ wf'[h].task = r.task /\ wf'[h].metadata = m
      BY <1>0, <2>4 DEF AfterMetadata, WorkflowLocals
    <3> QED
      BY <2>1, <2>2, <2>3, <3>1 DEF ServingInv
  <2> QED
    BY <1>2, <1>5, <2>1, <2>4 DEF ReadMetadata, m
<1>6. CASE VerifyExistingEffect(h)
  <2>1. proc[h] = Idle /\ proc'[h] = proc[h]
    BY <1>0, <1>6 DEF VerifyExistingEffect, At, ServingInv
  <2> QED
    BY <1>2, <1>6, <2>1 DEF VerifyExistingEffect
<1>7. CASE Checkpoint(h)
  <2>1. proc[h] = Idle
    BY <1>0, <1>7 DEF Checkpoint, At, ServingInv
  <2>2. CASE Step(h, "resuming")
    BY <1>1, <1>4, <1>7, <2>2 DEF ResumeStep
  <2>3. CASE (Acknowledge(h) \/ Refuse(h)) /\ UNCHANGED engineVars
    BY <1>2, <2>1, <2>3 DEF engineVars
  <2> QED
    BY <1>7, <2>2, <2>3 DEF Checkpoint
<1>8. CASE TakeResult(h)
  <2>1. proc'[h] = Idle
    BY <1>0, <1>8 DEF TakeResult, Collect
  <2> QED
    BY <1>1, <1>2, <1>4, <1>8, <2>1 DEF TakeResult, ResumeStep
<1>9. CASE Finish(h)
  <2>1. proc[h] = Idle /\ proc'[h] = proc[h]
    BY <1>0, <1>9 DEF Finish, At, ServingInv
  <2> QED
    BY <1>2, <1>9, <2>1 DEF Finish
<1> QED
  BY <1>3, <1>5, <1>6, <1>7, <1>8, <1>9 DEF ResumeStep

\* Every step of the service preserves its invariant.
LEMMA WorkflowStep ==
    ASSUME WorkflowInv, [Next]_vars
    PROVE  WorkflowInv'
<1>1. [EngineNext]_engineVars
  BY WorkflowStepsImplement
<1>2. EngineInv' /\ Advances
  BY <1>1, EngineInvStep, EngineAdvances DEF WorkflowInv
<1>3. WorkflowTypeOK'
  BY <1>2, LocalsTypes, BudgetTypes DEF WorkflowTypeOK, EngineInv
<1>4. GenerationsBounded'
  BY <1>1, EngineStepsImplement, GenerationsStep DEF WorkflowInv, EngineInv, EngineTypeOK
<1>5. ASSUME NEW h \in Handlers PROVE ServingInv(h)'
  <2>0. ServingInv(h) /\ wf[h] \in WorkflowLocals
    BY DEF WorkflowInv, WorkflowTypeOK
  <2>1. CASE (wf'[h] = wf[h] /\ proc'[h] = proc[h]) \/ PageGivesUp
    BY <1>2, <2>0, <2>1, RequestStands, PageLeaves
  <2>2. CASE RunEngine(h)
    BY <1>2, <2>0, <2>2, RequestStands DEF RunEngine
  <2>3. CASE CrashHandler(h)
    <3>1. wf'[h] = Free /\ proc'[h] = Idle
      BY <2>3 DEF CrashHandler, Respond, WorkflowInv, WorkflowTypeOK, EngineTypeOK
    <3> QED
      BY <3>1, RequestEnds
  <2>4. CASE \E t \in TaskNames : ResumeTask(h, t) \/ RedeliveredTask(h, t)
    BY <2>4, AttemptKnows DEF ResumeTask, RedeliveredTask
  <2> QED
    BY <2>1, <2>2, <2>3, <2>4, OneRequestMoves, DeliveryKnows, AttemptKnows
       DEF Serves, HandlerStep
<1> QED
  BY <1>2, <1>3, <1>4, <1>5 DEF WorkflowInv

\* The service keeps what the engine keeps, and each request what it read.
THEOREM WorkflowInvariant == Spec => []WorkflowInv
<1>1. Init => WorkflowInv
  <2> SUFFICES ASSUME Init PROVE WorkflowInv
    OBVIOUS
  <2>1. EngineInv
    BY CallsStart DEF Init, EngineInv
  <2>2. TasksTypeOK
    BY DEF Init, TasksInit, TasksTypeOK, TaskState
  <2>3. wf \in [Handlers -> WorkflowLocals]
    BY WorkflowConstants DEF Init, Free, WorkflowLocals, WorkflowPc, Optional
  <2>4. WorkflowTypeOK
    BY <2>1, <2>2, <2>3, WorkflowConstants DEF Init, WorkflowTypeOK, EngineInv
  <2>5. GenerationsBounded
    BY RepoBounds DEF Init, EngineInit, RepoInit, SeededEvent, GenerationsBounded
  <2>6. \A h \in Handlers : ServingInv(h)
    BY DEF Init, EngineInit, Free, ServingInv
  <2> QED
    BY <2>1, <2>4, <2>5, <2>6 DEF WorkflowInv
<1>2. WorkflowInv /\ [Next]_vars => WorkflowInv'
  BY WorkflowStep
<1> QED
  BY <1>1, <1>2, PTL DEF Spec

\* The locals of every request, the queue and the documents are well typed.
THEOREM WorkflowTypeCorrect == Spec => []WorkflowTypeOK
<1>1. WorkflowInv => WorkflowTypeOK
  BY DEF WorkflowInv
<1> QED
  BY <1>1, WorkflowInvariant, PTL

\* Whatever is delivered, retried, redelivered or cut off, each step of the service
\* is one that EngineSpec allows.
THEOREM WorkflowImplementsEngine == Spec => ImplementsEngine
<1>1. Init => EngineInit
  BY DEF Init
<1>2. WorkflowInv /\ [Next]_vars => [UNCHANGED engineVars \/ EngineNext]_engineVars
  BY WorkflowStepsImplement
<1> QED
  BY <1>1, <1>2, WorkflowInvariant, PTL DEF Spec, ImplementsEngine

\* So every behaviour of the service is one of the engine under arbitrary callers,
\* and one of the repository below it.
LEMMA ServiceIsEngine == Spec => EngineSpec
<1>1. [UNCHANGED engineVars \/ EngineNext]_engineVars => [EngineNext]_engineVars
  OBVIOUS
<1> QED
  BY <1>1, WorkflowImplementsEngine, PTL DEF ImplementsEngine, EngineSpec

\* Deliveries, wake-ups and retries included, nobody is given a shift without having
\* agreed to take it.
THEOREM ServiceTransfersAreConsented == Spec => []Consented
BY ServiceIsEngine, TransfersAreConsented, PTL

\* As long as the messages hand no shift back, no delivery, retry, duplicate or crash
\* of the service makes a request take effect twice.
THEOREM ServiceEffectsAreSingle ==
    ASSUME NEW rank \in [Shifts -> [Workers -> Nat]], MovesForward(rank)
    PROVE  Spec => []SingleEffect
BY ServiceIsEngine, EffectsAreSingle, PTL

\* Whatever the service is sent, nobody is double-booked, and whoever is given a
\* shift is available for it.
THEOREM ServiceRosterStaysFeasible ==
    ASSUME SeedFeasible PROVE Spec => []FeasibleRoster
BY ServiceIsEngine, RosterStaysFeasible, PTL

\* A dependent transfer of the service extends what its dependency moved.
THEOREM ServiceBuildsOnVerified ==
    ASSUME DependenciesAreTransfers PROVE Spec => []BuiltOnVerified
BY ServiceIsEngine, TransfersBuildOnVerified, PTL

\* And all the service ever does to custody is to extend one log of hand-overs, each
\* by the worker who holds the shift at that moment.
THEOREM ServiceImplementsCustodyLog == Spec => ImplementsCustodyLog
<1>1. [UNCHANGED repoVars \/ RepoNext]_repoVars => [RepoNext]_repoVars
  OBVIOUS
<1>2. EngineSpec => RepoSpec
  BY <1>1, EngineImplementsRepository, PTL DEF ImplementsRepository, RepoSpec
<1> QED
  BY <1>2, ServiceIsEngine, RepositoryImplementsCustodyLog, PTL


-----------------------------------------------------------------------------
(* Confirmations.                                                          *)

\* What AnswersOneRequest says of parses holds of all intents a run can store.
LEMMA Answers ==
    ASSUME AnswersOneRequest, ConfirmingEvent \in Events,
           NEW i \in Parses[ConfirmingEvent] \cup Intents(ConfirmingEvent)
    PROVE  /\ i.type # "TRANSFER_SHIFT"
           /\ \A j \in Parses[ConfirmingEvent] \cup Intents(ConfirmingEvent) :
                 None \notin {i.target, j.target} => i.target = j.target
           /\ i.target # None =>
                 /\ i.target \in Events
                 /\ \A a, b \in Intents(i.target) : a.to = b.to
<1> DEFINE c == ConfirmingEvent
<1>1. ASSUME NEW e \in Events, NEW j \in StorableParses(e), NEW w \in Workers
      PROVE  /\ Confirmed(j, w).type = j.type /\ Confirmed(j, w).target = j.target
             /\ Confirmed(j, w).to = j.to
  BY ParsesWellFormed DEF StorableParses, StructuredIntent, Confirmed
<1>2. ASSUME NEW e \in Events, NEW j \in Parses[e] \cup Intents(e)
      PROVE  \E k \in Parses[e] :
                /\ k.type = j.type /\ k.target = j.target /\ k.to = j.to
                /\ j \in Intents(e) => k \in StorableParses(e)
  BY <1>1, <1>2 DEF Intents, StorableIntents, StorableParses
<1>3. PICK p \in Parses[c] : p.type = i.type /\ p.target = i.target
  BY <1>2
<1>4. ASSUME NEW j \in Parses[c] \cup Intents(c), None \notin {i.target, j.target}
      PROVE  i.target = j.target
  BY <1>2, <1>3, <1>4 DEF AnswersOneRequest
<1>5. ASSUME i.target # None
      PROVE  i.target \in Events /\ \A a, b \in Intents(i.target) : a.to = b.to
  <2>1. i.target \in Events
    BY <1>5, IntentShape DEF Optional, RequestCandidates
  <2>2. \A j, k \in StorableParses(i.target) : j.to = k.to
    BY <1>3, <1>5 DEF AnswersOneRequest
  <2> QED
    BY <1>2, <2>1, <2>2
<1> QED
  BY <1>3, <1>4, <1>5 DEF AnswersOneRequest

\* An acceptance of a stored request stays one, however its message is read again.
LEMMA AcceptsStands ==
    ASSUME AnswersOneRequest, ConfirmingEvent \in Events, Advances,
           NEW i \in Intents(ConfirmingEvent), i.type = "CONFIRM_REQUEST", Accepts(i)
    PROVE  Accepts(i)'
<1>1. i.target # None
  BY IntentShape DEF ValidShape
<1>2. i.target \in Events /\ \A a, b \in Intents(i.target) : a.to = b.to
  BY <1>1, Answers
<1> QED
  BY <1>2 DEF Accepts, Advances

\* The confirming event never moves a shift.
LEMMA ConfirmingMovesNothing ==
    ASSUME AnswersOneRequest, ConfirmingEvent \in Events, EngineInv,
           [EngineNext]_engineVars, \A x \in ledger : x.request # ConfirmingEvent
    PROVE  \A x \in ledger' : x.request # ConfirmingEvent
<1>1. ASSUME NEW h \in Handlers, Commit(h)
      PROVE  /\ ledger' = ledger \cup {NewEdge(Command(proc[h]))}
             /\ NewEdge(Command(proc[h])).request # ConfirmingEvent
  <2>1. /\ ApplyTransfer(Command(proc[h])) /\ Command(proc[h]).request = proc[h].event
        /\ proc[h].intent \in Intents(proc[h].event)
        /\ proc[h].intent.type = "TRANSFER_SHIFT"
    BY <1>1, CommitFinds
  <2>2. proc[h].event # ConfirmingEvent
    BY <2>1, Answers
  <2> QED
    BY <2>1, <2>2 DEF ApplyTransfer, NewEdge
<1> QED
  BY <1>1, OnlyCommitsMove

\* A call past the lookup of a confirmation carries an acceptance.
LEMMA AcceptingCallsStep ==
    ASSUME AnswersOneRequest, ConfirmingEvent \in Events, EngineInv, AcceptancesHold,
           [EngineNext]_engineVars, NEW h \in Handlers,
           proc'[h].event = ConfirmingEvent,
           \/ proc'[h].pc = "confirm"
           \/ /\ proc'[h].pc = "save" /\ proc'[h].decision.state = "READY"
              /\ proc'[h].intent.type = "CONFIRM_REQUEST",
           NEW i, i = proc'[h].intent
    PROVE  Accepts(i)'
<1> DEFINE p == proc[h]
<1>0. proc \in [Handlers -> EngineLocals] /\ EngineTypeOK /\ Advances /\ CallsInv
  BY EngineAdvances DEF EngineInv, EngineTypeOK
<1>1. ASSUME p.pc \in {"lookup", "save", "confirm"}, p.event = ConfirmingEvent,
             p.intent.type = "CONFIRM_REQUEST", Accepts(p.intent), i = p.intent
      PROVE  Accepts(i)'
  <2>1. i \in Intents(ConfirmingEvent)
    BY <1>0, <1>1 DEF CallsInv, CallReads, InCall
  <2> QED
    BY <1>0, <1>1, <2>1, AcceptsStands
<1>2. CASE proc'[h] = p
  <2>1. p.pc = "confirm" => p.intent.type = "CONFIRM_REQUEST"
    BY <1>0 DEF CallsInv, CallDecides
  <2> QED
    BY <1>1, <1>2, <2>1 DEF AcceptancesHold
<1>3. CASE Validate(h)
  <2> DEFINE state == RunDecision(p.intent, expired')
             ready == state = "READY" /\ p.intent.type = "TRANSFER_SHIFT"
             new == [state    |-> state,
                     schedule |-> IF ready THEN scheduleVersion ELSE None,
                     version  |-> IF ready THEN shifts[p.intent.shift].version ELSE None,
                     head     |-> IF ready THEN shifts[p.intent.shift].head ELSE None]
  <2>1. /\ proc'[h].pc = (IF NeedsLookup(p.intent, state) THEN "lookup" ELSE "save")
        /\ i = p.intent /\ proc'[h].decision = new
    BY <1>0, <1>3 DEF Validate, EngineLocals
  <2>2. new.state = state
    OBVIOUS
  <2> HIDE DEF new, state
  <2> QED
    BY <2>1, <2>2 DEF NeedsLookup
<1>4. CASE Lookup(h)
  <2> DEFINE st == IF LookupHolds(p.intent, p.decision.head) THEN "READY" ELSE "REJECTED"
  <2>1. p.pc = "lookup" /\ p.decision \in Decision /\ p.event \in Events
        /\ p.intent \in Intents(p.event)
    BY <1>0, <1>4 DEF Lookup, CallsInv, CallReads, CallDecides, InCall
  <2>2. proc' = [proc EXCEPT ![h].pc = "save", ![h].decision.state = st]
    BY <1>4 DEF Lookup
  <2> HIDE DEF st
  <2>3. /\ i = p.intent /\ proc'[h].event = p.event /\ proc'[h].pc = "save"
        /\ proc'[h].decision = [p.decision EXCEPT !.state = st]
    BY <1>0, <2>2 DEF EngineLocals
  <2>4. proc'[h].decision.state = st
    BY <2>1, <2>3 DEF Decision
  <2>5. p.intent.type = "CONFIRM_REQUEST" /\ ConfirmationHolds(p.intent)
    BY <2>3, <2>4 DEF st, LookupHolds
  <2>6. p.intent.target \in Events
    BY <2>1, <2>5, IntentShape DEF ValidShape, Optional, RequestCandidates
  <2>7. Accepts(p.intent)
    BY <1>0, <2>5, <2>6 DEF ConfirmationHolds, Accepts, CallsInv, DocumentsOwn
  <2> QED
    BY <1>1, <2>1, <2>3, <2>5, <2>7
<1>5. CASE Save(h)
  <2>1. /\ p.pc = "save" /\ p.decision.state = "READY"
        /\ \/ Goto(h, "confirm") /\ p.intent.type = "CONFIRM_REQUEST"
           \/ Goto(h, "commit")
    BY <1>0, <1>5 DEF Save, Return, Idle
  <2>2. /\ i = p.intent /\ proc'[h].event = p.event
        /\ p.intent.type = "CONFIRM_REQUEST"
    BY <1>0, <2>1 DEF Goto, EngineLocals
  <2>3. Accepts(p.intent)
    BY <2>1, <2>2 DEF AcceptancesHold
  <2> QED
    BY <1>1, <2>1, <2>2, <2>3
<1> QED
  BY <1>0, <1>2, <1>3, <1>4, <1>5, DecidedBy

\* What is stored as VERIFIED of the confirming event stays an acceptance: only a
\* call past the lookup writes that status, since there is no edge to verify.
LEMMA AcceptancesStep ==
    ASSUME AnswersOneRequest, EngineInv, RecordsBackedByEdge, AcceptancesHold,
           [EngineNext]_engineVars
    PROVE  AcceptancesHold'
<1> SUFFICES ASSUME ConfirmingEvent \in Events PROVE AcceptancesHold'
  BY DEF AcceptancesHold
<1> DEFINE c == ConfirmingEvent
<1>0. EngineTypeOK /\ RepoTypeOK /\ CustodyInv /\ CallsInv /\ Advances
  BY EngineAdvances DEF EngineInv, EngineTypeOK
<1>1. RecordsBackedByEdge'
  BY <1>0, EngineStepsImplement, RecordsStep
<1>2. \A x \in ledger' : x.request # c
  BY ConfirmingMovesNothing DEF AcceptancesHold
<1>3. ~IsVerified(c) /\ ~IsVerified(c)'
  <2>1. ~IsVerified(c)'
    BY <1>1, <1>2 DEF RecordsBackedByEdge, IsVerified
  <2> QED
    BY <1>0, <2>1 DEF Advances, IsVerified
<1>4. ASSUME NEW i, i = events'[c].intent, events'[c].status = "VERIFIED"
      PROVE  i \in Intents(c) /\ i.type = "CONFIRM_REQUEST" /\ Accepts(i)'
  <2>1. i \in Intents(c) /\ i.type = "CONFIRM_REQUEST" /\ Accepts(i)
    <3>1. ASSUME NEW h \in Handlers, Saving(h), proc[h].event = c, i = proc[h].intent,
                 proc[h].pc \in {"confirm", "publish"}
          PROVE  i \in Intents(c) /\ i.type = "CONFIRM_REQUEST" /\ Accepts(i)
      <4>1. proc[h].pc = "confirm"
        BY <1>0, <1>3, <3>1 DEF CallsInv, CallReads
      <4> QED
        BY <1>0, <3>1, <4>1 DEF CallsInv, CallReads, CallDecides, InCall, AcceptancesHold
    <3>2. CASE i = events[c].intent /\ events[c].status = "VERIFIED"
      BY <3>2 DEF AcceptancesHold
    <3> QED
      BY <1>3, <1>4, <3>1, <3>2, EngineWrites
  <2> QED
    BY <1>0, <2>1, AcceptsStands
<1>5. ASSUME NEW h \in Handlers,
             proc'[h].event = c,
             \/ proc'[h].pc = "confirm"
             \/ /\ proc'[h].pc = "save" /\ proc'[h].decision.state = "READY"
                /\ proc'[h].intent.type = "CONFIRM_REQUEST",
             NEW i, i = proc'[h].intent
      PROVE  Accepts(i)'
  BY <1>5, AcceptingCallsStep
<1> QED
  BY <1>2, <1>4, <1>5 DEF AcceptancesHold, Accepts

\* What is known of a request's wake-ups changes in two places only.
LEMMA ScheduleWriters ==
    ASSUME WorkflowInv, [Next]_vars, NEW t \in Events,
           \/ events'[t].evidence # events[t].evidence
           \/ events'[t].generation # events[t].generation
    PROVE  \E h \in Handlers : PersistWakeUp(h) \/ RecordConfirmationStep(h)
<1>0. RepoTypeOK /\ CallsInv
  BY DEF WorkflowInv, EngineInv, EngineTypeOK
<1>1. ~UNCHANGED repoVars
  BY <1>0, ScheduleStands
<1>2. ASSUME NEW h \in Handlers,
             \/ \E e \in Events : Deliver(h, e)
             \/ \E k \in TaskNames : ResumeTask(h, k) \/ RedeliveredTask(h, k)
             \/ ValidateIntent(h) \/ ApplyDecision(h) \/ Applied(h) \/ AgentDone(h)
             \/ Stored(h) \/ ReadGeneration(h) \/ CreateWakeUp(h) \/ ReadTarget(h)
             \/ CreateResume(h) \/ ReadMetadata(h) \/ Checkpoint(h) \/ TakeResult(h)
             \/ CrashHandler(h)
      PROVE  UNCHANGED repoVars
  BY <1>2 DEF Deliver, ResumeTask, RedeliveredTask, StartResume, ValidateIntent,
     ApplyDecision, Applied, AgentDone, Stored, ReadGeneration, CreateWakeUp, ReadTarget,
     CreateResume, ReadMetadata, Checkpoint, TakeResult, CrashHandler, ApplyOther, Call,
     CallVerify, Collect, engineVars
<1>3. ASSUME NEW h \in Handlers, RunEngine(h)
      PROVE  FALSE
  BY <1>0, <1>3, EngineStepWrites, ScheduleStands DEF RunEngine
<1>4. ASSUME NEW h \in Handlers, VerifyExistingEffect(h) \/ Finish(h)
      PROVE  FALSE
  <2>1. events' = events
    BY <1>4 DEF VerifyExistingEffect, Finish, RecordNoOp, ConsumeFailureInjection, repoVars
  <2> QED
    BY <2>1
<1>5. CASE ArmFault \/ PageGivesUp \/ UNCHANGED vars
  BY <1>0, <1>5, ScheduleStands DEF ArmFault, PageGivesUp, vars, engineVars
<1> QED
  BY <1>1, <1>2, <1>3, <1>4, <1>5 DEF Next, HandlerStep, DeliverStep, ResumeStep

\* What a persisted wake-up makes of the documents.
LEMMA PersistWrites ==
    ASSUME WorkflowInv, NEW h \in Handlers, PersistWakeUp(h)
    PROVE  /\ wf[h].event \in Events \ {ConfirmingEvent}
           /\ wf[h].expected \in 0..MaxGeneration
           /\ \/ events' = events
              \/ /\ ScheduleAccepted(wf[h].event, wf[h].expected)
                 /\ wf[h].expected < MaxGeneration
                 /\ events' = [events EXCEPT ![wf[h].event].generation = wf[h].expected + 1]
<1>1. ServingInv(h)
  BY DEF WorkflowInv
<1>2. /\ wf[h].event \in Events \ {ConfirmingEvent}
      /\ wf[h].expected \in 0..MaxGeneration
  BY <1>1, WorkflowConstants, NamesDistinct DEF PersistWakeUp, At, ServingInv
<1> QED
  BY <1>2 DEF PersistWakeUp, PersistSchedule, repoVars

\* What a recorded confirmation makes of them.
LEMMA RecordWrites ==
    ASSUME WorkflowInv, NEW h \in Handlers, RecordConfirmationStep(h)
    PROVE  LET r == wf[h]
               c == ConfirmingEvent
               f == wf[h].parsed.target
           IN
           /\ c \in Events /\ r.event = c /\ f \in Events \ {c} /\ r.parsed.by \in Workers
           /\ r.parsed \in Parses[c] \cup Intents(c)
           /\ r.expected \in 0..MaxGeneration
           /\ \/ events' = events
              \/ /\ ConfirmationAccepted(c, f, r.expected)
                 /\ r.expected < MaxGeneration
                 /\ events' = [events EXCEPT
                      ![f].evidence   = [source |-> c, by |-> r.parsed.by],
                      ![f].generation = r.expected + 1,
                      ![c].generation = r.expected + 1]
<1>1. ServingInv(h)
  BY DEF WorkflowInv
<1> QED
  BY <1>1 DEF RecordConfirmationStep, At, ServingInv, RequestCandidates,
     RecordConfirmation, repoVars

\* If the confirming message answers one request, whose readings agree on the worker
\* asked, evidence goes on record only of a stored acceptance by that worker: however
\* deliveries of the event are interleaved, and although the route records what its
\* own agent run parsed.
THEOREM OnlyAcceptancesAreRecorded ==
    ASSUME AnswersOneRequest PROVE Spec => RecordedOnAcceptance
<1> DEFINE Recorded(t) ==
      events'[t].evidence # events[t].evidence =>
         LET i == events[events'[t].evidence.source].intent IN
         /\ <<i.type, i.decision, i.target>> = <<"CONFIRM_REQUEST", "ACCEPT", t>>
         /\ i.by = events[t].intent.to
<1>1. Init => AcceptancesHold /\ RecordsBackedByEdge
  BY NamesDistinct DEF Init, EngineInit, RepoInit, SeededEvent, InitialEdge, Idle,
     AcceptancesHold, RecordsBackedByEdge
<1>2. WorkflowInv /\ AcceptancesHold /\ RecordsBackedByEdge /\ [Next]_vars
      => AcceptancesHold' /\ RecordsBackedByEdge'
  <2> SUFFICES ASSUME WorkflowInv, AcceptancesHold, RecordsBackedByEdge, [Next]_vars
               PROVE  AcceptancesHold' /\ RecordsBackedByEdge'
    OBVIOUS
  <2>1. EngineInv /\ EngineTypeOK /\ RepoTypeOK /\ CustodyInv /\ CallsInv
    BY DEF WorkflowInv, EngineInv, EngineTypeOK
  <2>2. [EngineNext]_engineVars
    BY WorkflowStepsImplement
  <2> QED
    BY <2>1, <2>2, AcceptancesStep, EngineStepsImplement, RecordsStep
<1>3. ASSUME WorkflowInv, AcceptancesHold, [Next]_vars, NEW t \in Events
      PROVE  Recorded(t)
  <2> SUFFICES ASSUME events'[t].evidence # events[t].evidence
               PROVE  Recorded(t)
    OBVIOUS
  <2>1. PICK h \in Handlers : RecordConfirmationStep(h)
    <3>1. ASSUME NEW h \in Handlers, PersistWakeUp(h)
          PROVE  FALSE
      <4>1. SomeSchedule
        BY <1>3, <3>1, PersistWrites DEF PersistWakeUp, SomeSchedule
      <4>2. RepoTypeOK
        BY <1>3 DEF WorkflowInv, EngineInv, EngineTypeOK
      <4> QED
        BY <4>1, <4>2, EvidenceStands
    <3> QED
      BY <1>3, <3>1, ScheduleWriters
  <2> DEFINE r == wf[h]
             c == ConfirmingEvent
             f == r.parsed.target
             i == events[c].intent
  <2>2. /\ c \in Events /\ r.event = c
        /\ r.parsed \in Parses[c] \cup Intents(c)
        /\ f \in Events \ {c}
    BY <1>3, <2>1, RecordWrites
  <2>3. /\ ConfirmationAccepted(c, f, r.expected)
        /\ events' = [events EXCEPT
             ![f].evidence   = [source |-> c, by |-> r.parsed.by],
             ![f].generation = r.expected + 1,
             ![c].generation = r.expected + 1]
    BY <1>3, <2>1, RecordWrites
  <2>4. events \in [Events -> EventDocument]
    BY <1>3 DEF WorkflowInv, EngineInv, EngineTypeOK, RepoTypeOK
  <2> HIDE DEF f
  <2>5. t = f
    <3>1. CASE t = c
      BY <2>2, <2>3, <2>4, <3>1 DEF EventDocument
    <3>2. CASE t # c /\ t # f
      BY <2>2, <2>3, <2>4, <3>2
    <3> QED
      BY <3>1, <3>2
  <2>6. events'[t].evidence.source = c
    BY <2>2, <2>3, <2>4, <2>5 DEF EventDocument
  <2>7. i \in Intents(c) /\ i.type = "CONFIRM_REQUEST" /\ Accepts(i)
    BY <1>3, <2>2, <2>3 DEF ConfirmationAccepted, ConfirmationRaises, AcceptancesHold
  <2>8. i.target = t
    <3>1. i.target # None
      BY <2>2, <2>7, IntentShape DEF ValidShape
    <3>2. f # None
      BY <2>2, NamesDistinct
    <3> QED
      BY <2>2, <2>5, <2>7, <3>1, <3>2, Answers DEF f
  <2> QED
    BY <2>6, <2>7, <2>8 DEF Accepts
<1>4. WorkflowInv /\ AcceptancesHold /\ [Next]_vars => [\A t \in Events : Recorded(t)]_vars
  BY <1>3
<1> QED
  BY <1>1, <1>2, <1>4, WorkflowInvariant, PTL DEF Spec, RecordedOnAcceptance

-----------------------------------------------------------------------------
(* The awaiting request implements the abstract handoff.                   *)

\* A commit for the awaiting request is the abstract move, to the worker whose
\* confirmation is on record.
LEMMA CommitMoves ==
    ASSUME AwaitsConsent, EngineInv, ConsentKept, SingleEffect',
           NEW h \in Handlers, Commit(h)
    PROVE  AwaitedHandoff!Move \/ UNCHANGED {x \in ledger : x.request = AwaitingEvent}
<1> DEFINE a == AwaitingEvent
           c == Command(proc[h])
           i == events[a].intent
           moved == {x \in ledger : x.request = a}
<1>0. RepoTypeOK /\ CallsInv
  BY DEF EngineInv, EngineTypeOK
<1>1. /\ ApplyTransfer(c) /\ c \in TransferCommit
  BY CommitFinds
<1>2. PICK n : /\ n = NewEdge(c) /\ n.request = c.request /\ n.to = c.to
               /\ n.id = NewLedgerId(c)
               /\ ledger' = ledger \cup {n}
  BY <1>1 DEF NewEdge, ApplyTransfer
<1>3. CASE c.request # a
  BY <1>2, <1>3
<1>4. CASE c.request = a
  <2>1. i # None /\ i.confirmation = "PRESENT" /\ i.by = c.to
    BY <1>1, <1>4 DEF ApplyTransfer, CommitApplies, ConsentStored
  <2>2. /\ events[a].evidence # None
        /\ \E j \in StorableParses(a) : i = Confirmed(j, events[a].evidence.by)
    BY <2>1 DEF AwaitsConsent, ConsentKept, ConsentedIntents
  <2>3. i.by = events[a].evidence.by
    BY <2>2, ParsesWellFormed DEF AwaitsConsent, StorableParses, StructuredIntent, Confirmed
  <2>4. events[a].evidence.by \in Workers
    BY <1>0, <2>2 DEF AwaitsConsent, RepoTypeOK, EventDocument, Optional, Evidence
  <2>5. n \notin ledger
    BY <1>1, <1>2 DEF ApplyTransfer, CommitApplies, CommitIsReplay, InLedger
  <2>6. moved = {}
    BY <1>2, <1>4, <2>5, NamesDistinct DEF AwaitsConsent, SingleEffect
  <2>7. moved' = {n}
    BY <1>2, <1>4, <2>6
  <2>8. events'[a].evidence = events[a].evidence
    <3>1. SomeSave \/ SomeTransfer \/ SomeVerification \/ UNCHANGED repoVars
      BY <1>0, EngineStepWrites DEF EngineStep
    <3> QED
      BY <1>0, <3>1, EvidenceStands DEF AwaitsConsent
  <2>9. UNCHANGED verifications
    BY <1>1 DEF ApplyTransfer
  <2>10. IsVerified(a)' = IsVerified(a)
    BY <2>9 DEF IsVerified
  <2> QED
    BY <1>2, <2>1, <2>2, <2>3, <2>4, <2>6, <2>7, <2>8, <2>10, NamesDistinct
       DEF AwaitedHandoff!Move
<1> QED
  BY <1>3, <1>4

\* The abstract state, as the refinement mapping reads it from the run.
Consent == IF events[AwaitingEvent].evidence = None THEN None
           ELSE events[AwaitingEvent].evidence.by
Moved == {x \in ledger : x.request = AwaitingEvent}
Attested == IsVerified(AwaitingEvent)

\* A recorded confirmation is the abstract one.
LEMMA ConfirmationConfirms ==
    ASSUME AwaitsConsent, RepoTypeOK, SomeConfirmation
    PROVE  AwaitedHandoff!Confirm \/ UNCHANGED <<Consent, Moved, Attested>>
<1> DEFINE a == AwaitingEvent
<1>0. events \in [Events -> EventDocument] /\ a \in Events
  BY DEF RepoTypeOK, AwaitsConsent
<1>1. PICK t \in Events \ {ConfirmingEvent}, w \in Workers, g \in 0..MaxGeneration :
        RecordConfirmation(ConfirmingEvent, t, w, g)
  BY DEF SomeConfirmation
<1>2. UNCHANGED <<Moved, Attested>>
  BY <1>1 DEF RecordConfirmation, repoVars, Moved, Attested, IsVerified
<1>3. CASE events' = events
  BY <1>2, <1>3 DEF Consent
<1>4. CASE /\ events[t].evidence = None
           /\ events' = [events EXCEPT
                ![t].evidence   = [source |-> ConfirmingEvent, by |-> w],
                ![t].generation = g + 1,
                ![ConfirmingEvent].generation = g + 1]
  <2>1. CASE a = t
    <3>1. events'[a].evidence = [source |-> ConfirmingEvent, by |-> w]
      BY <1>0, <1>1, <1>4, <2>1 DEF EventDocument
    <3>2. [source |-> ConfirmingEvent, by |-> w] # None /\ w # None
      <4>1. ConfirmingEvent \in Events
        BY SeedWellFormed DEF SomeConfirmation
      <4>2. [source |-> ConfirmingEvent, by |-> w] \in Evidence
        BY <1>1, <4>1 DEF Evidence
      <4> QED
        BY <1>1, <4>2, NamesDistinct DEF Evidence
    <3>3. Consent = None /\ Consent' = w
      BY <1>4, <2>1, <3>1, <3>2 DEF Consent
    <3> QED
      BY <1>1, <1>2, <3>3 DEF AwaitedHandoff!Confirm, Consent, Moved, Attested
  <2>2. CASE a # t /\ a = ConfirmingEvent
    <3>1. events'[a].evidence = events[a].evidence
      BY <1>0, <1>4, <2>2 DEF EventDocument
    <3> QED
      BY <1>2, <3>1 DEF Consent
  <2>3. CASE a # t /\ a # ConfirmingEvent
    BY <1>0, <1>2, <1>4, <2>3 DEF Consent
  <2> QED
    BY <2>1, <2>2, <2>3
<1> QED
  BY <1>1, <1>3, <1>4 DEF RecordConfirmation, ConfirmationAccepted, repoVars

\* A new verification record is the abstract attestation.
LEMMA VerificationAttests ==
    ASSUME AwaitsConsent, RepoTypeOK, SomeVerification
    PROVE  AwaitedHandoff!Attest \/ UNCHANGED <<Consent, Moved, Attested>>
<1>0. UNCHANGED Consent
  BY EvidenceStands DEF AwaitsConsent, Consent
<1>1. UNCHANGED Moved
  BY DEF SomeVerification, SaveVerification, repoVars, Moved
<1>2. PICK e \in Events, x \in ledger : x.request = e /\ SaveVerification(e, x.id)
  BY DEF SomeVerification
<1>3. CASE IsVerified(e) \/ e # AwaitingEvent
  <2>1. UNCHANGED Attested
    BY <1>2, <1>3 DEF SaveVerification, repoVars, Attested, IsVerified
  <2> QED
    BY <1>0, <1>1, <2>1
<1>4. CASE ~IsVerified(e) /\ e = AwaitingEvent
  <2>1. x \in Moved
    BY <1>2, <1>4 DEF Moved
  <2>2. PICK v : v.request = e /\ verifications' = verifications \cup {v}
    <3>1. PICK y \in ledger : verifications' = verifications \cup
            {[request |-> e, applied |-> y.id, shift |-> y.shift, to |-> y.to,
              shift_version |-> y.shift_version, schedule_version |-> y.schedule_version]}
      BY <1>2, <1>4 DEF SaveVerification
    <3> QED
      BY <3>1
  <2>3. \E w \in verifications' : w.request = AwaitingEvent
    BY <1>4, <2>2
  <2> QED
    BY <1>0, <1>1, <2>1, <2>3 DEF AwaitedHandoff!Attest, Consent, Moved, IsVerified
<1> QED
  BY <1>3, <1>4

\* Every step of the engine and of its arbitrary callers is a step of the handoff.
LEMMA HandoffStep ==
    ASSUME AwaitsConsent, EngineInv, ConsentKept, SingleEffect', [EngineNext]_engineVars
    PROVE  \/ AwaitedHandoff!Confirm \/ AwaitedHandoff!Move \/ AwaitedHandoff!Attest
           \/ UNCHANGED <<Consent, Moved, Attested>>
<1>0. RepoTypeOK /\ EngineTypeOK /\ CallsInv
  BY DEF EngineInv, EngineTypeOK
<1>1. CASE SomeConfirmation
  BY <1>0, <1>1, ConfirmationConfirms
<1>2. CASE SomeVerification
  BY <1>0, <1>2, VerificationAttests
<1>3. CASE /\ \/ SomeSave \/ SomeTransfer \/ SomeSchedule \/ SomeReliabilityStep
              \/ ConfigureFailureInjection \/ UNCHANGED repoVars
           /\ UNCHANGED Moved
  <2>1. UNCHANGED Consent
    BY <1>0, <1>3, EvidenceStands DEF AwaitsConsent, Consent
  <2>2. UNCHANGED verifications
    <3>1. CASE SomeTransfer
      BY <1>0, <3>1, TransfersAreCommits DEF ApplyTransfer
    <3>2. CASE SomeSave \/ SomeSchedule \/ ConfigureFailureInjection \/ UNCHANGED repoVars
      BY <3>2 DEF SomeSave, SaveRequest, SomeSchedule, PersistSchedule,
         ConfigureFailureInjection, repoVars
    <3>3. CASE SomeReliabilityStep
      BY <3>3 DEF SomeReliabilityStep, ConsumeFailureInjection, RecordNoOp, repoVars
    <3> QED
      BY <1>3, <3>1, <3>2, <3>3
  <2> QED
    BY <1>3, <2>1, <2>2 DEF Attested, IsVerified
<1>4. [RepoNext]_repoVars
  BY <1>0, EngineStepsImplement
<1>5. ASSUME NEW h \in Handlers, Commit(h)
      PROVE  AwaitedHandoff!Move \/ UNCHANGED Moved
  BY <1>5, CommitMoves DEF Moved
<1>6. CASE UNCHANGED ledger
  BY <1>1, <1>2, <1>3, <1>4, <1>6 DEF Moved, RepoNext
<1> QED
  BY <1>1, <1>2, <1>3, <1>4, <1>5, <1>6, OnlyCommitsMove DEF RepoNext

\* The awaiting request, if its message carries no consent and no message hands a
\* shift back, lives the life of a handoff: one confirmation, then one move to the
\* worker who confirmed, then one attestation, and nothing is ever taken back.
THEOREM AwaitingRequestIsHandedOff ==
    ASSUME AwaitsConsent,
           NEW rank \in [Shifts -> [Workers -> Nat]], MovesForward(rank)
    PROVE  Spec => ImplementsHandoff
<1>1. EngineInit => AwaitedHandoff!Init
  <2> SUFFICES ASSUME EngineInit PROVE AwaitedHandoff!Init
    OBVIOUS
  <2>1. events[AwaitingEvent].evidence = None
    BY DEF EngineInit, RepoInit, SeededEvent, AwaitsConsent
  <2>2. \A x \in ledger : x.request # AwaitingEvent
    BY NamesDistinct DEF EngineInit, RepoInit, InitialEdge, AwaitsConsent
  <2>3. IsVerified(AwaitingEvent) = FALSE
    BY DEF EngineInit, RepoInit, IsVerified
  <2> QED
    BY <2>1, <2>2, <2>3 DEF AwaitedHandoff!Init
<1>2. EngineInv /\ ConsentKept /\ SingleEffect' /\ [EngineNext]_engineVars
      => [AwaitedHandoff!Confirm \/ AwaitedHandoff!Move \/ AwaitedHandoff!Attest]_
            <<Consent, Moved, Attested>>
  BY HandoffStep
<1>3. EngineSpec => [][AwaitedHandoff!Confirm \/ AwaitedHandoff!Move
                       \/ AwaitedHandoff!Attest]_<<Consent, Moved, Attested>>
  BY <1>2, EngineInvariant, ConsentAlwaysKept, EffectsAreSingle, PTL DEF EngineSpec
<1>4. EngineSpec => ImplementsHandoff
  BY <1>1, <1>3, PTL DEF EngineSpec, ImplementsHandoff, AwaitedHandoff!Spec, Consent,
     Moved, Attested
<1> QED
  BY <1>4, ServiceIsEngine, PTL

-----------------------------------------------------------------------------
(* Wake-ups.                                                               *)

\* A task once created never becomes unknown again.
LEMMA TasksStay ==
    ASSUME WorkflowInv, [Next]_vars, NEW t \in TaskNames, tasks[t].state # "none"
    PROVE  tasks'[t].state # "none"
<1>0. tasks \in [TaskNames -> [state : TaskState, extra : Nat]]
  BY DEF WorkflowInv, WorkflowTypeOK, TasksTypeOK
<1>1. ASSUME NEW k, CreateTask(k) \/ Dispatch(k) \/ Redeliver(k) \/ Ack(k) \/ Nack(k)
      PROVE  tasks'[t].state # "none"
  <2>1. CASE k = t
    BY <1>0, <1>1, <2>1 DEF CreateTask, Dispatch, Redeliver, Ack, Nack
  <2>2. CASE k # t
    BY <1>0, <1>1, <2>2 DEF CreateTask, Dispatch, Redeliver, Ack, Nack
  <2> QED
    BY <2>1, <2>2
<1>2. CASE UNCHANGED tasks
  BY <1>2
<1>3. ASSUME NEW h \in Handlers, Acknowledge(h) \/ Refuse(h)
      PROVE  tasks'[t].state # "none"
  BY <1>1, <1>3 DEF Acknowledge, Refuse
<1>4. ASSUME NEW h \in Handlers,
             \/ \E k \in TaskNames : ResumeTask(h, k) \/ RedeliveredTask(h, k)
             \/ CreateWakeUp(h) \/ CreateResume(h) \/ CrashHandler(h)
      PROVE  tasks'[t].state # "none"
  BY <1>1, <1>2, <1>4 DEF ResumeTask, RedeliveredTask, CreateWakeUp, CreateResume,
     CrashHandler
<1>5. ASSUME NEW h \in Handlers, ResumeStep(h)
      PROVE  tasks'[t].state # "none"
  BY <1>2, <1>3, <1>5 DEF ResumeStep, ReadMetadata, VerifyExistingEffect, Checkpoint,
     TakeResult, Finish
<1>6. CASE \/ \E h \in Handlers :
                \/ \E e \in Events : Deliver(h, e)
                \/ ValidateIntent(h) \/ ApplyDecision(h) \/ Applied(h) \/ AgentDone(h)
                \/ Stored(h) \/ ReadGeneration(h) \/ PersistWakeUp(h) \/ ReadTarget(h)
                \/ RecordConfirmationStep(h) \/ RunEngine(h)
           \/ ArmFault \/ PageGivesUp \/ UNCHANGED vars
  BY <1>2, <1>6 DEF Deliver, ValidateIntent, ApplyDecision, Applied, AgentDone, Stored,
     ReadGeneration, PersistWakeUp, ReadTarget, RecordConfirmationStep, RunEngine,
     ArmFault, PageGivesUp, vars
<1> QED
  BY <1>4, <1>5, <1>6 DEF Next, HandlerStep, DeliverStep

\* Only the creation of a task leads to where its generation is made current.
LEMMA CreationPrecedes ==
    ASSUME WorkflowInv, [Next]_vars, NEW h \in Handlers,
           wf'[h].pc \in {"persist", "recordConfirmation"}
    PROVE  wf'[h] = wf[h] \/ CreateWakeUp(h) \/ CreateResume(h) \/ PageGivesUp
<1>0. /\ wf \in [Handlers -> WorkflowLocals]
      /\ wf'[h].pc \in {"persist", "recordConfirmation"}
  BY DEF WorkflowInv, WorkflowTypeOK
<1>1. ASSUME NEW pc, Step(h, pc) PROVE wf'[h].pc = pc
  BY <1>0, <1>1 DEF Step, WorkflowLocals
<1>2. ~Respond(h)
  BY <1>0 DEF Respond, Free
<1>3. ~Acknowledge(h) /\ ~Refuse(h)
  BY <1>2 DEF Acknowledge, Refuse
<1>4. ASSUME NEW e \in Events, Deliver(h, e) PROVE FALSE
  BY <1>0, <1>4 DEF Deliver, WorkflowLocals
<1>5. ASSUME NEW t \in TaskNames, StartResume(h, t) PROVE FALSE
  BY <1>0, <1>5 DEF StartResume, WorkflowLocals
<1>6. ~ValidateIntent(h) /\ ~ApplyDecision(h) /\ ~ReadGeneration(h) /\ ~ReadTarget(h)
  <2>1. ~ValidateIntent(h)
    BY <1>0 DEF ValidateIntent, At, WorkflowLocals
  <2>2. ~ApplyDecision(h) /\ ~ReadGeneration(h)
    BY <1>0 DEF ApplyDecision, ReadGeneration, WorkflowLocals
  <2>3. ~ReadTarget(h)
    BY <1>0, <1>2 DEF ReadTarget, WorkflowLocals
  <2> QED
    BY <2>1, <2>2, <2>3
<1>7. ~Stored(h)
  BY <1>0, <1>1, <1>2 DEF Stored, WorkflowLocals
<1>8. ~Applied(h) /\ ~AgentDone(h) /\ ~PersistWakeUp(h) /\ ~RecordConfirmationStep(h)
  BY <1>0, <1>1, <1>2 DEF Applied, AgentDone, PersistWakeUp, RecordConfirmationStep
<1>9. ~ReadMetadata(h)
  BY <1>0, <1>3 DEF ReadMetadata, AfterMetadata, WorkflowLocals
<1>10. /\ ~VerifyExistingEffect(h) /\ ~Checkpoint(h) /\ ~TakeResult(h) /\ ~Finish(h)
       /\ ~CrashHandler(h)
  BY <1>0, <1>1, <1>2, <1>3 DEF VerifyExistingEffect, Checkpoint, TakeResult, Finish,
     CrashHandler
<1>11. CASE RunEngine(h)
  BY <1>11 DEF RunEngine
<1> QED
  BY <1>4, <1>5, <1>6, <1>7, <1>8, <1>9, <1>10, <1>11, OneRequestMoves
     DEF Serves, HandlerStep, DeliverStep, ResumeStep, ResumeTask, RedeliveredTask

\* Whoever makes a generation current has created its task.
LEMMA TaskFirstStep ==
    ASSUME WorkflowInv, TaskComesFirst, [Next]_vars
    PROVE  TaskComesFirst'
<1>0. /\ wf \in [Handlers -> WorkflowLocals]
      /\ tasks \in [TaskNames -> [state : TaskState, extra : Nat]]
  BY DEF WorkflowInv, WorkflowTypeOK, TasksTypeOK
<1>1. ASSUME NEW e \in RequestCandidates, NEW g \in 0..MaxGeneration, g < MaxGeneration,
             CreateTask(<<e, g + 1>>)
      PROVE  Created(<<e, g + 1>>)'
  <2>1. <<e, g + 1>> \in TaskNames
    BY <1>1, RepoBounds DEF TaskNames
  <2>2. tasks'[<<e, g + 1>>].state # "none"
    BY <1>0, <1>1, <2>1 DEF CreateTask
  <2> QED
    BY <2>1, <2>2 DEF Created
<1>2. ASSUME NEW t, Created(t) PROVE Created(t)'
  BY <1>2, TasksStay DEF Created
<1> SUFFICES ASSUME NEW h \in Handlers, NEW r, r = wf'[h]
             PROVE  /\ r.pc = "persist" => Created(<<r.event, r.expected + 1>>)'
                    /\ r.pc = "recordConfirmation" =>
                         Created(<<r.parsed.target, r.expected + 1>>)'
  BY DEF TaskComesFirst, Created
<1>3. CASE r = wf[h] \/ PageGivesUp
  BY <1>2, <1>3, PageLeaves DEF TaskComesFirst
<1>4. ServingInv(h)
  BY DEF WorkflowInv
<1>5. CASE CreateWakeUp(h)
  <2>1. /\ r.pc = "persist" /\ r.event = wf[h].event /\ r.expected = wf[h].expected
        /\ wf[h].event \in RequestCandidates /\ r.expected \in 0..MaxGeneration
    BY <1>0, <1>4, <1>5, WorkflowConstants, NamesDistinct
       DEF CreateWakeUp, Step, At, ServingInv, WorkflowLocals, RequestCandidates
  <2> QED
    BY <1>1, <1>5, <2>1 DEF CreateWakeUp
<1>6. CASE CreateResume(h)
  <2>1. /\ r.pc = "recordConfirmation" /\ r.parsed = wf[h].parsed
        /\ r.expected = wf[h].expected
        /\ r.parsed.target \in RequestCandidates /\ r.expected \in 0..MaxGeneration
    BY <1>0, <1>4, <1>6 DEF CreateResume, Step, At, ServingInv, WorkflowLocals
  <2> QED
    BY <1>1, <1>6, <2>1 DEF CreateResume
<1> QED
  BY <1>3, <1>5, <1>6, CreationPrecedes

\* A generation becomes current only after its task was created.
LEMMA WakeUpCreatedStep ==
    ASSUME WorkflowInv, TaskComesFirst, WakeUpCreated, [Next]_vars
    PROVE  WakeUpCreated'
<1> SUFFICES ASSUME NEW e \in RequestCandidates,
                    NEW g, g = events'[e].generation, g > 0
             PROVE  tasks'[<<e, g>>].state # "none"
  BY DEF WakeUpCreated
<1>0. /\ e \in Events /\ events \in [Events -> EventDocument]
      /\ \A t : Created(t) => tasks'[t].state # "none"
  BY TasksStay DEF RequestCandidates, WorkflowInv, WorkflowTypeOK, EngineTypeOK, RepoTypeOK,
     Created
<1>1. CASE events'[e].generation = events[e].generation
  <2>1. g \in 1..MaxGeneration
    BY <1>0, <1>1, GenerationRange, RepoBounds
  <2> QED
    BY <1>0, <1>1, <2>1 DEF WakeUpCreated, Created, TaskNames
<1>2. ASSUME NEW h \in Handlers, PersistWakeUp(h), events'[e].generation # events[e].generation
      PROVE  e = wf[h].event /\ g = wf[h].expected + 1
  <2>1. /\ wf[h].event \in Events
        /\ events' = [events EXCEPT ![wf[h].event].generation = wf[h].expected + 1]
    BY <1>2, PersistWrites
  <2>2. CASE e = wf[h].event
    BY <1>0, <2>1, <2>2 DEF EventDocument
  <2>3. CASE e # wf[h].event
    BY <1>0, <1>2, <2>1, <2>3
  <2> QED
    BY <2>2, <2>3
<1>3. ASSUME NEW h \in Handlers, RecordConfirmationStep(h),
             events'[e].generation # events[e].generation
      PROVE  e = wf[h].parsed.target /\ g = wf[h].expected + 1
  <2> DEFINE f == wf[h].parsed.target
             n == wf[h].expected + 1
             c == ConfirmingEvent
  <2>1. PICK v : events' = [events EXCEPT ![f].evidence = v, ![f].generation = n,
                                          ![c].generation = n]
    BY <1>3, RecordWrites
  <2>2. f \in Events /\ f # c /\ e # c
    BY <1>3, RecordWrites DEF RequestCandidates
  <2> HIDE DEF f, n, c
  <2>3. CASE e = f
    <3>1. events'[e] = [events[e] EXCEPT !.evidence = v, !.generation = n]
      BY <1>0, <2>1, <2>2, <2>3
    <3>2. events'[e].generation = n
      BY <1>0, <3>1 DEF EventDocument
    <3> QED
      BY <2>3, <3>2 DEF f, n
  <2>4. CASE e # f
    BY <1>0, <1>3, <2>1, <2>2, <2>4
  <2> QED
    BY <2>3, <2>4 DEF f, n
<1> QED
  BY <1>0, <1>1, <1>2, <1>3, ScheduleWriters
     DEF TaskComesFirst, PersistWakeUp, RecordConfirmationStep, At

\* However deliveries, wake-ups and confirmations interleave and wherever they are cut
\* off, no request waits for a generation whose task does not exist.
THEOREM WakeUpsAreCreated == Spec => []WakeUpCreated
<1>1. Init => TaskComesFirst /\ WakeUpCreated
  BY DEF Init, EngineInit, RepoInit, SeededEvent, Free, TaskComesFirst, WakeUpCreated,
     RequestCandidates
<1>2. WorkflowInv /\ TaskComesFirst /\ WakeUpCreated /\ [Next]_vars
      => TaskComesFirst' /\ WakeUpCreated'
  BY TaskFirstStep, WakeUpCreatedStep
<1> QED
  BY <1>1, <1>2, WorkflowInvariant, PTL DEF Spec

=============================================================================
