---------------------------- MODULE WakeUpProofs ----------------------------
(***************************************************************************)
(* Where events are delivered from one page, each while it is shown as     *)
(* RECEIVED, the agent keeps to the event delivered, and no duplicate of a *)
(* task overlaps an attempt of it, every request has one writer at a time  *)
(* for as long as the page gives up on no delivery.  So what is VERIFIED   *)
(* stays VERIFIED, no wake-up is acknowledged before its request is, and   *)
(* no accepted answer is dropped unless an instance dies.                  *)
(***************************************************************************)
EXTENDS WorkflowProofs

-----------------------------------------------------------------------------
(* How the locals of a request and the queue move.                         *)

\* The part of a delivery in which its own event may still be scheduled.
EarlyPc == {"adk", "applying", "stored", "metadata", "create", "persist"}

\* The part of an attempt that follows its reading of the metadata.
LatePc == {"noop", "checkpoint", "resuming", "verified"}

\* A task is never mistaken for no task.
LEMMA TaskIsSomething == None \notin TaskNames
BY RepoBounds, NamesDistinct DEF TaskNames, RequestCandidates

\* A task is its request and its generation.
LEMMA TaskParts ==
    ASSUME NEW t \in TaskNames
    PROVE  /\ t[1] \in RequestCandidates /\ t[1] \in Events
           /\ t[2] \in 1..MaxGeneration /\ t = <<t[1], t[2]>>
BY DEF TaskNames, RequestCandidates

\* A delivery goes on with its event, and never back to where it may be scheduled.
LEMMA DeliveryMoves ==
    ASSUME WorkflowInv, NEW k \in Handlers, DeliverStep(k)
    PROVE  /\ wf[k].pc \in DeliveryPc
           /\ \/ wf'[k] = Free
              \/ /\ wf'[k].task = wf[k].task /\ wf'[k].event = wf[k].event
                 /\ wf'[k].watched = wf[k].watched
                 /\ wf'[k].pc \in DeliveryPc
                 /\ wf'[k].pc \in EarlyPc => wf[k].pc \in EarlyPc
<1>0. /\ wf \in [Handlers -> WorkflowLocals]
      /\ wf[k] \in WorkflowLocals
  BY DEF WorkflowInv, WorkflowTypeOK
<1>1. ASSUME Respond(k) PROVE wf'[k] = Free
  BY <1>0, <1>1 DEF Respond
<1>2. ASSUME NEW pc, Step(k, pc)
      PROVE  /\ wf'[k].task = wf[k].task /\ wf'[k].event = wf[k].event
             /\ wf'[k].watched = wf[k].watched /\ wf'[k].pc = pc
  BY <1>0, <1>2 DEF Step, WorkflowLocals
<1>3. CASE ValidateIntent(k) \/ ApplyDecision(k) \/ ReadGeneration(k)
  BY <1>0, <1>3 DEF ValidateIntent, ApplyDecision, ReadGeneration, At, WorkflowLocals,
     DeliveryPc, EarlyPc
<1>4. CASE \/ Applied(k) \/ AgentDone(k) \/ CreateWakeUp(k) \/ PersistWakeUp(k)
           \/ CreateResume(k) \/ RecordConfirmationStep(k)
  BY <1>1, <1>2, <1>4 DEF Applied, AgentDone, CreateWakeUp, PersistWakeUp, CreateResume,
     RecordConfirmationStep, At, DeliveryPc, EarlyPc
<1>5. CASE Stored(k)
  BY <1>0, <1>1, <1>2, <1>5 DEF Stored, At, WorkflowLocals, DeliveryPc, EarlyPc
<1>6. CASE ReadTarget(k)
  BY <1>0, <1>1, <1>6 DEF ReadTarget, At, WorkflowLocals, DeliveryPc, EarlyPc
<1> QED
  BY <1>3, <1>4, <1>5, <1>6 DEF DeliverStep

\* An attempt goes on with its task.
LEMMA AttemptMoves ==
    ASSUME WorkflowInv, NEW k \in Handlers, ResumeStep(k)
    PROVE  /\ wf[k].pc \in LatePc \cup {"resume"}
           /\ \/ wf'[k] = Free
              \/ /\ wf'[k].task = wf[k].task /\ wf'[k].event = wf[k].event
                 /\ wf'[k].pc \in LatePc
                 /\ UNCHANGED tasks
<1>0. /\ wf \in [Handlers -> WorkflowLocals]
      /\ wf[k] \in WorkflowLocals
  BY DEF WorkflowInv, WorkflowTypeOK
<1>1. ASSUME Acknowledge(k) \/ Refuse(k) PROVE wf'[k] = Free
  BY <1>0, <1>1 DEF Acknowledge, Refuse, Respond
<1>2. ASSUME NEW pc, Step(k, pc)
      PROVE  /\ wf'[k].task = wf[k].task /\ wf'[k].event = wf[k].event
             /\ wf'[k].pc = pc
  BY <1>0, <1>2 DEF Step, WorkflowLocals
<1>3. CASE ReadMetadata(k)
  BY <1>0, <1>1, <1>3 DEF ReadMetadata, AfterMetadata, At, WorkflowLocals, LatePc
<1>4. CASE VerifyExistingEffect(k) \/ Checkpoint(k) \/ TakeResult(k) \/ Finish(k)
  BY <1>1, <1>2, <1>4 DEF VerifyExistingEffect, Checkpoint, TakeResult, Finish, At, LatePc
<1> QED
  BY <1>3, <1>4 DEF ResumeStep

\* A handler that is free starts with what it was given, and nothing else.
LEMMA Starts ==
    ASSUME WorkflowInv, NEW k \in Handlers
    PROVE  /\ \A e \in Events : Deliver(k, e) =>
                /\ wf[k] = Free /\ wf'[k].pc = "adk"
                /\ wf'[k].event = e /\ wf'[k].task = None /\ wf'[k].watched = JudgeUI
           /\ \A t \in TaskNames : StartResume(k, t) =>
                /\ wf[k] = Free /\ wf'[k].pc = "resume"
                /\ wf'[k].event = t[1] /\ wf'[k].task = t
<1>0. /\ wf \in [Handlers -> WorkflowLocals]
      /\ wf[k] \in WorkflowLocals /\ ServingInv(k)
  BY DEF WorkflowInv, WorkflowTypeOK
<1>1. ASSUME NEW e \in Events, Deliver(k, e)
      PROVE  /\ wf[k] = Free /\ wf'[k].pc = "adk"
             /\ wf'[k].event = e /\ wf'[k].task = None /\ wf'[k].watched = JudgeUI
  <2>1. wf[k] = Free
    BY <1>0, <1>1 DEF Deliver, At, ServingInv
  <2>2. wf'[k] = [wf[k] EXCEPT !.pc = "adk", !.event = e, !.watched = JudgeUI]
    BY <1>0, <1>1 DEF Deliver
  <2> QED
    BY <2>1, <2>2 DEF Free
<1>2. ASSUME NEW t \in TaskNames, StartResume(k, t)
      PROVE  /\ wf[k] = Free /\ wf'[k].pc = "resume"
             /\ wf'[k].event = t[1] /\ wf'[k].task = t
  <2>1. wf[k] = Free
    BY <1>0, <1>2 DEF StartResume, At, ServingInv
  <2>2. wf'[k] = [wf[k] EXCEPT !.pc = "resume", !.task = t, !.event = t[1]]
    BY <1>0, <1>2 DEF StartResume
  <2> QED
    BY <2>1, <2>2 DEF Free
<1> QED
  BY <1>1, <1>2

\* How one step of a handler moves the state of a task: somebody creates it, its
\* attempt starts, or its attempt ends.
LEMMA QueueMoves ==
    ASSUME WorkflowInv, NEW k \in Handlers, Serves(k), NEW t \in TaskNames
    PROVE  \/ tasks'[t].state = tasks[t].state
           \/ tasks[t].state = "none" /\ tasks'[t].state = "queued"
           \/ /\ tasks[t].state = "queued" /\ tasks'[t].state = "running"
              /\ ResumeTask(k, t)
           \/ /\ wf[k].task = t /\ wf'[k] = Free
              /\ \/ tasks'[t].state = "done" /\ ResumeStep(k) /\ Acknowledge(k)
                 \/ tasks[t].state = "running" /\ tasks'[t].state = "queued"
<1>0. /\ tasks \in [TaskNames -> [state : TaskState, extra : Nat]]
      /\ wf \in [Handlers -> WorkflowLocals]
  BY DEF WorkflowInv, WorkflowTypeOK, TasksTypeOK
<1>1. ASSUME NEW n, CreateTask(n)
      PROVE  \/ tasks'[t].state = tasks[t].state
             \/ tasks[t].state = "none" /\ tasks'[t].state = "queued"
  BY <1>0, <1>1 DEF CreateTask
<1>2. ASSUME NEW n, Dispatch(n)
      PROVE  \/ tasks'[t].state = tasks[t].state
             \/ n = t /\ tasks[t].state = "queued" /\ tasks'[t].state = "running"
  BY <1>0, <1>2 DEF Dispatch
<1>3. ASSUME NEW n, Redeliver(n)
      PROVE  tasks'[t].state = tasks[t].state
  BY <1>0, <1>3 DEF Redeliver
<1>4. ASSUME Acknowledge(k)
      PROVE  /\ wf'[k] = Free
             /\ \/ tasks'[t].state = tasks[t].state
                \/ wf[k].task = t /\ tasks'[t].state = "done"
  BY <1>0, <1>4 DEF Acknowledge, Respond, Ack
<1>5. ASSUME Respond(k), Nack(wf[k].task)
      PROVE  /\ wf'[k] = Free
             /\ \/ tasks'[t].state = tasks[t].state
                \/ /\ wf[k].task = t /\ tasks[t].state = "running"
                   /\ tasks'[t].state = "queued"
  BY <1>0, <1>5 DEF Respond, Nack
<1>6. CASE \E n \in TaskNames : ResumeTask(k, n) \/ RedeliveredTask(k, n)
  BY <1>2, <1>3, <1>6 DEF ResumeTask, RedeliveredTask
<1>7. CASE CreateWakeUp(k) \/ CreateResume(k)
  BY <1>1, <1>7 DEF CreateWakeUp, CreateResume
<1>8. CASE CrashHandler(k)
  BY <1>5, <1>8 DEF CrashHandler
<1>9. CASE ResumeStep(k)
  <2>1. Acknowledge(k) \/ Refuse(k) \/ UNCHANGED tasks
    BY <1>9 DEF ResumeStep, ReadMetadata, VerifyExistingEffect, Checkpoint, TakeResult,
       Finish
  <2> QED
    BY <1>4, <1>5, <1>9, <2>1 DEF Refuse
<1>10. CASE \/ \E e \in Events : Deliver(k, e)
            \/ ValidateIntent(k) \/ ApplyDecision(k) \/ Applied(k) \/ AgentDone(k)
            \/ Stored(k) \/ ReadGeneration(k) \/ PersistWakeUp(k) \/ ReadTarget(k)
            \/ RecordConfirmationStep(k) \/ RunEngine(k)
  BY <1>10 DEF Deliver, ValidateIntent, ApplyDecision, Applied, AgentDone, Stored,
     ReadGeneration, PersistWakeUp, ReadTarget, RecordConfirmationStep, RunEngine
<1> QED
  BY <1>6, <1>7, <1>8, <1>9, <1>10 DEF Serves, HandlerStep, DeliverStep

-----------------------------------------------------------------------------
(* One writer per request.                                                 *)

\* A handler that delivers, or works on a task, has what it needs to be told from
\* others.
LEMMA Roles ==
    ASSUME WorkflowInv, ServedApart, NEW h \in Handlers
    PROVE  /\ Delivers(h) <=> wf[h].pc \in DeliveryPc
           /\ wf[h].pc \in LatePc \cup {"resume"} =>
                /\ wf[h].task \in TaskNames /\ wf[h].task # None
                /\ wf[h].event = wf[h].task[1] /\ wf[h].event \in RequestCandidates
           /\ Works(h) => wf[h].pc \in LatePc
           /\ wf[h].pc \in DeliveryPc => wf[h].event \in Events
<1>0. /\ wf[h] \in WorkflowLocals /\ ServingInv(h) /\ DeliveryInv(h)
  BY DEF WorkflowInv, WorkflowTypeOK, ServedApart
<1>1. wf[h].pc \in LatePc \cup {"resume"} =>
        wf[h].task \in TaskNames /\ wf[h].task # None /\ wf[h].event = wf[h].task[1]
  BY <1>0, TaskIsSomething DEF ServingInv, LatePc
<1>2. Delivers(h) <=> wf[h].pc \in DeliveryPc
  BY <1>0, <1>1 DEF Delivers, At, DeliveryInv, DeliveryPc, LatePc, WorkflowLocals, WorkflowPc
<1>3. wf[h].pc \in DeliveryPc => wf[h].event \in Events
  BY <1>0 DEF ServingInv, DeliveryPc
<1> QED
  BY <1>1, <1>2, <1>3, TaskParts DEF Works, At, LatePc

\* Whoever may write the status of a request is alone in that: nothing is scheduled
\* for a request being delivered, and one attempt runs of the current task.
LEMMA WritersApart ==
    ASSUME WorkflowInv, ServedApart, NEW h \in Handlers, NEW k \in Handlers,
           At(h, "applying") \/ Works(h), At(k, "applying") \/ Works(k),
           wf[h].event = wf[k].event
    PROVE  h = k
<1>0. /\ DeliveryInv(h) /\ DeliveryInv(k) /\ AttemptInv(h) /\ AttemptInv(k)
  BY DEF ServedApart
<1>1. ASSUME NEW a \in Handlers, NEW b \in Handlers, At(a, "applying"), Works(b),
             wf[a].event = wf[b].event
      PROVE  FALSE
  <2>1. /\ wf[b].task \in TaskNames /\ wf[b].event = wf[b].task[1]
    BY <1>1, Roles
  <2>2. wf[b].task[2] >= 1 /\ wf[b].event # ConfirmingEvent /\ wf[b].event \in Events
    BY <2>1, TaskParts, RepoBounds DEF RequestCandidates
  <2>3. events[wf[a].event].evidence = None
    BY <1>1, <2>2 DEF ServedApart, DeliveryInv, At
  <2>4. events[wf[b].event].evidence # None
    BY <1>1 DEF ServedApart, AttemptInv
  <2> QED
    BY <1>1, <2>3, <2>4
<1>2. CASE At(h, "applying") /\ At(k, "applying")
  <2>1. Delivers(h) /\ Delivers(k)
    BY <1>2, Roles DEF At, DeliveryPc
  <2> QED
    BY <1>0, <2>1 DEF DeliveryInv
<1>3. CASE Works(h) /\ Works(k)
  <2>1. /\ wf[h].task \in TaskNames /\ wf[k].task \in TaskNames
        /\ wf[h].task # None
        /\ wf[h].task[1] = wf[k].task[1]
    BY <1>3, Roles
  <2>2. wf[h].task[2] = wf[k].task[2] /\ tasks[wf[h].task].state = "running"
    BY <1>0, <1>3 DEF AttemptInv
  <2>3. wf[h].task = wf[k].task
    BY <2>1, <2>2, TaskParts
  <2> QED
    BY <1>0, <2>1, <2>2, <2>3 DEF AttemptInv
<1> QED
  BY <1>1, <1>2, <1>3

\* A step of the engine for a request writes that request's status only, never over
\* VERIFIED, and never takes it back to RECEIVED; the call stays what it was.
LEMMA EngineWritesOwn ==
    ASSUME WorkflowInv, ServedApart, NEW k \in Handlers, RunEngine(k),
           NEW e, e = wf[k].event
    PROVE  /\ \A f \in Events \ {e} : events'[f].status = events[f].status
           /\ events[e].status = "VERIFIED" => events'[e].status = "VERIFIED"
           /\ events'[e].status = "RECEIVED" => events[e].status = "RECEIVED"
           /\ OwnCall(k)'
<1> DEFINE p == proc[k]
<1>0. /\ events \in [Events -> EventDocument]
      /\ proc \in [Handlers -> EngineLocals] /\ p \in EngineLocals
      /\ OwnCall(k) /\ CallDecides(k) /\ CallReads(k)
      /\ wf' = wf /\ wf[k].pc \in {"applying", "resuming"} /\ EngineStep(k)
  <2>1. CallDecides(k) /\ CallReads(k) /\ WorkflowTypeOK
    BY DEF WorkflowInv, EngineInv, CallsInv
  <2>2. OwnCall(k)
    BY DEF ServedApart
  <2>3. /\ events \in [Events -> EventDocument]
        /\ proc \in [Handlers -> EngineLocals]
    BY <2>1 DEF WorkflowTypeOK, EngineTypeOK, RepoTypeOK
  <2> QED
    BY <2>1, <2>2, <2>3 DEF RunEngine
<1>1. InCall(k)
  BY <1>0 DEF EngineStep, ReadExisting, Validate, Lookup, Save, Confirm, Commit,
     CommitRefused, Replay, Conflict, Reread, Readback, Unreadable, Attest, Record,
     Publish, InCall
<1>2. /\ p.event = e /\ e \in Events
      /\ p.pc \notin {"existing", "publish"} => events[e].status # "VERIFIED"
  BY <1>0, <1>1 DEF OwnCall, CallReads
<1>a. ASSUME NEW pc, Goto(k, pc)
      PROVE  proc'[k].pc = pc /\ proc'[k].event = e /\ proc'[k].result = p.result
  BY <1>0, <1>2, <1>a DEF Goto, EngineLocals
<1>b. ASSUME NEW res, Return(k, res)
      PROVE  proc'[k].pc = "returned" /\ proc'[k].result = res
  BY <1>0, <1>b DEF Return, Idle
<1>c. ASSUME NEW st, NEW i, NEW a, SaveRequest(e, st, i, a)
      PROVE  /\ events'[e].status = st
             /\ \A f \in Events \ {e} : events'[f].status = events[f].status
  <2>1. events' = [events EXCEPT ![e] = [events[e] EXCEPT !.status = st, !.intent = i,
                                                          !.applied = a]]
    BY <1>c DEF SaveRequest
  <2> QED
    BY <1>0, <1>2, <2>1 DEF EventDocument
<1>d. ASSUME events' = events,
             \/ /\ proc'[k].pc \notin {"existing", "publish", "returned", "idle"}
                /\ proc'[k].event = e /\ events[e].status # "VERIFIED"
             \/ /\ proc'[k].pc = "publish" /\ proc'[k].event = e
             \/ /\ proc'[k].pc = "returned"
                /\ proc'[k].result = "VERIFIED" => events[e].status = "VERIFIED"
      PROVE  OwnCall(k)'
  BY <1>0, <1>d DEF OwnCall, InCall
<1>3. CASE ReadExisting(k)
  <2>1. events' = events
    BY <1>3 DEF ReadExisting, repoVars
  <2>2. CASE \E res : Return(k, res) /\ (res = "VERIFIED" => events[e].status = "VERIFIED")
    BY <1>b, <1>d, <2>1, <2>2
  <2>3. CASE /\ events[e].status # "VERIFIED"
             /\ proc' = [proc EXCEPT ![k].pc = "validate", ![k].applied = events[e].applied]
    <3>1. proc'[k].pc = "validate" /\ proc'[k].event = e
      BY <1>0, <1>2, <2>3 DEF EngineLocals
    <3> QED
      BY <1>d, <2>1, <2>3, <3>1
  <2> QED
    BY <1>2, <1>3, <2>1, <2>2, <2>3 DEF ReadExisting
<1>4. CASE Validate(k)
  <2>1. /\ events' = events /\ p.pc = "validate"
        /\ proc'[k].pc \in {"lookup", "save"} /\ proc'[k].event = e
    BY <1>0, <1>2, <1>4 DEF Validate, EngineLocals, repoVars
  <2> QED
    BY <1>2, <1>d, <2>1
<1>5. CASE Lookup(k)
  <2>1. /\ events' = events /\ p.pc = "lookup"
        /\ proc'[k].pc = "save" /\ proc'[k].event = e
    BY <1>0, <1>2, <1>5 DEF Lookup, EngineLocals, repoVars
  <2> QED
    BY <1>2, <1>d, <2>1
<1>6. CASE Save(k)
  <2>1. /\ p.pc = "save"
        /\ p.decision.state \in {"REJECTED", "NEEDS_CLARIFICATION",
                                 "WAITING_CONFIRMATION", "READY"}
        /\ SaveRequest(e, p.decision.state, p.intent, p.applied)
    BY <1>0, <1>2, <1>6 DEF Save, CallDecides
  <2>2. /\ events'[e].status = p.decision.state
        /\ \A f \in Events \ {e} : events'[f].status = events[f].status
    BY <1>c, <2>1
  <2>3. \/ proc'[k].pc \in {"confirm", "commit"} /\ proc'[k].event = e
        \/ proc'[k].pc = "returned" /\ proc'[k].result = p.decision.state
    BY <1>6, <1>a, <1>b DEF Save
  <2> QED
    BY <1>0, <1>2, <2>1, <2>2, <2>3 DEF OwnCall, InCall
<1>7. CASE Confirm(k) \/ Publish(k)
  <2>1. events'[e].status = "VERIFIED"
        /\ \A f \in Events \ {e} : events'[f].status = events[f].status
    BY <1>2, <1>7, <1>c DEF Confirm, Publish
  <2>2. proc'[k].pc = "returned"
    BY <1>7, <1>b DEF Confirm, Publish
  <2> QED
    BY <1>0, <2>1, <2>2 DEF OwnCall, InCall
<1>8. CASE Commit(k)
  <2>1. p.pc = "commit" /\ Command(p).request = e /\ ApplyTransfer(Command(p))
    BY <1>2, <1>8 DEF Commit, Command
  <2>2. events' = [events EXCEPT ![e].status  = "APPLIED",
                                 ![e].applied = NewLedgerId(Command(p))]
    BY <2>1 DEF ApplyTransfer
  <2>3. events'[e].status = "APPLIED"
        /\ \A f \in Events \ {e} : events'[f].status = events[f].status
    BY <1>0, <1>2, <2>2 DEF EventDocument
  <2>4. proc'[k].pc = "reread" /\ proc'[k].event = e
    BY <1>0, <1>2, <1>8 DEF Commit, EngineLocals
  <2> QED
    BY <1>0, <1>2, <2>1, <2>3, <2>4 DEF OwnCall, InCall
<1>9. CASE CommitRefused(k)
  <2>1. /\ events' = events /\ p.pc = "commit"
        /\ proc'[k].pc \in {"replay", "conflict"} /\ proc'[k].event = e
    BY <1>0, <1>2, <1>9 DEF CommitRefused, EngineLocals, repoVars
  <2> QED
    BY <1>2, <1>d, <2>1
<1>10. CASE Replay(k)
  <2>1. events' = events /\ Return(k, events[e].status)
    BY <1>2, <1>10 DEF Replay, repoVars
  <2> QED
    BY <1>b, <1>d, <2>1
<1>11. CASE Conflict(k) \/ Unreadable(k)
  <2>1. p.pc \in {"conflict", "unreadable"} /\ events'[e].status = "FAILED"
        /\ \A f \in Events \ {e} : events'[f].status = events[f].status
    BY <1>2, <1>11, <1>c DEF Conflict, Unreadable
  <2>2. proc'[k].pc = "returned" /\ proc'[k].result = "FAILED"
    BY <1>11, <1>b DEF Conflict, Unreadable
  <2> QED
    BY <1>0, <1>2, <2>1, <2>2 DEF OwnCall, InCall
<1>12. CASE Reread(k)
  <2>1. events' = events /\ p.pc = "reread"
    BY <1>12 DEF Reread, repoVars
  <2>2. CASE Return(k, "RAISED")
    BY <1>b, <1>d, <2>1, <2>2
  <2>3. CASE proc' = [proc EXCEPT ![k].pc = "readback", ![k].intent = events[e].intent,
                                  ![k].applied = events[e].applied]
    <3>1. proc'[k].pc = "readback" /\ proc'[k].event = e
      BY <1>0, <1>2, <2>3 DEF EngineLocals
    <3> QED
      BY <1>2, <1>d, <2>1, <3>1
  <2> QED
    BY <1>2, <1>12, <2>2, <2>3 DEF Reread
<1>13. CASE Readback(k)
  <2>1. /\ events' = events /\ p.pc = "readback"
        /\ proc'[k].pc \in {"attest", "unreadable"} /\ proc'[k].event = e
    BY <1>13, <1>a DEF Readback, repoVars
  <2> QED
    BY <1>2, <1>d, <2>1
<1>14. CASE Attest(k)
  <2>1. events' = events /\ p.pc = "attest"
    BY <1>14 DEF Attest, repoVars
  <2>2. CASE Return(k, "RAISED")
    BY <1>b, <1>d, <2>1, <2>2
  <2>3. CASE proc' = [proc EXCEPT ![k].pc = "record", ![k].ledger = events[e].applied]
    <3>1. proc'[k].pc = "record" /\ proc'[k].event = e
      BY <1>0, <1>2, <2>3 DEF EngineLocals
    <3> QED
      BY <1>2, <1>d, <2>1, <3>1
  <2> QED
    BY <1>2, <1>14, <2>2, <2>3 DEF Attest
<1>15. CASE Record(k)
  <2>1. /\ p.pc = "record" /\ SaveVerification(e, p.ledger)
        /\ proc'[k].pc = "publish" /\ proc'[k].event = e
    BY <1>2, <1>15, <1>a DEF Record
  <2>2. \/ events' = events
        \/ events' = [events EXCEPT ![e].status = "VERIFIED", ![e].attested = TRUE]
    BY <2>1 DEF SaveVerification, repoVars
  <2>3. /\ events'[e].status \in {events[e].status, "VERIFIED"}
        /\ \A f \in Events \ {e} : events'[f].status = events[f].status
    BY <1>0, <1>2, <2>2 DEF EventDocument
  <2> QED
    BY <1>0, <1>2, <2>1, <2>3 DEF OwnCall, InCall
<1> QED
  BY <1>0, <1>3, <1>4, <1>5, <1>6, <1>7, <1>8, <1>9, <1>10, <1>11, <1>12, <1>13, <1>14,
     <1>15 DEF EngineStep

\* Outside the engine nothing writes a status.
LEMMA StatusMoves ==
    ASSUME WorkflowInv, ServedApart, NEW k \in Handlers, Serves(k), NEW f \in Events
    PROVE  /\ events'[f].status = events[f].status
              \/ (RunEngine(k) /\ f = wf[k].event)
           /\ events[f].status = "VERIFIED" => events'[f].status = "VERIFIED"
           /\ events'[f].status = "RECEIVED" => events[f].status = "RECEIVED"
<1>0. events \in [Events -> EventDocument]
  BY DEF WorkflowInv, WorkflowTypeOK, EngineTypeOK, RepoTypeOK
<1>1. CASE RunEngine(k)
  BY <1>1, EngineWritesOwn
<1>2. CASE \/ \E e \in Events : Deliver(k, e)
           \/ \E t \in TaskNames : ResumeTask(k, t) \/ RedeliveredTask(k, t)
           \/ ValidateIntent(k) \/ ApplyDecision(k) \/ Applied(k) \/ AgentDone(k)
           \/ Stored(k) \/ ReadGeneration(k) \/ CreateWakeUp(k) \/ ReadTarget(k)
           \/ CreateResume(k) \/ ReadMetadata(k) \/ Checkpoint(k) \/ TakeResult(k)
           \/ CrashHandler(k)
  BY <1>2 DEF Deliver, ResumeTask, RedeliveredTask, StartResume, ValidateIntent,
     ApplyDecision, Applied, AgentDone, Stored, ReadGeneration, CreateWakeUp, ReadTarget,
     CreateResume, ReadMetadata, Checkpoint, TakeResult, CrashHandler, ApplyOther, Call,
     CallVerify, Collect, engineVars, repoVars
<1>3. CASE VerifyExistingEffect(k) \/ Finish(k)
  BY <1>3 DEF VerifyExistingEffect, Finish, RecordNoOp, ConsumeFailureInjection, repoVars
<1>4. CASE PersistWakeUp(k)
  <2>1. \/ events' = events
        \/ \E g : events' = [events EXCEPT ![wf[k].event].generation = g]
    BY <1>4, PersistWrites
  <2>2. CASE events' = events
    BY <2>2
  <2>3. ASSUME NEW g, events' = [events EXCEPT ![wf[k].event].generation = g]
        PROVE  events'[f].status = events[f].status
    <3>1. events'[f] = events[f] \/ events'[f] = [events[f] EXCEPT !.generation = g]
      BY <1>0, <2>3
    <3> QED
      BY <1>0, <3>1 DEF EventDocument
  <2> QED
    BY <2>1, <2>2, <2>3
<1>5. CASE RecordConfirmationStep(k)
  <2> DEFINE t == wf[k].parsed.target
             c == ConfirmingEvent
  <2>1. \/ events' = events
        \/ \E v, g : events' = [events EXCEPT ![t].evidence = v, ![t].generation = g,
                                              ![c].generation = g]
    BY <1>5, RecordWrites
  <2>2. t \in Events /\ c \in Events /\ t # c
    BY <1>5, RecordWrites
  <2> HIDE DEF t, c
  <2>3. CASE events' = events
    BY <2>3
  <2>4. ASSUME NEW v, NEW g, events' = [events EXCEPT ![t].evidence = v, ![t].generation = g,
                                                      ![c].generation = g]
        PROVE  events'[f].status = events[f].status
    <3>1. \/ events'[f] = events[f]
          \/ events'[f] = [events[f] EXCEPT !.evidence = v, !.generation = g]
          \/ events'[f] = [events[f] EXCEPT !.generation = g]
      BY <1>0, <2>2, <2>4
    <3> QED
      BY <1>0, <3>1 DEF EventDocument
  <2> QED
    BY <2>1, <2>3, <2>4
<1> QED
  BY <1>1, <1>2, <1>3, <1>4, <1>5 DEF Serves, HandlerStep, DeliverStep, ResumeStep

\* A request is scheduled by the end of a delivery, by one generation more, while it
\* waits and no confirmation is on record.
LEMMA ScheduleMoves ==
    ASSUME WorkflowInv, ServedApart, [Next]_vars, NEW k \in Handlers, Serves(k),
           NEW e \in RequestCandidates,
           \/ events'[e].evidence # events[e].evidence
           \/ events'[e].generation # events[e].generation
    PROVE  /\ events[e].evidence = None
           /\ events'[e].generation = events[e].generation + 1
           /\ events[e].status = "WAITING_CONFIRMATION"
           /\ Delivers(k) /\ wf'[k] = Free /\ UNCHANGED <<tasks, proc>>
           /\ PersistWakeUp(k) \/ RecordConfirmationStep(k)
<1>0. /\ events \in [Events -> EventDocument] /\ wf \in [Handlers -> WorkflowLocals]
      /\ e \in Events /\ e # ConfirmingEvent
  BY DEF WorkflowInv, WorkflowTypeOK, EngineTypeOK, RepoTypeOK, RequestCandidates
<1>1. PICK h \in Handlers : PersistWakeUp(h) \/ RecordConfirmationStep(h)
  BY <1>0, ScheduleWriters
<1>2. wf[h].pc \in DeliveryPc /\ wf'[h] = Free /\ wf[h] # Free
  <2>1. wf[h].pc \in {"persist", "recordConfirmation"}
    BY <1>1 DEF PersistWakeUp, RecordConfirmationStep, At
  <2>2. wf' = [wf EXCEPT ![h] = Free]
    BY <1>1 DEF PersistWakeUp, RecordConfirmationStep, Respond
  <2>3. wf'[h] = Free /\ Free.pc = "idle"
    BY <1>0, <2>2 DEF Free
  <2> QED
    BY <2>1, <2>3 DEF DeliveryPc
<1>3. h = k
  <2>1. wf'[h] # wf[h]
    BY <1>2
  <2> QED
    BY <2>1, OthersWait
<1>4. Delivers(k) /\ wf'[k] = Free /\ UNCHANGED <<tasks, proc>>
  BY <1>1, <1>2, <1>3, Roles DEF PersistWakeUp, RecordConfirmationStep
<1>5. CASE PersistWakeUp(k)
  <2>1. /\ wf[k].event \in Events \ {ConfirmingEvent} /\ wf[k].pc = "persist"
        /\ ScheduleAccepted(wf[k].event, wf[k].expected)
        /\ events' = [events EXCEPT ![wf[k].event].generation = wf[k].expected + 1]
    BY <1>5, PersistWrites DEF PersistWakeUp, At
  <2>2. e = wf[k].event
    BY <1>0, <2>1
  <2>3. events'[e].generation = events[e].generation + 1
    BY <1>0, <2>1, <2>2 DEF ScheduleAccepted, EventDocument
  <2>4. events[e].evidence = None
    BY <2>1, <2>2 DEF ServedApart, DeliveryInv
  <2> QED
    BY <1>4, <1>5, <2>1, <2>2, <2>3, <2>4 DEF ScheduleAccepted
<1>6. CASE RecordConfirmationStep(k)
  <2> DEFINE t == wf[k].parsed.target
             c == ConfirmingEvent
             g == wf[k].expected
  <2>1. /\ t \in Events /\ c \in Events /\ t # c
        /\ ConfirmationAccepted(c, t, g)
        /\ \E v : events' = [events EXCEPT ![t].evidence = v, ![t].generation = g + 1,
                                           ![c].generation = g + 1]
    BY <1>6, RecordWrites
  <2> HIDE DEF t, c, g
  <2>2. e = t
    BY <1>0, <2>1 DEF c
  <2>3. events'[e].generation = g + 1
    <3>1. PICK v : events' = [events EXCEPT ![t].evidence = v, ![t].generation = g + 1,
                                            ![c].generation = g + 1]
      BY <2>1
    <3>2. events'[e] = [events[e] EXCEPT !.evidence = v, !.generation = g + 1]
      BY <1>0, <2>1, <2>2, <3>1
    <3> QED
      BY <1>0, <3>2 DEF EventDocument
  <2>4. /\ events[e].evidence = None /\ events[e].generation = g
        /\ events[e].status = "WAITING_CONFIRMATION"
    BY <2>1, <2>2 DEF ConfirmationAccepted
  <2> QED
    BY <1>4, <1>6, <2>3, <2>4
<1> QED
  BY <1>1, <1>3, <1>5, <1>6

\* What the step leaves of a request's schedule.
LEMMA ScheduleGrows ==
    ASSUME WorkflowInv, ServedApart, [Next]_vars, NEW k \in Handlers, Serves(k),
           NEW e \in RequestCandidates
    PROVE  /\ events[e].generation \in Nat
           /\ events[e].generation <= events'[e].generation
           /\ events[e].evidence # None =>
                /\ events'[e].evidence = events[e].evidence
                /\ events'[e].generation = events[e].generation
           /\ events'[e].evidence # events[e].evidence =>
                events[e].generation < events'[e].generation
<1>1. events[e].generation \in Nat
  BY DEF WorkflowInv, WorkflowTypeOK, EngineTypeOK, RepoTypeOK, EventDocument,
     RequestCandidates
<1>2. CASE \/ events'[e].evidence # events[e].evidence
           \/ events'[e].generation # events[e].generation
  BY <1>1, <1>2, ScheduleMoves
<1>3. CASE /\ events'[e].evidence = events[e].evidence
           /\ events'[e].generation = events[e].generation
  BY <1>1, <1>3
<1> QED
  BY <1>2, <1>3

-----------------------------------------------------------------------------
(* Each part of the invariant is kept by every step.                       *)

\* The handler that serves is the one that may write.
LEMMA OwnCallStep ==
    ASSUME KeepsToEvent, WorkflowInv, ServedApart,
           NEW k \in Handlers, Serves(k), NEW h \in Handlers
    PROVE  OwnCall(h)'
<1>0. /\ wf \in [Handlers -> WorkflowLocals] /\ proc \in [Handlers -> EngineLocals]
      /\ OwnCall(h)
  BY DEF WorkflowInv, WorkflowTypeOK, EngineTypeOK, ServedApart
<1>1. CASE h = k /\ RunEngine(k)
  BY <1>1, EngineWritesOwn
<1>2. CASE h = k /\ ApplyDecision(k)
  <2>0. Call(h, wf[h].event, wf[h].parsed)
    BY <1>2 DEF ApplyDecision, ApplyOther
  <2>1. proc'[h].pc = "existing" /\ proc'[h].event = wf[h].event
    BY <1>0, <2>0 DEF Call
  <2>2. wf'[h].event = wf[h].event
    BY <1>0, <1>2 DEF ApplyDecision, WorkflowLocals
  <2> QED
    BY <2>1, <2>2 DEF OwnCall, InCall
<1>3. CASE h = k /\ Checkpoint(k)
  <2> DEFINE e == wf[h].event
             m == wf[h].metadata
  <2>1. CASE Acknowledge(k) \/ Refuse(k)
    BY <1>0, <1>3, <2>1 DEF Acknowledge, Refuse, Respond, Free, OwnCall
  <2>2. CASE CutOff(m) /\ CallVerify(k, e) /\ Step(k, "resuming")
    <3>1. wf'[h].event = e /\ events' = events
      BY <1>0, <1>3, <2>2 DEF Step, WorkflowLocals, CallVerify, repoVars
    <3>2. proc'[h].pc = "readback" /\ proc'[h].event = e
      BY <1>0, <1>3, <2>2 DEF CallVerify
    <3>3. events[e].status # "VERIFIED"
      BY <1>3, <2>2 DEF Checkpoint, At, CutOff, ServedApart, AttemptInv
    <3> QED
      BY <3>1, <3>2, <3>3 DEF OwnCall, InCall
  <2>3. CASE /\ Call(k, e, Confirmed(events[e].intent, m.evidence.by))
             /\ Step(k, "resuming")
    <3>1. wf'[h].event = e
      BY <1>0, <1>3, <2>3 DEF Step, WorkflowLocals
    <3>2. proc'[h].pc = "existing" /\ proc'[h].event = e
      BY <1>0, <1>3, <2>3 DEF Call
    <3> QED
      BY <3>1, <3>2 DEF OwnCall, InCall
  <2> QED
    BY <1>3, <2>1, <2>2, <2>3 DEF Checkpoint
<1>4. CASE h = k /\ ~RunEngine(k) /\ ~ApplyDecision(k) /\ ~Checkpoint(k)
  <2>1. wf'[h].pc \notin {"applying", "resuming"}
    <3>1. CASE \/ \E e \in Events : Deliver(k, e)
               \/ \E t \in TaskNames : ResumeTask(k, t) \/ RedeliveredTask(k, t)
      BY <1>4, <3>1, Starts DEF ResumeTask, RedeliveredTask
    <3>2. CASE ValidateIntent(k) \/ ReadGeneration(k)
      BY <1>0, <1>4, <3>2 DEF ValidateIntent, ReadGeneration, At, WorkflowLocals
    <3>3. CASE Stored(k) \/ ReadTarget(k) \/ ReadMetadata(k)
      BY <1>0, <1>4, <3>3 DEF Stored, ReadTarget, ReadMetadata, AfterMetadata, Acknowledge,
         Refuse, Step, Respond, Free, WorkflowLocals
    <3>4. CASE \/ Applied(k) \/ AgentDone(k) \/ CreateWakeUp(k) \/ PersistWakeUp(k)
               \/ CreateResume(k) \/ RecordConfirmationStep(k) \/ VerifyExistingEffect(k)
               \/ TakeResult(k) \/ Finish(k) \/ CrashHandler(k)
      BY <1>0, <1>4, <3>4 DEF Applied, AgentDone, CreateWakeUp, PersistWakeUp,
         CreateResume, RecordConfirmationStep, VerifyExistingEffect, TakeResult, Finish,
         CrashHandler, Acknowledge, Refuse, Step, Respond, Free, WorkflowLocals
    <3> QED
      BY <1>4, <3>1, <3>2, <3>3, <3>4 DEF Serves, HandlerStep, DeliverStep, ResumeStep
  <2> QED
    BY <2>1 DEF OwnCall
<1>5. CASE h # k /\ wf[h].pc \in {"applying", "resuming"}
  <2>1. wf'[h] = wf[h] /\ proc'[h] = proc[h]
    BY <1>5, OthersWait
  <2>2. wf[h].event \in Events
    BY <1>5, Roles DEF DeliveryPc, LatePc, RequestCandidates
  <2>3. ~(RunEngine(k) /\ wf[h].event = wf[k].event)
    BY <1>5, WritersApart DEF RunEngine, At, Works
  <2>4. events'[wf[h].event].status = events[wf[h].event].status
    BY <2>2, <2>3, StatusMoves
  <2> QED
    BY <1>0, <2>1, <2>4 DEF OwnCall, InCall
<1>6. CASE h # k /\ wf[h].pc \notin {"applying", "resuming"}
  BY <1>6, OthersWait DEF OwnCall
<1> QED
  BY <1>1, <1>2, <1>3, <1>4, <1>5, <1>6

\* The page keeps deliveries apart, and offers what nothing is scheduled for.
LEMMA DeliveryStep ==
    ASSUME JudgeUI, WorkflowInv, ServedApart, [Next]_vars,
           NEW k \in Handlers, Serves(k), NEW h \in Handlers
    PROVE  DeliveryInv(h)'
<1>0. \A a \in Handlers : DeliveryInv(a)
  BY DEF ServedApart
<1>1. ASSUME NEW a \in Handlers, wf'[a].pc \in DeliveryPc
      PROVE  /\ wf'[a].task = None /\ wf'[a].watched
             /\ \/ \E e \in Events : a = k /\ Deliver(k, e)
                \/ /\ Delivers(a) /\ wf'[a].event = wf[a].event
                   /\ wf'[a].pc \in EarlyPc => wf[a].pc \in EarlyPc
  <2>1. CASE a # k \/ RunEngine(k)
    <3>1. wf'[a] = wf[a]
      BY <2>1, OthersWait DEF RunEngine
    <3> QED
      BY <1>0, <1>1, <3>1, Roles DEF DeliveryInv
  <2>2. CASE a = k /\ \E e \in Events : Deliver(k, e)
    BY <2>2, Starts
  <2>3. CASE a = k /\ DeliverStep(k)
    BY <1>0, <1>1, <2>3, DeliveryMoves, Roles DEF DeliveryInv, Free, DeliveryPc
  <2>4. wf'[a] # Free
    BY <1>1 DEF Free, DeliveryPc
  <2>5. ~(a = k /\ ResumeStep(k))
    BY <1>1, <2>4, AttemptMoves DEF DeliveryPc, LatePc
  <2>6. ~(a = k /\ \E t \in TaskNames : StartResume(k, t))
    BY <1>1, Starts DEF DeliveryPc
  <2>7. ~(a = k /\ CrashHandler(k))
    BY <2>4 DEF CrashHandler, Respond, WorkflowInv, WorkflowTypeOK
  <2> QED
    BY <2>1, <2>2, <2>3, <2>5, <2>6, <2>7 DEF Serves, HandlerStep, ResumeTask,
       RedeliveredTask
<1>2. WorkflowInv'
  BY WorkflowStep
<1>3. ASSUME NEW a \in Handlers, Delivers(a)'
      PROVE  wf'[a].pc \in DeliveryPc
  <2>1. wf'[a] \in WorkflowLocals /\ ServingInv(a)'
    BY <1>2 DEF WorkflowInv, WorkflowTypeOK
  <2> QED
    BY <1>3, <2>1, TaskIsSomething DEF Delivers, At, ServingInv, DeliveryPc, WorkflowLocals,
       WorkflowPc
<1>4. ASSUME NEW e \in Events, Deliver(k, e)
      PROVE  /\ events[e].status = "RECEIVED"
             /\ \A a \in Handlers : ~Delivers(a)
  BY <1>0, <1>4 DEF Deliver, PageAllows, DeliveryInv
<1>5. ASSUME NEW a \in Handlers, Delivers(h)', Delivers(a)'
      PROVE  a = h
  BY <1>0, <1>1, <1>3, <1>4, <1>5 DEF DeliveryInv
<1>6. ASSUME wf'[h].pc \in EarlyPc, wf'[h].event # ConfirmingEvent
      PROVE  events'[wf'[h].event].generation = 0 /\ events'[wf'[h].event].evidence = None
  <2>1. wf'[h].pc \in DeliveryPc
    BY <1>6 DEF EarlyPc, DeliveryPc
  <2>2. PICK e : e = wf'[h].event
    OBVIOUS
  <2>3. e \in RequestCandidates
    BY <1>2, <1>6, <2>1, <2>2 DEF WorkflowInv, ServingInv, EarlyPc, RequestCandidates
  <2>4. events[e].generation = 0 /\ events[e].evidence = None
    <3>1. CASE Deliver(k, e)
      BY <1>4, <2>3, <3>1 DEF ServedApart, ScheduleInv, RequestCandidates
    <3>2. CASE Delivers(h) /\ e = wf[h].event /\ wf[h].pc \in EarlyPc
      BY <1>0, <1>6, <2>2, <3>2 DEF DeliveryInv, EarlyPc
    <3> QED
      BY <1>1, <1>6, <2>1, <2>2, <3>1, <3>2, Starts
  <2>5. CASE /\ events'[e].evidence = events[e].evidence
             /\ events'[e].generation = events[e].generation
    BY <2>2, <2>4, <2>5
  <2>6. CASE \/ events'[e].evidence # events[e].evidence
             \/ events'[e].generation # events[e].generation
    <3>1. Delivers(k) /\ wf'[k] = Free
      BY <2>3, <2>6, ScheduleMoves
    <3>2. h # k
      BY <1>6, <3>1 DEF Free, EarlyPc
    <3>3. Delivers(h)
      BY <1>1, <2>1, <3>2
    <3> QED
      BY <1>0, <3>1, <3>2, <3>3 DEF DeliveryInv
  <2> QED
    BY <2>5, <2>6
<1>7. Delivers(h)' => wf'[h].watched
  BY <1>1, <1>3
<1> QED
  BY <1>1, <1>5, <1>6, <1>7 DEF DeliveryInv, EarlyPc

\* The queue keeps the attempts of a task apart until it is acknowledged.
LEMMA AttemptsStayApart ==
    ASSUME ~Overlapping, WorkflowInv, ServedApart, [Next]_vars,
           NEW k \in Handlers, Serves(k), NEW h \in Handlers, NEW t, t = wf'[h].task,
           t # None
    PROVE  /\ t \in TaskNames
           /\ tasks'[t].state \in {"running", "done"}
           /\ tasks'[t].state = "running" =>
                \A a \in Handlers : wf'[a].task = t => a = h
<1>0. /\ wf \in [Handlers -> WorkflowLocals]
      /\ tasks \in [TaskNames -> [state : TaskState, extra : Nat]]
      /\ \A a \in Handlers : AttemptInv(a)
  BY DEF WorkflowInv, WorkflowTypeOK, TasksTypeOK, ServedApart
<1>1. WorkflowInv'
  BY WorkflowStep
<1>2. t \in TaskNames
  BY <1>1 DEF WorkflowInv, WorkflowTypeOK, WorkflowLocals, Optional
<1>3. ASSUME NEW a \in Handlers, wf'[a].task = t
      PROVE  \/ wf[a].task = t
             \/ a = k /\ (ResumeTask(k, t) \/ RedeliveredTask(k, t))
  <2>1. CASE a # k \/ RunEngine(k)
    BY <1>3, <2>1, OthersWait DEF RunEngine
  <2>2. CASE a = k /\ DeliverStep(k)
    BY <1>3, <2>2, DeliveryMoves DEF Free
  <2>3. CASE a = k /\ ResumeStep(k)
    BY <1>3, <2>3, AttemptMoves DEF Free
  <2>4. CASE a = k /\ CrashHandler(k)
    BY <1>0, <1>3, <2>4 DEF CrashHandler, Respond, Free
  <2>5. CASE a = k /\ \E e \in Events : Deliver(k, e)
    BY <1>3, <2>5, Starts
  <2>6. CASE a = k /\ \E n \in TaskNames : ResumeTask(k, n) \/ RedeliveredTask(k, n)
    BY <1>3, <2>6, Starts DEF ResumeTask, RedeliveredTask
  <2> QED
    BY <2>1, <2>2, <2>3, <2>4, <2>5, <2>6 DEF Serves, HandlerStep
<1>4. ASSUME NEW a \in Handlers, wf[a].task = t
      PROVE  /\ tasks[t].state \in {"running", "done"}
             /\ tasks[t].state = "running" => \A b \in Handlers : wf[b].task = t => b = a
  BY <1>0, <1>4 DEF AttemptInv
<1>5. ASSUME Redeliver(t) PROVE tasks[t].state = "done" /\ tasks'[t].state = "done"
  BY <1>0, <1>2, <1>5 DEF Redeliver
<1>6. ASSUME Dispatch(t) PROVE tasks[t].state = "queued" /\ tasks'[t].state = "running"
  BY <1>0, <1>2, <1>6 DEF Dispatch
<1>7. CASE ResumeTask(k, t)
  <2>1. Dispatch(t)
    BY <1>7 DEF ResumeTask
  <2>2. \A a \in Handlers : wf[a].task # t
    BY <1>4, <1>6, <2>1
  <2> QED
    BY <1>2, <1>3, <1>6, <2>1, <2>2
<1>8. CASE RedeliveredTask(k, t)
  BY <1>2, <1>5, <1>8 DEF RedeliveredTask
<1>9. CASE wf[h].task = t /\ ~ResumeTask(k, t) /\ ~RedeliveredTask(k, t)
  <2>1. /\ tasks[t].state \in {"running", "done"}
        /\ tasks[t].state = "running" => \A b \in Handlers : wf[b].task = t => b = h
    BY <1>4, <1>9
  <2>2. CASE tasks'[t].state = tasks[t].state
    BY <1>2, <1>3, <1>9, <2>1, <2>2
  <2>3. CASE /\ wf[k].task = t /\ wf'[k] = Free
             /\ \/ tasks'[t].state = "done"
                \/ tasks[t].state = "running" /\ tasks'[t].state = "queued"
    <3>1. h # k
      BY <2>3 DEF Free
    <3>2. tasks[t].state # "running"
      BY <2>1, <2>3, <3>1
    <3> QED
      BY <1>2, <2>3, <3>2
  <2> QED
    BY <1>2, <1>9, <2>1, <2>2, <2>3, QueueMoves
<1> QED
  BY <1>3, <1>7, <1>8, <1>9

\* What the attempt that serves knows after its step.
LEMMA AttemptGoesOn ==
    ASSUME WorkflowInv, ServedApart, [Next]_vars, NEW k \in Handlers,
           ResumeStep(k), wf'[k] # Free, NEW r, r = wf'[k],
           NEW d, d = events[wf[k].event]
    PROVE  /\ UNCHANGED <<tasks, events>>
           /\ r.task[2] <= d.generation
           /\ r.pc \in {"noop", "verified"} => d.status = "VERIFIED"
           /\ Works(k)' =>
                /\ r.task[2] = d.generation /\ d.evidence # None
                /\ tasks[r.task].state = "running"
           /\ r.pc = "checkpoint" =>
                IF r.metadata.evidence # None THEN d.status # "VERIFIED"
                ELSE r.metadata.status # "APPLIED" /\ d.evidence = None
<1> DEFINE t == wf[k].task
           e == wf[k].event
<1>0. /\ wf \in [Handlers -> WorkflowLocals] /\ wf[k] \in WorkflowLocals
      /\ AttemptInv(k) /\ OwnCall(k) /\ wf'[k].task = t
  BY AttemptMoves DEF WorkflowInv, WorkflowTypeOK, ServedApart
<1>1. /\ t \in TaskNames /\ t # None /\ e = t[1] /\ e \in RequestCandidates /\ e \in Events
      /\ t[2] \in 1..MaxGeneration /\ t = <<e, t[2]>>
  BY AttemptMoves, Roles, TaskParts
<1>2. ~Acknowledge(k) /\ ~Refuse(k)
  BY <1>0 DEF Acknowledge, Refuse, Respond
<1>3. CASE ReadMetadata(k)
  <2>1. /\ UNCHANGED <<tasks, events>> /\ t[2] = d.generation
        /\ r = [wf[k] EXCEPT !.pc = AfterMetadata(d),
                             !.metadata = [status |-> d.status, evidence |-> d.evidence]]
    BY <1>0, <1>2, <1>3 DEF ReadMetadata, engineVars, repoVars
  <2>2. /\ r.pc = AfterMetadata(d) /\ r.metadata.status = d.status
        /\ r.metadata.evidence = d.evidence /\ r.task = t
    BY <1>0, <2>1 DEF WorkflowLocals
  <2>3. ScheduleInv(e) /\ d.generation > 0
    BY <1>1, <2>1, RepoBounds DEF ServedApart
  <2>4. d.evidence = None => d.status = "WAITING_CONFIRMATION"
    BY <2>3 DEF ScheduleInv
  <2>5. d.evidence # None /\ d.status # "VERIFIED" => tasks[t].state = "running"
    <3>1. tasks[t].state \in {"running", "done"}
      BY <1>0, <1>1 DEF AttemptInv
    <3>2. d.evidence # None /\ d.status # "VERIFIED" => tasks[t].state # "done"
      <4>1. t = <<e, events[e].generation>>
        BY <1>1, <2>1
      <4>2. /\ events[e].evidence # None /\ events[e].status # "VERIFIED"
            => tasks[<<e, events[e].generation>>].state # "done"
        BY <1>1 DEF ServedApart, WakeUpKept
      <4> QED
        BY <4>1, <4>2
    <3> QED
      BY <3>1, <3>2
  <2>6. /\ r.pc = "noop" => d.status = "VERIFIED"
        /\ r.pc = "checkpoint" => d.status # "VERIFIED"
        /\ r.pc \in {"noop", "checkpoint"}
    BY <2>2 DEF AfterMetadata
  <2>7. d.generation <= d.generation
    BY <1>1, <2>1, RepoBounds
  <2> QED
    BY <2>1, <2>2, <2>4, <2>5, <2>6, <2>7 DEF Works, At
<1>4. CASE Checkpoint(k)
  <2>1. wf[k].pc = "checkpoint" /\ Step(k, "resuming") /\ UNCHANGED <<tasks, events>>
    BY <1>2, <1>4 DEF Checkpoint, At, Call, CallVerify, repoVars
  <2>2. r.pc = "resuming" /\ r.task = t
    BY <1>0, <2>1 DEF Step, WorkflowLocals
  <2>3. wf[k].metadata.evidence # None
    BY <1>0, <1>2, <1>4, <2>1 DEF Checkpoint, CutOff, AttemptInv
  <2>4. Works(k)
    BY <2>1, <2>3 DEF Works, At
  <2> QED
    BY <1>0, <2>1, <2>2, <2>4 DEF AttemptInv
<1>5. CASE TakeResult(k)
  <2>1. /\ wf[k].pc = "resuming" /\ proc[k].pc = "returned" /\ proc[k].result = "VERIFIED"
        /\ Step(k, "verified") /\ UNCHANGED <<tasks, events>>
    BY <1>2, <1>5 DEF TakeResult, At, Collect, repoVars
  <2>2. r.pc = "verified" /\ r.task = t
    BY <1>0, <2>1 DEF Step, WorkflowLocals
  <2>3. d.status = "VERIFIED" /\ t[2] <= d.generation
    BY <1>0, <2>1 DEF OwnCall, AttemptInv
  <2> QED
    BY <2>1, <2>2, <2>3 DEF Works, At
<1>6. ~VerifyExistingEffect(k) /\ ~Finish(k)
  BY <1>2 DEF VerifyExistingEffect, Finish
<1> QED
  BY <1>3, <1>4, <1>5, <1>6 DEF ResumeStep

\* What an attempt knows stays true while another handler moves, or the engine runs
\* for it.
LEMMA AttemptStands ==
    ASSUME WorkflowInv, ServedApart, [Next]_vars, NEW k \in Handlers, Serves(k),
           NEW h \in Handlers, wf'[h] = wf[h], wf[h].pc \in LatePc,
           NEW r, r = wf[h], NEW e, e = r.event
    PROVE  /\ r.task[2] <= events'[e].generation
           /\ r.pc \in {"noop", "verified"} => events'[e].status = "VERIFIED"
           /\ Works(h) =>
                /\ r.task[2] = events'[e].generation /\ events'[e].evidence # None
                /\ tasks'[r.task].state = "running"
           /\ r.pc = "checkpoint" =>
                IF r.metadata.evidence # None THEN events'[e].status # "VERIFIED"
                ELSE /\ r.metadata.status # "APPLIED"
                     /\ events'[e].evidence = None \/ r.task[2] < events'[e].generation
<1>0. /\ AttemptInv(h) /\ e \in RequestCandidates /\ e \in Events
      /\ r.task \in TaskNames /\ r.task # None /\ r.task[2] \in Nat
      /\ wf \in [Handlers -> WorkflowLocals]
      /\ tasks \in [TaskNames -> [state : TaskState, extra : Nat]]
  BY Roles, TaskParts, RepoBounds DEF WorkflowInv, WorkflowTypeOK, TasksTypeOK, ServedApart,
     RequestCandidates
<1>1. /\ events[e].generation \in Nat
      /\ events[e].generation <= events'[e].generation
      /\ events[e].evidence # None =>
           /\ events'[e].evidence = events[e].evidence
           /\ events'[e].generation = events[e].generation
      /\ events'[e].evidence # events[e].evidence =>
           events[e].generation < events'[e].generation
  BY <1>0, ScheduleGrows
<1>2. events'[e].generation \in Nat
  BY <1>0, WorkflowStep DEF WorkflowInv, WorkflowTypeOK, EngineTypeOK, RepoTypeOK,
     EventDocument
<1>3. r.task[2] <= events[e].generation
  BY <1>0 DEF AttemptInv, LatePc
<1>4. r.pc \in {"noop", "verified"} => events'[e].status = "VERIFIED"
  BY <1>0, StatusMoves DEF AttemptInv
<1>5. ASSUME Works(h)
      PROVE  /\ r.task[2] = events'[e].generation /\ events'[e].evidence # None
             /\ tasks'[r.task].state = "running"
  <2>1. /\ r.task[2] = events[e].generation /\ events[e].evidence # None
        /\ tasks[r.task].state = "running"
        /\ \A a \in Handlers : wf[a].task = r.task => a = h
    BY <1>0, <1>5 DEF AttemptInv
  <2>2. ~(wf[k].task = r.task /\ wf'[k] = Free)
    BY <1>0, <2>1 DEF Free
  <2>3. tasks'[r.task].state = "running"
    BY <1>0, <2>1, <2>2, QueueMoves
  <2> QED
    BY <1>1, <2>1, <2>3
<1>6. ASSUME r.pc = "checkpoint", r.metadata.evidence # None
      PROVE  events'[e].status # "VERIFIED"
  <2>1. events[e].status # "VERIFIED" /\ Works(h)
    BY <1>0, <1>6 DEF AttemptInv, Works, At
  <2>2. ~(RunEngine(k) /\ e = wf[k].event)
    <3>1. RunEngine(k) => At(k, "applying") \/ Works(k)
      BY DEF RunEngine, At, Works
    <3>2. RunEngine(k) => h # k
      BY <1>6 DEF RunEngine
    <3> QED
      BY <2>1, <3>1, <3>2, WritersApart
  <2> QED
    BY <1>0, <2>1, <2>2, StatusMoves
<1>7. ASSUME r.pc = "checkpoint", r.metadata.evidence = None
      PROVE  /\ r.metadata.status # "APPLIED"
             /\ events'[e].evidence = None \/ r.task[2] < events'[e].generation
  <2>1. /\ r.metadata.status # "APPLIED"
        /\ events[e].evidence = None \/ r.task[2] < events[e].generation
    BY <1>0, <1>7 DEF AttemptInv
  <2> QED
    BY <1>0, <1>1, <1>2, <1>3, <2>1
<1> QED
  BY <1>0, <1>1, <1>2, <1>3, <1>4, <1>5, <1>6, <1>7

\* Every attempt keeps what it knows.
LEMMA AttemptStep ==
    ASSUME ~Overlapping, WorkflowInv, ServedApart, [Next]_vars,
           NEW k \in Handlers, Serves(k), NEW h \in Handlers
    PROVE  AttemptInv(h)'
<1>0. wf \in [Handlers -> WorkflowLocals]
  BY DEF WorkflowInv, WorkflowTypeOK
<1>1. wf'[h].task # None =>
        /\ tasks'[wf'[h].task].state \in {"running", "done"}
        /\ tasks'[wf'[h].task].state = "running" =>
             \A a \in Handlers : wf'[a].task = wf'[h].task => a = h
  BY AttemptsStayApart
<1>2. CASE wf'[h].pc \notin LatePc
  BY <1>1, <1>2 DEF AttemptInv, LatePc, Works, At
<1>3. CASE wf'[h].pc \in LatePc /\ wf'[h] = wf[h]
  BY <1>1, <1>3, AttemptStands DEF AttemptInv, Works, At
<1>4. CASE wf'[h].pc \in LatePc /\ h = k /\ ResumeStep(k)
  <2>1. wf'[k] # Free /\ wf'[k].event = wf[k].event
    BY <1>4, AttemptMoves DEF Free, LatePc
  <2> QED
    BY <1>1, <1>4, <2>1, AttemptGoesOn DEF AttemptInv, Works, At
<1>5. wf'[h].pc \in LatePc => wf'[h] = wf[h] \/ (h = k /\ ResumeStep(k))
  <2>1. CASE h # k \/ RunEngine(k)
    BY <2>1, OthersWait DEF RunEngine
  <2>2. CASE h = k /\ DeliverStep(k)
    BY <2>2, DeliveryMoves DEF DeliveryPc, LatePc, Free
  <2>3. CASE h = k /\ CrashHandler(k)
    BY <1>0, <2>3 DEF CrashHandler, Respond, LatePc, Free
  <2>4. CASE /\ h = k
             /\ \/ \E e \in Events : Deliver(k, e)
                \/ \E n \in TaskNames : ResumeTask(k, n) \/ RedeliveredTask(k, n)
    BY <2>4, Starts DEF ResumeTask, RedeliveredTask, LatePc
  <2> QED
    BY <2>1, <2>2, <2>3, <2>4 DEF Serves, HandlerStep
<1> QED
  BY <1>2, <1>3, <1>4, <1>5

\* A task is acknowledged when it is stale, when its request waits for a confirmation,
\* or when its request is verified.
LEMMA AcknowledgedWhenDue ==
    ASSUME WorkflowInv, ServedApart, NEW k \in Handlers, ResumeStep(k), Acknowledge(k),
           NEW t, t = wf[k].task, tasks[t].state # "done", NEW d, d = events[t[1]]
    PROVE  /\ events' = events
           /\ t[2] <= d.generation
           /\ d.status = "VERIFIED" \/ d.evidence = None \/ t[2] < d.generation
<1>0. /\ wf \in [Handlers -> WorkflowLocals] /\ wf[k] \in WorkflowLocals
      /\ tasks \in [TaskNames -> [state : TaskState, extra : Nat]]
      /\ AttemptInv(k) /\ wf'[k] = Free
  BY DEF WorkflowInv, WorkflowTypeOK, TasksTypeOK, ServedApart, Acknowledge, Respond
<1>1. t \in TaskNames /\ t # None /\ wf[k].event = t[1] /\ t[1] \in Events /\ t[2] \in Nat
  BY AttemptMoves, Roles, TaskParts, RepoBounds
<1>2. d.generation \in Nat
  BY <1>1 DEF WorkflowInv, WorkflowTypeOK, EngineTypeOK, RepoTypeOK, EventDocument
<1>3. ASSUME NEW pc \in LatePc PROVE ~Step(k, pc)
  BY <1>0, <1>3 DEF Step, WorkflowLocals, Free, LatePc
<1>4. ~Refuse(k)
  <2>1. tasks'[t].state = "done"
    BY <1>0, <1>1 DEF Acknowledge, Ack
  <2>2. Refuse(k) => tasks'[t].state # "done"
    BY <1>0, <1>1 DEF Refuse, Nack
  <2> QED
    BY <2>1, <2>2
<1>5. CASE ReadMetadata(k)
  <2>1. \A m : wf' # [wf EXCEPT ![k].pc = AfterMetadata(d), ![k].metadata = m]
    BY <1>0 DEF WorkflowLocals, AfterMetadata, Free
  <2> QED
    BY <1>1, <1>2, <1>4, <1>5, <2>1 DEF ReadMetadata, StaleGeneration, engineVars, repoVars
<1>6. CASE VerifyExistingEffect(k)
  <2>1. d.status = "VERIFIED" /\ t[2] <= d.generation
    BY <1>0, <1>1, <1>6 DEF VerifyExistingEffect, At, AttemptInv
  <2>2. events' = events
    BY <1>6 DEF VerifyExistingEffect, RecordNoOp, repoVars
  <2> QED
    BY <2>1, <2>2
<1>7. CASE Checkpoint(k)
  <2>1. /\ UNCHANGED engineVars /\ wf[k].pc = "checkpoint"
        /\ wf[k].metadata.evidence = None
    BY <1>3, <1>4, <1>7 DEF Checkpoint, At, LatePc
  <2>2. /\ t[2] <= d.generation
        /\ d.evidence = None \/ t[2] < d.generation
    BY <1>0, <1>1, <2>1 DEF AttemptInv
  <2> QED
    BY <2>1, <2>2 DEF engineVars, repoVars
<1>8. ~TakeResult(k)
  BY <1>3, <1>4 DEF TakeResult, LatePc
<1>9. CASE Finish(k)
  <2>1. d.status = "VERIFIED" /\ t[2] <= d.generation
    BY <1>0, <1>1, <1>9 DEF Finish, At, AttemptInv
  <2>2. events' = events
    BY <1>9 DEF Finish, ConsumeFailureInjection, repoVars
  <2> QED
    BY <2>1, <2>2
<1> QED
  BY <1>5, <1>6, <1>7, <1>8, <1>9 DEF ResumeStep

\* How a task came to be acknowledged.
LEMMA DoneTasks ==
    ASSUME WorkflowInv, ServedApart, [Next]_vars, NEW k \in Handlers, Serves(k),
           NEW t \in TaskNames, tasks'[t].state = "done"
    PROVE  \/ tasks[t].state = "done"
           \/ /\ events' = events /\ t[2] <= events[t[1]].generation
              /\ \/ events[t[1]].status = "VERIFIED" \/ events[t[1]].evidence = None
                 \/ t[2] < events[t[1]].generation
<1>1. CASE wf[k].task = t /\ ResumeStep(k) /\ Acknowledge(k)
  BY <1>1, AcknowledgedWhenDue
<1> QED
  BY <1>1, QueueMoves

\* The schedule of every request stays as stated.
LEMMA ScheduleStep ==
    ASSUME WorkflowInv, ServedApart, [Next]_vars, NEW k \in Handlers, Serves(k),
           NEW e \in RequestCandidates
    PROVE  ScheduleInv(e)'
<1>0. e \in Events /\ ScheduleInv(e)
  BY DEF RequestCandidates, ServedApart
<1>a. /\ events[e].generation \in Nat
      /\ events[e].generation <= events'[e].generation
  BY ScheduleGrows
<1>b. events'[e].generation \in Nat
  BY <1>0, WorkflowStep DEF WorkflowInv, WorkflowTypeOK, EngineTypeOK, RepoTypeOK,
     EventDocument
<1>1. ASSUME NEW g \in 1..MaxGeneration, tasks'[<<e, g>>].state = "done"
      PROVE  g <= events'[e].generation
  <2>1. <<e, g>> \in TaskNames
    BY DEF TaskNames
  <2>2. tasks[<<e, g>>].state = "done" \/ g <= events[e].generation
    BY <1>1, <2>1, DoneTasks
  <2>3. g <= events[e].generation
    BY <1>0, <2>2 DEF ScheduleInv
  <2> QED
    BY <1>a, <1>b, <2>3, RepoBounds
<1>2. CASE \/ events'[e].evidence # events[e].evidence
           \/ events'[e].generation # events[e].generation
  <2>1. /\ events[e].status = "WAITING_CONFIRMATION"
        /\ PersistWakeUp(k) \/ RecordConfirmationStep(k)
    BY <1>2, ScheduleMoves
  <2>2. ~RunEngine(k)
    BY <2>1 DEF RunEngine, PersistWakeUp, RecordConfirmationStep, At
  <2>3. events'[e].status = "WAITING_CONFIRMATION"
    BY <1>0, <2>1, <2>2, StatusMoves
  <2>4. events'[e].generation # 0
    BY <1>2, <1>a, ScheduleMoves
  <2> QED
    BY <1>1, <2>3, <2>4 DEF ScheduleInv
<1>3. CASE /\ events'[e].evidence = events[e].evidence
           /\ events'[e].generation = events[e].generation
  <2>1. /\ events'[e].status = "RECEIVED" => events'[e].generation = 0
        /\ events'[e].generation = 0 => events'[e].evidence = None
    BY <1>0, <1>3, StatusMoves DEF ScheduleInv
  <2>2. ASSUME events[e].generation > 0, events[e].evidence = None
        PROVE  events'[e].status = "WAITING_CONFIRMATION"
    <3>1. ~(RunEngine(k) /\ e = wf[k].event)
      <4>1. CASE At(k, "applying")
        BY <1>0, <2>2, <4>1 DEF ServedApart, DeliveryInv, At, RequestCandidates
      <4>2. CASE At(k, "resuming")
        BY <2>2, <4>2 DEF ServedApart, AttemptInv, Works
      <4> QED
        BY <4>1, <4>2 DEF RunEngine, At
    <3> QED
      BY <1>0, <2>2, <3>1, StatusMoves DEF ScheduleInv
  <2> QED
    BY <1>1, <1>3, <2>1, <2>2 DEF ScheduleInv
<1> QED
  BY <1>2, <1>3

\* No step acknowledges the wake-up of a request that still needs it.
LEMMA WakeUpStep ==
    ASSUME WorkflowInv, ServedApart, [Next]_vars, NEW k \in Handlers, Serves(k)
    PROVE  WakeUpKept'
<1> SUFFICES ASSUME NEW e \in RequestCandidates, NEW g, g = events'[e].generation,
                    events'[e].evidence # None, events'[e].status # "VERIFIED",
                    tasks'[<<e, g>>].state = "done"
             PROVE  FALSE
  BY DEF WakeUpKept
<1>0. e \in Events /\ events[e].status # "VERIFIED"
  BY StatusMoves DEF RequestCandidates
<1>1. /\ events[e].generation \in 0..MaxGeneration /\ g \in 0..MaxGeneration
  <2>1. GenerationsBounded' /\ g \in Nat
    BY <1>0, WorkflowStep DEF WorkflowInv, WorkflowTypeOK, EngineTypeOK, RepoTypeOK,
       EventDocument
  <2> QED
    BY <1>0, <2>1, GenerationRange, RepoBounds DEF GenerationsBounded
<1>2. CASE events'[e].evidence # events[e].evidence
  <2>1. /\ g = events[e].generation + 1 /\ UNCHANGED tasks
    BY <1>2, ScheduleMoves
  <2>2. g \in 1..MaxGeneration
    BY <1>1, <2>1, RepoBounds
  <2>3. g <= events[e].generation
    BY <2>1, <2>2 DEF ServedApart, ScheduleInv
  <2> QED
    BY <1>1, <2>1, <2>3, RepoBounds
<1>3. CASE events'[e].evidence = events[e].evidence
  <2>1. g = events[e].generation /\ events[e].evidence # None
    BY <1>3, ScheduleGrows
  <2>2. tasks[<<e, g>>].state # "done"
    BY <1>0, <2>1 DEF ServedApart, WakeUpKept
  <2>3. <<e, g>> \in TaskNames
    <3>1. g # 0
      BY <2>1 DEF ServedApart, ScheduleInv
    <3> QED
      BY <1>1, <3>1, RepoBounds DEF TaskNames
  <2>4. \/ events[e].status = "VERIFIED" \/ events[e].evidence = None
        \/ g < events[e].generation
    BY <2>2, <2>3, DoneTasks
  <2> QED
    BY <1>0, <1>1, <2>1, <2>4, RepoBounds
<1> QED
  BY <1>2, <1>3

-----------------------------------------------------------------------------
(* What follows for the service.                                           *)

\* Served apart once, served apart until the page gives up.
LEMMA ServedApartStep ==
    ASSUME JudgeUI, KeepsToEvent, ~Overlapping, WorkflowInv, ServedApart, [Next]_vars,
           ~PageGivesUp
    PROVE  ServedApart'
<1>1. CASE \E k \in Handlers : Serves(k)
  BY <1>1, OwnCallStep, DeliveryStep, AttemptStep, ScheduleStep, WakeUpStep DEF ServedApart
<1>2. CASE ArmFault \/ UNCHANGED vars
  <2>1. UNCHANGED <<events, tasks, wf, proc>>
    BY <1>2 DEF ArmFault, ConfigureFailureInjection, vars, engineVars, repoVars
  <2> QED
    BY <2>1 DEF ServedApart, OwnCall, DeliveryInv, AttemptInv, ScheduleInv, WakeUpKept,
       Delivers, Works, At, InCall
<1> QED
  BY <1>1, <1>2 DEF Next, Serves

\* The page never takes back that it gave up.
LEMMA ReloadsGrow ==
    ASSUME WorkflowInv, [Next]_vars, reloads' = 0
    PROVE  reloads = 0 /\ ~PageGivesUp
<1>1. reloads \in Nat
  BY WorkflowConstants DEF WorkflowInv, WorkflowTypeOK
<1>2. ~PageGivesUp
  BY <1>1 DEF PageGivesUp
<1>3. reloads' = reloads
  <2>1. ASSUME NEW h \in Handlers, DeliverStep(h) \/ ResumeStep(h)
        PROVE  reloads' = reloads
    BY <2>1 DEF DeliverStep, ResumeStep, ValidateIntent, ApplyDecision, Applied, AgentDone,
       Stored, ReadGeneration, CreateWakeUp, PersistWakeUp, ReadTarget, CreateResume,
       RecordConfirmationStep, ReadMetadata, VerifyExistingEffect, Checkpoint, TakeResult,
       Finish, budgets
  <2>2. ASSUME NEW h \in Handlers,
               \/ \E e \in Events : Deliver(h, e)
               \/ \E t \in TaskNames : ResumeTask(h, t) \/ RedeliveredTask(h, t)
               \/ RunEngine(h) \/ CrashHandler(h)
        PROVE  reloads' = reloads
    BY <2>2 DEF Deliver, ResumeTask, RedeliveredTask, StartResume, RunEngine, CrashHandler,
       budgets
  <2>3. CASE ArmFault \/ UNCHANGED vars
    BY <2>3 DEF ArmFault, vars, budgets
  <2> QED
    BY <1>2, <2>1, <2>2, <2>3 DEF Next, HandlerStep
<1> QED
  BY <1>2, <1>3

\* A run starts with nothing delivered, scheduled or created.
LEMMA ServedApartStart == Init => ServedApart
<1> SUFFICES ASSUME Init PROVE ServedApart
  OBVIOUS
<1>1. /\ wf = [h \in Handlers |-> Free]
      /\ events = [e \in Events |-> SeededEvent]
      /\ tasks = [t \in TaskNames |-> [state |-> "none", extra |-> 0]]
  BY DEF Init, EngineInit, RepoInit, TasksInit
<1>2. ASSUME NEW h \in Handlers PROVE OwnCall(h) /\ DeliveryInv(h) /\ AttemptInv(h)
  BY <1>1 DEF OwnCall, DeliveryInv, AttemptInv, Delivers, Works, At, Free, DeliveryPc
<1>3. ASSUME NEW e \in RequestCandidates
      PROVE  ScheduleInv(e) /\ events[e].evidence = None
  BY <1>1, <1>3 DEF ScheduleInv, SeededEvent, RequestCandidates, TaskNames
<1> QED
  BY <1>2, <1>3 DEF ServedApart, WakeUpKept

\* Whatever is cut off or delivered again: writers of one request never meet.
LEMMA AlwaysServedApart ==
    ASSUME JudgeUI, KeepsToEvent, ~Overlapping
    PROVE  Spec => [](reloads = 0 => ServedApart)
<1> DEFINE Apart == reloads = 0 => ServedApart
<1>1. WorkflowInv /\ Apart /\ [Next]_vars => Apart'
  BY ServedApartStep, ReloadsGrow
<1>2. Init => Apart
  BY ServedApartStart
<1> QED
  BY <1>1, <1>2, WorkflowInvariant, PTL DEF Spec

\* When events are delivered from one page, the agent keeps to the event delivered and
\* no duplicate overlaps an attempt, no wake-up is lost: the task of the generation a
\* request waits for exists and, until the page gives up on a delivery, is not
\* acknowledged while the confirmed request is unfinished, whatever crashes, is
\* retried or comes back late.
THEOREM WakeUpsAreKept ==
    ASSUME JudgeUI, KeepsToEvent, ~Overlapping
    PROVE  Spec => []WakeUpPending
<1>1. (reloads = 0 => ServedApart) => (reloads = 0 => WakeUpKept)
  BY DEF ServedApart
<1>2. WakeUpCreated /\ (reloads = 0 => WakeUpKept) => WakeUpPending
  BY DEF WakeUpPending
<1> QED
  BY <1>1, <1>2, AlwaysServedApart, WakeUpsAreCreated, PTL

\* Nor, until the page gives up on a delivery, does any later delivery, retry,
\* duplicate or crash take VERIFIED back, although the engine saves statuses blindly.
THEOREM VerifiedStaysVerified ==
    ASSUME JudgeUI, KeepsToEvent, ~Overlapping
    PROVE  Spec => VerifiedIsFinal
<1> DEFINE Final == \A e \in Events :
                       events[e].status = "VERIFIED" /\ reloads = 0
                          => events'[e].status = "VERIFIED"
<1>1. WorkflowInv /\ (reloads = 0 => ServedApart) /\ [Next]_vars => [Final]_vars
  <2> SUFFICES ASSUME WorkflowInv, reloads = 0 => ServedApart, Next,
                      NEW e \in Events, events[e].status = "VERIFIED", reloads = 0
               PROVE  events'[e].status = "VERIFIED"
    OBVIOUS
  <2>1. CASE \E k \in Handlers : Serves(k)
    BY <2>1, StatusMoves
  <2>2. CASE ArmFault \/ PageGivesUp
    BY <2>2 DEF ArmFault, PageGivesUp, ConfigureFailureInjection, engineVars, repoVars
  <2> QED
    BY <2>1, <2>2 DEF Next, Serves
<1>2. Spec => [][Final]_vars
  BY <1>1, AlwaysServedApart, WorkflowInvariant, PTL DEF Spec
<1> QED
  BY <1>2 DEF VerifiedIsFinal

-----------------------------------------------------------------------------
(* An acceptance is carried to the record.                                 *)

\* The request that is confirmed is not the one that confirms.
LEMMA AnswersApart ==
    ASSUME AnswersAwaiting
    PROVE  /\ AwaitingEvent \in RequestCandidates
           /\ AwaitingEvent \in Events /\ ConfirmingEvent \in Events
           /\ AwaitingEvent # ConfirmingEvent
           /\ \A i \in Parses[ConfirmingEvent] :
                /\ i # None /\ None \notin {i.target, i.by}
                /\ i.type = "CONFIRM_REQUEST" /\ i.target = AwaitingEvent
<1>1. AwaitingEvent \in Events /\ ConfirmingEvent \in Events /\ None \notin Events
  BY NamesDistinct DEF AnswersAwaiting
<1>2. AwaitingEvent # ConfirmingEvent
  BY <1>1, WorkflowConstants
<1>3. ASSUME NEW i \in Parses[ConfirmingEvent]
      PROVE  /\ i # None /\ None \notin {i.target, i.by}
             /\ i.type = "CONFIRM_REQUEST" /\ i.target = AwaitingEvent
  <2>1. i \in StructuredIntent /\ None \notin StructuredIntent
    BY <1>1, <1>3, ParsesWellFormed
  <2>2. i.type = "CONFIRM_REQUEST" /\ i.target = AwaitingEvent
    BY <1>3 DEF AnswersAwaiting
  <2>3. ValidShape(i)
    BY <2>1 DEF StructuredIntent
  <2> QED
    BY <2>1, <2>2, <2>3 DEF ValidShape
<1> QED
  BY <1>1, <1>2, <1>3 DEF RequestCandidates

\* While the confirmation is delivered, nobody else touches the request it answers
\* before it is confirmed.
LEMMA AwaitingStands ==
    ASSUME AnswersAwaiting, WorkflowInv, ServedApart, [Next]_vars,
           NEW h \in Handlers, wf[h].pc \in DeliveryPc, wf[h].event = ConfirmingEvent,
           NEW k \in Handlers, Serves(k),
           events'[AwaitingEvent].evidence = None
    PROVE  /\ events[AwaitingEvent].evidence = None
           /\ events'[AwaitingEvent].status = events[AwaitingEvent].status
           /\ k # h =>
                events'[AwaitingEvent].generation = events[AwaitingEvent].generation
<1>0. /\ AwaitingEvent \in RequestCandidates /\ AwaitingEvent \in Events
      /\ AwaitingEvent # ConfirmingEvent
  BY AnswersApart
<1>1. Delivers(h) /\ (Delivers(k) => k = h)
  BY Roles DEF ServedApart, DeliveryInv
<1>2. events[AwaitingEvent].evidence = None
  BY <1>0, ScheduleGrows
<1>3. ASSUME RunEngine(k), wf[k].event = AwaitingEvent PROVE FALSE
  <2>1. wf[k].pc \in {"applying", "resuming"}
    BY <1>3 DEF RunEngine
  <2>2. CASE wf[k].pc = "applying"
    <3>1. Delivers(k)
      BY <2>2, Roles DEF DeliveryPc
    <3> QED
      BY <1>0, <1>1, <1>3, <3>1
  <2>3. CASE wf[k].pc = "resuming"
    <3>1. events[wf[k].event].evidence # None
      BY <2>3 DEF ServedApart, AttemptInv, Works, At
    <3> QED
      BY <1>2, <1>3, <3>1
  <2> QED
    BY <2>1, <2>2, <2>3
<1>4. events'[AwaitingEvent].status = events[AwaitingEvent].status
  BY <1>0, <1>3, StatusMoves
<1>5. k # h => events'[AwaitingEvent].generation = events[AwaitingEvent].generation
  BY <1>0, <1>1, ScheduleMoves
<1> QED
  BY <1>2, <1>4, <1>5

\* A step of the engine for the confirmation.
LEMMA ConfirmingEngine ==
    ASSUME AnswersAwaiting, WorkflowInv, ServedApart, [Next]_vars,
           NEW h \in Handlers, ConfirmingCall(h), RunEngine(h), Serves(h),
           At(h, "applying"), wf[h].event = ConfirmingEvent
    PROVE  /\ ConfirmingCall(h)'
           /\ events'[ConfirmingEvent].status = "VERIFIED" =>
                \/ events[ConfirmingEvent].status = "VERIFIED"
                \/ events[AwaitingEvent].evidence # None
                \/ events[AwaitingEvent].status = "WAITING_CONFIRMATION"
<1> DEFINE p == proc[h]
           C == ConfirmingEvent
           A == AwaitingEvent
           Open == \/ events[A].evidence # None
                   \/ events[A].status = "WAITING_CONFIRMATION"
<1>0. /\ proc \in [Handlers -> EngineLocals] /\ p \in EngineLocals
      /\ events \in [Events -> EventDocument]
      /\ wf' = wf /\ EngineStep(h)
      /\ A \in RequestCandidates /\ A \in Events /\ C \in Events /\ A # C
  BY AnswersApart DEF WorkflowInv, WorkflowTypeOK, EngineTypeOK, RepoTypeOK, RunEngine
<1>1. InCall(h)
  BY <1>0 DEF EngineStep, ReadExisting, Validate, Lookup, Save, Confirm, Commit,
     CommitRefused, Replay, Conflict, Reread, Readback, Unreadable, Attest, Record,
     Publish, InCall
<1>2. /\ wf[h].parsed # None
      /\ p.pc \in {"existing", "validate", "lookup", "save", "confirm"}
      /\ p.event = C /\ p.intent \in Parses[C]
      /\ p.intent.type = "CONFIRM_REQUEST" /\ p.intent.target = A
      /\ p.pc = "confirm" \/ (p.pc = "save" /\ p.decision.state = "READY") => Open
  BY <1>1, AnswersApart DEF ConfirmingCall, InCall
<1>3. Open => Open'
  <2>1. events'[A].status = events[A].status
    BY <1>0, EngineWritesOwn
  <2>2. events[A].evidence # None => events'[A].evidence # None
    BY <1>0, ScheduleGrows
  <2> QED
    BY <2>1, <2>2
<1>4. ASSUME /\ proc'[h].pc \in {"existing", "validate", "lookup", "save", "confirm",
                                 "returned"}
             /\ IF proc'[h].pc = "returned" THEN proc'[h].result # "RAISED"
                ELSE proc'[h].event = C /\ proc'[h].intent \in Parses[C]
             /\ \/ proc'[h].pc = "confirm"
                \/ proc'[h].pc = "save" /\ proc'[h].decision.state = "READY"
                => Open
      PROVE  ConfirmingCall(h)'
  BY <1>0, <1>2, <1>3, <1>4 DEF ConfirmingCall
<1>5. ASSUME NEW res, Return(h, res), res # "RAISED" PROVE ConfirmingCall(h)'
  <2>1. proc'[h].pc = "returned" /\ proc'[h].result = res
    BY <1>0, <1>5 DEF Return, Idle
  <2> QED
    BY <1>4, <1>5, <2>1
<1>6. CASE ReadExisting(h)
  <2>1. events' = events
    BY <1>6 DEF ReadExisting, repoVars
  <2>2. CASE Return(h, "REJECTED") \/ Return(h, "VERIFIED")
    BY <1>5, <2>1, <2>2
  <2>3. CASE proc' = [proc EXCEPT ![h].pc = "validate", ![h].applied = events[p.event].applied]
    <3>1. /\ proc'[h].pc = "validate" /\ proc'[h].event = p.event
          /\ proc'[h].intent = p.intent
      BY <1>0, <2>3 DEF EngineLocals
    <3> QED
      BY <1>2, <1>4, <2>1, <3>1
  <2> QED
    BY <1>6, <2>2, <2>3 DEF ReadExisting
<1>7. CASE Validate(h)
  <2>1. events' = events /\ p.pc = "validate"
    BY <1>7 DEF Validate, repoVars
  <2> DEFINE s == RunDecision(p.intent, expired')
             ready == s = "READY" /\ p.intent.type = "TRANSFER_SHIFT"
             d == [state    |-> s,
                   schedule |-> IF ready THEN scheduleVersion ELSE None,
                   version  |-> IF ready THEN shifts[p.intent.shift].version ELSE None,
                   head     |-> IF ready THEN shifts[p.intent.shift].head ELSE None]
  <2>2. proc' = [proc EXCEPT
           ![h].pc = IF NeedsLookup(p.intent, s) THEN "lookup" ELSE "save",
           ![h].decision = d]
    BY <1>7 DEF Validate
  <2>a. d.state = s
    OBVIOUS
  <2> HIDE DEF d, s
  <2>3. /\ proc'[h].pc = IF NeedsLookup(p.intent, s) THEN "lookup" ELSE "save"
        /\ proc'[h].decision = d /\ proc'[h].event = p.event /\ proc'[h].intent = p.intent
    BY <1>0, <2>2 DEF EngineLocals
  <2>4. NeedsLookup(p.intent, s) <=> s = "READY"
    BY <1>2 DEF NeedsLookup
  <2> QED
    BY <1>2, <1>4, <2>1, <2>a, <2>3, <2>4
<1>8. CASE Lookup(h)
  <2>1. events' = events /\ p.pc = "lookup"
    BY <1>8 DEF Lookup, repoVars
  <2>2. /\ proc'[h].pc = "save" /\ proc'[h].event = p.event /\ proc'[h].intent = p.intent
    BY <1>0, <1>8 DEF Lookup, EngineLocals
  <2>3. CASE LookupHolds(p.intent, p.decision.head)
    <3>1. events[A].status = "WAITING_CONFIRMATION"
      BY <1>2, <2>3 DEF LookupHolds, ConfirmationHolds
    <3> QED
      BY <1>2, <1>4, <2>1, <2>2, <3>1
  <2>4. CASE ~LookupHolds(p.intent, p.decision.head)
    <3>1. p.decision \in Decision
      BY <2>1 DEF WorkflowInv, EngineInv, CallsInv, CallDecides
    <3>2. proc'[h].decision = [p.decision EXCEPT !.state = "REJECTED"]
      BY <1>0, <1>8, <2>4 DEF Lookup, EngineLocals
    <3>3. proc'[h].decision.state = "REJECTED"
      BY <3>1, <3>2 DEF Decision
    <3> QED
      BY <1>2, <1>4, <2>1, <2>2, <3>3
  <2> QED
    BY <2>3, <2>4
<1>9. CASE Save(h)
  <2>1. /\ p.pc = "save" /\ SaveRequest(C, p.decision.state, p.intent, p.applied)
        /\ p.decision.state \in {"REJECTED", "NEEDS_CLARIFICATION",
                                 "WAITING_CONFIRMATION", "READY"}
    BY <1>2, <1>9 DEF Save, WorkflowInv, EngineInv, CallsInv, CallDecides
  <2>2. events'[C].status # "VERIFIED"
    <3>1. events' = [events EXCEPT ![C] = [events[C] EXCEPT
                       !.status = p.decision.state, !.intent = p.intent,
                       !.applied = p.applied]]
      BY <2>1 DEF SaveRequest
    <3>2. events'[C].status = p.decision.state
      BY <1>0, <3>1 DEF EventDocument
    <3> QED
      BY <2>1, <3>2
  <2>3. CASE p.decision.state # "READY"
    <3>1. Return(h, p.decision.state)
      BY <1>9, <2>3 DEF Save
    <3> QED
      BY <1>5, <2>1, <2>2, <3>1
  <2>4. CASE p.decision.state = "READY"
    <3>1. Goto(h, "confirm")
      BY <1>2, <1>9, <2>4 DEF Save
    <3>2. /\ proc'[h].pc = "confirm" /\ proc'[h].event = p.event
          /\ proc'[h].intent = p.intent
      BY <1>0, <3>1 DEF Goto, EngineLocals
    <3> QED
      BY <1>2, <1>4, <2>1, <2>2, <2>4, <3>2
  <2> QED
    BY <2>3, <2>4
<1>10. CASE Confirm(h)
  <2>1. p.pc = "confirm" /\ Return(h, "VERIFIED")
    BY <1>10 DEF Confirm
  <2> QED
    BY <1>2, <1>5, <2>1
<1> QED
  BY <1>0, <1>2, <1>6, <1>7, <1>8, <1>9, <1>10 DEF EngineStep, Commit, CommitRefused,
     Replay, Conflict, Reread, Readback, Unreadable, Attest, Record, Publish

\* A delivery goes from call to call only through the tool that applies.
LEMMA ApplyingMoves ==
    ASSUME WorkflowInv, NEW h \in Handlers, Serves(h), wf'[h].pc = "applying"
    PROVE  RunEngine(h) \/ ApplyDecision(h)
<1>0. wf \in [Handlers -> WorkflowLocals] /\ wf[h] \in WorkflowLocals
  BY DEF WorkflowInv, WorkflowTypeOK
<1>1. ASSUME NEW pc, Step(h, pc) PROVE wf'[h].pc = pc
  BY <1>0, <1>1 DEF Step, WorkflowLocals
<1>2. Free.pc = "idle"
  BY DEF Free
<1>3. ASSUME Respond(h) PROVE wf'[h].pc = "idle"
  BY <1>0, <1>2, <1>3 DEF Respond
<1>4. ~(\E e \in Events : Deliver(h, e))
  BY Starts
<1>5. ~(\E t \in TaskNames : ResumeTask(h, t) \/ RedeliveredTask(h, t))
  BY Starts DEF ResumeTask, RedeliveredTask
<1>6. ~ResumeStep(h)
  BY <1>2, AttemptMoves DEF LatePc
<1>7. ~CrashHandler(h)
  BY <1>3 DEF CrashHandler
<1>8. ~(ValidateIntent(h) \/ ReadGeneration(h) \/ Stored(h) \/ ReadTarget(h))
  BY <1>0, <1>1, <1>3 DEF ValidateIntent, ReadGeneration, Stored, ReadTarget, At,
     WorkflowLocals
<1>9. ~(\/ Applied(h) \/ AgentDone(h) \/ CreateWakeUp(h) \/ PersistWakeUp(h)
        \/ CreateResume(h) \/ RecordConfirmationStep(h))
  BY <1>1, <1>3 DEF Applied, AgentDone, CreateWakeUp, PersistWakeUp, CreateResume,
     RecordConfirmationStep
<1> QED
  BY <1>4, <1>5, <1>6, <1>7, <1>8, <1>9 DEF Serves, HandlerStep, DeliverStep

\* Nor does anything done meanwhile make the engine fail on a confirmation.
LEMMA ConfirmingCallStep ==
    ASSUME KeepsToEvent, AnswersAwaiting, WorkflowInv, ServedApart, [Next]_vars,
           NEW k \in Handlers, Serves(k), NEW h \in Handlers, ConfirmingCall(h)
    PROVE  ConfirmingCall(h)'
<1>0. /\ wf \in [Handlers -> WorkflowLocals] /\ wf[h] \in WorkflowLocals
      /\ proc \in [Handlers -> EngineLocals]
      /\ AwaitingEvent \in RequestCandidates
  BY AnswersApart DEF WorkflowInv, WorkflowTypeOK, EngineTypeOK
<1> SUFFICES ASSUME wf'[h].pc = "applying", wf'[h].event = ConfirmingEvent
             PROVE  ConfirmingCall(h)'
  BY DEF ConfirmingCall, At
<1>1. CASE k # h
  <2>1. wf'[h] = wf[h] /\ proc'[h] = proc[h]
    BY <1>1, OthersWait
  <2>2. events'[AwaitingEvent].evidence = None =>
          /\ events[AwaitingEvent].evidence = None
          /\ events'[AwaitingEvent].status = events[AwaitingEvent].status
    BY <2>1, AwaitingStands DEF DeliveryPc
  <2> QED
    BY <2>1, <2>2 DEF ConfirmingCall, At
<1>2. CASE k = h /\ RunEngine(h)
  BY <1>2, ConfirmingEngine DEF RunEngine, At
<1>3. CASE k = h /\ ApplyDecision(h)
  <2>1. /\ wf[h].parsed # None /\ wf[h].pc = "adk"
        /\ Call(h, wf[h].event, wf[h].parsed)
    BY <1>3 DEF ApplyDecision, ApplyOther, Parsed, At
  <2>2. wf'[h].parsed = wf[h].parsed /\ wf'[h].event = wf[h].event
    BY <1>0, <1>3 DEF ApplyDecision, WorkflowLocals
  <2>3. wf[h].parsed \in Parses[ConfirmingEvent]
    BY <2>1, <2>2 DEF WorkflowInv, ServingInv, Optional
  <2>4. /\ proc'[h].pc = "existing" /\ proc'[h].event = ConfirmingEvent
        /\ proc'[h].intent = wf[h].parsed
    BY <1>0, <2>1, <2>2 DEF Call, Idle
  <2> QED
    BY <2>1, <2>2, <2>3, <2>4 DEF ConfirmingCall
<1> QED
  BY <1>1, <1>2, <1>3, ApplyingMoves

\* Before it is answered, a delivery that will record the confirmation goes on to.
LEMMA CarriesOn ==
    ASSUME KeepsToEvent, AnswersAwaiting, WorkflowInv, ServedApart, [Next]_vars,
           NEW h \in Handlers, Carries(h), ConfirmingCall(h), Serves(h), ~CrashHandler(h),
           events[ConfirmingEvent].status = "VERIFIED",
           events[AwaitingEvent].status = "WAITING_CONFIRMATION",
           events[AwaitingEvent].evidence = None,
           events'[AwaitingEvent].evidence = None
    PROVE  Carries(h)'
<1> DEFINE r == wf[h]
           C == ConfirmingEvent
           A == AwaitingEvent
<1>0. /\ wf \in [Handlers -> WorkflowLocals] /\ r \in WorkflowLocals
      /\ events \in [Events -> EventDocument]
      /\ A \in RequestCandidates /\ A \in Events /\ C \in Events /\ A # C
  BY AnswersApart DEF WorkflowInv, WorkflowTypeOK, EngineTypeOK, RepoTypeOK
<1>1. /\ r.pc \in {"adk", "applying", "stored", "target", "createNow", "recordConfirmation"}
      /\ r.event = C /\ r.parsed \in Parses[C]
      /\ r.pc \in {"createNow", "recordConfirmation"} => r.expected = events[A].generation
      /\ r.parsed # None /\ None \notin {r.parsed.target, r.parsed.by} /\ r.parsed.target = A
  BY AnswersApart DEF Carries
<1>2. ASSUME NEW pc, Step(h, pc), r.pc \notin {"createNow", "recordConfirmation"},
             pc \in {"adk", "applying", "stored", "target"}
      PROVE  Carries(h)'
  BY <1>0, <1>1, <1>2 DEF Step, WorkflowLocals, Carries
<1>3. RunEngine(h) \/ DeliverStep(h)
  <2>1. ~(\E e \in Events : Deliver(h, e))
    BY <1>1, Starts DEF Free
  <2>2. ~(\E t \in TaskNames : ResumeTask(h, t) \/ RedeliveredTask(h, t))
    BY <1>1, Starts DEF ResumeTask, RedeliveredTask, Free
  <2>3. ~ResumeStep(h)
    BY <1>1, AttemptMoves DEF LatePc
  <2> QED
    BY <2>1, <2>2, <2>3 DEF Serves, HandlerStep
<1>4. ASSUME ~PersistWakeUp(h), ~RecordConfirmationStep(h)
      PROVE  events'[A].generation = events[A].generation
  BY <1>0, <1>4, ScheduleMoves
<1>5. CASE RunEngine(h)
  <2>1. wf' = wf /\ r.pc = "applying"
    BY <1>1, <1>5 DEF RunEngine
  <2> QED
    BY <1>1, <2>1 DEF Carries
<1>6. CASE ValidateIntent(h)
  <2>1. PICK i \in Parses[C] : wf' = [wf EXCEPT ![h].parsed = i]
    BY <1>1, <1>6 DEF ValidateIntent
  <2> QED
    BY <1>0, <1>1, <1>6, <2>1 DEF ValidateIntent, At, WorkflowLocals, Carries
<1>7. CASE ApplyDecision(h)
  BY <1>0, <1>1, <1>7 DEF ApplyDecision, At, WorkflowLocals, Carries
<1>8. CASE Applied(h)
  <2>1. r.pc = "applying" /\ proc[h].pc = "returned" /\ proc[h].result # "RAISED"
    BY <1>1, <1>8 DEF Applied, Collect, At, ConfirmingCall
  <2> QED
    BY <1>2, <1>8, <2>1 DEF Applied
<1>9. CASE AgentDone(h)
  BY <1>2, <1>9 DEF AgentDone, At
<1>10. CASE Stored(h)
  <2>1. ConfirmationIntent(h) = r.parsed /\ r.pc = "stored"
    BY <1>1, <1>10 DEF ConfirmationIntent, Stored, At
  <2>2. wf' = [wf EXCEPT ![h].pc = "target", ![h].parsed = r.parsed]
    BY <1>0, <1>1, <1>10, <2>1 DEF Stored
  <2> QED
    BY <1>0, <1>1, <2>2 DEF WorkflowLocals, Carries
<1>11. CASE ReadTarget(h)
  <2>1. events' = events
    BY <1>11 DEF ReadTarget, engineVars, repoVars
  <2>2. wf' = [wf EXCEPT ![h].pc = "createNow", ![h].expected = events[A].generation]
    BY <1>1, <1>11 DEF ReadTarget, GenerationOfTarget
  <2> QED
    BY <1>0, <1>1, <2>1, <2>2 DEF WorkflowLocals, Carries
<1>12. CASE CreateResume(h)
  <2>1. events' = events /\ r.pc = "createNow" /\ Step(h, "recordConfirmation")
    BY <1>12 DEF CreateResume, At, engineVars, repoVars
  <2> QED
    BY <1>0, <1>1, <2>1 DEF Step, WorkflowLocals, Carries
<1>13. CASE RecordConfirmationStep(h)
  <2>1. r.pc = "recordConfirmation"
    BY <1>13 DEF RecordConfirmationStep, At
  <2>2. ConfirmationAccepted(C, A, r.expected)
    BY <1>0, <1>1, <2>1 DEF ConfirmationAccepted, ConfirmationRaises
  <2>3. /\ RecordConfirmation(C, A, r.parsed.by, r.expected)
    BY <1>1, <1>13 DEF RecordConfirmationStep
  <2>4. events' = [events EXCEPT ![A].evidence   = [source |-> C, by |-> r.parsed.by],
                                 ![A].generation = r.expected + 1,
                                 ![C].generation = r.expected + 1]
    BY <2>2, <2>3 DEF RecordConfirmation
  <2>5. events'[A].evidence = [source |-> C, by |-> r.parsed.by]
    BY <1>0, <2>4 DEF EventDocument
  <2>6. r.parsed.by \in Workers
    BY <2>1 DEF WorkflowInv, ServingInv
  <2> QED
    BY <1>0, <2>5, <2>6, NamesDistinct
<1>14. CASE ReadGeneration(h) \/ CreateWakeUp(h) \/ PersistWakeUp(h)
  BY <1>1, <1>14 DEF ReadGeneration, CreateWakeUp, PersistWakeUp, At
<1> QED
  BY <1>3, <1>5, <1>6, <1>7, <1>8, <1>9, <1>10, <1>11, <1>12, <1>13, <1>14 DEF DeliverStep

\* Whatever is done meanwhile, somebody still carries an acceptance.
LEMMA AcceptanceCarriedStep ==
    ASSUME KeepsToEvent, AnswersAwaiting, WorkflowInv, ServedApart, [Next]_vars,
           NEW k \in Handlers, Serves(k), ~CrashHandler(k),
           \A h \in Handlers : ConfirmingCall(h), AcceptanceCarried
    PROVE  AcceptanceCarried'
<1> DEFINE C == ConfirmingEvent
           A == AwaitingEvent
<1>0. /\ wf \in [Handlers -> WorkflowLocals]
      /\ A \in RequestCandidates /\ A \in Events /\ C \in Events /\ A # C
      /\ C \notin RequestCandidates
  BY AnswersApart DEF WorkflowInv, WorkflowTypeOK, RequestCandidates
<1> SUFFICES ASSUME events'[C].status = "VERIFIED", events'[A].evidence = None
             PROVE  /\ events'[A].status = "WAITING_CONFIRMATION"
                    /\ \E h \in Handlers : Carries(h)'
  BY DEF AcceptanceCarried
<1>1. CASE events[C].status = "VERIFIED"
  <2>1. events[A].evidence = None
    BY <1>0, ScheduleGrows
  <2>2. PICK h \in Handlers : Carries(h)
    BY <1>1, <2>1 DEF AcceptanceCarried
  <2>3. wf[h].pc \in DeliveryPc /\ wf[h].event = C
    BY <2>2 DEF Carries, DeliveryPc
  <2>4. /\ events[A].status = "WAITING_CONFIRMATION"
        /\ events'[A].status = "WAITING_CONFIRMATION"
        /\ k # h => events'[A].generation = events[A].generation
    BY <1>1, <2>1, <2>3, AwaitingStands DEF AcceptanceCarried
  <2>5. CASE k # h
    BY <2>2, <2>4, <2>5, OthersWait DEF Carries
  <2>6. CASE k = h
    BY <1>1, <2>1, <2>2, <2>4, <2>6, CarriesOn
  <2> QED
    BY <2>4, <2>5, <2>6
<1>2. CASE events[C].status # "VERIFIED"
  <2>1. RunEngine(k) /\ wf[k].event = C
    BY <1>0, <1>2, StatusMoves
  <2>2. wf[k].pc \in {"applying", "resuming"} /\ wf' = wf
    BY <2>1 DEF RunEngine
  <2>3. wf[k].pc = "applying"
    BY <1>0, <2>1, <2>2, Roles DEF LatePc
  <2>4. /\ wf[k].pc \in DeliveryPc /\ At(k, "applying")
        /\ wf[k].parsed # None /\ wf[k].parsed \in Parses[C]
    BY <2>1, <2>3 DEF DeliveryPc, At, ConfirmingCall, WorkflowInv, ServingInv, Optional
  <2>5. events[A].evidence = None /\ events'[A].status = events[A].status
    BY <2>1, <2>4, AwaitingStands
  <2>6. events[A].status = "WAITING_CONFIRMATION"
    BY <1>2, <2>1, <2>4, <2>5, ConfirmingEngine
  <2> QED
    BY <2>1, <2>2, <2>3, <2>4, <2>5, <2>6 DEF Carries
<1> QED
  BY <1>1, <1>2

\* A death is not forgotten.
LEMMA CrashesGrow ==
    ASSUME WorkflowInv, [Next]_vars, crashes' = 0
    PROVE  crashes = 0 /\ \A k \in Handlers : ~CrashHandler(k)
<1>1. crashes \in Nat
  BY WorkflowConstants DEF WorkflowInv, WorkflowTypeOK
<1>2. ASSUME NEW k \in Handlers PROVE ~CrashHandler(k)
  BY <1>1 DEF CrashHandler
<1>3. crashes' = crashes
  <2>1. ASSUME NEW h \in Handlers, DeliverStep(h) \/ ResumeStep(h)
        PROVE  crashes' = crashes
    BY <2>1 DEF DeliverStep, ResumeStep, ValidateIntent, ApplyDecision, Applied, AgentDone,
       Stored, ReadGeneration, CreateWakeUp, PersistWakeUp, ReadTarget, CreateResume,
       RecordConfirmationStep, ReadMetadata, VerifyExistingEffect, Checkpoint, TakeResult,
       Finish, budgets
  <2>2. ASSUME NEW h \in Handlers,
               \/ \E e \in Events : Deliver(h, e)
               \/ \E t \in TaskNames : ResumeTask(h, t) \/ RedeliveredTask(h, t)
               \/ RunEngine(h)
        PROVE  crashes' = crashes
    BY <2>2 DEF Deliver, ResumeTask, RedeliveredTask, StartResume, RunEngine, budgets
  <2>3. CASE ArmFault \/ PageGivesUp \/ UNCHANGED vars
    BY <2>3 DEF ArmFault, PageGivesUp, vars, budgets
  <2> QED
    BY <1>2, <2>1, <2>2, <2>3 DEF Next, HandlerStep
<1> QED
  BY <1>2, <1>3

\* Together they stand, as long as the page has not given up on a delivery.
LEMMA CarriedInvStep ==
    ASSUME KeepsToEvent, AnswersAwaiting, WorkflowInv, ServedApart, CarriedInv,
           [Next]_vars, ~PageGivesUp
    PROVE  CarriedInv'
<1>1. CASE \E k \in Handlers : Serves(k)
  <2>1. PICK k \in Handlers : Serves(k)
    BY <1>1
  <2>2. ASSUME NEW h \in Handlers PROVE ConfirmingCall(h)'
    BY <2>1, ConfirmingCallStep DEF CarriedInv
  <2>3. crashes' = 0 => AcceptanceCarried'
    BY <2>1, CrashesGrow, AcceptanceCarriedStep DEF CarriedInv
  <2> QED
    BY <2>2, <2>3 DEF CarriedInv
<1>2. CASE ArmFault \/ UNCHANGED vars
  <2>1. UNCHANGED <<events, wf, proc, crashes>>
    BY <1>2 DEF ArmFault, ConfigureFailureInjection, vars, engineVars, repoVars, budgets
  <2> QED
    BY <2>1 DEF CarriedInv, ConfirmingCall, AcceptanceCarried, Carries, At
<1> QED
  BY <1>1, <1>2 DEF Next, Serves

\* A run starts with nothing delivered or confirmed.
LEMMA CarriedInvStart == AnswersAwaiting /\ Init => CarriedInv
<1> SUFFICES ASSUME AnswersAwaiting, Init PROVE CarriedInv
  OBVIOUS
<1>1. /\ wf = [h \in Handlers |-> Free]
      /\ events = [e \in Events |-> SeededEvent]
      /\ ConfirmingEvent \in Events
  BY AnswersApart DEF Init, EngineInit, RepoInit
<1> QED
  BY <1>1 DEF CarriedInv, ConfirmingCall, AcceptanceCarried, At, Free, SeededEvent

\* When events are delivered from one page, the agent keeps to the event delivered, no
\* duplicate overlaps an attempt and every reading of the confirming message answers
\* the awaiting request, no accepted answer is dropped: until an instance dies or the
\* page gives up on a delivery, an acceptance is on record or carried there by a
\* delivery, whatever tasks and stale reads come between acceptance and record.
THEOREM AcceptancesAreRecorded ==
    ASSUME JudgeUI, KeepsToEvent, ~Overlapping, AnswersAwaiting
    PROVE  Spec => [](reloads = 0 => AcceptedIsRecorded)
<1> DEFINE Carried == reloads = 0 => CarriedInv
           Recorded == reloads = 0 => AcceptedIsRecorded
<1>1. WorkflowInv /\ (reloads = 0 => ServedApart) /\ Carried /\ [Next]_vars => Carried'
  BY CarriedInvStep, ReloadsGrow
<1>2. Init => Carried
  BY CarriedInvStart
<1>3. ASSUME WorkflowInv, reloads = 0 => ServedApart, Carried, reloads = 0
      PROVE  AcceptedIsRecorded
  <2>0. crashes = 0 \/ crashes > 0
    BY <1>3, WorkflowConstants DEF WorkflowInv, WorkflowTypeOK
  <2> SUFFICES ASSUME events[ConfirmingEvent].status = "VERIFIED", crashes = 0,
                      events[AwaitingEvent].evidence = None
               PROVE  \E h \in Handlers : Delivers(h) /\ wf[h].event = ConfirmingEvent
    BY <2>0 DEF AcceptedIsRecorded
  <2>1. PICK h \in Handlers : Carries(h)
    BY <1>3 DEF CarriedInv, AcceptanceCarried
  <2>2. wf[h].pc \in DeliveryPc /\ wf[h].event = ConfirmingEvent
    BY <2>1 DEF Carries, DeliveryPc
  <2> QED
    BY <1>3, <2>2, Roles
<1> QED
  BY <1>1, <1>2, <1>3, AlwaysServedApart, WorkflowInvariant, PTL DEF Spec

=============================================================================
