--------------------------- MODULE CloudWorkflow ---------------------------
(***************************************************************************)
(* The service: delivery of source events through the agent and the        *)
(* engine, scheduling of resume tasks, recording of confirmations and the  *)
(* task endpoint (cloud_workflow.py, agent.py, web.py), over the engine,   *)
(* the Firestore repository and the Cloud Tasks queue.  A handler is one   *)
(* request being served; it has the locals of the workflow and, while the  *)
(* engine runs for it, those of the engine.                                *)
(***************************************************************************)
EXTENDS Engine

CONSTANTS
    MaxDuplicates, Overlapping,  \* the queue, see CloudTasks
    MaxRepeats,        \* deliveries of events that were delivered before, and
                       \* applications of events other than the one delivered
    MaxApplies,        \* calls of apply_decision in one agent run
    MaxCrashes,        \* requests cut off while they are served
    JudgeUI,           \* events are delivered from one page of judge_ui.html
    MaxReloads,        \* times that page gives up on a delivery in progress,
                       \* which counts as a repeat and as a crash too
    KeepsToEvent       \* the agent calls its tools for the delivered event only

\* Only requests a candidate context offers are ever resumed.
TaskNames == RequestCandidates \X (1..MaxGeneration)

ASSUME WorkflowConstants ==
    /\ MaxDuplicates \in Nat
    /\ Overlapping \in BOOLEAN
    /\ MaxRepeats \in Nat
    /\ MaxApplies \in Nat
    /\ MaxCrashes \in Nat
    /\ {JudgeUI, KeepsToEvent} \subseteq BOOLEAN
    /\ MaxReloads \in Nat
    /\ AwaitingEvent = ConfirmingEvent => AwaitingEvent = None

VARIABLES
    tasks,       \* the queue
    wf,          \* locals of the workflow code of each handler
    delivered,   \* events delivered at least once
    repeats,     \* repeated deliveries so far
    crashes,     \* crashes so far
    reloads      \* times the page gave up so far

INSTANCE CloudTasks

budgets == <<delivered, repeats, crashes, reloads>>
vars == <<engineVars, tasks, wf, budgets>>

WorkflowPc ==
    {"idle",
     "adk", "applying", "stored", "metadata", "create", "persist",
     "target", "createNow", "recordConfirmation",
     "resume", "noop", "checkpoint", "resuming", "verified"}

\* What resume keeps of the event document it read first.
Metadata == [status : RequestState, evidence : Optional(Evidence)]

WorkflowLocals ==
    [pc       : WorkflowPc,
     event    : Optional(Events),      \* delivered, or target of the task
     task     : Optional(TaskNames),
     watched  : BOOLEAN,               \* the page waits for the answer
     parsed   : Optional(Readings),    \* what the agent run parsed of event
     applies  : 0..MaxApplies,
     expected : Optional(0..MaxGeneration),
     metadata : Optional(Metadata)]

WorkflowTypeOK ==
    /\ EngineTypeOK
    /\ TasksTypeOK
    /\ wf \in [Handlers -> WorkflowLocals]
    /\ delivered \subseteq Events
    /\ repeats \in 0..MaxRepeats
    /\ crashes \in 0..MaxCrashes
    /\ reloads \in 0..MaxReloads

Free ==
    [pc |-> "idle", event |-> None, task |-> None, watched |-> FALSE,
     parsed |-> None, applies |-> 0, expected |-> None, metadata |-> None]

Init ==
    /\ EngineInit
    /\ TasksInit
    /\ wf = [h \in Handlers |-> Free]
    /\ delivered = {}
    /\ repeats = 0
    /\ crashes = 0
    /\ reloads = 0

At(h, pc) == wf[h].pc = pc

Step(h, pc) == wf' = [wf EXCEPT ![h].pc = pc]

\* The request is answered and the handler free again.
Respond(h) == wf' = [wf EXCEPT ![h] = Free]

\* The answer of the task endpoint ends the attempt.
Acknowledge(h) == Respond(h) /\ Ack(wf[h].task)
Refuse(h) == Respond(h) /\ Nack(wf[h].task)

-----------------------------------------------------------------------------
(* deliver: the agent run.  The model is told to call its four tools in    *)
(* order and for the event of the message; nothing but the tools           *)
(* themselves makes it do so, and they take any event of the run.  Reading *)
(* tools change nothing and are left out.                                  *)

\* The page delivers one event at a time, of a run whose reset has been answered,
\* and only while it shows the event RECEIVED; the route itself takes any event at
\* any time.  The mutant has no busy flag.
PageAllowsWhileBusy(e) == events[e].status = "RECEIVED"

PageAllows(e) ==
    /\ events[e].status = "RECEIVED"
    /\ ReliabilityProof => fault # "OFF"
    /\ \A h \in Handlers : ~wf[h].watched

Deliver(h, e) ==
    /\ At(h, "idle")
    /\ JudgeUI => PageAllows(e)
    /\ e \in delivered => repeats + reloads < MaxRepeats
    /\ wf' = [wf EXCEPT ![h].pc = "adk", ![h].event = e, ![h].watched = JudgeUI]
    /\ delivered' = delivered \cup {e}
    /\ repeats' = IF e \in delivered THEN repeats + 1 ELSE repeats
    /\ UNCHANGED <<engineVars, tasks, crashes, reloads>>

\* The page is loaded again, or a fetch of its fails, while the service goes on:
\* the busy flag is the page's own, and it is cleared.
PageGivesUp ==
    /\ repeats + crashes + reloads < MaxReloads
    /\ \E h \in Handlers : wf[h].watched /\ wf' = [wf EXCEPT ![h].watched = FALSE]
    /\ reloads' = reloads + 1
    /\ UNCHANGED <<engineVars, tasks, delivered, repeats, crashes>>

\* validate_intent: parse and preview, without mutation.  It keeps the reading in
\* runtime.parsed and writes nothing else; after the agent run only that of the
\* delivered event is looked at.
ValidateIntent(h) ==
    /\ At(h, "adk")
    /\ \E i \in Parses[wf[h].event] : wf' = [wf EXCEPT ![h].parsed = i]
    /\ UNCHANGED <<engineVars, tasks, budgets>>

\* The mutant does not look for a parsed intent.
ParsedOrNot(h) == At(h, "adk")

Parsed(h) == wf[h].parsed # None

\* The language model passes the event_id: it may as well have parsed another
\* event of the run, in any way that event can be read, and apply that.
ApplyOther(h) ==
    /\ ~KeepsToEvent
    /\ repeats + reloads < MaxRepeats /\ repeats' = repeats + 1
    /\ \E e \in Events \ {wf[h].event} : \E i \in Parses[e] : Call(h, e, i)

\* apply_decision on a parsed intent; without one the tool answers FAILED and
\* does nothing.
ApplyDecision(h) ==
    /\ At(h, "adk")
    /\ wf[h].applies < MaxApplies
    /\ \/ Parsed(h) /\ Call(h, wf[h].event, wf[h].parsed) /\ UNCHANGED repeats
       \/ ApplyOther(h)
    /\ wf' = [wf EXCEPT ![h].pc = "applying", ![h].applies = @ + 1]
    /\ UNCHANGED <<tasks, delivered, crashes, reloads>>

\* The tool returns to the agent, or its exception ends the request.
Applied(h) ==
    /\ At(h, "applying")
    /\ Collect(h)
    /\ IF proc[h].result = "RAISED" THEN Respond(h) ELSE Step(h, "adk")
    /\ UNCHANGED <<tasks, budgets>>

AgentDone(h) ==
    /\ At(h, "adk")
    /\ Step(h, "stored")
    /\ UNCHANGED <<engineVars, tasks, budgets>>

-----------------------------------------------------------------------------
(* deliver: what follows the agent run.                                    *)

\* runtime.parsed.get(event_id) or stored_request.intent
ConfirmationIntent(h) ==
    IF wf[h].parsed # None THEN wf[h].parsed ELSE events[wf[h].event].intent

\* get_request: a waiting EVT-003 gets a wake-up task, a verified EVT-004 is
\* carried to its target, everything else is answered.
Stored(h) ==
    LET e == wf[h].event
        i == ConfirmationIntent(h)
    IN
    /\ At(h, "stored")
    /\ IF e = AwaitingEvent /\ events[e].status = "WAITING_CONFIRMATION"
       THEN Step(h, "metadata")
       ELSE IF /\ e = ConfirmingEvent /\ events[e].status = "VERIFIED"
               /\ i # None /\ None \notin {i.target, i.by}
       THEN wf' = [wf EXCEPT ![h].pc = "target", ![h].parsed = i]
       ELSE Respond(h)
    /\ UNCHANGED <<engineVars, tasks, budgets>>

ReadGeneration(h) ==
    /\ At(h, "metadata")
    /\ wf' = [wf EXCEPT ![h].pc = "create",
                        ![h].expected = events[wf[h].event].generation]
    /\ UNCHANGED <<engineVars, tasks, budgets>>

CreateWakeUp(h) ==
    /\ At(h, "create")
    /\ wf[h].expected < MaxGeneration
    /\ CreateTask(<<wf[h].event, wf[h].expected + 1>>)
    /\ Step(h, "persist")
    /\ UNCHANGED <<engineVars, budgets>>

PersistWakeUp(h) ==
    /\ At(h, "persist")
    /\ PersistSchedule(wf[h].event, wf[h].expected)
    /\ Respond(h)
    /\ UNCHANGED <<proc, expired, tasks, budgets>>

\* The generation the task and the record will follow on: that of the target.
\* The mutant reads that of the event delivered.
GenerationOfEvent(h) == events[wf[h].event].generation

GenerationOfTarget(h) == events[wf[h].parsed.target].generation

\* get_request and event_metadata of the target.
ReadTarget(h) ==
    LET t == events[wf[h].parsed.target] IN
    /\ At(h, "target")
    /\ IF t.status = "VERIFIED" \/ t.evidence # None
       THEN Respond(h)
       ELSE wf' = [wf EXCEPT ![h].pc = "createNow",
                             ![h].expected = GenerationOfTarget(h)]
    /\ UNCHANGED <<engineVars, tasks, budgets>>

\* The task comes before the transaction that makes its generation current.
CreateResume(h) ==
    /\ At(h, "createNow")
    /\ wf[h].expected < MaxGeneration
    /\ CreateTask(<<wf[h].parsed.target, wf[h].expected + 1>>)
    /\ Step(h, "recordConfirmation")
    /\ UNCHANGED <<engineVars, budgets>>

RecordConfirmationStep(h) ==
    /\ At(h, "recordConfirmation")
    /\ RecordConfirmation(wf[h].event, wf[h].parsed.target, wf[h].parsed.by,
                          wf[h].expected)
    /\ Respond(h)
    /\ UNCHANGED <<proc, expired, tasks, budgets>>

-----------------------------------------------------------------------------
(* resume: the task endpoint.  The caller's OIDC token is taken as valid,  *)
(* and a SMOKE_TEST payload is answered without touching anything.         *)

StartResume(h, t) ==
    /\ At(h, "idle")
    /\ wf' = [wf EXCEPT ![h].pc = "resume", ![h].task = t, ![h].event = t[1]]
    /\ UNCHANGED <<engineVars, budgets>>

ResumeTask(h, t) == Dispatch(t) /\ StartResume(h, t)

RedeliveredTask(h, t) == Redeliver(t) /\ StartResume(h, t)

\* A mutant that acknowledges future generations as well.
OtherGeneration(g, d) == g # d.generation

StaleGeneration(g, d) == g < d.generation

\* A verified request is only read back; the mutant processes it again.
AfterMetadataAlways(d) == "checkpoint"

AfterMetadata(d) == IF d.status = "VERIFIED" THEN "noop" ELSE "checkpoint"

\* event_metadata: a stale generation is acknowledged, a future one refused,
\* a verified request read back, and the rest goes on.
ReadMetadata(h) ==
    LET d == events[wf[h].event]
        g == wf[h].task[2]
    IN
    /\ At(h, "resume")
    /\ \/ StaleGeneration(g, d) /\ Acknowledge(h)
       \/ g > d.generation /\ Refuse(h)
       \/ /\ g = d.generation
          /\ wf' = [wf EXCEPT
               ![h].pc = AfterMetadata(d),
               ![h].metadata = [status |-> d.status, evidence |-> d.evidence]]
          /\ UNCHANGED tasks
    /\ UNCHANGED <<engineVars, budgets>>

\* Read before repeat: NO_OP_VERIFIED, or an integrity error.
VerifyExistingEffect(h) ==
    /\ At(h, "noop")
    /\ \/ RecordNoOp(wf[h].event, wf[h].task[2]) /\ Acknowledge(h)
       \/ /\ ~EffectReadsBack(wf[h].event) /\ Refuse(h)
          /\ UNCHANGED repoVars
    /\ UNCHANGED <<proc, expired, budgets>>

\* The metadata show a commit whose verification was cut off; the mutant does
\* not look for one.
NeverCutOff(m) == FALSE

CutOff(m) == m.status = "APPLIED"

\* get_request: finish a verification that was cut off, wait on, or process
\* the stored intent completed with the recorded confirmation.
Checkpoint(h) ==
    LET e == wf[h].event
        d == events[e]
        m == wf[h].metadata
    IN
    /\ At(h, "checkpoint")
    /\ \/ /\ d.intent = None \/ (CutOff(m) /\ d.applied = None)
          /\ Refuse(h) /\ UNCHANGED engineVars
       \/ /\ d.intent # None /\ CutOff(m) /\ d.applied # None
          /\ CallVerify(h, e)
          /\ Step(h, "resuming") /\ UNCHANGED tasks
       \/ /\ d.intent # None /\ ~CutOff(m) /\ m.evidence = None
          /\ Acknowledge(h) /\ UNCHANGED engineVars
       \/ /\ d.intent # None /\ ~CutOff(m) /\ m.evidence # None
          /\ Call(h, e, Confirmed(d.intent, m.evidence.by))
          /\ Step(h, "resuming") /\ UNCHANGED tasks
    /\ UNCHANGED budgets

\* The engine has answered: anything but VERIFIED is refused.
TakeResult(h) ==
    /\ At(h, "resuming")
    /\ Collect(h)
    /\ IF proc[h].result = "VERIFIED"
       THEN Step(h, "verified") /\ UNCHANGED tasks
       ELSE Refuse(h)
    /\ UNCHANGED budgets

\* The injected fault turns one acknowledgement into a 503.
Finish(h) ==
    /\ At(h, "verified")
    /\ \/ ConsumeFailureInjection(wf[h].event) /\ Refuse(h)
       \/ /\ ~FailureInjectionEligible(wf[h].event) /\ Acknowledge(h)
          /\ UNCHANGED repoVars
    /\ UNCHANGED <<proc, expired, budgets>>

-----------------------------------------------------------------------------
(* The engine runs for a handler; instances die; a run starts with the     *)
(* fault armed if reset was asked for it.                                  *)

RunEngine(h) ==
    /\ wf[h].pc \in {"applying", "resuming"}
    /\ EngineStep(h)
    /\ UNCHANGED <<tasks, wf, budgets>>

\* The instance dies, or the parser, the agent, Firestore or the queue raises
\* out of the request: either way its locals are gone and a task attempt fails.
CrashHandler(h) ==
    /\ ~At(h, "idle")
    /\ crashes + reloads < MaxCrashes
    /\ crashes' = crashes + 1
    /\ proc' = [proc EXCEPT ![h] = Idle]
    /\ Respond(h)
    /\ IF wf[h].task = None THEN UNCHANGED tasks ELSE Nack(wf[h].task)
    /\ UNCHANGED <<repoVars, expired, delivered, repeats, reloads>>

ArmFault ==
    /\ ReliabilityProof /\ fault = "OFF"
    /\ delivered = {}
    /\ ConfigureFailureInjection
    /\ UNCHANGED <<proc, expired, tasks, wf, budgets>>

DeliverStep(h) ==
    \/ ValidateIntent(h) \/ ApplyDecision(h) \/ Applied(h) \/ AgentDone(h)
    \/ Stored(h) \/ ReadGeneration(h) \/ CreateWakeUp(h) \/ PersistWakeUp(h)
    \/ ReadTarget(h) \/ CreateResume(h) \/ RecordConfirmationStep(h)

ResumeStep(h) ==
    \/ ReadMetadata(h) \/ VerifyExistingEffect(h) \/ Checkpoint(h)
    \/ TakeResult(h) \/ Finish(h)

HandlerStep(h) == DeliverStep(h) \/ ResumeStep(h) \/ RunEngine(h)

Next ==
    \/ \E h \in Handlers :
         \/ \E e \in Events : Deliver(h, e)
         \/ \E t \in TaskNames : ResumeTask(h, t) \/ RedeliveredTask(h, t)
         \/ HandlerStep(h)
         \/ CrashHandler(h)
    \/ PageGivesUp
    \/ ArmFault

Spec == Init /\ [][Next]_vars

\* A request being served goes on until it is answered or its instance dies,
\* and the queue goes on dispatching the awaiting request's tasks while they are
\* queued.  Nothing is assumed of other tasks: no progress property needs them.
Fairness ==
    /\ \A h \in Handlers : WF_vars(HandlerStep(h))
    /\ \A g \in 1..MaxGeneration :
          SF_vars(\E h \in Handlers : ResumeTask(h, <<AwaitingEvent, g>>))

LiveSpec == Spec /\ Fairness

=============================================================================
