------------------------- MODULE WorkflowProperties -------------------------
(***************************************************************************)
(* What the service promises across deliveries, tasks, retries and crashes.*)
(***************************************************************************)
EXTENDS CloudWorkflow, EngineProperties

\* A confirmation goes on record only while the event it comes from is stored
\* as the acceptance of that very request by that request's recipient: neither
\* a refusal nor a stranger's yes opens the way, although the route records
\* what its own agent run parsed and not what the engine accepted.
RecordedOnAcceptance ==
    [][\A t \in Events :
          events'[t].evidence # events[t].evidence =>
             LET i == events[events'[t].evidence.source].intent IN
             /\ <<i.type, i.decision, i.target>> = <<"CONFIRM_REQUEST", "ACCEPT", t>>
             /\ i.by = events[t].intent.to]_vars

Delivers(h) == ~At(h, "idle") /\ wf[h].task = None

\* No lost wake-up: the task of the generation a request waits for was created,
\* and, as long as the page has not given up on a delivery, while a confirmed
\* request is unfinished that task is not acknowledged.
WakeUpCreated ==
    \A e \in RequestCandidates :
        LET g == events[e].generation IN
        g > 0 => tasks[<<e, g>>].state # "none"

WakeUpKept ==
    \A e \in RequestCandidates :
        LET g == events[e].generation IN
        events[e].evidence # None /\ events[e].status # "VERIFIED"
           => tasks[<<e, g>>].state # "done"

WakeUpPending == WakeUpCreated /\ (reloads = 0 => WakeUpKept)

\* A verified transfer stays verified, as long as the page has not given up on a
\* delivery: no later delivery, retry or crash takes the status back.
VerifiedIsFinal ==
    [][\A e \in Events :
          events[e].status = "VERIFIED" /\ reloads = 0
             => events'[e].status = "VERIFIED"]_vars

\* Once the deliveries of an accepted confirmation are answered, it is on record at
\* the request it confirms.  Two things prevent that: an instance that died, and a
\* page that gave up on the delivery of the awaiting event and went on to the
\* confirmation: the wake-up persisted meanwhile makes the generation the
\* confirmation was to follow on too old (GENERATION_CONFLICT).  It supposes that
\* every reading of the confirming message answers the awaiting request: an agent
\* run that applied one reading and then parsed another, of no target, would make
\* the route raise after the acceptance ("confirmation intent missing").
AcceptedIsRecorded ==
    \/ events[ConfirmingEvent].status # "VERIFIED"
    \/ \E h \in Handlers : Delivers(h) /\ wf[h].event = ConfirmingEvent
    \/ events[AwaitingEvent].evidence # None
    \/ crashes > 0
    \/ reloads > 0 /\ events[AwaitingEvent].generation > 0

-----------------------------------------------------------------------------
(* Progress.  An unrelated transfer committed after that of the awaiting   *)
(* request moves the run's schedule version, which verify_outcome and      *)
(* verify_existing_effect compare with the edge's: from then on neither    *)
(* ever passes.                                                            *)

Overtaken ==
    \E x, y \in ledger :
        /\ x.request = AwaitingEvent
        /\ y.schedule_version > x.schedule_version

\* Once the confirmation is accepted, the request it confirms is eventually
\* verified without anybody delivering anything again.
ConfirmationResumes ==
    events[ConfirmingEvent].status = "VERIFIED"
        ~> events[AwaitingEvent].status = "VERIFIED"

\* Once a confirmation is recorded on a request, the request is eventually
\* verified without another delivery, even if the instance that works on it dies
\* at any point.  What prevents it: being overtaken; the run expiring before the
\* engine validates the request again, which is then stored REJECTED; and a page
\* that gave up on a delivery, which may then save over what the task has done.
ConfirmedIsVerified ==
    events[AwaitingEvent].evidence # None
        ~> events[AwaitingEvent].status = "VERIFIED"
           \/ Overtaken \/ expired \/ reloads > 0

\* After the injected 503 the task is delivered again, leaves the no-op evidence
\* of its generation and is acknowledged, unless the request was overtaken.  This
\* too is promised of a page that never gives up: a wake-up scheduled behind the
\* confirmation makes the refused task stale.
LostAckIsRepaired ==
    fault = "USED" ~>
        \/ Overtaken \/ reloads > 0
        \/ \E n \in noops :
             /\ n.event = AwaitingEvent
             /\ tasks[<<n.event, n.generation>>].state = "done"

-----------------------------------------------------------------------------
\* The awaiting request lives the abstract life of a handoff: one confirmation,
\* one move to the confirming worker, one attestation, in that order.
AwaitedHandoff == INSTANCE Handoff
    WITH consent  <- IF events[AwaitingEvent].evidence = None THEN None
                     ELSE events[AwaitingEvent].evidence.by,
         moved    <- {x \in ledger : x.request = AwaitingEvent},
         attested <- IsVerified(AwaitingEvent)

ImplementsHandoff == AwaitedHandoff!Spec

\* The service drives the engine only in ways EngineSpec allows its arbitrary
\* callers, and writes nothing behind its back: what holds of EngineSpec, and of
\* RepoSpec below it, holds of the service.
ImplementsEngine ==
    EngineInit /\ [][UNCHANGED engineVars \/ EngineNext]_engineVars

-----------------------------------------------------------------------------
(* The inductive strengthening: requests being served.                     *)

\* What a handler knows at each point: whose message it carries, which request
\* the task it will create wakes up, and what it read before.
ServingInv(h) ==
    LET r == wf[h] IN
    /\ r.pc = "idle" => r = Free
    /\ r.pc \notin {"applying", "resuming"} => proc[h] = Idle
    /\ r.pc \in {"adk", "applying", "stored"} =>
         r.event \in Events /\ r.parsed \in Optional(Parses[r.event])
    /\ r.pc \in {"metadata", "create", "persist"} =>
         r.event \in Events /\ r.event = AwaitingEvent
    /\ r.pc \in {"target", "createNow", "recordConfirmation"} =>
         /\ r.event \in Events /\ r.event = ConfirmingEvent
         /\ r.parsed \in Parses[r.event] \cup Intents(r.event)
         /\ r.parsed.target \in RequestCandidates /\ r.parsed.by \in Workers
    /\ r.pc \in {"create", "persist", "createNow", "recordConfirmation"} =>
         r.expected \in 0..MaxGeneration
    /\ r.pc \in {"resume", "noop", "checkpoint", "resuming", "verified"} =>
         r.task \in TaskNames /\ r.event = r.task[1]
    /\ r.pc = "checkpoint" =>
         /\ r.metadata \in Metadata
         /\ r.metadata.evidence # None =>
              events[r.event].evidence = r.metadata.evidence

GenerationsBounded == \A e \in Events : events[e].generation <= MaxGeneration

\* The task of a generation exists before the generation does.
Created(t) == t \in TaskNames /\ tasks[t].state # "none"

TaskComesFirst ==
    \A h \in Handlers :
        LET r == wf[h] IN
        /\ r.pc = "persist" => Created(<<r.event, r.expected + 1>>)
        /\ r.pc = "recordConfirmation" => Created(<<r.parsed.target, r.expected + 1>>)

-----------------------------------------------------------------------------
(* The inductive strengthening: acceptances.                               *)

\* However the confirming message is read, it asks for no transfer and answers one
\* request, whose own readings agree on who is to take over.  Whether it says yes,
\* and who says so, may be read in any way.
AnswersOneRequest ==
    \A i \in Parses[ConfirmingEvent] :
        /\ i.type # "TRANSFER_SHIFT"
        /\ \A j \in Parses[ConfirmingEvent] :
              None \notin {i.target, j.target} => i.target = j.target
        /\ i.target # None =>
              \A j, k \in StorableParses(i.target) : j.to = k.to

\* An intent that accepts what its target's stored intent asks of the worker.
Accepts(i) ==
    /\ i.decision = "ACCEPT"
    /\ events[i.target].intent \in Intents(i.target)
    /\ events[i.target].intent.to = i.by

\* What is stored as VERIFIED of the confirming event is an acceptance, and so is
\* what a call will store that is past the lookup.
AcceptancesHold ==
    ConfirmingEvent \in Events =>
        /\ \A x \in ledger : x.request # ConfirmingEvent
        /\ \A h \in Handlers :
              LET p == proc[h] IN
              /\ p.event = ConfirmingEvent
              /\ \/ p.pc = "confirm"
                 \/ /\ p.pc = "save" /\ p.decision.state = "READY"
                    /\ p.intent.type = "CONFIRM_REQUEST"
              => Accepts(p.intent)
        /\ LET d == events[ConfirmingEvent] IN
           d.status = "VERIFIED" =>
              /\ d.intent \in Intents(ConfirmingEvent)
              /\ d.intent.type = "CONFIRM_REQUEST"
              /\ Accepts(d.intent)

\* The awaiting request is one of the run, and its message carries no consent.
AwaitsConsent ==
    /\ AwaitingEvent \in Events
    /\ \A i \in StorableParses(AwaitingEvent) : i.confirmation = "ABSENT"

-----------------------------------------------------------------------------
(* The inductive strengthening: one writer per request.  It holds where    *)
(* events are delivered from one page that has not given up on a delivery, *)
(* the agent keeps to the event delivered, and no duplicate of a task      *)
(* overlaps an attempt of it.                                              *)

DeliveryPc ==
    {"adk", "applying", "stored", "metadata", "create", "persist",
     "target", "createNow", "recordConfirmation"}

\* An attempt that may write a status: it found its request confirmed and
\* unfinished.
Works(h) ==
    \/ At(h, "resuming")
    \/ At(h, "checkpoint") /\ wf[h].metadata.evidence # None

\* The engine writes for the request served, and never over VERIFIED.
OwnCall(h) ==
    LET e == wf[h].event
        p == proc[h]
    IN
    wf[h].pc \in {"applying", "resuming"} =>
        /\ InCall(h) => p.event = e
        /\ InCall(h) /\ p.pc \notin {"existing", "publish"} =>
             events[e].status # "VERIFIED"
        /\ p.pc = "returned" /\ p.result = "VERIFIED" =>
             events[e].status = "VERIFIED"

\* One delivery at a time, and of a request nothing was scheduled for.
DeliveryInv(h) ==
    LET r == wf[h] IN
    /\ r.pc \in DeliveryPc => r.task = None
    /\ Delivers(h) => r.watched
    /\ \A k \in Handlers : Delivers(h) /\ Delivers(k) => k = h
    /\ /\ r.pc \in {"adk", "applying", "stored", "metadata", "create", "persist"}
       /\ r.event # ConfirmingEvent
       => events[r.event].generation = 0 /\ events[r.event].evidence = None

\* One attempt at a time until the task is acknowledged; what an attempt found
\* confirmed and unfinished is still so.
AttemptInv(h) ==
    LET r == wf[h]
        d == events[wf[h].event]
        m == wf[h].metadata
    IN
    /\ r.task # None =>
         /\ tasks[r.task].state \in {"running", "done"}
         /\ tasks[r.task].state = "running" =>
              \A k \in Handlers : wf[k].task = r.task => k = h
    /\ r.pc \in {"noop", "checkpoint", "resuming", "verified"} =>
         r.task[2] <= d.generation
    /\ r.pc \in {"noop", "verified"} => d.status = "VERIFIED"
    /\ Works(h) =>
         /\ r.task[2] = d.generation /\ d.evidence # None
         /\ tasks[r.task].state = "running"
    /\ r.pc = "checkpoint" =>
         IF m.evidence # None THEN d.status # "VERIFIED"
         ELSE m.status # "APPLIED" /\ (d.evidence = None \/ r.task[2] < d.generation)

\* Only a waiting request is scheduled without a confirmation, none before its
\* delivery, and no task is acknowledged before its generation is current.
ScheduleInv(e) ==
    LET d == events[e] IN
    /\ d.status = "RECEIVED" => d.generation = 0
    /\ d.generation = 0 => d.evidence = None
    /\ d.generation > 0 /\ d.evidence = None => d.status = "WAITING_CONFIRMATION"
    /\ \A g \in 1..MaxGeneration : tasks[<<e, g>>].state = "done" => g <= d.generation

ServedApart ==
    /\ \A h \in Handlers : OwnCall(h) /\ DeliveryInv(h) /\ AttemptInv(h)
    /\ \A e \in RequestCandidates : ScheduleInv(e)
    /\ WakeUpKept

-----------------------------------------------------------------------------
(* The inductive strengthening: an acceptance on its way to the record.    *)

\* However the confirming message is read, it answers the awaiting request.
AnswersAwaiting ==
    /\ {AwaitingEvent, ConfirmingEvent} \subseteq Events
    /\ \A i \in Parses[ConfirmingEvent] :
          i.type = "CONFIRM_REQUEST" /\ i.target = AwaitingEvent

\* The engine never raises for a confirmation; and the target it found waiting
\* still waits, or is confirmed already.
ConfirmingCall(h) ==
    LET p == proc[h]
        d == events[AwaitingEvent]
    IN
    At(h, "applying") /\ wf[h].event = ConfirmingEvent =>
        /\ wf[h].parsed # None
        /\ p.pc \in {"existing", "validate", "lookup", "save", "confirm", "returned"}
        /\ IF p.pc = "returned" THEN p.result # "RAISED"
           ELSE p.event = ConfirmingEvent /\ p.intent \in Parses[ConfirmingEvent]
        /\ p.pc = "confirm" \/ (p.pc = "save" /\ p.decision.state = "READY") =>
             d.evidence # None \/ d.status = "WAITING_CONFIRMATION"

\* A delivery that will record the confirmation it applied, and by the generation it
\* read the record is accepted.
Carries(h) ==
    /\ wf[h].pc \in {"adk", "applying", "stored",
                     "target", "createNow", "recordConfirmation"}
    /\ wf[h].event = ConfirmingEvent
    /\ wf[h].parsed \in Parses[ConfirmingEvent]
    /\ wf[h].pc \in {"createNow", "recordConfirmation"} =>
         wf[h].expected = events[AwaitingEvent].generation

AcceptanceCarried ==
    events[ConfirmingEvent].status = "VERIFIED" /\ events[AwaitingEvent].evidence = None
        => /\ events[AwaitingEvent].status = "WAITING_CONFIRMATION"
           /\ \E h \in Handlers : Carries(h)

CarriedInv ==
    /\ \A h \in Handlers : ConfirmingCall(h)
    /\ crashes = 0 => AcceptanceCarried

=============================================================================
