------------------------ MODULE FirestoreRepository ------------------------
(***************************************************************************)
(* The durable state of one run in Firestore and the transactions that     *)
(* write it (firestore_repository.py).  Every action is one transaction or *)
(* one blind write of the code; nothing is said about who calls it when,   *)
(* so what holds of RepoSpec holds whatever the engine, the workflow, the  *)
(* retries and the crashes do.                                             *)
(*                                                                         *)
(* Left out: timestamps, last_result, the activity log (with               *)
(* record_resume_activity, which writes nothing else) and the              *)
(* next_attempt_at bookkeeping, which no decision reads.                   *)
(* scheduled_task_name is the hash of event and generation                 *)
(* (tasks.task_id_for), so resume_generation determines it.                *)
(***************************************************************************)
EXTENDS Models

CONSTANTS
    MaxScheduleVersion,  \* bound on the commits of a run
    MaxGeneration,       \* bound on the resume generations of an event
    SavedStates          \* the states its callers save

ASSUME RepoBounds ==
    /\ MaxScheduleVersion \in Nat
    /\ MaxGeneration \in Nat
    /\ SavedStates \subseteq RequestState

VARIABLES
    scheduleVersion,  \* run document: schedule_version
    shifts,           \* run document: owner, version and custody head per shift
    fault,            \* run document: the lost-acknowledgement injection
    events,           \* event documents
    ledger,           \* custody edges of the ledger collection
    verifications,    \* "verify:REQ" records of the ledger collection
    noops             \* "noop:EVT:gN" records of the ledger collection

repoVars ==
    <<scheduleVersion, shifts, fault, events, ledger, verifications, noops>>

Evidence == [source : Events, by : Workers]

ShiftDocument == [owner : Workers, version : Nat, head : LedgerId]

EventDocument ==
    [status     : RequestState,
     intent     : Optional(UNION {Intents(e) : e \in Events}),
     applied    : Optional(LedgerId),
     attested   : BOOLEAN,              \* verification_id is set
     generation : Nat,
     evidence   : Optional(Evidence)]

Verification ==
    [request          : Events,
     applied          : LedgerId,
     shift            : Shifts,
     to               : Workers,
     shift_version    : Nat,
     schedule_version : Nat]

NoOp == [event : Events, generation : Nat, applied : LedgerId]

\* One type invariant for the documents of the run.
RepoTypeOK ==
    /\ scheduleVersion \in Nat
    /\ shifts \in [Shifts -> ShiftDocument]
    /\ fault \in {"OFF", "ARMED", "USED"}
    /\ events \in [Events -> EventDocument]
    /\ ledger \subseteq CustodyLedgerEvent
    /\ verifications \subseteq Verification
    /\ noops \subseteq NoOp

-----------------------------------------------------------------------------
(* The seeded run.                                                         *)

\* _event_to_document
SeededEvent ==
    [status |-> "RECEIVED", intent |-> None, applied |-> None,
     attested |-> FALSE, generation |-> 0, evidence |-> None]

\* seed_frozen_run with _run_to_document and initial_ledger_for
RepoInit ==
    /\ scheduleVersion = 0
    /\ shifts = [s \in Shifts |->
                    [owner |-> OriginalOwner[s], version |-> 0,
                     head  |-> InitialEdge(s).id]]
    /\ fault = "OFF"
    /\ events = [e \in Events |-> SeededEvent]
    /\ ledger = {InitialEdge(s) : s \in Shifts}
    /\ verifications = {}
    /\ noops = {}

-----------------------------------------------------------------------------
(* Requests and custody.                                                   *)

\* save_request: a merge write of the whole request, no comparison with what
\* is stored.  It never touches attested, generation or evidence.
SaveRequest(e, state, intent, applied) ==
    /\ UNCHANGED <<scheduleVersion, shifts, fault, ledger, verifications, noops>>
    /\ events' = [events EXCEPT ![e] = [@ EXCEPT !.status  = state,
                                                !.intent  = intent,
                                                !.applied = applied]]

InLedger(id) == \E x \in ledger : x.id = id

\* The deterministic ledger id: request and version, where the mutant forgets
\* the version.
LedgerIdOfRequest(c) == c.request

NewLedgerId(c) == <<c.request, c.expected_shift_version + 1>>

\* A mutant that trusts the event document to remember the transfer.
ReplayByEvent(c) ==
    events[c.request].applied # None /\ InLedger(events[c.request].applied)

\* commit_transfer answers "idempotent" and writes nothing.
CommitIsReplay(c) ==
    \/ /\ events[c.request].applied # None
       /\ InLedger(events[c.request].applied)
    \/ InLedger(NewLedgerId(c))

\* Mutants of the comparisons below.
CasWithoutSchedule(c) ==
    /\ InLedger(c.expected_custody_head)
    /\ shifts[c.shift].version = c.expected_shift_version
    /\ shifts[c.shift].head = c.expected_custody_head
    /\ shifts[c.shift].owner = c.from

CasWithoutOwner(c) ==
    /\ InLedger(c.expected_custody_head)
    /\ scheduleVersion = c.expected_schedule_version
    /\ shifts[c.shift].version = c.expected_shift_version
    /\ shifts[c.shift].head = c.expected_custody_head

CasOwnerOnly(c) ==
    /\ InLedger(c.expected_custody_head)
    /\ shifts[c.shift].owner = c.from

\* The predecessor lookup and the four comparisons of commit_transfer.
CasPasses(c) ==
    /\ InLedger(c.expected_custody_head)
    /\ scheduleVersion = c.expected_schedule_version
    /\ shifts[c.shift].version = c.expected_shift_version
    /\ shifts[c.shift].head = c.expected_custody_head
    /\ shifts[c.shift].owner = c.from

\* The stored intent carries the recipient's confirmation.
ConsentStored(c) ==
    /\ events[c.request].intent # None
    /\ events[c.request].intent.confirmation = "PRESENT"
    /\ events[c.request].intent.by = c.to

CommitApplies(c) == ~CommitIsReplay(c) /\ CasPasses(c) /\ ConsentStored(c)

NewEdge(c) ==
    [id               |-> NewLedgerId(c),
     shift            |-> c.shift,
     request          |-> c.request,
     from             |-> c.from,
     to               |-> c.to,
     predecessor      |-> c.expected_custody_head,
     shift_version    |-> c.expected_shift_version + 1,
     schedule_version |-> c.expected_schedule_version + 1]

\* The shift after the transfer; the mutants forget the head, and the owner.
TransferredKeepingHead(c) ==
    [shifts[c.shift] EXCEPT !.owner = c.to, !.version = @ + 1]

TransferredKeepingOwner(c) ==
    [owner |-> c.from, version |-> c.expected_shift_version + 1,
     head  |-> NewLedgerId(c)]

TransferredShift(c) ==
    [owner |-> c.to, version |-> c.expected_shift_version + 1,
     head  |-> NewLedgerId(c)]

\* commit_transfer, the transaction that moves a shift: edge, run and event
\* together.  Replays and conflicts write nothing and are left to the caller.
ApplyTransfer(c) ==
    /\ CommitApplies(c)
    /\ scheduleVersion < MaxScheduleVersion
    /\ ledger' = ledger \cup {NewEdge(c)}
    /\ shifts' = [shifts EXCEPT ![c.shift] = TransferredShift(c)]
    /\ scheduleVersion' = c.expected_schedule_version + 1
    /\ events' = [events EXCEPT ![c.request].status  = "APPLIED",
                                ![c.request].applied = NewLedgerId(c)]
    /\ UNCHANGED <<fault, verifications, noops>>

IsVerified(e) == \E v \in verifications : v.request = e

\* A mutant of the transaction below that writes the status but no record.
SaveVerifiedStatus(e, applied) ==
    /\ events' = [events EXCEPT ![e].status = "VERIFIED", ![e].attested = TRUE]
    /\ UNCHANGED <<scheduleVersion, shifts, fault, ledger, verifications, noops>>

\* save_verification after its first read: the record copies the applied edge.
\* An existing record ends the transaction before anything is written.
SaveVerification(e, applied) ==
    IF IsVerified(e)
    THEN UNCHANGED repoVars
    ELSE \E x \in ledger :
           /\ x.id = applied
           /\ verifications' = verifications \cup
                {[request          |-> e,
                  applied          |-> x.id,
                  shift            |-> x.shift,
                  to               |-> x.to,
                  shift_version    |-> x.shift_version,
                  schedule_version |-> x.schedule_version]}
           /\ events' = [events EXCEPT ![e].status   = "VERIFIED",
                                       ![e].attested = TRUE]
           /\ UNCHANGED <<scheduleVersion, shifts, fault, ledger, noops>>

-----------------------------------------------------------------------------
(* Resume generations and confirmation evidence.                           *)

\* persist_schedule: the generation advances by one unless another writer
\* moved it or the request no longer waits.  Finding the schedule already
\* persisted changes the answer only, which nobody acts upon.
ScheduleAccepted(e, expected) ==
    events[e].generation = expected /\ events[e].status = "WAITING_CONFIRMATION"

PersistSchedule(e, expected) ==
    /\ expected < MaxGeneration
    /\ IF ScheduleAccepted(e, expected)
       THEN /\ events' = [events EXCEPT ![e].generation = expected + 1]
            /\ UNCHANGED <<scheduleVersion, shifts, fault, ledger,
                           verifications, noops>>
       ELSE UNCHANGED repoVars

\* record_confirmation_and_schedule: what the transaction answers.
ConfirmationRaises(c, t) ==
    \/ events[c].status # "VERIFIED"
    \/ events[t].status \notin {"VERIFIED", "WAITING_CONFIRMATION"}

\* A mutant that does not compare the generation.
ConfirmationOfAnyGeneration(c, t, expected) ==
    /\ ~ConfirmationRaises(c, t)
    /\ events[t].status = "WAITING_CONFIRMATION"
    /\ events[t].evidence = None

ConfirmationAccepted(c, t, expected) ==
    /\ ~ConfirmationRaises(c, t)
    /\ events[t].status = "WAITING_CONFIRMATION"
    /\ events[t].evidence = None
    /\ events[t].generation = expected

RecordConfirmation(c, t, by, expected) ==
    /\ expected < MaxGeneration
    /\ IF ConfirmationAccepted(c, t, expected)
       THEN /\ events' = [events EXCEPT
                 ![t].evidence   = [source |-> c, by |-> by],
                 ![t].generation = expected + 1,
                 ![c].generation = expected + 1]
            /\ UNCHANGED <<scheduleVersion, shifts, fault, ledger,
                           verifications, noops>>
       ELSE UNCHANGED repoVars

-----------------------------------------------------------------------------
(* Reliability evidence.                                                   *)

\* configure_failure_injection on a DEMO run.
ConfigureFailureInjection ==
    /\ fault' = "ARMED"
    /\ UNCHANGED <<scheduleVersion, shifts, events, ledger, verifications, noops>>

\* A mutant that trusts the status field alone.
EligibleByStatus(e) ==
    fault = "ARMED" /\ e = AwaitingEvent /\ events[e].status = "VERIFIED"

FailureInjectionEligible(e) ==
    /\ fault = "ARMED"
    /\ e = AwaitingEvent
    /\ events[e].attested
    /\ events[e].status = "VERIFIED"
    /\ IsVerified(e)

\* consume_failure_injection: at most once, after a durable VERIFIED.
ConsumeFailureInjection(e) ==
    /\ FailureInjectionEligible(e)
    /\ fault' = "USED"
    /\ UNCHANGED <<scheduleVersion, shifts, events, ledger, verifications, noops>>

\* A mutant that trusts the status field alone.
EffectByStatus(e) == events[e].status = "VERIFIED"

\* The checks of verify_existing_effect.  The idempotency keys are functions
\* of run and request and always match.
EffectReadsBack(e) ==
    LET d == events[e]
        i == events[e].intent
    IN  /\ d.applied # None
        /\ d.status = "VERIFIED"
        /\ i # None
        /\ None \notin {i.shift, i.from, i.to}
        /\ \E x \in ledger, p \in ledger, v \in verifications :
             /\ x.id = d.applied
             /\ <<x.request, x.shift, x.from, x.to>> = <<e, i.shift, i.from, i.to>>
             /\ v.request = e /\ v.applied = x.id
             /\ v.shift_version = x.shift_version
             /\ v.schedule_version = x.schedule_version
             /\ shifts[i.shift] = [owner   |-> i.to,
                                   version |-> x.shift_version,
                                   head    |-> x.id]
             /\ scheduleVersion = x.schedule_version
             /\ p.id = x.predecessor /\ p.to = i.from
             /\ \A y \in ledger : y.request = e => y = x

\* verify_existing_effect: evidence of a repeated delivery, written once per
\* generation, and nothing when a check fails.
RecordNoOp(e, g) ==
    /\ EffectReadsBack(e)
    /\ IF \E n \in noops : n.event = e /\ n.generation = g
       THEN UNCHANGED repoVars
       ELSE /\ noops' = noops \cup
                 {[event |-> e, generation |-> g, applied |-> events[e].applied]}
            /\ UNCHANGED <<scheduleVersion, shifts, fault, events, ledger,
                           verifications>>

-----------------------------------------------------------------------------
(* The repository under arbitrary callers.                                 *)

\* What a get_request of the event may have returned as applied_ledger_id.
AppliedIds(e) == {None} \cup {x.id : x \in {y \in ledger : y.request = e}}

\* A command built from some intent of the event and some, possibly old and
\* possibly mixed, reading of the run document.
SomeTransfer ==
    \E e \in Events : \E i \in Intents(e), sv \in 0..scheduleVersion, h \in ledger :
        /\ None \notin {i.shift, i.from, i.to}
        /\ \E v \in 0..shifts[i.shift].version :
             ApplyTransfer([request |-> e, shift |-> i.shift,
                            from |-> i.from, to |-> i.to,
                            expected_schedule_version |-> sv,
                            expected_shift_version    |-> v,
                            expected_custody_head     |-> h.id])

SomeSave ==
    \E e \in Events, st \in SavedStates :
        \E i \in Intents(e) \cup {events[e].intent}, a \in AppliedIds(e) :
            SaveRequest(e, st, i, a)

SomeVerification ==
    \E e \in Events, x \in ledger : x.request = e /\ SaveVerification(e, x.id)

\* Only a waiting transfer schedules itself, and only the confirming event
\* brings a confirmation.
SomeSchedule ==
    \E e \in Events \ {ConfirmingEvent}, g \in 0..MaxGeneration : PersistSchedule(e, g)

SomeConfirmation ==
    \E t \in Events \ {ConfirmingEvent}, w \in Workers, g \in 0..MaxGeneration :
        /\ ConfirmingEvent # None
        /\ RecordConfirmation(ConfirmingEvent, t, w, g)

SomeReliabilityStep ==
    \E e \in Events :
        \/ ConsumeFailureInjection(e)
        \/ \E g \in 0..MaxGeneration : RecordNoOp(e, g)

RepoNext ==
    \/ SomeSave
    \/ SomeTransfer
    \/ SomeVerification
    \/ SomeSchedule
    \/ SomeConfirmation
    \/ SomeReliabilityStep
    \/ ConfigureFailureInjection

RepoSpec == RepoInit /\ [][RepoNext]_repoVars

=============================================================================
