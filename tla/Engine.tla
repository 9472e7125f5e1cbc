------------------------------- MODULE Engine -------------------------------
(***************************************************************************)
(* ReconciliationEngine (engine.py) over the Firestore repository, run by  *)
(* several handlers at once: requests of two service instances and the     *)
(* threads of one.  Every action is one call the engine makes to the       *)
(* repository together with the decisions it takes on the answer; between  *)
(* two actions of a handler any other handler, or the other writers of the *)
(* run, may act, and a handler may crash.                                  *)
(***************************************************************************)
EXTENDS FirestoreRepository

CONSTANTS
    Handlers,         \* request handlers that may run the engine
    MayExpire,        \* whether the clock may pass the run's expires_at
    ReliabilityProof  \* reset was asked for the lost-acknowledgement proof

ASSUME EngineConstants ==
    {MayExpire, ReliabilityProof} \subseteq BOOLEAN /\ None \notin Handlers

\* The repository's callers save at least what the engine saves.
ASSUME EngineSaves ==
    {"REJECTED", "NEEDS_CLARIFICATION", "WAITING_CONFIRMATION", "READY",
     "FAILED", "VERIFIED"} \subseteq SavedStates

VARIABLES
    proc,     \* locals of the engine call each handler is in
    expired   \* the clock was seen past run.expires_at

engineVars == <<repoVars, proc, expired>>

Decision ==
    [state    : RequestState,
     schedule : Optional(Nat),
     version  : Optional(Nat),
     head     : Optional(LedgerId)]

\* pc names the repository call that comes next; "returned" holds the state
\* of the ProcessingResult, or "RAISED", until the caller takes it.
EnginePc ==
    {"idle", "existing", "validate", "lookup", "save", "confirm", "commit",
     "replay", "conflict", "reread", "readback", "unreadable", "attest",
     "record", "publish", "returned"}

\* Whatever a message of the run may be read as, stored or not.
Readings == UNION {Intents(e) \cup Parses[e] : e \in Events}

EngineLocals ==
    [pc       : EnginePc,
     event    : Optional(Events),
     intent   : Optional(Readings),
     applied  : Optional(LedgerId),   \* request.applied_ledger_id
     decision : Optional(Decision),
     ledger   : Optional(LedgerId),   \* the edge being verified
     result   : Optional(RequestState \cup {"RAISED"})]

EngineTypeOK ==
    /\ RepoTypeOK
    /\ proc \in [Handlers -> EngineLocals]
    /\ expired \in BOOLEAN

Idle ==
    [pc |-> "idle", event |-> None, intent |-> None, applied |-> None,
     decision |-> None, ledger |-> None, result |-> None]

EngineInit ==
    /\ RepoInit
    /\ proc = [h \in Handlers |-> Idle]
    /\ expired = FALSE

Goto(h, pc) == proc' = [proc EXCEPT ![h].pc = pc]

\* The call ends; what it read is gone.
Return(h, result) ==
    proc' = [proc EXCEPT ![h] =
                [Idle EXCEPT !.pc = "returned", !.result = result]]

-----------------------------------------------------------------------------
(* validate: the rules that read nothing but the run document.  The two    *)
(* rules about unknown workers and shifts never fire: the parser lets only *)
(* candidates through, and for the four events the routes deliver those    *)
(* are the workers and shifts of the run.                                  *)

\* Shifts the recipient already holds at the time of the requested one.
ShiftConflict(i) ==
    \E t \in Shifts :
        t # i.shift /\ shifts[t].owner = i.to /\ Overlap(i.shift, t)

RecipientFits(i) == IsAvailable(i.to, i.shift) /\ ~ShiftConflict(i)

TransferDecision(i) ==
    CASE i.from = i.to \/ shifts[i.shift].owner # i.from -> "REJECTED"
      [] OTHER ->
         IF i.confirmation # "PRESENT" THEN "WAITING_CONFIRMATION"
         ELSE IF i.by = i.to /\ RecipientFits(i) THEN "READY"
         ELSE "REJECTED"

RunDecision(i, late) ==
    IF ~Authorized \/ late THEN "REJECTED"
    ELSE IF i.ambiguous \/ i.type = "UNKNOWN" THEN "NEEDS_CLARIFICATION"
    ELSE IF i.type = "CONFIRM_REQUEST" THEN "READY"
    ELSE TransferDecision(i)

\* A READY decision still hangs on a second document.
NeedsLookup(i, state) ==
    state = "READY" /\ (i.type = "CONFIRM_REQUEST" \/ i.dependency # None)

\* A mutant that is content with an applied dependency.
DependencyHeadOnly(i, head) == events[i.dependency].applied = head

\* The dependency is verified and its edge is the head the run document showed.
DependencyHolds(i, head) ==
    /\ events[i.dependency].status = "VERIFIED"
    /\ events[i.dependency].applied = head

\* A mutant that takes any answer for an acceptance.
ConfirmationHoldsAnyAnswer(i) ==
    /\ events[i.target].status = "WAITING_CONFIRMATION"
    /\ events[i.target].intent # None
    /\ events[i.target].intent.to = i.by

\* _validate_confirmation
ConfirmationHolds(i) ==
    /\ events[i.target].status = "WAITING_CONFIRMATION"
    /\ events[i.target].intent # None
    /\ events[i.target].intent.to = i.by
    /\ i.decision = "ACCEPT"

LookupHolds(i, head) ==
    IF i.type = "CONFIRM_REQUEST"
    THEN ConfirmationHolds(i)
    ELSE DependencyHolds(i, head)

-----------------------------------------------------------------------------
(* process                                                                 *)

Call(h, e, i) ==
    /\ proc[h].pc = "idle"
    /\ proc' = [proc EXCEPT ![h] =
                   [Idle EXCEPT !.pc = "existing", !.event = e, !.intent = i]]
    /\ UNCHANGED <<repoVars, expired>>

\* The parse names the event it was made from; the mutant takes any parse.
AnySource(p) == p.event # None

OwnSource(p) == p.intent.source = p.event

\* get_request: a foreign source or a verified request ends the call.
ReadExisting(h) ==
    LET p == proc[h] IN
    /\ p.pc = "existing"
    /\ IF ~OwnSource(p)
       THEN Return(h, "REJECTED")
       ELSE IF events[p.event].status = "VERIFIED"
       THEN Return(h, "VERIFIED")
       ELSE proc' = [proc EXCEPT ![h].pc = "validate",
                                 ![h].applied = events[p.event].applied]
    /\ UNCHANGED <<repoVars, expired>>

\* A validation looks at the clock, the only place that does.  Once one finds
\* the run expired, all later ones do.
LookAtClock == expired' \in {expired, expired \/ MayExpire}

\* get_run inside validate: the decision remembers the versions it was
\* taken at.
Validate(h) ==
    LET p     == proc[h]
        state == RunDecision(p.intent, expired')
        ready == state = "READY" /\ p.intent.type = "TRANSFER_SHIFT"
    IN
    /\ p.pc = "validate"
    /\ LookAtClock
    /\ proc' = [proc EXCEPT
         ![h].pc = IF NeedsLookup(p.intent, state) THEN "lookup" ELSE "save",
         ![h].decision =
            [state    |-> state,
             schedule |-> IF ready THEN scheduleVersion ELSE None,
             version  |-> IF ready THEN shifts[p.intent.shift].version ELSE None,
             head     |-> IF ready THEN shifts[p.intent.shift].head ELSE None]]
    /\ UNCHANGED repoVars

\* get_request of the dependency, or of the request being confirmed.
Lookup(h) ==
    LET p == proc[h] IN
    /\ p.pc = "lookup"
    /\ proc' = [proc EXCEPT
         ![h].pc = "save",
         ![h].decision.state =
            IF LookupHolds(p.intent, p.decision.head) THEN "READY" ELSE "REJECTED"]
    /\ UNCHANGED <<repoVars, expired>>

\* save_request of the decision, over whatever is stored by now.
Save(h) ==
    LET p == proc[h] IN
    /\ p.pc = "save"
    /\ SaveRequest(p.event, p.decision.state, p.intent, p.applied)
    /\ IF p.decision.state # "READY" THEN Return(h, p.decision.state)
       ELSE IF p.intent.type = "CONFIRM_REQUEST" THEN Goto(h, "confirm")
       ELSE Goto(h, "commit")
    /\ UNCHANGED expired

\* A valid confirmation is VERIFIED at once, without commit or read-back.
Confirm(h) ==
    LET p == proc[h] IN
    /\ p.pc = "confirm"
    /\ SaveRequest(p.event, "VERIFIED", p.intent, p.applied)
    /\ Return(h, "VERIFIED")
    /\ UNCHANGED expired

Command(p) ==
    [request                   |-> p.event,
     shift                     |-> p.intent.shift,
     from                      |-> p.intent.from,
     to                        |-> p.intent.to,
     expected_schedule_version |-> p.decision.schedule,
     expected_shift_version    |-> p.decision.version,
     expected_custody_head     |-> p.decision.head]

\* commit_transfer applies the command ...
Commit(h) ==
    LET c == Command(proc[h]) IN
    /\ proc[h].pc = "commit"
    /\ ApplyTransfer(c)
    /\ proc' = [proc EXCEPT ![h].pc = "reread", ![h].decision = None,
                            ![h].ledger = NewLedgerId(c)]
    /\ UNCHANGED expired

\* ... or finds it applied, or conflicting, and writes nothing.
CommitRefused(h) ==
    LET c == Command(proc[h]) IN
    /\ proc[h].pc = "commit"
    /\ ~CommitApplies(c)
    /\ proc' = [proc EXCEPT
         ![h].decision = None,
         ![h].pc = IF CommitIsReplay(c) THEN "replay" ELSE "conflict"]
    /\ UNCHANGED <<repoVars, expired>>

\* get_request after an idempotent commit.
Replay(h) ==
    /\ proc[h].pc = "replay"
    /\ Return(h, events[proc[h].event].status)
    /\ UNCHANGED <<repoVars, expired>>

Conflict(h) ==
    LET p == proc[h] IN
    /\ p.pc = "conflict"
    /\ SaveRequest(p.event, "FAILED", p.intent, p.applied)
    /\ Return(h, "FAILED")
    /\ UNCHANGED expired

\* get_request after the commit, and the assertion that it is APPLIED.
Reread(h) ==
    LET p == proc[h]
        d == events[p.event]
    IN
    /\ p.pc = "reread"
    /\ IF d.status = "APPLIED"
       THEN proc' = [proc EXCEPT ![h].pc = "readback", ![h].intent = d.intent,
                                 ![h].applied = d.applied]
       ELSE Return(h, "RAISED")
    /\ UNCHANGED <<repoVars, expired>>

-----------------------------------------------------------------------------
(* verify_outcome                                                          *)

\* Called directly by the workflow for a request it finds APPLIED.
CallVerify(h, e) ==
    LET d == events[e] IN
    /\ proc[h].pc = "idle"
    /\ d.intent # None /\ d.applied # None
    /\ proc' = [proc EXCEPT ![h] =
                   [Idle EXCEPT !.pc = "readback", !.event = e,
                                !.intent = d.intent, !.applied = d.applied,
                                !.ledger = d.applied]]
    /\ UNCHANGED <<repoVars, expired>>

ReadbackPasses(e, i, id) ==
    /\ i.shift # None
    /\ \E x \in ledger :
         /\ x.id = id
         /\ x.request = e
         /\ x.predecessor # None
         /\ shifts[i.shift] =
              [owner |-> i.to, version |-> x.shift_version, head |-> id]
         /\ scheduleVersion = x.schedule_version

\* get_run and get_ledger_event (an edge never changes once written).
Readback(h) ==
    LET p == proc[h] IN
    /\ p.pc = "readback"
    /\ Goto(h, IF ReadbackPasses(p.event, p.intent, p.ledger)
               THEN "attest" ELSE "unreadable")
    /\ UNCHANGED <<repoVars, expired>>

Unreadable(h) ==
    LET p == proc[h] IN
    /\ p.pc = "unreadable"
    /\ SaveRequest(p.event, "FAILED", p.intent, p.applied)
    /\ Return(h, "FAILED")
    /\ UNCHANGED expired

\* save_verification reads the request outside its transaction ...
Attest(h) ==
    LET p == proc[h] IN
    /\ p.pc = "attest"
    /\ IF events[p.event].applied = None
       THEN Return(h, "RAISED")
       ELSE proc' = [proc EXCEPT ![h].pc = "record",
                                 ![h].ledger = events[p.event].applied]
    /\ UNCHANGED <<repoVars, expired>>

\* ... and then runs it.
Record(h) ==
    LET p == proc[h] IN
    /\ p.pc = "record"
    /\ SaveVerification(p.event, p.ledger)
    /\ Goto(h, "publish")
    /\ UNCHANGED expired

Publish(h) ==
    LET p == proc[h] IN
    /\ p.pc = "publish"
    /\ SaveRequest(p.event, "VERIFIED", p.intent, p.applied)
    /\ Return(h, "VERIFIED")
    /\ UNCHANGED expired

-----------------------------------------------------------------------------
EngineStep(h) ==
    \/ ReadExisting(h) \/ Validate(h) \/ Lookup(h) \/ Save(h) \/ Confirm(h)
    \/ Commit(h) \/ CommitRefused(h) \/ Replay(h) \/ Conflict(h) \/ Reread(h)
    \/ Readback(h) \/ Unreadable(h) \/ Attest(h) \/ Record(h) \/ Publish(h)

\* The caller takes the result, or the instance dies and forgets the call.
Collect(h) ==
    /\ proc[h].pc = "returned"
    /\ proc' = [proc EXCEPT ![h] = Idle]
    /\ UNCHANGED <<repoVars, expired>>

Crash(h) ==
    /\ proc[h].pc \notin {"idle", "returned"}
    /\ proc' = [proc EXCEPT ![h] = Idle]
    /\ UNCHANGED <<repoVars, expired>>

\* The intent a caller hands to process: a parse of the event's message, or
\* the stored intent completed with the recorded confirmation.
CallableIntents(e) ==
    Parses[e] \cup
    {Confirmed(i, v.by) : i \in {events[e].intent} \ {None},
                          v \in {events[e].evidence} \ {None}}

\* The other writers of the run: scheduling, confirmations, reliability.
OtherWriter ==
    /\ \/ SomeSchedule \/ SomeConfirmation
       \/ SomeReliabilityStep
       \/ ReliabilityProof /\ ConfigureFailureInjection
    /\ UNCHANGED <<proc, expired>>

EngineNext ==
    \/ \E h \in Handlers :
         \/ \E e \in Events : \E i \in CallableIntents(e) : Call(h, e, i)
         \/ \E e \in Events : CallVerify(h, e)
         \/ EngineStep(h)
         \/ Collect(h)
         \/ Crash(h)
    \/ OtherWriter

EngineSpec == EngineInit /\ [][EngineNext]_engineVars

=============================================================================
