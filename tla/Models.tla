------------------------------- MODULE Models -------------------------------
(***************************************************************************)
(* The data the whole program speaks: workers, shifts with their times,    *)
(* source events, structured intents, custody edges (models.py) and the    *)
(* seed of a run (frozen_data.py).                                         *)
(*                                                                         *)
(* Every source event of a run has a request id of its own and no two      *)
(* events share one, so a request is named by its event.  A ledger id      *)
(* "ledger:REQ:vN" is the pair <<request, N>> and "ledger:initial:S" is    *)
(* <<S, 0>>.  Confidence, language, quotes, labels and timestamps other    *)
(* than the shift times are left out: no decision of the code reads them.  *)
(***************************************************************************)
EXTENDS Integers

CONSTANTS
    Workers,        \* worker ids of the run
    Shifts,         \* shift ids of the run
    Events,         \* source events of the run, each naming its request
    None,           \* an absent optional field
    OriginalOwner,  \* [Shifts -> Workers], the owner in the initial ledger
    StartAt,        \* [Shifts -> Int], hour at which a shift starts
    EndAt,          \* [Shifts -> Int], hour at which a shift ends
    Availability,   \* [Workers -> SUBSET (Int \X Int)], availability windows
    Parses,         \* [Events -> SUBSET StructuredIntent], what the parser
                    \* may make of an event's message
    Authorized,     \* the run document's authorized flag
    AwaitingEvent,  \* EVT-003 / REQ-003, the request that waits for consent
    ConfirmingEvent \* EVT-004, the event that brings the consent

ASSUME NamesDistinct ==
    /\ Shifts \cap Events = {}
    /\ None \notin Workers \cup Shifts \cup Events
    /\ None \notin (Shifts \cup Events) \X Nat
    /\ None \notin [source : Events, by : Workers]

ASSUME SeedWellFormed ==
    /\ OriginalOwner \in [Shifts -> Workers]
    /\ StartAt \in [Shifts -> Int]
    /\ EndAt \in [Shifts -> Int]
    /\ \A w \in Workers : Availability[w] \subseteq Int \X Int
    /\ Authorized \in BOOLEAN
    /\ {AwaitingEvent, ConfirmingEvent} \subseteq Events \cup {None}

Optional(S) == S \cup {None}

RequestState ==
    {"RECEIVED", "NEEDS_CLARIFICATION", "WAITING_CONFIRMATION", "READY",
     "APPLIED", "VERIFIED", "REJECTED", "FAILED"}

IntentType == {"TRANSFER_SHIFT", "CONFIRM_REQUEST", "UNKNOWN"}

\* The shape every intent has after StructuredIntent.validate_shape.
ValidShape(i) ==
    /\ i.type = "TRANSFER_SHIFT" =>
          i.ambiguous \/ None \notin {i.from, i.to, i.shift}
    /\ i.type = "CONFIRM_REQUEST" => None \notin {i.target, i.by}

StructuredIntent ==
    {i \in [source       : Events,
            type         : IntentType,
            from         : Optional(Workers),
            to           : Optional(Workers),
            shift        : Optional(Shifts),
            target       : Optional(Events),
            dependency   : Optional(Events),
            confirmation : {"PRESENT", "ABSENT"},
            by           : Optional(Workers),
            decision     : {"ACCEPT", "DECLINE", "NOT_APPLICABLE"},
            ambiguous    : BOOLEAN] : ValidShape(i)}

\* The requests candidate_context offers: those that ask for a transfer.
RequestCandidates == Events \ {ConfirmingEvent}

\* The parser raises on any id outside the candidates it was given: of workers
\* and shifts, which the sets above state, and of requests.
EnforceCandidateBoundary(i) ==
    {i.target, i.dependency} \subseteq Optional(RequestCandidates)

ASSUME ParsesWellFormed ==
    /\ None \notin StructuredIntent
    /\ \A e \in Events :
          /\ Parses[e] \subseteq StructuredIntent
          /\ \A i \in Parses[e] : EnforceCandidateBoundary(i)

\* An intent completed with a recorded confirmation (model_copy in
\* CloudWorkflow.resume).  The first form is a mutant that takes the recipient
\* for the confirming worker.
ConfirmedByRecipient(i, w) == [i EXCEPT !.confirmation = "PRESENT", !.by = i.to]

Confirmed(i, w) == [i EXCEPT !.confirmation = "PRESENT", !.by = w]

\* What the program may ever store as an event's intent: a parse of its message
\* that names it as its source (the engine rejects others unstored), or that
\* parse completed with a confirmation.
StorableParses(e) == {i \in Parses[e] : i.source = e}

StorableIntents ==
    [e \in Events |-> StorableParses(e) \cup
        {Confirmed(i, w) : i \in StorableParses(e), w \in Workers}]

Intents(e) == StorableIntents[e]

LedgerId == (Shifts \cup Events) \X Nat

\* A custody edge: an INITIAL_ASSIGNMENT (request None) or a TRANSFER_APPLIED.
CustodyLedgerEvent ==
    [id               : LedgerId,
     shift            : Shifts,
     request          : Optional(Events),
     from             : Optional(Workers),
     to               : Workers,
     predecessor      : Optional(LedgerId),
     shift_version    : Nat,
     schedule_version : Nat]

TransferCommit ==
    [request                   : Events,
     shift                     : Shifts,
     from                      : Workers,
     to                        : Workers,
     expected_schedule_version : Nat,
     expected_shift_version    : Nat,
     expected_custody_head     : LedgerId]

\* AvailabilityWindow.covers and the overlap test of the engine.
Covers(window, s) == window[1] <= StartAt[s] /\ EndAt[s] <= window[2]

IsAvailable(w, s) == \E window \in Availability[w] : Covers(window, s)

Overlap(s, t) == StartAt[s] < EndAt[t] /\ StartAt[t] < EndAt[s]

\* initial_ledger_for: the assignment every shift starts from.
InitialEdge(s) ==
    [id               |-> <<s, 0>>,
     shift            |-> s,
     request          |-> None,
     from             |-> None,
     to               |-> OriginalOwner[s],
     predecessor      |-> None,
     shift_version    |-> 0,
     schedule_version |-> 0]

=============================================================================
