-------------------------- MODULE EngineProperties --------------------------
(***************************************************************************)
(* What concurrent calls of the engine guarantee together.                 *)
(***************************************************************************)
EXTENDS Engine

\* No worker ever holds two shifts that overlap, and everyone who received a
\* shift is available for it, although the rule is checked on a snapshot
\* several calls before the commit and two commits touch different shifts:
\* the schedule version compared by commit_transfer must catch the skew.
FeasibleRoster ==
    /\ \A s, t \in Shifts :
          s # t /\ shifts[s].owner = shifts[t].owner => ~Overlap(s, t)
    /\ \A s \in Shifts :
          shifts[s].version > 0 => IsAvailable(shifts[s].owner, s)

\* Every transfer has the consent of its recipient: either the message itself
\* carries it, or confirmation evidence by that very worker is on the request.
Consented ==
    \A x \in ledger : x.request # None =>
        \/ \E i \in StorableParses(x.request) :
              i.confirmation = "PRESENT" /\ i.by = x.to
        \/ /\ events[x.request].evidence # None
           /\ events[x.request].evidence.by = x.to

\* However often and however concurrently a request is processed, crashed and
\* processed again, it moves custody at most once.
SingleEffect ==
    \A x, y \in ledger : x.request # None /\ x.request = y.request => x = y

\* Every transfer is one its message asks for unambiguously, and one that depends
\* on another request extends an edge applied for that request, which is
\* verified: never an edge applied but not yet verified.  It is the very edge the
\* verification is about as long as no request took effect twice.
BuiltOnVerified ==
    \A x \in ledger : x.request # None =>
        \E i \in Intents(x.request) :
            /\ <<i.type, i.ambiguous>> = <<"TRANSFER_SHIFT", FALSE>>
            /\ <<i.shift, i.from, i.to>> = <<x.shift, x.from, x.to>>
            /\ i.dependency # None =>
                 \E y \in ledger, v \in verifications :
                    /\ y.id = x.predecessor
                    /\ {y.request, v.request} = {i.dependency}
                    /\ SingleEffect => v.applied = y.id

\* Whoever reads from the event document that a transfer is VERIFIED can find
\* its verification record, whatever else the message was taken for meanwhile
\* (a confirmation is VERIFIED without one).
VerifiedIsBacked ==
    \A e \in Events :
        /\ events[e].status = "VERIFIED"
        /\ events[e].intent.type = "TRANSFER_SHIFT"
        => IsVerified(e)

\* The assertion of process after a successful commit: the request it reads
\* back is APPLIED.
CommittedIsApplied ==
    \A h \in Handlers :
        proc[h].pc = "reread" => events[proc[h].event].status = "APPLIED"

-----------------------------------------------------------------------------
\* Every step of every engine call, crash included, is one step the repository
\* takes for arbitrary callers, or none: what holds of RepoSpec holds here.
\* (RepoSpec, with the steps that leave the repository alone named first.)
ImplementsRepository ==
    RepoInit /\ [][UNCHANGED repoVars \/ RepoNext]_repoVars

-----------------------------------------------------------------------------
(* The inductive strengthening of the invariants above.                    *)

\* An event's document is about its own message and its own edges.
DocumentsOwn ==
    \A e \in Events :
        /\ events[e].intent \in Intents(e) \cup {None}
        /\ events[e].applied \in AppliedIds(e)

InCall(h) == proc[h].pc \notin {"idle", "returned"}

\* What a call has read is about its own event: a message, an applied edge, the
\* edge to be verified; a new edge stands for an intent that is stored.
CallReads(h) ==
    LET p == proc[h] IN
    /\ p.pc = "idle" => p = Idle
    /\ InCall(h) =>
         /\ p.event \in Events
         /\ p.applied \in AppliedIds(p.event)
         /\ p.intent \in Intents(p.event) \cup
                          (IF p.pc = "existing" THEN Parses[p.event] ELSE {})
    /\ p.pc = "reread" => events[p.event].intent \in Intents(p.event)
    /\ p.pc \in {"reread", "readback", "attest", "record"} =>
         p.ledger \in AppliedIds(p.event) \ {None}
    /\ p.pc = "publish" => IsVerified(p.event)

\* A call about to commit a transfer.
ReadyTransfer(h) ==
    /\ proc[h].pc \in {"lookup", "save", "commit"}
    /\ proc[h].decision.state = "READY"
    /\ proc[h].intent.type # "CONFIRM_REQUEST"

\* A decision is one of the rules' outcomes; a READY transfer was decided on
\* versions and a head the run had then, and while the schedule version is still
\* that one its recipient still fits.
CallDecides(h) ==
    LET p == proc[h]
        i == proc[h].intent
        d == proc[h].decision
    IN
    /\ p.pc \in {"lookup", "save", "commit"} =>
         d \in Decision
    /\ p.pc \in {"lookup", "save"} =>
         d.state \in {"REJECTED", "NEEDS_CLARIFICATION", "WAITING_CONFIRMATION", "READY"}
    /\ p.pc \in {"lookup", "commit"} => d.state = "READY"
    /\ p.pc = "commit" => i.type # "CONFIRM_REQUEST"
    /\ p.pc = "confirm" => i.type = "CONFIRM_REQUEST"
    /\ ReadyTransfer(h) =>
         /\ <<i.type, i.ambiguous>> = <<"TRANSFER_SHIFT", FALSE>>
         /\ i.shift \in Shifts /\ {i.from, i.to} \subseteq Workers
         /\ d.schedule \in 0..scheduleVersion
         /\ d.version \in 0..shifts[i.shift].version
         /\ \E x \in ledger : x.id = d.head
         /\ d.schedule = scheduleVersion => RecipientFits(i)

CallsInv ==
    /\ DocumentsOwn
    /\ \A h \in Handlers : CallReads(h) /\ CallDecides(h)

\* A VERIFIED that no record backs is that of a confirmation.
StatusBacked ==
    \A e \in Events :
        events[e].status = "VERIFIED" =>
            \/ IsVerified(e)
            \/ /\ events[e].intent \in Intents(e)
               /\ events[e].intent.type = "CONFIRM_REQUEST"

\* The edge a dependent transfer extends is one of the verified dependency: once
\* the lookup has passed, and for ever after the commit.
ExtendsVerified(i, id) ==
    i.dependency # None =>
        \E y \in ledger, v \in verifications :
            y.id = id /\ {y.request, v.request} = {i.dependency}

LookupsHold ==
    \A h \in Handlers :
        ReadyTransfer(h) /\ proc[h].pc # "lookup" =>
            ExtendsVerified(proc[h].intent, proc[h].decision.head)

EdgesAsked ==
    \A x \in ledger : x.request # None =>
        \E i \in Intents(x.request) :
            /\ <<i.type, i.ambiguous>> = <<"TRANSFER_SHIFT", FALSE>>
            /\ <<i.shift, i.from, i.to>> = <<x.shift, x.from, x.to>>
            /\ ExtendsVerified(i, x.predecessor)

\* Where an intent about an event may come from: its message, or its message and
\* the evidence on record.
ConsentedIntents(e) ==
    StorableParses(e) \cup
    {Confirmed(i, v.by) : i \in StorableParses(e),
                          v \in {events[e].evidence} \ {None}}

ConsentKept ==
    /\ \A e \in Events : events[e].intent \in ConsentedIntents(e) \cup {None}
    /\ \A h \in Handlers : InCall(h) =>
         proc[h].intent \in ConsentedIntents(proc[h].event) \cup
             (IF proc[h].pc = "existing" THEN Parses[proc[h].event] ELSE {})

-----------------------------------------------------------------------------
(* What a run's seed and messages must be like for some of the above.      *)

\* The seed double-books nobody.
SeedFeasible ==
    \A s, t \in Shifts :
        s # t /\ OriginalOwner[s] = OriginalOwner[t] => ~Overlap(s, t)

\* A message another one depends on asks for a transfer, and is never taken for
\* a confirmation.
DependenciesAreTransfers ==
    \A e \in Events : \A i \in StorableParses(e) :
        i.dependency # None =>
            \A j \in StorableParses(i.dependency) : j.type # "CONFIRM_REQUEST"

\* What a message may be taken to ask for.
TransfersAsked(e) ==
    {i \in StorableParses(e) : <<i.type, i.ambiguous>> = <<"TRANSFER_SHIFT", FALSE>>}

\* Each message asks one worker for one shift, and the messages hand a shift only
\* up some ranking of the workers: together they never bring it back.
MovesForward(rank) ==
    \A e \in Events : \A i, j \in TransfersAsked(e) :
        /\ <<i.shift, i.from>> = <<j.shift, j.from>>
        /\ rank[i.shift][i.from] < rank[i.shift][i.to]

\* The owner of a moved shift ranks above everyone who gave it away.
OwnersAdvance(rank) ==
    \A x \in ledger : x.request # None =>
        /\ \E i \in TransfersAsked(x.request) :
              <<i.shift, i.from>> = <<x.shift, x.from>>
        /\ rank[x.shift][x.from] < rank[x.shift][shifts[x.shift].owner]

=============================================================================
