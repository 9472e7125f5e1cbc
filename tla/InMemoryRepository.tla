------------------------- MODULE InMemoryRepository -------------------------
(***************************************************************************)
(* InMemoryRepository (repository.py), the store of the demo, the tests    *)
(* and the feasibility check.  One lock makes every method one action;     *)
(* dictionaries are functions, and writing a key replaces what it held.    *)
(* Unlike the Firestore transactions its commit looks at neither the       *)
(* ledger id it is about to write nor the consent of the stored intent,    *)
(* and it moves custody before it notices that the request was never       *)
(* saved.  As in FirestoreRepository, callers may call anything with what  *)
(* they read at any time.                                                  *)
(***************************************************************************)
EXTENDS Models

CONSTANTS
    MaxScheduleVersion,  \* bound on the commits of a run
    SavedStates          \* the states its callers save

ASSUME InMemoryBounds ==
    MaxScheduleVersion \in Nat /\ SavedStates \subseteq RequestState

VARIABLES
    scheduleVersion,  \* _runs: schedule_version of the one run
    shifts,           \* _runs: owner, version and custody head per shift
    requests,         \* _requests, None where nothing was saved
    ledger,           \* _ledger: custody edge per ledger id
    verifications     \* _verifications: ledger id per request, or None

memoryVars == <<scheduleVersion, shifts, requests, ledger, verifications>>

RequestRecord == [state : RequestState, applied : Optional(LedgerId)]

InMemoryTypeOK ==
    /\ scheduleVersion \in Nat
    /\ shifts \in [Shifts -> [owner : Workers, version : Nat, head : LedgerId]]
    /\ requests \in [Events -> Optional(RequestRecord)]
    /\ DOMAIN ledger \subseteq LedgerId
    /\ ledger \in [DOMAIN ledger -> CustodyLedgerEvent]
    /\ verifications \in [Events -> Optional(DOMAIN ledger)]

\* The constructor, given initial_ledger_for the run.
InMemoryInit ==
    /\ scheduleVersion = 0
    /\ shifts = [s \in Shifts |->
                    [owner |-> OriginalOwner[s], version |-> 0, head |-> <<s, 0>>]]
    /\ requests = [e \in Events |-> None]
    /\ ledger = [id \in Shifts \X {0} |-> InitialEdge(id[1])]
    /\ verifications = [e \in Events |-> None]

\* save_request replaces the record.
SaveRequest(e, state, applied) ==
    /\ requests' = [requests EXCEPT ![e] = [state |-> state, applied |-> applied]]
    /\ UNCHANGED <<scheduleVersion, shifts, ledger, verifications>>

\* The stored request remembers its edge: commit_transfer answers "idempotent".
CommitIsReplay(c) ==
    requests[c.request] # None /\ requests[c.request].applied # None

\* A mutant without the comparison of the owner.
ComparesVersions(c) ==
    /\ scheduleVersion = c.expected_schedule_version
    /\ shifts[c.shift].version = c.expected_shift_version
    /\ shifts[c.shift].head = c.expected_custody_head

Comparisons(c) ==
    /\ scheduleVersion = c.expected_schedule_version
    /\ shifts[c.shift].version = c.expected_shift_version
    /\ shifts[c.shift].head = c.expected_custody_head
    /\ shifts[c.shift].owner = c.from

\* Mutants: an id that is no pair, and one that is the same every time.
LedgerIdOfRequest(c) == c.request

LedgerIdOncePerRequest(c) == <<c.request, 1>>

NewLedgerId(c) == <<c.request, shifts[c.shift].version + 1>>

NewEdge(c) ==
    [id               |-> NewLedgerId(c),
     shift            |-> c.shift,
     request          |-> c.request,
     from             |-> c.from,
     to               |-> c.to,
     predecessor      |-> shifts[c.shift].head,
     shift_version    |-> shifts[c.shift].version + 1,
     schedule_version |-> scheduleVersion + 1]

\* The shift after the transfer; the mutant forgets the head.
TransferredKeepingHead(c) ==
    [shifts[c.shift] EXCEPT !.owner = c.to, !.version = @ + 1]

TransferredShift(c) ==
    [owner |-> c.to, version |-> shifts[c.shift].version + 1,
     head  |-> NewLedgerId(c)]

\* commit_transfer.  Without a saved request it raises, but only after edge and
\* run are written.
CommitTransfer(c) ==
    /\ ~CommitIsReplay(c) /\ Comparisons(c)
    /\ scheduleVersion < MaxScheduleVersion
    /\ ledger' = [id \in DOMAIN ledger \cup {NewLedgerId(c)} |->
                     IF id = NewLedgerId(c) THEN NewEdge(c) ELSE ledger[id]]
    /\ shifts' = [shifts EXCEPT ![c.shift] = TransferredShift(c)]
    /\ scheduleVersion' = scheduleVersion + 1
    /\ requests' = IF requests[c.request] = None THEN requests
                   ELSE [requests EXCEPT ![c.request] =
                            [state |-> "APPLIED", applied |-> NewLedgerId(c)]]
    /\ UNCHANGED verifications

\* save_verification: setdefault.
SaveVerification(e, id) ==
    /\ verifications' =
         [verifications EXCEPT ![e] = IF @ = None THEN id ELSE @]
    /\ UNCHANGED <<scheduleVersion, shifts, requests, ledger>>

-----------------------------------------------------------------------------
(* Arbitrary callers, with a command built from an intent of the event and *)
(* any readings of the run.                                                *)

EdgesOf(e) == {id \in DOMAIN ledger : ledger[id].request = e}

SomeTransfer ==
    \E e \in Events : \E i \in Intents(e), sv \in 0..scheduleVersion, h \in DOMAIN ledger :
        /\ None \notin {i.shift, i.from, i.to}
        /\ \E v \in 0..shifts[i.shift].version :
             CommitTransfer([request |-> e, shift |-> i.shift,
                             from |-> i.from, to |-> i.to,
                             expected_schedule_version |-> sv,
                             expected_shift_version    |-> v,
                             expected_custody_head     |-> h])

SomeSave ==
    \E e \in Events, st \in SavedStates : \E a \in EdgesOf(e) \cup {None} :
        SaveRequest(e, st, a)

SomeVerification == \E e \in Events : \E id \in EdgesOf(e) : SaveVerification(e, id)

InMemoryNext == SomeTransfer \/ SomeSave \/ SomeVerification

InMemorySpec == InMemoryInit /\ [][InMemoryNext]_memoryVars

-----------------------------------------------------------------------------
(* The requirements of the Firestore repository, held against this store.  *)

\* The edges get_ledger_event can return.
Edges == {ledger[id] : id \in DOMAIN ledger}

Contract == INSTANCE RepositoryProperties
    WITH ledger        <- Edges,
         events        <- requests,
         verifications <- {},
         noops         <- {},
         fault         <- "OFF",
         MaxGeneration <- 0

\* The in-memory store keeps its run document and its ledger in the same
\* unforked, gapless and serial relation as the transactions do.
KeepsCustody == Contract!CustodyInv

\* Every commit, also one that raises afterwards, appends one hand-over by the
\* current owner to the serial history.
KeepsLog == Contract!ImplementsCustodyLog

\* The walk of custody_chain from any head visits one edge per version, down to
\* the initial assignment, and never meets a gap or a cycle.
WalksBack == Contract!ChainWalksBack

-----------------------------------------------------------------------------
(* The inductive strengthening of the custody invariant: an edge is stored  *)
(* under its id, the id tells its request and version, and the request its  *)
(* shift.  That is why a commit never replaces an edge, unlooked.           *)

\* However a message is read, it is about one shift.
OneShiftEach ==
    \A e \in Events : \A i, j \in Intents(e) :
        None \notin {i.shift, j.shift} => i.shift = j.shift

\* Who an edge was written for: its request, or its shift where it was seeded.
WrittenFor(x) == IF x.request = None THEN x.shift ELSE x.request

IdsTellEdges ==
    \A id \in DOMAIN ledger :
        LET x == ledger[id] IN
        /\ x.id = id
        /\ id = <<WrittenFor(x), x.shift_version>>
        /\ x.request # None => \E i \in Intents(x.request) : i.shift = x.shift

MemoryInv == InMemoryTypeOK /\ IdsTellEdges /\ KeepsCustody

=============================================================================
