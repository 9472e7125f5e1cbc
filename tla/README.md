# A verification of ShiftChain

ShiftChain moves responsibility for shifts between workers. Messages ("source
events") are parsed by a language model, checked by deterministic rules,
committed to Firestore by compare-and-swap, verified by reading back, and, when
the recipient's consent is missing, parked until a Cloud Task resumes them. This
directory holds TLA+ models of that path, TLC configurations that check them on
small instances, and theorems that TLAPS proves for all instances.

All paths below are relative to the repository; code is under `src/shiftchain/`.

## 1. Inventory

| component | state | operations | interacts with |
|---|---|---|---|
| domain model, `models.py` | none | shape rule of intents, window cover | everybody |
| Firestore repository, `firestore_repository.py` | run document (schedule version; owner, version, head per shift; fault injection), event documents (status, intent, applied id, verification id, generation, evidence), ledger collection (custody edges, verifications, no-op evidence) | blind `save_request`; transactions `commit_transfer`, `save_verification`, `persist_schedule`, `record_confirmation_and_schedule`, `consume_failure_injection`, `verify_existing_effect`, `configure_failure_injection`; `next_demo_run_id`, `seed_frozen_run`; reads | engine, workflow, agent |
| in-memory repository, `repository.py` | the same data under one lock, without schedules and evidence | the `ShiftChainRepository` interface | engine in tests, demo and feasibility check |
| engine, `engine.py` | none between calls; locals of a call | `process`, `validate`, `verify_outcome` | a repository, the clock |
| workflow, `cloud_workflow.py` | locals of a request | `reset`, `deliver`, `resume` | agent, engine, repository, queue |
| agent, `agent.py` | parsed intents of one agent run | four tools; only `apply_decision` writes | parser, engine |
| queue, `tasks.py` and Cloud Tasks | named tasks | create; dispatch, retry, duplicate | task route |
| routes and page, `web.py`, `judge_ui.html` | run id and busy flag of the page | deliver, reset, task endpoint | workflow |
| parser, `parser.py` | none | one model call, retried on 429 and 503; candidate boundary | agent, feasibility check |
| feasibility check, `gemini_check.py` | a report file, also its checkpoint | `run_check` | parser, agent, in-memory repository |
| OIDC, configuration, logging, demo script | none the protocol depends on | | |

What is hard here:

* **No transaction spans a call of the engine.** It reads the request, the run
  and the dependency, writes the request blindly, commits in a transaction,
  reads again, verifies in another transaction and writes blindly again. Two
  service instances, a deliver request and a task, or two deliveries of one task
  interleave between any two of these calls.
* **At-least-once tasks.** Retries, late duplicates, overlapping duplicates, and
  tasks created *before* the transaction that makes their generation current.
* **Crashes** between any two calls, with nothing but Firestore and the queue
  left to recover from; for the feasibility check, with nothing but a file that
  may be half written.
* **One counter for everything.** The run-wide schedule version is what keeps two
  individually valid transfers from clashing, and it is also compared in places
  where an unrelated transfer is harmless.
* **Check, then write.** A reset lists the runs, looks whether the next number
  exists, writes a batch and arms the fault in four separate calls.

What makes each part correct:

* Repository: the custody ledger is one serial, unforked history that the run
  document agrees with, whoever calls it in whatever order; evidence is truthful
  and write-once.
* Engine: no worker is ever double-booked; no transfer without its recipient's
  consent; a dependent transfer extends exactly what was verified; a request
  takes effect once.
* Workflow: no wake-up is lost; a verified transfer stays verified; a recorded
  confirmation is carried out without another click, across crashes; a repeated
  delivery only reads back.
* Reset: a run that was handed out is not taken over, and is what was asked for.
* Feasibility check: PASS is earned under the contract it names, and an
  interrupted check neither forgets nor repeats what it paid for.

The hazards, each with its line and the properties aimed at it, are listed under
`hazards` in `PROJECT.json`.

## 2. Modules

```
Models  <-  FirestoreRepository  <-  Engine  <-  CloudWorkflow --INSTANCE--> CloudTasks
  ^ ^           ^                      ^              ^
  | |      RepositoryProperties   EngineProperties  WorkflowProperties --INSTANCE--> Handoff
  | |         |   \--INSTANCE--> CustodyLog   ^              ^
  | |         ^                              |              |
  | |      RepositoryProofs      <-     EngineProofs  <- WorkflowProofs <- WakeUpProofs
  | InMemoryRepository --INSTANCE--> RepositoryProperties
  |      ^
  | InMemoryProofs --INSTANCE--> RepositoryProofs
FrozenData
DemoReset   <-  DemoResetProofs
GeminiCheck <-  GeminiCheckProofs
NaturalNumbers (lemmas) is extended by RepositoryProofs and DemoResetProofs.
MCRepository, MCInMemory, MCEngine, MCOverlap, MCWorkflow, MCDemoReset and
MCGeminiCheck give them their instances for TLC.
```

* **Models** – constants of a run, intents, edges, commands, the overlap and
  availability tests. A request is named by its event (they are in one-to-one
  correspondence); the ledger id `ledger:REQ:vN` is `<<REQ, N>>`. What the parser
  may answer is the constant `Parses`; a message may have several readings.
* **FirestoreRepository** – one action per transaction or blind write.
  `RepoNext` offers them to *arbitrary callers*: commands built from any storable
  intent and any old mixture of versions and heads, saves of any state in
  `SavedStates` with any applied id the event ever had. Whatever holds there
  holds for every caller. A refused or idempotent commit changes nothing and
  belongs to the caller. Left out: timestamps, `last_result`, activity lists.
* **RepositoryProperties** – the requirements; `CustodyLog` is the abstract
  promise: a growing list of hand-overs, each by the worker who holds the shift
  at that moment. The n-th entry is the edge that produced schedule version n.
* **InMemoryRepository** – every writing method is one action, for the one lock.
  It differs from the transactions where the code does: its commit looks up no
  ledger id, a colliding id replaces the older edge, consent is not read, and a
  commit for a request that was never saved moves custody and raises afterwards.
  It is held against the *same* requirements: `Contract` instantiates
  `RepositoryProperties` with the dictionary read as a set of edges.
* **Engine** – `proc[h]` holds the locals of the call handler `h` is in. Each
  action is one repository call with the decision taken on its answer: `existing`
  (get_request), `validate` (get_run), `lookup` (dependency or confirmation
  target), `save`, `confirm`, `commit`, `replay`, `conflict`, `reread`,
  `readback`, `unreadable`, `attest`/`record` (the outside read and the
  transaction of save_verification), `publish`. The rules are evaluated in the
  order of the code; the two that the parser's candidate boundary makes
  unreachable are left out. Only `validate` looks at the clock: `expired` says
  that some validation found the run expired, and stays true.
* **CloudTasks** (external) – the queue as the service relies on it.
* **CloudWorkflow** – `wf[h]` holds the locals of `deliver` or `resume`. The
  agent may call its tools in any order, up to `MaxApplies` applications, or none.
  The tools take the `event_id` the language model passes: with
  `KeepsToEvent = FALSE` an agent run may also apply any other event of the run
  (`ApplyOther`), under the route of the event delivered. With `JudgeUI` the
  deliveries come from one page, which has its run from an answered reset, offers
  RECEIVED events only, and waits for one answer at a time (`watched`); loaded
  again, or after a failed fetch, it waits no more while the service goes on
  (`PageGivesUp`).
  `Finish` joins the fault consumption with the answer: the transaction is the
  last write of the request.
* **Handoff** – the abstract life of one request that waits for consent: one
  confirmation, one move to the confirming worker, one attestation, nothing
  taken back. `AwaitedHandoff` maps it to evidence, edges and verification record.
* **DemoReset** – the four steps of `reset` for several requests at once, each of
  which may be cut off, while transfers are committed in runs already handed
  out. A run is its number; of its documents the module keeps the version, the
  transfer edges and the fault. `overlapped` is a history variable: the pairs of
  resets that were once in progress together.
* **GeminiCheck** – the script as it is run again and again: resuming from the
  report, model calls with retries, the write after every answer, a failing or
  torn write, death anywhere, and code or prompt edited in between. A torn file is
  no JSON, and the next run starts afresh, or no UTF-8 (`Garbled`), and no run starts
  any more, because `gemini_check.py:27` does not catch that error. `earned` is a
  history variable: what the model ever got right, under which contract. One
  run at a time: two at once would each write their own whole report.
* **FrozenData** – the seeded run of `frozen_data.py`.

Three layers are tied together by refinement. Each step of the service is one
that `EngineSpec` allows its arbitrary callers (`ImplementsEngine`), each step of
the engine is one that `RepoSpec` allows its arbitrary callers
(`ImplementsRepository`), and each step of the repository is a hand-over of the
abstract log or leaves it alone (`ImplementsCustodyLog`). What is proved of the
repository therefore reaches the service. All three links are proved
(`WorkflowImplementsEngine`, `EngineImplementsRepository`,
`RepositoryImplementsCustodyLog`), as are the two beside them: the in-memory store
to the log (`InMemoryImplementsCustodyLog`), and the service to the handoff
(`AwaitingRequestIsHandedOff`).

Definitions that differ from the code by one plausible mistake (a dropped
comparison, a swapped test) stand just before the definition they vary and are
marked as mutants. They are used only to show that a property can fail.

## 3. Runs

| run | question | instance | states |
|---|---|---|---|
| Repository | Is the ledger one serial unforked history under arbitrary callers, and evidence truthful and write-once? Does it implement CustodyLog? | 2 workers, 2 shifts, 2 requests, one of them readable for either shift, the other handing back; 2 commits, 1 generation | 57 300 |
| InMemory | Does the in-memory store keep the same requirements? | 2 workers, 2 shifts, 3 requests of one reading each, one handing back; 3 commits | 7 600 |
| EngineRaces | Can concurrent calls double-book a worker, build on what is not verified, or leave VERIFIED without a record? Is each engine step a repository step? | 2 handlers, 3 workers, 3 shifts, 2 messages of which one has five readings; 2 commits | 729 000 |
| WorkflowConfirm | Are wake-ups never lost, is VERIFIED never taken back, is what was confirmed carried out and the injected 503 repaired? | page, EVT-001/3/4 with one repeated delivery, sequential duplicates, 1 crash or 1 give-up of the page, expiry, fault armed, fair | 243 700 |
| WorkflowRaces | Single effect and consent when the routes are used at any time and duplicates overlap; the handoff; is the service a caller of the engine? | EVT-003 and EVT-004 with one repeated delivery, EVT-004 with refusing or foreign answers, an agent that may apply either in either delivery, 1 crash, expiry | 1 246 000 |
| DemoReset | Which resets can share or lose a run, and when does one give up? | 4 resets, one asking for the proof; listings see numbers 1 and 2 | 246 000 |
| GeminiCheck | Is PASS earned, nothing asked twice, progress kept? | 3 fixtures, 2 contracts, 4 attempts | 161 500 |
| EngineAssertion, EngineDoubleEffect, WorkflowOverlap, WorkflowCrashedAccept, DemoResetRace | disagreements, see section 5 | | |

**Bounds.** `MaxScheduleVersion` caps commits, `MaxGeneration` resume
generations, `MaxDuplicates` duplicates per task, `MaxRepeats` deliveries of
events delivered before and applications of an event under the route of another, `MaxApplies` applications per agent run, `MaxCrashes`
requests cut off by a dying instance or by an exception (parser, agent,
Firestore, queue), which leave the same trace, `MaxReloads` the times the page
gives up. A give-up counts against `MaxRepeats` and `MaxCrashes` as well, which keeps
`WorkflowConfirm` in reach: with the bounds of 1 it has behaviours with a repeat and a
crash, and behaviours with a give-up. What a delivery repeated over one still in
progress does is in `WorkflowRaces`, where no page holds it back. They are guards, so a handler may
stop at a bound; for this reason the workflow runs allow deadlock, as does the
service itself once nothing is left to do. Two commits suffice for a fork or a
skew, and three bring a shift back to its sender; two generations suffice for a
stale, a current and a future one, and let a second wake-up race the
confirmation; two handlers suffice for each of the engine and workflow races in
the hazard list, all of which are between two parties. In `EngineRaces` two
shifts overlap and a third touches one of them; its two handlers may crash at
every call and start again without any budget. Four resets
are enough for one to lose two races while yet another is handed a run;
`LastMatching` is 2 in the run and 999 in the code, so that the numbers end within
reach (the theorems hold for any value).

**Symmetry.** Handlers, and the resets that ask for nothing, differ only in name;
EngineRaces, EngineDoubleEffect, WorkflowRaces and DemoReset, which check no
liveness, reduce by their permutations. The runs with liveness use none.

**Fairness.** `LiveSpec` assumes weak fairness of each handler's steps (Cloud Run
goes on with a request unless the instance dies, which is a step of its own) and
strong fairness of the dispatch of each of the awaiting request's tasks (Cloud
Tasks keeps dispatching a queued task, but may find both handlers busy again and
again). Deliveries, duplicates,
crashes and expiry are not fair. The queue in the models retries without
limit. The real one stops after five attempts (`artifacts/PHASE3_GATE.md:60`),
with seconds of back-off between them; a model without time cannot see that one
transaction ends sooner than that. For safety a limit only removes behaviours.

**What the progress properties concede.** `verify_outcome` (`engine.py:210`) and
`verify_existing_effect` compare the edge's schedule version with the run's. If
an unrelated transfer is committed after that of the waiting request, neither
ever passes again: the transfer stands, but it is marked FAILED, or the repeated
task is refused until the queue gives up. `Overtaken` names that case, and
`ConfirmedIsVerified` and `LostAckIsRepaired` hold up to it; dropping the
exception makes both fail in the very same run. `ConfirmedIsVerified` concedes two
things more. A run that expires after the confirmation was recorded and before the
resumed validation (`engine.py:131`) leaves the request REJECTED, and so does every
retry. And both properties are promised of a page that waits for its answers: if it
gives up on the delivery of EVT-003 and delivers EVT-004 meanwhile, the first
delivery may save over what the task has done, or persist a later generation behind
the confirmation, so that the task that was refused before is stale from then on.

`AcceptedIsRecorded` is an invariant: an accepted confirmation is on record once its
deliveries are answered. It has two exceptions. One is a crash, for the reason
`WorkflowCrashedAccept` shows. The other is a page that gave up: if EVT-003 is still
being delivered, its wake-up may be persisted between the reading of the target's
generation and the recording of the confirmation, which is then dropped as a
GENERATION_CONFLICT (`firestore_repository.py:568`) while the route answers 200. The
run has both, and nothing else loses a confirmation there. With the routes driven
without the page, two deliveries can meet in the same way. The run's confirming message
has one reading; what other readings would have to agree on is the hypothesis
`AnswersAwaiting` of section 4.

`WakeUpCreated` holds throughout; the other half of `WakeUpPending` and
`VerifiedIsFinal` are stated until the page gives up for the first time, since two
writers of one request may meet from then on.

**Single effect.** `SingleEffect` holds in `WorkflowRaces`, where no message hands
a shift back, and fails in `EngineDoubleEffect`, where one does (section 5). What
separates the two is stated as `MovesForward` and is all that the theorem supposes.
`BuiltOnVerified` says that a dependent transfer extends *an* edge of its verified
dependency; that this is the edge the verification is about holds as long as
effects are single, and the property says so.

**Hypotheses.** What theorems suppose of seed and messages beyond the shape that
the code enforces is a named predicate, and the MC modules assert it of their
instances: `FrozenHypotheses` (all six, of the frozen messages and of the refusing
and foreign answers), `OverlapHypotheses`, `MessagesAskOnce`. So the hypotheses hold
of the data the service really has, and `MCOverlap`, whose messages violate
`MovesForward`, shows that that one is not a formality. `WorkflowConfirm` also meets
the three conditions of `WakeUpProofs`, and `WorkflowOverlap` breaks one of them.

**In-memory store.** The run gives each message one reading, as `intent_for` does
for the demo and the tests. With a second reading for another shift the store
can overwrite an edge, because it does not look the ledger id up; the
transactions refuse exactly that.

## 4. Proofs

The proofs hold for all values of the constants that meet the named assumptions:
names are distinct, the seed is well-formed, parses have the validated shape and
stay inside the candidates, bounds are naturals (`Models`, `FirestoreRepository`,
`Engine`, `CloudWorkflow`). Two more only keep names apart that are different
things in the code: `None` is no record, and the awaiting event is not the
confirming one. `EngineSaves` says that the repository's arbitrary callers save at
least what the engine saves. Each inductive invariant was first checked with TLC as
an invariant of the runs above.

Every invariant and every action property of the passing runs is a theorem, and so is
every refinement; `AcceptedIsRecorded` until the page gives up on a delivery, the others
as they stand. Together the refinements make one chain,

```
Spec  =>  EngineSpec  =>  RepoSpec  =>  CustodyLog!Spec
```

so a theorem about a lower layer is one about the layers above it, restated there
where it says something of the service (`ServiceTransfersAreConsented`,
`ServiceEffectsAreSingle`, `ServiceRosterStaysFeasible`, `ServiceBuildsOnVerified`,
`ServiceImplementsCustodyLog`). The specifications proved to be implemented are
written with `UNCHANGED` steps named first
(`[][UNCHANGED repoVars \/ RepoNext]_repoVars`), for TLC's sake.

| theorem supposes | of | because |
|---|---|---|
| `SeedFeasible` | `RosterStaysFeasible` | no rule looks at a seed that is double-booked already |
| `DependenciesAreTransfers` | `TransfersBuildOnVerified` | a confirmation is VERIFIED without an edge |
| `MovesForward(rank)` | `EffectsAreSingle`, `AwaitingRequestIsHandedOff` | false otherwise: `EngineDoubleEffect` |
| `AnswersOneRequest` | `OnlyAcceptancesAreRecorded` | the route records what its own agent run parsed, and looks only at the *status* of the stored event |
| `AwaitsConsent` | `AwaitingRequestIsHandedOff` | a message that carries consent moves without a confirmation |
| `JudgeUI`, `KeepsToEvent`, `~Overlapping` | `WakeUpsAreKept`, `VerifiedStaysVerified`, `AcceptancesAreRecorded` | writers of one request meet otherwise; without the last one `VerifiedStaysVerified` is false: `WorkflowOverlap` |
| `AnswersAwaiting` | `AcceptancesAreRecorded` | after the acceptance the route raises if the agent run went on to parse the message as one that answers nothing (`cloud_workflow.py:116`) |
| `OneShiftEach` | the in-memory store's custody theorems | its commit does not look its ledger id up |

### Repository

`RepositoryProofs`: `RepoTypeCorrect`; `CustodyCorrect` and from it
`HeadsAreCurrent`, `LinksAreSound`, `ChainsDoNotFork`, `TransfersAreSerial`,
`LedgerIdsAreKeys`, `ChainsWalkBack`; `RepositoryImplementsCustodyLog`;
`RecordsAreBacked`, `FaultIsLate`, `EvidenceIsWriteOnce`.

The inductive invariant `CustodyInv` joins the custody properties with facts they
need: `VersionsBounded` (no edge is ahead of its shift's version), so that a new
edge has a version no other edge has and cannot fork the chain; `ScheduleComplete`
(each schedule version was made by a transfer), so that the mapping to the log is
defined; and the seeded edges, where every chain ends. Only `ApplyTransfer`
changes the ledger of edges; its comparisons give each conjunct in turn: owner and
head make the predecessor link, the shift version excludes a fork, the schedule
version makes the order total, the lookup of the ledger id makes ids keys. Every
other action leaves the variables of the invariant alone. The refinement proof maps
`ApplyTransfer` to `HandOver` – the log is extended by the new edge because the old
entries' edges are still the only ones of their schedule versions – and all else
to a stutter.

`ChainsWalkBack` is about the recursive function `Cursor`. From the head, which has the
shift's version, the predecessor links and the seeded edges give an edge of every
smaller version (`ChainComplete`), and the n-th cursor is the edge n versions below
the head (`WalkVisitsVersions`). Both are shown for the set of all n of which they hold:
`NaturalInduction` says that a set with 0 and with all successors of its members
contains every natural. No induction theorem with an operator parameter is needed.

### Engine

`EngineProofs`: `EngineInvariant`, `EngineTypeCorrect`, `EngineImplementsRepository`,
`RosterStaysFeasible`, `VerifiedAlwaysBacked`, `TransfersAreConsented`,
`TransfersBuildOnVerified`, `EffectsAreSingle`; for any number of handlers, calls and
crashes.

`EngineInv` relates a handler's locals to documents that others have changed since:

* `CallReads`: what a call holds as `ledger` or `applied` is an edge of its request;
* `CallDecides`: a decision's versions and head were once those of the run, so they
  are at most the present ones; *and if the schedule version is still the one
  decided on, the recipient still fits*, because every change of an owner raises
  it. This is what makes a rule evaluated several calls before the
  commit good at the commit, and `RosterStaysFeasible` follows from it.
* `DocumentsOwn`: an event's applied id is an edge of its request.

On top of it, each theorem adds what it needs: `StatusBacked` (a VERIFIED that no
record backs is a confirmation's), `LookupsHold` and `EdgesAsked` (what the
dependency lookup found is still in the ledger at the commit and ever after),
`ConsentKept` (an intent is the message's own, or the message's with evidence on
record), `OwnersAdvance` (the owner of a moved shift ranks above everyone who gave
it away, so the commit of a second effect would find another owner).

### Service

`WorkflowProofs`: `WorkflowInvariant`, `WorkflowTypeCorrect`,
`WorkflowImplementsEngine`, the theorems inherited from below,
`OnlyAcceptancesAreRecorded`, `AwaitingRequestIsHandedOff`, `WakeUpsAreCreated`; for any
number of handlers, duplicates (also overlapping), crashes, repeated deliveries,
give-ups of the page and applications, of any event and in any order.

`WorkflowInv` adds to `EngineInv` what a request carries from step to step
(`ServingInv`): that the engine is called with a reading of the event it is called
for, and only while the request is not elsewhere. `TaskComesFirst` says that a
handler about to make a generation current has created its task; with it,
`WakeUpCreated` is inductive. `AcceptancesHold` follows an acceptance from the lookup
of its target to the stored VERIFIED: since the target's stored intent may change
only among its message's readings, it still asks for the worker who accepted.

`WakeUpProofs`: `WakeUpsAreKept`, `VerifiedStaysVerified`, `AcceptancesAreRecorded`, for a service whose events
are delivered from one page (`JudgeUI`), whose agent keeps to the delivered event
(`KeepsToEvent`) and whose queue does not overlap two attempts of one task
(`~Overlapping`), until the page gives up on a delivery (`reloads = 0`), with no bound on handlers, crashes, retries, late
duplicates or applications. The engine saves statuses blindly, so these hold only
because writers of one request never meet. `ServedApart` says so, as long as `reloads = 0`: there is one
delivery at a time, of an event nothing is scheduled for; there is one attempt of a
task until it is acknowledged, only the attempt of the current generation writes,
and what it found confirmed and unfinished is still so; the engine writes for the
request served, and past its first read never over VERIFIED (`OwnCall`). That a
delivery and an attempt do not meet either is where the order "create the task, then
persist the generation, then record the evidence" is used: a task that is
dispatched before its generation is current finds no evidence, or a generation
of the future, and writes nothing.

`AcceptancesAreRecorded` adds `CarriedInv`: an acceptance that is not on record is
carried there by a delivery that holds a reading of its message and, past `ReadTarget`,
the target's present generation (`Carries`), while the target goes on waiting. It needs
that the engine, once its lookup found the target waiting, ends the call without
raising (`ConfirmingCall`), and that nobody else writes to the target meanwhile, which is
`ServedApart` again: there is no other delivery, and an attempt writes only for what is
confirmed already.

### In-memory store

`InMemoryProofs`: `InMemoryTypeCorrect`, `InMemoryCustody`, `InMemoryChainsWalkBack`,
`InMemoryImplementsCustodyLog`. The invariant adds to `CustodyInv` that an edge is
stored under its id, that the id tells its request and version, and the request its
shift (`IdsTellEdges`): this is why a commit never replaces an edge although it
looks nothing up. The lemmas about ledgers that are only appended to are not
repeated but instantiated from `RepositoryProofs`, with the dictionary read as a set
of edges.

### Reset and feasibility check

`DemoResetProofs`, for any number of resets, any requests and any width of the
run numbers, from `DemoConstants` and `NoDocument`: `DemoTypeCorrect`,
`RunsAreFreshAlways`, `RunsAreAsAskedAlways`, `RaisesAfterTwoRivalsAlways`,
`OnlyOverlapRewindsAlways`. The run shows resets losing races only for the few
numbers it has; the theorems cover all 999. `DemoInv` says, besides the
properties, which reset stands behind each existing run (`RunsAreWritten`), that
resets in progress or handed the same number have overlapped, that a run nobody
overlapped has no history before it is written, that the numbers seen only count
up, and, for a reset that met an existing number, which rival took it
(`TakenByRival`, `RetriesAfterRival`, `PassedRival`). That
`next_demo_run_id` exceeds all listed numbers (`NextNumber`) rests on two lemmas:
a non-empty set of naturals has a least element, and a bounded one a greatest.

`GeminiCheckProofs`, for any fixtures, contracts and number of attempts, from
`CheckConstants` and `NoReport` (a torn file is no report): `CheckTypeCorrect`, `PassCorrect`,
`NothingIsAskedTwice`, `ProgressIsKept`. `CheckInv` says that the report on disk
and the one in memory claim only what was earned, that a run whose status is
PASS has everything, and that a run's report never knows less than the resumable
one on disk.

### Only model-checked

* Liveness: `ConfirmedIsVerified`, `LostAckIsRepaired`. Fairness and `ENABLED` are
  beyond the prover.
* `AcceptedIsRecorded` once the page has given up on a delivery.
* The five disagreements of section 5, which are counterexamples.

## 5. Where code and documents disagree

* **EngineAssertion.** `engine.py:117` asserts the request is APPLIED after the
  commit. A concurrent call for the same event that validated earlier may save
  READY in between, and the assertion fails although the transfer is applied.
* **EngineDoubleEffect.** README.md:107 says the deterministic ids provide
  idempotency. The ledger id contains the shift version. A call that read a
  request before it was verified, and validates after another request handed the
  shift back, saves over the verified request without its applied id, finds no
  ledger document under the id of the new version, and moves custody a second
  time for one request. It takes a hand-back that the frozen events do not
  contain, and README.md:199-200 claims nothing for arbitrary event order.
* **WorkflowOverlap.** When a duplicate of the task *overlaps* the first delivery,
  its blind save writes READY over VERIFIED, without the applied ledger id.
  README.md:22 calls a second delivery of the same task safe. Custody is
  still moved only once (`WorkflowRaces`), and sequential duplicates are safe
  (`WorkflowConfirm`).
* **WorkflowCrashedAccept.** EVT-004 is VERIFIED before its confirmation is
  recorded. If the instance dies in between, nothing resumes EVT-003, and the
  page, which offers only RECEIVED events, cannot deliver EVT-004 again.
* **DemoResetRace.** `artifacts/PHASE4_GATE.md:85` says a reset deletes no history.
  Two overlapping resets may choose the same number and both pass the existence
  check; the later batch sets the run of the earlier one back to version 0. The
  transfer edges stay in the ledger, so the same transfers are then answered as
  replays. `OnlyOverlapRewinds` shows that nothing but an overlap does this.

Read also: the docstring at `engine.py:196` says only the read-back produces
VERIFIED; for confirmations `engine.py:77` sets it without one. `VerifiedIsBacked`
is therefore stated of transfers.

## 6. Not modelled, and the plan

Not modelled: the language model and the prompt, the delays between retries, OIDC,
configuration, logging, rendering, the demo script (five engine calls in a row),
schedule times and back-off (section 3), transaction retries inside the
Firestore client (a transaction is atomic). The page is taken to show the stored
status: between the end of a delivery and its next refresh the real page may for
a moment show an older one. Two feasibility checks at once are left out, as only
a developer starts them by hand.

Everything modelled is checked, and every safety property is proved, one of them only
until the page gives up on a delivery. What is left, in this order:

1. The safety half of the progress properties: while a wake-up is current and not
   acknowledged, its task is one the queue may dispatch, and each step of an attempt
   brings it nearer to its end. What then remains to be argued by fairness alone is
   one paragraph.
2. The engine over the in-memory store, as demo and tests run it: `Engine` is stated
   over the Firestore repository only.
3. `TaskFirstStep`, `WakeUpCreatedStep` and the lemmas under `ServedApart` go through the
   steps of a request one by one; several share their cases and could be joined.
