--------------------------- MODULE InMemoryProofs ---------------------------
(***************************************************************************)
(* The in-memory store needs none of the checks the Firestore transactions *)
(* make and it lacks, as long as every message is about one shift.  What   *)
(* is known of any ledger that is only appended to is taken from the       *)
(* proofs about the Firestore repository.                                  *)
(***************************************************************************)
EXTENDS InMemoryRepository, TLAPS

Facts == INSTANCE RepositoryProofs
    WITH ledger        <- Edges,
         events        <- requests,
         verifications <- {},
         noops         <- {},
         fault         <- "OFF",
         MaxGeneration <- 0

\* The assumptions of the other repository hold of this store.
LEMMA FactsApply ==
    /\ \A e \in Events :
          /\ Parses[e] \subseteq Facts!StructuredIntent
          /\ \A i \in Parses[e] : Facts!EnforceCandidateBoundary(i)
    /\ None \notin Facts!StructuredIntent
    /\ SavedStates \subseteq Facts!RequestState
<1>1. Facts!StructuredIntent = StructuredIntent
  BY DEF StructuredIntent, Facts!StructuredIntent, IntentType, Facts!IntentType,
     ValidShape, Facts!ValidShape, Optional, Facts!Optional
<1>2. \A i : Facts!EnforceCandidateBoundary(i) <=> EnforceCandidateBoundary(i)
  BY DEF EnforceCandidateBoundary, Facts!EnforceCandidateBoundary, RequestCandidates,
     Facts!RequestCandidates, Optional, Facts!Optional
<1> QED
  BY <1>1, <1>2, ParsesWellFormed, InMemoryBounds DEF RequestState, Facts!RequestState

LEMMA SameData ==
    /\ Facts!LedgerId = LedgerId
    /\ Facts!CustodyLedgerEvent = CustodyLedgerEvent
    /\ Facts!ShiftDocument = [owner : Workers, version : Nat, head : LedgerId]
    /\ \A s : Facts!InitialEdge(s) = InitialEdge(s)
    /\ \A e : Facts!Intents(e) = Intents(e)
<1>1. Facts!LedgerId = LedgerId
  BY DEF LedgerId, Facts!LedgerId
<1>2. Facts!CustodyLedgerEvent = CustodyLedgerEvent
  BY <1>1 DEF CustodyLedgerEvent, Facts!CustodyLedgerEvent, Optional, Facts!Optional
<1>3. \A e : Facts!Intents(e) = Intents(e)
  BY DEF Intents, Facts!Intents, StorableIntents, Facts!StorableIntents, StorableParses,
     Facts!StorableParses, Confirmed, Facts!Confirmed
<1>4. \A s : Facts!InitialEdge(s) = InitialEdge(s)
  BY DEF InitialEdge, Facts!InitialEdge
<1> QED
  BY <1>1, <1>2, <1>3, <1>4 DEF Facts!ShiftDocument

LEMMA SameCustody == KeepsCustody <=> Facts!CustodyInv
BY DEF KeepsCustody, Contract!CustodyInv, Facts!CustodyInv, Contract!HeadIsCurrent,
   Facts!HeadIsCurrent, Contract!PredecessorLinks, Facts!PredecessorLinks,
   Contract!NoFork, Facts!NoFork, Contract!SerialSchedule, Facts!SerialSchedule,
   Contract!LedgerIsKeyed, Facts!LedgerIsKeyed, Contract!VersionsBounded,
   Facts!VersionsBounded, Contract!SeedEdges, Facts!SeedEdges, Contract!InitialEdge,
   Facts!InitialEdge, Contract!ScheduleComplete, Facts!ScheduleComplete

LEMMA TypedLedger == InMemoryTypeOK => Facts!LedgerTypeOK
BY SameData DEF InMemoryTypeOK, Facts!LedgerTypeOK, Edges

-----------------------------------------------------------------------------
(* Type correctness.                                                       *)

\* Whatever command SomeTransfer builds is a well-typed TransferCommit, for the
\* shift of an intent of its request.
LEMMA TransfersAreAsked ==
    ASSUME InMemoryTypeOK, SomeTransfer
    PROVE  \E c \in TransferCommit :
              /\ CommitTransfer(c)
              /\ \E i \in Intents(c.request) : i.shift = c.shift
<1> DEFINE Command(e, i, sv, v, h) ==
             [request |-> e, shift |-> i.shift, from |-> i.from, to |-> i.to,
              expected_schedule_version |-> sv,
              expected_shift_version    |-> v,
              expected_custody_head     |-> h]
<1>1. PICK e \in Events :
        \E i \in Intents(e), sv \in 0..scheduleVersion, h \in DOMAIN ledger :
          /\ None \notin {i.shift, i.from, i.to}
          /\ \E v \in 0..shifts[i.shift].version :
               CommitTransfer(Command(e, i, sv, v, h))
  BY DEF SomeTransfer
<1>2. PICK i \in Intents(e), sv \in 0..scheduleVersion, h \in DOMAIN ledger :
          /\ None \notin {i.shift, i.from, i.to}
          /\ \E v \in 0..shifts[i.shift].version :
               CommitTransfer(Command(e, i, sv, v, h))
  BY <1>1
<1>3. i.shift \in Shifts /\ i.from \in Workers /\ i.to \in Workers
  <2>1. /\ i.shift \in Shifts \cup {None}
        /\ i.from \in Workers \cup {None}
        /\ i.to \in Workers \cup {None}
    BY SameData, FactsApply, InMemoryBounds, NamesDistinct, SeedWellFormed,
       Facts!IntentFields
  <2> QED
    BY <1>2, <2>1
<1>4. PICK v \in 0..shifts[i.shift].version : CommitTransfer(Command(e, i, sv, v, h))
  BY <1>2
<1>5. sv \in Nat /\ v \in Nat /\ h \in LedgerId
  BY <1>3 DEF InMemoryTypeOK
<1>6. Command(e, i, sv, v, h) \in TransferCommit
  BY <1>3, <1>5 DEF TransferCommit
<1>7. Command(e, i, sv, v, h).request = e /\ Command(e, i, sv, v, h).shift = i.shift
  OBVIOUS
<1> HIDE DEF Command
<1> QED
  BY <1>4, <1>6, <1>7

LEMMA NewEdgeTyped ==
    ASSUME InMemoryTypeOK, NEW c \in TransferCommit
    PROVE  /\ NewLedgerId(c) \in LedgerId
           /\ NewEdge(c) \in CustodyLedgerEvent
           /\ TransferredShift(c) \in [owner : Workers, version : Nat, head : LedgerId]
<1>1. /\ c.shift \in Shifts /\ c.request \in Events /\ {c.from, c.to} \subseteq Workers
      /\ shifts[c.shift].version \in Nat /\ shifts[c.shift].head \in LedgerId
      /\ scheduleVersion \in Nat
  BY DEF TransferCommit, InMemoryTypeOK
<1>2. NewLedgerId(c) \in LedgerId
  BY <1>1 DEF NewLedgerId, LedgerId
<1> HIDE DEF NewLedgerId
<1> QED
  BY <1>1, <1>2 DEF NewEdge, TransferredShift, CustodyLedgerEvent, Optional

\* What a commit makes of the ledger.
LEMMA CommitWrites ==
    ASSUME InMemoryTypeOK, NEW c \in TransferCommit, CommitTransfer(c)
    PROVE  /\ DOMAIN ledger' = DOMAIN ledger \cup {NewLedgerId(c)}
           /\ ledger'[NewLedgerId(c)] = NewEdge(c)
           /\ \A id \in DOMAIN ledger \ {NewLedgerId(c)} : ledger'[id] = ledger[id]
           /\ ledger' \in [DOMAIN ledger' -> CustodyLedgerEvent]
BY NewEdgeTyped DEF CommitTransfer, InMemoryTypeOK

LEMMA InMemoryTypeStep ==
    ASSUME InMemoryTypeOK, [InMemoryNext]_memoryVars
    PROVE  InMemoryTypeOK'
<1> USE DEF InMemoryTypeOK
<1>1. CASE SomeTransfer
  <2>1. PICK c \in TransferCommit : CommitTransfer(c)
    BY <1>1, TransfersAreAsked
  <2>2. c.shift \in Shifts /\ c.request \in Events
    BY DEF TransferCommit
  <2>3. /\ DOMAIN ledger' = DOMAIN ledger \cup {NewLedgerId(c)}
        /\ ledger' \in [DOMAIN ledger' -> CustodyLedgerEvent]
        /\ NewLedgerId(c) \in LedgerId
        /\ TransferredShift(c) \in [owner : Workers, version : Nat, head : LedgerId]
    BY <2>1, CommitWrites, NewEdgeTyped
  <2>4. requests' \in [Events -> Optional(RequestRecord)]
    <3>1. [state |-> "APPLIED", applied |-> NewLedgerId(c)] \in Optional(RequestRecord)
      BY <2>3 DEF RequestRecord, RequestState, Optional
    <3> QED
      BY <2>1, <2>2, <3>1 DEF CommitTransfer
  <2>5. shifts' \in [Shifts -> [owner : Workers, version : Nat, head : LedgerId]]
    BY <2>1, <2>2, <2>3 DEF CommitTransfer
  <2>6. scheduleVersion' \in Nat /\ verifications' = verifications
    BY <2>1 DEF CommitTransfer
  <2> QED
    BY <2>3, <2>4, <2>5, <2>6 DEF Optional
<1>2. CASE SomeSave
  <2>1. PICK e \in Events, st \in SavedStates :
          \E a \in EdgesOf(e) \cup {None} : SaveRequest(e, st, a)
    BY <1>2 DEF SomeSave
  <2>2. PICK a \in EdgesOf(e) \cup {None} : SaveRequest(e, st, a)
    BY <2>1
  <2>3. [state |-> st, applied |-> a] \in Optional(RequestRecord)
    BY <2>1, <2>2, InMemoryBounds DEF EdgesOf, RequestRecord, Optional
  <2> QED
    BY <2>2, <2>3 DEF SaveRequest
<1>3. CASE SomeVerification
  <2>1. PICK e \in Events : \E id \in EdgesOf(e) : SaveVerification(e, id)
    BY <1>3 DEF SomeVerification
  <2>2. PICK id \in EdgesOf(e) : SaveVerification(e, id)
    BY <2>1
  <2> QED
    BY <2>1, <2>2 DEF SaveVerification, EdgesOf, Optional
<1>4. CASE UNCHANGED memoryVars
  BY <1>4 DEF memoryVars
<1> QED
  BY <1>1, <1>2, <1>3, <1>4 DEF InMemoryNext

LEMMA InMemoryTypeInit == InMemoryInit => InMemoryTypeOK
<1> SUFFICES ASSUME InMemoryInit PROVE InMemoryTypeOK
  OBVIOUS
<1>1. \A s \in Shifts : InitialEdge(s) \in CustodyLedgerEvent
  BY SeedWellFormed DEF InitialEdge, CustodyLedgerEvent, LedgerId, Optional
<1>2. DOMAIN ledger = Shifts \X {0} /\ \A id \in DOMAIN ledger : id[1] \in Shifts
  BY DEF InMemoryInit
<1>3. DOMAIN ledger \subseteq LedgerId
  BY <1>2 DEF LedgerId
<1>4. ledger \in [DOMAIN ledger -> CustodyLedgerEvent]
  BY <1>1, <1>2 DEF InMemoryInit
<1> QED
  BY <1>3, <1>4, SeedWellFormed DEF InMemoryInit, InMemoryTypeOK, LedgerId, Optional

\* The dictionaries of the in-memory store always hold what their types say.
THEOREM InMemoryTypeCorrect == InMemorySpec => []InMemoryTypeOK
BY InMemoryTypeInit, InMemoryTypeStep, PTL DEF InMemorySpec

-----------------------------------------------------------------------------
(* Custody.                                                                *)

\* No commit writes under an id that is taken: the edge there would be of the same
\* request, hence of the same shift, and ahead of the run document.
LEMMA NewIdIsFresh ==
    ASSUME OneShiftEach, MemoryInv, NEW c \in TransferCommit, CommitTransfer(c),
           NEW i \in Intents(c.request), i.shift = c.shift
    PROVE  NewLedgerId(c) \notin DOMAIN ledger
<1> SUFFICES ASSUME NewLedgerId(c) \in DOMAIN ledger PROVE FALSE
  OBVIOUS
<1> DEFINE x == ledger[NewLedgerId(c)]
<1>1. /\ c.shift \in Shifts /\ c.request \in Events
      /\ shifts[c.shift].version \in Nat
      /\ x \in CustodyLedgerEvent
  BY DEF TransferCommit, MemoryInv, InMemoryTypeOK
<1>2. /\ <<c.request, shifts[c.shift].version + 1>> = <<WrittenFor(x), x.shift_version>>
      /\ x.request # None => \E j \in Intents(x.request) : j.shift = x.shift
  BY DEF MemoryInv, IdsTellEdges, NewLedgerId
<1>3. x \in Edges
  BY DEF Edges
<1> HIDE DEF x
<1>4. x.request = c.request /\ x.shift_version = shifts[c.shift].version + 1
  BY <1>1, <1>2, NamesDistinct DEF WrittenFor, CustodyLedgerEvent, Optional
<1>5. x.shift = c.shift
  BY <1>1, <1>2, <1>4, NamesDistinct DEF OneShiftEach, CustodyLedgerEvent
<1>6. x.shift_version <= shifts[x.shift].version
  BY <1>3 DEF MemoryInv, KeepsCustody, Contract!CustodyInv, Contract!VersionsBounded
<1> QED
  BY <1>1, <1>4, <1>5, <1>6

\* A commit appends an edge that continues the head of its shift.
LEMMA CommitAppends ==
    ASSUME OneShiftEach, MemoryInv, NEW c \in TransferCommit, CommitTransfer(c),
           NEW i \in Intents(c.request), i.shift = c.shift
    PROVE  Facts!ContinuesHead(NewEdge(c)) /\ Facts!Appends(NewEdge(c))
<1>1. /\ c.shift \in Shifts /\ c.request \in Events /\ c.request # None
      /\ shifts[c.shift].version \in Nat /\ scheduleVersion \in Nat
  BY NamesDistinct DEF TransferCommit, MemoryInv, InMemoryTypeOK
<1>2. NewLedgerId(c) \notin DOMAIN ledger
  BY NewIdIsFresh
<1>3. Edges' = Edges \cup {NewEdge(c)}
  <2> DEFINE n == NewEdge(c)
             id == NewLedgerId(c)
  <2>1. /\ DOMAIN ledger' = DOMAIN ledger \cup {id} /\ ledger'[id] = n
        /\ \A d \in DOMAIN ledger : ledger'[d] = ledger[d]
    BY <1>2, CommitWrites DEF MemoryInv
  <2> HIDE DEF n, id
  <2>2. Edges' = {ledger'[d] : d \in DOMAIN ledger'}
    BY DEF Edges
  <2>3. \A x : x \in Edges' <=> x \in Edges \/ x = n
    BY <2>1, <2>2 DEF Edges
  <2> QED
    BY <2>3 DEF n
<1>4. \A x \in Edges : x.id # NewLedgerId(c)
  BY <1>2 DEF Edges, MemoryInv, IdsTellEdges
<1>5. PICK p \in Edges :
         /\ p.id = shifts[c.shift].head /\ p.shift = c.shift
         /\ p.to = shifts[c.shift].owner /\ p.shift_version = shifts[c.shift].version
  BY <1>1 DEF MemoryInv, KeepsCustody, Contract!CustodyInv, Contract!HeadIsCurrent
<1>6. p.schedule_version <= scheduleVersion /\ p.schedule_version \in Nat
  BY <1>1 DEF MemoryInv, KeepsCustody, Contract!CustodyInv, Contract!SerialSchedule,
     Contract!VersionsBounded, InMemoryTypeOK, CustodyLedgerEvent, Edges
<1>7. shifts[c.shift].owner = c.from
  BY DEF CommitTransfer, Comparisons
<1>8. Facts!ContinuesHead(NewEdge(c))
  BY <1>1, <1>4, <1>5, <1>6, <1>7 DEF Facts!ContinuesHead, NewEdge
<1>9. Facts!Appends(NewEdge(c))
  BY <1>3 DEF Facts!Appends, NewEdge, CommitTransfer, TransferredShift
<1> QED
  BY <1>8, <1>9

\* Only a commit touches custody.
LEMMA CustodyFrame ==
    ASSUME InMemoryTypeOK, [InMemoryNext]_memoryVars
    PROVE  \/ \E c \in TransferCommit :
                 CommitTransfer(c) /\ \E i \in Intents(c.request) : i.shift = c.shift
           \/ UNCHANGED <<scheduleVersion, shifts, ledger>>
BY TransfersAreAsked DEF InMemoryNext, SomeSave, SaveRequest, SomeVerification,
   SaveVerification, memoryVars

LEMMA IdsStep ==
    ASSUME OneShiftEach, MemoryInv, NEW c \in TransferCommit, CommitTransfer(c),
           NEW i \in Intents(c.request), i.shift = c.shift
    PROVE  IdsTellEdges'
<1> DEFINE n == NewEdge(c)
<1>1. c.request \in Events /\ c.request # None
  BY NamesDistinct DEF TransferCommit
<1>2. /\ n.id = NewLedgerId(c) /\ n.shift = c.shift /\ n.request = c.request
      /\ NewLedgerId(c) = <<c.request, n.shift_version>>
  BY DEF NewEdge, NewLedgerId
<1> HIDE DEF n
<1>3. /\ DOMAIN ledger' = DOMAIN ledger \cup {NewLedgerId(c)}
      /\ ledger'[NewLedgerId(c)] = n
      /\ \A id \in DOMAIN ledger \ {NewLedgerId(c)} : ledger'[id] = ledger[id]
  BY CommitWrites DEF MemoryInv, n
<1> SUFFICES ASSUME NEW id \in DOMAIN ledger', NEW x, x = ledger'[id]
             PROVE  /\ x.id = id
                    /\ id = <<WrittenFor(x), x.shift_version>>
                    /\ x.request # None => \E j \in Intents(x.request) : j.shift = x.shift
  BY DEF IdsTellEdges
<1>4. CASE id = NewLedgerId(c)
  BY <1>1, <1>2, <1>3, <1>4 DEF WrittenFor
<1>5. CASE id # NewLedgerId(c)
  BY <1>3, <1>5 DEF MemoryInv, IdsTellEdges
<1> QED
  BY <1>4, <1>5

LEMMA MemoryStep ==
    ASSUME OneShiftEach, MemoryInv, [InMemoryNext]_memoryVars
    PROVE  MemoryInv'
<1>0. InMemoryTypeOK'
  BY InMemoryTypeStep DEF MemoryInv
<1>1. ASSUME NEW c \in TransferCommit, CommitTransfer(c),
             NEW i \in Intents(c.request), i.shift = c.shift
      PROVE  MemoryInv'
  <2>1. PICK n : n = NewEdge(c)
    OBVIOUS
  <2>2. Facts!ContinuesHead(n) /\ Facts!Appends(n)
    BY <1>1, <2>1, CommitAppends
  <2>3. Facts!LedgerTypeOK /\ Facts!CustodyInv
    BY TypedLedger, SameCustody DEF MemoryInv
  <2>4. Facts!CustodyInv'
    BY <2>2, <2>3, Facts!AppendKeepsCustody, FactsApply, InMemoryBounds, NamesDistinct,
       SeedWellFormed
  <2>5. KeepsCustody'
    BY <2>4, SameCustody, PTL
  <2> QED
    BY <1>0, <1>1, <2>5, IdsStep DEF MemoryInv
<1>2. CASE UNCHANGED <<scheduleVersion, shifts, ledger>>
  <2>1. Edges' = Edges /\ IdsTellEdges'
    BY <1>2 DEF Edges, MemoryInv, IdsTellEdges
  <2>2. KeepsCustody'
    BY <1>2, <2>1 DEF MemoryInv, KeepsCustody, Contract!CustodyInv, Contract!HeadIsCurrent,
       Contract!PredecessorLinks, Contract!NoFork, Contract!SerialSchedule,
       Contract!LedgerIsKeyed, Contract!VersionsBounded, Contract!SeedEdges,
       Contract!ScheduleComplete
  <2> QED
    BY <1>0, <2>1, <2>2 DEF MemoryInv
<1> QED
  BY <1>1, <1>2, CustodyFrame DEF MemoryInv

LEMMA MemoryInit == InMemoryInit => MemoryInv /\ Facts!SeededCustody
<1> SUFFICES ASSUME InMemoryInit PROVE MemoryInv /\ Facts!SeededCustody
  OBVIOUS
<1>1. DOMAIN ledger = Shifts \X {0} /\ \A id \in DOMAIN ledger : ledger[id] = InitialEdge(id[1])
  BY DEF InMemoryInit
<1>2. Edges = {InitialEdge(s) : s \in Shifts}
  <2>1. \A s \in Shifts : <<s, 0>> \in DOMAIN ledger /\ ledger[<<s, 0>>] = InitialEdge(s)
    BY <1>1
  <2>2. \A id \in DOMAIN ledger : \E s \in Shifts : ledger[id] = InitialEdge(s)
    BY <1>1
  <2>3. \A x : x \in Edges <=> \E s \in Shifts : x = InitialEdge(s)
    BY <2>1, <2>2, Zenon DEF Edges
  <2> QED
    BY <2>3, Zenon
<1>3. Facts!SeededCustody
  BY <1>2, SameData DEF Facts!SeededCustody, InMemoryInit, InitialEdge
<1>4. KeepsCustody
  BY <1>3, SameCustody, Facts!SeedHasCustody, FactsApply, InMemoryBounds, NamesDistinct,
     SeedWellFormed
<1>5. IdsTellEdges
  BY <1>1 DEF IdsTellEdges, InitialEdge, WrittenFor
<1> QED
  BY <1>3, <1>4, <1>5, InMemoryTypeInit DEF MemoryInv

LEMMA MemoryInvariant ==
    ASSUME OneShiftEach
    PROVE  InMemorySpec => []MemoryInv
<1>1. MemoryInv /\ [InMemoryNext]_memoryVars => MemoryInv'
  BY MemoryStep
<1>2. InMemoryInit => MemoryInv
  BY MemoryInit
<1> QED
  BY <1>1, <1>2, PTL DEF InMemorySpec

\* Run document and ledger of the in-memory store stay in the relation the Firestore
\* transactions enforce, whatever stale or repeated commands callers send.
THEOREM InMemoryCustody ==
    ASSUME OneShiftEach
    PROVE  InMemorySpec => []KeepsCustody
<1>1. MemoryInv => KeepsCustody
  BY DEF MemoryInv
<1> QED
  BY <1>1, MemoryInvariant, PTL

\* Its custody_chain never meets a gap or a cycle and leaves no hand-over out.
THEOREM InMemoryChainsWalkBack ==
    ASSUME OneShiftEach
    PROVE  InMemorySpec => []WalksBack
<1>1. Facts!ChainWalksBack <=> WalksBack
  BY DEF WalksBack, Contract!ChainWalksBack, Facts!ChainWalksBack, Contract!Cursor,
     Facts!Cursor, Contract!Predecessor, Facts!Predecessor, Contract!InLedger,
     Facts!InLedger, Contract!InitialEdge, Facts!InitialEdge
<1>2. MemoryInv => WalksBack
  BY <1>1, SameCustody, TypedLedger, Facts!CustodyWalksBack, FactsApply, InMemoryBounds,
     NamesDistinct, SeedWellFormed DEF MemoryInv
<1> QED
  BY <1>2, MemoryInvariant, PTL

\* Every commit, also one that raises afterwards, is one hand-over of the abstract
\* custody log, and nothing else touches the log.
THEOREM InMemoryImplementsCustodyLog ==
    ASSUME OneShiftEach
    PROVE  InMemorySpec => KeepsLog
<1> DEFINE owners == [s \in Shifts |-> shifts[s].owner]
<1>1. /\ Facts!Custody!Init <=> Contract!Custody!Init
      /\ Facts!Custody!Next <=> Contract!Custody!Next
  BY DEF Facts!Custody!Init, Contract!Custody!Init, Facts!Custody!Next,
     Contract!Custody!Next, Facts!Custody!HandOver, Contract!Custody!HandOver,
     Facts!LogOfLedger, Contract!LogOfLedger, Facts!EdgeAt, Contract!EdgeAt
<1>2. InMemoryInit => Contract!Custody!Init
  BY <1>1, MemoryInit, TypedLedger, Facts!CustodyLogInit, FactsApply, InMemoryBounds,
     NamesDistinct, SeedWellFormed DEF MemoryInv
<1>3. MemoryInv /\ MemoryInv' /\ [InMemoryNext]_memoryVars
      => [Contract!Custody!Next]_<<Contract!LogOfLedger, owners>>
  <2> SUFFICES ASSUME MemoryInv, MemoryInv', [InMemoryNext]_memoryVars
               PROVE  [Contract!Custody!Next]_<<Contract!LogOfLedger, owners>>
    OBVIOUS
  <2>1. ASSUME NEW c \in TransferCommit, CommitTransfer(c),
               NEW i \in Intents(c.request), i.shift = c.shift
        PROVE  Contract!Custody!Next
    <3>1. PICK n : n = NewEdge(c)
      OBVIOUS
    <3>2. Facts!ContinuesHead(n) /\ Facts!Appends(n)
      BY <2>1, <3>1, CommitAppends
    <3>3. n \in Facts!CustodyLedgerEvent
      BY <3>1, NewEdgeTyped, SameData DEF MemoryInv
    <3>4. /\ Facts!LedgerTypeOK /\ Facts!CustodyInv
          /\ Facts!LedgerTypeOK' /\ Facts!CustodyInv'
      BY TypedLedger, SameCustody, PTL DEF MemoryInv
    <3> QED
      BY <1>1, <3>2, <3>3, <3>4, Facts!AppendIsHandOver, FactsApply, InMemoryBounds,
         NamesDistinct, SeedWellFormed
  <2>2. CASE UNCHANGED <<scheduleVersion, shifts, ledger>>
    BY <2>2 DEF Contract!LogOfLedger, Contract!EdgeAt, Edges
  <2> QED
    BY <2>1, <2>2, CustodyFrame DEF MemoryInv
<1> QED
  BY <1>2, <1>3, MemoryInvariant, PTL
     DEF InMemorySpec, KeepsLog, Contract!ImplementsCustodyLog, Contract!Custody!Spec

=============================================================================
