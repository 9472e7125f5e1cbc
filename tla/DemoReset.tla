----------------------------- MODULE DemoReset ------------------------------
(***************************************************************************)
(* The runs of the database and the resets that add one: CloudWorkflow     *)
(* .reset with next_demo_run_id, seed_frozen_run and                       *)
(* configure_failure_injection.  Several requests may reset at once, none  *)
(* of the four steps of a reset is in a transaction with another, and a    *)
(* request may be cut off between any two.  Meanwhile transfers are        *)
(* committed in the runs that were handed out.                             *)
(*                                                                         *)
(* A run is known by its number.  Of its documents the module keeps what   *)
(* tells histories apart: the run document's version, the transfer edges   *)
(* in its ledger collection, and the fault injection.                      *)
(***************************************************************************)
EXTENDS Integers, FiniteSets, FiniteSetsExt

CONSTANTS
    Resets,         \* requests to /api/demo/reset
    Requests,       \* the requests a run may apply a transfer for
    WantProof,      \* [Resets -> BOOLEAN], the flag reliability_proof
    LastMatching,   \* highest number the pattern of next_demo_run_id matches
    None

ASSUME DemoConstants ==
    /\ WantProof \in [Resets -> BOOLEAN]
    /\ LastMatching \in Nat
    /\ None \notin Nat

VARIABLES
    runs,        \* run documents, by number
    edges,       \* transfer edges of each run's ledger collection
    reset,       \* locals, and in the end the answer, of each reset
    overlapped   \* pairs of resets that were once in progress together (history)

demoVars == <<runs, edges, reset, overlapped>>

\* One number beyond the last matching one is ever tried.
Numbers == 1..LastMatching + 1

RunDocument == [version : Nat, fault : {"OFF", "ARMED"}]

ASSUME NoDocument == None \notin RunDocument

ResetPc == {"ready", "list", "exists", "write", "arm",
            "answered", "raised", "dead"}

DemoTypeOK ==
    /\ runs \in [Numbers -> RunDocument \cup {None}]
    /\ edges \in [Numbers -> SUBSET Requests]
    /\ reset \in [Resets -> [pc      : ResetPc,
                             number  : Numbers \cup {None},
                             retried : BOOLEAN]]
    /\ overlapped \subseteq SUBSET Resets

DemoInit ==
    /\ runs = [n \in Numbers |-> None]
    /\ edges = [n \in Numbers |-> {}]
    /\ reset = [r \in Resets |-> [pc |-> "ready", number |-> None, retried |-> FALSE]]
    /\ overlapped = {}

Exists(n) == runs[n] # None

InProgress(r) == reset[r].pc \in {"list", "exists", "write", "arm"}

Goto(r, pc) == reset' = [reset EXCEPT ![r].pc = pc]

\* The request arrives.
StartReset(r) ==
    /\ reset[r].pc = "ready"
    /\ Goto(r, "list")
    /\ overlapped' = overlapped \cup {{r, q} : q \in {q \in Resets : InProgress(q)}}
    /\ UNCHANGED <<runs, edges>>

\* next_demo_run_id: one more than the highest number of three digits; in the
\* mutant the pattern matches any digits.
NextOfAnyWidth == 1 + Max({0} \cup {n \in Numbers : Exists(n)})

NextDemoRunId == 1 + Max({0} \cup {n \in 1..LastMatching : Exists(n)})

ListRuns(r) ==
    /\ reset[r].pc = "list"
    /\ reset' = [reset EXCEPT ![r].pc = "exists", ![r].number = NextDemoRunId]
    /\ UNCHANGED <<runs, edges, overlapped>>

\* Mutants: a seed that does not look, and a retry of the same number.
NeverTaken(n) == FALSE

Taken(n) == Exists(n)

RetrySameNumber(r) == "exists"

RetryFrom(r) == "list"

\* seed_frozen_run raises AlreadyExists: reset lists once more, and gives up
\* the second time.
CheckExists(r) ==
    /\ reset[r].pc = "exists"
    /\ IF ~Taken(reset[r].number)
       THEN Goto(r, "write")
       ELSE IF ~reset[r].retried
       THEN reset' = [reset EXCEPT ![r].pc = RetryFrom(r), ![r].retried = TRUE]
       ELSE Goto(r, "raised")
    /\ UNCHANGED <<runs, edges, overlapped>>

\* A mutant that forgets what was asked for.
AnswerAtOnce(r) == "answered"

AfterSeeding(r) == IF WantProof[r] THEN "arm" ELSE "answered"

\* The batch of seed_frozen_run: it sets the run, event and initial ledger
\* documents, whether they exist by now or not, and no other document.
WriteSeed(r) ==
    /\ reset[r].pc = "write"
    /\ runs' = [runs EXCEPT ![reset[r].number] = [version |-> 0, fault |-> "OFF"]]
    /\ Goto(r, AfterSeeding(r))
    /\ UNCHANGED <<edges, overlapped>>

\* configure_failure_injection
ArmFault(r) ==
    /\ reset[r].pc = "arm"
    /\ runs' = [runs EXCEPT ![reset[r].number].fault = "ARMED"]
    /\ Goto(r, "answered")
    /\ UNCHANGED <<edges, overlapped>>

\* The instance dies, or a call to Firestore raises.
CutOff(r) ==
    /\ InProgress(r)
    /\ Goto(r, "dead")
    /\ UNCHANGED <<runs, edges, overlapped>>

\* commit_transfer in a run somebody was given.  A ledger document of the
\* request that is already there makes it a replay, which writes nothing.
Transfer(n, q) ==
    /\ \E r \in Resets : reset[r].pc = "answered" /\ reset[r].number = n
    /\ q \notin edges[n]
    /\ runs' = [runs EXCEPT ![n].version = @ + 1]
    /\ edges' = [edges EXCEPT ![n] = @ \cup {q}]
    /\ UNCHANGED <<reset, overlapped>>

DemoNext ==
    \/ \E r \in Resets :
         \/ StartReset(r) \/ ListRuns(r) \/ CheckExists(r)
         \/ WriteSeed(r) \/ ArmFault(r) \/ CutOff(r)
    \/ \E n \in Numbers, q \in Requests : Transfer(n, q)

DemoSpec == DemoInit /\ [][DemoNext]_demoVars

-----------------------------------------------------------------------------
(* Properties.                                                             *)

Rewound(n) == Exists(n) /\ (runs'[n] = None \/ runs'[n].version < runs[n].version)

\* A reset never takes the history of a run away.
HistoryKept == [][\A n \in Numbers : ~Rewound(n)]_demoVars

\* The history of a run is lost to nobody but a reset that looked for its number
\* while the reset that handed it out was in progress: resets one after the
\* other never meet, whatever was cut off before and although the numbers a
\* listing can see run out.
OnlyOverlapRewinds ==
    [][\A n \in Numbers : Rewound(n) =>
          \E r, q \in Resets :
             /\ {r, q} \in overlapped
             /\ reset[r].pc = "write" /\ reset[r].number = n
             /\ reset[q].pc = "answered" /\ reset[q].number = n]_demoVars

Answered(r) == reset[r].pc = "answered"

\* Two resets are given the same run only if they overlapped.
RunsAreFresh ==
    \A r, q \in Resets :
        /\ r # q /\ Answered(r) /\ Answered(q)
        /\ reset[r].number = reset[q].number
        => {r, q} \in overlapped

\* A run that was reset by itself does what was asked for: the fault is armed,
\* and its version counts the edges in its ledger, so no transfer is taken for
\* a replay of one that a lost history left behind.
RunsAreAsAsked ==
    \A r \in Resets :
        Answered(r) /\ (\A q \in Resets : {r, q} \notin overlapped) =>
            LET n == reset[r].number IN
            /\ runs[n].fault = IF WantProof[r] THEN "ARMED" ELSE "OFF"
            /\ runs[n].version = Cardinality(edges[n])

\* A reset gives up only where the numbers end or after two rivals, each of
\* which took the number it was about to use: the retry never meets the same
\* number again.
RaisesAfterTwoRivals ==
    \A r \in Resets :
        reset[r].pc = "raised" =>
            \/ reset[r].number > LastMatching
            \/ \E p, q \in Resets :
                 p # q /\ {r, p} \in overlapped /\ {r, q} \in overlapped

=============================================================================
