---------------------------- MODULE GeminiCheck -----------------------------
(***************************************************************************)
(* The feasibility check of the model (gemini_check.py) with the parser's  *)
(* retries (parser.py): a script that is run again and again, resumes from *)
(* the report the last run left behind, and leaves a report after every    *)
(* answer of the model, so that an interrupted or rate-limited run loses   *)
(* little.  Code and prompt may change between two runs, a run may be cut  *)
(* off anywhere, and cut off while it writes it leaves a file that is no   *)
(* JSON or, torn within a character, no UTF-8.  One run at a time.         *)
(*                                                                         *)
(* A fixture the report calls failed is treated like one it does not       *)
(* mention; the model's answers are told apart only by whether they match  *)
(* the expected intent.  CONTRACT_ID and MODEL_ID are one value.           *)
(***************************************************************************)
EXTENDS Integers, Sequences, Functions

CONSTANTS
    Order,           \* the fixtures, in the order they are evaluated
    Contracts,       \* CONTRACT_ID with MODEL_ID, as the code ever defines them
    MaxAttempts,     \* model calls for one parse, 4 in parser.py
    Missing,         \* a report that does not exist or is no JSON
    Garbled          \* a report torn within a character of several bytes

ASSUME CheckConstants ==
    /\ Order \in Seq(Range(Order)) /\ Len(Order) > 0
    /\ {"repeat", "adk"} \cap Range(Order) = {}
    /\ Contracts # {}
    /\ MaxAttempts \in Nat \ {0}

VARIABLES
    contract,   \* what the code on disk defines
    artifact,   \* the report file
    pc,         \* what the running check does next, or "idle"
    report,     \* its report
    position,   \* its place in Order, beyond the end for the repeat check
    attempt,    \* model calls of the current parse
    earned      \* what the model ever got right, under which contract (history)

checkVars == <<contract, artifact, pc, report, position, attempt, earned>>

Fixtures == Range(Order)

\* repeat: the repeat_check in the record of EVT-002 passed.
Report ==
    [contract : Contracts,
     status   : {"BLOCKED", "PARTIAL", "PASS"},
     passed   : SUBSET Fixtures,
     repeat   : BOOLEAN]

ASSUME NoReport == {Missing, Garbled} \cap Report = {} /\ Missing # Garbled

CheckTypeOK ==
    /\ contract \in Contracts
    /\ artifact \in Report \cup {Missing, Garbled}
    /\ pc \in {"idle", "next", "call", "write", "adk", "finish"}
    /\ report \in Report \cup {Missing}
    /\ position \in 1..Len(Order) + 1
    /\ attempt \in 1..MaxAttempts
    /\ earned \subseteq Contracts \X (Fixtures \cup {"repeat", "adk"})

CheckInit ==
    /\ contract \in Contracts
    /\ artifact = Missing
    /\ pc = "idle"
    /\ report = Missing
    /\ position = 1
    /\ attempt = 1
    /\ earned = {}

-----------------------------------------------------------------------------
IsReport(a) == a \notin {Missing, Garbled}

\* Mutants: a checkpoint of any contract, and one of completed reports only.
OfAnyContract(a) == IsReport(a)

Complete(a) == IsReport(a) /\ a.contract = contract /\ a.status = "PASS"

\* _passed_checkpoint takes nothing from a report that is missing or no JSON, or
\* one made under another contract.
Resumable(a) == IsReport(a) /\ a.contract = contract

\* run_check begins: the report starts from the checkpoint, and without
\* credentials it is returned at once.  A file that is no UTF-8 raises what
\* _passed_checkpoint does not catch: the script ends having written nothing, and
\* so does every later run, until somebody removes the file.
StartCheck(hasRoute) ==
    /\ pc = "idle" /\ artifact # Garbled
    /\ report' = [contract |-> contract,
                  status   |-> "BLOCKED",
                  passed   |-> IF Resumable(artifact) THEN artifact.passed ELSE {},
                  repeat   |-> Resumable(artifact) /\ artifact.repeat]
    /\ pc' = IF hasRoute THEN "next" ELSE "finish"
    /\ position' = 1
    /\ attempt' = 1
    /\ UNCHANGED <<contract, artifact, earned>>

\* A mutant that evaluates every fixture anew.
NeverSkipped(f) == FALSE

Skipped(f) == f \in report.passed

\* The loop over the fixtures, and what follows it.
NextParse ==
    /\ pc = "next"
    /\ \/ /\ position <= Len(Order)
          /\ IF Skipped(Order[position])
             THEN position' = position + 1 /\ pc' = pc
             ELSE pc' = "call" /\ UNCHANGED position
          /\ UNCHANGED report
       \/ /\ position > Len(Order)
          /\ IF report.passed # Fixtures
             THEN pc' = "finish" /\ report' = [report EXCEPT !.status = "PARTIAL"]
             ELSE pc' = (IF report.repeat THEN "adk" ELSE "call") /\ UNCHANGED report
          /\ UNCHANGED position
    /\ attempt' = 1
    /\ UNCHANGED <<contract, artifact, earned>>

\* A mutant that calls once too often.
MayRetryOnceMore == attempt <= MaxAttempts

MayRetry == attempt < MaxAttempts

\* parse: 429 or 503 is tried again.
ModelBusy ==
    /\ pc = "call" /\ MayRetry
    /\ attempt' = attempt + 1
    /\ UNCHANGED <<contract, artifact, pc, report, position, earned>>

\* parse raises: the attempts are used up, another error, an answer that is no
\* intent, or ids outside the candidates.  The status is BLOCKED as before.
ParseRaises ==
    /\ pc = "call"
    /\ pc' = "finish"
    /\ UNCHANGED <<contract, artifact, report, position, attempt, earned>>

\* The record a fixture gets; the repeat check is part of the record of EVT-002.
Evaluate(matches) ==
    IF position > Len(Order) THEN [report EXCEPT !.repeat = matches]
    ELSE IF matches THEN [report EXCEPT !.passed = @ \cup {Order[position]}]
    ELSE report

Asked == IF position > Len(Order) THEN "repeat" ELSE Order[position]

\* parse returns an intent, which is compared with the expected one.
ModelAnswers(matches) ==
    /\ pc = "call"
    /\ pc' = "write"
    /\ report' = Evaluate(matches)
    /\ earned' = IF matches THEN earned \cup {<<report.contract, Asked>>} ELSE earned
    /\ UNCHANGED <<contract, artifact, position, attempt>>

\* _write_report inside the run.
WriteProgress ==
    /\ pc = "write"
    /\ artifact' = report
    /\ IF position <= Len(Order)
       THEN pc' = "next" /\ position' = position + 1 /\ UNCHANGED report
       ELSE /\ pc' = IF report.repeat THEN "adk" ELSE "finish"
            /\ report' = IF report.repeat THEN report
                         ELSE [report EXCEPT !.status = "PARTIAL"]
            /\ UNCHANGED position
    /\ UNCHANGED <<contract, attempt, earned>>

\* The agent runs EVT-001 end to end: as expected, otherwise, or it raises.
RunAdk(outcome) ==
    /\ pc = "adk"
    /\ pc' = "finish"
    /\ report' = [report EXCEPT !.status = outcome]
    /\ earned' = IF outcome = "PASS" THEN earned \cup {<<report.contract, "adk">>}
                 ELSE earned
    /\ UNCHANGED <<contract, artifact, position, attempt>>

\* main writes what run_check returned.
Finish ==
    /\ pc = "finish"
    /\ artifact' = report
    /\ pc' = "idle" /\ report' = Missing
    /\ UNCHANGED <<contract, position, attempt, earned>>

\* A write that fails before or after it emptied the file, anywhere in the text.
TornOrNot ==
    \/ pc \in {"write", "finish"} /\ artifact' \in {Missing, Garbled}
    \/ UNCHANGED artifact

\* Inside the run a failing write ends it BLOCKED, as the status already says.
WriteRaises ==
    /\ pc = "write"
    /\ TornOrNot
    /\ pc' = "finish"
    /\ UNCHANGED <<contract, report, position, attempt, earned>>

\* The script dies, in the midst of a write or elsewhere.
Die ==
    /\ pc # "idle"
    /\ TornOrNot
    /\ pc' = "idle" /\ report' = Missing
    /\ UNCHANGED <<contract, position, attempt, earned>>

EditCode ==
    /\ pc = "idle"
    /\ contract' \in Contracts
    /\ UNCHANGED <<artifact, pc, report, position, attempt, earned>>

CheckNext ==
    \/ \E hasRoute \in BOOLEAN : StartCheck(hasRoute)
    \/ NextParse
    \/ ModelBusy
    \/ ParseRaises
    \/ \E matches \in BOOLEAN : ModelAnswers(matches)
    \/ WriteProgress
    \/ \E outcome \in {"PASS", "PARTIAL", "BLOCKED"} : RunAdk(outcome)
    \/ Finish
    \/ WriteRaises
    \/ Die
    \/ EditCode

CheckSpec == CheckInit /\ [][CheckNext]_checkVars

-----------------------------------------------------------------------------
(* Properties.                                                             *)

\* A report that says PASS was earned under the contract it names: the model got
\* every fixture, the repetition and the agent run right with that very code and
\* prompt, in however many runs.
PassIsEarned ==
    IsReport(artifact) /\ artifact.status = "PASS" =>
        {artifact.contract} \X (Fixtures \cup {"repeat", "adk"}) \subseteq earned

\* A run never takes back what an earlier run under the same contract recorded,
\* whether it ends for want of credentials, on an error or in a crash; only a
\* crash in the midst of a write loses it.
ProgressKept ==
    [][IsReport(artifact) /\ IsReport(artifact')
       /\ artifact'.contract = artifact.contract
       => /\ artifact.passed \subseteq artifact'.passed
          /\ artifact.repeat => artifact'.repeat]_checkVars

\* The model is never asked again for what the report on disk already shows
\* passed under the contract in force.
NothingAskedTwice ==
    pc = "call" /\ Resumable(artifact) =>
        /\ Asked \notin artifact.passed
        /\ Asked = "repeat" => ~artifact.repeat

=============================================================================
