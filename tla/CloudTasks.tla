----------------------------- MODULE CloudTasks -----------------------------
(***************************************************************************)
(* The Cloud Tasks queue as the service relies on it: a task is named by   *)
(* target event and resume generation (tasks.task_id_for), creating a name *)
(* a second time has no effect (CloudTaskScheduler.create swallows         *)
(* AlreadyExists), delivery is at least once, an attempt that is not       *)
(* answered with 2xx is retried, and a name is never free again.  Nothing  *)
(* is said of time: a task may be dispatched as soon as it exists, or much *)
(* later, and the queue's limit of attempts only ends retries earlier.     *)
(***************************************************************************)
EXTENDS Integers

CONSTANTS
    TaskNames,      \* pairs <<event, generation>>
    MaxDuplicates,  \* bound on deliveries beyond the retries, per task
    Overlapping     \* may a duplicate be delivered while an attempt runs?

VARIABLE tasks

TaskState == {"none", "queued", "running", "done"}

TasksTypeOK ==
    tasks \in [TaskNames -> [state : TaskState, extra : Nat]]

TasksInit ==
    tasks = [t \in TaskNames |-> [state |-> "none", extra |-> 0]]

CreateTask(t) ==
    tasks' = [tasks EXCEPT ![t].state = IF @ = "none" THEN "queued" ELSE @]

\* The queue starts an attempt.
Dispatch(t) ==
    /\ tasks[t].state = "queued"
    /\ tasks' = [tasks EXCEPT ![t].state = "running"]

\* At-least-once: the same task once more, after it was acknowledged or,
\* with Overlapping, while an attempt is still running.
Redeliver(t) ==
    /\ tasks[t].state = "done" \/ (Overlapping /\ tasks[t].state = "running")
    /\ tasks[t].extra < MaxDuplicates
    /\ tasks' = [tasks EXCEPT ![t].extra = @ + 1]

\* A 2xx answer.
Ack(t) == tasks' = [tasks EXCEPT ![t].state = "done"]

\* Any other answer, or none.
Nack(t) ==
    tasks' = [tasks EXCEPT ![t].state = IF @ = "running" THEN "queued" ELSE @]

=============================================================================
