----------------------------- MODULE TaskWorker -----------------------------
(***************************************************************************)
(* bridge/task_worker.py: the background worker of the RockoAgents bridge. *)
(*                                                                         *)
(* Tasks live in the dictionary _tasks and are written, all of them, to    *)
(* tasks.json by _save.  A worker-loop thread picks the oldest queued task *)
(* and runs it; POST /tasks/{id}/run starts a further thread that runs a   *)
(* task at once.  HTTP routes run in a thread pool.  self._lock covers     *)
(* the file writes and the mutations of create/cancel/retry, but not the   *)
(* mutations made by _run_task, nor get_tasks, nor the flags.              *)
(*                                                                         *)
(* One step is one stretch of code between points where another thread can *)
(* observe or change shared state: taking self._lock, writing a file, the  *)
(* call to the agent or executor, the sleeps.                              *)
(*                                                                         *)
(* The operator (HTTP requests) and the crash are the environment.         *)
(***************************************************************************)
EXTENDS Naturals, FiniteSets

CONSTANTS
    Tasks,        \* task ids, numbered in created_at order
    Loops,        \* bound: worker-loop threads (and start() calls) at once
    Manuals,      \* bound: run_now threads at once
    MaxRetries,   \* MaxRetries[t]: the max_retries t is created with
    Outcomes,     \* what the called agent, executor or runtime may answer
    DiskMayFail,  \* may a file write raise (caught and logged by _save)?
    MaxAttempts,  \* bound: no retry or run_now of t once attempts[t] is there,
                  \* MaxAttempts[t]
    MaxRestarts   \* bound: crashes of the bridge process

NoTask  == 0
Threads == Loops \cup Manuals
Holders == {"free", "api", "boot"}

ASSUME TasksAssumption    == Tasks \subseteq Nat \ {NoTask}
ASSUME ThreadsAssumption  == Loops \cap Manuals = {} /\ Threads \cap Holders = {}
ASSUME ThreadsFinite      == IsFiniteSet(Threads)
ASSUME RetriesAssumption  == MaxRetries \in [Tasks -> Nat]
ASSUME OutcomesAssumption == Outcomes \subseteq {"ok", "error", "denied"}
ASSUME BoundsAssumption   == /\ DiskMayFail \in BOOLEAN
                             /\ MaxAttempts \in [Tasks -> Nat]
                             /\ MaxRestarts \in Nat

(***************************************************************************)
(* "unborn": not created yet.  "lost": created, then absent from _tasks    *)
(* after a restart.  The others are the STATUS_ constants;                 *)
(* waiting_approval is never assigned by the code.                         *)
(***************************************************************************)
Status == {"unborn", "queued", "running", "complete", "failed", "blocked",
           "cancelled", "lost"}

(***************************************************************************)
(* Where a thread is.  "starting": inside start(), past its check.         *)
(* "top": at the while of _worker_loop; "admitted": past the checks of     *)
(* _running and _paused.  The rest is _run_task: "picked" holds the task,  *)
(* "marked" has set it running, "begun" has counted the attempt too,       *)
(* "savingStart" writes that, "executing" is in the agent or executor      *)
(* call, "backoff" in sleep(retry_delay), "finished" has set the result,   *)
(* "savingEnd" writes tasks.json and "savingRun" task_runs.json.           *)
(***************************************************************************)
RunPcs == {"picked", "marked", "begun", "savingStart", "executing", "backoff",
           "finished", "savingEnd", "savingRun"}
Pcs    == RunPcs \cup {"dead", "starting", "top", "admitted"}

VARIABLES
    status, attempts,    \* _tasks[t]["status"], _tasks[t]["attempts"]
    file, disk,          \* tasks.json: its condition, its last full image
    runs,                \* runs[t]: records of t in _runs
    runsFile, runsDisk,  \* task_runs.json: its condition, its last full image
    lock,                \* holder of self._lock
    running, paused,     \* _running, _paused
    current,             \* _current_task_id
    pc, job,             \* each thread's place and the task it holds
    acked,               \* history: tasks whose create_task has returned
    restarts             \* crashes so far (bound)

taskVars == <<status, attempts>>
diskVars == <<file, disk>>
runVars  == <<runs, runsFile, runsDisk>>
flagVars == <<running, paused>>
thrVars  == <<pc, job>>
histVars == <<acked, restarts>>
vars == <<taskVars, diskVars, runVars, lock, flagVars, current, thrVars,
          histVars>>

FileStates == {"current", "stale", "torn"}

TypeOK ==
    /\ status \in [Tasks -> Status]
    /\ attempts \in [Tasks -> Nat]
    /\ file \in FileStates
    /\ disk \in [status: [Tasks -> Status], attempts: [Tasks -> Nat]]
    /\ runs \in [Tasks -> Nat]
    /\ runsFile \in FileStates
    /\ runsDisk \in [Tasks -> Nat]
    /\ lock \in Threads \cup Holders
    /\ running \in BOOLEAN
    /\ paused \in BOOLEAN
    /\ current \in Tasks \cup {NoTask}
    /\ pc \in [Threads -> Pcs]
    /\ job \in [Threads -> Tasks \cup {NoTask}]
    /\ acked \subseteq Tasks
    /\ restarts \in Nat

(* A thread inside _run_task holds a task. *)
HoldsTask == \A r \in Threads : pc[r] \in RunPcs => job[r] \in Tasks

Present(t) == status[t] \notin {"unborn", "lost"}
Queued     == {t \in Tasks : status[t] = "queued"}
Image      == [status |-> status, attempts |-> attempts]
Up         == lock # "boot"

(***************************************************************************)
(* _save: open tasks.json for writing, which truncates it, and dump        *)
(* _tasks.  An exception is caught and logged: a failed open leaves the    *)
(* older image, a failed dump a file that does not parse.                  *)
(***************************************************************************)
Save ==
    \/ disk' = Image /\ file' = "current"
    \/ /\ DiskMayFail
       /\ file' \in {"torn", IF file = "torn" THEN "torn" ELSE "stale"}
       /\ UNCHANGED disk

SaveRuns ==
    \/ runsDisk' = runs /\ runsFile' = "current"
    \/ /\ DiskMayFail
       /\ runsFile' \in {"torn", IF runsFile = "torn" THEN "torn" ELSE "stale"}
       /\ UNCHANGED runsDisk

-----------------------------------------------------------------------------
(* The data directory is empty; the bridge has loaded it and is in init(). *)
Init ==
    /\ status   = [t \in Tasks |-> "unborn"]
    /\ attempts = [t \in Tasks |-> 0]
    /\ file = "current" /\ disk = Image
    /\ runs = [t \in Tasks |-> 0]
    /\ runsFile = "current" /\ runsDisk = runs
    /\ lock = "boot"
    /\ running = FALSE /\ paused = FALSE
    /\ current = NoTask
    /\ pc  = [r \in Threads |-> "dead"]
    /\ job = [r \in Threads |-> NoTask]
    /\ acked = {}
    /\ restarts = 0

(* End of init(): its _save, then start() called by _init_subsystems. *)
BootSave ==
    /\ lock = "boot"
    /\ Save
    /\ lock' = "free"
    /\ running' = TRUE /\ paused' = FALSE
    /\ \E l \in Loops : pc[l] = "dead" /\ pc' = [pc EXCEPT ![l] = "top"]
    /\ UNCHANGED <<taskVars, runVars, current, job, histVars>>

-----------------------------------------------------------------------------
(* Operator requests.  create, cancel and retry mutate under the lock and  *)
(* write before they release it (ApiSave).                                 *)

ApiMutates == /\ lock = "free" /\ lock' = "api"
              /\ UNCHANGED <<diskVars, runVars, flagVars, current, thrVars,
                             histVars>>

CreateTask(t) ==
    /\ status[t] = "unborn"
    /\ status'   = [status EXCEPT ![t] = "queued"]
    /\ UNCHANGED attempts
    /\ ApiMutates

(* Mutant: a cancel that forgets its _save. *)
CancelTaskUnsaved(t) ==
    /\ Present(t) /\ lock = "free"
    /\ status[t] \notin {"complete", "cancelled"}
    /\ status' = [status EXCEPT ![t] = "cancelled"]
    /\ UNCHANGED <<attempts, lock, diskVars, runVars, flagVars, current,
                   thrVars, histVars>>

CancelTask(t) ==
    /\ Present(t)
    /\ status[t] \notin {"complete", "cancelled"}
    /\ status' = [status EXCEPT ![t] = "cancelled"]
    /\ UNCHANGED attempts
    /\ ApiMutates

RetryTask(t) ==
    /\ status[t] \in {"failed", "blocked"}
    /\ attempts[t] < MaxAttempts[t]
    /\ status' = [status EXCEPT ![t] = "queued"]
    /\ UNCHANGED attempts
    /\ ApiMutates

ApiSave ==
    /\ lock = "api"
    /\ Save
    /\ lock' = "free"
    /\ acked' = acked \cup {t \in Tasks : Present(t)}
    /\ UNCHANGED <<taskVars, runVars, flagVars, current, thrVars, restarts>>

(* run_now starts a thread for the task whatever its status. *)
RunNow(t, m) ==
    /\ Up
    /\ Present(t)
    /\ attempts[t] < MaxAttempts[t]
    /\ pc[m] = "dead"
    /\ pc'  = [pc EXCEPT ![m] = "picked"]
    /\ job' = [job EXCEPT ![m] = t]
    /\ UNCHANGED <<taskVars, diskVars, runVars, lock, flagVars, current,
                   histVars>>

(* start() tests _running and only later sets it. *)
StartCheck(l) ==
    /\ Up
    /\ ~running
    /\ pc[l] = "dead"
    /\ pc' = [pc EXCEPT ![l] = "starting"]
    /\ UNCHANGED <<taskVars, diskVars, runVars, lock, flagVars, current, job,
                   histVars>>

StartSpawn(l) ==
    /\ pc[l] = "starting"
    /\ running' = TRUE /\ paused' = FALSE
    /\ pc' = [pc EXCEPT ![l] = "top"]
    /\ UNCHANGED <<taskVars, diskVars, runVars, lock, current, job, histVars>>

SetFlags(r, p) ==
    /\ Up
    /\ running' = r /\ paused' = p
    /\ UNCHANGED <<taskVars, diskVars, runVars, lock, current, thrVars,
                   histVars>>

Stop   == SetFlags(FALSE, paused)
Pause  == SetFlags(running, TRUE)
Resume == SetFlags(running, FALSE)

-----------------------------------------------------------------------------
(* The worker loop. *)

LoopVars == <<taskVars, diskVars, runVars, lock, flagVars, current, histVars>>

LoopExit(l) ==
    /\ pc[l] = "top" /\ ~running
    /\ pc' = [pc EXCEPT ![l] = "dead"]
    /\ UNCHANGED <<LoopVars, job>>

LoopAdmit(l) ==
    /\ pc[l] = "top" /\ running /\ ~paused
    /\ pc' = [pc EXCEPT ![l] = "admitted"]
    /\ UNCHANGED <<LoopVars, job>>

Oldest(t) == t \in Queued /\ \A u \in Queued : t <= u

LoopPick(l) ==
    /\ pc[l] = "admitted"
    /\ \/ \E t \in Tasks :
            /\ Oldest(t)
            /\ pc'  = [pc EXCEPT ![l] = "picked"]
            /\ job' = [job EXCEPT ![l] = t]
       \/ /\ Queued = {}
          /\ pc' = [pc EXCEPT ![l] = "top"]
          /\ UNCHANGED job
    /\ UNCHANGED LoopVars

-----------------------------------------------------------------------------
(* _run_task, in a loop thread or in a run_now thread. *)

(* The task is marked running without looking at its status. *)
MarkRunning(r) ==
    /\ pc[r] = "picked"
    /\ current' = job[r]
    /\ status'  = [status EXCEPT ![job[r]] = "running"]
    /\ pc' = [pc EXCEPT ![r] = "marked"]
    /\ UNCHANGED <<attempts, diskVars, runVars, lock, flagVars, job, histVars>>

(* Mutant: the attempt is not counted. *)
CountAttemptNot(r) ==
    /\ pc[r] = "marked"
    /\ pc' = [pc EXCEPT ![r] = "begun"]
    /\ UNCHANGED <<LoopVars, job>>

(* The clock is read in between: other threads may have run meanwhile. *)
CountAttempt(r) ==
    /\ pc[r] = "marked"
    /\ attempts' = [attempts EXCEPT ![job[r]] = @ + 1]
    /\ pc' = [pc EXCEPT ![r] = "begun"]
    /\ UNCHANGED <<status, diskVars, runVars, lock, flagVars, current, job,
                   histVars>>

TakeLock(r) ==
    /\ lock = "free"
    /\ \/ pc[r] = "begun"    /\ pc' = [pc EXCEPT ![r] = "savingStart"]
       \/ pc[r] = "finished" /\ pc' = [pc EXCEPT ![r] = "savingEnd"]
    /\ lock' = r
    /\ UNCHANGED <<taskVars, diskVars, runVars, flagVars, current, job,
                   histVars>>

SaveStart(r) ==
    /\ pc[r] = "savingStart"
    /\ Save
    /\ lock' = "free"
    /\ pc' = [pc EXCEPT ![r] = "executing"]
    /\ UNCHANGED <<taskVars, runVars, flagVars, current, job, histVars>>

(* Mutants: the last failure leaves the task running; or writes a status   *)
(* that nothing else knows.                                                *)
ResultOfStuck(r, outcome) ==
    CASE outcome = "ok"     -> "complete"
      [] outcome = "denied" -> "blocked"
      [] outcome = "error"  -> IF attempts[job[r]] <= MaxRetries[job[r]]
                               THEN "queued" ELSE "running"

ResultOfUnknown(r, outcome) ==
    CASE outcome = "ok"     -> "complete"
      [] outcome = "denied" -> "blocked"
      [] outcome = "error"  -> "error"

(* Mutant: one retry too many. *)
ResultOfOnceMore(r, outcome) ==
    CASE outcome = "ok"     -> "complete"
      [] outcome = "denied" -> "blocked"
      [] outcome = "error"  -> IF attempts[job[r]] <= MaxRetries[job[r]] + 1
                               THEN "queued" ELSE "failed"

(* The status the task is given when the call returns or raises, again     *)
(* without looking at the status it has by then.                           *)
ResultOf(r, outcome) ==
    CASE outcome = "ok"     -> "complete"
      [] outcome = "denied" -> "blocked"
      [] outcome = "error"  -> IF attempts[job[r]] <= MaxRetries[job[r]]
                               THEN "queued" ELSE "failed"

Execute(r) ==
    /\ pc[r] = "executing"
    /\ \E outcome \in Outcomes :
         LET s == ResultOf(r, outcome) IN
           /\ status' = [status EXCEPT ![job[r]] = s]
           /\ pc' = [pc EXCEPT ![r] = IF s = "queued" THEN "backoff"
                                                      ELSE "finished"]
    /\ UNCHANGED <<attempts, diskVars, runVars, lock, flagVars, current, job,
                   histVars>>

(* sleep(retry_delay) happens before the requeued status is written. *)
EndBackoff(r) ==
    /\ pc[r] = "backoff"
    /\ pc' = [pc EXCEPT ![r] = "finished"]
    /\ UNCHANGED <<LoopVars, job>>

SaveEnd(r) ==
    /\ pc[r] = "savingEnd"
    /\ Save
    /\ runs' = [runs EXCEPT ![job[r]] = @ + 1]
    /\ pc' = [pc EXCEPT ![r] = "savingRun"]
    /\ UNCHANGED <<taskVars, runsFile, runsDisk, lock, flagVars, current, job,
                   histVars>>

(* Mutant: _current_task_id is not cleared. *)
SaveRunKeepsCurrent(r) ==
    /\ pc[r] = "savingRun"
    /\ SaveRuns
    /\ lock' = "free"
    /\ pc'  = [pc EXCEPT ![r] = IF r \in Loops THEN "top" ELSE "dead"]
    /\ job' = [job EXCEPT ![r] = NoTask]
    /\ UNCHANGED <<taskVars, diskVars, runs, flagVars, current, histVars>>

SaveRun(r) ==
    /\ pc[r] = "savingRun"
    /\ SaveRuns
    /\ lock' = "free"
    /\ current' = NoTask
    /\ pc'  = [pc EXCEPT ![r] = IF r \in Loops THEN "top" ELSE "dead"]
    /\ job' = [job EXCEPT ![r] = NoTask]
    /\ UNCHANGED <<taskVars, diskVars, runs, flagVars, histVars>>

-----------------------------------------------------------------------------
(* A crash and the next start of the bridge, up to the _save of init().    *)
(* A crash inside a write may leave the file torn; load() then starts from *)
(* an empty dictionary.  init() requeues what was running.                 *)

WritingTasks == lock \in {"api", "boot"} \/
                \E r \in Threads : pc[r] \in {"savingStart", "savingEnd"}
WritingRuns  == \E r \in Threads : pc[r] = "savingRun"

Absent(t) == IF status[t] = "unborn" THEN "unborn" ELSE "lost"

(* Mutant: init() does not requeue what was running. *)
RecoveredAsIs(t) ==
    IF disk.status[t] \in {"unborn", "lost"} THEN Absent(t) ELSE disk.status[t]

Recovered(t) ==
    CASE disk.status[t] \in {"unborn", "lost"} -> Absent(t)
      [] disk.status[t] = "running"            -> "queued"
      [] OTHER                                 -> disk.status[t]

LoadTasks ==
    IF file' = "torn"
    THEN /\ status'   = [t \in Tasks |-> Absent(t)]
         /\ attempts' = [t \in Tasks |-> 0]
    ELSE /\ status'   = [t \in Tasks |-> Recovered(t)]
         /\ attempts' = disk.attempts

LoadRuns == runs' = IF runsFile' = "torn" THEN [t \in Tasks |-> 0] ELSE runsDisk

Crash ==
    /\ restarts < MaxRestarts
    /\ file'     \in {file}     \cup (IF WritingTasks THEN {"torn"} ELSE {})
    /\ runsFile' \in {runsFile} \cup (IF WritingRuns THEN {"torn"} ELSE {})
    /\ LoadTasks
    /\ LoadRuns
    /\ lock' = "boot"
    /\ running' = FALSE /\ paused' = FALSE
    /\ current' = NoTask
    /\ pc'  = [r \in Threads |-> "dead"]
    /\ job' = [r \in Threads |-> NoTask]
    /\ restarts' = restarts + 1
    /\ UNCHANGED <<disk, runsDisk, acked>>

-----------------------------------------------------------------------------
RequestStep ==
    \/ \E t \in Tasks : CreateTask(t) \/ CancelTask(t) \/ RetryTask(t)
    \/ \E t \in Tasks, m \in Manuals : RunNow(t, m)
    \/ \E l \in Loops : StartCheck(l) \/ StartSpawn(l)
    \/ Stop \/ Pause \/ Resume

LoopStep(l) == LoopExit(l) \/ LoopAdmit(l) \/ LoopPick(l)

RunStep(r) ==
    \/ MarkRunning(r) \/ CountAttempt(r)
    \/ TakeLock(r) \/ SaveStart(r) \/ Execute(r)
    \/ EndBackoff(r) \/ SaveEnd(r) \/ SaveRun(r)

Next ==
    \/ BootSave \/ ApiSave \/ Crash
    \/ RequestStep
    \/ \E l \in Loops : LoopStep(l)
    \/ \E r \in Threads : RunStep(r)

Spec == Init /\ [][Next]_vars

(***************************************************************************)
(* Threads run, writes end, calls return (every call the bridge passes in  *)
(* has a timeout); nobody has to send a request, and crashes are bounded.  *)
(***************************************************************************)
Fairness ==
    /\ WF_vars(BootSave) /\ WF_vars(ApiSave)
    /\ \A l \in Loops : WF_vars(LoopStep(l))
    /\ \A r \in Threads : WF_vars(RunStep(r))

FairSpec == Spec /\ Fairness

-----------------------------------------------------------------------------
(* What is meant to hold. *)

(***************************************************************************)
(* Some thread is between marking t running and setting its result.        *)
(***************************************************************************)
Owned(t) == \E r \in Threads :
              /\ job[r] = t
              /\ pc[r] \in {"marked", "begun", "savingStart", "executing"}

(* No task is left "running" with nobody running it: not after two threads *)
(* ran it at once, not after a cancel, not after a crash.                  *)
RunningOwned == \A t \in Tasks : status[t] = "running" => Owned(t)

(* A thread has changed t and is still to write that. *)
Dirty(t) == \E r \in Threads :
              /\ job[r] = t
              /\ pc[r] \in {"marked", "begun", "savingStart", "backoff",
                            "finished", "savingEnd"}

SameOnDisk(t) == disk.status[t] = status[t] /\ disk.attempts[t] = attempts[t]

(* Unless a write failed, tasks.json agrees with memory on every task that *)
(* no thread is still to write, whichever thread wrote the file last.      *)
DiskCurrent ==
    file = "current" /\ lock \notin {"api", "boot"} =>
        \A t \in Tasks : SameOnDisk(t) \/ Dirty(t)

(* status() never names as current a task that no thread is working on,    *)
(* although threads overwrite and clear the one field for each other.      *)
CurrentOwned ==
    current # NoTask =>
        \E r \in Threads : job[r] = current /\ pc[r] \in RunPcs \ {"picked"}

(* Runs of t whose attempt is counted and that are not in the history yet. *)
Begun(t) == {r \in Threads :
               /\ job[r] = t
               /\ pc[r] \in RunPcs \ {"picked", "marked", "savingRun"}}

(* When writes do not fail, the history never has more runs of a task than *)
(* the task has attempts, across crashes and with the two files written    *)
(* one after the other.                                                    *)
HistoryWithinAttempts ==
    ~DiskMayFail =>
        \A t \in Tasks : Present(t) =>
            runs[t] + Cardinality(Begun(t)) <= attempts[t]

(* A crash that leaves tasks.json intact loses no task whose creation was  *)
(* answered, and every task with no unwritten change comes back as it was, *)
(* with "running" turned into "queued".                                    *)
CrashRecovers ==
    [][restarts' # restarts /\ file' = "current" =>
        \A t \in Tasks :
            /\ t \in acked /\ Present(t) => Present(t)'
            /\ lock \notin {"api", "boot"} /\ ~Dirty(t) =>
                 status'[t] = IF status[t] = "running" THEN "queued"
                                                       ELSE status[t]]_vars

(* Left switched on, the worker empties the queue again and again: retries *)
(* come to an end, no queued task is passed over for ever, no run hangs.   *)
QueueDrains ==
    <>[](running /\ ~paused) =>
        []<>(\A t \in Tasks : status[t] \notin {"queued", "running"})

(***************************************************************************)
(* Seen without threads' places, locks and files, the worker is the store  *)
(* of DurableTasks: requests are answered once written, every run counts   *)
(* one attempt, a failed run is queued again only while the attempts       *)
(* counted so far are within max_retries, and a crash goes back to the     *)
(* last full image, or to nothing when it cuts a write short.              *)
(***************************************************************************)
Record(s, a) == IF s \in {"unborn", "lost"}
                THEN [status |-> "absent", attempts |-> 0]
                ELSE [status |-> s, attempts |-> a]

Durable == INSTANCE DurableTasks WITH
    Runs     <- Threads,
    memory   <- [t \in Tasks |-> Record(status[t], attempts[t])],
    image    <- [t \in Tasks |-> IF file = "torn" THEN Record("lost", 0)
                                 ELSE Record(disk.status[t], disk.attempts[t])],
    writing  <- WritingTasks,
    answered <- acked,
    uncounted <- {p \in Threads \X Tasks : pc[p[1]] = "marked" /\ job[p[1]] = p[2]}

ImplementsDurable == Durable!Spec

=============================================================================
