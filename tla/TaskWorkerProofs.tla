-------------------------- MODULE TaskWorkerProofs --------------------------
(***************************************************************************)
(* Proofs about TaskWorker for any number of tasks and threads, any        *)
(* max_retries, with or without write failures, any number of crashes.     *)
(*                                                                         *)
(* TypeInv, the type invariant with HoldsTask, is inductive by itself.     *)
(* RunningOwned, CurrentOwned and DiskCurrent are each inductive relative  *)
(* to it: the thread that is the witness of one of them loses that role    *)
(* only in a step of its own that also makes the premise false.            *)
(* HistoryWithinAttempts also needs what the two files hold: HistoryInv.   *)
(* Together they are the grounds on which every step is shown to be one of *)
(* DurableTasks, or a stutter.                                             *)
(***************************************************************************)
EXTENDS TaskWorker, FiniteSetTheorems, TLAPS

TypeInv == TypeOK /\ HoldsTask

(* Counting one more for x keeps the type of a table of counts. *)
LEMMA CountType ==
  ASSUME NEW S, NEW f \in [S -> Nat], NEW x \in S
  PROVE  [f EXCEPT ![x] = @ + 1] \in [S -> Nat]
  OBVIOUS

(* What _save leaves in tasks.json. *)
LEMMA SaveType == TypeOK /\ Save => /\ file' \in FileStates
                                   /\ disk' \in [status: [Tasks -> Status], attempts: [Tasks -> Nat]]
  BY DEF TypeOK, Save, Image, FileStates

(* What _save_run leaves in task_runs.json. *)
LEMMA SaveRunsType == TypeOK /\ SaveRuns => /\ runsFile' \in FileStates
                                           /\ runsDisk' \in [Tasks -> Nat]
  BY DEF TypeOK, SaveRuns, FileStates

(* No task comes out of load() and init() as running. *)
LEMMA RecoveredType == ASSUME TypeOK, NEW t \in Tasks PROVE Recovered(t) \in Status \ {"running"}
  BY DEF TypeOK, Recovered, Absent, Status

(* What the result of a call may be. *)
LEMMA ResultType ==
  ASSUME TypeInv, NEW r \in Threads, pc[r] = "executing", NEW outcome \in Outcomes
  PROVE  ResultOf(r, outcome) \in {"complete", "blocked", "queued", "failed"}
  BY OutcomesAssumption DEF ResultOf

(* The type invariant holds initially and every step keeps it. *)
LEMMA TypeStep == TypeInv /\ [Next]_vars => TypeInv'
<1> SUFFICES ASSUME TypeInv, [Next]_vars PROVE TypeInv'
  OBVIOUS
<1> USE DEF TypeInv, TypeOK, HoldsTask, Threads, Holders, histVars
<1>1. CASE BootSave
  BY <1>1, SaveType DEF BootSave, RunPcs, Pcs, taskVars, runVars
<1>2. CASE ApiSave
  BY <1>2, SaveType DEF ApiSave, taskVars, runVars, flagVars, thrVars
<1>3. CASE Crash
  <2>1. status' \in [Tasks -> Status]
    BY <1>3, RecoveredType DEF Crash, LoadTasks, Absent, Status
  <2>2. attempts' \in [Tasks -> Nat]
    BY <1>3 DEF Crash, LoadTasks
  <2>3. runs' \in [Tasks -> Nat]
    BY <1>3 DEF Crash, LoadRuns
  <2>4. file' \in FileStates /\ runsFile' \in FileStates
    BY <1>3 DEF Crash, FileStates
  <2>5. pc' \in [Threads -> Pcs] /\ job' \in [Threads -> Tasks \cup {NoTask}] /\ HoldsTask'
    BY <1>3 DEF Crash, Pcs, RunPcs
  <2> QED
    <3>1. /\ disk' \in [status: [Tasks -> Status], attempts: [Tasks -> Nat]]
          /\ runsDisk' \in [Tasks -> Nat]
          /\ acked' \subseteq Tasks
          /\ restarts' \in Nat
      BY <1>3 DEF Crash
    <3>2. /\ lock' \in Threads \cup Holders
          /\ running' \in BOOLEAN /\ paused' \in BOOLEAN
          /\ current' \in Tasks \cup {NoTask}
      BY <1>3 DEF Crash
    <3> QED
      BY <2>1, <2>2, <2>3, <2>4, <2>5, <3>1, <3>2
<1>4. ASSUME NEW t \in Tasks, CreateTask(t) \/ CancelTask(t) \/ RetryTask(t)
      PROVE TypeInv'
  BY <1>4 DEF CreateTask, CancelTask, RetryTask, ApiMutates, Status, diskVars,
              runVars, flagVars, thrVars
<1>5. ASSUME NEW t \in Tasks, NEW m \in Manuals, RunNow(t, m)
      PROVE TypeInv'
  BY <1>5 DEF RunNow, RunPcs, Pcs, taskVars, diskVars, runVars, flagVars
<1>6. ASSUME NEW l \in Loops, StartCheck(l) \/ StartSpawn(l)
      PROVE TypeInv'
  BY <1>6 DEF StartCheck, StartSpawn, RunPcs, Pcs, taskVars, diskVars, runVars, flagVars
<1>7. CASE Stop \/ Pause \/ Resume
  BY <1>7 DEF Stop, Pause, Resume, SetFlags, taskVars, diskVars, runVars, thrVars
<1>8. ASSUME NEW l \in Loops, LoopStep(l)
      PROVE TypeInv'
  BY <1>8 DEF LoopStep, LoopExit, LoopAdmit, LoopPick, LoopVars, RunPcs, Pcs,
              taskVars, diskVars, runVars, flagVars
<1>9. ASSUME NEW r \in Threads, RunStep(r)
      PROVE TypeInv'
  <2> USE DEF taskVars, diskVars, runVars, flagVars, RunPcs, Pcs, Status
  <2>1. CASE MarkRunning(r)
    BY <2>1 DEF MarkRunning
  <2>8. CASE CountAttempt(r)
    BY <2>8 DEF CountAttempt
  <2>2. CASE TakeLock(r)
    BY <2>2 DEF TakeLock
  <2>3. CASE SaveStart(r)
    BY <2>3, SaveType DEF SaveStart
  <2>4. CASE Execute(r)
    BY <2>4, ResultType DEF Execute
  <2>5. CASE EndBackoff(r)
    BY <2>5 DEF EndBackoff, LoopVars
  <2>6. CASE SaveEnd(r)
    <3>1. runs' \in [Tasks -> Nat]
      <4>1. job[r] \in Tasks
        BY <2>6 DEF SaveEnd
      <4>2. runs' = [runs EXCEPT ![job[r]] = @ + 1] /\ runs \in [Tasks -> Nat]
        BY <2>6 DEF SaveEnd
      <4> QED
        BY <4>1, <4>2, CountType
    <3>3. pc' \in [Threads -> Pcs] /\ HoldsTask'
      BY <2>6 DEF SaveEnd
    <3>2. /\ file' \in FileStates
          /\ disk' \in [status: [Tasks -> Status], attempts: [Tasks -> Nat]]
      BY <2>6, SaveType DEF SaveEnd
    <3> HIDE DEF Pcs, Status
    <3> QED
      BY <2>6, <3>1, <3>2, <3>3 DEF SaveEnd
  <2>7. CASE SaveRun(r)
    <3>1. pc' \in [Threads -> Pcs] /\ job' \in [Threads -> Tasks \cup {NoTask}] /\ HoldsTask'
      BY <2>7 DEF SaveRun
    <3> QED
      BY <2>7, <3>1, SaveRunsType DEF SaveRun
  <2> QED
    BY <1>9, <2>1, <2>2, <2>3, <2>4, <2>5, <2>6, <2>7, <2>8 DEF RunStep
<1>10. CASE UNCHANGED vars
  BY <1>10 DEF vars, taskVars, diskVars, runVars, flagVars, thrVars
<1> HIDE DEF TypeInv, Threads
<1>11. RequestStep => TypeInv'
  BY <1>4, <1>5, <1>6, <1>7 DEF RequestStep
<1> QED
  BY <1>1, <1>2, <1>3, <1>8, <1>9, <1>10, <1>11 DEF Next

(* The type invariant holds initially. *)
LEMMA TypeInit == Init => TypeInv
<1> SUFFICES ASSUME Init PROVE TypeInv
  OBVIOUS
<1>1. status \in [Tasks -> Status] /\ attempts \in [Tasks -> Nat]
  BY DEF Init, Status
<1>2. disk \in [status: [Tasks -> Status], attempts: [Tasks -> Nat]]
  BY <1>1 DEF Init, Image
<1>3. pc \in [Threads -> Pcs] /\ HoldsTask
  BY DEF Init, HoldsTask, Pcs, RunPcs
<1> QED
  BY <1>1, <1>2, <1>3 DEF Init, TypeInv, TypeOK, FileStates, Holders

(* In every reachable state the variables have their types. *)
THEOREM TypeCorrect == Spec => []TypeOK
<1>1. TypeInv => TypeOK
  BY DEF TypeInv
<1> QED
  BY <1>1, TypeInit, TypeStep, PTL DEF Spec

-----------------------------------------------------------------------------
(***************************************************************************)
(* RunningOwned: a thread gives a task the status "running" only as it     *)
(* begins a run of it, and overwrites it with its own result; a restart    *)
(* leaves no task running.                                                 *)
(***************************************************************************)
LEMMA RunningOwnedStep ==
  TypeInv /\ RunningOwned /\ [Next]_vars => RunningOwned'
<1> SUFFICES ASSUME TypeInv, RunningOwned, [Next]_vars,
                    NEW t \in Tasks, status'[t] = "running"
             PROVE  Owned(t)'
  BY DEF RunningOwned
<1> DEFINE Working == {"marked", "begun", "savingStart", "executing"}
<1>0. /\ status \in [Tasks -> Status]
      /\ pc \in [Threads -> Pcs]
      /\ job \in [Threads -> Tasks \cup {NoTask}]
      /\ Loops \subseteq Threads /\ Manuals \subseteq Threads
  BY DEF TypeInv, TypeOK, Threads
(* A step that keeps every working thread working on its task. *)
<1>1. ASSUME status' = status,
             \A q \in Threads : pc[q] \in Working => pc'[q] \in Working /\ job'[q] = job[q]
      PROVE  Owned(t)'
  BY <1>1 DEF RunningOwned, Owned
<1>2. CASE BootSave
  BY <1>0, <1>1, <1>2 DEF BootSave, taskVars
<1>3. CASE ApiSave
  BY <1>0, <1>1, <1>3 DEF ApiSave, taskVars, thrVars
<1>4. CASE Crash
  BY <1>4, RecoveredType DEF Crash, LoadTasks, Absent, TypeInv
<1>5. ASSUME NEW u \in Tasks, CreateTask(u) \/ CancelTask(u) \/ RetryTask(u)
      PROVE  Owned(t)'
  <2>1. status[t] = "running" /\ pc' = pc /\ job' = job
    BY <1>0, <1>5 DEF CreateTask, CancelTask, RetryTask, ApiMutates, thrVars
  <2> QED
    BY <2>1 DEF RunningOwned, Owned
<1>6. ASSUME NEW u \in Tasks, NEW m \in Manuals, RunNow(u, m)
      PROVE  Owned(t)'
  BY <1>0, <1>1, <1>6 DEF RunNow, taskVars
<1>7. ASSUME NEW l \in Loops, StartCheck(l) \/ StartSpawn(l)
      PROVE  Owned(t)'
  BY <1>0, <1>1, <1>7 DEF StartCheck, StartSpawn, taskVars
<1>8. CASE Stop \/ Pause \/ Resume
  BY <1>1, <1>8 DEF Stop, Pause, Resume, SetFlags, taskVars, thrVars
<1>9. ASSUME NEW l \in Loops, LoopStep(l)
      PROVE  Owned(t)'
  BY <1>0, <1>1, <1>9 DEF LoopStep, LoopExit, LoopAdmit, LoopPick, LoopVars, taskVars
<1>10. ASSUME NEW r \in Threads, RunStep(r)
       PROVE  Owned(t)'
  <2>1. CASE MarkRunning(r)
    <3>1. CASE t = job[r]
      BY <1>0, <2>1, <3>1 DEF MarkRunning, Owned
    <3>2. CASE t # job[r]
      <4>1. status[t] = "running"
        BY <1>0, <2>1, <3>2 DEF MarkRunning
      <4> QED
        BY <1>0, <2>1, <4>1 DEF MarkRunning, RunningOwned, Owned
    <3> QED
      BY <3>1, <3>2
  <2>8. CASE CountAttempt(r)
    BY <1>0, <1>1, <2>8 DEF CountAttempt
  <2>2. CASE TakeLock(r)
    BY <1>0, <1>1, <2>2 DEF TakeLock, taskVars
  <2>3. CASE SaveStart(r)
    BY <1>0, <1>1, <2>3 DEF SaveStart, taskVars
  <2>4. CASE Execute(r)
    <3>1. t # job[r] /\ status[t] = "running"
      BY <1>0, <2>4, ResultType DEF Execute
    <3> QED
      BY <1>0, <2>4, <3>1 DEF Execute, RunningOwned, Owned
  <2>5. CASE EndBackoff(r)
    BY <1>0, <1>1, <2>5 DEF EndBackoff, LoopVars, taskVars
  <2>6. CASE SaveEnd(r)
    BY <1>0, <1>1, <2>6 DEF SaveEnd, taskVars
  <2>7. CASE SaveRun(r)
    BY <1>0, <1>1, <2>7 DEF SaveRun, taskVars
  <2> QED
    BY <1>10, <2>1, <2>2, <2>3, <2>4, <2>5, <2>6, <2>7, <2>8 DEF RunStep
<1>11. CASE UNCHANGED vars
  BY <1>1, <1>11 DEF vars, taskVars, thrVars
<1> QED
  BY <1>2, <1>3, <1>4, <1>5, <1>6, <1>7, <1>8, <1>9, <1>10, <1>11
     DEF Next, RequestStep

(* Every behaviour of the worker keeps RunningOwned. *)
THEOREM RunningIsOwned == Spec => []RunningOwned
<1>1. Init => RunningOwned
  BY DEF Init, RunningOwned
<1> QED
  BY <1>1, TypeInit, TypeStep, RunningOwnedStep, PTL DEF Spec

-----------------------------------------------------------------------------
(***************************************************************************)
(* CurrentOwned: _current_task_id is set by the thread that begins a run   *)
(* and cleared by whichever thread ends one.                               *)
(***************************************************************************)
LEMMA CurrentOwnedStep ==
  TypeInv /\ CurrentOwned /\ [Next]_vars => CurrentOwned'
<1> SUFFICES ASSUME TypeInv, CurrentOwned, [Next]_vars, current' # NoTask
             PROVE  \E r \in Threads : /\ job'[r] = current'
                                       /\ pc'[r] \in RunPcs \ {"picked"}
  BY DEF CurrentOwned
<1> DEFINE Working == RunPcs \ {"picked"}
<1>0. /\ pc \in [Threads -> Pcs]
      /\ job \in [Threads -> Tasks \cup {NoTask}]
      /\ Loops \subseteq Threads /\ Manuals \subseteq Threads
  BY DEF TypeInv, TypeOK, Threads
<1>1. ASSUME current' = current,
             \A q \in Threads : pc[q] \in Working => pc'[q] \in Working /\ job'[q] = job[q]
      PROVE  \E r \in Threads : job'[r] = current' /\ pc'[r] \in Working
  BY <1>1 DEF CurrentOwned
<1> USE DEF RunPcs
<1>2. CASE BootSave
  BY <1>0, <1>1, <1>2 DEF BootSave
<1>3. CASE ApiSave
  BY <1>1, <1>3 DEF ApiSave, thrVars
<1>4. CASE Crash
  BY <1>4 DEF Crash
<1>5. ASSUME NEW u \in Tasks, CreateTask(u) \/ CancelTask(u) \/ RetryTask(u)
      PROVE  \E r \in Threads : job'[r] = current' /\ pc'[r] \in Working
  BY <1>1, <1>5 DEF CreateTask, CancelTask, RetryTask, ApiMutates, thrVars
<1>6. ASSUME NEW u \in Tasks, NEW m \in Manuals, RunNow(u, m)
      PROVE  \E r \in Threads : job'[r] = current' /\ pc'[r] \in Working
  BY <1>0, <1>1, <1>6 DEF RunNow
<1>7. ASSUME NEW l \in Loops, StartCheck(l) \/ StartSpawn(l)
      PROVE  \E r \in Threads : job'[r] = current' /\ pc'[r] \in Working
  BY <1>0, <1>1, <1>7 DEF StartCheck, StartSpawn
<1>8. CASE Stop \/ Pause \/ Resume
  BY <1>1, <1>8 DEF Stop, Pause, Resume, SetFlags, thrVars
<1>9. ASSUME NEW l \in Loops, LoopStep(l)
      PROVE  \E r \in Threads : job'[r] = current' /\ pc'[r] \in Working
  BY <1>0, <1>1, <1>9 DEF LoopStep, LoopExit, LoopAdmit, LoopPick, LoopVars
<1>10. ASSUME NEW r \in Threads, RunStep(r)
       PROVE  \E q \in Threads : job'[q] = current' /\ pc'[q] \in Working
  <2>1. CASE MarkRunning(r)
    BY <1>0, <2>1 DEF MarkRunning
  <2>8. CASE CountAttempt(r)
    BY <1>0, <1>1, <2>8 DEF CountAttempt
  <2>2. CASE TakeLock(r)
    BY <1>0, <1>1, <2>2 DEF TakeLock
  <2>3. CASE SaveStart(r)
    BY <1>0, <1>1, <2>3 DEF SaveStart
  <2>4. CASE Execute(r)
    BY <1>0, <1>1, <2>4 DEF Execute
  <2>5. CASE EndBackoff(r)
    BY <1>0, <1>1, <2>5 DEF EndBackoff, LoopVars
  <2>6. CASE SaveEnd(r)
    BY <1>0, <1>1, <2>6 DEF SaveEnd
  <2>7. CASE SaveRun(r)
    BY <2>7 DEF SaveRun
  <2> QED
    BY <1>10, <2>1, <2>2, <2>3, <2>4, <2>5, <2>6, <2>7, <2>8 DEF RunStep
<1>11. CASE UNCHANGED vars
  BY <1>1, <1>11 DEF vars, thrVars
<1> QED
  BY <1>2, <1>3, <1>4, <1>5, <1>6, <1>7, <1>8, <1>9, <1>10, <1>11
     DEF Next, RequestStep

(* Every behaviour of the worker keeps CurrentOwned. *)
THEOREM CurrentIsOwned == Spec => []CurrentOwned
<1>1. Init => CurrentOwned
  BY DEF Init, CurrentOwned
<1> QED
  BY <1>1, TypeInit, TypeStep, CurrentOwnedStep, PTL DEF Spec

-----------------------------------------------------------------------------
(***************************************************************************)
(* A thread that is writing holds the lock.                                *)
(***************************************************************************)
LockHeld == \A r \in Threads :
              pc[r] \in {"savingStart", "savingEnd", "savingRun"} => lock = r

(* Who is about to write holds the lock, and keeps it until it has written. *)
LEMMA LockHeldStep == TypeInv /\ LockHeld /\ [Next]_vars => LockHeld'
<1> SUFFICES ASSUME TypeInv, LockHeld, [Next]_vars,
                    NEW q \in Threads,
                    pc'[q] \in {"savingStart", "savingEnd", "savingRun"}
             PROVE  lock' = q
  BY DEF LockHeld
<1>0. /\ pc \in [Threads -> Pcs]
      /\ Loops \subseteq Threads /\ Manuals \subseteq Threads
      /\ \A h \in {"free", "api", "boot"} : h \notin Threads
      /\ pc[q] \in {"savingStart", "savingEnd", "savingRun"} => lock = q
  BY ThreadsAssumption DEF TypeInv, TypeOK, Threads, Holders, LockHeld
<1>1. CASE BootSave \/ ApiSave
  BY <1>0, <1>1 DEF BootSave, ApiSave, thrVars
<1>2. CASE Crash
  BY <1>2 DEF Crash
<1>3. ASSUME NEW u \in Tasks, CreateTask(u) \/ CancelTask(u) \/ RetryTask(u)
      PROVE  lock' = q
  BY <1>0, <1>3 DEF CreateTask, CancelTask, RetryTask, ApiMutates, thrVars
<1>4. ASSUME NEW u \in Tasks, NEW m \in Manuals, RunNow(u, m)
      PROVE  lock' = q
  BY <1>0, <1>4 DEF RunNow
<1>5. ASSUME NEW l \in Loops, StartCheck(l) \/ StartSpawn(l)
      PROVE  lock' = q
  BY <1>0, <1>5 DEF StartCheck, StartSpawn
<1>6. CASE Stop \/ Pause \/ Resume
  BY <1>0, <1>6 DEF Stop, Pause, Resume, SetFlags, thrVars
<1>7. ASSUME NEW l \in Loops, LoopStep(l)
      PROVE  lock' = q
  BY <1>0, <1>7 DEF LoopStep, LoopExit, LoopAdmit, LoopPick, LoopVars
<1>8. ASSUME NEW r \in Threads, RunStep(r)
      PROVE  lock' = q
  <2>1. CASE MarkRunning(r) \/ CountAttempt(r) \/ Execute(r) \/ EndBackoff(r)
    BY <1>0, <2>1 DEF MarkRunning, CountAttempt, Execute, EndBackoff, LoopVars
  <2>2. CASE TakeLock(r)
    BY <1>0, <2>2 DEF TakeLock
  <2>3. CASE SaveStart(r) \/ SaveEnd(r) \/ SaveRun(r)
    <3>1. lock = r
      BY <2>3 DEF LockHeld, SaveStart, SaveEnd, SaveRun
    <3> QED
      BY <1>0, <2>3, <3>1 DEF SaveStart, SaveEnd, SaveRun
  <2> QED
    BY <1>8, <2>1, <2>2, <2>3 DEF RunStep
<1>9. CASE UNCHANGED vars
  BY <1>0, <1>9 DEF vars, thrVars
<1> QED
  BY <1>1, <1>2, <1>3, <1>4, <1>5, <1>6, <1>7, <1>8, <1>9 DEF Next, RequestStep

(***************************************************************************)
(* DiskCurrent: whoever writes tasks.json writes all of it, so after a     *)
(* write memory and file agree on every task; from then on only a thread   *)
(* inside _run_task, or a request that still holds the lock, changes one.  *)
(***************************************************************************)
LEMMA DiskCurrentStep ==
  TypeInv /\ LockHeld /\ DiskCurrent /\ [Next]_vars => DiskCurrent'
<1> SUFFICES ASSUME TypeInv, LockHeld, DiskCurrent, [Next]_vars,
                    file' = "current", lock' \notin {"api", "boot"},
                    NEW t \in Tasks
             PROVE  SameOnDisk(t)' \/ Dirty(t)'
  BY DEF DiskCurrent
<1> DEFINE Unsaved == {"marked", "begun", "savingStart", "backoff", "finished",
                       "savingEnd"}
<1>0. /\ status \in [Tasks -> Status] /\ attempts \in [Tasks -> Nat]
      /\ pc \in [Threads -> Pcs]
      /\ job \in [Threads -> Tasks \cup {NoTask}]
      /\ Loops \subseteq Threads /\ Manuals \subseteq Threads
  BY DEF TypeInv, TypeOK, Threads
(* A step that writes the file. *)
<1>1. ASSUME Save, UNCHANGED taskVars
      PROVE  SameOnDisk(t)'
  BY <1>1 DEF Save, Image, SameOnDisk, taskVars
(* A step that neither writes the file nor cleans a thread. *)
<1>2. ASSUME UNCHANGED <<file, disk>>, lock \notin {"api", "boot"},
             status'[t] = status[t], attempts'[t] = attempts[t],
             \A q \in Threads : pc[q] \in Unsaved => pc'[q] \in Unsaved /\ job'[q] = job[q]
      PROVE  SameOnDisk(t)' \/ Dirty(t)'
  BY <1>2 DEF DiskCurrent, SameOnDisk, Dirty
<1>3. CASE BootSave \/ ApiSave
  BY <1>1, <1>3 DEF BootSave, ApiSave
<1>4. CASE Crash
  BY <1>4 DEF Crash
<1>5. ASSUME NEW u \in Tasks, CreateTask(u) \/ CancelTask(u) \/ RetryTask(u)
      PROVE  SameOnDisk(t)' \/ Dirty(t)'
  BY <1>5 DEF CreateTask, CancelTask, RetryTask, ApiMutates
<1>6. ASSUME NEW u \in Tasks, NEW m \in Manuals, RunNow(u, m)
      PROVE  SameOnDisk(t)' \/ Dirty(t)'
  BY <1>0, <1>2, <1>6 DEF RunNow, taskVars, diskVars
<1>7. ASSUME NEW l \in Loops, StartCheck(l) \/ StartSpawn(l)
      PROVE  SameOnDisk(t)' \/ Dirty(t)'
  BY <1>0, <1>2, <1>7 DEF StartCheck, StartSpawn, taskVars, diskVars
<1>8. CASE Stop \/ Pause \/ Resume
  BY <1>0, <1>2, <1>8 DEF Stop, Pause, Resume, SetFlags, taskVars, diskVars, thrVars
<1>9. ASSUME NEW l \in Loops, LoopStep(l)
      PROVE  SameOnDisk(t)' \/ Dirty(t)'
  BY <1>0, <1>2, <1>9 DEF LoopStep, LoopExit, LoopAdmit, LoopPick, LoopVars,
                          taskVars, diskVars
<1>10. ASSUME NEW r \in Threads, RunStep(r)
       PROVE  SameOnDisk(t)' \/ Dirty(t)'
  <2>1. CASE MarkRunning(r)
    <3>1. CASE t = job[r]
      BY <1>0, <2>1, <3>1 DEF MarkRunning, Dirty
    <3>2. CASE t # job[r]
      BY <1>0, <1>2, <2>1, <3>2 DEF MarkRunning, diskVars
    <3> QED
      BY <3>1, <3>2
  <2>8. CASE CountAttempt(r)
    <3>1. CASE t = job[r]
      BY <1>0, <2>8, <3>1 DEF CountAttempt, Dirty
    <3>2. CASE t # job[r]
      BY <1>0, <1>2, <2>8, <3>2 DEF CountAttempt, diskVars
    <3> QED
      BY <3>1, <3>2
  <2>2. CASE TakeLock(r)
    BY <1>0, <1>2, <2>2 DEF TakeLock, taskVars, diskVars
  <2>3. CASE SaveStart(r)
    BY <1>1, <2>3 DEF SaveStart
  <2>4. CASE Execute(r)
    <3>1. CASE t = job[r]
      BY <1>0, <2>4, <3>1 DEF Execute, Dirty
    <3>2. CASE t # job[r]
      BY <1>0, <1>2, <2>4, <3>2 DEF Execute, diskVars
    <3> QED
      BY <3>1, <3>2
  <2>5. CASE EndBackoff(r)
    BY <1>0, <1>2, <2>5 DEF EndBackoff, LoopVars, taskVars, diskVars
  <2>6. CASE SaveEnd(r)
    BY <1>1, <2>6 DEF SaveEnd
  <2>7. CASE SaveRun(r)
    <3>1. lock \notin {"api", "boot"}
      BY <2>7, ThreadsAssumption DEF LockHeld, SaveRun, Holders
    <3> QED
      BY <1>0, <1>2, <2>7, <3>1 DEF SaveRun, taskVars, diskVars
  <2> QED
    BY <1>10, <2>1, <2>2, <2>3, <2>4, <2>5, <2>6, <2>7, <2>8 DEF RunStep
<1>11. CASE UNCHANGED vars
  BY <1>0, <1>2, <1>11 DEF vars, taskVars, diskVars, thrVars
<1> QED
  BY <1>3, <1>4, <1>5, <1>6, <1>7, <1>8, <1>9, <1>10, <1>11
     DEF Next, RequestStep

(* Every behaviour of the worker keeps DiskCurrent. *)
THEOREM DiskIsCurrent == Spec => []DiskCurrent
<1>1. Init => DiskCurrent
  BY DEF Init, DiskCurrent
<1>2. Init => LockHeld
  BY DEF Init, LockHeld
<1> QED
  BY <1>1, <1>2, TypeInit, TypeStep, LockHeldStep, DiskCurrentStep, PTL DEF Spec

-----------------------------------------------------------------------------
(***************************************************************************)
(* CrashRecovers rests on DiskCurrent and on two further facts: a thread   *)
(* only ever holds a task that is present, and a task whose creation was   *)
(* answered is in the last full image of tasks.json.                       *)
(***************************************************************************)
JobPresent == \A r \in Threads : pc[r] \in RunPcs => Present(job[r])

AckedSaved == \A t \in acked :
                /\ status[t] # "unborn"
                /\ file = "current" /\ status[t] # "lost"
                     => disk.status[t] \notin {"unborn", "lost"}

(* A step that is not a crash never makes a task that is present absent. *)
LEMMA PresentStep ==
  ASSUME TypeInv, [Next]_vars, ~Crash, NEW t \in Tasks, Present(t)
  PROVE  Present(t)'
<1>0. status \in [Tasks -> Status]
  BY DEF TypeInv, TypeOK
<1> USE DEF Present
<1>1. CASE BootSave \/ ApiSave \/ Stop \/ Pause \/ Resume
  BY <1>1 DEF BootSave, ApiSave, Stop, Pause, Resume, SetFlags, taskVars
<1>2. ASSUME NEW u \in Tasks, CreateTask(u) \/ CancelTask(u) \/ RetryTask(u)
      PROVE  Present(t)'
  BY <1>0, <1>2 DEF CreateTask, CancelTask, RetryTask
<1>3. ASSUME NEW u \in Tasks, NEW m \in Manuals, RunNow(u, m)
      PROVE  Present(t)'
  BY <1>3 DEF RunNow, taskVars
<1>4. ASSUME NEW l \in Loops, StartCheck(l) \/ StartSpawn(l) \/ LoopStep(l)
      PROVE  Present(t)'
  BY <1>4 DEF StartCheck, StartSpawn, LoopStep, LoopExit, LoopAdmit, LoopPick,
              LoopVars, taskVars
<1>5. ASSUME NEW r \in Threads, RunStep(r)
      PROVE  Present(t)'
  <2>1. CASE MarkRunning(r)
    BY <1>0, <2>1 DEF MarkRunning
  <2>2. CASE Execute(r)
    BY <1>0, <2>2, ResultType DEF Execute
  <2>3. CASE ~MarkRunning(r) /\ ~Execute(r)
    BY <1>5, <2>3 DEF RunStep, CountAttempt, TakeLock, SaveStart, EndBackoff,
                      SaveEnd, SaveRun, LoopVars, taskVars
  <2> QED
    BY <2>1, <2>2, <2>3
<1>6. CASE UNCHANGED vars
  BY <1>6 DEF vars, taskVars
<1> QED
  BY <1>1, <1>2, <1>3, <1>4, <1>5, <1>6 DEF Next, RequestStep

(* No step takes from _tasks a task that a thread is running. *)
LEMMA JobPresentStep == TypeInv /\ JobPresent /\ [Next]_vars => JobPresent'
<1> SUFFICES ASSUME TypeInv, JobPresent, [Next]_vars,
                    NEW q \in Threads, pc'[q] \in RunPcs
             PROVE  Present(job[q])'
  BY DEF JobPresent
<1>0. /\ pc \in [Threads -> Pcs]
      /\ job \in [Threads -> Tasks \cup {NoTask}]
      /\ Loops \subseteq Threads /\ Manuals \subseteq Threads
      /\ pc[q] \in RunPcs => job[q] \in Tasks /\ Present(job[q])
  BY DEF TypeInv, TypeOK, HoldsTask, Threads, JobPresent
<1>1. CASE Crash
  BY <1>1 DEF Crash, RunPcs
(* Picking a task that is present, or going on with the one held. *)
<1>2. ASSUME ~Crash, job'[q] \in Tasks, Present(job'[q])
      PROVE  Present(job[q])'
  BY <1>2, PresentStep
<1>3. ASSUME NEW u \in Tasks, NEW m \in Manuals, RunNow(u, m), ~Crash
      PROVE  Present(job[q])'
  <2>1. job'[q] \in Tasks /\ Present(job'[q])
    BY <1>0, <1>3 DEF RunNow
  <2> QED
    BY <1>2, <1>3, <2>1
<1>4. ASSUME NEW l \in Loops, LoopStep(l), ~Crash
      PROVE  Present(job[q])'
  <2>1. job'[q] \in Tasks /\ Present(job'[q])
    BY <1>0, <1>4 DEF LoopStep, LoopExit, LoopAdmit, LoopPick, Oldest, Queued,
                      Present, RunPcs
  <2> QED
    BY <1>2, <1>4, <2>1
<1>5. ASSUME ~Crash, pc[q] \in RunPcs, job'[q] = job[q]
      PROVE  Present(job[q])'
  BY <1>0, <1>2, <1>5
<1>6. CASE BootSave \/ ApiSave \/ Stop \/ Pause \/ Resume \/ UNCHANGED vars
  BY <1>0, <1>1, <1>5, <1>6 DEF BootSave, ApiSave, Stop, Pause, Resume, SetFlags,
                          thrVars, vars, RunPcs
<1>7. ASSUME NEW u \in Tasks, CreateTask(u) \/ CancelTask(u) \/ RetryTask(u)
      PROVE  Present(job[q])'
  BY <1>1, <1>5, <1>7 DEF CreateTask, CancelTask, RetryTask, ApiMutates, thrVars
<1>8. ASSUME NEW l \in Loops, StartCheck(l) \/ StartSpawn(l)
      PROVE  Present(job[q])'
  BY <1>0, <1>1, <1>5, <1>8 DEF StartCheck, StartSpawn, RunPcs
<1>9. ASSUME NEW r \in Threads, RunStep(r)
      PROVE  Present(job[q])'
  BY <1>0, <1>1, <1>5, <1>9
     DEF RunStep, MarkRunning, CountAttempt, TakeLock, SaveStart, Execute,
         EndBackoff, SaveEnd, SaveRun, LoopVars, RunPcs
<1> QED
  BY <1>1, <1>3, <1>4, <1>6, <1>7, <1>8, <1>9 DEF Next, RequestStep

(* Nor does one lose an answered task from an image that is current. *)
LEMMA AckedSavedStep ==
  TypeInv /\ JobPresent /\ AckedSaved /\ [Next]_vars => AckedSaved'
<1> SUFFICES ASSUME TypeInv, JobPresent, AckedSaved, [Next]_vars,
                    NEW t \in Tasks, t \in acked'
             PROVE  /\ status'[t] # "unborn"
                    /\ file' = "current" /\ status'[t] # "lost"
                         => disk'.status[t] \notin {"unborn", "lost"}
  BY TypeStep DEF AckedSaved, TypeInv, TypeOK
<1> DEFINE Good == /\ status'[t] # "unborn"
                   /\ file' = "current" /\ status'[t] # "lost"
                        => disk'.status[t] \notin {"unborn", "lost"}
<1>0. /\ status \in [Tasks -> Status]
      /\ t \in acked => /\ status[t] # "unborn"
                        /\ file = "current" /\ status[t] # "lost"
                             => disk.status[t] \notin {"unborn", "lost"}
  BY DEF TypeInv, TypeOK, AckedSaved
<1> USE DEF histVars
(* A step that writes the file. *)
<1>1. ASSUME Save, UNCHANGED taskVars, status[t] # "unborn" PROVE Good
  BY <1>1 DEF Save, Image, taskVars
(* A step that leaves the file alone and brings no task back. *)
<1>2. ASSUME UNCHANGED <<file, disk, acked>>,
             status'[t] # "unborn" \/ status[t] = "unborn",
             status[t] = "lost" => status'[t] = "lost"
      PROVE Good
  BY <1>0, <1>2
<1>3. CASE BootSave \/ ApiSave
  BY <1>0, <1>1, <1>3 DEF BootSave, ApiSave, Present
<1>4. CASE Crash
  BY <1>0, <1>4 DEF Crash, LoadTasks, Recovered, Absent
<1>5. ASSUME NEW u \in Tasks, CreateTask(u) \/ CancelTask(u) \/ RetryTask(u)
      PROVE Good
  BY <1>0, <1>2, <1>5 DEF CreateTask, CancelTask, RetryTask, ApiMutates, diskVars, Present
<1>6. ASSUME NEW u \in Tasks, NEW m \in Manuals, RunNow(u, m)
      PROVE Good
  BY <1>2, <1>6 DEF RunNow, taskVars, diskVars
<1>7. ASSUME NEW l \in Loops, StartCheck(l) \/ StartSpawn(l) \/ LoopStep(l)
      PROVE Good
  BY <1>2, <1>7 DEF StartCheck, StartSpawn, LoopStep, LoopExit, LoopAdmit,
                    LoopPick, LoopVars, taskVars, diskVars
<1>8. CASE Stop \/ Pause \/ Resume \/ UNCHANGED vars
  BY <1>2, <1>8 DEF Stop, Pause, Resume, SetFlags, vars, taskVars, diskVars
<1>9. ASSUME NEW r \in Threads, RunStep(r) PROVE Good
  <2>1. CASE MarkRunning(r) \/ Execute(r)
    <3>1. job[r] \in Tasks /\ Present(job[r])
      BY <2>1 DEF MarkRunning, Execute, JobPresent, TypeInv, HoldsTask, RunPcs
    <3> QED
      BY <1>0, <1>2, <2>1, <3>1, ResultType DEF MarkRunning, Execute, diskVars, Present
  <2>2. CASE SaveStart(r) \/ SaveEnd(r)
    BY <1>0, <1>1, <2>2 DEF SaveStart, SaveEnd
  <2>3. CASE CountAttempt(r) \/ TakeLock(r) \/ EndBackoff(r) \/ SaveRun(r)
    BY <1>2, <2>3 DEF CountAttempt, TakeLock, EndBackoff, SaveRun, LoopVars, taskVars, diskVars
  <2> QED
    BY <1>9, <2>1, <2>2, <2>3 DEF RunStep
<1> QED
  BY <1>3, <1>4, <1>5, <1>6, <1>7, <1>8, <1>9 DEF Next, RequestStep

(* The step that CrashRecovers speaks of is Crash. *)
LEMMA OnlyCrashRestarts == TypeInv /\ [Next]_vars /\ restarts' # restarts => Crash
  BY DEF Next, RequestStep, BootSave, ApiSave, CreateTask, CancelTask, RetryTask,
         ApiMutates, RunNow, StartCheck, StartSpawn, Stop, Pause, Resume, SetFlags,
         LoopStep, LoopExit, LoopAdmit, LoopPick, LoopVars, RunStep,
         MarkRunning, CountAttempt, TakeLock, SaveStart, Execute, EndBackoff, SaveEnd, SaveRun, histVars, vars

(* Every crash that leaves tasks.json intact loses no acknowledged task,   *)
(* and brings back as it was every task without an unwritten change.       *)
THEOREM CrashDoesRecover == Spec => CrashRecovers
<1> DEFINE Strong == TypeInv /\ LockHeld /\ DiskCurrent /\ JobPresent /\ AckedSaved
<1>1. Init => Strong
  BY TypeInit DEF Init, LockHeld, DiskCurrent, JobPresent, AckedSaved, RunPcs
<1>2. Strong /\ [Next]_vars => Strong'
  BY TypeStep, LockHeldStep, DiskCurrentStep, JobPresentStep, AckedSavedStep
<1>3. ASSUME Strong, [Next]_vars, restarts' # restarts, file' = "current",
             NEW t \in Tasks
      PROVE  /\ t \in acked /\ Present(t) => Present(t)'
             /\ lock \notin {"api", "boot"} /\ ~Dirty(t) =>
                  status'[t] = IF status[t] = "running" THEN "queued" ELSE status[t]
  <2>1. file = "current" /\ status' = [u \in Tasks |-> Recovered(u)]
    BY <1>3, OnlyCrashRestarts DEF Crash, LoadTasks
  <2>2. t \in acked /\ Present(t) => Present(t)'
    BY <1>3, <2>1 DEF AckedSaved, Present, Recovered, Absent
  <2>3. lock \notin {"api", "boot"} /\ ~Dirty(t) => disk.status[t] = status[t]
    BY <1>3, <2>1 DEF DiskCurrent, SameOnDisk
  <2>4. disk.status[t] = status[t] =>
          Recovered(t) = IF status[t] = "running" THEN "queued" ELSE status[t]
    BY <1>3 DEF Recovered, Absent, TypeInv, TypeOK, Status
  <2> QED
    BY <2>1, <2>2, <2>3, <2>4
<1>4. Strong /\ [Next]_vars =>
        [restarts' # restarts /\ file' = "current" =>
           \A t \in Tasks :
             /\ t \in acked /\ Present(t) => Present(t)'
             /\ lock \notin {"api", "boot"} /\ ~Dirty(t) =>
                  status'[t] = IF status[t] = "running" THEN "queued"
                                                        ELSE status[t]]_vars
  BY <1>3
<1> HIDE DEF Strong
<1> QED
  BY <1>1, <1>2, <1>4, PTL DEF Spec, CrashRecovers

-----------------------------------------------------------------------------
(***************************************************************************)
(* HistoryWithinAttempts when no write fails.  A crash takes the attempts  *)
(* back to tasks.json and the history back to task_runs.json, so the two   *)
(* files have to agree as memory does: the history on disk is never ahead  *)
(* of the one in memory, and that one never ahead of the attempts on disk. *)
(***************************************************************************)
NoRunsBefore == \A t \in Tasks : status[t] = "unborn" => runs[t] = 0

RunsOnDisk == runsFile # "torn" => \A t \in Tasks : runsDisk[t] <= runs[t]

AttemptsOnDisk ==
    file # "torn" =>
        \A t \in Tasks : disk.status[t] \notin {"unborn", "lost"} =>
            runs[t] <= disk.attempts[t]

HistoryInv == HistoryWithinAttempts /\ NoRunsBefore /\ RunsOnDisk /\ AttemptsOnDisk

(* The runs of t that have begun are finitely many. *)
LEMMA BegunFinite ==
  ASSUME NEW t PROVE IsFiniteSet(Begun(t)) /\ Cardinality(Begun(t)) \in Nat
<1>1. Begun(t) \subseteq Threads
  BY DEF Begun
<1>2. IsFiniteSet(Begun(t))
  BY <1>1, ThreadsFinite, FS_Subset
<1> QED
  BY <1>2, FS_CardinalityType

(* What HistoryInv says of one task, with the types it speaks of. *)
Counts(t) == /\ runs[t] \in Nat /\ attempts[t] \in Nat
             /\ disk.attempts[t] \in Nat /\ runsDisk[t] \in Nat
             /\ Present(t) => runs[t] + Cardinality(Begun(t)) <= attempts[t]
             /\ status[t] = "unborn" => runs[t] = 0
             /\ runsFile # "torn" => runsDisk[t] <= runs[t]
             /\ file # "torn" /\ disk.status[t] \notin {"unborn", "lost"} =>
                  runs[t] <= disk.attempts[t]

LEMMA CountsHold ==
  ASSUME TypeInv, HistoryInv, ~DiskMayFail, NEW t \in Tasks PROVE Counts(t)
<1>1. /\ runs[t] \in Nat /\ attempts[t] \in Nat
      /\ disk.attempts[t] \in Nat /\ runsDisk[t] \in Nat
  BY DEF TypeInv, TypeOK
<1> QED
  BY <1>1 DEF Counts, HistoryInv, HistoryWithinAttempts, NoRunsBefore, RunsOnDisk,
              AttemptsOnDisk

(* No step lets the history get ahead, in memory or on disk. *)
LEMMA HistoryStep ==
  ASSUME TypeInv, JobPresent, HistoryInv, ~DiskMayFail, [Next]_vars
  PROVE  HistoryInv'
<1> SUFFICES ASSUME NEW t \in Tasks
             PROVE  /\ Present(t)' => runs'[t] + Cardinality(Begun(t)') <= attempts'[t]
                    /\ status'[t] = "unborn" => runs'[t] = 0
                    /\ runsFile' # "torn" => runsDisk'[t] <= runs'[t]
                    /\ file' # "torn" /\ disk'.status[t] \notin {"unborn", "lost"} =>
                         runs'[t] <= disk'.attempts[t]
  BY DEF HistoryInv, HistoryWithinAttempts, NoRunsBefore, RunsOnDisk, AttemptsOnDisk
<1> DEFINE Memory == Present(t)' => runs'[t] + Cardinality(Begun(t)') <= attempts'[t]
           Before == status'[t] = "unborn" => runs'[t] = 0
           History == runsFile' # "torn" => runsDisk'[t] <= runs'[t]
           File == file' # "torn" /\ disk'.status[t] \notin {"unborn", "lost"} =>
                     runs'[t] <= disk'.attempts[t]
           All == Memory /\ Before /\ History /\ File
           Inside(q) == job[q] = t /\ pc[q] \in RunPcs \ {"picked", "marked", "savingRun"}
           InsideNext(q) == job'[q] = t /\ pc'[q] \in RunPcs \ {"picked", "marked", "savingRun"}
<1>0. /\ status \in [Tasks -> Status] /\ attempts \in [Tasks -> Nat]
      /\ runs \in [Tasks -> Nat]
      /\ pc \in [Threads -> Pcs] /\ job \in [Threads -> Tasks \cup {NoTask}]
      /\ Loops \subseteq Threads /\ Manuals \subseteq Threads
      /\ \A q \in Threads : pc[q] \in RunPcs => job[q] \in Tasks /\ Present(job[q])
  BY DEF TypeInv, TypeOK, HoldsTask, JobPresent, Threads
<1>c. Counts(t)
  BY CountsHold
<1>b. Cardinality(Begun(t)) \in Nat
  BY BegunFinite
(* The step leaves the runs of t that have begun as they are. *)
<1>1. ASSUME \A q \in Threads : Inside(q) <=> InsideNext(q)
      PROVE  Begun(t)' = Begun(t)
  BY <1>1 DEF Begun
(* A step that writes no file and leaves the counts of t alone. *)
<1>2. ASSUME UNCHANGED <<file, disk, runVars>>, attempts'[t] = attempts[t],
             \A q \in Threads : Inside(q) <=> InsideNext(q),
             Present(t)' => Present(t), status'[t] = "unborn" => status[t] = "unborn"
      PROVE  All
  BY <1>1, <1>2, <1>c DEF Counts, runVars
(* A step that writes tasks.json and changes nothing else of t. *)
<1>3. ASSUME Save, UNCHANGED <<taskVars, runVars>>,
             \A q \in Threads : Inside(q) <=> InsideNext(q)
      PROVE  All
  <2>1. disk' = Image
    BY <1>3 DEF Save
  <2>2. Memory /\ Before /\ History
    BY <1>1, <1>3, <1>c DEF Counts, runVars, taskVars, Present
  <2>3. File
    BY <1>b, <1>c, <1>3, <2>1 DEF Counts, Image, Present, runVars
  <2> QED
    BY <2>2, <2>3
<1>4. CASE BootSave
  BY <1>0, <1>3, <1>4 DEF BootSave, RunPcs
<1>5. CASE ApiSave
  BY <1>3, <1>5 DEF ApiSave, thrVars
<1>6. CASE Crash
  <2>1. Begun(t)' = {}
    BY <1>6 DEF Crash, Begun, RunPcs
  <2>2. Cardinality(Begun(t)') = 0
    BY <2>1, FS_EmptySet
  <2>3. /\ disk' = disk /\ runsDisk' = runsDisk
        /\ file' # "torn" => file # "torn"
        /\ runsFile' # "torn" => runsFile # "torn"
        /\ runs'[t] = IF runsFile' = "torn" THEN 0 ELSE runsDisk[t]
    BY <1>6 DEF Crash, LoadRuns
  <2>4. runs'[t] \in Nat /\ runs'[t] <= runs[t]
    BY <1>c, <2>3 DEF Counts
  <2>5. History /\ File
    BY <1>c, <2>3, <2>4 DEF Counts
  <2>6. /\ status'[t] = "unborn" => status[t] = "unborn"
        /\ Present(t)' => /\ file' # "torn"
                          /\ disk.status[t] \notin {"unborn", "lost"}
                          /\ attempts'[t] = disk.attempts[t]
    BY <1>6 DEF Crash, LoadTasks, Recovered, Absent, Present
  <2>7. Before
    BY <1>c, <2>4, <2>6 DEF Counts
  <2>8. Memory
    BY <1>c, <2>2, <2>3, <2>4, <2>5, <2>6 DEF Counts
  <2> QED
    BY <2>5, <2>7, <2>8
<1>7. ASSUME NEW u \in Tasks, CreateTask(u)
      PROVE  All
  <2>1. CASE u = t
    <3>1. ~Present(t) /\ runs[t] = 0
      BY <1>7, <1>c, <2>1 DEF CreateTask, Present, Counts
    <3>2. Begun(t)' = {}
      BY <1>0, <1>7, <3>1 DEF Begun, CreateTask, ApiMutates, thrVars
    <3>3. Cardinality(Begun(t)') = 0
      BY <3>2, FS_EmptySet
    <3>4. /\ status'[t] = "queued" /\ attempts' = attempts
          /\ UNCHANGED <<diskVars, runVars>>
      BY <1>0, <1>7, <2>1 DEF CreateTask, ApiMutates
    <3> QED
      BY <1>c, <3>1, <3>3, <3>4 DEF Counts, diskVars, runVars
  <2>2. CASE u # t
    BY <1>0, <1>2, <1>7, <2>2 DEF CreateTask, ApiMutates, diskVars, thrVars, Present
  <2> QED
    BY <2>1, <2>2
<1>8. ASSUME NEW u \in Tasks, CancelTask(u) \/ RetryTask(u)
      PROVE  All
  BY <1>0, <1>2, <1>8 DEF CancelTask, RetryTask, ApiMutates, diskVars, thrVars, Present
<1>9. ASSUME NEW u \in Tasks, NEW m \in Manuals, RunNow(u, m)
      PROVE  All
  BY <1>0, <1>2, <1>9 DEF RunNow, taskVars, diskVars, Present, RunPcs
<1>10. ASSUME NEW l \in Loops, StartCheck(l) \/ StartSpawn(l)
       PROVE  All
  BY <1>0, <1>2, <1>10 DEF StartCheck, StartSpawn, taskVars, diskVars, Present, RunPcs
<1>11. CASE Stop \/ Pause \/ Resume
  BY <1>2, <1>11 DEF Stop, Pause, Resume, SetFlags, taskVars, diskVars, thrVars, Present
<1>12. ASSUME NEW l \in Loops, LoopStep(l)
       PROVE  All
  BY <1>0, <1>2, <1>12 DEF LoopStep, LoopExit, LoopAdmit, LoopPick, LoopVars,
                           taskVars, diskVars, Present, RunPcs
<1>13. CASE UNCHANGED vars
  BY <1>2, <1>13 DEF vars, taskVars, diskVars, thrVars, Present
<1>23. ASSUME NEW r \in Threads, MarkRunning(r)
       PROVE  All
  <2>0. /\ job[r] \in Tasks /\ Present(job[r]) /\ pc[r] = "picked"
        /\ UNCHANGED <<attempts, diskVars, runVars, job>>
        /\ status' = [status EXCEPT ![job[r]] = "running"]
        /\ pc' = [pc EXCEPT ![r] = "marked"]
    BY <1>0, <1>23 DEF MarkRunning, RunPcs
  <2>1. \A q \in Threads : Inside(q) <=> InsideNext(q)
    BY <1>0, <2>0
  <2>2. (Present(t)' => Present(t)) /\ (status'[t] = "unborn" => status[t] = "unborn")
    BY <1>0, <2>0 DEF Present
  <2> QED
    BY <1>2, <2>0, <2>1, <2>2 DEF diskVars
<1>14. ASSUME NEW r \in Threads, CountAttempt(r)
       PROVE  All
  <2>0. /\ job[r] \in Tasks /\ Present(job[r]) /\ pc[r] = "marked"
        /\ UNCHANGED <<status, diskVars, runVars, job>>
        /\ attempts' = [attempts EXCEPT ![job[r]] = @ + 1]
        /\ pc' = [pc EXCEPT ![r] = "begun"]
    BY <1>0, <1>14 DEF CountAttempt, RunPcs
  <2>1. CASE job[r] = t
    <3>1. r \notin Begun(t) /\ Begun(t)' = Begun(t) \cup {r}
      BY <1>0, <2>0, <2>1 DEF Begun, RunPcs
    <3>2. IsFiniteSet(Begun(t))
      BY BegunFinite
    <3>3. Cardinality(Begun(t)') = Cardinality(Begun(t)) + 1
      BY <3>1, <3>2, FS_AddElement
    <3>4. attempts'[t] = attempts[t] + 1 /\ status'[t] = status[t] /\ Present(t)
      BY <1>0, <2>0, <2>1
    <3>5. Memory
      BY <1>b, <1>c, <2>0, <3>3, <3>4 DEF Counts, runVars
    <3> QED
      BY <1>c, <2>0, <3>4, <3>5 DEF Counts, runVars, diskVars
  <2>2. CASE job[r] # t
    <3>1. status'[t] = status[t] /\ attempts'[t] = attempts[t]
      BY <1>0, <2>0, <2>2
    <3>2. \A q \in Threads : Inside(q) <=> InsideNext(q)
      BY <1>0, <2>0, <2>2
    <3> QED
      BY <1>2, <2>0, <3>1, <3>2 DEF diskVars, Present
  <2> QED
    BY <2>1, <2>2
<1>15. ASSUME NEW r \in Threads, SaveEnd(r)
       PROVE  All
  <2>0. /\ job[r] \in Tasks /\ pc[r] = "savingEnd" /\ disk' = Image
        /\ UNCHANGED <<taskVars, runsFile, runsDisk, job>>
        /\ runs' = [runs EXCEPT ![job[r]] = @ + 1]
        /\ pc' = [pc EXCEPT ![r] = "savingRun"]
    BY <1>0, <1>15 DEF SaveEnd, RunPcs, Save
  <2>1. CASE job[r] = t
    <3>1. r \in Begun(t) /\ Begun(t)' = Begun(t) \ {r}
      BY <1>0, <2>0, <2>1 DEF Begun, RunPcs
    <3>2. IsFiniteSet(Begun(t))
      BY BegunFinite
    <3>3. Cardinality(Begun(t)') = Cardinality(Begun(t)) - 1
      BY <3>1, <3>2, FS_RemoveElement
    <3>4. Begun(t) # {}
      BY <3>1
    <3>5. Cardinality(Begun(t)) # 0
      BY <3>2, <3>4, FS_EmptySet
    <3>6. /\ runs'[t] = runs[t] + 1 /\ attempts'[t] = attempts[t]
          /\ Present(t) /\ status'[t] = status[t]
      BY <1>0, <2>0, <2>1 DEF taskVars, RunPcs
    <3>7. Memory
      BY <1>b, <1>c, <3>3, <3>6 DEF Counts
    <3>8. File
      BY <1>b, <1>c, <2>0, <3>5, <3>6 DEF Counts, Image
    <3> QED
      BY <1>c, <2>0, <3>6, <3>7, <3>8 DEF Counts, Present
  <2>2. CASE job[r] # t
    <3>1. runs'[t] = runs[t]
      BY <1>0, <2>0, <2>2
    <3>2. Begun(t)' = Begun(t)
      BY <1>0, <2>0, <2>2 DEF Begun
    <3>3. Memory /\ Before /\ History
      BY <1>c, <2>0, <3>1, <3>2 DEF Counts, taskVars, Present
    <3>4. File
      BY <1>b, <1>c, <2>0, <3>1 DEF Counts, Image, Present
    <3> QED
      BY <3>3, <3>4
  <2> QED
    BY <2>1, <2>2
<1>16. ASSUME NEW r \in Threads, SaveRun(r)
       PROVE  All
  <2>0. /\ pc[r] = "savingRun" /\ UNCHANGED <<taskVars, diskVars, runs>>
        /\ runsDisk' = runs
        /\ pc'  = [pc EXCEPT ![r] = IF r \in Loops THEN "top" ELSE "dead"]
        /\ job' = [job EXCEPT ![r] = NoTask]
    BY <1>16 DEF SaveRun, SaveRuns
  <2>1. Begun(t)' = Begun(t)
    BY <1>0, <2>0 DEF Begun, RunPcs
  <2> QED
    BY <1>c, <2>0, <2>1 DEF Counts, taskVars, diskVars, Present
<1>17. ASSUME NEW r \in Threads, Execute(r)
       PROVE  All
  <2>0. /\ job[r] \in Tasks /\ Present(job[r]) /\ pc[r] = "executing"
        /\ UNCHANGED <<attempts, diskVars, runVars, job>>
    BY <1>0, <1>17 DEF Execute, RunPcs
  <2>1. PICK s \in {"complete", "blocked", "queued", "failed"} :
          /\ status' = [status EXCEPT ![job[r]] = s]
          /\ pc' = [pc EXCEPT ![r] = IF s = "queued" THEN "backoff" ELSE "finished"]
    BY <1>17, ResultType DEF Execute
  <2>2. \A q \in Threads : Inside(q) <=> InsideNext(q)
    BY <1>0, <2>0, <2>1 DEF RunPcs
  <2>3. (Present(t)' => Present(t)) /\ (status'[t] = "unborn" => status[t] = "unborn")
    BY <1>0, <2>0, <2>1 DEF Present
  <2> QED
    BY <1>2, <2>0, <2>2, <2>3 DEF diskVars
<1>18. ASSUME NEW r \in Threads, TakeLock(r) \/ EndBackoff(r)
       PROVE  All
  BY <1>0, <1>2, <1>18 DEF TakeLock, EndBackoff, LoopVars, taskVars, diskVars, Present, RunPcs
<1>19. ASSUME NEW r \in Threads, SaveStart(r)
       PROVE  All
  BY <1>0, <1>3, <1>19 DEF SaveStart, RunPcs
<1>20. RequestStep => All
  <2>1. ASSUME NEW u \in Tasks, CreateTask(u) \/ CancelTask(u) \/ RetryTask(u) PROVE All
    BY <1>7, <1>8, <2>1
  <2> QED
    BY <1>9, <1>10, <1>11, <2>1 DEF RequestStep
<1>21. ASSUME NEW r \in Threads, RunStep(r) PROVE All
  BY <1>14, <1>15, <1>16, <1>17, <1>18, <1>19, <1>21, <1>23 DEF RunStep
<1>22. All
  BY <1>4, <1>5, <1>6, <1>12, <1>13, <1>20, <1>21 DEF Next
<1> QED
  BY <1>22

(* Unless a write fails, no history ever has more runs of a task than the  *)
(* task has attempts, whichever threads ran it, and whatever the crashes   *)
(* between the writes of the two files took back.                          *)
THEOREM HistoryStaysWithinAttempts == Spec => []HistoryWithinAttempts
<1> DEFINE Strong == /\ TypeInv /\ JobPresent
                     /\ ~DiskMayFail => HistoryInv
<1>1. Init => Strong
  <2> SUFFICES ASSUME Init PROVE Strong
    OBVIOUS
  <2>1. TypeInv /\ JobPresent
    BY TypeInit DEF Init, JobPresent, RunPcs
  <2>2. HistoryInv
    BY DEF Init, HistoryInv, HistoryWithinAttempts, Present, NoRunsBefore,
           RunsOnDisk, AttemptsOnDisk, Image
  <2> QED
    BY <2>1, <2>2
<1>2. Strong /\ [Next]_vars => Strong'
  BY TypeStep, JobPresentStep, HistoryStep
<1>3. Strong => HistoryWithinAttempts
  BY DEF HistoryInv, HistoryWithinAttempts
<1> HIDE DEF Strong
<1> QED
  BY <1>1, <1>2, <1>3, PTL DEF Spec

-----------------------------------------------------------------------------
(***************************************************************************)
(* TaskWorker implements DurableTasks as long as writes do not fail: each  *)
(* step of the worker is a step of the store or leaves the store as it is. *)
(* Then what the store never does, the worker never does.                  *)
(***************************************************************************)
(* The store seen in the worker's state. *)
Memory == [t \in Tasks |-> Record(status[t], attempts[t])]
OnDisk == [t \in Tasks |-> IF file = "torn" THEN Record("lost", 0)
                           ELSE Record(disk.status[t], disk.attempts[t])]

Uncounted == {p \in Threads \X Tasks : pc[p[1]] = "marked" /\ job[p[1]] = p[2]}

(* A task that was never created has no attempts, in memory or on disk. *)
Fresh == \A t \in Tasks :
           /\ status[t] = "unborn" => attempts[t] = 0 /\ disk.status[t] = "unborn"
           /\ disk.status[t] = "unborn" => disk.attempts[t] = 0

(* What the mapping needs to know of the worker's state. *)
Grounds == TypeInv /\ LockHeld /\ JobPresent /\ AckedSaved /\ Fresh

LEMMA FreshStep == TypeInv /\ JobPresent /\ Fresh /\ [Next]_vars => Fresh'
<1> SUFFICES ASSUME TypeInv, JobPresent, Fresh, [Next]_vars, NEW t \in Tasks
             PROVE  /\ status'[t] = "unborn" => attempts'[t] = 0 /\ disk'.status[t] = "unborn"
                    /\ disk'.status[t] = "unborn" => disk'.attempts[t] = 0
  BY DEF Fresh
<1> DEFINE Good == /\ status'[t] = "unborn" => attempts'[t] = 0 /\ disk'.status[t] = "unborn"
                   /\ disk'.status[t] = "unborn" => disk'.attempts[t] = 0
<1>0. /\ status \in [Tasks -> Status] /\ attempts \in [Tasks -> Nat]
      /\ status[t] = "unborn" => attempts[t] = 0 /\ disk.status[t] = "unborn"
      /\ disk.status[t] = "unborn" => disk.attempts[t] = 0
  BY DEF TypeInv, TypeOK, Fresh
<1>1. ASSUME Save, UNCHANGED taskVars PROVE Good
  BY <1>0, <1>1 DEF Save, Image, taskVars
<1>2. ASSUME UNCHANGED disk, status'[t] = "unborn" => status[t] = "unborn",
             status[t] = "unborn" => attempts'[t] = attempts[t]
      PROVE  Good
  BY <1>0, <1>2
<1>3. CASE BootSave \/ ApiSave
  BY <1>1, <1>3 DEF BootSave, ApiSave
<1>4. CASE Crash
  BY <1>0, <1>4 DEF Crash, LoadTasks, Recovered, Absent
<1>5. ASSUME NEW u \in Tasks, CreateTask(u) \/ CancelTask(u) \/ RetryTask(u)
      PROVE Good
  BY <1>0, <1>2, <1>5 DEF CreateTask, CancelTask, RetryTask, ApiMutates, diskVars
<1>6. ASSUME NEW u \in Tasks, NEW m \in Manuals, RunNow(u, m)
      PROVE Good
  BY <1>2, <1>6 DEF RunNow, taskVars, diskVars
<1>7. ASSUME NEW l \in Loops, StartCheck(l) \/ StartSpawn(l) \/ LoopStep(l)
      PROVE Good
  BY <1>2, <1>7 DEF StartCheck, StartSpawn, LoopStep, LoopExit, LoopAdmit,
                    LoopPick, LoopVars, taskVars, diskVars
<1>8. CASE Stop \/ Pause \/ Resume \/ UNCHANGED vars
  BY <1>2, <1>8 DEF Stop, Pause, Resume, SetFlags, vars, taskVars, diskVars
<1>9. ASSUME NEW r \in Threads, RunStep(r) PROVE Good
  <2>1. CASE MarkRunning(r) \/ CountAttempt(r) \/ Execute(r)
    <3>1. job[r] \in Tasks /\ Present(job[r])
      BY <2>1 DEF MarkRunning, CountAttempt, Execute, JobPresent, TypeInv, HoldsTask, RunPcs
    <3>2. CASE MarkRunning(r) \/ CountAttempt(r)
      BY <1>0, <1>2, <3>1, <3>2 DEF MarkRunning, CountAttempt, diskVars, Present
    <3>3. CASE Execute(r)
      BY <1>0, <1>2, <3>1, <3>3, ResultType DEF Execute, diskVars, Present
    <3> QED
      BY <2>1, <3>2, <3>3
  <2>2. CASE SaveStart(r) \/ SaveEnd(r)
    BY <1>1, <2>2 DEF SaveStart, SaveEnd
  <2>3. CASE TakeLock(r) \/ EndBackoff(r) \/ SaveRun(r)
    BY <1>2, <2>3 DEF TakeLock, EndBackoff, SaveRun, LoopVars, taskVars, diskVars
  <2> QED
    BY <1>9, <2>1, <2>2, <2>3 DEF RunStep
<1> QED
  BY <1>3, <1>4, <1>5, <1>6, <1>7, <1>8, <1>9 DEF Next, RequestStep

LEMMA GroundsHold == Spec => []Grounds
<1>1. Init => Grounds
  BY TypeInit DEF Init, Grounds, LockHeld, JobPresent, RunPcs,
                        AckedSaved, Fresh, Image
<1>2. Grounds /\ [Next]_vars => Grounds'
  BY TypeStep, LockHeldStep, JobPresentStep, AckedSavedStep, FreshStep DEF Grounds
<1> QED
  BY <1>1, <1>2, PTL DEF Spec

(* Changing one task in the worker changes one record of the store. *)
LEMMA OneRecord ==
  ASSUME TypeInv, NEW u \in Tasks, NEW s, NEW a,
         status'   = [status EXCEPT ![u] = s],
         attempts' = [attempts EXCEPT ![u] = a]
  PROVE  Memory' = [Memory EXCEPT ![u] = Record(s, a)]
  BY DEF Memory, TypeInv, TypeOK, Record

LEMMA StatusOnly ==
  ASSUME TypeInv, NEW u \in Tasks, NEW s,
         status' = [status EXCEPT ![u] = s], attempts' = attempts
  PROVE  Memory' = [Memory EXCEPT ![u] = Record(s, attempts[u])]
  BY DEF Memory, TypeInv, TypeOK, Record

LEMMA StatusOfPresent ==
  ASSUME TypeInv, NEW u \in Tasks, NEW s, s \notin {"unborn", "lost"}, Present(u),
         status' = [status EXCEPT ![u] = s], attempts' = attempts
  PROVE  Memory' = [Memory EXCEPT ![u] = [Memory[u] EXCEPT !.status = s]]
<1>1. Memory' = [Memory EXCEPT ![u] = Record(s, attempts[u])]
  BY StatusOnly
<1>2. Memory[u] = [status |-> status[u], attempts |-> attempts[u]]
  BY DEF Memory, Record, Present
<1>3. Record(s, attempts[u]) = [Memory[u] EXCEPT !.status = s]
  BY <1>2 DEF Record
<1> QED
  BY <1>1, <1>3

(* What a record of the store says of the task. *)
LEMMA RecordOf ==
  ASSUME TypeInv, NEW t \in Tasks
  PROVE  /\ Memory[t] = Record(status[t], attempts[t])
         /\ Present(t) <=> Memory[t] # [status |-> "absent", attempts |-> 0]
         /\ Present(t) => Memory[t] = [status |-> status[t], attempts |-> attempts[t]]
  BY DEF Memory, TypeInv, TypeOK, Record, Present, Status

(* Without write failures a write leaves the image of memory. *)
LEMMA SaveWrites ==
  ASSUME ~DiskMayFail, TypeInv, Save, UNCHANGED taskVars
  PROVE  OnDisk' = Memory /\ Memory' = Memory
  BY DEF Save, Image, OnDisk, Memory, taskVars

(* While the lock is free nobody writes tasks.json. *)
LEMMA FreeIsQuiet == LockHeld /\ lock = "free" => ~WritingTasks
  BY ThreadsAssumption DEF LockHeld, WritingTasks, Holders

(* A thread outside the two places around the count leaves Uncounted alone. *)
LEMMA Counted ==
  ASSUME TypeInv,
         \A q \in Threads : \/ pc'[q] = pc[q] /\ job'[q] = job[q]
                            \/ pc[q] # "marked" /\ pc'[q] # "marked"
  PROVE  Uncounted' = Uncounted
<1> SUFFICES ASSUME NEW p \in Threads \X Tasks
             PROVE  (pc'[p[1]] = "marked" /\ job'[p[1]] = p[2])
                      <=> (pc[p[1]] = "marked" /\ job[p[1]] = p[2])
  BY DEF Uncounted
<1> QED
  OBVIOUS

(* A step that changes neither tasks nor file nor who writes is a stutter. *)
LEMMA Stutter ==
  UNCHANGED <<taskVars, diskVars, acked>> /\ WritingTasks' = WritingTasks
    /\ Uncounted' = Uncounted
    => UNCHANGED Durable!vars
  BY DEF Durable!vars, taskVars, diskVars, WritingTasks, Record, Uncounted

LEMMA InitMaps == Init => Durable!Init
<1> SUFFICES ASSUME Init PROVE Durable!Init
  OBVIOUS
<1>1. {p \in Threads \X Tasks : pc[p[1]] = "marked" /\ job[p[1]] = p[2]} = {}
  BY DEF Init
<1> QED
  BY <1>1 DEF Init, Durable!Init, Durable!Absent, Record, Image, WritingTasks

-----------------------------------------------------------------------------
(* The store's actions in these terms, one fact per action: what is left   *)
(* to show of a worker's step is about Memory, OnDisk and WritingTasks.    *)

LEMMA RequestForm ==
  ASSUME NEW u \in Tasks, NEW r,
         ~WritingTasks, WritingTasks',
         Memory' = [Memory EXCEPT ![u] = r],
         OnDisk' = OnDisk, acked' = acked, Uncounted' = Uncounted
  PROVE  Durable!Request(u, r)
  BY DEF Durable!Request, Memory, OnDisk, Uncounted

LEMMA RequestMaps ==
  ASSUME Grounds, NEW u \in Tasks, CreateTask(u) \/ CancelTask(u) \/ RetryTask(u)
  PROVE  Durable!Create(u) \/ Durable!Cancel(u) \/ Durable!Retry(u)
<1> USE DEF Grounds
<1>1. lock = "free" /\ lock' = "api" /\ UNCHANGED <<file, disk, acked, pc, job, attempts>>
  BY DEF CreateTask, CancelTask, RetryTask, ApiMutates, diskVars, thrVars, histVars
<1>2. /\ ~WritingTasks /\ WritingTasks'
      /\ OnDisk' = OnDisk /\ acked' = acked /\ Uncounted' = Uncounted
  BY <1>1, FreeIsQuiet DEF WritingTasks, OnDisk, Record, Uncounted
<1>4. CASE CreateTask(u)
  <2>1. ~Present(u) /\ attempts[u] = 0 /\ u \notin acked
    BY <1>4 DEF CreateTask, Fresh, AckedSaved, Present
  <2>2. Memory' = [Memory EXCEPT ![u] = [status |-> "queued", attempts |-> 0]]
    BY <1>1, <1>4, <2>1, StatusOnly DEF CreateTask, Record
  <2>3. Memory[u] = [status |-> "absent", attempts |-> 0]
    BY <2>1, RecordOf
  <2>4. Durable!Request(u, [status |-> "queued", attempts |-> 0])
    BY <1>2, <2>2, RequestForm
  <2> QED
    BY <2>1, <2>3, <2>4 DEF Durable!Create, Durable!Present, Durable!Absent, Memory
<1>5. CASE CancelTask(u)
  <2>1. /\ Memory[u] = [status |-> status[u], attempts |-> attempts[u]]
        /\ Memory[u] # [status |-> "absent", attempts |-> 0]
        /\ status[u] \notin {"complete", "cancelled"}
    BY <1>5, RecordOf DEF CancelTask
  <2>2. Memory' = [Memory EXCEPT ![u] = [Memory[u] EXCEPT !.status = "cancelled"]]
    <3>1. TypeInv /\ Present(u) /\ status' = [status EXCEPT ![u] = "cancelled"]
      BY <1>5 DEF CancelTask
    <3> QED
      BY <1>1, <3>1, StatusOfPresent
  <2>3. Durable!Request(u, [Memory[u] EXCEPT !.status = "cancelled"])
    BY <1>2, <2>2, RequestForm
  <2> QED
    BY <2>1, <2>3 DEF Durable!Cancel, Durable!Present, Durable!Absent, Memory
<1>6. CASE RetryTask(u)
  <2>1. /\ Memory[u] = [status |-> status[u], attempts |-> attempts[u]]
        /\ status[u] \in {"failed", "blocked"}
    BY <1>6, RecordOf DEF RetryTask, Present
  <2>2. Memory' = [Memory EXCEPT ![u] = [Memory[u] EXCEPT !.status = "queued"]]
    <3>1. TypeInv /\ Present(u) /\ status' = [status EXCEPT ![u] = "queued"]
      BY <1>6 DEF RetryTask, Present
    <3> QED
      BY <1>1, <3>1, StatusOfPresent
  <2>3. Durable!Request(u, [Memory[u] EXCEPT !.status = "queued"])
    BY <1>2, <2>2, RequestForm
  <2> QED
    BY <2>1, <2>3 DEF Durable!Retry, Memory
<1> QED
  BY <1>4, <1>5, <1>6

LEMMA BeginMaps ==
  ASSUME Grounds, NEW r \in Threads, MarkRunning(r)
  PROVE  Durable!Begin(r, job[r])
<1>1. job[r] \in Tasks /\ Present(job[r]) /\ TypeInv
  BY DEF Grounds, MarkRunning, JobPresent, TypeInv, HoldsTask, RunPcs
<1>2. Memory' = [Memory EXCEPT ![job[r]] = [Memory[job[r]] EXCEPT !.status = "running"]]
  <2>1. /\ status' = [status EXCEPT ![job[r]] = "running"] /\ attempts' = attempts
    BY DEF MarkRunning
  <2> QED
    BY <1>1, <2>1, StatusOfPresent
<1>3. Memory[job[r]] # [status |-> "absent", attempts |-> 0]
  BY <1>1, RecordOf
<1>4. WritingTasks' = WritingTasks /\ OnDisk' = OnDisk /\ acked' = acked
  BY <1>1 DEF MarkRunning, WritingTasks, OnDisk, diskVars, histVars, Record,
              TypeInv, TypeOK
<1>5. /\ pc[r] = "picked" /\ pc' = [pc EXCEPT ![r] = "marked"] /\ job' = job
      /\ pc \in [Threads -> Pcs]
  BY <1>1 DEF MarkRunning, TypeInv, TypeOK
<1>6. \A u \in Tasks : <<r, u>> \notin Uncounted
  BY <1>5 DEF Uncounted
<1>7. Uncounted' = Uncounted \cup {<<r, job[r]>>}
  <2>1. ASSUME NEW q \in Threads, NEW u \in Tasks
        PROVE  <<q, u>> \in Uncounted' <=> <<q, u>> \in Uncounted \cup {<<r, job[r]>>}
    BY <1>1, <1>5 DEF Uncounted
  <2>2. Uncounted \subseteq Threads \X Tasks /\ Uncounted' \subseteq Threads \X Tasks
    BY DEF Uncounted
  <2> QED
    BY <1>1, <2>1, <2>2
<1> QED
  BY <1>2, <1>3, <1>4, <1>6, <1>7
  DEF Durable!Begin, Durable!Present, Durable!Absent, Memory, OnDisk, Uncounted

LEMMA CountMaps ==
  ASSUME Grounds, NEW r \in Threads, CountAttempt(r)
  PROVE  Durable!Count(r, job[r])
<1>1. job[r] \in Tasks /\ Present(job[r]) /\ TypeInv
  BY DEF Grounds, CountAttempt, JobPresent, TypeInv, HoldsTask, RunPcs
<1>2. Memory[job[r]] = [status |-> status[job[r]], attempts |-> attempts[job[r]]]
  BY <1>1, RecordOf
<1>3. Memory' = [Memory EXCEPT ![job[r]] = Record(status[job[r]], attempts[job[r]] + 1)]
  <2>1. /\ status' = [status EXCEPT ![job[r]] = status[job[r]]]
        /\ attempts' = [attempts EXCEPT ![job[r]] = attempts[job[r]] + 1]
    BY <1>1 DEF CountAttempt, TypeInv, TypeOK
  <2> QED
    BY <1>1, <2>1, OneRecord
<1>4. Memory' = [Memory EXCEPT ![job[r]] =
                   [Memory[job[r]] EXCEPT !.attempts = @ + 1]]
  <2>1. Record(status[job[r]], attempts[job[r]] + 1) =
          [status |-> status[job[r]], attempts |-> attempts[job[r]] + 1]
    BY <1>1 DEF Record, Present
  <2>2. [Memory[job[r]] EXCEPT !.attempts = @ + 1] =
          [status |-> status[job[r]], attempts |-> attempts[job[r]] + 1]
    BY <1>2
  <2> QED
    BY <1>3, <2>1, <2>2
<1>5. Memory[job[r]] # [status |-> "absent", attempts |-> 0]
  BY <1>1, RecordOf
<1>6. WritingTasks' = WritingTasks /\ OnDisk' = OnDisk /\ acked' = acked
  BY <1>1 DEF CountAttempt, WritingTasks, OnDisk, diskVars, histVars, Record,
              TypeInv, TypeOK
<1>7. /\ pc[r] = "marked" /\ pc' = [pc EXCEPT ![r] = "begun"] /\ job' = job
      /\ pc \in [Threads -> Pcs]
  BY <1>1 DEF CountAttempt, TypeInv, TypeOK
<1>8. <<r, job[r]>> \in Uncounted
  BY <1>1, <1>7 DEF Uncounted
<1>9. Uncounted' = Uncounted \ {<<r, job[r]>>}
  <2>1. ASSUME NEW q \in Threads, NEW u \in Tasks
        PROVE  <<q, u>> \in Uncounted' <=> <<q, u>> \in Uncounted \ {<<r, job[r]>>}
    BY <1>1, <1>7 DEF Uncounted
  <2>2. Uncounted \subseteq Threads \X Tasks /\ Uncounted' \subseteq Threads \X Tasks
    BY DEF Uncounted
  <2> QED
    BY <2>1, <2>2
<1> QED
  BY <1>4, <1>5, <1>6, <1>8, <1>9
  DEF Durable!Count, Durable!Present, Durable!Absent, Memory, OnDisk, Uncounted

LEMMA FinishMaps ==
  ASSUME Grounds, NEW r \in Threads, Execute(r)
  PROVE  Durable!Finish(job[r])
<1>1. job[r] \in Tasks /\ Present(job[r]) /\ TypeInv
  BY DEF Grounds, Execute, JobPresent, TypeInv, HoldsTask, RunPcs
<1>2. Memory[job[r]] = [status |-> status[job[r]], attempts |-> attempts[job[r]]]
  BY <1>1, RecordOf
<1>3. PICK outcome \in Outcomes :
        status' = [status EXCEPT ![job[r]] = ResultOf(r, outcome)]
  BY DEF Execute
<1> DEFINE s == ResultOf(r, outcome)
<1>4. /\ s \in {"complete", "failed", "blocked", "queued"}
      /\ s = "queued" => attempts[job[r]] <= MaxRetries[job[r]]
  BY OutcomesAssumption DEF ResultOf
<1>5. Memory' = [Memory EXCEPT ![job[r]] = [Memory[job[r]] EXCEPT !.status = s]]
  <2>1. s \notin {"unborn", "lost"}
    BY <1>4
  <2>2. attempts' = attempts
    BY DEF Execute
  <2> HIDE DEF s
  <2> QED
    BY <1>1, <1>3, <2>1, <2>2, StatusOfPresent DEF s
<1>6. WritingTasks' = WritingTasks /\ OnDisk' = OnDisk /\ acked' = acked
  BY <1>1 DEF Execute, WritingTasks, OnDisk, diskVars, histVars, Record,
              TypeInv, TypeOK
<1>7. Memory[job[r]] # [status |-> "absent", attempts |-> 0]
  BY <1>1, RecordOf
<1>8. s = "queued" => Memory[job[r]].attempts <= MaxRetries[job[r]]
  BY <1>2, <1>4
<1>9. Uncounted' = Uncounted
  BY <1>1, Counted DEF Execute, TypeInv, TypeOK
<1> HIDE DEF s
<1> QED
  BY <1>4, <1>5, <1>6, <1>7, <1>8, <1>9
  DEF Durable!Finish, Durable!Present, Durable!Absent, Memory, OnDisk, Uncounted

(* A write that succeeds is the end of the store's write. *)
LEMMA WriteMaps ==
  ASSUME ~DiskMayFail, TypeInv, Save, UNCHANGED taskVars,
         WritingTasks, ~WritingTasks', Uncounted' = Uncounted,
         acked' \in {acked, acked \cup {t \in Tasks : Present(t)}}
  PROVE  Durable!EndWrite
<1>1. OnDisk' = Memory /\ Memory' = Memory
  BY SaveWrites
<1>2. {t \in Tasks : Present(t)} =
        {t \in Tasks : Memory[t] # [status |-> "absent", attempts |-> 0]}
  BY RecordOf
<1> QED
  BY <1>1, <1>2
  DEF Durable!EndWrite, Durable!Present, Durable!Absent, Memory, OnDisk, Uncounted

LEMMA SavesMap ==
  ASSUME ~DiskMayFail, Grounds,
         \/ BootSave \/ ApiSave
         \/ \E r \in Threads : SaveStart(r) \/ SaveEnd(r)
  PROVE  Durable!EndWrite
<1>1. TypeInv /\ LockHeld /\ TypeOK
  BY DEF Grounds, TypeInv
<1>2. CASE BootSave
  <2>1. Save /\ UNCHANGED taskVars /\ WritingTasks /\ acked' = acked
    BY <1>2 DEF BootSave, WritingTasks, histVars
  <2>2. ~WritingTasks'
    <3>1. lock' = "free" /\ \A r \in Threads : pc[r] \notin {"savingStart", "savingEnd"}
      BY <1>1, <1>2, ThreadsAssumption DEF BootSave, LockHeld, Holders
    <3>2. \A r \in Threads : pc'[r] \notin {"savingStart", "savingEnd"}
      BY <1>1, <1>2, <3>1 DEF BootSave, TypeOK
    <3> QED
      BY <3>1, <3>2 DEF WritingTasks
  <2>3. Uncounted' = Uncounted
    BY <1>1, <1>2, Counted DEF BootSave, TypeOK
  <2> QED
    BY <1>1, <2>1, <2>2, <2>3, WriteMaps
<1>3. CASE ApiSave
  <2>1. /\ Save /\ UNCHANGED taskVars /\ WritingTasks
        /\ acked' = acked \cup {t \in Tasks : Present(t)}
    BY <1>3 DEF ApiSave, WritingTasks
  <2>2. ~WritingTasks'
    <3>1. /\ lock' = "free" /\ pc' = pc
          /\ \A r \in Threads : pc[r] \notin {"savingStart", "savingEnd"}
      BY <1>1, <1>3, ThreadsAssumption DEF ApiSave, LockHeld, Holders, thrVars
    <3> QED
      BY <3>1 DEF WritingTasks
  <2>3. Uncounted' = Uncounted
    BY <1>3 DEF ApiSave, thrVars, Uncounted
  <2> QED
    BY <1>1, <2>1, <2>2, <2>3, WriteMaps
<1>4. ASSUME NEW r \in Threads, SaveStart(r) \/ SaveEnd(r) PROVE Durable!EndWrite
  <2>1. Save /\ UNCHANGED taskVars /\ WritingTasks /\ acked' = acked
    BY <1>4 DEF SaveStart, SaveEnd, WritingTasks, histVars
  <2>2. ~WritingTasks'
    <3>1. /\ lock' \notin {"api", "boot"}
          /\ \A q \in Threads \ {r} : pc[q] \notin {"savingStart", "savingEnd"}
      BY <1>1, <1>4, ThreadsAssumption DEF SaveStart, SaveEnd, LockHeld, Holders
    <3>2. \A q \in Threads : pc'[q] \notin {"savingStart", "savingEnd"}
      BY <1>1, <1>4, <3>1 DEF SaveStart, SaveEnd, TypeOK
    <3> QED
      BY <3>1, <3>2 DEF WritingTasks
  <2>3. Uncounted' = Uncounted
    BY <1>1, <1>4, Counted DEF SaveStart, SaveEnd, TypeOK
  <2> QED
    BY <1>1, <2>1, <2>2, <2>3, WriteMaps
<1> QED
  BY <1>2, <1>3, <1>4

(* A crash goes back to the image, or cuts the write of it short. *)
LEMMA CrashMaps ==
  ASSUME Grounds, Crash
  PROVE  Durable!Recover \/ Durable!Wipe
<1>1. TypeInv /\ TypeOK /\ WritingTasks' /\ disk' = disk /\ acked' = acked /\ Fresh
  BY DEF Grounds, TypeInv, Crash, WritingTasks
<1>4. Uncounted' = {}
  BY DEF Crash, Uncounted
<1>2. CASE file' = "torn" /\ file # "torn"
  <2>1. WritingTasks
    BY <1>2 DEF Crash
  <2>2. \A t \in Tasks : status'[t] \in {"unborn", "lost"}
    BY <1>2 DEF Crash, LoadTasks, Absent
  <2>3. /\ Memory' = [t \in Tasks |-> [status |-> "absent", attempts |-> 0]]
        /\ OnDisk' = Memory'
    BY <1>2, <2>2 DEF Memory, OnDisk, Record
  <2> QED
    BY <1>1, <1>4, <2>1, <2>3 DEF Durable!Wipe, Durable!Absent, Memory, OnDisk, Uncounted
<1>3. CASE file' = file
  <2>1. OnDisk' = OnDisk
    BY <1>1, <1>3 DEF OnDisk, Record
  <2>2. Memory' = [t \in Tasks |-> Durable!Requeued(OnDisk[t])]
    <3> SUFFICES ASSUME NEW t \in Tasks
                 PROVE  Record(status'[t], attempts'[t]) = Durable!Requeued(OnDisk[t])
      BY DEF Memory, Record
    <3>1. CASE file = "torn"
      BY <1>3, <3>1 DEF Crash, LoadTasks, Absent, Record, OnDisk, Durable!Requeued
    <3>2. CASE file # "torn"
      <4>1. /\ status'[t] = Recovered(t) /\ attempts'[t] = disk.attempts[t]
            /\ OnDisk[t] = Record(disk.status[t], disk.attempts[t])
        BY <1>3, <3>2 DEF Crash, LoadTasks, OnDisk
      <4>2. CASE disk.status[t] \in {"unborn", "lost"}
        BY <4>1, <4>2 DEF Recovered, Absent, Record, Durable!Requeued
      <4>3. CASE disk.status[t] = "running"
        BY <4>1, <4>3 DEF Recovered, Record, Durable!Requeued
      <4>4. CASE disk.status[t] \notin {"unborn", "lost", "running"}
        BY <4>1, <4>4 DEF Recovered, Record, Durable!Requeued
      <4> QED
        BY <4>2, <4>3, <4>4
    <3> QED
      BY <3>1, <3>2
  <2> QED
    BY <1>1, <1>4, <2>1, <2>2 DEF Durable!Recover, Memory, OnDisk, Uncounted
<1> QED
  BY <1>2, <1>3 DEF Crash

LEMMA LockMaps ==
  ASSUME Grounds, NEW r \in Threads, TakeLock(r)
  PROVE  Durable!StartWrite
<1>1. TypeInv /\ TypeOK /\ lock = "free" /\ ~WritingTasks
  BY FreeIsQuiet DEF Grounds, TypeInv, TakeLock
<1>2. WritingTasks'
  BY <1>1 DEF TakeLock, WritingTasks, TypeOK
<1>3. Uncounted' = Uncounted
  BY <1>1, Counted DEF TakeLock, TypeOK
<1> QED
  BY <1>1, <1>2, <1>3
  DEF TakeLock, Durable!StartWrite, taskVars, diskVars, histVars, Record, Uncounted

(* Steps the store does not see: they leave each thread that writes tasks. *)
LEMMA QuietSteps ==
  ASSUME Grounds, [Next]_vars,
         \/ \E u \in Tasks, m \in Manuals : RunNow(u, m)
         \/ \E l \in Loops : StartCheck(l) \/ StartSpawn(l) \/ LoopStep(l)
         \/ Stop \/ Pause \/ Resume \/ UNCHANGED vars
         \/ \E r \in Threads : EndBackoff(r) \/ SaveRun(r)
  PROVE  UNCHANGED Durable!vars
<1>0. TypeInv /\ TypeOK /\ LockHeld
  BY DEF Grounds, TypeInv
<1>1. ASSUME UNCHANGED lock,
             \A q \in Threads : (pc'[q] \in {"savingStart", "savingEnd"})
                                <=> (pc[q] \in {"savingStart", "savingEnd"})
      PROVE  WritingTasks' = WritingTasks
  BY <1>1 DEF WritingTasks
<1>2. ASSUME NEW u \in Tasks, NEW m \in Manuals, RunNow(u, m)
      PROVE  /\ UNCHANGED <<taskVars, diskVars, acked>>
             /\ WritingTasks' = WritingTasks /\ Uncounted' = Uncounted
  BY <1>0, <1>1, <1>2, Counted DEF RunNow, TypeOK, Threads, histVars
<1>3. ASSUME NEW l \in Loops, StartCheck(l) \/ StartSpawn(l) \/ LoopStep(l)
      PROVE  /\ UNCHANGED <<taskVars, diskVars, acked>>
             /\ WritingTasks' = WritingTasks /\ Uncounted' = Uncounted
  BY <1>0, <1>1, <1>3, Counted
  DEF StartCheck, StartSpawn, LoopStep, LoopExit, LoopAdmit, LoopPick, LoopVars,
      TypeOK, Threads, histVars
<1>4. CASE Stop \/ Pause \/ Resume \/ UNCHANGED vars
  <2>1. UNCHANGED <<taskVars, diskVars, acked, lock, pc, job>>
    BY <1>4 DEF Stop, Pause, Resume, SetFlags, vars, thrVars, histVars
  <2>2. Uncounted' = Uncounted
    BY <2>1 DEF Uncounted
  <2> QED
    BY <1>1, <2>1, <2>2, Stutter
<1>5. ASSUME NEW r \in Threads, EndBackoff(r)
      PROVE  /\ UNCHANGED <<taskVars, diskVars, acked>>
             /\ WritingTasks' = WritingTasks /\ Uncounted' = Uncounted
  BY <1>0, <1>1, <1>5, Counted DEF EndBackoff, LoopVars, TypeOK, histVars
<1>6. ASSUME NEW r \in Threads, SaveRun(r)
      PROVE  /\ UNCHANGED <<taskVars, diskVars, acked>>
             /\ WritingTasks' = WritingTasks /\ Uncounted' = Uncounted
  <2>1. UNCHANGED <<taskVars, diskVars, acked>>
    BY <1>6 DEF SaveRun, histVars
  <2>2. lock = r /\ lock' = "free" /\ r \notin Holders
    BY <1>0, <1>6, ThreadsAssumption DEF SaveRun, LockHeld
  <2>3. \A q \in Threads : pc[q] \notin {"savingStart", "savingEnd"}
    BY <1>0, <1>6, <2>2 DEF SaveRun, LockHeld
  <2>4. \A q \in Threads : pc'[q] \notin {"savingStart", "savingEnd"}
    BY <1>0, <1>6, <2>3 DEF SaveRun, TypeOK
  <2>5. ~WritingTasks /\ ~WritingTasks'
    BY <2>2, <2>3, <2>4 DEF WritingTasks, Holders
  <2>6. WritingTasks' = WritingTasks
    BY <2>5 DEF WritingTasks
  <2>7. Uncounted' = Uncounted
    BY <1>0, <1>6, Counted DEF SaveRun, TypeOK
  <2> QED
    BY <2>1, <2>6, <2>7
<1> QED
  BY <1>2, <1>3, <1>4, <1>5, <1>6, Stutter

(* A request changes its task. *)
LEMMA RequestChanges ==
  ASSUME Grounds, NEW u \in Tasks, CreateTask(u) \/ CancelTask(u) \/ RetryTask(u)
  PROVE  Memory' # Memory
<1>1. TypeInv /\ status \in [Tasks -> Status]
  BY DEF Grounds, TypeInv, TypeOK
<1>2. PICK s \in {"queued", "cancelled"} :
        /\ status' = [status EXCEPT ![u] = s]
        /\ status[u] # s
  BY DEF CreateTask, CancelTask, RetryTask
<1>3. status'[u] = s /\ s \notin {"unborn", "lost"}
  BY <1>1, <1>2
<1>4. Memory'[u] = Record(s, attempts'[u]) /\ Memory[u] = Record(status[u], attempts[u])
  BY <1>3 DEF Memory
<1>5. Record(s, attempts'[u]).status = s
  BY <1>3 DEF Record
<1>6. Record(status[u], attempts[u]).status # s
  BY <1>2, <1>3 DEF Record
<1> QED
  BY <1>4, <1>5, <1>6

LEMMA StepMaps ==
  ASSUME ~DiskMayFail, Grounds, [Next]_vars
  PROVE  Durable!Next \/ UNCHANGED Durable!vars
<1>1. CASE \E u \in Tasks : CreateTask(u) \/ CancelTask(u) \/ RetryTask(u)
  BY <1>1, RequestMaps, RequestChanges DEF Durable!Next, Durable!Change, Memory
<1>2. CASE BootSave \/ ApiSave \/ \E r \in Threads : SaveStart(r) \/ SaveEnd(r)
  BY <1>2, SavesMap DEF Durable!Next
<1>3. CASE Crash
  BY <1>3, CrashMaps DEF Durable!Next
<1>4. CASE \E r \in Threads : MarkRunning(r) \/ CountAttempt(r) \/ Execute(r)
  <2>1. PICK r \in Threads : MarkRunning(r) \/ CountAttempt(r) \/ Execute(r)
    BY <1>4
  <2>2. job[r] \in Tasks
    BY <2>1 DEF Grounds, TypeInv, HoldsTask, RunPcs, MarkRunning, CountAttempt, Execute
  <2>3. Durable!Begin(r, job[r]) \/ Durable!Count(r, job[r]) \/ Durable!Finish(job[r])
    BY <2>1, BeginMaps, CountMaps, FinishMaps
  <2>4. Durable!Change \/ UNCHANGED Durable!vars
    BY <2>2, <2>3
    DEF Durable!Change, Durable!Begin, Durable!Count, Durable!Finish, Durable!vars
  <2> QED
    BY <2>4 DEF Durable!Next
<1>5. CASE \E r \in Threads : TakeLock(r)
  BY <1>5, LockMaps DEF Durable!Next
<1>6. CASE \/ \E u \in Tasks, m \in Manuals : RunNow(u, m)
           \/ \E l \in Loops : StartCheck(l) \/ StartSpawn(l) \/ LoopStep(l)
           \/ Stop \/ Pause \/ Resume \/ UNCHANGED vars
           \/ \E r \in Threads : EndBackoff(r) \/ SaveRun(r)
  BY <1>6, QuietSteps
<1> QED
  BY <1>1, <1>2, <1>3, <1>4, <1>5, <1>6 DEF Next, RequestStep, RunStep

(***************************************************************************)
(* The worker implements the store when writes do not fail: whatever       *)
(* threads, requests and crashes do, tasks change only as the store allows *)
(* (a retry within max_retries, a request written before it is answered, a *)
(* restart from the last whole image).                                     *)
(***************************************************************************)
THEOREM WorkerImplementsStore == ~DiskMayFail => (Spec => ImplementsDurable)
<1> SUFFICES ASSUME ~DiskMayFail PROVE Spec => ImplementsDurable
  OBVIOUS
<1>1. Init => Durable!Init
  BY InitMaps
<1>2. Grounds /\ [Next]_vars => [Durable!Next]_(Durable!vars)
  BY StepMaps
<1> QED
  BY <1>1, <1>2, GroundsHold, PTL DEF Spec, ImplementsDurable, Durable!Spec

(* So the worker keeps what the store keeps: without write failures, only  *)
(* a crash inside a write of tasks.json takes an answered task away.       *)
THEOREM WorkerKeepsAnswered == ~DiskMayFail => (Spec => Durable!AnsweredKept)
<1>1. Durable!Spec => Durable!AnsweredKept
  BY Durable!AnsweredAreKept
<1> QED
  BY <1>1, WorkerImplementsStore DEF ImplementsDurable

=============================================================================
