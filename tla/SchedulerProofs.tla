-------------------------- MODULE SchedulerProofs --------------------------
(***************************************************************************)
(* Theorems about Scheduler, for every set of schedules, of requests and   *)
(* of fires, every body of the requests and any number of crashes.         *)
(*                                                                         *)
(* The lock is what the argument rests on: a thread that is about to write *)
(* holds it (LockHeld), so between the change a request makes and its      *)
(* write nobody else changes or writes a record.                           *)
(***************************************************************************)
EXTENDS Scheduler, TLAPS

RequestTarget == \A r \in Requests : step[r] # "idle" => arg[r] \in Scheds
FireTarget    == \A f \in Fires : pc[f] # "idle" => of[f] \in Scheds
TypeInv       == TypeOK /\ RequestTarget /\ FireTarget

(* A thread that is about to write holds the lock. *)
LockHeld ==
    /\ \A r \in Requests : step[r] = "saving" => lock = r
    /\ \A f \in Fires : pc[f] = "saving" => lock = f

(* What _save leaves in schedules.json. *)
LEMMA SaveType == TypeOK /\ Save => /\ file' \in {"current", "stale", "torn"}
                                    /\ disk' \in Images
  BY DEF TypeOK, Save, Image, Images

(* What a changed job store holds. *)
LEMMA JobType ==
  ASSUME TypeOK, NEW what \in Ops, NEW s \in Scheds
  PROVE  JobAfter(what, s) \in {"none", "active", "paused"}
  BY DEF TypeOK, JobAfter, Registered, Ops

(* The type invariant holds initially. *)
LEMMA TypeInit == Init => TypeInv
<1> SUFFICES ASSUME Init PROVE TypeInv
  OBVIOUS
<1>1. disk \in Images
  BY DEF Init, Image, Images, Lives, Triggers, Results
<1> QED
  BY <1>1 DEF Init, TypeInv, TypeOK, RequestTarget, FireTarget, Lives, Triggers,
              Results, Ops, FirePcs

(* Every step of a request keeps the type invariant. *)
LEMMA TypeRequest ==
  ASSUME TypeInv, NEW r \in Requests, RequestStep(r) PROVE TypeInv'
<1> USE DEF TypeInv, TypeOK, RequestTarget, FireTarget
<1>1. ASSUME NEW s \in Scheds, AddSchedule(r, s) PROVE TypeInv'
  BY <1>1, BodiesAssumption
     DEF AddSchedule, Begin, SetRecord, Bodies, Ops, Lives, diskVars, fireVars, histVars
<1>2. ASSUME NEW s \in Scheds, UpdateSchedule(r, s) PROVE TypeInv'
  BY <1>2, BodiesAssumption
     DEF UpdateSchedule, Begin, SetRecord, Restarted, Bodies, Ops, diskVars, fireVars
<1>3. ASSUME NEW s \in Scheds, RemoveSchedule(r, s) PROVE TypeInv'
  BY <1>3 DEF RemoveSchedule, Begin, Ops, Lives, diskVars, fireVars, histVars
<1>4. ASSUME NEW s \in Scheds, PauseSchedule(r, s) PROVE TypeInv'
  BY <1>4 DEF PauseSchedule, Begin, Ops, diskVars, fireVars, histVars
<1>5. ASSUME NEW s \in Scheds, ResumeSchedule(r, s) PROVE TypeInv'
  BY <1>5 DEF ResumeSchedule, Begin, Restarted, Ops, diskVars, fireVars
<1>6. CASE RequestSave(r)
  BY <1>6, SaveType DEF RequestSave, recVars, fireVars
<1>7. CASE RequestCall(r)
  <2>1. op[r] \in Ops /\ arg[r] \in Scheds
    BY <1>7 DEF RequestCall
  <2>2. JobAfter(op[r], arg[r]) \in {"none", "active", "paused"}
    BY <2>1, JobType
  <2> QED
    BY <1>7, <2>2 DEF RequestCall, recVars, diskVars, fireVars, histVars, Ops
<1> QED
  BY <1>1, <1>2, <1>3, <1>4, <1>5, <1>6, <1>7 DEF RequestStep

(* Every step of a fire keeps the type invariant. *)
LEMMA TypeFire == ASSUME TypeInv, NEW f \in Fires, FireStep(f) PROVE TypeInv'
<1> USE DEF TypeInv, TypeOK, RequestTarget, FireTarget, FirePcs, Otherwise,
            recVars, diskVars, reqVars
<1>1. ASSUME NEW s \in Scheds, NEW t \in BOOLEAN, StartFire(f, s, t) PROVE TypeInv'
  <2>1. timer' \in [Fires -> BOOLEAN]
    BY <1>1 DEF StartFire
  <2> QED
    BY <1>1, <2>1 DEF StartFire
<1>2. CASE FireFetch(f)
  BY <1>2 DEF FireFetch, EndFire
<1>3. CASE FireCheck(f)
  BY <1>3 DEF FireCheck, EndFire
<1>4. CASE FireRun(f)
  BY <1>4 DEF FireRun, LastStatus, Results
<1>5. CASE FireLock(f)
  BY <1>5 DEF FireLock, histVars
<1>6. CASE FireSave(f)
  BY <1>6, SaveType DEF FireSave, EndFire
<1>7. CASE FireStart(f)
  BY <1>7 DEF FireStart
<1> QED
  BY <1>1, <1>2, <1>3, <1>4, <1>5, <1>6, <1>7 DEF FireStep, TimerFire, RunNow

(* A crash and the restart after it keep the type invariant. *)
LEMMA TypeCrash == TypeInv /\ Crash => TypeInv'
<1> SUFFICES ASSUME TypeInv, Crash PROVE TypeInv'
  OBVIOUS
<1>1. \A s \in Scheds : Loaded(s) \in Lives
  BY DEF TypeInv, TypeOK, Loaded, Images, Lives
<1>2. \A s \in Scheds : StartedJob(s) \in {"none", "active", "paused"}
  BY DEF StartedJob
<1>3. restarts' \in Nat
  BY DEF TypeInv, TypeOK, Crash
<1> QED
  BY <1>1, <1>2, <1>3
     DEF Crash, TypeInv, TypeOK, RequestTarget, FireTarget, Images, Ops, FirePcs

(* The type invariant is inductive. *)
LEMMA TypeStep == TypeInv /\ [Next]_vars => TypeInv'
<1>1. CASE UNCHANGED vars
  BY <1>1 DEF TypeInv, TypeOK, RequestTarget, FireTarget, vars, recVars, diskVars,
              reqVars, fireVars, histVars
<1> QED
  BY <1>1, TypeRequest, TypeFire, TypeCrash DEF Next

(* In every reachable state the variables have their types. *)
THEOREM TypeCorrect == Spec => []TypeOK
<1>1. TypeInv => TypeOK
  BY DEF TypeInv
<1> QED
  BY <1>1, TypeInit, TypeStep, PTL DEF Spec

-----------------------------------------------------------------------------
(* Who is about to write holds the lock, and keeps it until it has written. *)
LEMMA LockHeldStep == TypeInv /\ LockHeld /\ [Next]_vars => LockHeld'
<1> SUFFICES ASSUME TypeInv, LockHeld, [Next]_vars PROVE LockHeld'
  OBVIOUS
<1>0. /\ step \in [Requests -> {"idle", "saving", "calling"}]
      /\ pc \in [Fires -> FirePcs]
  BY DEF TypeInv, TypeOK
<1>1. ASSUME NEW r \in Requests, RequestStep(r) PROVE LockHeld'
  <2>1. CASE \E s \in Scheds : \/ AddSchedule(r, s) \/ UpdateSchedule(r, s)
                               \/ RemoveSchedule(r, s)
                               \/ PauseSchedule(r, s) \/ ResumeSchedule(r, s)
    BY <1>0, <2>1, ThreadsAssumption
       DEF LockHeld, AddSchedule, UpdateSchedule, RemoveSchedule, PauseSchedule,
           ResumeSchedule, Begin, fireVars
  <2>2. CASE RequestSave(r)
    BY <1>0, <2>2, ThreadsAssumption DEF LockHeld, RequestSave, fireVars
  <2>3. CASE RequestCall(r)
    BY <1>0, <2>3 DEF LockHeld, RequestCall, fireVars
  <2> QED
    BY <1>1, <2>1, <2>2, <2>3 DEF RequestStep
<1>2. ASSUME NEW f \in Fires, FireStep(f) PROVE LockHeld'
  <2>1. ASSUME NEW s \in Scheds, NEW t, StartFire(f, s, t) PROVE LockHeld'
    BY <1>0, <2>1 DEF LockHeld, StartFire, Otherwise, reqVars
  <2>2. CASE FireFetch(f) \/ FireCheck(f) \/ FireStart(f) \/ FireRun(f)
    BY <1>0, <2>2
       DEF LockHeld, FireFetch, FireCheck, FireStart, FireRun, EndFire, Otherwise, reqVars
  <2>3. CASE FireLock(f) \/ FireSave(f)
    BY <1>0, <2>3, ThreadsAssumption DEF LockHeld, FireLock, FireSave, EndFire, reqVars
  <2> QED
    BY <1>2, <2>1, <2>2, <2>3 DEF FireStep, TimerFire, RunNow
<1>3. CASE Crash
  BY <1>3 DEF Crash, LockHeld
<1>4. CASE UNCHANGED vars
  BY <1>4 DEF vars, LockHeld, reqVars, fireVars
<1> QED
  BY <1>1, <1>2, <1>3, <1>4 DEF Next

-----------------------------------------------------------------------------
(***************************************************************************)
(* DiskCurrent: a write takes the whole image, so it repairs whatever was  *)
(* unwritten; a record changes only under the lock, but for last_status,   *)
(* which its fire still has to save.                                       *)
(***************************************************************************)
LEMMA DiskCurrentStep == TypeInv /\ DiskCurrent /\ [Next]_vars => DiskCurrent'
<1> SUFFICES ASSUME TypeInv, DiskCurrent, [Next]_vars PROVE DiskCurrent'
  OBVIOUS
<1>0. /\ pc \in [Fires -> FirePcs]
      /\ of \in [Fires -> Scheds \cup {NoSched}]
      /\ last \in [Scheds -> Results]
      /\ "free" \notin Requests \cup Fires
  BY ThreadsAssumption DEF TypeInv, TypeOK
(* A save makes file and memory agree, or marks the file. *)
<1>1. ASSUME Save, UNCHANGED recVars PROVE DiskCurrent'
  BY <1>1 DEF Save, Image, recVars, DiskCurrent, Live
(* A step that leaves records, file and lock alone and drops no debt. *)
<1>2. ASSUME UNCHANGED recVars, UNCHANGED diskVars, lock' = lock,
             \A f \in Fires : pc[f] \in {"finished", "saving"} =>
                              pc'[f] \in {"finished", "saving"} /\ of'[f] = of[f]
      PROVE  DiskCurrent'
  BY <1>2 DEF DiskCurrent, Unsaved, recVars, diskVars, Live
<1>3. ASSUME NEW r \in Requests, RequestStep(r) PROVE DiskCurrent'
  <2>1. CASE \E s \in Scheds : \/ AddSchedule(r, s) \/ UpdateSchedule(r, s)
                               \/ RemoveSchedule(r, s)
                               \/ PauseSchedule(r, s) \/ ResumeSchedule(r, s)
    <3>1. lock' = r
      BY <2>1 DEF AddSchedule, UpdateSchedule, RemoveSchedule, PauseSchedule,
                  ResumeSchedule, Begin
    <3> QED
      BY <1>0, <3>1 DEF DiskCurrent
  <2>2. CASE RequestSave(r)
    BY <1>1, <2>2 DEF RequestSave
  <2>3. CASE RequestCall(r)
    BY <1>2, <2>3 DEF RequestCall, fireVars
  <2> QED
    BY <1>3, <2>1, <2>2, <2>3 DEF RequestStep
<1>4. ASSUME NEW f \in Fires, FireStep(f) PROVE DiskCurrent'
  <2>1. ASSUME NEW s \in Scheds, NEW t, StartFire(f, s, t) PROVE DiskCurrent'
    BY <1>0, <1>2, <2>1 DEF StartFire, Otherwise
  <2>2. CASE FireFetch(f) \/ FireCheck(f) \/ FireStart(f)
    BY <1>0, <1>2, <2>2 DEF FireFetch, FireCheck, FireStart, EndFire, Otherwise
  <2>3. CASE FireRun(f)
    BY <1>0, <2>3
       DEF FireRun, Otherwise, diskVars, DiskCurrent, Unsaved, Live
  <2>4. CASE FireLock(f)
    BY <1>0, <2>4 DEF FireLock, DiskCurrent
  <2>5. CASE FireSave(f)
    BY <1>1, <2>5 DEF FireSave
  <2> QED
    BY <1>4, <2>1, <2>2, <2>3, <2>4, <2>5 DEF FireStep, TimerFire, RunNow
<1>5. CASE Crash
  BY <1>5 DEF Crash, Loaded, DiskCurrent, Live, TypeInv, TypeOK
<1>6. CASE UNCHANGED vars
  BY <1>2, <1>6 DEF vars, fireVars
<1> QED
  BY <1>3, <1>4, <1>5, <1>6 DEF Next

(* Every behaviour of the scheduler keeps DiskCurrent. *)
THEOREM DiskIsCurrent == Spec => []DiskCurrent
<1>1. ASSUME Init, NEW s \in Scheds PROVE life[s] = "unborn" /\ disk.life[s] = life[s]
  <2>1. life = [u \in Scheds |-> "unborn"] /\ disk.life = life
    BY <1>1 DEF Init, Image
  <2> QED
    BY <2>1
<1>2. Init => DiskCurrent
  BY <1>1 DEF DiskCurrent, Live
<1> QED
  BY <1>2, TypeInit, TypeStep, DiskCurrentStep, PTL DEF Spec

-----------------------------------------------------------------------------
(***************************************************************************)
(* StopHolds: the file has to be stopped too, for a crash brings the file  *)
(* back; and the record a pause or removal is about to write is stopped.   *)
(***************************************************************************)
StopInv ==
    ~DiskMayFail =>
        /\ \A s \in off : /\ life[s] # "unborn" /\ ~(Live(s) /\ enabled[s])
                          /\ ~(disk.life[s] = "live" /\ disk.enabled[s])
        /\ \A r \in Requests :
              step[r] = "saving" /\ op[r] \in {"pause", "remove"} =>
                  life[arg[r]] # "unborn" /\ ~(Live(arg[r]) /\ enabled[arg[r]])

(* StopInv is inductive. *)
LEMMA StopInvStep == TypeInv /\ LockHeld /\ StopInv /\ [Next]_vars => StopInv'
<1> SUFFICES ASSUME TypeInv, LockHeld, StopInv, [Next]_vars, ~DiskMayFail PROVE StopInv'
  BY DEF StopInv
<1>0. /\ life \in [Scheds -> Lives] /\ enabled \in [Scheds -> BOOLEAN]
      /\ step \in [Requests -> {"idle", "saving", "calling"}]
      /\ op \in [Requests -> Ops] /\ arg \in [Requests -> Scheds \cup {NoSched}]
      /\ off \subseteq Scheds /\ RequestTarget
      /\ "free" \notin Requests \cup Fires
  BY ThreadsAssumption DEF TypeInv, TypeOK
(* A save by whoever it is writes the stopped records as stopped. *)
<1>1. ASSUME Save, UNCHANGED recVars
      PROVE  \A s \in off : ~(disk'.life[s] = "live" /\ disk'.enabled[s])
  BY <1>1 DEF Save, Image, recVars, StopInv, Live
(* A step that leaves records, file and requests alone. *)
<1>2. ASSUME life' = life, enabled' = enabled, disk' = disk, off' = off,
             UNCHANGED reqVars
      PROVE  StopInv'
  BY <1>2 DEF StopInv, Live, reqVars
<1>3. ASSUME NEW r \in Requests, RequestStep(r) PROVE StopInv'
  (* While a request changes a record, no other is about to write one. *)
  <2>1. ASSUME lock = "free", NEW q \in Requests PROVE step[q] # "saving"
    BY <1>0, <2>1 DEF LockHeld
  <2>2. ASSUME NEW s \in Scheds, AddSchedule(r, s) PROVE StopInv'
    BY <1>0, <2>1, <2>2 DEF AddSchedule, Begin, SetRecord, StopInv, Live, diskVars
  <2>3. ASSUME NEW s \in Scheds, UpdateSchedule(r, s) PROVE StopInv'
    BY <1>0, <2>1, <2>3 DEF UpdateSchedule, Begin, SetRecord, Restarted, StopInv, Live, diskVars
  <2>4. ASSUME NEW s \in Scheds, RemoveSchedule(r, s) PROVE StopInv'
    BY <1>0, <2>1, <2>4 DEF RemoveSchedule, Begin, StopInv, Live, diskVars, histVars
  <2>5. ASSUME NEW s \in Scheds, PauseSchedule(r, s) PROVE StopInv'
    BY <1>0, <2>1, <2>5 DEF PauseSchedule, Begin, StopInv, Live, diskVars, histVars
  <2>6. ASSUME NEW s \in Scheds, ResumeSchedule(r, s) PROVE StopInv'
    BY <1>0, <2>1, <2>6 DEF ResumeSchedule, Begin, Restarted, StopInv, Live, diskVars
  <2>7. CASE RequestSave(r)
    BY <1>0, <2>7 DEF RequestSave, Save, Image, StopInv, Live, recVars
  <2>8. CASE RequestCall(r)
    BY <1>0, <2>8 DEF RequestCall, StopInv, Live, recVars, diskVars, histVars
  <2> QED
    BY <1>3, <2>2, <2>3, <2>4, <2>5, <2>6, <2>7, <2>8 DEF RequestStep
<1>4. ASSUME NEW f \in Fires, FireStep(f) PROVE StopInv'
  <2>1. ASSUME NEW s \in Scheds, NEW t, StartFire(f, s, t) PROVE StopInv'
    BY <1>2, <2>1 DEF StartFire, Otherwise, recVars, diskVars
  <2>2. CASE FireFetch(f) \/ FireCheck(f) \/ FireStart(f) \/ FireRun(f) \/ FireLock(f)
    BY <1>2, <2>2
       DEF FireFetch, FireCheck, FireStart, FireRun, FireLock, Otherwise, recVars, diskVars,
           histVars
  <2>3. CASE FireSave(f)
    BY <1>1, <2>3 DEF FireSave, StopInv, Live, recVars, reqVars
  <2> QED
    BY <1>4, <2>1, <2>2, <2>3 DEF FireStep, TimerFire, RunNow
<1>5. CASE Crash
  BY <1>0, <1>5 DEF Crash, Loaded, StopInv, Live
<1>6. CASE UNCHANGED vars
  BY <1>2, <1>6 DEF vars, recVars, diskVars, histVars
<1> QED
  BY <1>3, <1>4, <1>5, <1>6 DEF Next

(* Whatever the other threads save, and across crashes, a stopped schedule *)
(* stays stopped.                                                          *)
THEOREM StopIsKept == Spec => []StopHolds
<1>1. Init => LockHeld /\ StopInv
  BY DEF Init, LockHeld, StopInv
<1>2. StopInv => StopHolds
  BY DEF StopInv, StopHolds
<1> QED
  BY <1>1, <1>2, TypeInit, TypeStep, LockHeldStep, StopInvStep, PTL DEF Spec

(***************************************************************************)
(* LateFiresIdle: by StopInv the record of a late fire is not there or not *)
(* enabled.  Not there, the fire finds nothing; not enabled, it stays so   *)
(* until the fire looks at it, for whoever enables it takes the fire out   *)
(* of late.                                                                *)
(***************************************************************************)
LateInv ==
    ~DiskMayFail => \A f \in late :
        /\ pc[f] \in {"fetch", "check"}
        /\ of[f] \in off
        /\ pc[f] = "check" => ~enabled[of[f]]

(* LateInv is inductive, given StopInv. *)
LEMMA LateInvStep == TypeInv /\ StopInv /\ LateInv /\ [Next]_vars => LateInv'
<1> SUFFICES ASSUME TypeInv, StopInv, LateInv, [Next]_vars, ~DiskMayFail,
                    NEW g \in Fires, g \in late'
             PROVE  /\ pc'[g] \in {"fetch", "check"}
                    /\ of'[g] \in off'
                    /\ pc'[g] = "check" => ~enabled'[of'[g]]
  BY TypeStep DEF LateInv, TypeInv, TypeOK
<1> DEFINE Idle == /\ pc'[g] \in {"fetch", "check"}
                   /\ of'[g] \in off'
                   /\ pc'[g] = "check" => ~enabled'[of'[g]]
<1>0. /\ life \in [Scheds -> Lives] /\ enabled \in [Scheds -> BOOLEAN]
      /\ pc \in [Fires -> FirePcs] /\ of \in [Fires -> Scheds \cup {NoSched}]
      /\ off \subseteq Scheds /\ late \subseteq Fires
      /\ g \in late => /\ pc[g] \in {"fetch", "check"} /\ of[g] \in off
                       /\ pc[g] = "check" => ~enabled[of[g]]
      /\ \A s \in off : life[s] # "unborn" /\ ~(Live(s) /\ enabled[s])
  BY DEF TypeInv, TypeOK, LateInv, StopInv
(* The fire was late before and stays where it is. *)
<1>1. ASSUME g \in late, UNCHANGED <<pc, of>>, of[g] \in off', enabled'[of[g]] = enabled[of[g]]
      PROVE  Idle
  BY <1>0, <1>1
<1>2. ASSUME NEW r \in Requests, RequestStep(r) PROVE Idle
  <2>1. ASSUME NEW s \in Scheds, AddSchedule(r, s) PROVE Idle
    BY <1>0, <1>1, <2>1 DEF AddSchedule, Begin, SetRecord, fireVars
  <2>2. ASSUME NEW s \in Scheds, UpdateSchedule(r, s) PROVE Idle
    <3>1. PICK body \in Updates :
            /\ enabled' = [enabled EXCEPT ![s] = body.enabled]
            /\ IF body.enabled THEN Restarted(s) ELSE UNCHANGED <<off, late>>
      BY <2>2 DEF UpdateSchedule, SetRecord
    <3>2. UNCHANGED <<pc, of>>
      BY <2>2 DEF UpdateSchedule, Begin, fireVars
    <3>3. CASE body.enabled
      BY <1>0, <1>1, <3>1, <3>2, <3>3 DEF Restarted
    <3>4. CASE ~body.enabled
      BY <1>0, <3>1, <3>2, <3>4
    <3> QED
      BY <3>3, <3>4
  <2>3. ASSUME NEW s \in Scheds, RemoveSchedule(r, s) PROVE Idle
    BY <1>0, <1>1, <2>3 DEF RemoveSchedule, Begin, fireVars, histVars
  <2>4. ASSUME NEW s \in Scheds, PauseSchedule(r, s) PROVE Idle
    BY <1>0, <2>4 DEF PauseSchedule, Begin, fireVars, histVars
  <2>5. ASSUME NEW s \in Scheds, ResumeSchedule(r, s) PROVE Idle
    BY <1>0, <1>1, <2>5 DEF ResumeSchedule, Begin, Restarted, fireVars
  <2>6. CASE RequestSave(r)
    BY <1>0, <1>1, <2>6 DEF RequestSave, recVars, fireVars
  <2>7. CASE RequestCall(r)
    BY <1>0, <1>1, <2>7 DEF RequestCall, recVars, fireVars, histVars
  <2> QED
    BY <1>2, <2>1, <2>2, <2>3, <2>4, <2>5, <2>6, <2>7 DEF RequestStep
<1>3. ASSUME NEW f \in Fires, FireStep(f) PROVE Idle
  <2> USE DEF Otherwise, recVars
  <2>1. ASSUME NEW s \in Scheds, NEW t, StartFire(f, s, t) PROVE Idle
    BY <1>0, <1>1, <2>1 DEF StartFire
  <2>2. CASE FireFetch(f)
    BY <1>0, <1>1, <2>2 DEF FireFetch, EndFire, Live
  <2>3. CASE FireCheck(f)
    BY <1>0, <1>1, <2>3 DEF FireCheck, EndFire
  <2>4. CASE FireStart(f) \/ FireRun(f) \/ FireLock(f)
    BY <1>0, <1>1, <2>4 DEF FireStart, FireRun, FireLock, histVars
  <2>5. CASE FireSave(f)
    BY <1>0, <1>1, <2>5 DEF FireSave, EndFire
  <2> QED
    BY <1>3, <2>1, <2>2, <2>3, <2>4, <2>5 DEF FireStep, TimerFire, RunNow
<1>4. CASE Crash
  BY <1>4 DEF Crash
<1>5. CASE UNCHANGED vars
  BY <1>0, <1>1, <1>5 DEF vars, recVars, fireVars, histVars
<1> QED
  BY <1>2, <1>3, <1>4, <1>5 DEF Next

(* A fire that begins after the pause or the removal was written never     *)
(* runs, whatever requests and fires overlap with it.                      *)
THEOREM LateFiresStayIdle == Spec => []LateFiresIdle
<1>1. Init => LockHeld /\ StopInv /\ LateInv
  BY DEF Init, LockHeld, StopInv, LateInv
<1>2. LateInv => LateFiresIdle
  BY DEF LateInv, LateFiresIdle
<1> QED
  BY <1>1, <1>2, TypeInit, TypeStep, LockHeldStep, StopInvStep, LateInvStep, PTL DEF Spec

-----------------------------------------------------------------------------
(***************************************************************************)
(* JobsAreDue when requests come one after the other and a PATCH leaves an *)
(* enabled schedule with a trigger (the UI sends none; one that leaves the *)
(* schedule disabled registers its job all the same).  Between the write   *)
(* of a request and its call to APScheduler record and job disagree in the *)
(* one way that the call settles: Settling.                                *)
(***************************************************************************)
Busy(r, s) == step[r] # "idle" /\ arg[r] = s

(* APScheduler has a job only of what was created, and with its trigger. *)
JobHasTrigger ==
    \A s \in Scheds : jobs[s] # "none" => trigger[s] = "good" /\ life[s] # "unborn"

(* A schedule that no request is about to change has the job it should. *)
Settled ==
    \A s \in Scheds : (\A r \in Requests : ~Busy(r, s)) =>
        /\ jobs[s] # "none" => Live(s)
        /\ jobs[s] = "active" => enabled[s]
        /\ jobs[s] = "paused" => ~enabled[s]

(* What the record of a request is when it calls APScheduler. *)
Settling ==
    \A r \in Requests : step[r] # "idle" =>
        LET s == arg[r] IN
          /\ op[r] = "add"    => Live(s) /\ jobs[s] = "none"
          /\ op[r] = "update" => Live(s) /\ enabled[s] /\ trigger[s] = "good"
          /\ op[r] = "remove" => ~Live(s)
          /\ op[r] = "pause"  => Live(s) /\ ~enabled[s]
          /\ op[r] = "resume" => Live(s) /\ enabled[s]

JobsInv == JobHasTrigger /\ Settled /\ Settling

OneByOne == \A r, q \in Requests : r = q
Enabling == \A body \in Updates : body.enabled /\ body.trigger = "good"

(* No step separates job and record, but for what its request settles. *)
LEMMA JobsStep ==
  ASSUME TypeInv, JobsInv, OneByOne, Enabling, [Next]_vars
  PROVE  JobsInv'
<1>0. /\ life \in [Scheds -> Lives] /\ enabled \in [Scheds -> BOOLEAN]
      /\ trigger \in [Scheds -> Triggers]
      /\ jobs \in [Scheds -> {"none", "active", "paused"}]
      /\ op \in [Requests -> Ops]
      /\ arg \in [Requests -> Scheds \cup {NoSched}]
      /\ step \in [Requests -> {"idle", "saving", "calling"}]
      /\ \A r \in Requests : step[r] # "idle" => arg[r] \in Scheds
  BY DEF TypeInv, TypeOK, RequestTarget
(* A step that concerns neither records, but for last_status, nor jobs nor requests. *)
<1>1. ASSUME UNCHANGED <<life, enabled, trigger, jobs, reqVars>> PROVE JobsInv'
  BY <1>1 DEF JobsInv, JobHasTrigger, Settled, Settling, Busy, Live, reqVars
<1>2. CASE Crash
  <2>1. \A s \in Scheds : /\ jobs'[s] \in {"none", "active"}
                          /\ jobs'[s] = "active" => /\ life'[s] = "live" /\ enabled'[s]
                                                    /\ trigger'[s] = "good"
    BY <1>2 DEF Crash, StartedJob
  <2>2. \A r \in Requests : step'[r] = "idle"
    BY <1>2 DEF Crash
  <2> QED
    BY <2>1, <2>2 DEF JobsInv, JobHasTrigger, Settled, Settling, Live
<1>3. ASSUME NEW f \in Fires, FireStep(f) PROVE JobsInv'
  BY <1>1, <1>3 DEF FireStep, TimerFire, RunNow, StartFire, FireFetch, FireCheck, FireStart,
                    FireRun, FireLock, FireSave, EndFire, Otherwise, recVars, reqVars
<1>4. ASSUME NEW r \in Requests, NEW s \in Scheds, NEW what \in Ops, Begin(r, what, s)
      PROVE  /\ jobs' = jobs
             /\ \A q \in Requests : q = r
             /\ step[r] = "idle" /\ step'[r] # "idle" /\ arg'[r] = s /\ op'[r] = what
             /\ \A u \in Scheds : /\ jobs[u] # "none" => Live(u)
                                  /\ jobs[u] = "active" => enabled[u]
                                  /\ jobs[u] = "paused" => ~enabled[u]
  <2>1. /\ jobs' = jobs
        /\ step[r] = "idle" /\ step'[r] # "idle" /\ arg'[r] = s /\ op'[r] = what
    BY <1>0, <1>4 DEF Begin
  <2>2. \A q \in Requests : q = r
    BY DEF OneByOne
  <2>3. \A u \in Scheds, q \in Requests : ~Busy(q, u)
    BY <2>1, <2>2 DEF Busy
  <2> QED
    BY <2>1, <2>2, <2>3 DEF JobsInv, Settled
(* A request has changed the record of s, and holds the lock. *)
<1>5. ASSUME NEW r \in Requests, NEW s \in Scheds, NEW what \in Ops, Begin(r, what, s),
             \A u \in Scheds \ {s} : /\ life'[u] = life[u] /\ enabled'[u] = enabled[u]
                                     /\ trigger'[u] = trigger[u],
             jobs[s] # "none" => trigger'[s] = "good" /\ life'[s] # "unborn",
             what = "add" => life'[s] = "live" /\ jobs[s] = "none",
             what = "update" => life'[s] = "live" /\ enabled'[s] /\ trigger'[s] = "good",
             what = "remove" => life'[s] # "live",
             what = "pause" => life'[s] = "live" /\ ~enabled'[s],
             what = "resume" => life'[s] = "live" /\ enabled'[s]
      PROVE  JobsInv'
  <2>1. JobHasTrigger'
    BY <1>4, <1>5 DEF JobsInv, JobHasTrigger
  <2>2. Settled'
    BY <1>4, <1>5 DEF Settled, Busy, Live
  <2>3. Settling'
    BY <1>4, <1>5 DEF Settling, Live
  <2> QED
    BY <2>1, <2>2, <2>3 DEF JobsInv
<1> USE DEF Ops
<1>6. ASSUME NEW r \in Requests, NEW s \in Scheds, AddSchedule(r, s) PROVE JobsInv'
  <2>1. jobs[s] = "none"
    BY <1>6 DEF AddSchedule, JobsInv, JobHasTrigger
  <2> QED
    BY <1>0, <1>5, <1>6, <2>1 DEF AddSchedule, SetRecord
<1>7. ASSUME NEW r \in Requests, NEW s \in Scheds, UpdateSchedule(r, s) PROVE JobsInv'
  <2>1. PICK body \in Updates : SetRecord(s, body)
    BY <1>7 DEF UpdateSchedule
  <2>2. body.enabled /\ body.trigger = "good"
    BY DEF Enabling
  <2>3. /\ enabled' = [enabled EXCEPT ![s] = body.enabled]
        /\ trigger' = [trigger EXCEPT ![s] = body.trigger]
    BY <2>1 DEF SetRecord
  <2>4. enabled'[s] /\ trigger'[s] = "good"
    BY <1>0, <2>2, <2>3
  <2>5. \A u \in Scheds \ {s} : enabled'[u] = enabled[u] /\ trigger'[u] = trigger[u]
    BY <1>0, <2>3
  <2>6. life' = life /\ life[s] = "live" /\ Begin(r, "update", s)
    BY <1>7 DEF UpdateSchedule, Live
  <2> QED
    BY <1>5, <2>4, <2>5, <2>6
<1>8. ASSUME NEW r \in Requests, NEW s \in Scheds,
             RemoveSchedule(r, s) \/ PauseSchedule(r, s) \/ ResumeSchedule(r, s)
      PROVE  JobsInv'
  <2>1. jobs[s] # "none" => trigger[s] = "good" /\ life[s] # "unborn"
    BY DEF JobsInv, JobHasTrigger
  <2>2. CASE RemoveSchedule(r, s)
    BY <1>0, <1>5, <2>1, <2>2 DEF RemoveSchedule, Live
  <2>3. CASE PauseSchedule(r, s)
    BY <1>0, <1>5, <2>1, <2>3 DEF PauseSchedule, Live
  <2>4. CASE ResumeSchedule(r, s)
    BY <1>0, <1>5, <2>1, <2>4 DEF ResumeSchedule, Live
  <2> QED
    BY <1>8, <2>2, <2>3, <2>4
<1>9. ASSUME NEW r \in Requests, RequestSave(r) PROVE JobsInv'
  <2>1. /\ UNCHANGED <<life, enabled, trigger, jobs, op, arg>>
        /\ step[r] = "saving" /\ step' = [step EXCEPT ![r] = "calling"]
    BY <1>9 DEF RequestSave, recVars
  <2>2. \A q \in Requests : step'[q] # "idle" <=> step[q] # "idle"
    BY <1>0, <2>1
  <2> QED
    BY <2>1, <2>2 DEF JobsInv, JobHasTrigger, Settled, Settling, Busy, Live
<1>10. ASSUME NEW r \in Requests, RequestCall(r) PROVE JobsInv'
  <2> DEFINE s == arg[r]
  <2>1. /\ s \in Scheds /\ op[r] \in Ops /\ step[r] = "calling"
        /\ UNCHANGED <<life, enabled, trigger>>
        /\ jobs' = [jobs EXCEPT ![s] = JobAfter(op[r], s)]
        /\ step' = [step EXCEPT ![r] = "idle"]
    BY <1>0, <1>10 DEF RequestCall, recVars
  <2>2. \A q \in Requests : q = r
    BY DEF OneByOne
  <2>3. \A q \in Requests : step'[q] = "idle"
    BY <1>0, <2>1, <2>2
  <2>4. \A u \in Scheds \ {s} : jobs'[u] = jobs[u] /\ \A q \in Requests : ~Busy(q, u)
    BY <1>0, <2>1, <2>2 DEF Busy
  <2>5. jobs'[s] = JobAfter(op[r], s)
    BY <1>0, <2>1
  <2>6. /\ op[r] = "add"    => Live(s) /\ jobs[s] = "none"
        /\ op[r] = "update" => Live(s) /\ enabled[s] /\ trigger[s] = "good"
        /\ op[r] = "remove" => ~Live(s)
        /\ op[r] = "pause"  => Live(s) /\ ~enabled[s]
        /\ op[r] = "resume" => Live(s) /\ enabled[s]
    BY <2>1 DEF JobsInv, Settling
  <2>7. /\ jobs[s] # "none" => trigger[s] = "good" /\ life[s] # "unborn"
        /\ jobs[s] \in {"none", "active", "paused"}
    BY <1>0, <2>1 DEF JobsInv, JobHasTrigger
  <2> HIDE DEF s
  <2>8. /\ jobs'[s] # "none" => trigger[s] = "good" /\ Live(s)
        /\ jobs'[s] = "active" => enabled[s]
        /\ jobs'[s] = "paused" => ~enabled[s]
    BY <2>1, <2>5, <2>6, <2>7 DEF JobAfter, Registered
  <2>9. JobHasTrigger'
    BY <2>1, <2>4, <2>8 DEF JobsInv, JobHasTrigger, Live
  <2>10. Settled'
    BY <2>1, <2>4, <2>8 DEF JobsInv, Settled, Live
  <2>11. Settling'
    BY <2>3 DEF Settling
  <2> QED
    BY <2>9, <2>10, <2>11 DEF JobsInv
<1>11. CASE UNCHANGED vars
  BY <1>1, <1>11 DEF vars, recVars
<1> QED
  BY <1>2, <1>3, <1>6, <1>7, <1>8, <1>9, <1>10, <1>11 DEF Next, RequestStep

(* Handled one after the other, requests never leave APScheduler with a    *)
(* job for a schedule that is not due, whatever the fires, the failed      *)
(* writes and the crashes between them.                                    *)
THEOREM JobsStayDue ==
  ASSUME OneByOne, Enabling PROVE Spec => []JobsAreDue
<1>1. Init => JobsInv
  BY DEF Init, JobsInv, JobHasTrigger, Settled, Settling
<1>2. TypeInv /\ JobsInv /\ [Next]_vars => JobsInv'
  BY JobsStep
<1>3. JobsInv => JobsAreDue
  <2> SUFFICES ASSUME JobsInv, Quiet, NEW s \in Scheds
               PROVE  /\ jobs[s] = "active" => Due(s)
                      /\ jobs[s] = "paused" => Live(s) /\ ~enabled[s]
    BY DEF JobsAreDue
  <2> QED
    BY DEF JobsInv, JobHasTrigger, Settled, Quiet, Busy, Due
<1> QED
  BY <1>1, <1>2, <1>3, TypeInit, TypeStep, PTL DEF Spec

-----------------------------------------------------------------------------
(***************************************************************************)
(* DueKeepsJob under the same requests.  A schedule that has a trigger and *)
(* was not missed has a job, unless a request is about to register it.     *)
(***************************************************************************)
HasJob ==
    \A s \in Scheds :
        /\ Live(s) /\ trigger[s] = "good" /\ s \notin missed
        /\ \A r \in Requests : Busy(r, s) => op[r] \notin {"add", "update"}
        => jobs[s] # "none"

AddRegisters ==
    \A r \in Requests : step[r] # "idle" /\ op[r] = "add" =>
        enabled[arg[r]] \/ arg[r] \in missed

KeepInv == HasJob /\ AddRegisters

(* Every way to become due registers the job, or counts as missed. *)
LEMMA KeepStep ==
  ASSUME TypeInv, JobsInv, KeepInv, OneByOne, Enabling, [Next]_vars
  PROVE  KeepInv'
<1>0. /\ life \in [Scheds -> Lives] /\ enabled \in [Scheds -> BOOLEAN]
      /\ trigger \in [Scheds -> Triggers]
      /\ jobs \in [Scheds -> {"none", "active", "paused"}]
      /\ op \in [Requests -> Ops]
      /\ arg \in [Requests -> Scheds \cup {NoSched}]
      /\ step \in [Requests -> {"idle", "saving", "calling"}]
      /\ missed \subseteq Scheds
      /\ \A r \in Requests : step[r] # "idle" => arg[r] \in Scheds
  BY DEF TypeInv, TypeOK, RequestTarget
(* A step that concerns neither records, but for last_status, nor jobs nor requests. *)
<1>1. ASSUME UNCHANGED <<life, enabled, trigger, jobs, missed, reqVars>> PROVE KeepInv'
  BY <1>1 DEF KeepInv, HasJob, AddRegisters, Busy, Live, reqVars
<1>2. CASE Crash
  <2>1. /\ jobs' = [s \in Scheds |-> StartedJob(s)]
        /\ missed' = {s \in Scheds : PassedOver(s)}
        /\ \A r \in Requests : step'[r] = "idle"
    BY <1>2 DEF Crash
  <2>2. ASSUME NEW s \in Scheds, life'[s] = "live", trigger'[s] = "good", s \notin missed'
        PROVE  jobs'[s] # "none"
    <3>1. ~PassedOver(s)
      BY <2>1, <2>2
    <3>2. StartedJob(s) = "active"
      BY <2>2, <3>1 DEF StartedJob, PassedOver
    <3> QED
      BY <2>1, <3>2
  <2> QED
    BY <2>1, <2>2 DEF KeepInv, HasJob, AddRegisters, Live
<1>3. ASSUME NEW f \in Fires, FireStep(f) PROVE KeepInv'
  BY <1>1, <1>3 DEF FireStep, TimerFire, RunNow, StartFire, FireFetch, FireCheck, FireStart,
                    FireRun, FireLock, FireSave, EndFire, Otherwise, recVars, reqVars, histVars
(* A request has changed the record of s, and holds the lock. *)
<1>4. ASSUME NEW r \in Requests, NEW s \in Scheds, NEW what \in Ops, Begin(r, what, s),
             \A u \in Scheds \ {s} : /\ life'[u] = life[u] /\ enabled'[u] = enabled[u]
                                     /\ trigger'[u] = trigger[u]
                                     /\ u \in missed' <=> u \in missed,
             what = "add" => enabled'[s] \/ s \in missed',
             what \notin {"add", "update"} =>
               /\ life'[s] = "live" => life[s] = "live"
               /\ trigger' = trigger /\ missed' = missed
      PROVE  KeepInv'
  <2>1. /\ jobs' = jobs /\ step[r] = "idle" /\ step'[r] # "idle"
        /\ arg'[r] = s /\ op'[r] = what
        /\ \A q \in Requests : q = r
    BY <1>0, <1>4 DEF Begin, OneByOne
  <2>2. \A u \in Scheds, q \in Requests : ~Busy(q, u)
    BY <2>1 DEF Busy
  <2>3. HasJob'
    <3> SUFFICES ASSUME NEW u \in Scheds, life'[u] = "live", trigger'[u] = "good", u \notin missed',
                        \A q \in Requests : Busy(q, u)' => op'[q] \notin {"add", "update"}
                 PROVE  jobs'[u] # "none"
      BY DEF HasJob, Live
    <3>1. CASE u = s
      <4>1. what \notin {"add", "update"}
        BY <2>1, <3>1 DEF Busy
      <4> QED
        BY <1>4, <2>1, <2>2, <3>1, <4>1 DEF KeepInv, HasJob, Live
    <3>2. CASE u # s
      BY <1>4, <2>1, <2>2, <3>2 DEF KeepInv, HasJob, Live
    <3> QED
      BY <3>1, <3>2
  <2>4. AddRegisters'
    BY <1>4, <2>1 DEF AddRegisters
  <2> QED
    BY <2>3, <2>4 DEF KeepInv
<1> USE DEF Ops
<1>5. ASSUME NEW r \in Requests, NEW s \in Scheds, AddSchedule(r, s) PROVE KeepInv'
  <2>1. PICK body \in NewRecords :
          /\ SetRecord(s, body)
          /\ missed' = IF body.enabled THEN missed \ {s} ELSE missed \cup {s}
    BY <1>5 DEF AddSchedule
  <2>2. /\ life' = [life EXCEPT ![s] = "live"] /\ Begin(r, "add", s)
        /\ enabled' = [enabled EXCEPT ![s] = body.enabled]
        /\ trigger' = [trigger EXCEPT ![s] = body.trigger]
    BY <1>5, <2>1 DEF AddSchedule, SetRecord
  <2>3. enabled'[s] \/ s \in missed'
    BY <1>0, <2>1, <2>2
  <2>4. \A u \in Scheds \ {s} : /\ life'[u] = life[u] /\ enabled'[u] = enabled[u]
                                /\ trigger'[u] = trigger[u]
                                /\ u \in missed' <=> u \in missed
    BY <1>0, <2>1, <2>2
  <2> QED
    BY <1>4, <2>2, <2>3, <2>4
<1>6. ASSUME NEW r \in Requests, NEW s \in Scheds, UpdateSchedule(r, s) PROVE KeepInv'
  <2>1. PICK body \in Updates :
          /\ SetRecord(s, body)
          /\ missed' = IF body.trigger = "good" THEN missed \ {s} ELSE missed
    BY <1>6 DEF UpdateSchedule
  <2>2. /\ life' = life /\ Begin(r, "update", s)
        /\ enabled' = [enabled EXCEPT ![s] = body.enabled]
        /\ trigger' = [trigger EXCEPT ![s] = body.trigger]
    BY <1>6, <2>1 DEF UpdateSchedule, SetRecord
  <2>3. \A u \in Scheds \ {s} : /\ life'[u] = life[u] /\ enabled'[u] = enabled[u]
                                /\ trigger'[u] = trigger[u]
                                /\ u \in missed' <=> u \in missed
    BY <1>0, <2>1, <2>2
  <2> QED
    BY <1>4, <2>2, <2>3
<1>7. ASSUME NEW r \in Requests, NEW s \in Scheds,
             RemoveSchedule(r, s) \/ PauseSchedule(r, s) \/ ResumeSchedule(r, s)
      PROVE  KeepInv'
  <2>1. CASE RemoveSchedule(r, s)
    BY <1>0, <1>4, <2>1 DEF RemoveSchedule, Live, histVars
  <2>2. CASE PauseSchedule(r, s)
    BY <1>0, <1>4, <2>2 DEF PauseSchedule, Live, histVars
  <2>3. CASE ResumeSchedule(r, s)
    BY <1>0, <1>4, <2>3 DEF ResumeSchedule, Live
  <2> QED
    BY <1>7, <2>1, <2>2, <2>3
<1>8. ASSUME NEW r \in Requests, RequestSave(r) PROVE KeepInv'
  <2>1. /\ UNCHANGED <<life, enabled, trigger, jobs, op, arg, missed>>
        /\ step[r] = "saving" /\ step' = [step EXCEPT ![r] = "calling"]
    BY <1>8 DEF RequestSave, recVars
  <2>2. \A q \in Requests : step'[q] # "idle" <=> step[q] # "idle"
    BY <1>0, <2>1
  <2> QED
    BY <2>1, <2>2 DEF KeepInv, HasJob, AddRegisters, Busy, Live
<1>9. ASSUME NEW r \in Requests, RequestCall(r) PROVE KeepInv'
  <2> DEFINE s == arg[r]
  <2>1. /\ s \in Scheds /\ op[r] \in Ops /\ step[r] = "calling"
        /\ UNCHANGED <<life, enabled, trigger, missed>>
        /\ jobs' = [jobs EXCEPT ![s] = JobAfter(op[r], s)]
        /\ step' = [step EXCEPT ![r] = "idle"]
    BY <1>0, <1>9 DEF RequestCall, recVars, histVars
  <2>2. \A q \in Requests : q = r
    BY DEF OneByOne
  <2>3. \A q \in Requests : step'[q] = "idle"
    BY <1>0, <2>1, <2>2
  <2>4. ASSUME NEW u \in Scheds \ {s}, life[u] = "live", trigger[u] = "good", u \notin missed
        PROVE  jobs'[u] # "none"
    <3>1. \A q \in Requests : ~Busy(q, u)
      BY <2>2, <2>4 DEF Busy
    <3>2. jobs'[u] = jobs[u]
      BY <1>0, <2>1, <2>4
    <3> QED
      BY <2>4, <3>1, <3>2 DEF KeepInv, HasJob, Live
  <2>5. /\ op[r] = "add" => enabled[s] \/ s \in missed
        /\ op[r] = "remove" => life[s] # "live"
    BY <2>1 DEF KeepInv, AddRegisters, JobsInv, Settling, Live
  <2>6. op[r] \in {"pause", "resume"} /\ life[s] = "live" /\ trigger[s] = "good" /\ s \notin missed
          => jobs[s] # "none"
    BY <2>1, <2>2 DEF KeepInv, HasJob, Live
  <2>7. jobs'[s] = JobAfter(op[r], s)
    BY <1>0, <2>1
  <2> HIDE DEF s
  <2>8. life[s] = "live" /\ trigger[s] = "good" /\ s \notin missed => jobs'[s] # "none"
    BY <2>1, <2>5, <2>6, <2>7 DEF JobAfter, Registered
  <2>9. HasJob'
    BY <2>1, <2>4, <2>8 DEF HasJob, Live
  <2>10. AddRegisters'
    BY <2>3 DEF AddRegisters
  <2> QED
    BY <2>9, <2>10 DEF KeepInv
<1>10. CASE UNCHANGED vars
  BY <1>1, <1>10 DEF vars, recVars, histVars
<1> QED
  BY <1>2, <1>3, <1>5, <1>6, <1>7, <1>8, <1>9, <1>10 DEF Next, RequestStep

(* Handled one after the other, requests never leave a schedule that is    *)
(* due without its job, unless it was passed over by POST, for it came     *)
(* disabled, or by the last start(): paused then, or behind a record whose *)
(* trigger raises.                                                         *)
THEOREM DueStaysWithJob ==
  ASSUME OneByOne, Enabling PROVE Spec => []DueKeepsJob
<1>1. Init => JobsInv /\ KeepInv
  BY DEF Init, JobsInv, JobHasTrigger, Settled, Settling, KeepInv, HasJob, AddRegisters, Live
<1>2. TypeInv /\ JobsInv /\ [Next]_vars => JobsInv'
  BY JobsStep
<1>3. TypeInv /\ JobsInv /\ KeepInv /\ [Next]_vars => KeepInv'
  BY KeepStep
<1>4. TypeInv /\ JobsInv /\ KeepInv => DueKeepsJob
  <2> SUFFICES ASSUME TypeInv, JobsInv, KeepInv, Quiet, NEW s \in Scheds, Due(s), s \notin missed
               PROVE  jobs[s] = "active"
    BY DEF DueKeepsJob
  <2>1. \A r \in Requests : ~Busy(r, s)
    BY DEF Quiet, Busy
  <2>2. jobs[s] # "none" /\ jobs[s] # "paused"
    BY <2>1 DEF KeepInv, HasJob, JobsInv, Settled, Due
  <2> QED
    BY <2>2 DEF TypeInv, TypeOK
<1> QED
  BY <1>1, <1>2, <1>3, <1>4, TypeInit, TypeStep, PTL DEF Spec

=============================================================================
