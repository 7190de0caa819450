----------------------------- MODULE Scheduler -----------------------------
(***************************************************************************)
(* bridge/scheduler.py: SchedulerManager, and the APScheduler job store it *)
(* drives.                                                                 *)
(*                                                                         *)
(* A schedule is kept twice: as a record in _schedules, written to         *)
(* schedules.json under self._lock, and as a job of APScheduler.  Every    *)
(* request first changes and saves the record under the lock, releases it, *)
(* and then changes the job; nothing covers the two together.  A timer or  *)
(* a run-now request starts a thread in _fire, which fetches the record    *)
(* under the lock, looks at it and runs it without the lock, and saves     *)
(* under the lock.                                                         *)
(*                                                                         *)
(* The body of _run_fn (bridge.py, _schedule_fire) is the environment.     *)
(***************************************************************************)
EXTENDS Naturals

CONSTANTS
    Scheds,       \* schedule ids, numbered in the order of creation
    Requests,     \* bound: requests handled at once
    Fires,        \* bound: _fire threads at once
    NewRecords,   \* what POST /schedules may carry
    Updates,      \* what PATCH /schedules/{id} may leave in the record
    DiskMayFail,  \* may a file write raise (caught and logged by _save)?
    MaxRestarts   \* bound: crashes of the bridge process

NoSched == 0

(* What _make_trigger does with the record: returns a trigger; returns     *)
(* None (a cron string without five parts); raises (a field that           *)
(* CronTrigger, split or int() rejects).                                   *)
Triggers == {"good", "none", "raises"}
Bodies   == [enabled: BOOLEAN, trigger: Triggers]

ASSUME SchedsAssumption  == Scheds \subseteq Nat \ {NoSched}
ASSUME ThreadsAssumption == /\ Requests \cap Fires = {}
                            /\ "free" \notin Requests \cup Fires
ASSUME BodiesAssumption  == NewRecords \subseteq Bodies /\ Updates \subseteq Bodies
ASSUME BoundsAssumption  == DiskMayFail \in BOOLEAN /\ MaxRestarts \in Nat

VARIABLES
    life, enabled, trigger, last,  \* the records: in _schedules or not, and
                                   \* their enabled, schedule and last_status
    file, disk,                    \* schedules.json, as in TaskWorker
    jobs,                          \* APScheduler's job of each schedule
    lock,                          \* holder of self._lock
    op, arg,                       \* each request: what it does, to which id
    step,                          \* and where it is
    pc, of, timer,                 \* each _fire thread: place, schedule id,
                                   \* started by APScheduler or by run_now
    off,                           \* history: schedules whose pause or removal
                                   \* was written, not enabled again since
    late,                          \* history: fires that began on one of those,
                                   \* and it was not enabled again since
    missed,                        \* history: schedules that POST or the last
                                   \* start() passed over (see Crash)
    restarts                       \* crashes so far (bound)

recVars  == <<life, enabled, trigger, last>>
diskVars == <<file, disk>>
reqVars  == <<op, arg, step>>
fireVars == <<pc, of, timer>>
histVars == <<off, late, missed>>
vars == <<recVars, diskVars, jobs, lock, reqVars, fireVars, histVars, restarts>>

Lives    == {"unborn", "live", "gone"}
Results  == {"never", "success", "error"}
Ops      == {"add", "update", "remove", "pause", "resume"}
FirePcs  == {"idle", "fetch", "check", "admitted", "running", "finished", "saving"}
Images   == [life: [Scheds -> Lives], enabled: [Scheds -> BOOLEAN],
             trigger: [Scheds -> Triggers], last: [Scheds -> Results]]

TypeOK ==
    /\ life \in [Scheds -> Lives]
    /\ enabled \in [Scheds -> BOOLEAN]
    /\ trigger \in [Scheds -> Triggers]
    /\ last \in [Scheds -> Results]
    /\ file \in {"current", "stale", "torn"}
    /\ disk \in Images
    /\ jobs \in [Scheds -> {"none", "active", "paused"}]
    /\ lock \in Requests \cup Fires \cup {"free"}
    /\ op \in [Requests -> Ops]
    /\ arg \in [Requests -> Scheds \cup {NoSched}]
    /\ step \in [Requests -> {"idle", "saving", "calling"}]
    /\ pc \in [Fires -> FirePcs]
    /\ of \in [Fires -> Scheds \cup {NoSched}]
    /\ timer \in [Fires -> BOOLEAN]
    /\ off \subseteq Scheds
    /\ late \subseteq Fires
    /\ missed \subseteq Scheds
    /\ restarts \in Nat

Live(s) == life[s] = "live"
Image   == [life |-> life, enabled |-> enabled, trigger |-> trigger,
            last |-> last]

Save ==
    \/ disk' = Image /\ file' = "current"
    \/ /\ DiskMayFail
       /\ file' \in {"torn", IF file = "torn" THEN "torn" ELSE "stale"}
       /\ UNCHANGED disk

-----------------------------------------------------------------------------
Init ==
    /\ life    = [s \in Scheds |-> "unborn"]
    /\ enabled = [s \in Scheds |-> FALSE]
    /\ trigger = [s \in Scheds |-> "none"]
    /\ last    = [s \in Scheds |-> "never"]
    /\ file = "current" /\ disk = Image
    /\ jobs = [s \in Scheds |-> "none"]
    /\ lock = "free"
    /\ op   = [r \in Requests |-> "add"]
    /\ arg  = [r \in Requests |-> NoSched]
    /\ step = [r \in Requests |-> "idle"]
    /\ pc    = [f \in Fires |-> "idle"]
    /\ of    = [f \in Fires |-> NoSched]
    /\ timer = [f \in Fires |-> FALSE]
    /\ off = {} /\ late = {} /\ missed = {}
    /\ restarts = 0

-----------------------------------------------------------------------------
(* Requests: the part under the lock, up to the write.                     *)

Begin(r, what, s) ==
    /\ step[r] = "idle" /\ lock = "free"
    /\ lock' = r
    /\ op'   = [op EXCEPT ![r] = what]
    /\ arg'  = [arg EXCEPT ![r] = s]
    /\ step' = [step EXCEPT ![r] = "saving"]
    /\ UNCHANGED <<diskVars, jobs, fireVars, restarts>>

SetRecord(s, body) ==
    /\ enabled' = [enabled EXCEPT ![s] = body.enabled]
    /\ trigger' = [trigger EXCEPT ![s] = body.trigger]

(* Ids are fresh: uuid4, and POST /schedules cannot choose one. *)
AddSchedule(r, s) ==
    /\ life[s] = "unborn" /\ \A u \in Scheds : u < s => life[u] # "unborn"
    /\ \E body \in NewRecords :
          /\ SetRecord(s, body)
          /\ missed' = IF body.enabled THEN missed \ {s} ELSE missed \cup {s}
    /\ life' = [life EXCEPT ![s] = "live"]
    /\ UNCHANGED <<last, off, late>>
    /\ Begin(r, "add", s)

(* s is enabled: it is not stopped any more, nor are the fires of it. *)
Restarted(s) == /\ off'  = off \ {s}
                /\ late' = {f \in late : of[f] # s}

UpdateSchedule(r, s) ==
    /\ Live(s)
    /\ \E body \in Updates :
          /\ SetRecord(s, body)
          /\ IF body.enabled THEN Restarted(s) ELSE UNCHANGED <<off, late>>
          /\ missed' = IF body.trigger = "good" THEN missed \ {s} ELSE missed
    /\ UNCHANGED <<life, last>>
    /\ Begin(r, "update", s)

RemoveSchedule(r, s) ==
    /\ Live(s)
    /\ life' = [life EXCEPT ![s] = "gone"]
    /\ UNCHANGED <<enabled, trigger, last, histVars>>
    /\ Begin(r, "remove", s)

PauseSchedule(r, s) ==
    /\ Live(s)
    /\ enabled' = [enabled EXCEPT ![s] = FALSE]
    /\ UNCHANGED <<life, trigger, last, histVars>>
    /\ Begin(r, "pause", s)

ResumeSchedule(r, s) ==
    /\ Live(s)
    /\ enabled' = [enabled EXCEPT ![s] = TRUE]
    /\ Restarted(s)
    /\ UNCHANGED <<life, trigger, last, missed>>
    /\ Begin(r, "resume", s)

(* Mutant: the request does not write. *)
RequestSaveNothing(r) ==
    /\ step[r] = "saving"
    /\ lock' = "free"
    /\ step' = [step EXCEPT ![r] = "calling"]
    /\ off'  = IF op[r] \in {"pause", "remove"} THEN off \cup {arg[r]} ELSE off
    /\ UNCHANGED <<recVars, diskVars, jobs, op, arg, fireVars, late, missed,
                   restarts>>

RequestSave(r) ==
    /\ step[r] = "saving"
    /\ Save
    /\ lock' = "free"
    /\ step' = [step EXCEPT ![r] = "calling"]
    /\ off'  = IF op[r] \in {"pause", "remove"} THEN off \cup {arg[r]} ELSE off
    /\ UNCHANGED <<recVars, jobs, op, arg, fireVars, late, missed, restarts>>

-----------------------------------------------------------------------------
(* Requests: the call to APScheduler, without the lock.                    *)

(* _register_job: add_job with replace_existing makes a running job of     *)
(* whatever was there.  Without a trigger, or when _make_trigger raises    *)
(* (out of the handler), the job stays as it was.                          *)
Registered(s) == IF trigger[s] = "good" THEN "active" ELSE jobs[s]

(* Mutant: remove_schedule leaves the job. *)
JobAfterKeeping(what, s) ==
    CASE what = "add"    -> IF enabled[s] THEN Registered(s) ELSE jobs[s]
      [] what = "update" -> Registered(s)
      [] what = "remove" -> jobs[s]
      [] what = "pause"  -> IF jobs[s] = "active" THEN "paused" ELSE jobs[s]
      [] what = "resume" -> IF jobs[s] = "paused" THEN "active" ELSE jobs[s]

(* Mutant: pause removes the job, for resume to look for in vain. *)
JobAfterDropping(what, s) ==
    CASE what = "add"    -> IF enabled[s] THEN Registered(s) ELSE jobs[s]
      [] what = "update" -> Registered(s)
      [] what = "remove" -> "none"
      [] what = "pause"  -> "none"
      [] what = "resume" -> IF jobs[s] = "paused" THEN "active" ELSE jobs[s]

(* The errors of remove_job, pause_job and resume_job on a job that does   *)
(* not exist are swallowed.                                                *)
JobAfter(what, s) ==
    CASE what = "add"    -> IF enabled[s] THEN Registered(s) ELSE jobs[s]
      [] what = "update" -> Registered(s)
      [] what = "remove" -> "none"
      [] what = "pause"  -> IF jobs[s] = "active" THEN "paused" ELSE jobs[s]
      [] what = "resume" -> IF jobs[s] = "paused" THEN "active" ELSE jobs[s]

RequestCall(r) ==
    /\ step[r] = "calling"
    /\ jobs' = [jobs EXCEPT ![arg[r]] = JobAfter(op[r], arg[r])]
    /\ step' = [step EXCEPT ![r] = "idle"]
    /\ arg'  = [arg EXCEPT ![r] = NoSched]
    /\ op'   = [op EXCEPT ![r] = "add"]
    /\ UNCHANGED <<recVars, diskVars, lock, fireVars, histVars, restarts>>

-----------------------------------------------------------------------------
(* _fire. *)

Otherwise == <<diskVars, jobs, lock, reqVars, off, missed, restarts>>

StartFire(f, s, t) ==
    /\ pc[f] = "idle"
    /\ pc'    = [pc EXCEPT ![f] = "fetch"]
    /\ of'    = [of EXCEPT ![f] = s]
    /\ timer' = [timer EXCEPT ![f] = t]
    /\ late'  = IF s \in off THEN late \cup {f} ELSE late
    /\ UNCHANGED <<recVars, Otherwise>>

(* APScheduler: max_instances is 1. *)
TimerFire(f, s) ==
    /\ jobs[s] = "active"
    /\ ~ \E g \in Fires : pc[g] # "idle" /\ of[g] = s /\ timer[g]
    /\ StartFire(f, s, TRUE)

RunNow(f, s) == Live(s) /\ StartFire(f, s, FALSE)

EndFire(f) ==
    /\ pc' = [pc EXCEPT ![f] = "idle"]
    /\ of' = [of EXCEPT ![f] = NoSched]
    /\ timer' = [timer EXCEPT ![f] = FALSE]
    /\ late' = late \ {f}

FireFetch(f) ==
    /\ pc[f] = "fetch" /\ lock = "free"
    /\ IF Live(of[f])
       THEN pc' = [pc EXCEPT ![f] = "check"] /\ UNCHANGED <<of, timer, late>>
       ELSE EndFire(f)
    /\ UNCHANGED <<recVars, Otherwise>>

(* Mutant: the enabled flag is not looked at. *)
FireCheckNothing(f) ==
    /\ pc[f] = "check"
    /\ pc' = [pc EXCEPT ![f] = "admitted"]
    /\ UNCHANGED <<recVars, Otherwise, of, timer, late>>

(* The record fetched is looked at after the lock is released. *)
FireCheck(f) ==
    /\ pc[f] = "check"
    /\ IF enabled[of[f]]
       THEN pc' = [pc EXCEPT ![f] = "admitted"] /\ UNCHANGED <<of, timer, late>>
       ELSE EndFire(f)
    /\ UNCHANGED <<recVars, Otherwise>>

(* A log line and the clock later it is run, paused or removed since or not. *)
FireStart(f) ==
    /\ pc[f] = "admitted"
    /\ pc' = [pc EXCEPT ![f] = "running"]
    /\ UNCHANGED <<recVars, Otherwise, of, timer, late>>

(* What _run_fn may do: answer with ok true, with ok false, without ok (or *)
(* None), or raise.                                                        *)
Answers == {"ok", "not ok", "nothing", "raises"}

(* Mutant: the answer is stored as it is. *)
LastStatusRaw(answer) == answer

LastStatus(answer) == IF answer \in {"ok", "nothing"} THEN "success" ELSE "error"

FireRun(f) ==
    /\ pc[f] = "running"
    /\ \E answer \in Answers :
          last' = [last EXCEPT ![of[f]] = LastStatus(answer)]
    /\ pc' = [pc EXCEPT ![f] = "finished"]
    /\ UNCHANGED <<life, enabled, trigger, Otherwise, of, timer, late>>

FireLock(f) ==
    /\ pc[f] = "finished" /\ lock = "free"
    /\ lock' = f
    /\ pc' = [pc EXCEPT ![f] = "saving"]
    /\ UNCHANGED <<recVars, diskVars, jobs, reqVars, of, timer, histVars, restarts>>

(* Mutant: the record is not written. *)
FireSaveNothing(f) ==
    /\ pc[f] = "saving"
    /\ lock' = "free"
    /\ EndFire(f)
    /\ UNCHANGED <<recVars, diskVars, jobs, reqVars, off, missed, restarts>>

FireSave(f) ==
    /\ pc[f] = "saving"
    /\ Save
    /\ lock' = "free"
    /\ EndFire(f)
    /\ UNCHANGED <<recVars, jobs, reqVars, off, missed, restarts>>

-----------------------------------------------------------------------------
(* A crash and the next start of the bridge: load(), then start(), both    *)
(* before the first request.  start() goes through the records in order; a *)
(* trigger that raises ends it.                                            *)

Loaded(s) == IF file' = "torn" /\ life[s] # "unborn" THEN "gone"
             ELSE IF disk.life[s] = "unborn" /\ life[s] # "unborn" THEN "gone"
             ELSE disk.life[s]

StartRaises(s) == life'[s] = "live" /\ enabled'[s] /\ trigger'[s] = "raises"

StartedJob(s) ==
    IF /\ life'[s] = "live" /\ enabled'[s] /\ trigger'[s] = "good"
       /\ ~ \E u \in Scheds : u < s /\ StartRaises(u)
    THEN "active" ELSE "none"

(* What start() passes over: what is paused, and all that comes after a    *)
(* record whose trigger raises.                                            *)
PassedOver(s) == ~enabled'[s] \/ \E u \in Scheds : u < s /\ StartRaises(u)

Crash ==
    /\ restarts < MaxRestarts
    /\ file' \in {file} \cup (IF lock = "free" THEN {} ELSE {"torn"})
    /\ life'    = [s \in Scheds |-> Loaded(s)]
    /\ enabled' = disk.enabled
    /\ trigger' = disk.trigger
    /\ last'    = disk.last
    /\ jobs' = [s \in Scheds |-> StartedJob(s)]
    /\ lock' = "free"
    /\ op'   = [r \in Requests |-> "add"]
    /\ arg'  = [r \in Requests |-> NoSched]
    /\ step' = [r \in Requests |-> "idle"]
    /\ pc'    = [f \in Fires |-> "idle"]
    /\ of'    = [f \in Fires |-> NoSched]
    /\ timer' = [f \in Fires |-> FALSE]
    /\ late' = {}
    /\ missed' = {s \in Scheds : PassedOver(s)}
    /\ restarts' = restarts + 1
    /\ UNCHANGED <<disk, off>>

-----------------------------------------------------------------------------
RequestStep(r) ==
    \/ \E s \in Scheds : \/ AddSchedule(r, s) \/ UpdateSchedule(r, s)
                         \/ RemoveSchedule(r, s)
                         \/ PauseSchedule(r, s) \/ ResumeSchedule(r, s)
    \/ RequestSave(r) \/ RequestCall(r)

FireStep(f) ==
    \/ \E s \in Scheds : TimerFire(f, s) \/ RunNow(f, s)
    \/ FireFetch(f) \/ FireCheck(f) \/ FireStart(f)
    \/ FireRun(f) \/ FireLock(f) \/ FireSave(f)

Next == \/ \E r \in Requests : RequestStep(r)
        \/ \E f \in Fires : FireStep(f)
        \/ Crash

Spec == Init /\ [][Next]_vars

-----------------------------------------------------------------------------
(* What is meant to hold. *)

(* A fire has set last_status and is still to write it. *)
Unsaved(s) == \E f \in Fires : of[f] = s /\ pc[f] \in {"finished", "saving"}

(* Unless a write failed, schedules.json agrees with memory on which       *)
(* schedules there are, on what they are, and on last_status but for the   *)
(* fires that are still to save, whichever thread wrote the file last.     *)
DiskCurrent ==
    file = "current" /\ lock = "free" =>
        \A s \in Scheds :
            /\ disk.life[s] = "live" <=> Live(s)
            /\ Live(s) => /\ disk.enabled[s] = enabled[s]
                          /\ disk.trigger[s] = trigger[s]
                          /\ disk.last[s] = last[s] \/ Unsaved(s)

(* When writes do not fail, a schedule whose pause or removal was written  *)
(* stays stopped until it is enabled again: no save by another thread and  *)
(* no crash brings it back.                                                *)
StopHolds ==
    ~DiskMayFail => \A s \in off : ~(Live(s) /\ enabled[s])

(* A fire that begins after the pause or the removal was written never     *)
(* runs the schedule, unless it is enabled again meanwhile, although its   *)
(* job may be active still or again (an update re-registers a paused       *)
(* schedule, a resume overtaken by the pause reactivates it) and the fire  *)
(* looks at the record without the lock.  A fire that was past its check   *)
(* by then does run: line 97 and line 102 are apart.                       *)
LateFiresIdle ==
    ~DiskMayFail => \A f \in late : pc[f] \in {"fetch", "check"}

Quiet  == \A r \in Requests : step[r] = "idle"
Due(s) == Live(s) /\ enabled[s] /\ trigger[s] = "good"

(* With requests one after the other and no PATCH, as the UI sends them,   *)
(* APScheduler never has a job for a schedule that is not due: removed,    *)
(* paused, or without a trigger.                                           *)
JobsAreDue ==
    Quiet => \A s \in Scheds :
        /\ jobs[s] = "active" => Due(s)
        /\ jobs[s] = "paused" => Live(s) /\ ~enabled[s]

(* And a schedule the UI shows as ON has its job.  README.md line 85:      *)
(* "handles all automation state - agents, tasks, schedules, pipeline runs *)
(* - and writes everything to disk so nothing is lost on restart".         *)
DueHasJob == Quiet => \A s \in Scheds : Due(s) => jobs[s] = "active"

(* The converse of JobsAreDue as far as it goes: under the same requests   *)
(* every schedule that is due has its job, but for those that the last     *)
(* start() passed over (DueHasJob leaves out that exception, and fails).   *)
DueKeepsJob ==
    Quiet => \A s \in Scheds : Due(s) => jobs[s] = "active" \/ s \in missed

=============================================================================
