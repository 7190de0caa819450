# RockoAgents: models, checks and proofs

TLA+ modules for the parts of RockoAgents that carry its own logic, the TLC
configurations that check them on small instances, and TLAPS proofs of what
matters most for every instance. Paths such as `bridge/task_worker.py` are
relative to the repository root.

| file | what it is |
|---|---|
| `TaskWorker.tla` | `bridge/task_worker.py`: the durable task queue and its worker threads |
| `MCTaskWorker.tla`, `MCTaskWorker*.cfg` | its TLC instances |
| `TaskWorkerProofs.tla` | its theorems, and the proof that it implements `DurableTasks` |
| `DurableTasks.tla` | what the task worker promises: an abstract store of tasks, and its theorem |
| `Scheduler.tla` | `bridge/scheduler.py`: schedule records, APScheduler's jobs, `_fire` |
| `MCScheduler.tla`, `MCScheduler*.cfg` | its TLC instances |
| `SchedulerProofs.tla` | its theorems |
| `BrowserPipeline.tla` | `js/core.js`: the browser's pipeline run, the approval gate, the list of runs |
| `MCBrowserPipeline.tla`, `MCBrowserPipeline*.cfg` | its TLC instances |
| `BrowserPipelineProofs.tla` | its theorems |
| `PipelineRuns.tla` | `bridge/bridge.py`: `POST /pipeline`, `POST /reset` and the run history |
| `MCPipelineRuns.tla`, `MCPipelineRuns.cfg` | its TLC instance |
| `PipelineRunsProofs.tla` | its theorems |
| `Companies.tla` | `bridge/bridge.py`, `js/company.js`: the company registry, the blocklist of deleted companies, the browser's part in both |
| `MCCompanies.tla`, `MCCompanies.cfg` | its TLC instance |
| `CompaniesProofs.tla` | its theorems |
| `RoutingGraph.tla` | `_validate_routing_edges`: the checks of a routing graph, with a reference definition |
| `RoutingGraphProofs.tla` | the theorem that the checks agree with it |
| `ProjectRegistry.tla` | `bridge/bridge.py`: agents, their skills, the routing graph, `project.json` |
| `MCProjectRegistry.tla`, `MCProjectRegistry*.cfg` | its TLC instances |
| `ProjectRegistryProofs.tla` | its theorems |
| `PROJECT.json` | components, runs, mutants, the map from definitions to lines, findings, hazards, theorems |

## 1. The system

A browser UI (`index.html`, `js/*.js`) talks over HTTP to a local *bridge*, a
FastAPI process started by `rockoagents/cli.py` or `main.py`. The bridge keeps
all durable state in JSON files of one data directory and calls agents,
scripts and model providers. Python components live in one process:

* plain `def` routes run in a thread pool, so two requests interleave at any
  point; `async def` routes run on the event loop, one at a time between
  `await`s;
* `TaskWorker` has its own thread, plus one thread per *run now* request;
* APScheduler calls `SchedulerManager._fire` in its own pool;
* a heartbeat thread only reads;
* `cli_main` (`bridge/bridge.py:2597`) builds the subsystems once, before the
  HTTP server takes its first request.

The browser is single-threaded: its functions interleave at every `await`.

### Components

| component | state | operations | interacts with |
|---|---|---|---|
| Task worker, `bridge/task_worker.py` | `_tasks`, `tasks.json`; `_runs`, `task_runs.json`; `_running`, `_paused`, `_current_task_id`; threads | create, cancel, retry, run now, start/stop/pause/resume, the loop, `_run_task`, load, init | bridge routes; agent, executor and runtime callbacks |
| Scheduler, `bridge/scheduler.py` | `_schedules`, `schedules.json`; APScheduler's jobs | add, update, remove, pause, resume, run now, `_fire`, load, start | bridge routes; `_schedule_fire` |
| CEO orchestrator, `bridge/orchestrator.py` | list of the last decisions | validate a decision, apply it, orchestrate | called by `POST /orchestrate` from the UI; creates tasks in the task worker, assigns skills |
| Bridge pipeline runs, `bridge/bridge.py:470` | `PIPELINE_STATE` module global; `PIPELINE_RUNS`, `pipeline_runs.json` | `POST /pipeline`, `POST /reset`, list runs, reload | executors, runtimes |
| Routing graph, `bridge/bridge.py:738` | `outputs_to` of the agents, the dirty flag | ask the CEO's model for a graph, validate, apply, mark dirty | agents, `project.json`; read by the browser pipeline |
| Company registry, `bridge/bridge.py:1766` | `companies.json`, `deleted_companies.json`, the browser's lists | list (with recovery), create or update, delete, save the browser's state | UI; older data directories |
| Agent registry and skills, `bridge/bridge.py:1122`, `2263` | `PROJECT["agents"]`, `project.json` | create, create a team, edit, assign skills by three routes and by the CEO | skills.sh; loaded by every run |
| Browser pipeline and approval gate, `js/core.js:378`, `623`, `js/pipeline.js` | `_runCtx`, `_pendingApproval`, `_approvalResolve`, run list | run the pipeline, approve, reject | model providers directly; `POST /agent/exec` and `POST /run/{executor}` of the bridge |
| Browser tasks and persistence, `js/core.js:295`, `js/tasks.js`, `js/persistence.js` | `S` in `localStorage` | create, run, delete a task; save, load, migrate | bridge routes |
| Native execution engine, `bridge/execution_engine.py` | the last 20 runs, pending threads | classify risk, require approval, run with a timeout, record | runtime manager |
| Runtime manager, `bridge/runtime_manager.py` | runtime definitions, permissions | check a permission, execute, reload | task worker (as wired) |
| Model manager, `bridge/model_manager.py` | provider settings | resolve a model, call it, fall back, validate a provider | agents |
| Bridge core, `bridge/bridge.py:42`, `232`, `302`, `2597` | module globals | load the project, run an executor, build the subsystems | all of them |
| Authentication routes, `bridge/bridge.py:1525` | token and account files | sign in and out, read a session | UI |
| User interface, `js/ui.js`, `boot.js`, `auth.js`, `company.js`, `skills.js`, `agent-editor.js`, `intelligence.js`, `tasks.js` | DOM | rendering, forms | bridge routes |
| Older browser platform, `core/platform.js` | as `js/core.js` | not loaded by `index.html` | none |
| Build and packaging, `build.py`, `rockoagents/`, `schema/`, `config/`, `templates/` | none | build, install, start | none |
| Vendored nodes, `external_nodes/` | third-party projects | none of ours | none |

The repository has no tests of its own code; the nearest thing is a *system
test* route (`bridge/bridge.py:1366`) that calls each subsystem once.

### What is hard in it, and what would make it correct

`PROJECT.json` lists each hazard at its line. By component:

* **Task worker.** The lock covers files and requests, but not what a run does
  to its task: several threads can hold one task, mark it running and set its
  result while it is cancelled, retried, or written by another thread. Correct
  means: nothing stays `running` without a thread on it; the file catches up
  with memory whoever writes it; a crash loses no answered task; the queue
  drains; one task at a time.
* **Scheduler.** A schedule is a record *and* a job, changed one after the
  other with nothing held across both, and a fire looks at the record without
  the lock before it runs it. Correct means: a fire that comes after the stop of
  a schedule never runs it, a stopped schedule never comes back, whatever
  overlaps it; an enabled one has its job, before and after a restart.
* **Browser pipeline.** One set of globals for the run in progress, read after
  every `await`, and no guard against a second run. Correct means: each run
  ends, an approval reaches the run that asked for it, and no executor runs
  before the approval it needs.
* **Orchestrator.** The decision of a model is validated and then applied. The
  skill it assigns is fetched while the record it is for may be replaced.
* **Bridge pipeline.** Each run writes through a module global that another run
  or a reset rebinds between two statements. Correct means: a failure stops its
  run; a run alone leaves a true record, in memory and in the file.
* **Companies.** Every route loads, changes and saves whole files without a
  lock, and a load merges older copies back in. Correct means: what the user
  deleted stays away, what the user sees is there.
* **Agents and routing.** Two kinds of threads change agents beside the event
  loop and save one file in place. Correct means: the graph that agents carry
  is over registered agents and acyclic; the file has what memory has.
* **Engine, runtimes, models.** Gates (approval, permission), a timeout that
  leaves its thread running, a fallback order.

## 2. Plan

Most important behaviour first; a module is written so that it can be proved
about (no RECURSIVE operator, constants with named assumptions, one action per
operation, invariants as conjunctions).

| # | module | composes | abstract specification / main properties | status |
|---|---|---|---|---|
| 1 | `TaskWorker` | | running is owned, file follows memory, crash recovery, drain | modelled, checked, proved |
| 2 | `Scheduler` | | stopped stays stopped, jobs match records | modelled, checked, proved |
| 3 | `BrowserPipeline` | approval gate, browser run list | the approval shown is the one asked for; a rejected run stops; the list tells the truth | modelled, checked, proved |
| 4 | `DurableTasks` | `TaskWorker` | abstract store of tasks; the worker implements it when no write fails | checked and proved |
| 5 | `PipelineRuns` | | a failure stops its run; the history is true, and on disk | modelled, checked, proved |
| 6 | `RoutingGraph` | | the search for cycles against the absence of cycles | modelled, checked, proved |
| 7 | `ProjectRegistry` | `RoutingGraph`; agents, skills and the CEO's assignments | sound routes; the file is current | modelled, checked, proved |
| 8 | `Companies` | bridge and browser | deleted companies stay away, seen ones are listed | modelled, checked, proved |

Every safety property of the passing runs is a theorem; section 9 says what is
not. Next to prove: what the store of `DurableTasks` says about steps, as action
properties of the worker (a run that goes back to the queue has
retries left by the attempts counted, only a request cancels).

## 3. `TaskWorker`

### State and steps

| model | code |
|---|---|
| `status`, `attempts` | `_tasks[t]["status"]`, `["attempts"]`; `unborn` is not yet created, `lost` is created but absent after a restart |
| `file`, `disk` | `tasks.json`: whether it is the last write (`current`), an older image (`stale`) or unparsable (`torn`); its last full image |
| `runs`, `runsFile`, `runsDisk` | per task, the records of `_runs`; `task_runs.json` |
| `lock` | `self._lock`; `boot` while the process starts |
| `running`, `paused`, `current` | `_running`, `_paused`, `_current_task_id` |
| `pc`, `job` | where each thread is in `_worker_loop`/`_run_task`, and its task |
| `acked` | history: tasks whose creation was answered |
| `MaxAttempts` | bound, per task: attempts up to which the operator asks for one more |

A step is a stretch of code between two points where another thread can see or
change shared state: taking the lock, a file write, the call of the agent, a
sleep. `create_task`, `cancel_task` and `retry_task` change `_tasks` under the
lock (`CreateTask`, ...) and write before releasing it (`ApiSave`).
`start` tests `_running` (`StartCheck`) and sets it later (`StartSpawn`).
The loop is `LoopExit`, `LoopAdmit`, `LoopPick`; `_run_task` is `MarkRunning`
(167-171), `CountAttempt` (172-173), `TakeLock`, `SaveStart`, `Execute`,
`EndBackoff`, `TakeLock`, `SaveEnd`, `SaveRun`. Between the mark and the count
the clock is read, and another thread's run of the same task may end, fail and
check the attempts counted so far (228). `Save` truncates and rewrites the
file; when `DiskMayFail`, it may raise (the code logs it and goes on), leaving
the older image or a torn file. `Crash` stops the process anywhere and does
`load()` and the requeueing of `init()`; `BootSave` is the end of `init()` and
the call of `start()`.

### Abstractions

Parent tasks and subtasks, priority, texts and times are left out;
`created_at` order is the order of the ids. `attempts += 1` and single
dictionary operations are one step (the interpreter lock), and so is
`get_tasks` (133-137), which filters a copy of the list: a status that changes
while it filters makes it choose what it would have chosen a moment earlier or
later, and the choice is stale from then on anyway (`picked`).
Clearing `_current_task_id` (line 241) is merged with the last write, which
precedes it at once. The image that `json.dump` writes is the one at the
write. `update_task` has no caller; `waiting_approval` is never assigned. As
wired (`bridge/bridge.py:363`) a task of kind *runtime* always ends in an
error, because the runtime manager has no method of the name called; the
outcome `denied` is kept, since `_run_task` handles it.

### Runs

| run | instance | shows |
|---|---|---|
| `worker_queue` | two tasks, one loop, one run-now thread, one crash | type correctness; every `running` task has a thread on it; the file agrees with memory; `_current_task_id` names a task in progress; history never exceeds attempts; a crash that leaves the file intact loses no answered task; each step is a step of `DurableTasks` |
| `worker_loops` | one task, two loops, one run-now thread, failing writes | the same ownership and file invariants with three threads on one task |
| `worker_drain` | two tasks, one loop, one run-now thread, fair threads | left switched on, the worker empties the queue again and again |

*Bounds.* Two tasks are enough for one to be picked, retried or cancelled while
another is being written; one task is the harder case for three threads, all of
which then collide on it. Two loops are what one `stop`/`start` produces. Two
attempts cover the retry and its end; one crash reaches every interleaving of a
crash with the write sequence, and the restart is followed by a full further
life of the process. `MaxAttempts` and `MaxRestarts` bound only what the
operator and the environment do; in `worker_queue` the operator retries or runs
the older task while it has fewer than two attempts and the younger one, which
has no retries, while it has none.

*Fairness.* `worker_drain` assumes that each thread that can run does, that a
write ends and that the called agent answers: the bridge passes a timeout in
every call it makes for a task. No request is fair, neither is the crash. The
property is conditional on the worker being left on.

### The abstract store

`DurableTasks` is the worker without its lock and without what its threads do
between steps: one record per task in `memory`, one `image` on disk, whether it
is being written, and which run has marked which task without having counted
the attempt yet (`uncounted`). Its requests change one task and exclude each
other and every write; a run marks its task (`Begin`), counts the attempt
(`Count`) and ends (`Finish`), in memory only and with any other steps between;
`EndWrite` puts all of memory in the image and answers whoever waited; `Recover`
goes back to the image, `Wipe` is a crash inside a write. `TaskWorker`
implements it with the status and attempts of each task for `memory`, the last
full image for `image` (nothing, when it is torn), `WritingTasks` for `writing`
and the threads between mark and count for `uncounted`, as
long as writes do not fail (`ImplementsDurable`; a failed write is no step of
the store). What the store adds to the invariants is about steps: a run that
goes back to the queue has retries left by the attempts counted at that moment,
only a request cancels, no step but a crash changes two tasks. It does not say
that a queued task has attempts left: with a second thread between its mark and
its count, a failing run queues the task by the older number, and the count that
follows leaves it queued with one attempt more than it may have.

### Proofs

`TaskWorkerProofs` assumes only the constants' assumptions: task ids are
positive, loops and run-now threads are disjoint, finite in number
(`ThreadsFinite`, for counting the ones on a task) and are not names of the
lock's other holders. Tasks, threads, retries, attempts and crashes are
unbounded.

* `TypeCorrect` proves `TypeOK` with `HoldsTask`: a thread inside `_run_task`
  has a task. Without it `status[job[r]]` is meaningless in the proof.
* `RunningIsOwned`: the only step that makes a task running is `MarkRunning`,
  after which its own thread is in `Owned`; a thread leaves `Owned` only in
  `Execute`, which overwrites the status of that task. A `Crash` loads no
  `running`.
* `CurrentIsOwned`: besides the same, `SaveRun` clears the field whoever set
  it, so a thread that ends never leaves its own task there.
* `DiskIsCurrent` needs `LockHeld` (a thread in a saving state holds the lock,
  hence writes exclude each other) and is proved with file failures included:
  `file = "current"` is the condition the code itself re-establishes.
* `CrashDoesRecover` needs further that a present task was written or is being
  written (`AckedSaved`, `JobPresent`), and follows by comparing `disk` with
  memory at the crash.
* `HistoryStaysWithinAttempts` counts: the records of a task and the threads
  that are still to add one are together no more than its attempts
  (cardinalities of sets of threads). For a crash, `HistoryInv` adds that
  `task_runs.json` has no more runs than memory, and memory no more than
  `tasks.json` has attempts: the attempt is written before the call, the run
  after it. A thread between mark and count adds no record yet and is not
  counted (`Begun`).
* `WorkerImplementsStore` is the refinement: `Grounds`,
  the invariants above and that a task never created has no attempts (`Fresh`),
  lets each action be mapped to a step of the store or to a stutter: `MarkRunning`
  to `Begin` and `CountAttempt` to `Count`.
* `AnsweredAreKept` (`DurableTasks`) says that of an answered task nothing but a
  crash inside a write takes the record away; `WorkerKeepsAnswered` carries it
  over to the worker. Both the refinement and this assume `~DiskMayFail`.

## 4. `Scheduler`

### State and steps

| model | code |
|---|---|
| `life`, `enabled`, `trigger`, `last` | whether the record is in `_schedules`; its `enabled`; what `_make_trigger` does with its cron or interval; `last_status` |
| `file`, `disk` | `schedules.json`, as above |
| `jobs` | APScheduler's job of the schedule: none, active, paused |
| `lock` | `self._lock` |
| `op`, `arg`, `step` | each request in progress |
| `pc`, `of`, `timer` | each `_fire` thread, its schedule, and who started it |
| `off` | history: schedules whose pause or removal was written and which nobody enabled since |
| `late` | history: fires that began on a schedule in `off`, not enabled since |
| `missed` | history: schedules that were added disabled, or that the last `start()` passed over |

A request takes the lock and changes the record (`AddSchedule`,
`UpdateSchedule`, `RemoveSchedule`, `PauseSchedule`, `ResumeSchedule`), writes
and releases (`RequestSave`), then changes the job without the lock
(`RequestCall`). `_fire` fetches the record under the lock (`FireFetch`), looks
at `enabled` without it (`FireCheck`, 97), a log line and a clock later starts
the run (`FireStart`, 102), runs (`FireRun`), takes the lock and writes all
records (`FireLock`, `FireSave`). `TimerFire` is APScheduler with
its `max_instances` of 1; `RunNow` has no such limit. `Crash` includes
`load()` and `start()`, which precede the first request; `start()` registers
the enabled records in order and ends at the first trigger that raises: what is
disabled or comes after that is passed over (`PassedOver`).

### Abstractions

A trigger is known by what `_make_trigger` does with it: it is made, it is
`None`, or it raises. Times and `next_run_at` are left out, so a job may fire at
any moment. After a PATCH whose trigger cannot be made the old job stays, and
its older trigger is not told apart from a new one. A missing APScheduler (the
code then only keeps records) is not modelled. `_run_fn` is the environment:
it answers with `ok`, without it, or raises.

### Runs

| run | instance | shows |
|---|---|---|
| `sched_race` | one schedule, two overlapping requests with any body, two fires, one crash | the file agrees with memory; a written pause or removal stays, whatever other threads save and across the crash; a fire that begins after it never gets to run, whatever job is left |
| `sched_two` | two schedules, one request at a time, no PATCH, any triggers, one crash | no job without a due record; a job for every due record but those that the last start passed over |
| `sched_resume` | one schedule, one request at a time, one crash | **violated**: a schedule paused before a restart has no job afterwards, and resume finds none to resume (finding) |

*Bounds.* The hazards are between two requests, or a request and a fire, on one
schedule; two of each cover every pair, and the second fire lets a timer and a
run-now overlap. Two schedules matter where an order of records matters
(`start()`). The second request is left out there, because the properties are
stated for requests one after the other, as the UI sends them.

*Boundary.* `LateFiresIdle` is about fires that begin after the pause or the
removal was written. Of the others nothing of the kind is true: check (97) and
run (102) are apart and hold no lock, so a pause that is written and answered
between them is followed by a run (section 10). `DueKeepsJob` leaves out what
the last `start()` passed over; `DueHasJob`, which does not, is the finding.

### Proofs

`SchedulerProofs` assumes that ids are positive, and that requests and fires
are disjoint and none is called `"free"`; all else is unbounded.

* `TypeCorrect` carries `RequestTarget` and `FireTarget`: a request or fire in
  progress has a schedule.
* `DiskIsCurrent` needs `LockHeld`, as in the task worker; the fires that are
  still to save explain where `last` may differ.
* `StopIsKept` is not inductive alone. The strengthening (`StopInv`) says that
  with intact writes the file never shows a stopped schedule as enabled, and
  that a request which is still to save a pause or removal, while it holds the
  lock, has already disabled or removed the record in memory.
* `LateFiresStayIdle` needs `StopIsKept` and that the record of a late fire that
  has fetched it is disabled (`LateInv`): it was when the fire began, for one
  that was removed is not found, and who enables it takes the fire out of `late`.
* `JobsStayDue` has two hypotheses, which are those of the run `sched_two`:
  requests come one after the other (`OneByOne`), and a PATCH enables with a
  trigger that can be made (`Enabling`; the UI sends none, and one that leaves
  the schedule disabled registers its job all the same). `JobsInv` says that a
  schedule no request is working on has the job its record calls for
  (`Settled`), and what the record is when a request calls APScheduler
  (`Settling`); between the two they disagree in the one way the call settles.
* `DueStaysWithJob`, under the same hypotheses, goes the other way: a schedule
  no request is working on, enabled or not, has a job if its trigger is good and
  it was not passed over (`HasJob`). That is why a pause has to pause the job
  and not to remove it: `resume_schedule` can only resume what is there. An add
  on its way to its call registers what it added enabled (`AddRegisters`).

## 5. `BrowserPipeline`

### State and steps

| model | code |
|---|---|
| `ctx[r]` | the context object of run `r`: its status and the status of each step |
| `runCtx` | the run whose object `_runCtx` refers to |
| `pending` | `_pendingApproval` with `_approvalResolve`: the step shown and the run whose promise is resolved |
| `runHistory` | `_runHistory`, newest first, with the copies `_archiveRun` makes |
| `pc`, `at`, `done` | where each `runPipeline` waits, at which step, and the steps its loops have been through |
| `project` | the manifest and live agents a run finds: steps, `pipeline_order`, `outputs_to`, `on_error` |
| `overlapped`, `rejected` | history: whether a run was started beside another one; the runs the operator rejected |

JavaScript gives the steps: an action is what runs between two awaits that let
something else in, which are a call and the wait for the operator. So
`RunPipeline` goes up to the first call or wait, `Reject` and `CallReturns` go
from the answer to the next one (`Resume`, `Continue`, `BeginStep` or `Return`),
`Approve` only starts the call of its step, and `CallThrows` leaves the run as
`callAgent`'s exception does. Each writes to the object `_runCtx` refers to *at
that moment*, which with two runs may be the other one's.

`Visited` is the topological sort by levels, `Before` the resulting order, and
without edges the sort on `pipeline_order` with the code's two defaults.

### Abstractions

The data passed from step to step and the approver's changes to it are left
out, as are the cut of the list at 50 runs and a reload of the page. Steps of
one level may run in any order. An executor that is skipped or refused answers
without a real wait; the model lets others act in between, which only adds
behaviours.

### Runs

| run | instance | shows |
|---|---|---|
| `browser_runs` | two runs, started in either order and beside each other, in five projects: the bundled one's form, a ranked executor, a graph, a cycle, no steps | the approval on the screen is the one its run waits for; a waiting run is shown unless runs overlap; a rejected run stops; a step follows its sources; without overlap the list has each run once and with its true end |
| `browser_gate` | one run of the bundled project's form | **violated**: the executor listed after the CEO's approval runs first (finding) |

*Bounds.* Interference is between two runs: one replaces `_runCtx` or the
pending approval of the other. Four steps (the gate, two analysts, an executor)
are the least that give a graph with a join whose sources are on different
levels, a cycle with a step behind it, and an executor.

The condition "unless runs overlap" in `ShownIsAsked` and `HistoryTrue` is the
boundary of what the code gives: when a second run is started beside the first,
its request for approval replaces the first one's, which then waits for ever,
and each run marks and archives whatever `_runCtx` refers to.

### Proofs

`BrowserPipelineProofs` assumes that ids are positive, gated and agent steps
are steps, and projects have the form of `ProjectType`; runs, steps, projects
and overlaps are unbounded. `Inv` joins the type invariant with `ContextSet`
(`_runCtx` is set once a run has started), `AtStep`, `Asked` and
`RejectionStops`; each is needed for the others' steps (a rejection is typed
only because the run that asked is at a step). `ContinueMoves` says once what
the loops do, and `MoveKeeps` what follows. `Alone` adds that without overlap
one run at most is in progress, from which `ShownIsAsked` follows.

* `SourcesComeFirst` needs no induction over the graph: `Visited` satisfies its
  recursion equation, which says that a step enters a level only when its
  sources are in earlier ones, and the loops take a step only when all earlier
  levels are done.
* `HistoryIsTrue` joins `ListTrue` with what holds while a run is in progress
  (`TaleInv`): `_runCtx` is its context, marked running, and only its present
  step is unfinished (`Underway`). `DoneInProject` says that its loops never
  leave the steps of its project.

## 6. `PipelineRuns`

### State and steps

| model | code |
|---|---|
| `state` | whose dictionary `PIPELINE_STATE` is bound to: a run's own, or the empty one of `/reset` (`Blank`) |
| `status[d]`, `completed[d]`, `failed[d]`, `results[d]` | the keys of dictionary `d` |
| `history`, `file` | `PIPELINE_RUNS`, newest first; `pipeline_runs.json` |
| `ready` | `_runtime_mgr`: whether this start of the bridge got as far as the runtimes |
| `pc[r]`, `at[r]`, `stops[r]` | where the route of run `r` is, at which step; its `stop_on_error` |
| `done[r]`, `overlaps` | history: what the executors answered `r`; whether a run or a reset was made during a run |
| `behind` | history: the last write failed, or this start did not read the file |

The route is a plain `def`, hence in a pool thread, and reads the global anew in
every statement. `Start` binds a new dictionary, `NextStep` finds the next step
with an executor or a runtime (one without is passed over, and so is a runtime
when there is no runtime manager, line 483), `Call` waits for it, `RecordResult` and `Count`
write through the global, `Finish` sets the status, `SaveRun` copies the
dictionary to the head of the history and cuts it, `OpenFile` empties the file
and `WriteFile` fills it. Either may fail, which line 521 swallows: an open that
fails leaves the file as it was, a write that fails leaves it cut short, and the
run is answered all the same. A dictionary without the keys makes `RecordResult`
and `Count` raise (`"error"`), and an output that is no object makes `ctx.update`
(489) raise after the result is recorded. The copy is shallow, so entries share
`results`; `TrueEntry` reads it through `results[e.run]`. `Crash` includes the next start:
`_load_pipeline_runs` (365), or an empty history, because the file does not
parse, or because `_scheduler.start()` (347) raised, which `cli_main` reports as
a warning (2631) and goes on: then neither the runtimes (355) nor the history
are there. The first start may go either way as well.

### Run

| run | instance | shows |
|---|---|---|
| `pipeline_runs` | two runs of three steps (executor, neither, runtime), a history of one, one reset, writes that may fail, one crash with a start that may not read the file | a failure stops its run, whatever overlapping runs and resets do to the dictionary; without overlap each entry is true, the file is the history between a write that succeeds and the next that fails, and an answered run is listed |

*Bounds.* Two runs overlap in every way one run can be overlapped; a history of
one makes the second run reach its limit; the three steps are one that is
called, one that is passed over and one that is called after a count. One reset
falls at any point of a run; after one crash the other run starts from the file, or beside it.

*Boundary.* `HistoryTrue`, `HistoryOnDisk` and the first half of
`AnsweredListed` say "as long as nothing overlaps", because with overlap they do
not hold of the code: two runs then save the same dictionary, or count into each
other's. After a write that failed, and after a start that did not read the file
(`behind`), file and history differ until a write succeeds; a crash, or such a
start, then loses answered runs, and `AnsweredListed` names each of these ways:
a crash during a write, after one that failed, with a start that does not read,
or with overlaps before. `FailureStops` needs no condition: the loop stops on
the answer of its own call.

### Proofs

`PipelineRunsProofs` assumes that the empty dictionary is no run's, that steps
are of the three kinds and that the bounds are numbers; runs, steps, the length
of the history, resets and crashes are otherwise unbounded. All five properties
are proved.

* `TypeInv` adds to `TypeOK` that a run working on a step is at one.
* `StopInv` is about one run's loop: nothing is answered ahead of it (`Ahead`),
  what is behind it did not fail if the run is to stop (`Behind`). It mentions
  no dictionary, which is why overlap does not matter to `FailureDoesStop`.
* `SoleInv` holds without overlap: one run is under way at most (`Alone`), the
  global is its dictionary (`Mine`), the file is the history but while it is
  written and where it is `behind` (`OnDisk`), and a run about to write is the
  newest of the history (`InList`).
* `TruthInv` adds that the dictionary counts what was answered up to the step
  being recorded (`Counts`, with cardinalities of sets of steps), that a run is
  halted only by a failure (`Halting`), and that entries are of runs that are
  past their save (`Saved`), so that nothing changes them any more (`AllTrue`).

## 7. `RoutingGraph` and `ProjectRegistry`

`RoutingGraph` translates `_validate_routing_edges`: the ids are known, there
is no self-loop, and the depth-first search with `visiting` and `visited` finds
no cycle. The search (`Search`) is a recursive function over work items: what a
`for` loop of it has still to call `dfs` for, with the two sets as they are then.
Its reference is `Acyclic`: every set of agents has one that outputs to none of
them.

### State and steps

| model | code |
|---|---|
| `registered`, `skills`, `outputs` | `PROJECT["agents"]`: the ids, how each agent lists each skill (not, bare, with text), its `outputs_to` |
| `dirty` | `PROJECT["routing"]["dirty"]` |
| `file` | `project.json`, parsed or not |
| `at`, `after` | where the event loop, the routing planner and the CEO's route are, and where they go from a save |
| `form`, `plan`, `task` | the request of the loop, the edges of the planner, the assignment of the CEO; `task.stale`: the agent's record was replaced meanwhile |
| `todo` | the agents that the planner has still to give their outputs |
| `edited`, `mixed` | history: the agents whose `outputs_to` PATCH wrote; whether a plan is half applied, or was when the file was saved |
| `unsaved`, `torn`, `failed`, `taught` | history: agents whose skills changed since the last save; whether the last save met another save or a change; whether it failed; what was answered as assigned |

`async def` routes (`Create`, `SkillsAssign`, `AgentAssign`, `Patch`) run on the
event loop, one request at a time; `Create` fetches the skills after its save
(`Attach`), `Patch` saves, marks the routing dirty and saves again (`Mark`).
`POST /routing/ceo/rebuild` and `POST /orchestrate` (`AskCeo`, `Decide`,
`AppendSkill`) are plain `def`s in threads and wait there for a model. The
rebuild is `AskForPlan`, `Planned`, `CheckPlan`; then `_apply_routing_edges`:
`ApplyPlan` validates once more (892-898), `AssignOutputs` gives one agent after
the other its outputs (899-901), `CleanRouting` resets the dirty flag and goes to
the save (902-911). The event loop goes on between any two of these: it may
register, replace or edit an agent, and save a registry in which some agents have
the new outputs and some the old. A save is `OpenFile` and `WriteFile`; either
may fail, which `_save_project` logs (721-723) and the route does not see: an
open that fails leaves the file as it was, a write that fails leaves it cut
short. `Crash` includes `load_project`.

### Abstractions

A skill is known by how an agent lists it. A model answers with any edges; the
fallback graph is one of them. One orchestration applies one assignment, and
the test that the skill is not yet listed is one step with the append. Requests
that change nothing, and warnings, are left out. One request of each of the two
threads is under way at a time. `ApplyPlan` reads the list of agents twice, to
validate (893) and to go through it (899), in one step: an agent that is new in
between is one without outputs, in no plan that was validated before, and gets
none. The agents are gone through in any order. What a save writes is the
registry at one moment; a save beside another, or beside a change, may in the
code have parts of two moments, so it is marked (`torn`, and `mixed` in the
file) and nothing is claimed of it.

### Runs

| run | instance | shows |
|---|---|---|
| `registry` | three agents, two of them given, one skill, three requests, one crash | the search accepts a plan exactly when it is over registered agents and acyclic; the routes that PATCH did not write are over registered agents and acyclic, while agents are registered, replaced and edited, except in the middle of applying a plan and after a restart from a file saved then; `project.json` has what memory has when nothing is on its way to a save and the last save succeeded alone, and a restart loses only skills of routes that do not save |
| `registry_text` | the same, two requests, no crash | **violated**: a skill listed bare at creation keeps its text out for ever (finding) |

*Bounds.* Three agents give every cycle of two and three, a target shared by two
sources, and a cycle behind a visited agent. Plans are all graphs of at most two
edges, self-loops included, and all of three edges between different agents
(`Plans`): a second pair of edges adds no new kind of cycle. A PATCH writes one of
two `outputs_to` (`Edits`), of which one names an agent that may not be
registered. Three requests put one in each process, or two on the loop beside a
thread.

*Boundary.* PATCH takes any `outputs_to` and does not validate it; `RoutesSound`
leaves the agents edited so out (`edited`), until a plan gives them outputs, and
what the other agents carry must be sound by itself. While a plan is applied,
old and new outputs may close a cycle, a save by the event loop writes it and a
restart brings it back (section 10): `RoutesSound` leaves this out (`mixed`),
until the next plan has been applied. Where two saves overlap the file may not
parse, and after a save that failed it is older or cut short; `FileIsCurrent`
leaves those out (`torn`, `failed`).

### Proofs

`RoutingGraphProofs` proves, for every finite set of agents and every set of
edges, that the search accepts exactly the sound graphs (`ValidIsSound`). A work
item weighs less than the one whose loop it comes from: a call below has a node
more in `visiting`, what is left after a call has one less to do. That the
equation of the search has a solution is proved by the least weight at which it
would not, and so is what the search returns: what it visits without reporting a
cycle is closed under edges and has none (`Good`), and when it reports one, every
agent being visited leads to every one still to be visited (`Leads`), so an agent
met a second time closes a cycle.

`ProjectRegistryProofs` assumes that ids are finite, that some are given and
that edits and plans are over ids; skills, requests and crashes are unbounded.

* `Types` carries where a process goes from its save, and that the agent of a
  request under way is still registered (`Inv`).
* `ValidationIsExact` is `ValidIsSound` for the agents registered by the time the
  plan is checked.
* `RoutesAreSound` needs that the routes in the file are sound as well
  (`FileSound`), for the restart, unless they were saved in the middle of a plan
  or beside a change; and, while a plan is applied, that it was accepted and that
  no agent the planner has passed has outputs beyond the plan, unless PATCH wrote
  them since (`Applying`). When none is left, the routes are within the plan.
  Fewer routes among more agents are sound still (`FewerRoutes`), which is what
  registering, replacing and editing an agent come to.
* `FileStaysCurrent`: while no process is on its way to a save, and the last one
  neither failed nor met another, the file is what memory has but for `skills`,
  and those only where `unsaved` says so (`Current`).

## 8. `Companies`

### State and steps

| model | code |
|---|---|
| `main`, `blocklist`, `copy` | `companies.json`, `deleted_companies.json`, and the companies that `POST /data/save` writes; each whole, empty or mixed |
| `oneFile` | whether `POST /data/save` writes `main` itself: `PROJECT_DATA_DIR` is `APP_DATA_DIR` unless a project is loaded (lines 44-45, 150, 554, 1768); `copy` then is not used |
| `rest[s]`, `loaded[s]`, `marked[s]` | what is left of the request in slot `s`, its dictionary and its set of deleted ids |
| `shown`, `deleted` | the browser's companies, and its deleted ids in `localStorage` |
| `chain[c]`, `kept` | what `deleteCompany` or a login still has to send for `c`; its `newList` |
| `page` | whether the page waits for a listing, loaded or at login |
| `settled`, `cut` | history: deletions that were over when the listing began; changes that a crash or a reload of the page cut short or a page load undid |

A request is a sequence of stretches (`Program`), each with one access to a
file; opening for writing empties the file, and is a stretch of its own.
`_load_companies` is `readMain`, `filter`, `merge` and the write of what it
recovered, and is the beginning of list, create and DELETE. `async` routes hold
the event loop for the whole request (`At`); the others interleave with
everything. The browser does not await the post of its state, awaits a DELETE
and each step after it (`ChainStep`). `Reload` loads the page again in the middle
of a deletion: what the bridge has received goes on, the rest is never sent, and
the new page asks for the companies at once.

### Abstractions

A company is its id: an edit is a creation again. The owner of a company, the
active flag and routes that nothing in the repository calls are left out. What
two overlapping writers leave is what the later one wrote or does not parse
(`Written`). Which of the two modes holds is chosen at the start and stays: the
bridge is started again with the same arguments, and a project loads again. A
write of these files that fails is not modelled, for want of room in the run
rather than of interest; nothing is claimed of it.

### Run

| run | instance | shows |
|---|---|---|
| `companies` | two companies, one of them also in an older build's directory, one file or two, one crash or reload of the page | with nothing under way, no deleted company is listed, and with two files every one the user sees is; a listing never answers with nor saves a company whose deletion was over when it began |

*Bounds.* Two companies are one that is deleted and one that is there meanwhile,
created, edited or found in an older directory; both can be deleted, one after
the other or, at login, at once. One crash falls at any stretch, or one reload at
any stretch of a deletion (`MaxRestarts` counts both); login and loading of the
page follow it. The state space is that of both modes.

*Boundary.* The user makes one change after the other (`Idle`): one browser,
which waits for an answer before the next form is submitted. A listing may
still overlap any of them. After a crash or a reload that cut a deletion short
`DeletedStayAway` holds again from the next login that is answered, which sends
the deletions once more. `ShownAreListed` is about a project's own directory: the
post of the page's list is then a second place from which a load recovers what
another request dropped. In one file it is not true (section 10).

### Proofs

`CompaniesProofs` assumes that the older companies are companies and that no
company has the name of a slot; companies and crashes are unbounded. All four
properties are proved.

* What is left of a request is always `Rest(r, i)`: the text of a route `r` that
  its slot runs, from the `i`-th stretch on. `Fits` says what the slot holds
  there, and `Base` joins it with `TypeOK`. The lemmas before it work out the
  five texts, because routes are sequences put together from others.
* `SafeInv` is about the blocklist. It holds nothing but deleted companies; and
  where it lacks one, a request that will write all of them is still to come
  (`Blocked`): under way with the complete list, or yet to be sent when the
  DELETE in progress is answered. That is why an overlapping DELETE, which
  writes what it read plus its own id, does no lasting harm. `SettledInv` says
  that what was deleted when the listing began stays in the blocklist.
  `DeletedAreAway` and `NothingComesBack` follow.
* `ShownInv` is about the copy the browser posts. What any request loaded is
  shown, deleted or old (`FromPage`); the copy has what is shown, or the post
  that brings it is under way (`InCopy`). Two posts with different lists would
  break that, so the invariant says why there are none: one slot posts at a time
  (`Solo`), or, after a login, all of them post the same list (`Scrub`); and the
  `newList` a deletion posts last is what is shown but for older companies
  (`KeptInv`). TLC checked it on the bounds of the run before it was proved.
  `ShownStayListed` follows; it has `~oneFile` as a hypothesis, the theorems
  about deletions have not.

## 9. Only model-checked

Every invariant and every safety property about steps that a passing run checks
is also proved. TLC alone checks:

* `QueueDrains` (`worker_drain`): liveness under fairness, which is out of the
  prover's reach, as is ENABLED.
* the three properties that runs show violated, and the counterexamples.

`JobsStayDue` is proved under the hypotheses of its run, and
`WorkerImplementsStore`, `WorkerKeepsAnswered` and `HistoryStaysWithinAttempts`
speak of writes that do not fail, as their properties do. The library's induction
theorems take an operator as parameter and cannot be instantiated here; where an
argument is by induction over data (the depth-first search, the levels of a
graph), it goes by the least number at which the claim fails, or by the
equation of a recursive function.

## 10. Findings

1. A resume after a restart has no job (`sched_resume`): a schedule paused
   before the restart is enabled again, shown as ON, and never fires.
2. Executors run before the approval they are listed after (`browser_gate`):
   agents without `pipeline_order` get 999, executor steps 0.
3. A skill that was listed without its text keeps the text out
   (`registry_text`): the assignment finds its id in the list and answers ok.

Further observations, made while modelling and not among the runs:

* `stop` then `start` while a run is in progress leaves two worker loops, each
  running a task; the header of `bridge/task_worker.py` (line 6) says one at a
  time. `worker_loops` checks what holds even then.
* `README.md:85` says nothing is lost on restart; `tasks.json`, `project.json`,
  `schedules.json`, `pipeline_runs.json` and the company files are truncated and
  rewritten in place, and a crash inside that write loses what they held. The
  properties about crashes name that case.
* One bad cron field stops `start()` (`bridge/scheduler.py:145`), though line
  220 says it registers all enabled schedules; `DueKeepsJob` leaves the schedules
  after it out (`missed`). The exception ends `_init_subsystems` as well: no
  runtimes, and an empty run history beside an intact `pipeline_runs.json`, which
  the next run overwrites (`PipelineRuns`).
* A pause or a removal that is written and answered between the look at `enabled`
  (`bridge/scheduler.py:97`) and the run (102) is followed by a run.
* Two runs of one task, one of them between the mark (`bridge/task_worker.py:171`)
  and the count (173): the other fails, queues the task by the attempts counted
  so far, and the task is left queued with more than `max_retries` attempts. It
  then gets a run beyond them.
* Without a project, creating a company can lose the others. `PROJECT_DATA_DIR`
  is `APP_DATA_DIR`, so the page's post of its list and `POST /companies` write
  one file: the post truncates it (`bridge/bridge.py:555`), `POST /companies`
  loads nothing (1809), the post writes the old and the new company, the route
  saves the new one alone (1945).
* While a plan is applied agent by agent (`bridge/bridge.py:899`), the event loop
  may save a registry with outputs of two plans, which may have a cycle; a
  restart reads it; nothing validates what is loaded.
* A write of `pipeline_runs.json` that fails is swallowed (`bridge/bridge.py:521`)
  and one of `project.json` logged (721-723); the routes answer ok.
* A failed agent call of the browser bypasses `halt_and_log`: `callAgent` throws
  and never answers null, so the branch at `js/core.js:648` that halts and
  archives the run is not reached and the run stays `running`.
* A deleted company comes back if a listing reads the blocklist while it is
  being rewritten by a further deletion; the comment at `bridge/bridge.py:1811`
  says "never". `NoResurrection` leaves that one case out.
* An agent replaced while the CEO's route fetches a skill for it does not get
  the skill, though the route answers that it did.
* `POST /skills/assign` does not save: a restart before the next save loses the
  assignment.
* A decision nested in `decisions` (`bridge/bridge.py:1163`) is applied without
  the validation the outer one passes.
* A rebuild of the routing sets `dirty` to false at its end, also when an agent
  was registered, and marked it dirty, while the model was asked.
* The comment at `bridge/orchestrator.py:144` says the pipeline runner checks
  `requires_human_approval` first; only `apply_to_pipeline` reads it, which
  nothing calls.
* `GET /pipeline/runs` answers with the last 50 of a list whose newest entries
  come first (`bridge/bridge.py:507`): past 50 runs it shows the oldest.

## 11. Not modelled

* *Browser tasks and persistence* beyond the list of companies: `js/tasks.js`
  copies its tasks to `localStorage` and posts them; what would be stated about
  them is stated of the bridge's side.
* *Execution engine, runtime manager, model manager*: sequences of checks and a
  call, without state of their own but a list of the last results. Their answers,
  refusals and timeouts are inputs of `TaskWorker`, `PipelineRuns` and
  `ProjectRegistry`.
* *Orchestrator*: the wording of decisions, their validation, and the last fifty
  records. `apply_to_pipeline` has no caller.
* *Company routes without a caller* in the repository (activate, PATCH, GET by
  id, `POST /companies/delete`, `/data/delete_company`), import and ownership.
* *Authentication, user interface, build, vendored nodes*: rendering, file and
  network access, or third-party code, with no state machine of this program's
  own. `core/platform.js` is an older copy of the browser platform that
  `index.html` does not load.
