-------------------------- MODULE BrowserPipeline --------------------------
(***************************************************************************)
(* js/core.js: the pipeline the browser runs step by step, the operator's  *)
(* approval gate and the list of past runs.                                *)
(*                                                                         *)
(* runPipeline is an async function: it runs without interruption from one *)
(* await to the next.  The awaits that let something else in are the call  *)
(* of an agent or executor and the wait for the operator, so one action is *)
(* one such stretch: what follows an answer, up to the next call or wait.  *)
(* Nothing keeps the operator from starting a run while another one is in  *)
(* progress, and both then go through the one _runCtx, _pendingApproval    *)
(* and _approvalResolve.                                                   *)
(*                                                                         *)
(* The operator and the answers of agents and executors are the            *)
(* environment.                                                            *)
(***************************************************************************)
EXTENDS Naturals, Sequences, FiniteSets

CONSTANTS
    Steps,     \* step ids, numbered in the order of allSteps: agents, executors
    Agents,    \* the steps that call an agent; the others call an executor
    Gated,     \* the steps with requires_approval
    Runs,      \* bound: runs started
    Projects   \* what a run may find in the manifest and the live agents

NoRun  == 0
NoStep == 0

(***************************************************************************)
(* A project at the time a run starts: the steps that take part, their     *)
(* pipeline_order and outputs_to with the code's defaults filled in,       *)
(* whether pipeline.on_error is halt_and_log, and their places in the      *)
(* manifest's execution_order (which only the properties look at).         *)
(***************************************************************************)
ProjectType ==
    [steps: SUBSET Steps, order: [Steps -> Nat], outputs: [Steps -> SUBSET Steps],
     halts: BOOLEAN, listed: [Steps -> Nat]]

ASSUME StepsAssumption    == Steps \subseteq Nat \ {NoStep} /\ IsFiniteSet(Steps)
ASSUME KindsAssumption    == Agents \subseteq Steps /\ Gated \subseteq Steps
ASSUME RunsAssumption     == Runs \subseteq Nat \ {NoRun}
ASSUME ProjectsAssumption == Projects \subseteq ProjectType

VARIABLES
    ctx,          \* ctx[r]: status and step statuses in the object of run r
    runCtx,       \* _runCtx: the run whose object it refers to
    pending,      \* _pendingApproval and _approvalResolve
    runHistory,   \* _runHistory, newest first
    pc, at, done, \* each runPipeline: where it waits, at which step, and the
                  \* steps its loops have been through
    project,      \* what it found
    overlapped,   \* history: has a run been started beside another one?
    rejected      \* history: runs a step of which the operator rejected

globals == <<ctx, runCtx, pending, runHistory>>
locals  == <<pc, at, done, project>>
history == <<overlapped, rejected>>
vars    == <<globals, locals, history>>

StepStatus == {"none", "running", "pending_approval", "complete", "error",
               "blocked", "skipped", "rejected"}
RunStatus  == {"running", "complete", "halted", "rejected"}
Contexts   == [status: RunStatus, steps: [Steps -> StepStatus]]
NoApproval == [run |-> NoRun, step |-> NoStep]

TypeOK ==
    /\ ctx \in [Runs -> Contexts]
    /\ runCtx \in Runs \cup {NoRun}
    /\ pending \in [run: Runs \cup {NoRun}, step: Steps \cup {NoStep}]
    /\ runHistory \in Seq([run: Runs, ctx: Contexts])
    /\ pc \in [Runs -> {"idle", "waiting", "calling", "over"}]
    /\ at \in [Runs -> Steps \cup {NoStep}]
    /\ done \in [Runs -> SUBSET Steps]
    /\ project \in [Runs -> Projects]
    /\ overlapped \in BOOLEAN
    /\ rejected \subseteq Runs

-----------------------------------------------------------------------------
(* The order of execution. *)

HasEdges(p)   == \E s \in p.steps \cap Agents : p.outputs[s] # {}
Sources(p, t) == {s \in p.steps : t \in p.outputs[s]}

(* Mutant: a step joins a level as soon as one of its sources is visited. *)
VisitedEarly(p) ==
    LET visited[k \in 0 .. Cardinality(p.steps)] ==
          IF k = 0 THEN {}
          ELSE {t \in p.steps : \/ Sources(p, t) = {}
                                \/ Sources(p, t) \cap visited[k - 1] # {}}
    IN  visited

(* The levels of the topological sort: after k levels, the steps visited.  *)
(* A step joins the frontier once all its sources are visited.             *)
Visited(p) ==
    LET visited[k \in 0 .. Cardinality(p.steps)] ==
          IF k = 0 THEN {}
          ELSE {t \in p.steps : Sources(p, t) \subseteq visited[k - 1]}
    IN  visited

(* With edges: level by level, steps of one level in any order, then those *)
(* on a cycle or behind one.  Without: a stable sort on pipeline_order.    *)
Before(p, s, t) ==
    IF HasEdges(p)
    THEN LET n == Cardinality(p.steps) IN
         \/ \E k \in 0 .. n : s \in Visited(p)[k] /\ t \notin Visited(p)[k]
         \/ s \notin Visited(p)[n] /\ t \notin Visited(p)[n] /\ s < t
    ELSE \/ p.order[s] < p.order[t]
         \/ p.order[s] = p.order[t] /\ s < t

NextSteps(p, d) ==
    {t \in p.steps \ d : \A s \in p.steps : Before(p, s, t) => s \in d}

-----------------------------------------------------------------------------
Blank == [status |-> "running", steps |-> [s \in Steps |-> "none"]]

Init ==
    /\ ctx = [r \in Runs |-> Blank]
    /\ runCtx = NoRun
    /\ pending = NoApproval
    /\ runHistory = <<>>
    /\ pc   = [r \in Runs |-> "idle"]
    /\ at   = [r \in Runs |-> NoStep]
    /\ done = [r \in Runs |-> {}]
    /\ project \in [Runs -> Projects]
    /\ overlapped = FALSE
    /\ rejected = {}

(* _executeStep up to its first call or wait.  c is the context object     *)
(* that _runCtx refers to, n is its run.                                   *)
BeginStep(r, n, c, t) ==
    LET gate == t \in Gated IN
    /\ at'  = [at EXCEPT ![r] = t]
    /\ pc'  = [pc EXCEPT ![r] = IF gate THEN "waiting" ELSE "calling"]
    /\ ctx' = [ctx EXCEPT ![n] =
                  [c EXCEPT !.steps[t] = IF gate THEN "pending_approval" ELSE "running"]]
    /\ UNCHANGED runHistory

(* _archiveRun(_runCtx), and runPipeline returns. *)
Return(r, n, c) ==
    /\ ctx' = [ctx EXCEPT ![n] = c]
    /\ runHistory' = <<[run |-> n, ctx |-> c]>> \o runHistory
    /\ pc' = [pc EXCEPT ![r] = "over"]
    /\ at' = [at EXCEPT ![r] = NoStep]

(* Mutant: the loops do not look at the status. *)
ContinueBlindly(r, n, c, d) ==
    \/ /\ NextSteps(project[r], d) = {}
       /\ Return(r, n, [c EXCEPT !.status = "complete"])
    \/ \E t \in NextSteps(project[r], d) : BeginStep(r, n, c, t)

(* The loops of runPipeline, when they have been through the steps d. *)
Continue(r, n, c, d) ==
    IF c.status \in {"halted", "rejected"}
    THEN Return(r, n, c)
    ELSE \/ /\ NextSteps(project[r], d) = {}
            /\ Return(r, n, [c EXCEPT !.status = "complete"])
         \/ \E t \in NextSteps(project[r], d) : BeginStep(r, n, c, t)

(* _waitForApproval: the wait replaces what was pending. *)
AskOrLeave(r, p) ==
    pending' = IF pc'[r] = "waiting" THEN [run |-> r, step |-> at'[r]] ELSE p

(* The steps of r's loops go on with the object _runCtx refers to. *)
Resume(r, c) ==
    /\ done' = [done EXCEPT ![r] = @ \cup {at[r]}]
    /\ Continue(r, runCtx, c, done'[r])

RunPipeline(r) ==
    /\ pc[r] = "idle"
    /\ runCtx' = r
    /\ Continue(r, r, Blank, {})
    /\ AskOrLeave(r, pending)
    /\ overlapped' = (overlapped \/ \E q \in Runs : pc[q] \in {"waiting", "calling"})
    /\ UNCHANGED <<done, project, rejected>>

-----------------------------------------------------------------------------
(* The operator's answer.  It goes to whoever asked last. *)

(* Mutant: _pendingApproval is left as it is. *)
ApproveAgain(r) ==
    /\ pending.run = r
    /\ pc' = [pc EXCEPT ![r] = "calling"]
    /\ UNCHANGED <<globals, at, done, project, history>>

Approve(r) ==
    /\ pending.run = r
    /\ pending' = NoApproval
    /\ pc' = [pc EXCEPT ![r] = "calling"]
    /\ UNCHANGED <<ctx, runCtx, runHistory, at, done, project, history>>

Reject(r) ==
    /\ pending.run = r
    /\ Resume(r, [ctx[runCtx] EXCEPT !.status = "rejected",
                                     !.steps[at[r]] = "rejected"])
    /\ AskOrLeave(r, NoApproval)
    /\ rejected' = rejected \cup {r}
    /\ UNCHANGED <<runCtx, project, overlapped>>

-----------------------------------------------------------------------------
(* The end of a call. *)

(* Mutant: a status of the bridge's is taken over as it is. *)
OutcomesRaw(t) == IF t \in Agents THEN {"complete"}
                  ELSE {"complete", "error", "permission_denied", "skipped"}

(* What can become of a step.  An executor may be refused by the           *)
(* permissions, skipped while the bridge is offline, or fail.              *)
Outcomes(t) == IF t \in Agents THEN {"complete"}
               ELSE {"complete", "error", "blocked", "skipped"}

(* Mutant: a blocked executor does not halt the run. *)
HaltsOnError(r, outcome) == project[r].halts /\ outcome = "error"

Halts(r, outcome) == project[r].halts /\ outcome \in {"error", "blocked"}

CallReturns(r) ==
    /\ pc[r] = "calling"
    /\ \E outcome \in Outcomes(at[r]) :
         LET c == ctx[runCtx] IN
         Resume(r, [c EXCEPT !.steps[at[r]] = outcome,
                             !.status = IF Halts(r, outcome) THEN "halted" ELSE @])
    /\ AskOrLeave(r, pending)
    /\ UNCHANGED <<runCtx, project, history>>

(* callAgent never answers null: it throws, through _executeStep and       *)
(* runPipeline, which do not catch.                                        *)
CallThrows(r) ==
    /\ pc[r] = "calling" /\ at[r] \in Agents
    /\ pc' = [pc EXCEPT ![r] = "over"]
    /\ at' = [at EXCEPT ![r] = NoStep]
    /\ UNCHANGED <<globals, done, project, history>>

-----------------------------------------------------------------------------
RunStep(r) == RunPipeline(r) \/ Approve(r) \/ Reject(r)
              \/ CallReturns(r) \/ CallThrows(r)

Next == \E r \in Runs : RunStep(r)

Spec == Init /\ [][Next]_vars

-----------------------------------------------------------------------------
(* What is meant to hold. *)

(* The approval on the screen is the one a run is waiting for, at the step *)
(* named; and a run that waits has its approval on the screen, unless      *)
(* another run has been started beside it.                                 *)
ShownIsAsked ==
    /\ pending.run # NoRun => /\ pc[pending.run] = "waiting"
                              /\ at[pending.run] = pending.step
    /\ ~overlapped => \A r \in Runs : pc[r] = "waiting" => pending.run = r

(* A run that was rejected takes no further step, although another run may *)
(* have replaced the context it is marked in.                              *)
RejectionStops == \A r \in rejected : pc[r] = "over"

Acyclic(p) == p.steps \subseteq Visited(p)[Cardinality(p.steps)]

(* A step starts only after the steps that feed it.                        *)
SourcesFirst ==
    \A r \in Runs :
        LET p == project[r] IN
        at[r] # NoStep /\ HasEdges(p) /\ Acyclic(p) =>
            Sources(p, at[r]) \subseteq done[r]

(* As long as no run is started beside another: the list has each run at   *)
(* most once, and says "complete" of it exactly when it went through all   *)
(* its steps, none of which is shown as still going on; "halted" only in a *)
(* project that halts on errors; "rejected" if the operator said so.       *)
HistoryTrue ==
    ~overlapped =>
        /\ \A i, j \in DOMAIN runHistory :
              runHistory[i].run = runHistory[j].run => i = j
        /\ \A i \in DOMAIN runHistory :
              LET r == runHistory[i].run
                  c == runHistory[i].ctx
                  p == project[r]
              IN  /\ pc[r] = "over"
                  /\ \A s \in Steps : c.steps[s] \notin {"running", "pending_approval"}
                  /\ c.status = "rejected" <=> r \in rejected
                  /\ c.status = "halted" => p.halts
                  /\ c.status = "complete" =>
                        /\ done[r] = p.steps
                        /\ p.halts => \A s \in p.steps :
                                         c.steps[s] \notin {"error", "blocked"}

(* js/data.js line 7, the bundled project, whose execution_order lists the  *)
(* CEO eighth and the execution ninth: "Final approval layer", "Feeds to:  *)
(* Execution (step 9)".  No executor listed after an approval runs before  *)
(* it.                                                                     *)
ExecutorsAfterApproval ==
    \A r \in Runs : at[r] \in Steps \ Agents =>
        \A g \in Gated \cap project[r].steps :
            project[r].listed[g] < project[r].listed[at[r]] => g \in done[r]

=============================================================================
