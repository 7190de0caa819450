----------------------- MODULE BrowserPipelineProofs -----------------------
(* What holds of BrowserPipeline for every set of steps and projects and   *)
(* any number of runs, overlapping ones included.                          *)
EXTENDS BrowserPipeline, SequenceTheorems, FiniteSetTheorems, WellFoundedInduction,
        TLAPS

Active(r) == pc[r] \in {"waiting", "calling"}

(* Once a run has started, _runCtx refers to a run. *)
ContextSet == \A r \in Runs : pc[r] # "idle" => runCtx \in Runs

(* A run in progress is at a step. *)
AtStep == \A r \in Runs : Active(r) => at[r] \in Steps

(* The approval pending is the one its run waits for. *)
Asked == pending.run # NoRun => /\ pc[pending.run] = "waiting"
                                /\ at[pending.run] = pending.step

Inv == TypeOK /\ ContextSet /\ AtStep /\ Asked /\ RejectionStops

-----------------------------------------------------------------------------
(* Marking a step or the run leaves a context object of the right form. *)
LEMMA MarkStep ==
    ASSUME NEW c \in Contexts, NEW t \in Steps, NEW s \in StepStatus
    PROVE  [c EXCEPT !.steps[t] = s] \in Contexts
BY DEF Contexts

LEMMA MarkRun ==
    ASSUME NEW c \in Contexts, NEW s \in RunStatus
    PROVE  [c EXCEPT !.status = s] \in Contexts
BY DEF Contexts

(* Marking both, as the end of a step does. *)
LEMMA MarkBoth ==
    ASSUME NEW c \in Contexts, NEW t \in Steps, NEW s \in StepStatus,
           NEW u \in RunStatus
    PROVE  /\ [c EXCEPT !.steps[t] = s, !.status = u] \in Contexts
           /\ [c EXCEPT !.status = u, !.steps[t] = s] \in Contexts
BY DEF Contexts

(* The steps that may come next are steps of the project. *)
LEMMA NextAreSteps ==
    ASSUME TypeOK, NEW r \in Runs, NEW d
    PROVE  NextSteps(project[r], d) \subseteq Steps
BY ProjectsAssumption DEF TypeOK, ProjectType, NextSteps

(* What the loops of a run do to it and to what it shares: they move this  *)
(* run alone, to a step or to its end.                                     *)
Moves(r, p, a) ==
    /\ pc' = [pc EXCEPT ![r] = p]
    /\ at' = [at EXCEPT ![r] = a]
    /\ p \in {"waiting", "calling", "over"}
    /\ a \in Steps \cup {NoStep}
    /\ p # "over" => a \in Steps

(* Archiving puts a well-formed record in front of the list. *)
LEMMA ReturnMoves ==
    ASSUME TypeOK, NEW r \in Runs, NEW n \in Runs, NEW c \in Contexts,
           Return(r, n, c)
    PROVE  /\ ctx' \in [Runs -> Contexts]
           /\ runHistory' \in Seq([run: Runs, ctx: Contexts])
           /\ Moves(r, "over", NoStep)
<1> DEFINE R == [run: Runs, ctx: Contexts]
<1> DEFINE e == [run |-> n, ctx |-> c]
<1>1. e \in R
  OBVIOUS
<1>2. <<e>> \in Seq(R) /\ runHistory \in Seq(R)
  BY <1>1 DEF TypeOK
<1>3. <<e>> \o runHistory \in Seq(R)
  BY <1>2, ConcatProperties
<1>4. ctx' \in [Runs -> Contexts]
  BY DEF TypeOK, Return
<1>. QED BY <1>3, <1>4 DEF Return, Moves

(* The same of the beginning of a step. *)
LEMMA BeginMoves ==
    ASSUME TypeOK, NEW r \in Runs, NEW n \in Runs, NEW c \in Contexts,
           NEW t \in Steps, BeginStep(r, n, c, t)
    PROVE  /\ ctx' \in [Runs -> Contexts]
           /\ runHistory' \in Seq([run: Runs, ctx: Contexts])
           /\ \E p : Moves(r, p, t)
<1> DEFINE s == IF t \in Gated THEN "pending_approval" ELSE "running"
<1>1. [c EXCEPT !.steps[t] = s] \in Contexts
  BY MarkStep DEF StepStatus
<1>2. ctx' = [ctx EXCEPT ![n] = [c EXCEPT !.steps[t] = s]]
  BY DEF BeginStep
<1>3. ctx' \in [Runs -> Contexts]
  BY <1>1, <1>2 DEF TypeOK
<1>4. Moves(r, IF t \in Gated THEN "waiting" ELSE "calling", t)
  BY DEF BeginStep, Moves
<1>. QED BY <1>3, <1>4 DEF BeginStep, TypeOK

(* And of the loops, which begin a step or archive the run. *)
LEMMA ContinueMoves ==
    ASSUME TypeOK, NEW r \in Runs, NEW n \in Runs, NEW c \in Contexts, NEW d,
           Continue(r, n, c, d)
    PROVE  /\ ctx' \in [Runs -> Contexts]
           /\ runHistory' \in Seq([run: Runs, ctx: Contexts])
           /\ \E p, a : Moves(r, p, a)
           /\ c.status = "rejected" => pc'[r] = "over"
<1>1. CASE c.status \in {"halted", "rejected"}
  <2>1. Return(r, n, c)
    BY <1>1 DEF Continue
  <2>2. pc'[r] = "over"
    BY <2>1 DEF Return, TypeOK
  <2>. QED BY <2>1, <2>2, ReturnMoves
<1>2. CASE c.status \notin {"halted", "rejected"}
  <2>1. CASE Return(r, n, [c EXCEPT !.status = "complete"])
    <3>1. [c EXCEPT !.status = "complete"] \in Contexts
      BY MarkRun DEF RunStatus
    <3>. QED BY <1>2, <2>1, <3>1, ReturnMoves
  <2>2. CASE \E t \in NextSteps(project[r], d) : BeginStep(r, n, c, t)
    <3>1. PICK t \in NextSteps(project[r], d) : BeginStep(r, n, c, t)
      BY <2>2
    <3>2. t \in Steps
      BY <3>1, NextAreSteps
    <3>. QED BY <1>2, <3>1, <3>2, BeginMoves
  <2>. QED BY <1>2, <2>1, <2>2 DEF Continue
<1>. QED BY <1>1, <1>2

-----------------------------------------------------------------------------
(* The invariant, after the loops of r have gone on: what is common to the *)
(* start of a run, a rejection and the end of a call.                      *)
LEMMA MoveKeeps ==
    ASSUME Inv, NEW r \in Runs, NEW p, NEW a, Moves(r, p, a),
           NEW q \in [run: Runs \cup {NoRun}, step: Steps \cup {NoStep}],
           AskOrLeave(r, q),
           q = NoApproval \/ (q = pending /\ q.run # r),
           runCtx' \in Runs
    PROVE  /\ pc' \in [Runs -> {"idle", "waiting", "calling", "over"}]
           /\ at' \in [Runs -> Steps \cup {NoStep}]
           /\ pending' \in [run: Runs \cup {NoRun}, step: Steps \cup {NoStep}]
           /\ ContextSet' /\ AtStep' /\ Asked'
<1>1. /\ pc' \in [Runs -> {"idle", "waiting", "calling", "over"}]
      /\ at' \in [Runs -> Steps \cup {NoStep}]
  BY DEF Inv, TypeOK, Moves
<1>2. pc'[r] = p /\ at'[r] = a
  BY DEF Inv, TypeOK, Moves
<1>3. \A o \in Runs : o # r => pc'[o] = pc[o] /\ at'[o] = at[o]
  BY DEF Inv, TypeOK, Moves
<1>4. pending' = IF p = "waiting" THEN [run |-> r, step |-> a] ELSE q
  BY <1>2 DEF AskOrLeave
<1>5. pending' \in [run: Runs \cup {NoRun}, step: Steps \cup {NoStep}]
  BY <1>4 DEF Moves
<1>6. ContextSet'
  BY DEF ContextSet
<1>7. AtStep'
  BY <1>2, <1>3 DEF AtStep, Active, Moves, Inv
<1>8. Asked'
  <2>1. CASE p = "waiting"
    BY <1>2, <1>4, <2>1 DEF Asked
  <2>2. CASE p # "waiting" /\ q = NoApproval
    BY <1>4, <2>2 DEF Asked, NoApproval
  <2>3. CASE p # "waiting" /\ q = pending /\ q.run # r
    <3>1. pending' = pending
      BY <1>4, <2>3
    <3>2. pending.run # NoRun => pending.run \in Runs /\ pending.run # r
      BY <2>3 DEF Inv, TypeOK
    <3>. QED BY <1>3, <3>1, <3>2 DEF Asked, Inv
  <2>. QED BY <2>1, <2>2, <2>3
<1>. QED BY <1>1, <1>5, <1>6, <1>7, <1>8

(* A start, and what is assumed of the project it finds. *)
LEMMA StartKeeps ==
    ASSUME Inv, NEW r \in Runs, RunPipeline(r)
    PROVE  Inv'
<1>1. Blank \in Contexts
  BY DEF Blank, Contexts, RunStatus, StepStatus
<1>2. PICK p, a : Moves(r, p, a)
  BY <1>1, ContinueMoves DEF RunPipeline, Inv
<1>3. /\ ctx' \in [Runs -> Contexts]
      /\ runHistory' \in Seq([run: Runs, ctx: Contexts])
  BY <1>1, ContinueMoves DEF RunPipeline, Inv
<1>4. pending \in [run: Runs \cup {NoRun}, step: Steps \cup {NoStep}]
  BY DEF Inv, TypeOK
<1>5. pending.run # r
  <2>1. pc[r] = "idle" /\ r # NoRun
    BY RunsAssumption DEF RunPipeline, NoRun
  <2>. QED BY <2>1 DEF Inv, Asked
<1>6. runCtx' \in Runs /\ AskOrLeave(r, pending)
  BY DEF RunPipeline
<1>7. /\ pc' \in [Runs -> {"idle", "waiting", "calling", "over"}]
      /\ at' \in [Runs -> Steps \cup {NoStep}]
      /\ pending' \in [run: Runs \cup {NoRun}, step: Steps \cup {NoStep}]
      /\ ContextSet' /\ AtStep' /\ Asked'
  BY <1>2, <1>4, <1>5, <1>6, MoveKeeps
<1>8. TypeOK'
  <2>1. overlapped' \in BOOLEAN
    BY DEF RunPipeline, Inv, TypeOK
  <2>. QED BY <1>3, <1>6, <1>7, <2>1 DEF RunPipeline, Inv, TypeOK
<1>9. RejectionStops'
  BY <1>2 DEF RunPipeline, Inv, TypeOK, RejectionStops, Moves
<1>. QED BY <1>7, <1>8, <1>9 DEF Inv

(* An approval moves the run that asked for it on to its call. *)
LEMMA ApproveKeeps ==
    ASSUME Inv, NEW r \in Runs, Approve(r)
    PROVE  Inv'
<1>1. pc[r] = "waiting"
  BY RunsAssumption DEF Approve, Inv, Asked, NoRun
<1>2. TypeOK'
  <2>1. NoApproval \in [run: Runs \cup {NoRun}, step: Steps \cup {NoStep}]
    BY DEF NoApproval
  <2>. QED BY <2>1 DEF Approve, history, Inv, TypeOK
<1>3. ContextSet' /\ AtStep'
  BY <1>1 DEF Approve, Inv, TypeOK, ContextSet, AtStep, Active
<1>4. Asked'
  BY DEF Approve, Asked, NoApproval
<1>5. RejectionStops'
  BY <1>1 DEF Approve, history, Inv, TypeOK, RejectionStops
<1>. QED BY <1>2, <1>3, <1>4, <1>5 DEF Inv

(* A rejection ends the run that asked. *)
LEMMA RejectMoves ==
    ASSUME Inv, NEW r \in Runs, Reject(r)
    PROVE  /\ pc[r] = "waiting"
           /\ at[r] \in Steps /\ runCtx \in Runs
           /\ ctx' \in [Runs -> Contexts]
           /\ runHistory' \in Seq([run: Runs, ctx: Contexts])
           /\ \E p, a : Moves(r, p, a)
           /\ pc'[r] = "over"
           /\ done' \in [Runs -> SUBSET Steps]
<1> DEFINE c == [ctx[runCtx] EXCEPT !.status = "rejected",
                                    !.steps[at[r]] = "rejected"]
<1>1. pc[r] = "waiting"
  BY RunsAssumption DEF Reject, Inv, Asked, NoRun
<1>2. at[r] \in Steps /\ runCtx \in Runs
  BY <1>1 DEF Inv, AtStep, Active, ContextSet
<1>3. ctx[runCtx] \in Contexts
  BY <1>2 DEF Inv, TypeOK
<1>4. c \in Contexts
  BY <1>2, <1>3, MarkBoth DEF StepStatus, RunStatus
<1>5. c.status = "rejected"
  BY <1>3 DEF Contexts
<1>6. Continue(r, runCtx, c, done'[r]) /\ done' = [done EXCEPT ![r] = @ \cup {at[r]}]
  BY DEF Reject, Resume
<1> HIDE DEF c
<1>7. /\ ctx' \in [Runs -> Contexts]
      /\ runHistory' \in Seq([run: Runs, ctx: Contexts])
      /\ \E p, a : Moves(r, p, a)
      /\ pc'[r] = "over"
  BY <1>2, <1>4, <1>5, <1>6, ContinueMoves DEF Inv
<1>8. done' \in [Runs -> SUBSET Steps]
  BY <1>2, <1>6 DEF Inv, TypeOK
<1>. QED BY <1>1, <1>2, <1>7, <1>8

(* So the invariant survives it. *)
LEMMA RejectKeeps ==
    ASSUME Inv, NEW r \in Runs, Reject(r)
    PROVE  Inv'
<1>1. PICK p, a : Moves(r, p, a)
  BY RejectMoves
<1>2. NoApproval \in [run: Runs \cup {NoRun}, step: Steps \cup {NoStep}]
  BY DEF NoApproval
<1>3. runCtx' \in Runs /\ AskOrLeave(r, NoApproval)
  BY RejectMoves DEF Reject
<1>4. /\ pc' \in [Runs -> {"idle", "waiting", "calling", "over"}]
      /\ at' \in [Runs -> Steps \cup {NoStep}]
      /\ pending' \in [run: Runs \cup {NoRun}, step: Steps \cup {NoStep}]
      /\ ContextSet' /\ AtStep' /\ Asked'
  BY <1>1, <1>2, <1>3, MoveKeeps
<1>5. TypeOK'
  BY <1>3, <1>4, RejectMoves DEF Reject, Inv, TypeOK
<1>6. RejectionStops'
  BY <1>1, RejectMoves DEF Reject, Inv, TypeOK, RejectionStops, Moves
<1>. QED BY <1>4, <1>5, <1>6 DEF Inv

(* The end of a call lets the loops of its run go on. *)
LEMMA ReturnsMove ==
    ASSUME Inv, NEW r \in Runs, CallReturns(r)
    PROVE  /\ pc[r] = "calling"
           /\ runCtx \in Runs
           /\ ctx' \in [Runs -> Contexts]
           /\ runHistory' \in Seq([run: Runs, ctx: Contexts])
           /\ \E p, a : Moves(r, p, a)
           /\ done' \in [Runs -> SUBSET Steps]
<1>1. pc[r] = "calling"
  BY DEF CallReturns
<1>2. at[r] \in Steps /\ runCtx \in Runs
  BY <1>1 DEF Inv, AtStep, Active, ContextSet
<1>3. ctx[runCtx] \in Contexts
  BY <1>2 DEF Inv, TypeOK
<1>4. PICK outcome \in Outcomes(at[r]) :
        Resume(r, [ctx[runCtx] EXCEPT
                     !.steps[at[r]] = outcome,
                     !.status = IF Halts(r, outcome) THEN "halted" ELSE @])
  BY DEF CallReturns
<1> DEFINE u == IF Halts(r, outcome) THEN "halted" ELSE ctx[runCtx].status
<1> DEFINE c == [ctx[runCtx] EXCEPT !.steps[at[r]] = outcome, !.status = u]
<1>5. outcome \in StepStatus
  BY <1>4 DEF Outcomes, StepStatus
<1>6. u \in RunStatus
  BY <1>3 DEF RunStatus, Contexts
<1>7. Resume(r, c)
  BY <1>3, <1>4 DEF Contexts
<1> HIDE DEF u
<1>8. c \in Contexts
  BY <1>2, <1>3, <1>5, <1>6, MarkBoth
<1> HIDE DEF c
<1>9. Continue(r, runCtx, c, done'[r]) /\ done' = [done EXCEPT ![r] = @ \cup {at[r]}]
  BY <1>7 DEF Resume
<1>10. /\ ctx' \in [Runs -> Contexts]
       /\ runHistory' \in Seq([run: Runs, ctx: Contexts])
       /\ \E p, a : Moves(r, p, a)
  BY <1>2, <1>8, <1>9, ContinueMoves DEF Inv
<1>11. done' \in [Runs -> SUBSET Steps]
  BY <1>2, <1>9 DEF Inv, TypeOK
<1>. QED BY <1>1, <1>2, <1>10, <1>11

(* So the invariant survives it. *)
LEMMA ReturnKeeps ==
    ASSUME Inv, NEW r \in Runs, CallReturns(r)
    PROVE  Inv'
<1>1. PICK p, a : Moves(r, p, a)
  BY ReturnsMove
<1>2. pc[r] = "calling"
  BY ReturnsMove
<1>3. /\ pending \in [run: Runs \cup {NoRun}, step: Steps \cup {NoStep}]
      /\ pending.run # r
  BY <1>2, RunsAssumption DEF Inv, TypeOK, Asked, NoRun
<1>4. runCtx' \in Runs /\ AskOrLeave(r, pending)
  BY ReturnsMove DEF CallReturns
<1>5. /\ pc' \in [Runs -> {"idle", "waiting", "calling", "over"}]
      /\ at' \in [Runs -> Steps \cup {NoStep}]
      /\ pending' \in [run: Runs \cup {NoRun}, step: Steps \cup {NoStep}]
      /\ ContextSet' /\ AtStep' /\ Asked'
  BY <1>1, <1>3, <1>4, MoveKeeps
<1>6. TypeOK'
  BY <1>4, <1>5, ReturnsMove DEF CallReturns, history, Inv, TypeOK
<1>7. RejectionStops'
  <2>1. r \notin rejected
    BY <1>2 DEF Inv, RejectionStops
  <2>. QED BY <1>1, <2>1 DEF CallReturns, history, Inv, TypeOK, RejectionStops, Moves
<1>. QED BY <1>5, <1>6, <1>7 DEF Inv

(* A call that throws ends its run. *)
LEMMA ThrowKeeps ==
    ASSUME Inv, NEW r \in Runs, CallThrows(r)
    PROVE  Inv'
<1>1. pc[r] = "calling" /\ r # NoRun
  BY RunsAssumption DEF CallThrows, NoRun
<1>2. pending.run # r
  BY <1>1 DEF Inv, Asked
<1>3. TypeOK'
  BY DEF CallThrows, globals, history, Inv, TypeOK
<1>4. ContextSet' /\ AtStep'
  BY <1>1 DEF CallThrows, globals, Inv, TypeOK, ContextSet, AtStep, Active
<1>5. Asked'
  BY <1>2 DEF CallThrows, globals, Inv, TypeOK, Asked
<1>6. RejectionStops'
  BY <1>1 DEF CallThrows, history, Inv, TypeOK, RejectionStops
<1>. QED BY <1>3, <1>4, <1>5, <1>6 DEF Inv

(* The invariant holds at the start and after every step. *)
THEOREM Invariant == Spec => []Inv
<1>1. Init => Inv
  <2> SUFFICES ASSUME Init PROVE Inv
    OBVIOUS
  <2>1. Blank \in Contexts
    BY DEF Blank, Contexts, RunStatus, StepStatus
  <2>2. <<>> \in Seq([run: Runs, ctx: Contexts])
    OBVIOUS
  <2>3. TypeOK
    BY <2>1, <2>2 DEF Init, TypeOK, NoApproval
  <2>. QED BY <2>3 DEF Init, Inv, ContextSet, AtStep, Active, Asked,
                       NoApproval, RejectionStops
<1>2. Inv /\ [Next]_vars => Inv'
  <2> SUFFICES ASSUME Inv, [Next]_vars PROVE Inv'
    OBVIOUS
  <2>1. CASE UNCHANGED vars
    BY <2>1 DEF vars, globals, locals, history, Inv, TypeOK, ContextSet,
                AtStep, Active, Asked, RejectionStops
  <2>2. ASSUME NEW r \in Runs, RunStep(r) PROVE Inv'
    BY <2>2, StartKeeps, ApproveKeeps, RejectKeeps, ReturnKeeps, ThrowKeeps
       DEF RunStep
  <2>. QED BY <2>1, <2>2 DEF Next
<1>. QED BY <1>1, <1>2, PTL DEF Spec

-----------------------------------------------------------------------------
(* Unless runs have overlapped, one at most is in progress, and if it      *)
(* waits, its approval is shown.                                           *)
Alone == ~overlapped =>
            /\ \A q, r \in Runs : Active(q) /\ Active(r) => q = r
            /\ \A r \in Runs : pc[r] = "waiting" => pending.run = r

(* The loops of a run that is alone leave it alone, with its approval      *)
(* shown if they stop at a gate.                                           *)
LEMMA MoveAlone ==
    ASSUME Inv, NEW r \in Runs, NEW p, NEW a, Moves(r, p, a),
           NEW q, AskOrLeave(r, q),
           ~overlapped' => \A o \in Runs : o # r => ~Active(o)
    PROVE  Alone'
<1>1. /\ pc'[r] = p
      /\ \A o \in Runs : o # r => pc'[o] = pc[o]
  BY DEF Inv, TypeOK, Moves
<1>2. p = "waiting" => pending'.run = r
  BY <1>1 DEF AskOrLeave
<1>. QED BY <1>1, <1>2 DEF Alone, Active

(* Every step keeps Alone. *)
LEMMA StepKeepsAlone ==
    ASSUME Inv, Alone, NEW r \in Runs, RunStep(r)
    PROVE  Alone'
<1>1. CASE RunPipeline(r)
  <2>1. Blank \in Contexts
    BY DEF Blank, Contexts, RunStatus, StepStatus
  <2>2. PICK p, a : Moves(r, p, a)
    BY <1>1, <2>1, ContinueMoves DEF RunPipeline, Inv
  <2>3. ~overlapped' => \A o \in Runs : ~Active(o)
    BY <1>1 DEF RunPipeline, Active
  <2>. QED BY <1>1, <2>2, <2>3, MoveAlone DEF RunPipeline
<1>2. CASE Approve(r)
  <2>1. pc[r] = "waiting"
    BY <1>2, RunsAssumption DEF Approve, Inv, Asked, NoRun
  <2>2. \A o \in Runs : pc'[o] = IF o = r THEN "calling" ELSE pc[o]
    BY <1>2 DEF Approve, Inv, TypeOK
  <2>3. overlapped' = overlapped
    BY <1>2 DEF Approve, history
  <2>. QED BY <2>1, <2>2, <2>3 DEF Alone, Active
<1>3. CASE Reject(r) \/ CallReturns(r)
  <2>1. Active(r)
    BY <1>3, RunsAssumption DEF Reject, CallReturns, Inv, Asked, NoRun, Active
  <2>2. overlapped' = overlapped
    BY <1>3 DEF Reject, CallReturns, history
  <2>3. ~overlapped' => \A o \in Runs : o # r => ~Active(o)
    BY <2>1, <2>2 DEF Alone
  <2>4. at[r] \in Steps /\ runCtx \in Runs
    BY <2>1 DEF Inv, AtStep, Active, ContextSet
  <2>5. \E p, a : Moves(r, p, a)
    BY <1>3, <2>4, RejectMoves, ReturnsMove
  <2>6. PICK p, a : Moves(r, p, a)
    BY <2>5
  <2>7. \E q : AskOrLeave(r, q)
    BY <1>3 DEF Reject, CallReturns
  <2>. QED BY <2>3, <2>6, <2>7, MoveAlone
<1>4. CASE CallThrows(r)
  <2>1. \A o \in Runs : pc'[o] = IF o = r THEN "over" ELSE pc[o]
    BY <1>4 DEF CallThrows, Inv, TypeOK
  <2>2. overlapped' = overlapped /\ pending' = pending
    BY <1>4 DEF CallThrows, globals, history
  <2>. QED BY <2>1, <2>2 DEF Alone, Active
<1>. QED BY <1>1, <1>2, <1>3, <1>4 DEF RunStep

(* js/core.js 378-394: the approval on the screen is the one a run waits   *)
(* for, and a run that waits has its approval on the screen unless another *)
(* has been started beside it.                                             *)
THEOREM ApprovalIsAsked == Spec => []ShownIsAsked
<1>1. Init => Alone
  BY DEF Init, Alone, Active
<1>2. Inv /\ Alone /\ [Next]_vars => Alone'
  <2> SUFFICES ASSUME Inv, Alone, [Next]_vars PROVE Alone'
    OBVIOUS
  <2>1. CASE UNCHANGED vars
    BY <2>1 DEF vars, globals, locals, history, Alone, Active
  <2>2. CASE Next
    BY <2>2, StepKeepsAlone DEF Next
  <2>. QED BY <2>1, <2>2
<1>3. Inv /\ Alone => ShownIsAsked
  BY DEF Inv, Asked, Alone, ShownIsAsked
<1>. QED BY <1>1, <1>2, <1>3, Invariant, PTL DEF Spec

(* Every variable keeps its type; in particular the shared context always  *)
(* refers to a run once one has started.                                   *)
THEOREM TypeCorrect == Spec => []TypeOK
<1>1. Inv => TypeOK
  BY DEF Inv
<1>. QED BY <1>1, Invariant, PTL

(* js/core.js 637-642 and 765-771: a rejected run takes no further step.   *)
THEOREM RejectionIsFinal == Spec => []RejectionStops
<1>1. Inv => RejectionStops
  BY DEF Inv
<1>. QED BY <1>1, Invariant, PTL

-----------------------------------------------------------------------------
(***************************************************************************)
(* The order of execution.  The levels are a recursive function: that its  *)
(* equation has a solution, that the levels grow and that something can    *)
(* always come next is proved by looking at the least counterexample.      *)
(***************************************************************************)
LEMMA Least ==
  ASSUME NEW S \in SUBSET Nat, S # {}
  PROVE  \E n \in S : \A m \in S : n <= m
<1> DEFINE R == {ss \in Nat \X Nat : ss[1] < ss[2]}
<1>1. IsWellFoundedOn(R, Nat)
  BY NatLessThanWellFounded DEF OpToRel
<1>2. PICK n \in S : \A m \in S : <<m, n>> \notin R
  <2> HIDE DEF R
  <2> QED
    BY <1>1, WFMin
<1>3. \A m \in S : ~(m < n)
  BY <1>2
<1> QED
  BY <1>3

(* The level after the steps of v, and f as the levels up to n. *)
LevelAfter(p, v) == {t \in p.steps : Sources(p, t) \subseteq v}
Levels(f, p, n)  == f = [k \in 0 .. n |-> IF k = 0 THEN {} ELSE LevelAfter(p, f[k - 1])]

(* One level more. *)
LEMMA LevelsGoOn ==
  ASSUME NEW p, NEW n \in Nat, NEW f, Levels(f, p, n)
  PROVE  \E g : Levels(g, p, n + 1)
<1> DEFINE g == [k \in 0 .. (n + 1) |-> IF k = 0 THEN {} ELSE LevelAfter(p, f[k - 1])]
<1>1. \A k \in 0 .. n : f[k] = IF k = 0 THEN {} ELSE LevelAfter(p, f[k - 1])
  BY DEF Levels
<1>2. \A k \in 0 .. n : g[k] = f[k]
  BY <1>1
<1>3. \A k \in 0 .. (n + 1) : k # 0 => k - 1 \in 0 .. n /\ g[k - 1] = f[k - 1]
  <2> HIDE DEF g
  <2> QED
    BY <1>2
<1>4. g = [k \in 0 .. (n + 1) |-> IF k = 0 THEN {} ELSE LevelAfter(p, g[k - 1])]
  BY <1>3
<1> QED
  BY <1>4 DEF Levels

LEMMA LevelsExist ==
  ASSUME NEW p, NEW n \in Nat PROVE \E f : Levels(f, p, n)
<1> DEFINE Without == {m \in Nat : ~ \E f : Levels(f, p, m)}
<1> SUFFICES ASSUME Without # {} PROVE FALSE
  OBVIOUS
<1>1. PICK m \in Without : \A k \in Without : m <= k
  <2>1. Without \in SUBSET Nat
    OBVIOUS
  <2> HIDE DEF Without
  <2> QED
    BY <2>1, Least
<1>2. CASE m = 0
  <2>1. Levels([k \in 0 .. 0 |-> {}], p, 0)
    BY DEF Levels
  <2> QED
    BY <1>2, <2>1
<1>3. CASE m # 0
  <2>1. m - 1 \in Nat /\ m - 1 \notin Without
    BY <1>1, <1>3
  <2>2. PICK f : Levels(f, p, m - 1)
    BY <2>1
  <2>3. \E g : Levels(g, p, (m - 1) + 1)
    BY <2>1, <2>2, LevelsGoOn
  <2>4. (m - 1) + 1 = m
    OBVIOUS
  <2> QED
    BY <2>3, <2>4
<1> QED
  BY <1>2, <1>3

(* What Visited computes, for a finite project. *)
LEMMA VisitedLevels ==
  ASSUME NEW p, Cardinality(p.steps) \in Nat
  PROVE  /\ Visited(p)[0] = {}
         /\ \A k \in 1 .. Cardinality(p.steps) : Visited(p)[k] = LevelAfter(p, Visited(p)[k - 1])
<1> DEFINE n == Cardinality(p.steps)
<1> DEFINE v == CHOOSE f : f = [k \in 0 .. n |-> IF k = 0 THEN {}
                                ELSE {t \in p.steps : Sources(p, t) \subseteq f[k - 1]}]
<1>1. Visited(p) = v
  BY DEF Visited
<1>2. \E f : f = [k \in 0 .. n |-> IF k = 0 THEN {}
                                ELSE {t \in p.steps : Sources(p, t) \subseteq f[k - 1]}]
  <2> HIDE DEF n
  <2>1. n \in Nat
    BY DEF n
  <2>2. PICK f : Levels(f, p, n)
    BY <2>1, LevelsExist
  <2>3. f = [k \in 0 .. n |-> IF k = 0 THEN {}
                              ELSE {t \in p.steps : Sources(p, t) \subseteq f[k - 1]}]
    BY <2>2 DEF Levels, LevelAfter
  <2> QED
    BY <2>3
<1>3. v = [k \in 0 .. n |-> IF k = 0 THEN {}
                                ELSE {t \in p.steps : Sources(p, t) \subseteq v[k - 1]}]
  <2> HIDE DEF n
  <2> QED
    BY <1>2
<1> HIDE DEF v
<1>4. \A k \in 0 .. n : v[k] = IF k = 0 THEN {} ELSE LevelAfter(p, v[k - 1])
  <2> HIDE DEF n
  <2> QED
    BY <1>3 DEF LevelAfter
<1> QED
  BY <1>1, <1>4

(* A step that is ever visited joins at some level, one after its sources. *)
LEMMA JoinsAtLevel ==
  ASSUME NEW p, Cardinality(p.steps) \in Nat, NEW t,
         NEW m \in 0 .. Cardinality(p.steps), t \in Visited(p)[m]
  PROVE  \E k \in 1 .. m : /\ t \in Visited(p)[k] /\ t \notin Visited(p)[k - 1]
                           /\ Sources(p, t) \subseteq Visited(p)[k - 1]
<1> DEFINE In == {k \in 0 .. m : t \in Visited(p)[k]}
<1>1. PICK k \in In : \A i \in In : k <= i
  <2>1. In \in SUBSET Nat /\ In # {}
    OBVIOUS
  <2> HIDE DEF In
  <2> QED
    BY <2>1, Least
<1>2. k # 0
  BY VisitedLevels
<1>3. k \in 1 .. m /\ k \in 1 .. Cardinality(p.steps) /\ k - 1 \in 0 .. m
  BY <1>2
<1>4. k - 1 \notin In
  BY <1>1, <1>3
<1>5. Visited(p)[k] = LevelAfter(p, Visited(p)[k - 1])
  BY <1>3, VisitedLevels
<1> QED
  BY <1>3, <1>4, <1>5 DEF LevelAfter

(* What feeds a visited step comes before it. *)
LEMMA SourcesBefore ==
  ASSUME NEW p, Cardinality(p.steps) \in Nat, HasEdges(p), Acyclic(p),
         NEW t \in p.steps, NEW s \in Sources(p, t)
  PROVE  s \in p.steps /\ Before(p, s, t)
<1> DEFINE n == Cardinality(p.steps)
<1>1. n \in 0 .. n /\ t \in Visited(p)[n]
  BY DEF Acyclic
<1>2. PICK k \in 1 .. n : /\ t \notin Visited(p)[k - 1]
                          /\ Sources(p, t) \subseteq Visited(p)[k - 1]
  BY <1>1, JoinsAtLevel
<1>3. k - 1 \in 0 .. n
  OBVIOUS
<1>4. Before(p, s, t)
  BY <1>2, <1>3 DEF Before
<1> QED
  BY <1>4 DEF Sources

(* The levels grow. *)
LEMMA LevelsGrow ==
  ASSUME NEW p, Cardinality(p.steps) \in Nat,
         NEW m \in 0 .. Cardinality(p.steps), NEW k \in 0 .. m
  PROVE  Visited(p)[k] \subseteq Visited(p)[m]
<1> DEFINE n == Cardinality(p.steps)
           V(i) == Visited(p)[i]
           Bad == {i \in 0 .. n : \E j \in 0 .. i : ~(V(j) \subseteq V(i))}
<1>1. V(0) = {} /\ \A i \in 1 .. n : V(i) = LevelAfter(p, V(i - 1))
  BY VisitedLevels
<1> SUFFICES ASSUME Bad # {} PROVE FALSE
  OBVIOUS
<1>2. PICK i \in Bad : \A j \in Bad : i <= j
  <2>1. Bad \in SUBSET Nat
    OBVIOUS
  <2> HIDE DEF Bad
  <2> QED
    BY <2>1, Least
<1>3. PICK j \in 0 .. i : ~(V(j) \subseteq V(i))
  BY <1>2
<1> HIDE DEF V
<1>4. j # 0 /\ j # i
  BY <1>1, <1>3
<1>5. i \in 1 .. n /\ j \in 1 .. n /\ i - 1 \in 0 .. n /\ j - 1 \in 0 .. (i - 1)
  BY <1>2, <1>3, <1>4
<1>6. V(j - 1) \subseteq V(i - 1)
  <2>1. i - 1 \notin Bad
    BY <1>2, <1>5
  <2> QED
    BY <1>5, <2>1
<1>7. V(j) = LevelAfter(p, V(j - 1)) /\ V(i) = LevelAfter(p, V(i - 1))
  BY <1>1, <1>5
<1> QED
  BY <1>3, <1>6, <1>7 DEF LevelAfter

(* The loops stop only when they have been through every step. *)
LEMMA NoneNext ==
  ASSUME NEW p \in ProjectType, NEW d, NextSteps(p, d) = {}
  PROVE  p.steps \subseteq d
<1> DEFINE rest == p.steps \ d
           n == Cardinality(p.steps)
<1> SUFFICES ASSUME rest # {} PROVE FALSE
  OBVIOUS
<1>1. /\ p.steps \subseteq Steps /\ Steps \subseteq Nat
      /\ p.order \in [Steps -> Nat]
  BY StepsAssumption DEF ProjectType
<1>2. n \in Nat
  BY <1>1, StepsAssumption, FS_Subset, FS_CardinalityType
<1>3. ASSUME NEW t \in rest, \A s \in rest : ~Before(p, s, t)
      PROVE  FALSE
  <2>1. t \in NextSteps(p, d)
    BY <1>3 DEF NextSteps
  <2> QED
    BY <2>1
<1>4. CASE HasEdges(p)
  <2>0. n \in 0 .. n
    BY <1>2
  <2>1. CASE rest \cap Visited(p)[n] # {}
    <3> DEFINE K == {k \in 0 .. n : rest \cap Visited(p)[k] # {}}
    <3>1. PICK k \in K : \A i \in K : k <= i
      <4>1. K \in SUBSET Nat /\ K # {}
        BY <2>0, <2>1
      <4> HIDE DEF K
      <4> QED
        BY <4>1, Least
    <3>2. PICK t \in rest : t \in Visited(p)[k]
      BY <3>1
    <3>3. ASSUME NEW s \in rest, Before(p, s, t) PROVE FALSE
      <4>1. Visited(p)[k] \subseteq Visited(p)[n]
        BY <1>2, <2>0, <3>1, LevelsGrow
      <4>2. PICK i \in 0 .. n : s \in Visited(p)[i] /\ t \notin Visited(p)[i]
        BY <1>4, <3>2, <3>3, <4>1 DEF Before
      <4>3. i \in K
        BY <4>2
      <4>4. k <= i
        BY <3>1, <4>3
      <4>5. k \in 0 .. i
        BY <3>1, <4>2, <4>4
      <4>6. Visited(p)[k] \subseteq Visited(p)[i]
        BY <1>2, <4>2, <4>5, LevelsGrow
      <4> QED
        BY <3>2, <4>2, <4>6
    <3> QED
      BY <1>3, <3>3
  <2>2. CASE rest \cap Visited(p)[n] = {}
    <3>1. PICK t \in rest : \A s \in rest : t <= s
      <4>1. rest \in SUBSET Nat
        BY <1>1
      <4> HIDE DEF rest
      <4> QED
        BY <4>1, Least
    <3>2. ASSUME NEW s \in rest, Before(p, s, t) PROVE FALSE
      <4>0. s \in Nat /\ t \in Nat /\ t <= s
        BY <1>1, <3>1
      <4>1. ~(s < t)
        BY <4>0
      <4>2. PICK i \in 0 .. n : s \in Visited(p)[i]
        BY <1>4, <3>2, <4>1 DEF Before
      <4>3. Visited(p)[i] \subseteq Visited(p)[n]
        BY <1>2, <2>0, <4>2, LevelsGrow
      <4> QED
        BY <2>2, <4>2, <4>3
    <3> QED
      BY <1>3, <3>2
  <2> QED
    BY <2>1, <2>2
<1>5. CASE ~HasEdges(p)
  <2> DEFINE ranks == {p.order[s] : s \in rest}
  <2>1. PICK k \in ranks : \A i \in ranks : k <= i
    <3>1. ranks \in SUBSET Nat /\ ranks # {}
      BY <1>1
    <3> HIDE DEF ranks
    <3> QED
      BY <3>1, Least
  <2> DEFINE first == {s \in rest : p.order[s] = k}
  <2>2. PICK t \in first : \A s \in first : t <= s
    <3>1. first \in SUBSET Nat /\ first # {}
      BY <1>1, <2>1
    <3> HIDE DEF first
    <3> QED
      BY <3>1, Least
  <2>3. ASSUME NEW s \in rest, Before(p, s, t) PROVE FALSE
    <3>1. s \in Nat /\ t \in Nat /\ p.order[s] \in Nat /\ p.order[t] = k /\ k \in Nat
      BY <1>1, <2>1, <2>2
    <3>2. k <= p.order[s]
      BY <2>1
    <3>3. p.order[s] = k => t <= s
      BY <2>2
    <3>4. p.order[s] < p.order[t] \/ (p.order[s] = p.order[t] /\ s < t)
      BY <1>5, <2>3 DEF Before
    <3> QED
      BY <3>1, <3>2, <3>3, <3>4
  <2> QED
    BY <1>3, <2>2, <2>3
<1> QED
  BY <1>4, <1>5

-----------------------------------------------------------------------------
(***************************************************************************)
(* SourcesFirst is inductive relative to Inv: where a run stands and what  *)
(* it has been through change only when its loops go on.                   *)
(***************************************************************************)
FeedsBefore(p, t, d) == HasEdges(p) /\ Acyclic(p) => Sources(p, t) \subseteq d

(* A project the constants allow has finitely many steps. *)
LEMMA ProjectSize ==
  ASSUME TypeOK, NEW r \in Runs
  PROVE  project[r] \in ProjectType /\ Cardinality(project[r].steps) \in Nat
<1>1. project[r] \in ProjectType
  BY ProjectsAssumption DEF TypeOK
<1>2. project[r].steps \subseteq Steps
  BY <1>1 DEF ProjectType
<1> QED
  BY <1>1, <1>2, StepsAssumption, FS_Subset, FS_CardinalityType

(* What the loops take next has its sources behind it. *)
LEMMA NextHasSources ==
  ASSUME TypeOK, NEW r \in Runs, NEW d, NEW t \in NextSteps(project[r], d)
  PROVE  FeedsBefore(project[r], t, d)
<1> DEFINE p == project[r]
<1>1. Cardinality(p.steps) \in Nat
  BY ProjectSize
<1>2. t \in p.steps /\ \A s \in p.steps : Before(p, s, t) => s \in d
  BY DEF NextSteps
<1> HIDE DEF p
<1> SUFFICES ASSUME HasEdges(p), Acyclic(p), NEW s \in Sources(p, t) PROVE s \in d
  BY DEF FeedsBefore, p
<1> QED
  BY <1>1, <1>2, SourcesBefore

(* The loops of r take it to its end or to a step whose sources are done.  *)
LEMMA ContinueTakes ==
  ASSUME TypeOK, NEW r \in Runs, NEW n, NEW c, NEW d, Continue(r, n, c, d)
  PROVE  \/ at'[r] = NoStep
         \/ FeedsBefore(project[r], at'[r], d)
<1>1. CASE \E t \in NextSteps(project[r], d) : BeginStep(r, n, c, t)
  <2>1. PICK t \in NextSteps(project[r], d) : BeginStep(r, n, c, t)
    BY <1>1
  <2>2. at'[r] = t
    BY <2>1 DEF BeginStep, TypeOK
  <2> QED
    BY <2>1, <2>2, NextHasSources
<1>2. CASE ~ \E t \in NextSteps(project[r], d) : BeginStep(r, n, c, t)
  <2>1. at'[r] = NoStep
    BY <1>2 DEF Continue, Return, TypeOK
  <2> QED
    BY <2>1
<1> QED
  BY <1>1, <1>2

(* The step of another run moves neither. *)
LEMMA SourcesFirstStep ==
  ASSUME Inv, SourcesFirst, [Next]_vars PROVE SourcesFirst'
<1> SUFFICES ASSUME NEW o \in Runs, at'[o] # NoStep
             PROVE  FeedsBefore(project'[o], at'[o], done'[o])
  BY DEF SourcesFirst, FeedsBefore
<1>0. /\ TypeOK
      /\ at[o] # NoStep => FeedsBefore(project[o], at[o], done[o])
  BY DEF Inv, SourcesFirst, FeedsBefore
<1>1. CASE UNCHANGED vars
  BY <1>0, <1>1 DEF vars, locals
<1>2. ASSUME NEW r \in Runs, RunPipeline(r)
      PROVE  FeedsBefore(project'[o], at'[o], done'[o])
  <2>1. CASE o = r
    <3>1. Continue(r, r, Blank, {}) /\ project' = project
      BY <1>2 DEF RunPipeline
    <3>2. FeedsBefore(project[r], at'[r], {})
      BY <1>0, <2>1, <3>1, ContinueTakes
    <3> QED
      BY <2>1, <3>1, <3>2 DEF FeedsBefore
  <2>2. CASE o # r
    <3>1. at'[o] = at[o] /\ done' = done /\ project' = project
      BY <1>0, <1>2, <2>2 DEF RunPipeline, Continue, Return, BeginStep, TypeOK
    <3> QED
      BY <1>0, <3>1
  <2> QED
    BY <2>1, <2>2
<1>3. ASSUME NEW r \in Runs, Reject(r) \/ CallReturns(r)
      PROVE  FeedsBefore(project'[o], at'[o], done'[o])
  <2>1. PICK c : Resume(r, c)
    BY <1>3 DEF Reject, CallReturns
  <2>2. project' = project
    BY <1>3 DEF Reject, CallReturns
  <2>3. CASE o = r
    <3>1. Continue(r, runCtx, c, done'[r])
      BY <2>1 DEF Resume
    <3> QED
      BY <1>0, <2>2, <2>3, <3>1, ContinueTakes
  <2>4. CASE o # r
    <3>1. at'[o] = at[o] /\ done'[o] = done[o]
      BY <1>0, <2>1, <2>4 DEF Resume, Continue, Return, BeginStep, TypeOK
    <3> QED
      BY <1>0, <2>2, <3>1
  <2> QED
    BY <2>3, <2>4
<1>4. ASSUME NEW r \in Runs, Approve(r) \/ CallThrows(r)
      PROVE  FeedsBefore(project'[o], at'[o], done'[o])
  <2>1. /\ done' = done /\ project' = project
        /\ at'[o] # NoStep => at'[o] = at[o]
    BY <1>0, <1>4 DEF Approve, CallThrows, TypeOK
  <2> QED
    BY <1>0, <2>1
<1> QED
  BY <1>1, <1>2, <1>3, <1>4 DEF Next, RunStep

(* js/core.js 716-771: in a project with connections and no cycle, a step  *)
(* starts only after all the steps that feed it, in every run, also in one *)
(* beside which others are started.                                        *)
THEOREM SourcesComeFirst == Spec => []SourcesFirst
<1>1. Init => SourcesFirst
  BY DEF Init, SourcesFirst
<1>2. Inv /\ SourcesFirst /\ [Next]_vars => SourcesFirst'
  BY SourcesFirstStep
<1> QED
  BY <1>1, <1>2, Invariant, PTL DEF Spec

-----------------------------------------------------------------------------
(***************************************************************************)
(* HistoryTrue.  What an entry says of its run has to be known while the   *)
(* run is still in progress: Underway, of the run whose context _runCtx    *)
(* refers to.  done never leaves the steps of the project (DoneInProject), *)
(* overlapping runs or not.                                                *)
(***************************************************************************)
DoneInProject ==
    \A r \in Runs : /\ at[r] # NoStep => at[r] \in project[r].steps
                    /\ done[r] \subseteq project[r].steps
                    /\ pc[r] = "idle" => done[r] = {}

Unfinished == {"running", "pending_approval"}
Failures   == {"error", "blocked"}

Underway(r) ==
    /\ runCtx = r /\ ctx[r].status = "running"
    /\ at[r] \in project[r].steps
    /\ \A s \in Steps : ctx[r].steps[s] \in Unfinished => s = at[r]
    /\ project[r].halts => \A s \in Steps : ctx[r].steps[s] \notin Failures

(* What the list says of a run, given the places, the steps done and the   *)
(* runs rejected.                                                          *)
TrueEntry(e, places, dones, rejects) ==
    LET r == e.run
        c == e.ctx
        p == project[r]
    IN  /\ places[r] = "over"
        /\ \A s \in Steps : c.steps[s] \notin Unfinished
        /\ c.status = "rejected" <=> r \in rejects
        /\ c.status = "halted" => p.halts
        /\ c.status = "complete" => /\ dones[r] = p.steps
                                    /\ p.halts => \A s \in p.steps : c.steps[s] \notin Failures

Unique(list) == \A i, j \in DOMAIN list : list[i].run = list[j].run => i = j

ListTrue == /\ Unique(runHistory)
            /\ \A i \in DOMAIN runHistory : TrueEntry(runHistory[i], pc, done, rejected)

TaleInv == ~overlapped => ListTrue /\ \A r \in Runs : Active(r) => Underway(r)

(* The context of r between two steps. *)
Between(r, c, d, rejects) ==
    /\ c \in Contexts /\ c.status \in {"running", "halted", "rejected"}
    /\ c.status = "rejected" <=> r \in rejects
    /\ c.status = "halted" => project[r].halts
    /\ \A s \in Steps : c.steps[s] \notin Unfinished
    /\ c.status = "running" /\ project[r].halts => \A s \in Steps : c.steps[s] \notin Failures
    /\ d \subseteq project[r].steps

(* A run in progress is none of those rejected. *)
LEMMA ActiveNotRejected ==
  ASSUME Inv, NEW r \in Runs, pc[r] # "over" PROVE r \notin rejected
BY DEF Inv, RejectionStops

(* DoneInProject is inductive relative to Inv. *)
LEMMA DoneStep == ASSUME Inv, DoneInProject, [Next]_vars PROVE DoneInProject'
<1> SUFFICES ASSUME NEW o \in Runs
             PROVE  /\ at'[o] # NoStep => at'[o] \in project'[o].steps
                    /\ done'[o] \subseteq project'[o].steps
                    /\ pc'[o] = "idle" => done'[o] = {}
  BY DEF DoneInProject
<1> DEFINE Good == /\ at'[o] # NoStep => at'[o] \in project'[o].steps
                   /\ done'[o] \subseteq project'[o].steps
                   /\ pc'[o] = "idle" => done'[o] = {}
<1>0. /\ TypeOK
      /\ at[o] # NoStep => at[o] \in project[o].steps
      /\ done[o] \subseteq project[o].steps
      /\ pc[o] = "idle" => done[o] = {}
  BY DEF Inv, DoneInProject
<1>1. CASE UNCHANGED vars
  BY <1>0, <1>1 DEF vars, locals
(* The loops take o to its end or to a step of its project. *)
<1>2. ASSUME NEW n, NEW c, NEW d, Continue(o, n, c, d)
      PROVE  pc'[o] # "idle" /\ (at'[o] # NoStep => at'[o] \in project[o].steps)
  BY <1>0, <1>2 DEF Continue, Return, BeginStep, NextSteps, TypeOK
<1>3. ASSUME NEW r \in Runs, NEW n, NEW c, NEW d, Continue(r, n, c, d), o # r
      PROVE  pc'[o] = pc[o] /\ at'[o] = at[o]
  BY <1>0, <1>3 DEF Continue, Return, BeginStep, TypeOK
<1>4. ASSUME NEW r \in Runs, RunPipeline(r) PROVE Good
  BY <1>0, <1>2, <1>3, <1>4 DEF RunPipeline
<1>5. ASSUME NEW r \in Runs, Reject(r) \/ CallReturns(r) PROVE Good
  <2>1. PICK c : Resume(r, c)
    BY <1>5 DEF Reject, CallReturns
  <2>2. project' = project
    BY <1>5 DEF Reject, CallReturns
  <2>3. Active(r)
    BY <1>5, RunsAssumption DEF Reject, CallReturns, Inv, Asked, NoRun, Active
  <2>4. at[r] # NoStep
    BY <2>3, StepsAssumption DEF Inv, AtStep
  <2>5. done' = [done EXCEPT ![r] = @ \cup {at[r]}] /\ Continue(r, runCtx, c, done'[r])
    BY <2>1 DEF Resume
  <2> QED
    BY <1>0, <1>2, <1>3, <2>2, <2>4, <2>5 DEF TypeOK
<1>6. ASSUME NEW r \in Runs, Approve(r) \/ CallThrows(r) PROVE Good
  <2>1. /\ done' = done /\ project' = project
        /\ at'[o] # NoStep => at'[o] = at[o]
        /\ pc'[o] = "idle" => pc[o] = "idle"
    BY <1>0, <1>6 DEF Approve, CallThrows, TypeOK
  <2> QED
    BY <1>0, <2>1
<1> QED
  BY <1>1, <1>4, <1>5, <1>6 DEF Next, RunStep

(* A run that is through, or halted, or rejected is archived as it is. *)
LEMMA ReturnTells ==
  ASSUME TypeOK, NEW r \in Runs, NEW c, NEW e, NEW d, NEW dones, NEW rejects,
         Between(r, c, d, rejects), dones[r] = d, Return(r, r, e),
         \/ e = c /\ c.status # "running"
         \/ /\ e = [c EXCEPT !.status = "complete"] /\ c.status = "running"
            /\ project[r].steps \subseteq d
  PROVE  /\ runHistory' = <<[run |-> r, ctx |-> e]>> \o runHistory
         /\ [run |-> r, ctx |-> e] \in [run: Runs, ctx: Contexts]
         /\ pc'[r] = "over"
         /\ TrueEntry([run |-> r, ctx |-> e], pc', dones, rejects)
<1>1. /\ runHistory' = <<[run |-> r, ctx |-> e]>> \o runHistory
      /\ pc'[r] = "over"
  BY DEF Return, TypeOK
<1>2. e \in Contexts /\ e.steps = c.steps
  BY DEF Between, Contexts, RunStatus
<1>3. project[r].steps \subseteq Steps
  BY ProjectSize DEF ProjectType
<1>4. CASE e = c /\ c.status # "running"
  BY <1>1, <1>2, <1>3, <1>4 DEF Between, TrueEntry
<1>5. CASE /\ e = [c EXCEPT !.status = "complete"] /\ c.status = "running"
           /\ project[r].steps \subseteq d
  <2>1. e.status = "complete"
    BY <1>5 DEF Between, Contexts
  <2> QED
    BY <1>1, <1>2, <1>3, <1>5, <2>1 DEF Between, TrueEntry
<1> QED
  BY <1>4, <1>5

(* A step that begins is the one that is shown as going on. *)
LEMMA BeginTells ==
  ASSUME TypeOK, NEW r \in Runs, NEW c, NEW d, NEW rejects, NEW t \in NextSteps(project[r], d),
         Between(r, c, d, rejects), c.status = "running", BeginStep(r, r, c, t),
         runCtx' = r, project' = project
  PROVE  runHistory' = runHistory /\ Active(r)' /\ Underway(r)'
<1> DEFINE s == IF t \in Gated THEN "pending_approval" ELSE "running"
           e == [c EXCEPT !.steps[t] = s]
<1>1. /\ runHistory' = runHistory /\ at'[r] = t
      /\ pc'[r] \in {"waiting", "calling"}
      /\ ctx'[r] = e
  BY DEF BeginStep, TypeOK
<1>2. t \in project[r].steps /\ t \in Steps
  BY NextAreSteps DEF NextSteps
<1>3. c \in Contexts
  BY DEF Between
<1>4. e.status = "running" /\ \A u \in Steps : e.steps[u] = IF u = t THEN s ELSE c.steps[u]
  BY <1>2, <1>3 DEF Between, Contexts
<1> HIDE DEF e
<1>5. /\ \A u \in Steps : e.steps[u] \in Unfinished => u = t
      /\ project[r].halts => \A u \in Steps : e.steps[u] \notin Failures
  BY <1>4 DEF Between, Unfinished, Failures
<1> QED
  BY <1>1, <1>2, <1>4, <1>5 DEF Active, Underway

(* The loops of r archive what is true of it, or leave it underway. *)
Tells(r) ==
    \/ \E e \in [run: Runs, ctx: Contexts] :
          /\ e.run = r /\ runHistory' = <<e>> \o runHistory
          /\ pc'[r] = "over" /\ TrueEntry(e, pc', done', rejected')
    \/ runHistory' = runHistory /\ Underway(r)'

LEMMA ContinueTells ==
  ASSUME TypeOK, NEW r \in Runs, NEW c, NEW d, Between(r, c, d, rejected'), done'[r] = d,
         Continue(r, r, c, d), runCtx' = r, project' = project
  PROVE  Tells(r)
<1> DEFINE Archived(e) ==
             /\ runHistory' = <<[run |-> r, ctx |-> e]>> \o runHistory
             /\ [run |-> r, ctx |-> e] \in [run: Runs, ctx: Contexts]
             /\ pc'[r] = "over"
             /\ TrueEntry([run |-> r, ctx |-> e], pc', done', rejected')
<1>0. ASSUME NEW e, Archived(e) PROVE Tells(r)
  <2> DEFINE entry == [run |-> r, ctx |-> e]
  <2>1. entry.run = r
    OBVIOUS
  <2> HIDE DEF entry
  <2> QED
    BY <1>0, <2>1 DEF Tells, entry
<1>1. CASE c.status # "running"
  <2>1. Return(r, r, c)
    BY <1>1 DEF Continue, Between
  <2>2. Archived(c)
    BY <1>1, <2>1, ReturnTells
  <2> QED
    BY <1>0, <2>2
<1>2. CASE c.status = "running"
  <2>1. CASE \E t \in NextSteps(project[r], d) : BeginStep(r, r, c, t)
    BY <1>2, <2>1, BeginTells DEF Tells
  <2>2. CASE ~ \E t \in NextSteps(project[r], d) : BeginStep(r, r, c, t)
    <3> DEFINE e == [c EXCEPT !.status = "complete"]
    <3>1. NextSteps(project[r], d) = {} /\ Return(r, r, e)
      BY <1>2, <2>2 DEF Continue
    <3>2. project[r].steps \subseteq d
      BY <3>1, ProjectSize, NoneNext
    <3>3. Archived(e)
      BY <1>2, <3>1, <3>2, ReturnTells
    <3> QED
      BY <1>0, <3>3
  <2> QED
    BY <2>1, <2>2
<1> QED
  BY <1>1, <1>2

(* A member of a list of records is one. *)
LEMMA Entries ==
  ASSUME NEW R, NEW list \in Seq(R) PROVE \A i \in DOMAIN list : list[i] \in R
  OBVIOUS

(* A record put in front of the list. *)
LEMMA InFront ==
  ASSUME NEW R, NEW e \in R, NEW list \in Seq(R)
  PROVE  LET longer == <<e>> \o list IN
         /\ longer[1] = e
         /\ \A i \in DOMAIN longer : i = 1 \/ (i - 1 \in DOMAIN list /\ longer[i] = list[i - 1])
         /\ DOMAIN longer \subseteq Nat
  OBVIOUS

(* So the list stays true if that record is and its run was not on it. *)
LEMMA ListGrows ==
  ASSUME TypeOK, ListTrue, NEW r \in Runs, pc[r] # "over", Tells(r), project' = project,
         \A o \in Runs : o # r => /\ pc'[o] = pc[o] /\ done'[o] = done[o]
                                  /\ o \in rejected' <=> o \in rejected
  PROVE  ListTrue'
<1> DEFINE R == [run: Runs, ctx: Contexts]
<1>0. runHistory \in Seq(R)
  BY DEF TypeOK
<1>1. ASSUME NEW i \in DOMAIN runHistory
      PROVE  /\ runHistory[i] \in R /\ runHistory[i].run \in Runs \ {r}
             /\ TrueEntry(runHistory[i], pc', done', rejected')
  <2>1. runHistory[i] \in R
    BY <1>0, Entries
  <2>2. TrueEntry(runHistory[i], pc, done, rejected)
    BY DEF ListTrue
  <2>3. runHistory[i].run \in Runs \ {r}
    BY <2>1, <2>2 DEF TrueEntry
  <2> QED
    BY <2>1, <2>2, <2>3 DEF TrueEntry
<1>2. CASE runHistory' = runHistory
  <2>1. \A i \in DOMAIN runHistory : TrueEntry(runHistory'[i], pc', done', rejected')
    BY <1>1, <1>2
  <2> QED
    BY <1>2, <2>1 DEF ListTrue, TrueEntry
<1>3. CASE runHistory' # runHistory
  <2>1. PICK e \in R : /\ e.run = r /\ runHistory' = <<e>> \o runHistory
                       /\ TrueEntry(e, pc', done', rejected')
    BY <1>3 DEF Tells
  <2> HIDE DEF R
  <2>2. /\ runHistory'[1] = e
        /\ \A i \in DOMAIN runHistory' :
              i = 1 \/ (i - 1 \in DOMAIN runHistory /\ runHistory'[i] = runHistory[i - 1])
        /\ DOMAIN runHistory' \subseteq Nat
    BY <1>0, <2>1, InFront
  <2>3. ASSUME NEW i \in DOMAIN runHistory'
        PROVE  TrueEntry(runHistory'[i], pc', done', rejected')
    BY <1>1, <2>1, <2>2
  <2>4. ASSUME NEW i \in DOMAIN runHistory', NEW j \in DOMAIN runHistory',
               runHistory'[i].run = runHistory'[j].run
        PROVE  i = j
    <3>1. i \in Nat /\ j \in Nat
      BY <2>2
    <3>2. CASE i = 1 \/ j = 1
      BY <1>1, <2>1, <2>2, <2>4, <3>2
    <3>3. CASE i # 1 /\ j # 1
      <4>1. i - 1 = j - 1
        BY <2>2, <2>4, <3>3 DEF ListTrue, Unique
      <4> QED
        BY <3>1, <4>1
    <3> QED
      BY <3>2, <3>3
  <2>5. (\A i \in DOMAIN runHistory : TrueEntry(runHistory[i], pc, done, rejected))'
    BY <2>3 DEF TrueEntry
  <2>6. Unique(runHistory)'
    BY <2>4 DEF Unique
  <2> QED
    BY <2>5, <2>6 DEF ListTrue
<1> QED
  BY <1>2, <1>3

(* What a context with both marks is, whichever is made first. *)
LEMMA MarkedContext ==
  ASSUME NEW x \in Contexts, NEW t \in Steps, NEW s \in StepStatus, NEW u \in RunStatus
  PROVE  LET e == [status |-> u, steps |-> [x.steps EXCEPT ![t] = s]] IN
         /\ [x EXCEPT !.status = u, !.steps[t] = s] = e
         /\ [x EXCEPT !.steps[t] = s, !.status = u] = e
<1> DEFINE e == [status |-> u, steps |-> [x.steps EXCEPT ![t] = s]]
           y == [x EXCEPT !.status = u, !.steps[t] = s]
           z == [x EXCEPT !.steps[t] = s, !.status = u]
<1>1. x.steps \in [Steps -> StepStatus]
  BY DEF Contexts
<1>2. e \in Contexts
  BY <1>1 DEF Contexts
<1>3. y \in Contexts /\ z \in Contexts
  BY MarkBoth
<1>4. /\ y.status = e.status /\ y.steps = e.steps
      /\ z.status = e.status /\ z.steps = e.steps
  BY DEF Contexts
<1>5. \A v, w \in Contexts : v.status = w.status /\ v.steps = w.steps => v = w
  BY DEF Contexts
<1> HIDE DEF e, y, z
<1>6. y = e /\ z = e
  BY <1>2, <1>3, <1>4, <1>5
<1> QED
  BY <1>6 DEF e, y, z

(* Every step keeps TaleInv: the run that moves is the only one there is.  *)
LEMMA TaleStep ==
  ASSUME Inv, Alone, DoneInProject, TaleInv, [Next]_vars PROVE TaleInv'
<1> SUFFICES ASSUME ~overlapped'
             PROVE  ListTrue' /\ \A r \in Runs : Active(r)' => Underway(r)'
  BY DEF TaleInv
<1> DEFINE Good == ListTrue' /\ \A r \in Runs : Active(r)' => Underway(r)'
<1>0. TypeOK
  BY DEF Inv
<1>1. ~overlapped
  BY DEF Next, RunStep, RunPipeline, Approve, Reject, CallReturns, CallThrows, history, vars
<1>2. /\ ListTrue
      /\ \A r \in Runs : Active(r) => Underway(r)
      /\ \A q, r \in Runs : Active(q) /\ Active(r) => q = r
  BY <1>1 DEF TaleInv, Alone
<1>3. CASE UNCHANGED vars
  BY <1>2, <1>3 DEF vars, globals, locals, history, ListTrue, TrueEntry, Unique, Active, Underway
(* The loops of r go on, with no other run in progress. *)
<1>4. ASSUME NEW r \in Runs, NEW c, NEW d, Between(r, c, d, rejected'), done'[r] = d,
             Continue(r, r, c, d), runCtx' = r, project' = project, pc[r] # "over",
             \A o \in Runs : o # r => /\ ~Active(o) /\ done'[o] = done[o]
                                      /\ o \in rejected' <=> o \in rejected
      PROVE  Good
  <2>1. Tells(r)
    BY <1>0, <1>4, ContinueTells
  <2>2. \A o \in Runs : o # r => pc'[o] = pc[o]
    BY <1>0, <1>4 DEF Continue, Return, BeginStep, TypeOK
  <2>3. ListTrue'
    BY <1>0, <1>2, <1>4, <2>1, <2>2, ListGrows
  <2>4. ASSUME NEW o \in Runs, Active(o)' PROVE Underway(o)'
    <3>1. o = r
      BY <1>4, <2>2, <2>4 DEF Active
    <3>2. pc'[r] # "over"
      BY <2>4, <3>1 DEF Active
    <3> QED
      BY <2>1, <3>1, <3>2 DEF Tells
  <2> QED
    BY <2>3, <2>4
<1>5. ASSUME NEW r \in Runs, RunPipeline(r) PROVE Good
  <2>1. \A o \in Runs : ~Active(o)
    BY <1>5 DEF RunPipeline, Active
  <2>2. done'[r] = {} /\ pc[r] # "over"
    BY <1>5 DEF RunPipeline, DoneInProject
  <2>3. r \notin rejected
    BY <2>2, ActiveNotRejected
  <2>4. Between(r, Blank, {}, rejected')
    BY <1>5, <2>3 DEF RunPipeline, Between, Blank, Contexts, RunStatus, StepStatus,
                      Unfinished, Failures
  <2> QED
    BY <1>4, <1>5, <2>1, <2>2, <2>4 DEF RunPipeline
(* The run that is answered is underway. *)
<1>6. ASSUME NEW r \in Runs, Approve(r) \/ Reject(r) \/ CallReturns(r) \/ CallThrows(r)
      PROVE  /\ Active(r) /\ pc[r] # "over" /\ r \notin rejected
             /\ Underway(r) /\ at[r] \in Steps
             /\ \A o \in Runs : o # r => ~Active(o)
  <2>1. Active(r)
    BY <1>6, RunsAssumption DEF Approve, Reject, CallReturns, CallThrows, Inv, Asked, NoRun, Active
  <2>2. at[r] \in Steps
    BY <2>1 DEF Inv, AtStep
  <2>3. pc[r] # "over"
    BY <2>1 DEF Active
  <2> QED
    BY <1>2, <2>1, <2>2, <2>3, ActiveNotRejected
(* What is marked when a step ends leaves its context between two steps. *)
<1>7. ASSUME NEW r \in Runs, Underway(r), at[r] \in Steps, ctx[r] \in Contexts,
             NEW s \in StepStatus \ Unfinished, NEW u \in {"running", "halted", "rejected"},
             NEW rejects, u = "rejected" <=> r \in rejects,
             u = "halted" => project[r].halts,
             u = "running" /\ project[r].halts => s \notin Failures,
             NEW d, d \subseteq project[r].steps,
             NEW c, c = [status |-> u, steps |-> [ctx[r].steps EXCEPT ![at[r]] = s]]
      PROVE  Between(r, c, d, rejects)
  <2>1. ctx[r].steps \in [Steps -> StepStatus]
    BY <1>7 DEF Contexts
  <2>2. c.status = u /\ c.steps = [ctx[r].steps EXCEPT ![at[r]] = s]
    BY <1>7
  <2>3. c \in Contexts
    BY <1>7, <2>1 DEF Contexts, RunStatus
  <2>4. \A t \in Steps : c.steps[t] = IF t = at[r] THEN s ELSE ctx[r].steps[t]
    BY <1>7, <2>1, <2>2
  <2>5. \A t \in Steps : c.steps[t] \notin Unfinished
    BY <1>7, <2>4 DEF Underway
  <2>6. u = "running" /\ project[r].halts => \A t \in Steps : c.steps[t] \notin Failures
    BY <1>7, <2>4 DEF Underway
  <2> QED
    BY <1>7, <2>2, <2>3, <2>5, <2>6 DEF Between
<1>8. ASSUME NEW r \in Runs, NEW c, NEW d, Resume(r, c), d = done'[r],
             UNCHANGED <<runCtx, project>>, Between(r, c, d, rejected'),
             Underway(r), pc[r] # "over", \A o \in Runs : o # r => ~Active(o),
             \A o \in Runs : o # r => (o \in rejected' <=> o \in rejected)
      PROVE  Good
  <2>1. runCtx = r
    BY <1>8 DEF Underway
  <2>2. Continue(r, r, c, d)
    BY <1>8, <2>1 DEF Resume
  <2>3. \A o \in Runs : o # r => done'[o] = done[o]
    BY <1>0, <1>8 DEF Resume, TypeOK
  <2> QED
    BY <1>4, <1>8, <2>1, <2>2, <2>3
<1>9. ASSUME NEW r \in Runs, Reject(r) \/ CallReturns(r),
             Underway(r), at[r] \in Steps
      PROVE  /\ ctx[r] \in Contexts
             /\ ctx[r].steps \in [Steps -> StepStatus]
             /\ ctx[r] = [status |-> ctx[r].status, steps |-> ctx[r].steps]
             /\ done'[r] \subseteq project[r].steps
  <2>1. ctx[r] \in Contexts
    BY <1>0 DEF TypeOK
  <2>2. PICK c : Resume(r, c)
    BY <1>9 DEF Reject, CallReturns
  <2>3. done'[r] = done[r] \cup {at[r]}
    BY <1>0, <2>2 DEF Resume, TypeOK
  <2>4. done'[r] \subseteq project[r].steps
    BY <1>9, <2>3 DEF DoneInProject, Underway
  <2> QED
    BY <2>1, <2>4 DEF Contexts
<1>10. ASSUME NEW r \in Runs, Reject(r) PROVE Good
  <2> DEFINE c == [ctx[runCtx] EXCEPT !.status = "rejected", !.steps[at[r]] = "rejected"]
             e == [status |-> "rejected", steps |-> [ctx[r].steps EXCEPT ![at[r]] = "rejected"]]
  <2>1. /\ Underway(r) /\ at[r] \in Steps /\ pc[r] # "over"
        /\ \A o \in Runs : o # r => ~Active(o)
    BY <1>6, <1>10
  <2>2. /\ ctx[r] \in Contexts /\ ctx[r].steps \in [Steps -> StepStatus]
        /\ ctx[r] = [status |-> ctx[r].status, steps |-> ctx[r].steps]
        /\ done'[r] \subseteq project[r].steps
    BY <1>9, <1>10, <2>1
  <2>3. runCtx = r
    BY <2>1 DEF Underway
  <2>4. c = e
    <3>1. "rejected" \in StepStatus /\ "rejected" \in RunStatus
      BY DEF StepStatus, RunStatus
    <3>2. c = [ctx[r] EXCEPT !.status = "rejected", !.steps[at[r]] = "rejected"]
      BY <2>3
    <3> HIDE DEF c
    <3> QED
      BY <2>1, <2>2, <3>1, <3>2, MarkedContext
  <2>5. rejected' = rejected \cup {r} /\ Resume(r, c) /\ UNCHANGED <<runCtx, project>>
    BY <1>10 DEF Reject
  <2> HIDE DEF c, e
  <2>6. Between(r, e, done'[r], rejected')
    BY <1>7, <2>1, <2>2, <2>5 DEF e, StepStatus, Unfinished
  <2> QED
    BY <1>8, <2>1, <2>4, <2>5, <2>6
<1>11. ASSUME NEW r \in Runs, CallReturns(r) PROVE Good
  <2>1. /\ Underway(r) /\ at[r] \in Steps /\ pc[r] # "over" /\ r \notin rejected
        /\ \A o \in Runs : o # r => ~Active(o)
    BY <1>6, <1>11
  <2>2. /\ ctx[r] \in Contexts /\ ctx[r].steps \in [Steps -> StepStatus]
        /\ ctx[r] = [status |-> ctx[r].status, steps |-> ctx[r].steps]
        /\ done'[r] \subseteq project[r].steps
    BY <1>9, <1>11, <2>1
  <2>3. runCtx = r /\ ctx[r].status = "running"
    BY <2>1 DEF Underway
  <2>4. PICK outcome \in Outcomes(at[r]) :
          Resume(r, [ctx[runCtx] EXCEPT
                       !.steps[at[r]] = outcome,
                       !.status = IF Halts(r, outcome) THEN "halted" ELSE @])
    BY <1>11 DEF CallReturns
  <2> DEFINE u == IF Halts(r, outcome) THEN "halted" ELSE "running"
             c == [ctx[runCtx] EXCEPT !.steps[at[r]] = outcome,
                                      !.status = IF Halts(r, outcome) THEN "halted" ELSE @]
             e == [status |-> u, steps |-> [ctx[r].steps EXCEPT ![at[r]] = outcome]]
  <2>5. c = e
    <3>1. c = [ctx[r] EXCEPT !.steps[at[r]] = outcome, !.status = u]
      BY <2>2, <2>3
    <3>2. outcome \in StepStatus /\ u \in RunStatus
      BY <2>4 DEF Outcomes, StepStatus, RunStatus
    <3> HIDE DEF c, u
    <3> QED
      BY <2>1, <2>2, <3>1, <3>2, MarkedContext
  <2>6. rejected' = rejected /\ Resume(r, c) /\ UNCHANGED <<runCtx, project>>
    BY <1>11, <2>4 DEF CallReturns, history
  <2>7. outcome \in StepStatus \ Unfinished
    BY <2>4 DEF Outcomes, StepStatus, Unfinished
  <2>8. /\ u \in {"running", "halted", "rejected"} /\ u # "rejected"
        /\ u = "halted" => project[r].halts
        /\ u = "running" /\ project[r].halts => outcome \notin Failures
    BY DEF Halts, Failures
  <2> HIDE DEF c, e, u
  <2>9. Between(r, e, done'[r], rejected')
    BY <1>7, <2>1, <2>2, <2>6, <2>7, <2>8 DEF e
  <2> QED
    BY <1>8, <2>1, <2>5, <2>6, <2>9
<1>12. ASSUME NEW r \in Runs, Approve(r) \/ CallThrows(r) PROVE Good
  <2>1. /\ Active(r) /\ Underway(r) /\ pc[r] # "over"
        /\ \A o \in Runs : o # r => ~Active(o)
    BY <1>6, <1>12
  <2>2. /\ UNCHANGED <<ctx, runCtx, runHistory, done, project, rejected>>
        /\ \A o \in Runs : o # r => pc'[o] = pc[o]
        /\ pc'[r] = "over" \/ at'[r] = at[r]
    BY <1>0, <1>12 DEF Approve, CallThrows, globals, history, TypeOK
  <2>3. \A i \in DOMAIN runHistory : runHistory[i].run \in Runs \ {r}
    <3>1. \A i \in DOMAIN runHistory : runHistory[i] \in [run: Runs, ctx: Contexts]
      BY <1>0, Entries DEF TypeOK
    <3> QED
      BY <1>2, <2>1, <3>1 DEF ListTrue, TrueEntry
  <2>4. ListTrue'
    BY <1>2, <2>2, <2>3 DEF ListTrue, TrueEntry
  <2>5. \A o \in Runs : Active(o)' => Underway(o)'
    BY <2>1, <2>2 DEF Active, Underway
  <2> QED
    BY <2>4, <2>5
<1> QED
  BY <1>3, <1>5, <1>10, <1>11, <1>12 DEF Next, RunStep

(* js/core.js 355-358 and 764-778: as long as no run is started beside     *)
(* another, the list has each run once, with what became of it.            *)
THEOREM HistoryIsTrue == Spec => []HistoryTrue
<1>1. Init => Alone /\ DoneInProject /\ TaleInv
  BY DEF Init, Alone, Active, DoneInProject, TaleInv, ListTrue, Unique
<1>2. Inv /\ Alone /\ [Next]_vars => Alone'
  BY StepKeepsAlone DEF Next, vars, globals, locals, history, Alone, Active
<1>3. TaleInv => HistoryTrue
  BY DEF TaleInv, ListTrue, Unique, TrueEntry, HistoryTrue, Unfinished, Failures
<1> QED
  BY <1>1, <1>2, <1>3, DoneStep, TaleStep, Invariant, PTL DEF Spec

=============================================================================
