------------------------- MODULE MCBrowserPipeline -------------------------
(* Model values for TLC: the CEO (gated), two analysts, one executor.      *)
EXTENDS BrowserPipeline, TLC

FourSteps == 1 .. 4
CeoGate   == {1}
Analysts  == 1 .. 3
TwoRuns   == 1 .. 2
OneRun    == {1}

NoEdges == [s \in FourSteps |-> {}]

(* execution_order as in the template: analysts, CEO, execution. *)
Listed == <<3, 1, 2, 4>>

(* The template: no pipeline_order (999 for an agent, 0 for an executor),  *)
(* no connections.                                                         *)
Template == [steps |-> FourSteps, order |-> <<999, 999, 999, 0>>,
             outputs |-> NoEdges, halts |-> TRUE, listed |-> Listed]

(* A manifest that ranks its executor step after the agents' 999. *)
Ranked == [Template EXCEPT !.order = <<999, 999, 999, 1000>>, !.halts = FALSE]

(* Analyst 2 feeds analyst 3 and the CEO, who waits for both and feeds the *)
(* executor.                                                               *)
Graph == [Template EXCEPT
            !.outputs = (1 :> {4}) @@ (2 :> {1, 3}) @@ (3 :> {1}) @@ (4 :> {})]

(* Two analysts that feed each other. *)
Cycle == [Template EXCEPT
            !.outputs = (1 :> {}) @@ (2 :> {3}) @@ (3 :> {1, 2}) @@ (4 :> {}),
            !.halts = FALSE]

Empty == [Template EXCEPT !.steps = {}]

AllProjects == {Template, Ranked, Graph, Cycle, Empty}
OneProject  == {Template}
=============================================================================
