-------------------------- MODULE MCPipelineRuns --------------------------
(* Model values for TLC: two runs of a project with an executor step, a  *)
(* step that names nothing, and a runtime; a history of one.               *)
EXTENDS PipelineRuns, TLC

ThreeSteps == <<"executor", "neither", "runtime">>

RunSymmetry == Permutations(Runs)
=============================================================================
