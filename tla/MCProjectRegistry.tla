------------------------- MODULE MCProjectRegistry -------------------------
(***************************************************************************)
(* Model values for TLC: three agents, two of them in the given project;   *)
(* PATCHes that name a registered agent, or two with one that may not be;  *)
(* plans of at most two edges of any kind, or of three between agents,     *)
(* cycles of all lengths among them.                                       *)
(***************************************************************************)
EXTENDS ProjectRegistry, TLC

TwoGiven == {"a1", "a2"}
TwoEdits == {{"a2"}, {"a1", "a3"}}

SmallPlans == {p \in SUBSET (Ids \X Ids) :
                 \/ Cardinality(p) <= 2
                 \/ Cardinality(p) = 3 /\ NoSelfLoop(p)}
=============================================================================
