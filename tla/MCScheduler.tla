---------------------------- MODULE MCScheduler ----------------------------
(* Model values for TLC.  The UI posts enabled schedules and no PATCH.     *)
EXTENDS Scheduler, TLC

OneSched  == {1}
TwoScheds == {1, 2}

AnyBody  == Bodies
UiBody   == {b \in Bodies : b.enabled}
NoBody   == {}

ThreadSymmetry == Permutations(Requests) \cup Permutations(Fires)
=============================================================================
