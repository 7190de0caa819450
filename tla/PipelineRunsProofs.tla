------------------------- MODULE PipelineRunsProofs -------------------------
(***************************************************************************)
(* Theorems about PipelineRuns, for every project, every set of runs,      *)
(* every length of the history and any number of resets and crashes.       *)
(*                                                                         *)
(* That a failure stops its run rests on the run's own loop alone          *)
(* (StopInv).  That the history tells the truth rests on there being one   *)
(* run at a time (Alone), which then finds its own dictionary behind the   *)
(* global (Mine), with the counts its executors' answers add up to.        *)
(***************************************************************************)
EXTENDS PipelineRuns, SequenceTheorems, FiniteSetTheorems, TLAPS

(* A run that works on a step is at one, and the file holds no more runs   *)
(* than the history may.                                                   *)
AtStep  == \A r \in Runs : pc[r] \in {"call", "record", "count"} => at[r] \in Steps
Sizes   == Len(file.runs) <= MaxHistory
TypeInv == TypeOK /\ AtStep /\ Sizes

LEMMA StepsAre == Len(Kinds) \in Nat /\ Steps = 1 .. Len(Kinds)
  BY KindsAssumption DEF Steps

(* What is put before a history, and what is kept of it. *)
LEMMA PutAndKept ==
  ASSUME NEW e \in Entries, NEW h \in Seq(Entries), Len(h) <= MaxHistory,
         NEW g, g = Kept(<<e>> \o h)
  PROVE  /\ g \in Seq(Entries)
         /\ Len(g) = IF Len(h) < MaxHistory THEN Len(h) + 1 ELSE MaxHistory
         /\ g[1] = e
         /\ \A i \in 2 .. Len(g) : g[i] = h[i - 1]
<1> DEFINE all == <<e>> \o h
<1>1. <<e>> \in Seq(Entries) /\ Len(<<e>>) = 1 /\ <<e>>[1] = e /\ Len(h) \in Nat
  OBVIOUS
<1>2. /\ all \in Seq(Entries) /\ Len(all) = Len(h) + 1
      /\ \A i \in 1 .. Len(all) : all[i] = IF i <= 1 THEN e ELSE h[i - 1]
  BY <1>1, ConcatProperties
<1>3. MaxHistory \in Nat \ {0}
  BY BoundsAssumption
<1>kept. g = IF Len(all) > MaxHistory THEN SubSeq(all, 1, MaxHistory) ELSE all
  BY DEF Kept
<1> HIDE DEF all
<1>4. CASE Len(all) <= MaxHistory
  <2>1. g = all
    BY <1>kept, <1>1, <1>2, <1>3, <1>4
  <2>2. Len(h) \in Nat /\ Len(all) = Len(h) + 1 /\ all \in Seq(Entries)
    BY <1>1, <1>2
  <2>3. Len(g) = IF Len(h) < MaxHistory THEN Len(h) + 1 ELSE MaxHistory
    BY <1>3, <1>4, <2>1, <2>2
  <2>4. \A i \in 1 .. Len(g) : g[i] = IF i <= 1 THEN e ELSE h[i - 1]
    BY <1>2, <2>1
  <2>5. g[1] = e
    BY <2>2, <2>3, <2>4, <1>3
  <2>6. \A i \in 2 .. Len(g) : g[i] = h[i - 1]
    BY <2>2, <2>3, <2>4, <1>3
  <2> QED
    BY <2>1, <2>2, <2>3, <2>5, <2>6
<1>5. CASE Len(all) > MaxHistory
  <2>1. g = SubSeq(all, 1, MaxHistory)
    BY <1>kept, <1>5
  <2>2. \A i \in 1 .. MaxHistory : all[i] \in Entries
    BY <1>2, <1>3, <1>5, <1>1, ElementOfSeq
  <2>3. /\ g \in Seq(Entries) /\ Len(g) = MaxHistory
        /\ \A i \in 1 .. MaxHistory : g[i] = all[i]
    BY <1>3, <2>1, <2>2, SubSeqProperties
  <2> QED
    BY <1>1, <1>2, <1>3, <1>5, <2>3
<1> QED
  BY <1>1, <1>2, <1>3, <1>4, <1>5

LEMMA EntryType == ASSUME TypeOK, NEW d \in Dicts PROVE Entry(d) \in Entries
  BY DEF TypeOK, Entry, Entries

LEMMA StateType == TypeOK => state \in Dicts
  BY DEF TypeOK

LEMMA TypeInit == Init => TypeInv
<1> SUFFICES ASSUME Init PROVE TypeInv
  OBVIOUS
<1>1. 1 \in Within /\ NoResults \in [Steps -> Results] /\ Blank \in Dicts
  BY StepsAre DEF Within, NoResults, Results, Dicts
<1>2. <<>> \in Seq(Entries) /\ Len(<<>>) = 0
  OBVIOUS
<1>3. /\ status \in [Dicts -> Statuses] /\ completed \in [Dicts -> Nat]
      /\ failed \in [Dicts -> Nat] /\ results \in [Dicts -> [Steps -> Results]]
      /\ state \in Dicts
  BY <1>1 DEF Init, Statuses
<1>4. /\ pc \in [Runs -> Pcs] /\ at \in [Runs -> Within] /\ stops \in [Runs -> BOOLEAN]
      /\ done \in [Runs -> [Steps -> Results]]
  BY <1>1 DEF Init, Pcs, Ended
<1>5. /\ history \in Seq(Entries) /\ Len(history) <= MaxHistory
      /\ file.parses \in BOOLEAN /\ file.runs \in Seq(Entries) /\ Sizes
  BY <1>2, BoundsAssumption DEF Init, Sizes
<1> QED
  BY <1>3, <1>4, <1>5 DEF Init, TypeInv, TypeOK, AtStep

(* Every step keeps the type invariant. *)
LEMMA TypeStep == TypeInv /\ [Next]_vars => TypeInv'
<1> SUFFICES ASSUME TypeInv, [Next]_vars PROVE TypeInv'
  OBVIOUS
<1> USE DEF TypeInv, TypeOK, AtStep, Sizes
<1>1. ASSUME NEW r \in Runs, Start(r) PROVE TypeInv'
  BY <1>1 DEF Start, Dicts, Statuses, Pcs, Ended, fileVars
<1>2. ASSUME NEW r \in Runs, NextStep(r) PROVE TypeInv'
  <2>1. at' \in [Runs -> Within]
    <3>1. CASE at[r] \in Steps
      <4>1. at[r] + 1 \in Within
        BY <3>1, StepsAre DEF Within
      <4>2. at' = at \/ at' = [at EXCEPT ![r] = at[r] + 1]
        BY <1>2 DEF NextStep
      <4> QED
        BY <4>1, <4>2
    <3>2. CASE at[r] \notin Steps
      BY <1>2, <3>2 DEF NextStep
    <3> QED
      BY <3>1, <3>2
  <2>2. pc' \in [Runs -> Pcs]
    BY <1>2 DEF NextStep, Pcs
  <2>3. AtStep'
    BY <1>2 DEF NextStep
  <2> QED
    BY <1>2, <2>1, <2>2, <2>3 DEF NextStep, dictVars, fileVars, histVars
<1>3. ASSUME NEW r \in Runs, Call(r) PROVE TypeInv'
  <2>1. done' \in [Runs -> [Steps -> Results]]
    BY <1>3 DEF Call, Results
  <2> QED
    BY <1>3, <2>1 DEF Call, Pcs, dictVars, fileVars, histVars
<1>4. ASSUME NEW r \in Runs, RecordResult(r) PROVE TypeInv'
  <2>1. results' \in [Dicts -> [Steps -> Results]]
    <3>1. at[r] \in Steps /\ done[r][at[r]] \in Results
      BY <1>4 DEF RecordResult
    <3> DEFINE one == [results[state] EXCEPT ![at[r]] = done[r][at[r]]]
    <3>2. results' = results \/ results' = [results EXCEPT ![state] = one]
      BY <1>4 DEF RecordResult
    <3>3. one \in [Steps -> Results]
      BY <3>1
    <3> QED
      BY <3>2, <3>3
  <2> QED
    BY <1>4, <2>1 DEF RecordResult, Pcs, Ended, fileVars, histVars
<1>5. ASSUME NEW r \in Runs, Count(r) PROVE TypeInv'
  <2>1. at[r] \in Steps /\ at[r] + 1 \in Within
    BY <1>5, StepsAre DEF Count, Within
  <2>2. at' \in [Runs -> Within] /\ pc' \in [Runs -> Pcs]
    BY <1>5, <2>1 DEF Count, Pcs, Ended
  <2>3. completed' \in [Dicts -> Nat] /\ failed' \in [Dicts -> Nat]
    <3>1. completed[state] + 1 \in Nat /\ failed[state] + 1 \in Nat
      OBVIOUS
    <3>2. completed' = completed \/ completed' = [completed EXCEPT ![state] = completed[state] + 1]
      BY <1>5 DEF Count
    <3>3. failed' = failed \/ failed' = [failed EXCEPT ![state] = failed[state] + 1]
      BY <1>5 DEF Count
    <3> QED
      BY <3>1, <3>2, <3>3
  <2>4. AtStep'
    BY <1>5 DEF Count
  <2> QED
    BY <1>5, <2>2, <2>3, <2>4 DEF Count, fileVars, histVars
<1>6. ASSUME NEW r \in Runs, Finish(r) PROVE TypeInv'
  BY <1>6 DEF Finish, Statuses, Pcs, fileVars, histVars
<1>7. ASSUME NEW r \in Runs, SaveRun(r) PROVE TypeInv'
  <2>1. history' \in Seq(Entries) /\ Len(history') <= MaxHistory
    BY <1>7, PutAndKept, EntryType, StateType, BoundsAssumption DEF SaveRun
  <2> QED
    BY <1>7, <2>1 DEF SaveRun, Pcs, dictVars, histVars
<1>8. ASSUME NEW r \in Runs, OpenFile(r) PROVE TypeInv'
  <2>1. pc' \in [Runs -> Pcs] /\ behind' \in BOOLEAN
    BY <1>8 DEF OpenFile, Pcs, Ended
  <2>2. /\ file'.parses \in BOOLEAN /\ file'.runs \in Seq(Entries)
        /\ Len(file'.runs) <= MaxHistory
    <3>1. <<>> \in Seq(Entries) /\ Len(<<>>) <= MaxHistory
      BY BoundsAssumption
    <3>2. CASE file' = Cut
      BY <3>1, <3>2 DEF Cut
    <3>3. CASE file' = file
      BY <3>3
    <3> QED
      BY <1>8, <3>2, <3>3 DEF OpenFile
  <2>3. AtStep'
    BY <1>8 DEF OpenFile
  <2> QED
    BY <1>8, <2>1, <2>2, <2>3 DEF OpenFile, dictVars, histVars
<1>9. ASSUME NEW r \in Runs, WriteFile(r) PROVE TypeInv'
  <2>1. pc' \in [Runs -> Pcs]
    BY <1>9 DEF WriteFile, Pcs, Ended
  <2>2. /\ file'.parses \in BOOLEAN /\ file'.runs \in Seq(Entries)
        /\ Len(file'.runs) <= MaxHistory
    <3>1. CASE file' = [parses |-> TRUE, runs |-> history]
      BY <3>1
    <3>2. CASE file' = Cut
      <4>1. <<>> \in Seq(Entries) /\ Len(<<>>) <= MaxHistory
        BY BoundsAssumption
      <4> QED
        BY <3>2, <4>1 DEF Cut
    <3> QED
      BY <1>9, <3>1, <3>2 DEF WriteFile
  <2>3. AtStep'
    BY <1>9 DEF WriteFile
  <2> QED
    BY <1>9, <2>1, <2>2, <2>3 DEF WriteFile, dictVars, histVars
<1>10. CASE Reset
  BY <1>10 DEF Reset, Dicts, Statuses, runVars, fileVars
<1>11. CASE Crash
  <2>1. history' \in Seq(Entries) /\ Len(history') <= MaxHistory /\ behind' \in BOOLEAN
    <3>1. <<>> \in Seq(Entries) /\ Len(<<>>) <= MaxHistory
      BY BoundsAssumption
    <3> QED
      BY <1>11, <3>1 DEF Crash
  <2> QED
    BY <1>11, <2>1 DEF Crash, Dicts, Statuses, Pcs, Ended, Active
<1>12. CASE UNCHANGED vars
  BY <1>12 DEF vars, dictVars, runVars, fileVars, histVars
<1> QED
  BY <1>1, <1>2, <1>3, <1>4, <1>5, <1>6, <1>7, <1>8, <1>9, <1>10, <1>11, <1>12
     DEF Next, RunStep

(***************************************************************************)
(* Type correctness of PipelineRuns; the history never exceeds its bound.  *)
(***************************************************************************)
THEOREM TypeCorrect == Spec => []TypeOK
<1>1. TypeInv => TypeOK
  BY DEF TypeInv
<1> QED
  BY <1>1, TypeInit, TypeStep, PTL DEF Spec

-----------------------------------------------------------------------------
(* The loop of a run: nothing is answered ahead of it, what is behind it   *)
(* did not fail if the run is to stop, and a run not begun has nothing.    *)
Ahead    == \A r \in Runs, k \in Steps :
                \/ k > at[r]
                \/ k = at[r] /\ pc[r] \in {"unborn", "next", "call"}
                => done[r][k] = "none"
Behind   == \A r \in Runs, k \in Steps :
                stops[r] /\ k < at[r] => done[r][k] # "failed"
Fresh    == \A r \in Runs : pc[r] = "unborn" => done[r] = NoResults
Obtained == \A r \in Runs :
                pc[r] \in {"record", "count"} => done[r][at[r]] \in {"ok", "failed"}
StopInv  == Ahead /\ Behind /\ Fresh /\ Obtained

LEMMA StopInit == Init => StopInv
  BY DEF Init, StopInv, Ahead, Behind, Fresh, Obtained, NoResults

LEMMA PlaceType == TypeInv => \A r \in Runs : at[r] \in Nat
  BY StepsAre DEF TypeInv, TypeOK, Within

LEMMA NextPlace ==
  ASSUME NEW a \in Nat, NEW b, b = a \/ b = a + 1, NEW k \in Nat
  PROVE  /\ k > b \/ k = b => k > a \/ k = a
         /\ k < b => k < a \/ k = a
  OBVIOUS

(* Every step keeps it. *)
LEMMA StopStep == TypeInv /\ StopInv /\ [Next]_vars => StopInv'
<1> SUFFICES ASSUME TypeInv, StopInv, [Next]_vars PROVE StopInv'
  OBVIOUS
<1>t. /\ pc \in [Runs -> Pcs] /\ at \in [Runs -> Within]
      /\ done \in [Runs -> [Steps -> Results]] /\ stops \in [Runs -> BOOLEAN]
      /\ \A r \in Runs : at[r] \in Nat
      /\ \A k \in Steps : k \in Nat
  BY PlaceType, StepsAre DEF TypeInv, TypeOK
<1> USE DEF StopInv, Ahead, Behind, Fresh, Obtained
<1>1. ASSUME NEW r \in Runs, Start(r) PROVE StopInv'
  <2>1. /\ pc' = [pc EXCEPT ![r] = "next"] /\ pc[r] = "unborn" /\ UNCHANGED <<at, done>>
        /\ \A u \in Runs : u # r => stops'[u] = stops[u]
    BY <1>1, <1>t DEF Start
  <2>2. \A k \in Steps : done[r][k] = "none"
    BY <2>1 DEF NoResults
  <2> QED
    BY <1>t, <2>1, <2>2
<1>2. ASSUME NEW r \in Runs, NextStep(r) PROVE StopInv'
  <2>1. /\ pc[r] = "next" /\ UNCHANGED <<stops, done>>
        /\ \A u \in Runs : u # r => pc'[u] = pc[u] /\ at'[u] = at[u]
        /\ \/ at'[r] = at[r] /\ pc'[r] \in {"end", "call"}
           \/ at'[r] = at[r] + 1 /\ pc'[r] = "next"
    BY <1>2, <1>t DEF NextStep
  <2>n. at[r] \in Nat
    BY <1>t
  <2>2. \A k \in Steps : k > at[r] \/ k = at[r] => done[r][k] = "none"
    BY <2>1
  <2>a. \A k \in Steps : /\ k > at'[r] \/ k = at'[r] => k > at[r] \/ k = at[r]
                         /\ k < at'[r] => k < at[r] \/ k = at[r]
    BY <1>t, <2>n, <2>1, NextPlace
  <2>b. Ahead'
    <3> SUFFICES ASSUME NEW u \in Runs, NEW k \in Steps, k > at'[u] \/ k = at'[u],
                        k = at'[u] => pc'[u] \in {"unborn", "next", "call"}
                 PROVE  done'[u][k] = "none"
      BY <1>t DEF Ahead
    <3>1. CASE u = r
      BY <3>1, <2>1, <2>2, <2>a
    <3>2. CASE u # r
      BY <3>2, <2>1
    <3> QED
      BY <3>1, <3>2
  <2>c. Behind'
    <3> SUFFICES ASSUME NEW u \in Runs, NEW k \in Steps, stops'[u], k < at'[u]
                 PROVE  done'[u][k] # "failed"
      OBVIOUS
    <3>1. CASE u = r
      BY <3>1, <2>1, <2>2, <2>a
    <3>2. CASE u # r
      BY <3>2, <2>1
    <3> QED
      BY <3>1, <3>2
  <2>3. Ahead' /\ Behind'
    BY <2>b, <2>c
  <2>4. Fresh'
    BY <2>1
  <2>5. Obtained'
    BY <2>1
  <2> QED
    BY <2>3, <2>4, <2>5
<1>3. ASSUME NEW r \in Runs, Call(r) PROVE StopInv'
  <2>1. at[r] \in Steps
    BY <1>3 DEF Call, TypeInv, AtStep
  <2>2. PICK a \in {"ok", "failed"} : done' = [done EXCEPT ![r][at[r]] = a]
    BY <1>3 DEF Call
  <2>3. /\ done'[r][at[r]] = a
        /\ \A u \in Runs, k \in Steps : u # r \/ k # at[r] => done'[u][k] = done[u][k]
        /\ \A u \in Runs : u # r => done'[u] = done[u]
    BY <1>t, <2>1, <2>2
  <2>4. /\ pc[r] = "call" /\ pc' = [pc EXCEPT ![r] = "record"] /\ UNCHANGED <<at, stops>>
    BY <1>3 DEF Call
  <2>5. Ahead'
    BY <1>t, <2>1, <2>3, <2>4
  <2>6. Behind'
    BY <1>t, <2>1, <2>3, <2>4
  <2>7. Fresh' /\ Obtained'
    BY <1>t, <2>1, <2>3, <2>4
  <2> QED
    BY <2>5, <2>6, <2>7
<1>4. ASSUME NEW r \in Runs, Count(r) PROVE StopInv'
  <2>1. at[r] \in Steps /\ pc[r] = "count" /\ UNCHANGED <<stops, done>>
    BY <1>4 DEF Count, TypeInv, AtStep
  <2>2. /\ \A u \in Runs : u # r => pc'[u] = pc[u] /\ at'[u] = at[u]
        /\ \/ at'[r] = at[r] /\ pc'[r] \in {"error", "end"}
           \/ at'[r] = at[r] + 1 /\ pc'[r] = "next" /\ ~StopsAfter(r)
    BY <1>4, <1>t DEF Count
  <2>3. stops[r] /\ ~StopsAfter(r) => done[r][at[r]] # "failed"
    BY DEF StopsAfter
  <2>4. Ahead'
    BY <1>t, <2>1, <2>2
  <2>5. Behind'
    BY <1>t, <2>1, <2>2, <2>3
  <2> QED
    BY <1>t, <2>1, <2>2, <2>4, <2>5
<1>5. ASSUME NEW r \in Runs,
             RecordResult(r) \/ Finish(r) \/ SaveRun(r) \/ OpenFile(r) \/ WriteFile(r)
      PROVE  StopInv'
  <2>1. /\ UNCHANGED <<at, stops, done>> /\ pc[r] \notin {"unborn", "next", "call"}
        /\ \E q \in Pcs \ {"unborn", "next", "call", "record"} :
              pc' = [pc EXCEPT ![r] = q] /\ (q = "count" => pc[r] = "record")
    BY <1>5 DEF RecordResult, Finish, SaveRun, OpenFile, WriteFile, Pcs, Ended
  <2> QED
    BY <1>t, <2>1
<1>6. CASE Reset
  BY <1>6 DEF Reset, runVars
<1>7. CASE Crash
  <2>1. /\ UNCHANGED <<at, stops, done>>
        /\ \A r \in Runs : pc'[r] = pc[r] \/ pc'[r] = "dead"
    BY <1>7 DEF Crash
  <2> QED
    BY <1>t, <2>1
<1>8. CASE UNCHANGED vars
  BY <1>8 DEF vars, runVars
<1> QED
  BY <1>1, <1>2, <1>3, <1>4, <1>5, <1>6, <1>7, <1>8 DEF Next, RunStep

(***************************************************************************)
(* A failure stops its run, if the request said so: no later step is run,  *)
(* whatever overlapping runs, resets and crashes do to PIPELINE_STATE.     *)
(***************************************************************************)
THEOREM FailureDoesStop == Spec => []FailureStops
<1>1. TypeInv /\ StopInv => FailureStops
  <2> SUFFICES ASSUME TypeInv, StopInv, NEW r \in Runs, stops[r],
                      NEW j \in Steps, NEW k \in Steps, j < k, done[r][j] = "failed"
               PROVE  done[r][k] = "none"
    BY DEF FailureStops
  <2>1. at[r] \in Nat /\ j \in Nat /\ k \in Nat
    BY PlaceType, StepsAre
  <2>2. ~(j < at[r])
    BY DEF StopInv, Behind
  <2> QED
    BY <2>1, <2>2 DEF StopInv, Ahead
<1> QED
  BY <1>1, TypeInit, TypeStep, StopInit, StopStep, PTL DEF Spec

-----------------------------------------------------------------------------
(* Without overlap one run is under way at most; the global is its         *)
(* dictionary; and the file is the history, but while the run writes it or *)
(* after it failed to.                                                     *)
Alone  == \A r, u \in Runs : Active(r) /\ Active(u) => r = u
Mine   == \A r \in Runs : Active(r) => state = r
OnDisk == ~Writing /\ ~behind => file.runs = history
InList == \A r \in Runs : pc[r] \in {"open", "write"} => Listed(r)
SoleInv == ~overlaps => Alone /\ Mine /\ OnDisk /\ InList

LEMMA SoleInit == Init => SoleInv
  BY DEF Init, SoleInv, Alone, Mine, OnDisk, InList, Active, Ended

(* A step of a run under way is a step of the only one. *)
LEMMA OnlyOne ==
  ASSUME TypeInv, SoleInv, ~overlaps, NEW r \in Runs, Active(r)
  PROVE  state = r /\ \A u \in Runs : u # r => ~Active(u)
  BY DEF SoleInv, Alone, Mine

LEMMA SoleStep == TypeInv /\ SoleInv /\ [Next]_vars => SoleInv'
<1> SUFFICES ASSUME TypeInv, SoleInv, [Next]_vars, ~overlaps'
             PROVE  Alone' /\ Mine' /\ OnDisk' /\ InList'
  BY DEF SoleInv
<1>t. pc \in [Runs -> Pcs] /\ state \in Dicts /\ history \in Seq(Entries)
  BY DEF TypeInv, TypeOK
<1>o. overlaps \in BOOLEAN
  BY DEF TypeInv, TypeOK
<1>1. ASSUME NEW r \in Runs, Start(r) PROVE Alone' /\ Mine' /\ OnDisk' /\ InList'
  <2>1. ~overlaps /\ \A u \in Runs : ~Active(u)
    BY <1>1, <1>o DEF Start, Busy
  <2>2. /\ pc' = [pc EXCEPT ![r] = "next"] /\ state' = r /\ UNCHANGED <<history, file, behind>>
    BY <1>1 DEF Start, fileVars
  <2>3. \A u \in Runs : Active(u)' => u = r
    BY <1>t, <2>1, <2>2 DEF Active
  <2>4. \A u \in Runs : pc[u] \notin {"open", "write"} /\ pc'[u] \notin {"open", "write"}
    BY <1>t, <2>1, <2>2 DEF Active, Ended
  <2>5. ~behind => file.runs = history
    BY <2>1, <2>4 DEF SoleInv, OnDisk, Writing
  <2> QED
    BY <2>2, <2>3, <2>4, <2>5 DEF Alone, Mine, OnDisk, InList
<1>2. CASE Reset
  <2>1. ~overlaps /\ \A u \in Runs : ~Active(u)
    BY <1>2, <1>o DEF Reset, Busy
  <2>2. UNCHANGED <<pc, history, file, behind>>
    BY <1>2 DEF Reset, runVars, fileVars
  <2> QED
    BY <2>1, <2>2 DEF SoleInv, Alone, Mine, OnDisk, InList, Active, Writing, Listed
<1>3. CASE Crash
  <2>1. ~overlaps /\ UNCHANGED file /\ (behind' \/ history' = file.runs)
    BY <1>3 DEF Crash
  <2>2. \A u \in Runs : pc'[u] \in Ended
    BY <1>3, <1>t DEF Crash, Active, Ended
  <2> QED
    BY <2>1, <2>2 DEF Alone, Mine, OnDisk, InList, Active, Ended
<1>4. ASSUME NEW r \in Runs,
             NextStep(r) \/ Call(r) \/ RecordResult(r) \/ Count(r) \/ Finish(r)
      PROVE  Alone' /\ Mine' /\ OnDisk' /\ InList'
  <2>1. /\ Active(r) /\ pc[r] \notin {"open", "write"}
        /\ UNCHANGED <<overlaps, state, history, file, behind>>
        /\ \E q \in Pcs \ {"open", "write"} : pc' = [pc EXCEPT ![r] = q]
    <3>1. CASE NextStep(r) \/ Call(r)
      <4>1. \/ pc' = pc /\ pc[r] = "next"
            \/ \E q \in {"call", "end", "record"} : pc' = [pc EXCEPT ![r] = q]
        BY <3>1 DEF NextStep, Call
      <4>2. pc = [pc EXCEPT ![r] = pc[r]]
        BY <1>t
      <4> QED
        BY <3>1, <4>1, <4>2 DEF NextStep, Call, dictVars, fileVars, histVars, Active, Pcs, Ended
    <3>2. CASE RecordResult(r)
      BY <3>2 DEF RecordResult, fileVars, histVars, Active, Pcs, Ended
    <3>3. CASE Count(r)
      BY <3>3 DEF Count, fileVars, histVars, Active, Pcs, Ended
    <3>4. CASE Finish(r)
      BY <3>4 DEF Finish, fileVars, histVars, Active, Pcs, Ended
    <3> QED
      BY <1>4, <3>1, <3>2, <3>3, <3>4
  <2>2. ~overlaps /\ state = r /\ \A u \in Runs : u # r => ~Active(u)
    BY <2>1, OnlyOne
  <2>3. \A u \in Runs : u # r => pc'[u] = pc[u]
    BY <1>t, <2>1
  <2>4. \A u \in Runs : pc[u] \notin {"open", "write"} /\ pc'[u] \notin {"open", "write"}
    BY <1>t, <2>1, <2>2, <2>3 DEF Active, Ended
  <2>5. ~behind => file.runs = history
    BY <2>2, <2>4 DEF SoleInv, OnDisk, Writing
  <2> QED
    BY <2>1, <2>2, <2>3, <2>4, <2>5 DEF Alone, Mine, OnDisk, InList, Active
<1>5. ASSUME NEW r \in Runs, SaveRun(r)
      PROVE  Alone' /\ Mine' /\ OnDisk' /\ InList'
  <2>1. /\ pc[r] = "save" /\ pc' = [pc EXCEPT ![r] = "open"]
        /\ UNCHANGED <<overlaps, state, file>>
    BY <1>5 DEF SaveRun, dictVars, histVars
  <2>2. ~overlaps /\ state = r /\ \A u \in Runs : u # r => ~Active(u)
    BY <2>1, OnlyOne DEF Active, Ended
  <2>3. Listed(r)'
    <3>1. history'[1] = Entry(state) /\ 1 \in DOMAIN history'
      <4>1. /\ history' \in Seq(Entries) /\ history'[1] = Entry(state)
            /\ Len(history') = IF Len(history) < MaxHistory THEN Len(history) + 1
                                                           ELSE MaxHistory
        BY <1>5, PutAndKept, EntryType, StateType DEF SaveRun, TypeInv, TypeOK
      <4>2. Len(history') \in Nat \ {0}
        BY <4>1, <1>t, BoundsAssumption
      <4> QED
        BY <4>1, <4>2
    <3>2. Entry(state).run = r
      BY <2>2 DEF Entry
    <3> QED
      BY <3>1, <3>2 DEF Listed
  <2>4. \A u \in Runs : u # r => ~Active(u)' /\ pc'[u] \notin {"open", "write"}
    BY <1>t, <2>1, <2>2 DEF Active, Ended
  <2>5. pc'[r] = "open" /\ Writing'
    BY <1>t, <2>1 DEF Writing
  <2> QED
    BY <2>1, <2>2, <2>3, <2>4, <2>5 DEF Alone, Mine, OnDisk, InList
<1>6. ASSUME NEW r \in Runs, OpenFile(r)
      PROVE  Alone' /\ Mine' /\ OnDisk' /\ InList'
  <2>1. /\ pc[r] = "open"
        /\ \/ pc' = [pc EXCEPT ![r] = "write"]
           \/ pc' = [pc EXCEPT ![r] = "answered"] /\ behind'
        /\ UNCHANGED <<overlaps, state, history>>
    BY <1>6 DEF OpenFile, dictVars, histVars
  <2>2. ~overlaps /\ state = r /\ \A u \in Runs : u # r => ~Active(u)
    BY <2>1, OnlyOne DEF Active, Ended
  <2>3. Listed(r)'
    BY <2>1, <2>2 DEF SoleInv, InList, Listed
  <2>4. \A u \in Runs : u # r => ~Active(u)' /\ pc'[u] \notin {"open", "write"}
    BY <1>t, <2>1, <2>2 DEF Active, Ended
  <2>5. Writing' \/ behind'
    BY <1>t, <2>1 DEF Writing
  <2> QED
    BY <2>1, <2>2, <2>3, <2>4, <2>5 DEF Alone, Mine, OnDisk, InList
<1>7. ASSUME NEW r \in Runs, WriteFile(r)
      PROVE  Alone' /\ Mine' /\ OnDisk' /\ InList'
  <2>1. /\ pc[r] = "write" /\ pc' = [pc EXCEPT ![r] = "answered"]
        /\ behind' \/ file'.runs = history'
        /\ UNCHANGED <<overlaps, state, history>>
    BY <1>7 DEF WriteFile, dictVars, histVars
  <2>2. ~overlaps /\ state = r /\ \A u \in Runs : u # r => ~Active(u)
    BY <2>1, OnlyOne DEF Active, Ended
  <2>3. \A u \in Runs : ~Active(u)' /\ pc'[u] \notin {"open", "write"}
    BY <1>t, <2>1, <2>2 DEF Active, Ended
  <2> QED
    BY <2>1, <2>3 DEF Alone, Mine, OnDisk, InList
<1>8. CASE UNCHANGED vars
  BY <1>8 DEF vars, dictVars, runVars, fileVars, histVars, SoleInv, Alone, Mine,
              OnDisk, InList, Active, Writing, Listed
<1> QED
  BY <1>1, <1>2, <1>3, <1>4, <1>5, <1>6, <1>7, <1>8 DEF Next, RunStep

(***************************************************************************)
(* As long as runs and resets do not overlap, pipeline_runs.json is the    *)
(* history after any number of crashes, but while a run writes it and,     *)
(* until the next write that succeeds, after a write that failed or a      *)
(* start that did not read it.                                             *)
(***************************************************************************)
THEOREM HistoryIsOnDisk == Spec => []HistoryOnDisk
<1>1. SoleInv => HistoryOnDisk
  BY DEF SoleInv, OnDisk, HistoryOnDisk
<1> QED
  BY <1>1, TypeInit, TypeStep, SoleInit, SoleStep, PTL DEF Spec

(* A history that is not full keeps all it lists. *)
LEMMA ListedStays ==
  ASSUME TypeInv, NEW u \in Runs, SaveRun(u), NEW r \in Runs, Listed(r), ~Listed(r)'
  PROVE  Len(history) = MaxHistory /\ Len(history') = MaxHistory
<1>1. /\ Len(history') = IF Len(history) < MaxHistory THEN Len(history) + 1 ELSE MaxHistory
      /\ \A i \in 2 .. Len(history') : history'[i] = history[i - 1]
      /\ history' \in Seq(Entries)
  BY PutAndKept, EntryType, StateType DEF SaveRun, TypeInv, TypeOK
<1>2. history \in Seq(Entries) /\ Len(history) <= MaxHistory
  BY DEF TypeInv, TypeOK
<1>3. Len(history) \in Nat /\ MaxHistory \in Nat
  BY <1>2, BoundsAssumption
<1>4. PICK i \in 1 .. Len(history) : history[i].run = r
  BY <1>2 DEF Listed
<1>5. ~(i + 1 \in 1 .. Len(history'))
  <2> SUFFICES ASSUME i + 1 \in 1 .. Len(history') PROVE FALSE
    OBVIOUS
  <2>1. i \in Nat /\ i + 1 \in 2 .. Len(history') /\ (i + 1) - 1 = i
    BY <1>3, <1>4
  <2>2. history'[i + 1].run = r /\ i + 1 \in DOMAIN history'
    BY <1>1, <1>4, <2>1
  <2> QED
    BY <2>2 DEF Listed
<1>6. ~(Len(history) < MaxHistory)
  BY <1>1, <1>3, <1>4, <1>5
<1> QED
  BY <1>1, <1>2, <1>3, <1>6

(* The two things AnsweredListed says of a step. *)
LEMMA AnswerStep ==
  ASSUME TypeInv, SoleInv, Next, NEW r \in Runs
  PROVE  /\ pc[r] \in {"open", "write"} /\ pc'[r] = "answered" /\ ~overlaps => Listed(r)
         /\ pc[r] = "answered" /\ Listed(r) /\ ~Listed(r)' =>
              \/ Len(history) = MaxHistory /\ Len(history') = MaxHistory
              \/ Crash /\ (overlaps \/ Writing \/ behind \/ behind')
<1>1. pc[r] \in {"open", "write"} /\ ~overlaps => Listed(r)
  BY DEF SoleInv, InList
<1>2. ASSUME pc[r] = "answered", Listed(r), ~Listed(r)'
      PROVE  \/ Len(history) = MaxHistory /\ Len(history') = MaxHistory
             \/ Crash /\ (overlaps \/ Writing \/ behind \/ behind')
  <2>1. ASSUME NEW u \in Runs, SaveRun(u)
        PROVE  Len(history) = MaxHistory /\ Len(history') = MaxHistory
    BY <1>2, <2>1, ListedStays
  <2>2. CASE Crash
    BY <1>2, <2>2 DEF Crash, SoleInv, OnDisk, Listed
  <2>3. history' # history
    BY <1>2 DEF Listed
  <2>4. Crash \/ \E u \in Runs : SaveRun(u)
    BY <2>3 DEF Next, RunStep, Start, Reset, NextStep, Call, RecordResult, Count, Finish,
                OpenFile, WriteFile, fileVars
  <2> QED
    BY <2>1, <2>2, <2>4
<1> QED
  BY <1>1, <1>2

(***************************************************************************)
(* A run that is answered is in the history, and leaves it only for newer  *)
(* ones, or in a crash during or after a write that did not succeed, or    *)
(* with a start that does not read pipeline_runs.json.                     *)
(***************************************************************************)
THEOREM AnsweredAreListed == Spec => AnsweredListed
<1>1. TypeInv /\ SoleInv /\ [Next]_vars =>
        [\A r \in Runs :
          /\ pc[r] \in {"open", "write"} /\ pc'[r] = "answered" /\ ~overlaps => Listed(r)
          /\ pc[r] = "answered" /\ Listed(r) /\ ~Listed(r)' =>
               \/ Len(history) = MaxHistory /\ Len(history') = MaxHistory
               \/ Crash /\ (overlaps \/ Writing \/ behind \/ behind')]_vars
  BY AnswerStep
<1> QED
  BY <1>1, TypeInit, TypeStep, SoleInit, SoleStep, PTL DEF Spec, AnsweredListed

-----------------------------------------------------------------------------
(* Without overlap a run's own dictionary has its answers, all but the one *)
(* it is about to record, and counts all but the one it is about to count. *)
Counted(r) == IF pc[r] \in {"record", "count"} THEN Steps \ {at[r]} ELSE Steps
Tally(r, answer) == Cardinality({k \in Counted(r) : done[r][k] = answer})
Recorded(r) == IF pc[r] = "record" THEN [done[r] EXCEPT ![at[r]] = "none"] ELSE done[r]

CountsOf(r) == pc[r] \notin {"error", "dead"} =>
                /\ results[r] = Recorded(r)
                /\ completed[r] = Tally(r, "ok") /\ failed[r] = Tally(r, "failed")
(* It ends at a step only if that step failed and is to stop it. *)
HaltsOf(r)  == /\ pc[r] \in {"end", "save"} /\ at[r] \in Steps => StopsAfter(r)
               /\ pc[r] = "save" => status[r] = IF at[r] \in Steps THEN "halted"
                                                                 ELSE "complete"
Counts  == \A r \in Runs : CountsOf(r)
Halting == \A r \in Runs : HaltsOf(r)
(* The histories, in memory and in the file, are of runs that have saved. *)
Remembered == {history[i] : i \in DOMAIN history}
InFile     == {file.runs[i] : i \in DOMAIN file.runs}
Saved      == /\ \A e \in Remembered : e.run \in Runs /\ pc[e.run] \in {"open", "write", "answered"}
              /\ \A e \in InFile : e.run \in Runs /\ pc[e.run] = "answered"
AllTrue    == \A e \in Remembered \cup InFile : TrueEntry(e)
TruthInv   == ~overlaps => Counts /\ Halting /\ Saved /\ AllTrue

IInv == TypeInv /\ StopInv /\ SoleInv /\ TruthInv

LEMMA StepsFinite == \A S \in SUBSET Steps : IsFiniteSet(S) /\ Cardinality(S) \in Nat
<1>1. IsFiniteSet(Steps)
  BY StepsAre, FS_Interval
<1> QED
  BY <1>1, FS_Subset, FS_CardinalityType

LEMMA TruthInit == Init => TruthInv
<1> SUFFICES ASSUME Init PROVE Counts /\ Halting /\ Saved /\ AllTrue
  BY DEF TruthInv
<1>1. ASSUME NEW r \in Runs, NEW a \in {"ok", "failed"} PROVE Tally(r, a) = 0
  <2>1. {k \in Counted(r) : done[r][k] = a} = {}
    BY DEF Init, NoResults, Counted
  <2> QED
    BY <2>1, FS_EmptySet DEF Tally
<1>2. Counts
  BY <1>1 DEF Init, Counts, CountsOf, Recorded, Dicts
<1>3. Halting
  BY DEF Init, Halting, HaltsOf
<1>4. Remembered = {} /\ InFile = {}
  BY DEF Init, Remembered, InFile
<1> QED
  BY <1>2, <1>3, <1>4 DEF Saved, AllTrue

(* What a run writes down at its end is true. *)
LEMMA TrueAtSave ==
  ASSUME IInv, ~overlaps, NEW r \in Runs, pc[r] = "save"
  PROVE  TrueEntry(Entry(r)) /\ Entry(r).run = r
<1>1. /\ results[r] = done[r] /\ completed[r] = Number(r, "ok")
      /\ failed[r] = Number(r, "failed")
  BY DEF IInv, TruthInv, Counts, CountsOf, Recorded, Tally, Counted, Number
<1>2. status[r] = IF stops[r] /\ Number(r, "failed") > 0 THEN "halted" ELSE "complete"
  <2> DEFINE bad == {k \in Steps : done[r][k] = "failed"}
  <2>1. IsFiniteSet(bad) /\ Cardinality(bad) \in Nat /\ (Cardinality(bad) = 0 <=> bad = {})
    BY StepsFinite, FS_EmptySet
  <2>2. CASE at[r] \in Steps
    <3>1. at[r] \in bad /\ stops[r] /\ status[r] = "halted"
      BY <2>2 DEF IInv, TruthInv, Halting, HaltsOf, StopsAfter
    <3> QED
      BY <2>1, <3>1 DEF Number
  <2>3. CASE at[r] \notin Steps
    <3>1. status[r] = "complete"
      BY <2>3 DEF IInv, TruthInv, Halting, HaltsOf
    <3>2. ASSUME stops[r] PROVE bad = {}
      <4>1. \A k \in Steps : k < at[r]
        BY <2>3, StepsAre DEF IInv, TypeInv, TypeOK, Within
      <4> QED
        BY <3>2, <4>1 DEF IInv, StopInv, Behind
    <3> QED
      BY <2>1, <3>1, <3>2 DEF Number
  <2> QED
    BY <2>2, <2>3
<1> QED
  BY <1>1, <1>2 DEF TrueEntry, Entry

(* A run whose place, answers and dictionary stay counts as before. *)
LEMMA OthersCount ==
  ASSUME NEW u \in Runs, pc'[u] = pc[u], at'[u] = at[u], done'[u] = done[u],
         results'[u] = results[u], completed'[u] = completed[u], failed'[u] = failed[u],
         stops'[u] = stops[u], status'[u] = status[u], CountsOf(u), HaltsOf(u)
  PROVE  CountsOf(u)' /\ HaltsOf(u)'
<1>1. Counted(u)' = Counted(u) /\ Recorded(u)' = Recorded(u)
  BY DEF Counted, Recorded
<1>2. Tally(u, "ok")' = Tally(u, "ok") /\ Tally(u, "failed")' = Tally(u, "failed")
  BY <1>1 DEF Tally
<1>3. StopsAfter(u)' <=> StopsAfter(u)
  BY DEF StopsAfter
<1>4. CountsOf(u)'
  BY <1>1, <1>2 DEF CountsOf
<1>5. HaltsOf(u)'
  BY <1>3 DEF HaltsOf
<1> QED
  BY <1>4, <1>5

(* Entries stay true while the runs that saved them change no more. *)
LEMMA EntriesStay ==
  ASSUME Saved, AllTrue, UNCHANGED <<history, file>>,
         \A u \in Runs : pc[u] \in {"open", "write", "answered"} =>
           /\ pc'[u] = pc[u]
           /\ results'[u] = results[u] /\ done'[u] = done[u] /\ stops'[u] = stops[u]
  PROVE  Saved' /\ AllTrue'
<1>1. Remembered' = Remembered /\ InFile' = InFile
  BY DEF Remembered, InFile
<1>2. Saved'
  BY <1>1 DEF Saved
<1>3. ASSUME NEW e \in Remembered \cup InFile PROVE TrueEntry(e)'
  <2>1. e.run \in Runs /\ pc[e.run] \in {"open", "write", "answered"} /\ TrueEntry(e)
    BY <1>3 DEF Saved, AllTrue
  <2>2. Number(e.run, "ok")' = Number(e.run, "ok")
        /\ Number(e.run, "failed")' = Number(e.run, "failed")
    BY <2>1 DEF Number
  <2> QED
    BY <2>1, <2>2 DEF TrueEntry
<1>4. AllTrue'
  BY <1>1, <1>3 DEF AllTrue
<1> QED
  BY <1>2, <1>4

(* What counting a step adds. *)
LEMMA CountOne ==
  ASSUME TypeInv, NEW r \in Runs, NEW k \in Steps, NEW a
  PROVE  LET but == {j \in Steps \ {k} : done[r][j] = a}
             all == {j \in Steps : done[r][j] = a}
         IN  Cardinality(all) = IF done[r][k] = a THEN Cardinality(but) + 1
                                                  ELSE Cardinality(but)
<1> DEFINE but == {j \in Steps \ {k} : done[r][j] = a}
           all == {j \in Steps : done[r][j] = a}
<1>1. CASE done[r][k] = a
  <2>1. all = but \cup {k} /\ k \notin but
    BY <1>1
  <2>2. IsFiniteSet(but)
    BY StepsFinite
  <2>3. Cardinality(but \cup {k}) = Cardinality(but) + 1
    BY <2>1, <2>2, FS_AddElement
  <2> QED
    BY <1>1, <2>1, <2>3
<1>2. CASE done[r][k] # a
  <2>1. all = but
    BY <1>2
  <2> QED
    BY <1>2, <2>1
<1> QED
  BY <1>1, <1>2

(* The steps of a run up to its save keep TruthInv. *)
LEMMA TruthWork ==
  ASSUME IInv, ~overlaps, NEW r \in Runs,
         NextStep(r) \/ Call(r) \/ RecordResult(r) \/ Count(r) \/ Finish(r)
  PROVE  Counts' /\ Halting' /\ Saved' /\ AllTrue'
<1>t. /\ pc \in [Runs -> Pcs] /\ at \in [Runs -> Within] /\ stops \in [Runs -> BOOLEAN]
      /\ done \in [Runs -> [Steps -> Results]] /\ results \in [Dicts -> [Steps -> Results]]
      /\ completed \in [Dicts -> Nat] /\ failed \in [Dicts -> Nat]
      /\ status \in [Dicts -> Statuses] /\ Runs \subseteq Dicts
  BY DEF IInv, TypeInv, TypeOK, Dicts
<1>a. /\ Active(r) /\ pc[r] \in {"next", "call", "record", "count", "end"}
      /\ UNCHANGED <<state, stops, history, file>>
  BY DEF NextStep, Call, RecordResult, Count, Finish, dictVars, fileVars, histVars, Active,
         Ended
<1>s. state = r /\ state # Blank
  BY <1>a, OnlyOne, RunsAssumption DEF IInv
<1>i. Counts /\ Halting /\ Saved /\ AllTrue
  BY DEF IInv, TruthInv
<1>u. ASSUME NEW u \in Runs, u # r
      PROVE  /\ pc'[u] = pc[u] /\ at'[u] = at[u] /\ done'[u] = done[u]
             /\ results'[u] = results[u] /\ completed'[u] = completed[u]
             /\ failed'[u] = failed[u] /\ status'[u] = status[u]
  <2>1. CASE NextStep(r)
    BY <1>t, <1>u, <2>1 DEF NextStep, dictVars
  <2>2. CASE Call(r)
    BY <1>t, <1>u, <2>2 DEF Call, dictVars
  <2>3. CASE RecordResult(r)
    BY <1>t, <1>s, <1>u, <2>3 DEF RecordResult
  <2>4. CASE Count(r)
    BY <1>t, <1>s, <1>u, <2>4 DEF Count
  <2>5. CASE Finish(r)
    BY <1>t, <1>s, <1>u, <2>5 DEF Finish
  <2> QED
    BY <2>1, <2>2, <2>3, <2>4, <2>5
<1>1. Saved' /\ AllTrue'
  <2>1. \A u \in Runs : pc[u] \in {"open", "write", "answered"} => u # r
    BY <1>a
  <2> QED
    BY <1>a, <1>i, <1>u, <2>1, EntriesStay
<1>2. \A u \in Runs : u # r => CountsOf(u)' /\ HaltsOf(u)'
  BY <1>a, <1>i, <1>u, OthersCount DEF Counts, Halting
<1>c. CountsOf(r) /\ HaltsOf(r)
  BY <1>i DEF Counts, Halting
<1>3. CountsOf(r)' /\ HaltsOf(r)'
  <2>1. CASE NextStep(r)
    <3>1. /\ pc[r] = "next" /\ pc'[r] \in {"next", "call", "end"}
          /\ pc'[r] = "end" => at'[r] \notin Steps
          /\ UNCHANGED <<done, results, completed, failed>>
      BY <1>t, <2>1 DEF NextStep, dictVars
    <3>2. Counted(r)' = Steps /\ Counted(r) = Steps
      BY <3>1 DEF Counted
    <3>3. CountsOf(r)'
      BY <1>c, <3>1, <3>2 DEF CountsOf, Tally, Recorded
    <3> QED
      BY <3>1, <3>3 DEF HaltsOf
  <2>2. CASE Call(r)
    <3>1. /\ pc[r] = "call" /\ pc'[r] = "record" /\ at[r] \in Steps
          /\ UNCHANGED <<at, results, completed, failed>>
      BY <1>t, <2>2 DEF Call, dictVars, IInv, TypeInv, AtStep
    <3>2. done[r][at[r]] = "none"
      BY <3>1 DEF IInv, StopInv, Ahead
    <3>3. PICK a \in {"ok", "failed"} : done' = [done EXCEPT ![r][at[r]] = a]
      BY <2>2 DEF Call
    <3>4. done'[r] = [done[r] EXCEPT ![at[r]] = a]
      BY <1>t, <3>3
    <3>5. Counted(r) = Steps /\ Counted(r)' = Steps \ {at[r]}
      BY <3>1 DEF Counted
    <3>6. ASSUME NEW b \in {"ok", "failed"} PROVE Tally(r, b)' = Tally(r, b)
      <4>1. {k \in Steps \ {at[r]} : done'[r][k] = b} = {k \in Steps : done[r][k] = b}
        BY <1>t, <3>2, <3>4
      <4> QED
        BY <3>5, <4>1 DEF Tally
    <3>7. Recorded(r)' = done[r]
      <4>1. [done'[r] EXCEPT ![at[r]] = "none"] = done[r]
        BY <1>t, <3>1, <3>2, <3>4
      <4> QED
        BY <3>1, <4>1 DEF Recorded
    <3>8. results[r] = done[r] /\ completed[r] = Tally(r, "ok") /\ failed[r] = Tally(r, "failed")
      BY <1>c, <3>1 DEF CountsOf, Recorded
    <3>9. CountsOf(r)'
      BY <3>1, <3>6, <3>7, <3>8 DEF CountsOf
    <3> QED
      BY <3>1, <3>9 DEF HaltsOf
  <2>3. CASE RecordResult(r)
    <3>1. /\ pc[r] = "record" /\ pc'[r] \in {"count", "error"} /\ at[r] \in Steps
          /\ UNCHANGED <<at, done, completed, failed>>
          /\ results' = [results EXCEPT ![r][at[r]] = done[r][at[r]]]
      BY <1>t, <1>s, <2>3 DEF RecordResult, IInv, TypeInv, AtStep
    <3>2. results[r] = [done[r] EXCEPT ![at[r]] = "none"]
      BY <1>c, <3>1 DEF CountsOf, Recorded
    <3>3. results'[r] = [results[r] EXCEPT ![at[r]] = done[r][at[r]]]
      BY <1>t, <3>1
    <3>4. results'[r] = done[r]
      BY <1>t, <3>1, <3>2, <3>3
    <3>5. pc'[r] = "count" => Counted(r)' = Counted(r)
      BY <3>1 DEF Counted
    <3>6. CountsOf(r)'
      BY <1>c, <3>1, <3>4, <3>5 DEF CountsOf, Tally, Recorded
    <3> QED
      BY <3>1, <3>6 DEF HaltsOf
  <2>4. CASE Count(r)
    <3>1. /\ pc[r] = "count" /\ at[r] \in Steps /\ UNCHANGED <<done, results, stops>>
          /\ done[r][at[r]] \in {"ok", "failed"}
      BY <2>4 DEF Count, IInv, TypeInv, AtStep, StopInv, Obtained
    <3>2. /\ completed'[r] = IF done[r][at[r]] = "ok" THEN completed[r] + 1 ELSE completed[r]
          /\ failed'[r] = IF done[r][at[r]] = "failed" THEN failed[r] + 1 ELSE failed[r]
      BY <1>t, <1>s, <2>4, <3>1 DEF Count
    <3>3. /\ pc'[r] \in {"next", "end"}
          /\ pc'[r] = "end" => StopsAfter(r) /\ at'[r] = at[r]
      BY <1>t, <1>s, <2>4 DEF Count
    <3>4. Counted(r) = Steps \ {at[r]} /\ Counted(r)' = Steps
      BY <3>1, <3>3 DEF Counted
    <3>5. ASSUME NEW a
          PROVE  Tally(r, a)' = IF done[r][at[r]] = a THEN Tally(r, a) + 1 ELSE Tally(r, a)
      <4>1. Tally(r, a)' = Cardinality({j \in Steps : done[r][j] = a})
        BY <3>1, <3>4 DEF Tally
      <4>2. Tally(r, a) = Cardinality({j \in Steps \ {at[r]} : done[r][j] = a})
        BY <3>4 DEF Tally
      <4>3. Cardinality({j \in Steps : done[r][j] = a}) =
              IF done[r][at[r]] = a
              THEN Cardinality({j \in Steps \ {at[r]} : done[r][j] = a}) + 1
              ELSE Cardinality({j \in Steps \ {at[r]} : done[r][j] = a})
        BY <3>1, CountOne DEF IInv
      <4> QED
        BY <4>1, <4>2, <4>3
    <3>6. results'[r] = Recorded(r)'
      BY <1>c, <3>1, <3>3 DEF CountsOf, Recorded
    <3>7. completed[r] = Tally(r, "ok") /\ failed[r] = Tally(r, "failed")
      BY <1>c, <3>1 DEF CountsOf
    <3>8. completed'[r] = Tally(r, "ok")' /\ failed'[r] = Tally(r, "failed")'
      BY <3>2, <3>5, <3>7
    <3>9. HaltsOf(r)'
      BY <3>1, <3>3 DEF HaltsOf, StopsAfter
    <3> QED
      BY <3>6, <3>8, <3>9 DEF CountsOf
  <2>5. CASE Finish(r)
    <3>1. /\ pc[r] = "end" /\ pc'[r] = "save"
          /\ UNCHANGED <<at, done, results, completed, failed, stops>>
          /\ status'[r] = IF at[r] \in Steps THEN "halted" ELSE "complete"
      BY <1>t, <1>s, <2>5 DEF Finish
    <3>2. Counted(r)' = Counted(r)
      BY <3>1 DEF Counted
    <3>3. CountsOf(r)'
      BY <1>c, <3>1, <3>2 DEF CountsOf, Tally, Recorded
    <3>4. HaltsOf(r)'
      BY <1>c, <3>1 DEF HaltsOf, StopsAfter
    <3> QED
      BY <3>3, <3>4
  <2> QED
    BY <2>1, <2>2, <2>3, <2>4, <2>5
<1> QED
  BY <1>1, <1>2, <1>3 DEF Counts, Halting

(* Starting a run, saving it and writing the file keep TruthInv, and so do *)
(* resets and crashes.                                                     *)
LEMMA TruthStep == IInv /\ [Next]_vars => TruthInv'
<1> SUFFICES ASSUME IInv, [Next]_vars, ~overlaps'
             PROVE  Counts' /\ Halting' /\ Saved' /\ AllTrue'
  BY DEF TruthInv
<1>t. /\ pc \in [Runs -> Pcs] /\ stops \in [Runs -> BOOLEAN] /\ status \in [Dicts -> Statuses]
      /\ Runs \subseteq Dicts /\ overlaps \in BOOLEAN /\ history \in Seq(Entries)
      /\ Blank \notin Runs
  BY RunsAssumption DEF IInv, TypeInv, TypeOK, Dicts
<1>o. ~overlaps
  BY <1>t DEF Next, RunStep, Start, Reset, Crash, NextStep, Call, RecordResult, Count, Finish,
              SaveRun, OpenFile, WriteFile, histVars, vars
<1>i. Counts /\ Halting /\ Saved /\ AllTrue
  BY <1>o DEF IInv, TruthInv
<1>1. ASSUME NEW r \in Runs, Start(r) PROVE Counts' /\ Halting' /\ Saved' /\ AllTrue'
  <2>1. /\ pc[r] = "unborn" /\ pc' = [pc EXCEPT ![r] = "next"]
        /\ UNCHANGED <<at, done, results, completed, failed, history, file>>
        /\ \A u \in Runs : u # r => stops'[u] = stops[u] /\ status'[u] = status[u]
    BY <1>1, <1>t DEF Start, fileVars
  <2>2. Saved' /\ AllTrue'
    <3>1. \A u \in Runs : pc[u] \in {"open", "write", "answered"} => u # r
      BY <2>1
    <3> QED
      BY <1>t, <1>i, <2>1, <3>1, EntriesStay
  <2>3. \A u \in Runs : u # r => CountsOf(u)' /\ HaltsOf(u)'
    BY <1>t, <1>i, <2>1, OthersCount DEF Counts, Halting
  <2>4. CountsOf(r)'
    <3>1. pc'[r] = "next" /\ Counted(r)' = Counted(r)
      BY <1>t, <2>1 DEF Counted
    <3>2. CountsOf(r)
      BY <1>i DEF Counts
    <3> QED
      BY <2>1, <3>1, <3>2 DEF CountsOf, Tally, Recorded
  <2>5. HaltsOf(r)'
    BY <1>t, <2>1 DEF HaltsOf
  <2> QED
    BY <2>2, <2>3, <2>4, <2>5 DEF Counts, Halting
<1>2. ASSUME NEW r \in Runs,
             NextStep(r) \/ Call(r) \/ RecordResult(r) \/ Count(r) \/ Finish(r)
      PROVE  Counts' /\ Halting' /\ Saved' /\ AllTrue'
  BY <1>2, <1>o, TruthWork
<1>3. ASSUME NEW r \in Runs, SaveRun(r) PROVE Counts' /\ Halting' /\ Saved' /\ AllTrue'
  <2>1. /\ pc[r] = "save" /\ pc' = [pc EXCEPT ![r] = "open"]
        /\ UNCHANGED <<dictVars, at, stops, done, file>>
    BY <1>3 DEF SaveRun
  <2>2. state = r
    BY <1>o, <2>1, OnlyOne DEF IInv, Active, Ended
  <2>3. TrueEntry(Entry(r)) /\ Entry(r).run = r
    BY <1>o, <2>1, TrueAtSave
  <2>4. Remembered' \subseteq Remembered \cup {Entry(r)}
    <3>1. /\ history' \in Seq(Entries) /\ history'[1] = Entry(r)
          /\ Len(history') = IF Len(history) < MaxHistory THEN Len(history) + 1
                                                         ELSE MaxHistory
          /\ \A i \in 2 .. Len(history') : history'[i] = history[i - 1]
          /\ Len(history) <= MaxHistory
      BY <1>3, <2>2, PutAndKept, EntryType, StateType DEF SaveRun, IInv, TypeInv, TypeOK
    <3>2. Len(history) \in Nat /\ MaxHistory \in Nat
      BY <1>t, BoundsAssumption
    <3>3. ASSUME NEW i \in 1 .. Len(history'), i # 1
          PROVE  i - 1 \in 1 .. Len(history) /\ history'[i] = history[i - 1]
      BY <3>1, <3>2, <3>3
    <3>4. DOMAIN history' = 1 .. Len(history') /\ DOMAIN history = 1 .. Len(history)
      BY <1>t, <3>1
    <3> QED
      BY <3>1, <3>3, <3>4 DEF Remembered
  <2>5. InFile' = InFile
    BY <2>1 DEF InFile
  <2>6. \A e : TrueEntry(e)' <=> TrueEntry(e)
    BY <2>1 DEF dictVars, TrueEntry, Number
  <2>7. AllTrue'
    BY <1>i, <2>3, <2>4, <2>5, <2>6 DEF AllTrue
  <2>8. Saved'
    BY <1>t, <1>i, <2>1, <2>3, <2>4, <2>5 DEF Saved
  <2>9. \A u \in Runs : u # r => CountsOf(u)' /\ HaltsOf(u)'
    BY <1>t, <1>i, <2>1, OthersCount DEF Counts, Halting, dictVars
  <2>10. CountsOf(r)'
    <3>1. pc'[r] = "open" /\ Counted(r)' = Counted(r)
      BY <1>t, <2>1 DEF Counted
    <3>2. CountsOf(r)
      BY <1>i DEF Counts
    <3> QED
      BY <2>1, <3>1, <3>2 DEF CountsOf, Tally, Recorded, dictVars
  <2>11. HaltsOf(r)'
    BY <1>t, <2>1 DEF HaltsOf
  <2> QED
    BY <2>7, <2>8, <2>9, <2>10, <2>11 DEF Counts, Halting
<1>4. ASSUME NEW r \in Runs, OpenFile(r) \/ WriteFile(r)
      PROVE  Counts' /\ Halting' /\ Saved' /\ AllTrue'
  <2>1. /\ pc[r] \in {"open", "write"}
        /\ \E q \in {"write", "answered"} : pc' = [pc EXCEPT ![r] = q]
        /\ UNCHANGED <<dictVars, at, stops, done, history>>
        /\ \/ file'.runs = <<>>
           \/ pc[r] = "open" /\ file' = file
           \/ file'.runs = history /\ pc' = [pc EXCEPT ![r] = "answered"]
    BY <1>4 DEF OpenFile, WriteFile, Cut
  <2>2. \A u \in Runs : u # r => pc[u] \in Ended /\ pc'[u] = pc[u]
    BY <1>o, <1>t, <2>1, OnlyOne DEF IInv, Active, Ended
  <2>3. Remembered' = Remembered /\ InFile' \subseteq Remembered \cup InFile
    BY <2>1 DEF Remembered, InFile
  <2>4. \A e : TrueEntry(e)' <=> TrueEntry(e)
    BY <2>1 DEF dictVars, TrueEntry, Number
  <2>5. AllTrue'
    BY <1>i, <2>3, <2>4 DEF AllTrue
  <2>6. pc'[r] \in {"write", "answered"}
    BY <1>t, <2>1
  <2>7. \A e \in Remembered : e.run \in Runs /\ pc'[e.run] \in {"open", "write", "answered"}
    BY <1>i, <2>2, <2>6 DEF Saved
  <2>8. \A e \in InFile' : e.run \in Runs /\ pc'[e.run] = "answered"
    <3>1. CASE file'.runs = <<>>
      BY <3>1 DEF InFile
    <3>2. CASE pc[r] = "open" /\ file' = file
      BY <1>i, <2>2, <3>2 DEF Saved, InFile
    <3>3. CASE file'.runs = history /\ pc' = [pc EXCEPT ![r] = "answered"]
      <4>1. pc'[r] = "answered" /\ InFile' = Remembered
        BY <1>t, <3>3 DEF InFile, Remembered
      <4> QED
        BY <1>i, <2>2, <4>1 DEF Saved, Ended
    <3> QED
      BY <2>1, <3>1, <3>2, <3>3
  <2>9. Saved'
    BY <2>3, <2>7, <2>8 DEF Saved
  <2>10. \A u \in Runs : u # r => CountsOf(u)' /\ HaltsOf(u)'
    BY <1>i, <2>1, <2>2, OthersCount DEF Counts, Halting, dictVars
  <2>11. CountsOf(r)'
    <3>1. Counted(r)' = Counted(r)
      BY <2>1, <2>6 DEF Counted
    <3>2. CountsOf(r)
      BY <1>i DEF Counts
    <3> QED
      BY <2>1, <2>6, <3>1, <3>2 DEF CountsOf, Tally, Recorded, dictVars
  <2>12. HaltsOf(r)'
    BY <2>1, <2>6 DEF HaltsOf
  <2> QED
    BY <2>5, <2>9, <2>10, <2>11, <2>12 DEF Counts, Halting
<1>5. CASE Reset
  <2>1. /\ UNCHANGED <<pc, at, stops, done, results, completed, failed, history, file>>
        /\ \A u \in Runs : status'[u] = status[u]
    BY <1>5, <1>t DEF Reset, runVars, fileVars
  <2>2. Saved' /\ AllTrue'
    BY <1>i, <2>1, EntriesStay
  <2>3. \A u \in Runs : CountsOf(u)' /\ HaltsOf(u)'
    BY <1>i, <2>1, OthersCount DEF Counts, Halting
  <2> QED
    BY <2>2, <2>3 DEF Counts, Halting
<1>6. CASE Crash
  <2>1. /\ UNCHANGED <<at, stops, done, results, completed, failed, file>>
        /\ history' \in {file.runs, <<>>} /\ \A u \in Runs : status'[u] = status[u]
        /\ \A u \in Runs : IF Active(u) THEN pc'[u] = "dead" ELSE pc'[u] = pc[u]
    BY <1>6, <1>t DEF Crash
  <2>2. Remembered' \subseteq InFile /\ InFile' = InFile
    BY <2>1 DEF Remembered, InFile
  <2>3. \A e : TrueEntry(e)' <=> TrueEntry(e)
    BY <2>1 DEF TrueEntry, Number
  <2>4. Saved' /\ AllTrue'
    BY <1>i, <2>1, <2>2, <2>3 DEF Saved, AllTrue, Active, Ended
  <2>5. ASSUME NEW u \in Runs PROVE CountsOf(u)' /\ HaltsOf(u)'
    <3>1. CASE pc'[u] = "dead"
      BY <3>1 DEF CountsOf, HaltsOf
    <3>2. CASE pc'[u] = pc[u]
      BY <1>i, <2>1, <3>2, OthersCount DEF Counts, Halting
    <3> QED
      BY <2>1, <3>1, <3>2
  <2> QED
    BY <2>4, <2>5 DEF Counts, Halting
<1>7. CASE UNCHANGED vars
  <2>1. UNCHANGED <<pc, at, stops, done, results, completed, failed, status, history, file>>
    BY <1>7 DEF vars, dictVars, runVars, fileVars
  <2>2. Saved' /\ AllTrue'
    BY <1>i, <2>1, EntriesStay
  <2>3. \A u \in Runs : CountsOf(u)' /\ HaltsOf(u)'
    BY <1>i, <2>1, OthersCount DEF Counts, Halting
  <2> QED
    BY <2>2, <2>3 DEF Counts, Halting
<1> QED
  BY <1>1, <1>2, <1>3, <1>4, <1>5, <1>6, <1>7 DEF Next, RunStep

(***************************************************************************)
(* As long as runs and resets do not overlap, each entry of the history    *)
(* tells what the executors answered that run: results, counts, and        *)
(* "halted" exactly when a failure stopped it.                             *)
(***************************************************************************)
THEOREM HistoryIsTrue == Spec => []HistoryTrue
<1>1. Init => IInv
  BY TypeInit, StopInit, SoleInit, TruthInit DEF IInv
<1>2. IInv /\ [Next]_vars => IInv'
  BY TypeStep, StopStep, SoleStep, TruthStep DEF IInv
<1>3. IInv => HistoryTrue
  BY DEF IInv, TruthInv, AllTrue, Remembered, HistoryTrue
<1> QED
  BY <1>1, <1>2, <1>3, PTL DEF Spec

=============================================================================
