---------------------------- MODULE PipelineRuns ----------------------------
(***************************************************************************)
(* Pipeline runs in the bridge: POST /pipeline, POST /reset and the run    *)
(* history (bridge/bridge.py).                                             *)
(*                                                                         *)
(* The state of a run is a dictionary bound to one module global, and the  *)
(* route reads the global anew at every statement, in a pool thread that   *)
(* waits for an executor between two of them: a second run binds the       *)
(* global to a dictionary of its own, /reset to an empty one.              *)
(***************************************************************************)
EXTENDS Naturals, Sequences, FiniteSets

CONSTANTS
    Runs,         \* run ids; each is started at most once
    Kinds,        \* Kinds[k]: what step k of the project names
    MaxHistory,   \* 100: how many runs the history keeps
    MaxResets,    \* bound: POST /reset
    MaxRestarts   \* bound: crashes of the bridge

Blank  == "blank"  \* the dictionary /reset binds, and the one at import
Steps  == DOMAIN Kinds
Within == Steps \cup {Len(Kinds) + 1}

ASSUME RunsAssumption  == Blank \notin Runs
ASSUME KindsAssumption ==
    Kinds \in Seq({"executor", "runtime", "neither"})
ASSUME BoundsAssumption == /\ MaxHistory \in Nat \ {0}
                           /\ MaxResets \in Nat /\ MaxRestarts \in Nat

(***************************************************************************)
(* Where the route is: "next" before it looks at step at[r], "call" in the *)
(* executor, "record" and "count" with its result, "end" after the last    *)
(* step or a failure that stops, then "save", "open" and "write" of the    *)
(* history.  "error" is the KeyError of a dictionary without its keys.     *)
(***************************************************************************)
Ended == {"unborn", "answered", "error", "dead"}
Pcs   == Ended \cup {"next", "call", "record", "count", "end", "save", "open",
                     "write"}
Results  == {"none", "ok", "failed"}
Statuses == {"none", "running", "complete", "halted"}

VARIABLES
    state,      \* PIPELINE_STATE: whose dictionary it is
    status,     \* status[d], completed[d], failed[d]: keys of dictionary d
    completed,
    failed,
    results,    \* results[d]: its nested dictionary, by step
    history,    \* PIPELINE_RUNS: copies that share the nested dictionary
    file,       \* pipeline_runs.json: a history, or whether it does not parse
    ready,      \* _runtime_mgr: did this start get as far as the runtimes?
    pc, at,     \* each run's place
    stops,      \* stops[r]: stop_on_error of the request
    done,       \* history: done[r], what the executors answered r
    overlaps,   \* history: was a run or a reset made during another run?
    behind,     \* history: did the last write fail, or this start not read?
    resets, restarts    \* bounds

dictVars == <<state, status, completed, failed, results>>
runVars  == <<pc, at, stops, done>>
fileVars == <<history, file, behind>>
histVars == <<overlaps, ready, resets, restarts>>
vars     == <<dictVars, runVars, fileVars, histVars>>

Dicts   == Runs \cup {Blank}
Entries == [run: Dicts, status: Statuses, completed: Nat, failed: Nat]

TypeOK ==
    /\ state \in Dicts
    /\ status \in [Dicts -> Statuses]
    /\ completed \in [Dicts -> Nat]
    /\ failed \in [Dicts -> Nat]
    /\ results \in [Dicts -> [Steps -> Results]]
    /\ history \in Seq(Entries) /\ Len(history) <= MaxHistory
    /\ file.parses \in BOOLEAN /\ file.runs \in Seq(Entries)
    /\ pc \in [Runs -> Pcs]
    /\ at \in [Runs -> Within]
    /\ stops \in [Runs -> BOOLEAN]
    /\ done \in [Runs -> [Steps -> Results]]
    /\ ready \in BOOLEAN /\ overlaps \in BOOLEAN /\ behind \in BOOLEAN
    /\ resets \in Nat /\ restarts \in Nat

NoResults == [k \in Steps |-> "none"]
Active(r) == pc[r] \notin Ended
Busy      == \E r \in Runs : Active(r)

Init ==
    /\ state = Blank
    /\ status    = [d \in Dicts |-> "none"]
    /\ completed = [d \in Dicts |-> 0]
    /\ failed    = [d \in Dicts |-> 0]
    /\ results   = [d \in Dicts |-> NoResults]
    /\ history = <<>> /\ file = [parses |-> TRUE, runs |-> <<>>]
    /\ pc    = [r \in Runs |-> "unborn"]
    /\ at    = [r \in Runs |-> 1]
    /\ stops = [r \in Runs |-> FALSE]
    /\ done  = [r \in Runs |-> NoResults]
    /\ ready \in BOOLEAN /\ overlaps = FALSE /\ behind = FALSE
    /\ resets = 0 /\ restarts = 0

-----------------------------------------------------------------------------
(* POST /pipeline: a fresh dictionary for the run, bound to the global. *)
Start(r) ==
    /\ pc[r] = "unborn"
    /\ pc' = [pc EXCEPT ![r] = "next"]
    /\ \E b \in BOOLEAN : stops' = [stops EXCEPT ![r] = b]
    /\ state' = r
    /\ status' = [status EXCEPT ![r] = "running"]
    /\ overlaps' = (overlaps \/ Busy)
    /\ UNCHANGED <<completed, failed, results, at, done, fileVars, ready, resets,
                   restarts>>

(* POST /reset. *)
Reset ==
    /\ resets < MaxResets
    /\ resets' = resets + 1
    /\ state' = Blank
    /\ status' = [status EXCEPT ![Blank] = "none"]
    /\ overlaps' = (overlaps \/ Busy)
    /\ UNCHANGED <<completed, failed, results, runVars, fileVars, ready, restarts>>

(* A step whose runtime is not there, because the start failed before it,  *)
(* is passed over like one that names nothing.                             *)
PassedOver(k) == Kinds[k] = "neither" \/ (Kinds[k] = "runtime" /\ ~ready)

(* The next step that has an executor or a runtime. *)
NextStep(r) ==
    /\ pc[r] = "next"
    /\ IF at[r] \notin Steps
       THEN pc' = [pc EXCEPT ![r] = "end"] /\ UNCHANGED at
       ELSE IF PassedOver(at[r])
            THEN at' = [at EXCEPT ![r] = @ + 1] /\ UNCHANGED pc
            ELSE pc' = [pc EXCEPT ![r] = "call"] /\ UNCHANGED at
    /\ UNCHANGED <<dictVars, stops, done, fileVars, histVars>>

(* The executor or the runtime answers; a refusal (approval, permission) is *)
(* a failed answer too.                                                     *)
Call(r) ==
    /\ pc[r] = "call"
    /\ \E a \in {"ok", "failed"} : done' = [done EXCEPT ![r][at[r]] = a]
    /\ pc' = [pc EXCEPT ![r] = "record"]
    /\ UNCHANGED <<dictVars, at, stops, fileVars, histVars>>

(* PIPELINE_STATE["results"][...] = result, which the empty dictionary      *)
(* refuses, and ctx.update, which an output that is no object does.         *)
RecordResult(r) ==
    /\ pc[r] = "record"
    /\ IF state = Blank
       THEN pc' = [pc EXCEPT ![r] = "error"] /\ UNCHANGED results
       ELSE /\ \E q \in {"count", "error"} : pc' = [pc EXCEPT ![r] = q]
            /\ results' = [results EXCEPT ![state][at[r]] = done[r][at[r]]]
    /\ UNCHANGED <<state, status, completed, failed, at, stops, done, fileVars,
                   histVars>>

(* Mutant: a failure does not end the loop. *)
StopsAfterNot(r) == FALSE

StopsAfter(r) == done[r][at[r]] = "failed" /\ stops[r]

(* Mutant: the last step's result is not counted. *)
CountButLast(r) ==
    /\ pc[r] = "count" /\ state # Blank
    /\ IF at[r] # Len(Kinds) /\ done[r][at[r]] = "ok"
       THEN completed' = [completed EXCEPT ![state] = @ + 1] ELSE UNCHANGED completed
    /\ pc' = [pc EXCEPT ![r] = IF StopsAfter(r) THEN "end" ELSE "next"]
    /\ at' = [at EXCEPT ![r] = IF StopsAfter(r) THEN @ ELSE @ + 1]
    /\ UNCHANGED <<state, status, failed, results, stops, done, fileVars, histVars>>

(* steps_completed or steps_failed += 1. *)
Count(r) ==
    /\ pc[r] = "count"
    /\ IF state = Blank
       THEN pc' = [pc EXCEPT ![r] = "error"] /\ UNCHANGED <<completed, failed, at>>
       ELSE /\ IF done[r][at[r]] = "ok"
               THEN completed' = [completed EXCEPT ![state] = @ + 1] /\ UNCHANGED failed
               ELSE failed' = [failed EXCEPT ![state] = @ + 1] /\ UNCHANGED completed
            /\ pc' = [pc EXCEPT ![r] = IF StopsAfter(r) THEN "end" ELSE "next"]
            /\ at' = [at EXCEPT ![r] = IF StopsAfter(r) THEN @ ELSE @ + 1]
    /\ UNCHANGED <<state, status, results, stops, done, fileVars, histVars>>

(* PIPELINE_STATE.update(...): any dictionary takes that. *)
Finish(r) ==
    /\ pc[r] = "end"
    /\ status' = [status EXCEPT ![state] = IF at[r] \in Steps THEN "halted"
                                                              ELSE "complete"]
    /\ pc' = [pc EXCEPT ![r] = "save"]
    /\ UNCHANGED <<state, completed, failed, results, at, stops, done, fileVars,
                   histVars>>

(* _save_pipeline_run: a shallow copy, newest first. *)
Entry(d) == [run |-> d, status |-> status[d], completed |-> completed[d],
             failed |-> failed[d]]

(* Mutants: the newest run is the one dropped; the history grows for ever. *)
KeptOldest(h) == IF Len(h) > MaxHistory THEN Tail(h) ELSE h
KeptAll(h)    == h

Kept(h) == IF Len(h) > MaxHistory THEN SubSeq(h, 1, MaxHistory) ELSE h

SaveRun(r) ==
    /\ pc[r] = "save"
    /\ history' = Kept(<<Entry(state)>> \o history)
    /\ pc' = [pc EXCEPT ![r] = "open"]
    /\ UNCHANGED <<dictVars, at, stops, done, file, behind, histVars>>

Cut == [parses |-> FALSE, runs |-> <<>>]

(* A write that fails is forgotten, and the run answered: open leaves the   *)
(* file as it is or truncates it, json.dump fills or leaves it cut short.   *)
OpenFile(r) ==
    /\ pc[r] = "open"
    /\ \/ file' = Cut /\ pc' = [pc EXCEPT ![r] = "write"] /\ UNCHANGED behind
       \/ behind' = TRUE /\ pc' = [pc EXCEPT ![r] = "answered"] /\ UNCHANGED file
    /\ UNCHANGED <<dictVars, at, stops, done, history, histVars>>

(* Mutant: the file keeps all but the newest run. *)
WriteFileLate(r) ==
    /\ pc[r] = "write"
    /\ file' = [parses |-> TRUE, runs |-> Tail(history)] /\ behind' = FALSE
    /\ pc' = [pc EXCEPT ![r] = "answered"]
    /\ UNCHANGED <<dictVars, at, stops, done, history, histVars>>

WriteFile(r) ==
    /\ pc[r] = "write"
    /\ \/ file' = [parses |-> TRUE, runs |-> history] /\ behind' = FALSE
       \/ file' = Cut /\ behind' = TRUE
    /\ pc' = [pc EXCEPT ![r] = "answered"]
    /\ UNCHANGED <<dictVars, at, stops, done, history, histVars>>

(* A crash and the next start, which reads the file unless the scheduler    *)
(* raised before it (then there are no runtimes either) or the file does.   *)
Crash ==
    /\ restarts < MaxRestarts
    /\ restarts' = restarts + 1
    /\ pc' = [r \in Runs |-> IF Active(r) THEN "dead" ELSE pc[r]]
    /\ state' = Blank
    /\ status' = [status EXCEPT ![Blank] = "none"]
    /\ ready' \in BOOLEAN
    /\ \/ ready' /\ history' = file.runs /\ behind' = FALSE
       \/ history' = <<>> /\ behind' = TRUE
    /\ UNCHANGED <<completed, failed, results, at, stops, done, file, overlaps,
                   resets>>

RunStep(r) ==
    NextStep(r) \/ Call(r) \/ RecordResult(r) \/ Count(r) \/ Finish(r)
    \/ SaveRun(r) \/ OpenFile(r) \/ WriteFile(r)

Next == (\E r \in Runs : Start(r) \/ RunStep(r)) \/ Reset \/ Crash

Spec == Init /\ [][Next]_vars

-----------------------------------------------------------------------------
(* What is meant to hold. *)

(* With stop_on_error no step is run after one that failed, whatever other *)
(* runs and resets do to the dictionary the run writes through.            *)
FailureStops ==
    \A r \in Runs : stops[r] =>
        \A j, k \in Steps : j < k /\ done[r][j] = "failed" => done[r][k] = "none"

Number(r, answer) == Cardinality({k \in Steps : done[r][k] = answer})

TrueEntry(e) ==
    /\ e.run \in Runs
    /\ results[e.run] = done[e.run]
    /\ e.completed = Number(e.run, "ok") /\ e.failed = Number(e.run, "failed")
    /\ e.status = IF stops[e.run] /\ e.failed > 0 THEN "halted" ELSE "complete"

(* As long as no run is started and nothing is reset during a run, each    *)
(* entry of the history tells what the executors answered that run.        *)
HistoryTrue == ~overlaps => \A i \in DOMAIN history : TrueEntry(history[i])

Writing == \E r \in Runs : pc[r] \in {"open", "write"}

(* Then the file has the history a restart needs, except during the write  *)
(* and until the next one succeeds after a write that failed, or a start   *)
(* that did not read the file (_save_pipeline_run, _load_pipeline_runs).   *)
HistoryOnDisk == ~overlaps /\ ~Writing /\ ~behind => file.runs = history

Listed(r) == \E i \in DOMAIN history : history[i].run = r

(* A run that is answered is in the history, and leaves it only for newer  *)
(* ones or, if it has been answered, in a crash during a write or after a  *)
(* write that failed, in a start that does not read the file, or with runs *)
(* that have overlapped.                                                   *)
AnsweredListed ==
    [][\A r \in Runs :
         /\ pc[r] \in {"open", "write"} /\ pc'[r] = "answered" /\ ~overlaps => Listed(r)
         /\ pc[r] = "answered" /\ Listed(r) /\ ~Listed(r)' =>
              \/ Len(history) = MaxHistory /\ Len(history') = MaxHistory
              \/ Crash /\ (overlaps \/ Writing \/ behind \/ behind')]_vars

=============================================================================
