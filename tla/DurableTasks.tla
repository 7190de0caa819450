---------------------------- MODULE DurableTasks ----------------------------
(***************************************************************************)
(* What bridge/task_worker.py promises of its tasks, its threads and its   *)
(* lock left out: a store that keeps one record per task in memory and the *)
(* whole of it, written at once, in one image on disk.                     *)
(*                                                                         *)
(* A request (create, cancel, retry) changes one task and is answered only *)
(* when the image has it.  Runs change tasks in memory and write later.  A *)
(* crash goes back to the image, what was running is queued again; and the *)
(* image is at risk only while it is being written.                        *)
(***************************************************************************)
EXTENDS Naturals, TLAPS

CONSTANTS
    Tasks,       \* task ids
    Runs,        \* those who run tasks, several of them perhaps the same one
    MaxRetries   \* MaxRetries[t]: failures of t that are retried

Absent == [status |-> "absent", attempts |-> 0]

VARIABLES
    memory,    \* the record of each task
    image,     \* the records a restart would find
    writing,   \* is the image being written?
    answered,  \* tasks whose creation was answered
    uncounted  \* <<r, t>>: r has marked t running and not counted the attempt

vars == <<memory, image, writing, answered, uncounted>>

Present(t) == memory[t] # Absent

Init ==
    /\ memory = [t \in Tasks |-> Absent]
    /\ image = memory
    /\ writing = TRUE
    /\ answered = {}
    /\ uncounted = {}

(* The image holds what memory holds; whoever waits for it is answered. *)
EndWrite ==
    /\ writing /\ ~writing'
    /\ image' = memory
    /\ answered' \in {answered, answered \cup {t \in Tasks : Present(t)}}
    /\ UNCHANGED <<memory, uncounted>>

StartWrite ==
    ~writing /\ writing' /\ UNCHANGED <<memory, image, answered, uncounted>>

-----------------------------------------------------------------------------
(* Requests exclude each other and every write. *)

Request(t, r) ==
    /\ ~writing /\ writing'
    /\ memory' = [memory EXCEPT ![t] = r]
    /\ UNCHANGED <<image, answered, uncounted>>

(* Ids are fresh: a task that is gone is not created again. *)
Create(t) ==
    /\ ~Present(t) /\ t \notin answered
    /\ Request(t, [status |-> "queued", attempts |-> 0])

Cancel(t) ==
    /\ Present(t) /\ memory[t].status \notin {"complete", "cancelled"}
    /\ Request(t, [memory[t] EXCEPT !.status = "cancelled"])

Retry(t) ==
    /\ memory[t].status \in {"failed", "blocked"}
    /\ Request(t, [memory[t] EXCEPT !.status = "queued"])

-----------------------------------------------------------------------------
(* Runs.  A run marks its task, whatever becomes of that before it counts  *)
(* the attempt: another run of the task may end in between.  A failed one  *)
(* goes back to the queue only within the retries, by the attempts counted *)
(* so far.                                                                 *)

Begin(r, t) ==
    /\ Present(t)
    /\ \A u \in Tasks : <<r, u>> \notin uncounted
    /\ memory' = [memory EXCEPT ![t].status = "running"]
    /\ uncounted' = uncounted \cup {<<r, t>>}
    /\ UNCHANGED <<image, writing, answered>>

Count(r, t) ==
    /\ Present(t)
    /\ <<r, t>> \in uncounted
    /\ memory' = [memory EXCEPT ![t].attempts = @ + 1]
    /\ uncounted' = uncounted \ {<<r, t>>}
    /\ UNCHANGED <<image, writing, answered>>

Finish(t) ==
    /\ Present(t)
    /\ \E s \in {"complete", "failed", "blocked", "queued"} :
         /\ s = "queued" => memory[t].attempts <= MaxRetries[t]
         /\ memory' = [memory EXCEPT ![t].status = s]
    /\ UNCHANGED <<image, writing, answered, uncounted>>

-----------------------------------------------------------------------------
Requeued(r) == IF r.status = "running" THEN [r EXCEPT !.status = "queued"] ELSE r

Recover ==
    /\ writing'
    /\ memory' = [t \in Tasks |-> Requeued(image[t])]
    /\ uncounted' = {}
    /\ UNCHANGED <<image, answered>>

(* A crash inside a write. *)
Wipe ==
    /\ writing
    /\ memory' = [t \in Tasks |-> Absent]
    /\ image' = memory'
    /\ uncounted' = {}
    /\ UNCHANGED <<writing, answered>>

(* A run that ends as its task was is no step. *)
Change ==
    /\ memory' # memory \/ uncounted' # uncounted
    /\ \E t \in Tasks :
         \/ Create(t) \/ Cancel(t) \/ Retry(t) \/ Finish(t)
         \/ \E r \in Runs : Begin(r, t) \/ Count(r, t)

Next == StartWrite \/ EndWrite \/ Recover \/ Wipe \/ Change

Spec == Init /\ [][Next]_vars

(***************************************************************************)
(* Of a task whose creation was answered, nothing but a crash inside a     *)
(* write ever takes the record away.                                       *)
(***************************************************************************)
AnsweredKept ==
    [][\A t \in answered : Present(t) => Present(t)' \/ Wipe]_vars

-----------------------------------------------------------------------------
(* The image has every answered task that memory has; that is what a       *)
(* restart relies on.                                                      *)
Records  == [status: {"absent", "queued", "running", "complete", "failed",
                      "blocked", "cancelled"}, attempts: Nat]
InImage  == \A t \in answered : Present(t) => image[t] # Absent
StoreInv == /\ memory \in [Tasks -> Records] /\ image \in [Tasks -> Records]
            /\ answered \subseteq Tasks /\ InImage

LEMMA RecordStep == StoreInv /\ [Next]_vars => StoreInv'
<1> SUFFICES ASSUME StoreInv, [Next]_vars PROVE StoreInv'
  OBVIOUS
<1> USE DEF StoreInv, Records, InImage, Present, Absent
<1>1. CASE StartWrite \/ EndWrite \/ UNCHANGED vars
  BY <1>1 DEF StartWrite, EndWrite, vars
<1>2. CASE Recover
  BY <1>2 DEF Recover, Requeued
<1>3. CASE Wipe
  BY <1>3 DEF Wipe
<1>4. ASSUME NEW t \in Tasks, Create(t) \/ Cancel(t) \/ Retry(t)
      PROVE  StoreInv'
  BY <1>4 DEF Create, Cancel, Retry, Request
<1>5. ASSUME NEW t \in Tasks, Finish(t)
      PROVE  StoreInv'
  BY <1>5 DEF Finish
<1>6. ASSUME NEW t \in Tasks, NEW r \in Runs, Begin(r, t)
      PROVE  StoreInv'
  BY <1>6 DEF Begin
<1>7. ASSUME NEW t \in Tasks, NEW r \in Runs, Count(r, t)
      PROVE  StoreInv'
  BY <1>7 DEF Count
<1> QED
  BY <1>1, <1>2, <1>3, <1>4, <1>5, <1>6, <1>7 DEF Next, Change

(***************************************************************************)
(* However requests, runs and crashes follow each other, an answered task  *)
(* stays until a crash cuts a write short.                                 *)
(***************************************************************************)
THEOREM AnsweredAreKept == Spec => AnsweredKept
<1>1. Init => StoreInv
  BY DEF Init, StoreInv, Records, InImage, Present, Absent
<1>2. StoreInv /\ [Next]_vars => [\A t \in answered : Present(t) => Present(t)' \/ Wipe]_vars
  <2> SUFFICES ASSUME StoreInv, [Next]_vars, ~Wipe, NEW t \in answered, Present(t)
               PROVE  Present(t)'
    OBVIOUS
  <2> USE DEF StoreInv, Records, InImage, Present, Absent
  <2>1. CASE StartWrite \/ EndWrite \/ Recover \/ UNCHANGED vars
    BY <2>1 DEF StartWrite, EndWrite, Recover, Requeued, vars
  <2>2. ASSUME NEW u \in Tasks, Create(u) \/ Cancel(u) \/ Retry(u) \/ Finish(u)
        PROVE  Present(t)'
    BY <2>2 DEF Create, Cancel, Retry, Request, Finish
  <2>3. ASSUME NEW u \in Tasks, NEW r \in Runs, Begin(r, u) \/ Count(r, u)
        PROVE  Present(t)'
    BY <2>3 DEF Begin, Count
  <2> QED
    BY <2>1, <2>2, <2>3 DEF Next, Change
<1> QED
  BY <1>1, <1>2, RecordStep, PTL DEF Spec, AnsweredKept

=============================================================================
