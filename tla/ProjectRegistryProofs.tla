------------------------ MODULE ProjectRegistryProofs ------------------------
(***************************************************************************)
(* What holds of the agent registry for any agents, skills, requests and   *)
(* crashes: its types, that validation is exact, that the routes are sound *)
(* and that project.json is current.                                       *)
(***************************************************************************)
EXTENDS ProjectRegistry, RoutingGraphProofs

(* A process that is not on its way to a save has nowhere to go from one;  *)
(* the agent of a request under way is still registered.                   *)
Shape ==
    /\ \A p \in Procs : at[p] \notin {"open", "write"} => after[p] = "idle"
    /\ at["loop"] = "attach" \/ after["loop"] = "attach" => form.agent \in registered
    /\ at["ceo"] = "append" => task.agent \in registered

FileShape ==
    /\ \A a \in Ids \ file.registered : file.skills[a] = NoSkill /\ file.outputs[a] = {}
    /\ ~file.parses => file.registered = {}
    /\ file.edited \subseteq file.registered

Inv == TypeOK /\ Shape /\ FileShape

(* The parts of TypeOK. *)
MemoryOK ==
    /\ registered \subseteq Ids
    /\ skills \in [Ids -> [Skills -> Listing]]
    /\ outputs \in [Ids -> SUBSET Ids]
    /\ dirty \in BOOLEAN
    /\ \A a \in Ids \ registered : skills[a] = NoSkill /\ outputs[a] = {}

ProcsOK ==
    /\ at \in [Procs -> Places] /\ after \in [Procs -> {"idle", "attach", "mark"}]
    /\ form \in [agent : Ids, skills : SUBSET Skills]
    /\ plan \subseteq Ids \X Ids
    /\ task \in [agent : Ids, skill : Skills, stale : BOOLEAN]

HistoryOK ==
    /\ mixed \in BOOLEAN /\ torn \in BOOLEAN /\ failed \in BOOLEAN
    /\ todo \subseteq registered
    /\ edited \subseteq registered /\ unsaved \subseteq registered
    /\ taught \subseteq registered \X Skills

CountsOK == requests \in 0 .. MaxRequests /\ restarts \in 0 .. MaxRestarts

LEMMA TypeParts ==
  TypeOK <=> MemoryOK /\ ProcsOK /\ HistoryOK /\ CountsOK /\ file \in Manifests
  BY DEF TypeOK, MemoryOK, ProcsOK, HistoryOK, CountsOK

LEMMA InvParts ==
  Inv => /\ MemoryOK /\ ProcsOK /\ HistoryOK /\ CountsOK /\ file \in Manifests
         /\ Shape /\ FileShape
  BY TypeParts DEF Inv

LEMMA InvNext ==
  /\ MemoryOK' /\ ProcsOK' /\ HistoryOK' /\ CountsOK' /\ file' \in Manifests
  /\ Shape' /\ FileShape'
  => Inv'
  BY DEF Inv, TypeOK, MemoryOK, ProcsOK, HistoryOK, CountsOK

LEMMA SomeTypes ==
  /\ NoForm \in [agent : Ids, skills : SUBSET Skills]
  /\ NoTask \in [agent : Ids, skill : Skills, stale : BOOLEAN]
  /\ NoManifest \in Manifests /\ NoManifest.registered = {} /\ ~NoManifest.parses
  /\ NoManifest.skills = NoSkills /\ NoManifest.outputs = NoOutputs
  /\ NoManifest.edited = {} /\ ~NoManifest.mixed
  /\ NoSkills \in [Ids -> [Skills -> Listing]] /\ NoOutputs \in [Ids -> SUBSET Ids]
  /\ \A a \in Ids : NoSkills[a] = NoSkill /\ NoOutputs[a] = {}
<1>1. Some(Ids) \in Ids /\ Some(Skills) \in Skills
  BY GivenAssumption DEF Some
<1>2. NoSkills \in [Ids -> [Skills -> Listing]] /\ NoOutputs \in [Ids -> SUBSET Ids]
  BY DEF NoSkills, NoSkill, NoOutputs, Listing
<1>3. \A a \in Ids : NoSkills[a] = NoSkill /\ NoOutputs[a] = {}
  BY DEF NoSkills, NoOutputs
<1>4. /\ NoForm \in [agent : Ids, skills : SUBSET Skills]
      /\ NoTask \in [agent : Ids, skill : Skills, stale : BOOLEAN]
  BY <1>1 DEF NoForm, NoTask
<1>5. /\ NoManifest \in Manifests /\ NoManifest.registered = {} /\ ~NoManifest.parses
      /\ NoManifest.skills = NoSkills /\ NoManifest.outputs = NoOutputs
      /\ NoManifest.edited = {} /\ ~NoManifest.mixed
  BY <1>2 DEF NoManifest, Manifests
<1> QED
  BY <1>2, <1>3, <1>4, <1>5

LEMMA ManifestType ==
  ASSUME MemoryOK, HistoryOK
  PROVE  /\ Manifest \in Manifests /\ Manifest.parses
         /\ Manifest.registered = registered /\ Manifest.dirty = dirty
         /\ Manifest.skills = skills /\ Manifest.outputs = outputs
         /\ Manifest.edited = edited /\ Manifest.mixed = (mixed \/ torn)
  BY DEF Manifest, Manifests, MemoryOK, HistoryOK

LEMMA ManifestNext ==
  ASSUME MemoryOK', HistoryOK'
  PROVE  /\ Manifest' \in Manifests /\ Manifest'.parses
         /\ Manifest'.registered = registered' /\ Manifest'.dirty = dirty'
         /\ Manifest'.skills = skills' /\ Manifest'.outputs = outputs'
         /\ Manifest'.edited = edited' /\ Manifest'.mixed = (mixed' \/ torn')
  BY DEF Manifest, Manifests, MemoryOK, HistoryOK

(* A new row in the table of skills. *)
LEMMA NewRow ==
  ASSUME MemoryOK, NEW a \in Ids, NEW row \in [Skills -> Listing]
  PROVE  /\ [skills EXCEPT ![a] = row] \in [Ids -> [Skills -> Listing]]
         /\ \A b \in Ids \ {a} : [skills EXCEPT ![a] = row][b] = skills[b]
  BY DEF MemoryOK

LEMMA ListRow ==
  ASSUME MemoryOK, NEW a \in Ids, NEW S, NEW how \in Listing
  PROVE  /\ List(a, S, how) \in [Ids -> [Skills -> Listing]]
         /\ \A b \in Ids \ {a} : List(a, S, how)[b] = skills[b]
<1> DEFINE row == [s \in Skills |-> IF s \in S /\ skills[a][s] = "no" THEN how ELSE skills[a][s]]
<1>1. row \in [Skills -> Listing]
  BY DEF MemoryOK, Listing
<1>2. List(a, S, how) = [skills EXCEPT ![a] = row]
  BY DEF List, MemoryOK
<1> HIDE DEF row
<1> QED
  BY <1>1, <1>2, NewRow

LEMMA SaveThenType ==
  ASSUME ProcsOK, NEW p \in Procs, NEW then \in {"idle", "attach", "mark"},
         SaveThen(p, then)
  PROVE  /\ at' \in [Procs -> Places] /\ after' \in [Procs -> {"idle", "attach", "mark"}]
         /\ at'[p] = "open" /\ after'[p] = then
         /\ \A q \in Procs \ {p} : at'[q] = at[q] /\ after'[q] = after[q]
  BY DEF SaveThen, ProcsOK, Places

LEMMA GoType ==
  ASSUME ProcsOK, NEW p \in Procs, NEW place \in Places, at' = [at EXCEPT ![p] = place]
  PROVE  /\ at' \in [Procs -> Places]
         /\ at'[p] = place /\ \A q \in Procs \ {p} : at'[q] = at[q]
  BY DEF ProcsOK

LEMMA BeginCounts ==
  ASSUME CountsOK, NEW p \in Procs, Begin(p)
  PROVE  CountsOK' /\ at[p] = "idle" /\ Loaded
  BY BoundsAssumption DEF CountsOK, Begin

LEMMA InitInv == Init => Inv
<1> SUFFICES ASSUME Init
             PROVE  Inv
  OBVIOUS
<1>1. MemoryOK
  BY SomeTypes, GivenAssumption DEF Init, MemoryOK
<1>2. ProcsOK
  BY SomeTypes DEF Init, ProcsOK, Places
<1>3. HistoryOK
  BY DEF Init, HistoryOK
<1>6. CountsOK
  <2>1. requests = 0 /\ restarts = 0
    BY DEF Init
  <2> QED
    BY <2>1, BoundsAssumption DEF CountsOK
<1>4. file \in Manifests /\ FileShape
  <2>1. /\ file = [NoManifest EXCEPT !.parses = TRUE, !.registered = Given]
        /\ Given \subseteq Ids
    BY GivenAssumption DEF Init
  <2>2. /\ file \in Manifests /\ file.parses
        /\ file.skills = NoManifest.skills /\ file.outputs = NoManifest.outputs
        /\ file.edited = NoManifest.edited
    BY <2>1, SomeTypes DEF Manifests
  <2> QED
    BY <2>2, SomeTypes DEF FileShape
<1>5. Shape
  BY DEF Init, Shape, Procs
<1> QED
  BY <1>1, <1>2, <1>3, <1>4, <1>5, <1>6, TypeParts DEF Inv

-----------------------------------------------------------------------------
(* Each action keeps them. *)
LEMMA CreateInv ==
  ASSUME Inv, NEW a \in Ids, Create(a)
  PROVE  Inv'
<1>0. /\ MemoryOK /\ ProcsOK /\ HistoryOK /\ CountsOK /\ file \in Manifests
      /\ Shape /\ FileShape
  BY InvParts
<1>1. PICK S \in SUBSET Skills :
        /\ form' = [agent |-> a, skills |-> S]
        /\ skills' = [skills EXCEPT ![a] = [s \in Skills |->
                                              IF s \in S THEN "bare" ELSE "no"]]
  BY DEF Create
<1>2. [s \in Skills |-> IF s \in S THEN "bare" ELSE "no"] \in [Skills -> Listing]
  BY DEF Listing
<1>3. MemoryOK'
  <2> DEFINE row == [s \in Skills |-> IF s \in S THEN "bare" ELSE "no"]
  <2>1. /\ registered' = registered \cup {a} /\ skills' = [skills EXCEPT ![a] = row]
        /\ outputs' = [outputs EXCEPT ![a] = {}] /\ dirty' = TRUE
    BY <1>1 DEF Create
  <2> HIDE DEF row
  <2>2. /\ skills' \in [Ids -> [Skills -> Listing]]
        /\ \A b \in Ids \ {a} : skills'[b] = skills[b]
    BY <1>0, <1>2, <2>1, NewRow DEF row
  <2> QED
    BY <1>0, <2>1, <2>2 DEF MemoryOK
<1>4. /\ SaveThen("loop", "attach") /\ Begin("loop")
      /\ task' = [task EXCEPT !.stale = @ \/ (at["ceo"] = "append" /\ task.agent = a)]
      /\ plan' = plan /\ file' = file
  BY DEF Create
<1>5. /\ at' \in [Procs -> Places] /\ after' \in [Procs -> {"idle", "attach", "mark"}]
      /\ at'["loop"] = "open" /\ after'["loop"] = "attach"
      /\ \A q \in Procs \ {"loop"} : at'[q] = at[q] /\ after'[q] = after[q]
  BY <1>0, <1>4, SaveThenType DEF Procs
<1>6. /\ task' \in [agent : Ids, skill : Skills, stale : BOOLEAN]
      /\ task'.agent = task.agent
  BY <1>0, <1>4 DEF ProcsOK
<1>7. form' \in [agent : Ids, skills : SUBSET Skills] /\ form'.agent = a
  BY <1>1
<1>8. ProcsOK'
  BY <1>0, <1>4, <1>5, <1>6, <1>7 DEF ProcsOK
<1>9. HistoryOK'
  BY <1>0 DEF Create, Untaught, HistoryOK, Disturb
<1>10. CountsOK'
  BY <1>0, <1>4, BeginCounts DEF Procs
<1>11. Shape'
  <2>1. registered' = registered \cup {a}
    BY DEF Create
  <2> QED
    BY <1>0, <1>5, <1>6, <1>7, <2>1 DEF Shape, Procs
<1>12. FileShape' /\ file' \in Manifests
  BY <1>0, <1>4 DEF FileShape
<1> QED
  BY <1>3, <1>8, <1>9, <1>10, <1>11, <1>12, InvNext

LEMMA AttachInv ==
  ASSUME Inv, Attach
  PROVE  Inv'
<1>0. /\ MemoryOK /\ ProcsOK /\ HistoryOK /\ CountsOK /\ file \in Manifests
      /\ Shape /\ FileShape
  BY InvParts
<1> DEFINE a == form.agent
           row(S) == [s \in Skills |-> IF s \in S THEN "text" ELSE "no"]
<1>1. a \in registered /\ a \in Ids /\ form.skills \in SUBSET Skills
  BY <1>0 DEF Attach, Shape, ProcsOK, MemoryOK
<1>2. /\ UNCHANGED <<registered, outputs, dirty, file, after, plan, todo, task, edited,
                     mixed, failed, requests, restarts>>
      /\ torn' \in BOOLEAN
      /\ at' = [at EXCEPT !["loop"] = "idle"] /\ at["loop"] = "attach" /\ form' = NoForm
  BY <1>0 DEF Attach, bounds, Disturb, HistoryOK
<1>3. PICK S \in SUBSET form.skills :
        IF S = {} THEN UNCHANGED <<skills, unsaved, taught>>
        ELSE /\ skills' = [skills EXCEPT ![a] = row(S)]
             /\ unsaved' = unsaved \cup {a}
             /\ taught' = Untaught(a) \cup ({a} \X S)
  BY DEF Attach
<1>4. row(S) \in [Skills -> Listing]
  BY DEF Listing
<1> HIDE DEF a, row
<1>5. /\ skills' \in [Ids -> [Skills -> Listing]]
      /\ \A b \in Ids \ {a} : skills'[b] = skills[b]
  <2>1. CASE S = {}
    BY <1>0, <1>3, <2>1 DEF MemoryOK
  <2>2. CASE S # {}
    BY <1>0, <1>1, <1>3, <1>4, <2>2, NewRow
  <2> QED
    BY <2>1, <2>2
<1>6. MemoryOK'
  BY <1>0, <1>1, <1>2, <1>5 DEF MemoryOK
<1>7. HistoryOK'
  <2>1. CASE S = {}
    BY <1>0, <1>2, <1>3, <2>1 DEF HistoryOK
  <2>2. CASE S # {}
    BY <1>0, <1>1, <1>2, <1>3, <2>2 DEF HistoryOK, Untaught
  <2> QED
    BY <2>1, <2>2
<1>8. /\ at' \in [Procs -> Places] /\ at'["loop"] = "idle"
      /\ \A q \in Procs \ {"loop"} : at'[q] = at[q]
  BY <1>0, <1>2, GoType DEF Procs, Places
<1>9. ProcsOK'
  BY <1>0, <1>2, <1>8, SomeTypes DEF ProcsOK
<1>10. after["loop"] = "idle"
  BY <1>0, <1>2 DEF Shape, Procs
<1>11. Shape'
  BY <1>0, <1>2, <1>8, <1>10 DEF Shape, Procs
<1>12. FileShape' /\ CountsOK' /\ file' \in Manifests
  BY <1>0, <1>2 DEF FileShape, CountsOK
<1> QED
  BY <1>6, <1>7, <1>9, <1>11, <1>12, InvNext

LEMMA SkillsAssignInv ==
  ASSUME Inv, NEW a \in Ids, NEW s \in Skills, SkillsAssign(a, s)
  PROVE  Inv'
<1>0. /\ MemoryOK /\ ProcsOK /\ HistoryOK /\ CountsOK /\ file \in Manifests
      /\ Shape /\ FileShape
  BY InvParts
<1>1. /\ UNCHANGED <<registered, outputs, dirty, file, at, after, form, plan, todo, task,
                     edited, mixed, failed>>
      /\ Disturb
      /\ a \in registered /\ Begin("loop")
      /\ skills' = List(a, {s}, "text")
  BY DEF SkillsAssign, procVars
<1>2. /\ skills' \in [Ids -> [Skills -> Listing]]
      /\ \A b \in Ids \ {a} : skills'[b] = skills[b]
  BY <1>0, <1>1, ListRow DEF Listing
<1>3. MemoryOK'
  BY <1>0, <1>1, <1>2 DEF MemoryOK
<1>4. HistoryOK'
  BY <1>0, <1>1 DEF SkillsAssign, HistoryOK, Disturb
<1>5. ProcsOK' /\ Shape' /\ FileShape' /\ file' \in Manifests
  BY <1>0, <1>1 DEF ProcsOK, Shape, FileShape
<1>6. CountsOK'
  BY <1>0, <1>1, BeginCounts DEF Procs
<1> QED
  BY <1>3, <1>4, <1>5, <1>6, InvNext

LEMMA AgentAssignInv ==
  ASSUME Inv, NEW a \in Ids, NEW S \in SUBSET Skills, AgentAssign(a, S)
  PROVE  Inv'
<1>0. /\ MemoryOK /\ ProcsOK /\ HistoryOK /\ CountsOK /\ file \in Manifests
      /\ Shape /\ FileShape
  BY InvParts
<1>1. /\ UNCHANGED <<registered, outputs, file, form, plan, todo, task, edited, mixed,
                     failed>>
      /\ Disturb
      /\ dirty' = TRUE /\ Begin("loop") /\ SaveThen("loop", "idle")
  BY DEF AgentAssign
<1>2. /\ skills' \in [Ids -> [Skills -> Listing]]
      /\ \A b \in Ids \ registered : skills'[b] = skills[b]
  <2>1. CASE a \in registered
    BY <1>0, <2>1, ListRow DEF Listing, AgentAssign
  <2>2. CASE a \notin registered
    BY <1>0, <2>2 DEF AgentAssign, MemoryOK
  <2> QED
    BY <2>1, <2>2
<1>3. MemoryOK'
  BY <1>0, <1>1, <1>2 DEF MemoryOK
<1>4. HistoryOK'
  BY <1>0, <1>1 DEF AgentAssign, HistoryOK, Disturb
<1>5. /\ at' \in [Procs -> Places] /\ after' \in [Procs -> {"idle", "attach", "mark"}]
      /\ at'["loop"] = "open" /\ after'["loop"] = "idle"
      /\ \A q \in Procs \ {"loop"} : at'[q] = at[q] /\ after'[q] = after[q]
  BY <1>0, <1>1, SaveThenType DEF Procs
<1>6. ProcsOK'
  BY <1>0, <1>1, <1>5 DEF ProcsOK
<1>7. Shape' /\ FileShape' /\ file' \in Manifests
  BY <1>0, <1>1, <1>5 DEF Shape, FileShape, Procs
<1>8. CountsOK'
  BY <1>0, <1>1, BeginCounts DEF Procs
<1> QED
  BY <1>3, <1>4, <1>6, <1>7, <1>8, InvNext

LEMMA PatchInv ==
  ASSUME Inv, NEW a \in Ids, Patch(a)
  PROVE  Inv'
<1>0. /\ MemoryOK /\ ProcsOK /\ HistoryOK /\ CountsOK /\ file \in Manifests
      /\ Shape /\ FileShape
  BY InvParts
<1>1. /\ UNCHANGED <<registered, dirty, file, form, plan, todo, task, mixed, failed>>
      /\ Disturb
      /\ a \in registered /\ Begin("loop") /\ SaveThen("loop", "mark")
  BY DEF Patch
<1>2. \/ /\ \E B \in Edits : outputs' = [outputs EXCEPT ![a] = B]
         /\ edited' = edited \cup {a}
         /\ UNCHANGED <<skills, unsaved, taught>>
      \/ /\ \E S \in SUBSET Skills :
              skills' = [skills EXCEPT ![a] = [s \in Skills |->
                                                 IF s \in S THEN "text" ELSE "no"]]
         /\ unsaved' = unsaved \cup {a} /\ taught' = Untaught(a)
         /\ UNCHANGED <<outputs, edited>>
  BY DEF Patch
<1>3. /\ skills' \in [Ids -> [Skills -> Listing]]
      /\ \A b \in Ids \ {a} : skills'[b] = skills[b]
  <2>1. CASE UNCHANGED skills
    BY <1>0, <2>1 DEF MemoryOK
  <2>2. ASSUME NEW S \in SUBSET Skills,
               skills' = [skills EXCEPT ![a] = [s \in Skills |->
                                                  IF s \in S THEN "text" ELSE "no"]]
        PROVE  /\ skills' \in [Ids -> [Skills -> Listing]]
               /\ \A b \in Ids \ {a} : skills'[b] = skills[b]
    <3> DEFINE row == [s \in Skills |-> IF s \in S THEN "text" ELSE "no"]
    <3>1. row \in [Skills -> Listing]
      BY DEF Listing
    <3>2. skills' = [skills EXCEPT ![a] = row]
      BY <2>2
    <3> HIDE DEF row
    <3> QED
      BY <1>0, <3>1, <3>2, NewRow
  <2> QED
    BY <1>2, <2>1, <2>2
<1>4. outputs' \in [Ids -> SUBSET Ids] /\ \A b \in Ids \ {a} : outputs'[b] = outputs[b]
  BY <1>0, <1>2, EditsAssumption DEF MemoryOK
<1>5. MemoryOK'
  BY <1>0, <1>1, <1>3, <1>4 DEF MemoryOK
<1>6. HistoryOK'
  BY <1>0, <1>1, <1>2 DEF HistoryOK, Untaught, Disturb
<1>7. /\ at' \in [Procs -> Places] /\ after' \in [Procs -> {"idle", "attach", "mark"}]
      /\ at'["loop"] = "open" /\ after'["loop"] = "mark"
      /\ \A q \in Procs \ {"loop"} : at'[q] = at[q] /\ after'[q] = after[q]
  BY <1>0, <1>1, SaveThenType DEF Procs
<1>8. ProcsOK'
  BY <1>0, <1>1, <1>7 DEF ProcsOK
<1>9. Shape' /\ FileShape' /\ file' \in Manifests
  BY <1>0, <1>1, <1>7 DEF Shape, FileShape, Procs
<1>10. CountsOK'
  BY <1>0, <1>1, BeginCounts DEF Procs
<1> QED
  BY <1>5, <1>6, <1>8, <1>9, <1>10, InvNext

(* Steps that change only where a process is, its plan or its task. *)
LEMMA OnlyAt ==
  ASSUME Inv, NEW p \in Procs, NEW place \in Places \ {"attach", "append"},
         at' = [at EXCEPT ![p] = place] \/ at' = at,
         at[p] \notin {"open", "write"},
         plan' \subseteq Ids \X Ids,
         CountsOK', MemoryOK', HistoryOK',
         UNCHANGED <<registered, file, after, form, task>>
  PROVE  Inv'
<1>0. /\ MemoryOK /\ ProcsOK /\ HistoryOK /\ CountsOK /\ file \in Manifests
      /\ Shape /\ FileShape
  BY InvParts
<1>1. /\ at' \in [Procs -> Places]
      /\ at'[p] \in {place, at[p]} /\ \A q \in Procs \ {p} : at'[q] = at[q]
  BY <1>0, GoType DEF ProcsOK
<1>2. after[p] = "idle"
  BY <1>0 DEF Shape
<1>3. ProcsOK'
  BY <1>0, <1>1 DEF ProcsOK
<1>4. Shape'
  BY <1>0, <1>1, <1>2 DEF Shape, Procs
<1>5. FileShape'
  BY <1>0 DEF FileShape
<1> QED
  BY <1>0, <1>3, <1>4, <1>5, InvNext

(* The planner and the ceo on their way to a save, PATCH to its second. *)
LEMMA OnlySave ==
  ASSUME Inv, NEW p \in Procs, at[p] \notin {"open", "write"}, SaveThen(p, "idle"),
         MemoryOK', HistoryOK', CountsOK',
         task' \in [agent : Ids, skill : Skills, stale : BOOLEAN],
         task' = task \/ p = "ceo", plan' \subseteq Ids \X Ids,
         UNCHANGED <<registered, file, form>>
  PROVE  Inv'
<1>0. /\ MemoryOK /\ ProcsOK /\ HistoryOK /\ CountsOK /\ file \in Manifests
      /\ Shape /\ FileShape
  BY InvParts
<1>1. /\ at' \in [Procs -> Places] /\ after' \in [Procs -> {"idle", "attach", "mark"}]
      /\ at'[p] = "open" /\ after'[p] = "idle"
      /\ \A q \in Procs \ {p} : at'[q] = at[q] /\ after'[q] = after[q]
  BY <1>0, SaveThenType
<1>2. ProcsOK'
  BY <1>0, <1>1 DEF ProcsOK
<1>3. Shape'
  BY <1>0, <1>1 DEF Shape, Procs
<1>4. FileShape'
  BY <1>0 DEF FileShape
<1> QED
  BY <1>0, <1>2, <1>3, <1>4, InvNext

LEMMA MarkInv ==
  ASSUME Inv, Mark
  PROVE  Inv'
<1>0. /\ MemoryOK /\ ProcsOK /\ HistoryOK /\ CountsOK /\ file \in Manifests
      /\ Shape /\ FileShape
  BY InvParts
<1>1. /\ at["loop"] = "mark" /\ dirty' = TRUE /\ SaveThen("loop", "idle")
      /\ UNCHANGED <<registered, skills, outputs, file, form, plan, todo, task, edited,
                     mixed, unsaved, failed, taught, requests, restarts>>
      /\ Disturb
  BY DEF Mark, bounds
<1>2. MemoryOK' /\ HistoryOK' /\ CountsOK'
  BY <1>0, <1>1 DEF MemoryOK, HistoryOK, CountsOK, Disturb
<1>3. task' \in [agent : Ids, skill : Skills, stale : BOOLEAN] /\ plan' \subseteq Ids \X Ids
  BY <1>0, <1>1 DEF ProcsOK
<1> QED
  BY <1>1, <1>2, <1>3, OnlySave DEF Procs

LEMMA AskInv ==
  ASSUME Inv, AskForPlan \/ AskCeo
  PROVE  Inv'
<1>0. /\ MemoryOK /\ ProcsOK /\ HistoryOK /\ CountsOK /\ file \in Manifests
      /\ Shape /\ FileShape
  BY InvParts
<1>1. PICK p \in Procs : Begin(p) /\ at' = [at EXCEPT ![p] = "asked"]
  BY DEF AskForPlan, AskCeo, Procs
<1>2. UNCHANGED <<registered, skills, outputs, dirty, file, after, form, plan, todo, task,
                  edited, mixed, unsaved, torn, failed, taught>>
  BY DEF AskForPlan, AskCeo, memory, histVars
<1>3. MemoryOK' /\ HistoryOK' /\ plan' \subseteq Ids \X Ids
  BY <1>0, <1>2 DEF MemoryOK, HistoryOK, ProcsOK
<1>4. CountsOK' /\ at[p] = "idle"
  BY <1>0, <1>1, BeginCounts
<1> QED
  BY <1>1, <1>2, <1>3, <1>4, OnlyAt DEF Places

LEMMA PlannedInv ==
  ASSUME Inv, Planned
  PROVE  Inv'
<1>0. /\ MemoryOK /\ ProcsOK /\ HistoryOK /\ CountsOK /\ file \in Manifests
      /\ Shape /\ FileShape
  BY InvParts
<1>1. /\ at["planner"] = "asked"
      /\ at' = [at EXCEPT !["planner"] = "plan"] \/ at' = [at EXCEPT !["planner"] = "idle"]
      /\ plan' \subseteq Ids \X Ids
      /\ UNCHANGED <<registered, skills, outputs, dirty, file, after, form, todo, task,
                     edited, mixed, unsaved, torn, failed, taught, requests, restarts>>
  BY <1>0, PlansAssumption DEF Planned, memory, histVars, bounds, ProcsOK
<1>2. MemoryOK' /\ HistoryOK' /\ CountsOK'
  BY <1>0, <1>1 DEF MemoryOK, HistoryOK, CountsOK
<1> QED
  BY <1>1, <1>2, OnlyAt DEF Places, Procs

LEMMA CheckPlanInv ==
  ASSUME Inv, CheckPlan
  PROVE  Inv'
<1>0. /\ MemoryOK /\ ProcsOK /\ HistoryOK /\ CountsOK /\ file \in Manifests
      /\ Shape /\ FileShape
  BY InvParts
<1>1. /\ at["planner"] = "plan"
      /\ at' = [at EXCEPT !["planner"] = "idle"] \/ at' = [at EXCEPT !["planner"] = "apply"]
      /\ plan' \subseteq Ids \X Ids
      /\ UNCHANGED <<registered, skills, outputs, dirty, file, after, form, todo, task,
                     edited, mixed, unsaved, torn, failed, taught, requests, restarts>>
  BY <1>0 DEF CheckPlan, memory, histVars, bounds, ProcsOK
<1>2. MemoryOK' /\ HistoryOK' /\ CountsOK'
  BY <1>0, <1>1 DEF MemoryOK, HistoryOK, CountsOK
<1> QED
  BY <1>1, <1>2, OnlyAt DEF Places, Procs

LEMMA ApplyPlanInv ==
  ASSUME Inv, ApplyPlan
  PROVE  Inv'
<1>0. /\ MemoryOK /\ ProcsOK /\ HistoryOK /\ CountsOK /\ file \in Manifests
      /\ Shape /\ FileShape
  BY InvParts
<1>1. /\ at["planner"] = "apply" /\ plan' \subseteq Ids \X Ids
      /\ at' = [at EXCEPT !["planner"] = "assign"] \/ at' = [at EXCEPT !["planner"] = "idle"]
      /\ todo' \in {registered, todo} /\ mixed' \in {TRUE, mixed}
      /\ UNCHANGED <<registered, skills, outputs, dirty, file, after, form, task, edited,
                     unsaved, torn, failed, taught, requests, restarts>>
  BY <1>0 DEF ApplyPlan, memory, bounds, ProcsOK
<1>2. MemoryOK' /\ HistoryOK' /\ CountsOK'
  BY <1>0, <1>1 DEF MemoryOK, HistoryOK, CountsOK
<1> QED
  BY <1>1, <1>2, OnlyAt DEF Places, Procs

LEMMA AssignOutputsInv ==
  ASSUME Inv, NEW a \in Ids, AssignOutputs(a)
  PROVE  Inv'
<1>0. /\ MemoryOK /\ ProcsOK /\ HistoryOK /\ CountsOK /\ file \in Manifests
      /\ Shape /\ FileShape
  BY InvParts
<1>1. /\ at["planner"] = "assign" /\ a \in todo /\ at' = at /\ Disturb
      /\ outputs' = [outputs EXCEPT ![a] = PlanOf(a)]
      /\ edited' = edited \ {a} /\ todo' = todo \ {a}
      /\ UNCHANGED <<registered, skills, dirty, file, after, form, plan, task, mixed,
                     unsaved, failed, taught, requests, restarts>>
  BY DEF AssignOutputs, bounds
<1>2. a \in registered /\ PlanOf(a) \in SUBSET Ids
  BY <1>0, <1>1 DEF HistoryOK, PlanOf
<1>3. MemoryOK'
  BY <1>0, <1>1, <1>2 DEF MemoryOK
<1>4. HistoryOK' /\ CountsOK' /\ plan' \subseteq Ids \X Ids
  BY <1>0, <1>1 DEF HistoryOK, CountsOK, ProcsOK, Disturb
<1> QED
  BY <1>1, <1>3, <1>4, OnlyAt DEF Places, Procs

LEMMA CleanRoutingInv ==
  ASSUME Inv, CleanRouting
  PROVE  Inv'
<1>0. /\ MemoryOK /\ ProcsOK /\ HistoryOK /\ CountsOK /\ file \in Manifests
      /\ Shape /\ FileShape
  BY InvParts
<1>1. /\ at["planner"] = "assign" /\ dirty' = FALSE /\ mixed' = FALSE /\ plan' = {}
      /\ SaveThen("planner", "idle") /\ Disturb
      /\ UNCHANGED <<registered, skills, outputs, file, form, todo, task, edited,
                     unsaved, failed, taught, requests, restarts>>
  BY DEF CleanRouting, bounds
<1>2. MemoryOK' /\ HistoryOK' /\ CountsOK'
  BY <1>0, <1>1 DEF MemoryOK, HistoryOK, CountsOK, Disturb
<1>3. task' \in [agent : Ids, skill : Skills, stale : BOOLEAN] /\ plan' \subseteq Ids \X Ids
  BY <1>0, <1>1 DEF ProcsOK
<1> QED
  BY <1>1, <1>2, <1>3, OnlySave DEF Procs

LEMMA DecideInv ==
  ASSUME Inv, Decide
  PROVE  Inv'
<1>0. /\ MemoryOK /\ ProcsOK /\ HistoryOK /\ CountsOK /\ file \in Manifests
      /\ Shape /\ FileShape
  BY InvParts
<1>1. /\ at["ceo"] = "asked"
      /\ UNCHANGED <<registered, skills, outputs, dirty, file, after, form, plan, todo,
                     edited, mixed, unsaved, torn, failed, taught, requests, restarts>>
  BY DEF Decide, memory, histVars, bounds
<1>2. MemoryOK' /\ HistoryOK' /\ CountsOK' /\ plan' \subseteq Ids \X Ids
  BY <1>0, <1>1 DEF MemoryOK, HistoryOK, CountsOK, ProcsOK
<1>3. CASE at' = [at EXCEPT !["ceo"] = "idle"] /\ UNCHANGED task
  BY <1>1, <1>2, <1>3, OnlyAt DEF Places, Procs
<1>4. ASSUME NEW a \in registered, NEW s \in Skills,
             at' = [at EXCEPT !["ceo"] = "append"],
             task' = [agent |-> a, skill |-> s, stale |-> FALSE]
      PROVE  Inv'
  <2>1. /\ at' \in [Procs -> Places] /\ at'["ceo"] = "append"
        /\ \A q \in Procs \ {"ceo"} : at'[q] = at[q]
    BY <1>0, <1>4, GoType DEF Places, Procs
  <2>2. a \in Ids /\ after["ceo"] = "idle"
    BY <1>0, <1>1 DEF MemoryOK, Shape, Procs
  <2>3. ProcsOK'
    BY <1>0, <1>1, <1>4, <2>1, <2>2 DEF ProcsOK
  <2>4. Shape'
    BY <1>0, <1>1, <1>4, <2>1, <2>2 DEF Shape, Procs
  <2>5. FileShape' /\ file' \in Manifests
    BY <1>0, <1>1 DEF FileShape
  <2> QED
    BY <1>2, <2>3, <2>4, <2>5, InvNext
<1> QED
  BY <1>3, <1>4 DEF Decide

LEMMA Appended ==
  ASSUME AppendSkill
  PROVE  LET a == task.agent  s == task.skill IN
         \E how \in {"text", "bare"} :
           /\ \/ UNCHANGED <<skills, unsaved>>
              \/ skills' = List(a, {s}, how) /\ unsaved' = unsaved \cup {a}
           /\ \/ SaveThen("ceo", "idle")
              \/ /\ UNCHANGED <<skills, unsaved, after, torn>>
                 /\ at' = [at EXCEPT !["ceo"] = "idle"]
           /\ taught' = IF how = "text" THEN taught \cup {<<a, s>>} ELSE taught
           /\ torn' = torn \/ Disturb
<1> DEFINE a == task.agent
           s == task.skill
<1>1. PICK how \in {"text", "bare"} :
        /\ IF task.stale
           THEN /\ \/ SaveThen("ceo", "idle")
                   \/ at' = [at EXCEPT !["ceo"] = "idle"] /\ UNCHANGED after
                /\ UNCHANGED <<skills, unsaved, torn>>
           ELSE IF skills[a][s] = "no"
           THEN /\ skills' = List(a, {s}, how)
                /\ unsaved' = unsaved \cup {a}
                /\ SaveThen("ceo", "idle") /\ Disturb
           ELSE /\ at' = [at EXCEPT !["ceo"] = "idle"]
                /\ UNCHANGED <<skills, unsaved, after, torn>>
        /\ taught' = IF how = "text" THEN taught \cup {<<a, s>>} ELSE taught
  BY DEF AppendSkill
<1>2. CASE task.stale
  BY <1>1, <1>2
<1>3. CASE ~task.stale /\ skills[a][s] = "no"
  BY <1>1, <1>3
<1>4. CASE ~task.stale /\ skills[a][s] # "no"
  BY <1>1, <1>4
<1> QED
  BY <1>2, <1>3, <1>4

LEMMA AppendSkillInv ==
  ASSUME Inv, AppendSkill
  PROVE  Inv'
<1>0. /\ MemoryOK /\ ProcsOK /\ HistoryOK /\ CountsOK /\ file \in Manifests
      /\ Shape /\ FileShape
  BY InvParts
<1> DEFINE a == task.agent
           s == task.skill
<1>1. /\ at["ceo"] = "append" /\ task' = NoTask
      /\ UNCHANGED <<registered, outputs, dirty, file, form, plan, todo, edited, mixed,
                     failed, requests, restarts>>
  BY DEF AppendSkill, bounds
<1>2. a \in registered /\ a \in Ids /\ s \in Skills
  BY <1>0, <1>1 DEF Shape, MemoryOK, ProcsOK
<1>3. PICK how \in {"text", "bare"} :
        /\ \/ UNCHANGED <<skills, unsaved>>
           \/ skills' = List(a, {s}, how) /\ unsaved' = unsaved \cup {a}
        /\ \/ SaveThen("ceo", "idle")
           \/ UNCHANGED <<skills, unsaved, after>> /\ at' = [at EXCEPT !["ceo"] = "idle"]
        /\ taught' = IF how = "text" THEN taught \cup {<<a, s>>} ELSE taught
        /\ torn' = torn \/ Disturb
  BY Appended DEF a, s
<1> HIDE DEF a, s
<1>4. /\ skills' \in [Ids -> [Skills -> Listing]]
      /\ \A b \in Ids \ {a} : skills'[b] = skills[b]
  <2>1. CASE UNCHANGED skills
    BY <1>0, <2>1 DEF MemoryOK
  <2>2. CASE skills' = List(a, {s}, how)
    BY <1>0, <1>2, <2>2, ListRow DEF Listing
  <2> QED
    BY <1>3, <2>1, <2>2
<1>5. MemoryOK'
  BY <1>0, <1>1, <1>2, <1>4 DEF MemoryOK
<1>6. HistoryOK'
  <2>1. torn' \in BOOLEAN
    BY <1>0, <1>3 DEF HistoryOK, Disturb
  <2> QED
    BY <1>0, <1>1, <1>2, <1>3, <2>1 DEF HistoryOK
<1>7. CountsOK' /\ FileShape' /\ file' \in Manifests
  BY <1>0, <1>1 DEF CountsOK, FileShape
<1>8. CASE SaveThen("ceo", "idle")
  <2>1. plan' \subseteq Ids \X Ids
    BY <1>0, <1>1 DEF ProcsOK
  <2> QED
    BY <1>1, <1>5, <1>6, <1>7, <1>8, <2>1, SomeTypes, OnlySave DEF Procs
<1>9. CASE at' = [at EXCEPT !["ceo"] = "idle"] /\ UNCHANGED after
  <2>1. /\ at' \in [Procs -> Places] /\ at'["ceo"] = "idle"
        /\ \A q \in Procs \ {"ceo"} : at'[q] = at[q]
    BY <1>0, <1>9, GoType DEF Places, Procs
  <2>2. after["ceo"] = "idle"
    BY <1>0, <1>1 DEF Shape, Procs
  <2>3. ProcsOK'
    BY <1>0, <1>1, <1>9, <2>1, SomeTypes DEF ProcsOK
  <2>4. Shape'
    BY <1>0, <1>1, <1>9, <2>1, <2>2 DEF Shape, Procs
  <2> QED
    BY <1>5, <1>6, <1>7, <2>3, <2>4, InvNext
<1> QED
  BY <1>3, <1>8, <1>9

(* A process goes from "open" to "write", or back to its route.            *)
LEMMA OnlyFile ==
  ASSUME Inv, NEW p \in Procs, at[p] \in {"open", "write"},
         \/ Return(p)
         \/ at' = [at EXCEPT ![p] = "write"] /\ UNCHANGED after,
         HistoryOK', FileShape', file' \in Manifests,
         UNCHANGED <<registered, skills, outputs, dirty, form, plan, task, requests, restarts>>
  PROVE  Inv'
<1>0. /\ MemoryOK /\ ProcsOK /\ CountsOK /\ Shape
  BY InvParts
<1>1. after[p] \in {"idle", "attach", "mark"} /\ after[p] \in Places
  BY <1>0 DEF ProcsOK, Places
<1>2. MemoryOK' /\ CountsOK'
  BY <1>0 DEF MemoryOK, CountsOK
<1>3. CASE Return(p)
  <2>1. /\ at' \in [Procs -> Places] /\ at'[p] = after[p]
        /\ \A q \in Procs \ {p} : at'[q] = at[q]
    BY <1>0, <1>1, <1>3, GoType DEF Return
  <2>2. /\ after' \in [Procs -> {"idle", "attach", "mark"}] /\ after'[p] = "idle"
        /\ \A q \in Procs \ {p} : after'[q] = after[q]
    BY <1>0, <1>3 DEF Return, ProcsOK
  <2>3. ProcsOK'
    BY <1>0, <2>1, <2>2 DEF ProcsOK
  <2>4. Shape'
    BY <1>0, <1>1, <2>1, <2>2 DEF Shape, Procs
  <2> QED
    BY <1>2, <2>3, <2>4, InvNext
<1>4. CASE at' = [at EXCEPT ![p] = "write"] /\ UNCHANGED after
  <2>1. /\ at' \in [Procs -> Places] /\ at'[p] = "write"
        /\ \A q \in Procs \ {p} : at'[q] = at[q]
    BY <1>0, <1>4, GoType DEF Places
  <2>2. ProcsOK'
    BY <1>0, <1>4, <2>1 DEF ProcsOK
  <2>3. Shape'
    BY <1>0, <1>4, <2>1 DEF Shape, Procs
  <2> QED
    BY <1>2, <2>2, <2>3, InvNext
<1> QED
  BY <1>3, <1>4

LEMMA OpenFileInv ==
  ASSUME Inv, NEW p \in Procs, OpenFile(p)
  PROVE  Inv'
<1>0. HistoryOK /\ FileShape /\ file \in Manifests
  BY InvParts
<1>1. /\ at[p] = "open"
      /\ Return(p) \/ (at' = [at EXCEPT ![p] = "write"] /\ UNCHANGED after)
      /\ file' \in {file, NoManifest} /\ torn' \in BOOLEAN /\ failed' \in BOOLEAN
      /\ UNCHANGED <<registered, skills, outputs, dirty, form, plan, todo, task, edited,
                     mixed, unsaved, taught, requests, restarts>>
  BY <1>0 DEF OpenFile, memory, bounds, HistoryOK
<1>2. HistoryOK'
  BY <1>0, <1>1 DEF HistoryOK
<1>3. FileShape' /\ file' \in Manifests
  BY <1>0, <1>1, SomeTypes DEF FileShape
<1> QED
  BY <1>1, <1>2, <1>3, OnlyFile

LEMMA WriteFileInv ==
  ASSUME Inv, NEW p \in Procs, WriteFile(p)
  PROVE  Inv'
<1>0. MemoryOK /\ HistoryOK
  BY InvParts
<1>1. /\ at[p] = "write" /\ Return(p)
      /\ file' = Manifest \/ file' = NoManifest
      /\ unsaved' = {} \/ unsaved' = unsaved
      /\ failed' \in BOOLEAN
      /\ UNCHANGED <<registered, skills, outputs, dirty, form, plan, todo, task, edited,
                     mixed, torn, taught, requests, restarts>>
  BY DEF WriteFile, memory, bounds
<1>2. HistoryOK'
  BY <1>0, <1>1 DEF HistoryOK
<1>3. FileShape' /\ file' \in Manifests
  <2>1. CASE file' = Manifest
    BY <1>0, <2>1, ManifestType DEF FileShape, MemoryOK, HistoryOK
  <2>2. CASE file' = NoManifest
    BY <2>2, SomeTypes DEF FileShape
  <2> QED
    BY <1>1, <2>1, <2>2
<1> QED
  BY <1>1, <1>2, <1>3, OnlyFile

LEMMA CrashInv ==
  ASSUME Inv, Crash
  PROVE  Inv'
<1>0. /\ MemoryOK /\ ProcsOK /\ HistoryOK /\ CountsOK /\ file \in Manifests
      /\ Shape /\ FileShape
  BY InvParts
<1>1. /\ registered' = file.registered /\ skills' = file.skills
      /\ outputs' = file.outputs /\ dirty' = file.dirty
      /\ edited' = file.edited /\ mixed' = file.mixed
      /\ at' = [q \in Procs |-> "idle"] /\ after' = [q \in Procs |-> "idle"]
      /\ form' = NoForm /\ plan' = {} /\ todo' = {} /\ task' = NoTask
      /\ unsaved' = {} /\ torn' = FALSE /\ failed' = FALSE
      /\ taught' = {q \in taught : q[1] \in file.registered /\ q[1] \notin unsaved}
      /\ UNCHANGED <<file, requests>>
  BY DEF Crash
<1>2. /\ file.registered \subseteq Ids /\ file.skills \in [Ids -> [Skills -> Listing]]
      /\ file.outputs \in [Ids -> SUBSET Ids] /\ file.dirty \in BOOLEAN
      /\ file.edited \subseteq file.registered /\ file.mixed \in BOOLEAN
  BY <1>0 DEF Manifests, FileShape
<1>3. MemoryOK'
  <2>1. \A a \in Ids \ file.registered : file.skills[a] = NoSkill /\ file.outputs[a] = {}
    BY <1>0 DEF FileShape
  <2> QED
    BY <1>1, <1>2, <2>1 DEF MemoryOK
<1>4. HistoryOK'
  <2>1. taught' \subseteq registered' \X Skills
    BY <1>0, <1>1 DEF HistoryOK
  <2> QED
    BY <1>1, <1>2, <2>1 DEF HistoryOK
<1>5. CountsOK'
  BY <1>0, <1>1, BoundsAssumption DEF CountsOK, Crash
<1>6. ProcsOK'
  BY <1>1, SomeTypes DEF ProcsOK, Places
<1>7. Shape'
  BY <1>1 DEF Shape, Procs
<1>8. FileShape' /\ file' \in Manifests
  BY <1>0, <1>1 DEF FileShape
<1> QED
  BY <1>3, <1>4, <1>5, <1>6, <1>7, <1>8, InvNext

LEMMA StutterInv ==
  ASSUME Inv, UNCHANGED vars
  PROVE  Inv'
<1>1. UNCHANGED <<registered, skills, outputs, dirty, file, at, after, form, plan, todo,
                  task, edited, mixed, unsaved, torn, failed, taught, requests, restarts>>
  BY DEF vars, memory, procVars, histVars, bounds
<1> QED
  BY <1>1 DEF Inv, TypeOK, Shape, FileShape

LEMMA NextInv == Inv /\ [Next]_vars => Inv'
<1> SUFFICES ASSUME Inv, [Next]_vars
             PROVE  Inv'
  OBVIOUS
<1>1. ASSUME NEW a \in Ids, Create(a)
      PROVE  Inv'
  BY <1>1, CreateInv
<1>2. ASSUME NEW a \in Ids, Patch(a)
      PROVE  Inv'
  BY <1>2, PatchInv
<1>3. ASSUME NEW a \in Ids, NEW s \in Skills, SkillsAssign(a, s)
      PROVE  Inv'
  BY <1>3, SkillsAssignInv
<1>4. ASSUME NEW a \in Ids, \/ \E S \in SUBSET Skills : AgentAssign(a, S)
                            \/ AssignOutputs(a)
      PROVE  Inv'
  BY <1>4, AgentAssignInv, AssignOutputsInv
<1>5. CASE Attach \/ Mark
  BY <1>5, AttachInv, MarkInv
<1>6. CASE AskForPlan \/ Planned \/ CheckPlan \/ ApplyPlan \/ CleanRouting
  BY <1>6, AskInv, PlannedInv, CheckPlanInv, ApplyPlanInv, CleanRoutingInv
<1>7. CASE AskCeo \/ Decide \/ AppendSkill
  BY <1>7, AskInv, DecideInv, AppendSkillInv
<1>8. ASSUME NEW p \in Procs, OpenFile(p) \/ WriteFile(p)
      PROVE  Inv'
  BY <1>8, OpenFileInv, WriteFileInv
<1>9. CASE Crash
  BY <1>9, CrashInv
<1>10. CASE UNCHANGED vars
  BY <1>10, StutterInv
<1> QED
  BY <1>1, <1>2, <1>3, <1>4, <1>5, <1>6, <1>7, <1>8, <1>9, <1>10 DEF Next

LEMMA SpecInv == Spec => []Inv
  BY InitInv, NextInv, PTL DEF Spec

(* At any time every variable is of its type; in particular no agent has   *)
(* skills, outputs or an answer about its skills that is not registered,   *)
(* whatever a crash took back.                                             *)
THEOREM Types == Spec => []TypeOK
<1>1. Inv => TypeOK
  BY DEF Inv
<1> QED
  BY <1>1, SpecInv, PTL

(* Whatever edges the model names and whatever is registered by then, the  *)
(* depth-first search accepts them exactly when they name only registered  *)
(* agents and have no cycle.                                               *)
THEOREM ValidationIsExact == Spec => []ValidationExact
<1>1. Inv => ValidationExact
  <2> SUFFICES ASSUME Inv
               PROVE  Valid(plan, registered) <=> Sound(plan, registered)
    BY DEF ValidationExact
  <2>1. IsFiniteSet(registered)
    BY IdsAssumption, FS_Subset DEF Inv, TypeOK
  <2> QED
    BY <2>1, ValidIsSound
<1> QED
  BY <1>1, SpecInv, PTL

-----------------------------------------------------------------------------
(* The routes of the file are sound too: a crash takes them back.  While a *)
(* plan is applied it is sound, and no agent that the loop has passed has  *)
(* an output of another plan.                                              *)
FileSound == ~file.mixed => Sound(OfPlans(file.outputs, file.edited), file.registered)

Applying ==
    at["planner"] = "assign" =>
        /\ mixed /\ Sound(plan, registered)
        /\ \A a \in registered \ (todo \cup edited) : outputs[a] \subseteq PlanOf(a)

RoutesInv == RoutesSound /\ FileSound /\ Applying

LEMMA NoRoutes ==
  ASSUME NEW out, \A a \in Ids : out[a] = {}
  PROVE  \A byHand, R : Sound(OfPlans(out, byHand), R)
<1>1. \A byHand : OfPlans(out, byHand) = {}
  BY DEF OfPlans, Edges
<1> QED
  BY <1>1 DEF Sound, Known, Acyclic

(* Fewer routes among more agents: an agent that is new ends every cycle.  *)
LEMMA FewerRoutes ==
  ASSUME NEW old, NEW new, NEW R, NEW R2, new \subseteq old, R \subseteq R2, Sound(old, R)
  PROVE  Sound(new, R2)
<1>1. old \subseteq R \X R /\ Acyclic(old, R)
  BY DEF Sound, Known
<1>2. Known(new, R2)
  BY <1>1 DEF Known
<1>3. ASSUME NEW S \in (SUBSET R2) \ {{}}
      PROVE  \E c \in S : \A b \in S : <<c, b>> \notin new
  <2>1. CASE S \subseteq R
    <3>1. PICK c \in S : \A b \in S : <<c, b>> \notin old
      BY <1>1, <2>1 DEF Acyclic
    <3> QED
      BY <3>1
  <2>2. CASE ~(S \subseteq R)
    <3>1. PICK c \in S : c \notin R
      BY <2>2
    <3>2. \A b \in S : <<c, b>> \notin old
      BY <1>1, <3>1
    <3> QED
      BY <3>2
  <2> QED
    BY <2>1, <2>2
<1>4. Acyclic(new, R2)
  BY <1>3 DEF Acyclic
<1> QED
  BY <1>2, <1>4 DEF Sound

LEMMA FewerOfPlans ==
  ASSUME NEW out, NEW out2, NEW byHand, NEW byHand2,
         \A a \in Ids \ byHand2 : out2[a] = {} \/ (a \notin byHand /\ out2[a] = out[a])
  PROVE  OfPlans(out2, byHand2) \subseteq OfPlans(out, byHand)
<1> SUFFICES ASSUME NEW e \in OfPlans(out2, byHand2)
             PROVE  e \in OfPlans(out, byHand)
  OBVIOUS
<1>1. e \in Ids \X Ids /\ e[2] \in out2[e[1]] /\ e[1] \notin byHand2
  BY DEF OfPlans, Edges
<1>2. e[1] \in Ids
  BY <1>1
<1>3. e[1] \notin byHand /\ out2[e[1]] = out[e[1]]
  BY <1>1, <1>2
<1> QED
  BY <1>1, <1>3 DEF OfPlans, Edges

LEMMA RoutesInit == Init => RoutesInv
<1> SUFFICES ASSUME Init
             PROVE  RoutesInv
  OBVIOUS
<1>1. /\ outputs = NoOutputs /\ at["planner"] = "idle"
      /\ file = [NoManifest EXCEPT !.parses = TRUE, !.registered = Given]
  BY DEF Init, Procs
<1>2. RoutesSound
  BY <1>1, SomeTypes, NoRoutes DEF RoutesSound
<1>3. file.outputs = NoOutputs
  BY <1>1 DEF NoManifest
<1>4. FileSound
  BY <1>3, SomeTypes, NoRoutes DEF FileSound
<1> QED
  BY <1>1, <1>2, <1>4 DEF RoutesInv, Applying

LEMMA StillSound ==
  ASSUME RoutesInv, UNCHANGED <<registered, outputs, edited, mixed, file>>,
         at'["planner"] = "assign" => at["planner"] = "assign" /\ UNCHANGED <<plan, todo>>
  PROVE  RoutesInv'
<1>1. RoutesSound' /\ FileSound'
  BY DEF RoutesInv, RoutesSound, FileSound, OfPlans, Edges
<1>2. Applying'
  BY DEF RoutesInv, Applying, PlanOf
<1> QED
  BY <1>1, <1>2 DEF RoutesInv

LEMMA RoutesNext == Inv /\ RoutesInv /\ [Next]_vars => RoutesInv'
<1> SUFFICES ASSUME Inv, RoutesInv, [Next]_vars
             PROVE  RoutesInv'
  OBVIOUS
<1>0. /\ MemoryOK /\ ProcsOK /\ HistoryOK /\ file \in Manifests
      /\ IsFiniteSet(registered)
  <2>1. registered \subseteq Ids
    BY InvParts DEF MemoryOK
  <2> QED
    BY <2>1, InvParts, IdsAssumption, FS_Subset
<1>s. ASSUME NEW p \in Procs, NEW then \in {"idle", "attach", "mark"}, SaveThen(p, then)
      PROVE  at'["planner"] = "assign" => at["planner"] = "assign" /\ p # "planner"
  BY <1>0, <1>s, SaveThenType DEF Procs
<1>2. ASSUME NEW a \in Ids, Create(a)
      PROVE  RoutesInv'
  <2>1. /\ registered' = registered \cup {a} /\ outputs' = [outputs EXCEPT ![a] = {}]
        /\ edited' = edited \ {a} /\ todo' = todo \ {a} /\ UNCHANGED <<file, plan, mixed>>
        /\ SaveThen("loop", "attach")
    BY <1>2 DEF Create
  <2>2. /\ outputs'[a] = {} /\ \A b \in Ids \ {a} : outputs'[b] = outputs[b]
        /\ registered \subseteq registered'
    BY <1>0, <2>1 DEF MemoryOK
  <2>3. OfPlans(outputs', edited') \subseteq OfPlans(outputs, edited)
    BY <2>1, <2>2, FewerOfPlans
  <2>4. RoutesSound'
    BY <2>1, <2>2, <2>3, FewerRoutes DEF RoutesInv, RoutesSound
  <2>5. Applying'
    <3> SUFFICES ASSUME at["planner"] = "assign"
                 PROVE  /\ mixed' /\ Sound(plan', registered')
                        /\ \A b \in registered' \ (todo' \cup edited') :
                              outputs'[b] \subseteq PlanOf(b)'
      BY <1>s, <2>1 DEF Applying, Procs
    <3>1. mixed /\ Sound(plan, registered)
      BY DEF RoutesInv, Applying
    <3>2. Sound(plan', registered')
      BY <2>1, <2>2, <3>1, FewerRoutes
    <3>3. ASSUME NEW b \in registered' \ (todo' \cup edited')
          PROVE  outputs'[b] \subseteq PlanOf(b)'
      <4>1. CASE b = a
        BY <2>2, <4>1
      <4>2. CASE b # a
        <5>1. b \in registered \ (todo \cup edited) /\ b \in Ids
          BY <1>0, <2>1, <3>3, <4>2 DEF MemoryOK
        <5>2. outputs'[b] = outputs[b] /\ PlanOf(b)' = PlanOf(b)
          BY <2>1, <2>2, <4>2, <5>1 DEF PlanOf
        <5> QED
          BY <5>1, <5>2 DEF RoutesInv, Applying
      <4> QED
        BY <4>1, <4>2
    <3> QED
      BY <2>1, <3>1, <3>2, <3>3
  <2> QED
    BY <2>1, <2>4, <2>5 DEF RoutesInv, FileSound, OfPlans, Edges
<1>3. ASSUME NEW a \in Ids, Patch(a)
      PROVE  RoutesInv'
  <2>1. /\ UNCHANGED <<registered, file, plan, todo, mixed>> /\ SaveThen("loop", "mark")
        /\ \/ UNCHANGED <<outputs, edited>>
           \/ /\ \E B \in Edits : outputs' = [outputs EXCEPT ![a] = B]
              /\ edited' = edited \cup {a}
    BY <1>3 DEF Patch
  <2>2. edited \subseteq edited' /\ \A b \in Ids \ edited' : outputs'[b] = outputs[b]
    BY <1>0, <2>1 DEF MemoryOK
  <2>3. OfPlans(outputs', edited') \subseteq OfPlans(outputs, edited)
    BY <2>2, FewerOfPlans
  <2>4. RoutesSound'
    BY <2>1, <2>3, FewerRoutes DEF RoutesInv, RoutesSound
  <2>5. Applying'
    <3> SUFFICES ASSUME at["planner"] = "assign"
                 PROVE  /\ mixed' /\ Sound(plan', registered')
                        /\ \A b \in registered' \ (todo' \cup edited') :
                              outputs'[b] \subseteq PlanOf(b)'
      BY <1>s, <2>1 DEF Applying, Procs
    <3>1. mixed /\ Sound(plan, registered)
      BY DEF RoutesInv, Applying
    <3>2. ASSUME NEW b \in registered' \ (todo' \cup edited')
          PROVE  outputs'[b] \subseteq PlanOf(b)'
      <4>1. b \in registered \ (todo \cup edited) /\ b \in Ids \ edited'
        BY <1>0, <2>1, <2>2, <3>2 DEF MemoryOK
      <4>2. outputs'[b] = outputs[b] /\ PlanOf(b)' = PlanOf(b)
        BY <2>1, <2>2, <4>1 DEF PlanOf
      <4> QED
        BY <4>1, <4>2 DEF RoutesInv, Applying
    <3> QED
      BY <2>1, <3>1, <3>2
  <2> QED
    BY <2>1, <2>4, <2>5 DEF RoutesInv, FileSound, OfPlans, Edges
<1>4. CASE ApplyPlan
  <2>1. UNCHANGED <<registered, outputs, edited, file>>
    BY <1>4 DEF ApplyPlan, memory
  <2>2. CASE Valid(plan, registered)
    <3>1. todo' = registered /\ mixed' = TRUE /\ plan' = plan
      BY <1>4, <2>2 DEF ApplyPlan
    <3>2. Sound(plan, registered)
      BY <1>0, <2>2, ValidIsSound
    <3>3. Applying'
      BY <2>1, <3>1, <3>2 DEF Applying
    <3> QED
      BY <2>1, <3>1, <3>3 DEF RoutesInv, RoutesSound, FileSound, OfPlans, Edges
  <2>3. CASE ~Valid(plan, registered)
    <3>1. mixed' = mixed /\ at' = [at EXCEPT !["planner"] = "idle"]
      BY <1>4, <2>3 DEF ApplyPlan
    <3>2. at'["planner"] = "idle"
      BY <1>0, <3>1, GoType DEF Procs, Places
    <3> QED
      BY <2>1, <3>1, <3>2, StillSound
  <2> QED
    BY <2>2, <2>3
<1>5. ASSUME NEW a \in Ids, AssignOutputs(a)
      PROVE  RoutesInv'
  <2>1. /\ at["planner"] = "assign" /\ a \in todo
        /\ outputs' = [outputs EXCEPT ![a] = PlanOf(a)]
        /\ edited' = edited \ {a} /\ todo' = todo \ {a}
        /\ UNCHANGED <<registered, file, at, plan, mixed>>
    BY <1>5 DEF AssignOutputs
  <2>2. /\ mixed /\ Sound(plan, registered)
        /\ \A b \in registered \ (todo \cup edited) : outputs[b] \subseteq PlanOf(b)
    BY <2>1 DEF RoutesInv, Applying
  <2>3. outputs'[a] = PlanOf(a) /\ \A b \in Ids \ {a} : outputs'[b] = outputs[b]
    BY <1>0, <2>1 DEF MemoryOK
  <2>4. ASSUME NEW b \in registered' \ (todo' \cup edited')
        PROVE  outputs'[b] \subseteq PlanOf(b)'
    <3>1. PlanOf(b)' = PlanOf(b) /\ b \in Ids
      BY <1>0, <2>1 DEF PlanOf, MemoryOK
    <3>2. CASE b = a
      BY <2>3, <3>1, <3>2
    <3>3. CASE b # a
      BY <2>1, <2>2, <2>3, <3>1, <3>3
    <3> QED
      BY <3>2, <3>3
  <2>5. Applying' /\ RoutesSound'
    BY <2>1, <2>2, <2>4 DEF Applying, RoutesSound
  <2> QED
    BY <2>1, <2>5 DEF RoutesInv, FileSound, OfPlans, Edges
<1>6. CASE CleanRouting
  <2>1. /\ at["planner"] = "assign" /\ todo = {} /\ SaveThen("planner", "idle")
        /\ UNCHANGED <<registered, outputs, edited, file>>
    BY <1>6 DEF CleanRouting
  <2>2. /\ Sound(plan, registered)
        /\ \A b \in registered \ edited : outputs[b] \subseteq PlanOf(b)
    BY <2>1 DEF RoutesInv, Applying
  <2>3. ASSUME NEW e \in OfPlans(outputs, edited)
        PROVE  e \in plan
    <3>1. /\ e \in Ids \X Ids /\ e[1] \in Ids /\ e = <<e[1], e[2]>>
          /\ e[2] \in outputs[e[1]] /\ e[1] \notin edited
      BY DEF OfPlans, Edges
    <3>2. e[1] \in registered
      BY <1>0, <3>1 DEF MemoryOK
    <3>3. <<e[1], e[2]>> \in plan
      BY <2>2, <3>1, <3>2 DEF PlanOf
    <3> QED
      BY <3>1, <3>3
  <2>4. Sound(OfPlans(outputs, edited), registered)
    BY <2>2, <2>3, FewerRoutes
  <2>5. Applying'
    BY <1>s, <2>1 DEF Applying, Procs
  <2> QED
    BY <2>1, <2>4, <2>5 DEF RoutesInv, RoutesSound, FileSound, OfPlans, Edges
<1>7. ASSUME NEW p \in Procs, OpenFile(p) \/ WriteFile(p)
      PROVE  RoutesInv'
  <2>1. /\ UNCHANGED <<registered, outputs, edited, mixed, plan, todo>>
        /\ file' \in {file, NoManifest, Manifest}
    BY <1>7 DEF OpenFile, WriteFile, memory
  <2>2. at'["planner"] = "assign" => at["planner"] = "assign"
    <3>1. PICK place \in Places \ {"assign"} : at' = [at EXCEPT ![p] = place]
      BY <1>0, <1>7 DEF OpenFile, WriteFile, Return, ProcsOK, Places
    <3> QED
      BY <1>0, <3>1, GoType DEF Procs
  <2>3. RoutesSound'
    BY <2>1 DEF RoutesInv, RoutesSound, OfPlans, Edges
  <2>4. Applying'
    BY <2>1, <2>2 DEF RoutesInv, Applying, PlanOf
  <2>5. CASE file' = file
    BY <2>3, <2>4, <2>5 DEF RoutesInv, FileSound, OfPlans, Edges
  <2>6. CASE file' = NoManifest
    <3>1. Sound(OfPlans(file'.outputs, file'.edited), file'.registered)
      BY <2>6, SomeTypes, NoRoutes
    <3> QED
      BY <2>3, <2>4, <3>1 DEF RoutesInv, FileSound, OfPlans, Edges
  <2>7. CASE file' = Manifest
    <3>1. ~file'.mixed => Sound(OfPlans(file'.outputs, file'.edited), file'.registered)
      BY <1>0, <2>7, ManifestType DEF RoutesInv, RoutesSound
    <3> QED
      BY <2>3, <2>4, <3>1 DEF RoutesInv, FileSound, OfPlans, Edges
  <2> QED
    BY <2>1, <2>5, <2>6, <2>7
<1>8. CASE Crash
  <2>1. /\ registered' = file.registered /\ outputs' = file.outputs
        /\ edited' = file.edited /\ mixed' = file.mixed /\ file' = file
        /\ at'["planner"] = "idle"
    BY <1>8 DEF Crash, Procs
  <2> QED
    BY <2>1 DEF RoutesInv, RoutesSound, FileSound, Applying, OfPlans, Edges
<1>9. ASSUME NEW a \in Ids, \/ \E s \in Skills : SkillsAssign(a, s)
                            \/ \E S \in SUBSET Skills : AgentAssign(a, S)
      PROVE  RoutesInv'
  <2>1. /\ UNCHANGED <<registered, outputs, edited, mixed, file, plan, todo>>
        /\ at' = at \/ SaveThen("loop", "idle")
    BY <1>9 DEF SkillsAssign, AgentAssign, procVars
  <2> QED
    BY <1>s, <2>1, StillSound DEF Procs
<1>10. CASE Attach \/ Mark \/ Decide \/ AskCeo \/ AppendSkill
  <2>1. UNCHANGED <<registered, outputs, edited, mixed, file, plan, todo>>
    BY <1>10 DEF Attach, Mark, Decide, AskCeo, AppendSkill, memory, histVars
  <2>2. \/ \E p \in {"loop", "ceo"}, place \in Places : at' = [at EXCEPT ![p] = place]
        \/ \E p \in {"loop", "ceo"} : SaveThen(p, "idle")
    <3>1. CASE Attach \/ Mark \/ Decide \/ AskCeo
      BY <3>1 DEF Attach, Mark, Decide, AskCeo, Places
    <3>2. CASE AppendSkill
      BY <3>2, Appended DEF Places
    <3> QED
      BY <1>10, <3>1, <3>2
  <2>3. at'["planner"] = at["planner"]
    <3>1. ASSUME NEW p \in {"loop", "ceo"}, NEW place \in Places, at' = [at EXCEPT ![p] = place]
          PROVE  at'["planner"] = at["planner"]
      BY <1>0, <3>1, GoType DEF Procs
    <3>2. ASSUME NEW p \in {"loop", "ceo"}, SaveThen(p, "idle")
          PROVE  at'["planner"] = at["planner"]
      BY <1>0, <3>2, SaveThenType DEF Procs
    <3> QED
      BY <2>2, <3>1, <3>2
  <2> QED
    BY <2>1, <2>3, StillSound
<1>11. CASE AskForPlan \/ Planned \/ CheckPlan
  <2>1. UNCHANGED <<registered, outputs, edited, mixed, file>>
    BY <1>11 DEF AskForPlan, Planned, CheckPlan, memory, histVars
  <2>2. PICK place \in {"asked", "plan", "idle", "apply"} :
          at' = [at EXCEPT !["planner"] = place]
    BY <1>11 DEF AskForPlan, Planned, CheckPlan
  <2>3. at'["planner"] = place
    BY <1>0, <2>2, GoType DEF Procs, Places
  <2> QED
    BY <2>1, <2>3, StillSound
<1>12. CASE UNCHANGED vars
  BY <1>12, StillSound DEF vars, memory, procVars, histVars
<1> QED
  BY <1>2, <1>3, <1>4, <1>5, <1>6, <1>7, <1>8, <1>9, <1>10, <1>11, <1>12 DEF Next

(* At any time the outputs that PATCH did not write name registered agents *)
(* and have no cycle, but while a plan is applied agent by agent and after *)
(* a restart from a save made meanwhile or beside a change: agents that    *)
(* are registered or replaced while the model makes the plan or the loop   *)
(* goes through the agents, and a save cut by a crash, change nothing.     *)
THEOREM RoutesAreSound == Spec => []RoutesSound
<1>1. RoutesInv => RoutesSound
  BY DEF RoutesInv
<1> QED
  BY <1>1, SpecInv, RoutesInit, RoutesNext, PTL DEF Spec

-----------------------------------------------------------------------------
(* The file is current: every step that leaves memory ahead of it is on    *)
(* its way to a save, or notes the agent in unsaved.                       *)
Current ==
    /\ file = [Manifest EXCEPT !.skills = file.skills]
    /\ \A a \in registered \ unsaved : file.skills[a] = skills[a]

LEMMA SameButSkills ==
  ASSUME NEW F \in Manifests, NEW M \in Manifests
  PROVE  F = [M EXCEPT !.skills = F.skills] <=>
           /\ F.parses = M.parses /\ F.registered = M.registered /\ F.dirty = M.dirty
           /\ F.outputs = M.outputs /\ F.edited = M.edited /\ F.mixed = M.mixed
  BY DEF Manifests

LEMMA FileInit == Init => FileIsCurrent
<1> SUFFICES ASSUME Init
             PROVE  Current
  BY DEF FileIsCurrent, Current
<1>1. file = [NoManifest EXCEPT !.parses = TRUE, !.registered = Given]
  BY DEF Init
<1>2. /\ registered = Given /\ skills = NoSkills /\ outputs = NoOutputs /\ dirty = FALSE
      /\ edited = {} /\ mixed = FALSE /\ torn = FALSE
  BY DEF Init
<1>3. file = [parses |-> TRUE, registered |-> Given, dirty |-> FALSE,
              skills |-> NoSkills, outputs |-> NoOutputs, edited |-> {}, mixed |-> FALSE]
  BY <1>1 DEF NoManifest
<1> QED
  BY <1>2, <1>3 DEF Current, Manifest

(* Where a process is on its way to a save, there is nothing to show.      *)
LEMMA OnTheWay ==
  ASSUME NEW p \in Procs, at'[p] \in {"open", "write"} \/ (p = "planner" /\ at'[p] = "assign")
  PROVE  FileIsCurrent'
  BY DEF FileIsCurrent, Saving

(* Nothing that the file has changes but the skills of unsaved agents.     *)
LEMMA StillCurrent ==
  ASSUME FileIsCurrent, MemoryOK, HistoryOK, MemoryOK', HistoryOK', file \in Manifests,
         UNCHANGED <<registered, outputs, dirty, edited, mixed, file, failed>>,
         torn => torn',
         \A q \in Procs : at[q] \in {"open", "write"} => at'[q] = at[q],
         at["planner"] = "assign" => at'["planner"] = "assign",
         at["loop"] = "mark" => at'["loop"] = "mark",
         unsaved \subseteq unsaved',
         \A a \in registered \ unsaved' : skills'[a] = skills[a]
  PROVE  FileIsCurrent'
<1> SUFFICES ASSUME Loaded', ~torn', ~failed', ~Saving'
             PROVE  Current'
  BY DEF FileIsCurrent, Current
<1>1. Loaded /\ ~torn /\ ~failed /\ ~Saving
  BY DEF Loaded, Saving
<1>2. Current
  BY <1>1 DEF FileIsCurrent, Current
<1>3. /\ file.parses /\ file.registered = registered /\ file.dirty = dirty
      /\ file.outputs = outputs /\ file.edited = edited /\ file.mixed = mixed
  <2>1. Manifest \in Manifests
    BY ManifestType
  <2>2. file = [Manifest EXCEPT !.skills = file.skills]
    BY <1>2 DEF Current
  <2>3. /\ file.parses = Manifest.parses /\ file.registered = Manifest.registered
        /\ file.dirty = Manifest.dirty
        /\ file.outputs = Manifest.outputs /\ file.edited = Manifest.edited
        /\ file.mixed = Manifest.mixed
    BY <2>1, <2>2, SameButSkills
  <2> QED
    BY <1>1, <2>3, ManifestType DEF HistoryOK
<1>4. /\ Manifest' \in Manifests
      /\ Manifest'.parses /\ Manifest'.registered = registered' /\ Manifest'.dirty = dirty'
      /\ Manifest'.outputs = outputs' /\ Manifest'.edited = edited'
      /\ Manifest'.mixed = mixed'
  BY ManifestNext DEF HistoryOK
<1>5. file' = [Manifest' EXCEPT !.skills = file'.skills]
  <2>1. /\ file' \in Manifests
        /\ file'.parses = Manifest'.parses /\ file'.registered = Manifest'.registered
        /\ file'.dirty = Manifest'.dirty
        /\ file'.outputs = Manifest'.outputs /\ file'.edited = Manifest'.edited
        /\ file'.mixed = Manifest'.mixed
    BY <1>3, <1>4 DEF Manifests
  <2> QED
    BY <1>4, <2>1, SameButSkills
<1>6. \A a \in registered' \ unsaved' : file'.skills[a] = skills'[a]
  BY <1>2 DEF Current
<1> QED
  BY <1>5, <1>6 DEF Current

LEMMA ListElsewhere ==
  ASSUME MemoryOK, NEW a \in Ids, NEW S, NEW how \in Listing
  PROVE  \A b \in registered \ {a} : List(a, S, how)[b] = skills[b]
  BY ListRow DEF MemoryOK

LEMMA SaveThenOnTheWay ==
  ASSUME ProcsOK, NEW p \in Procs, NEW then \in {"idle", "attach", "mark"},
         SaveThen(p, then)
  PROVE  FileIsCurrent'
  BY SaveThenType, OnTheWay

LEMMA FileNext == Inv /\ FileIsCurrent /\ [Next]_vars => FileIsCurrent'
<1> SUFFICES ASSUME Inv, FileIsCurrent, [Next]_vars
             PROVE  FileIsCurrent'
  OBVIOUS
<1>0. /\ MemoryOK /\ ProcsOK /\ HistoryOK /\ FileShape /\ file \in Manifests
      /\ MemoryOK' /\ HistoryOK'
  <2>1. Inv'
    BY NextInv
  <2> QED
    BY <2>1, InvParts DEF Inv, TypeOK, MemoryOK, HistoryOK
<1>1. ASSUME NEW a \in Ids, \/ Create(a) \/ Patch(a)
                            \/ \E S \in SUBSET Skills : AgentAssign(a, S)
      PROVE  FileIsCurrent'
  <2>1. SaveThen("loop", "attach") \/ SaveThen("loop", "mark") \/ SaveThen("loop", "idle")
    BY <1>1 DEF Create, Patch, AgentAssign
  <2> QED
    BY <1>0, <2>1, SaveThenOnTheWay DEF Procs
<1>2. CASE Mark \/ CleanRouting
  BY <1>0, <1>2, SaveThenOnTheWay DEF Mark, CleanRouting, Procs
<1>3. CASE Attach
  <2>1. /\ UNCHANGED <<registered, outputs, dirty, edited, mixed, file, failed>>
        /\ torn => torn'
        /\ at["loop"] = "attach" /\ at' = [at EXCEPT !["loop"] = "idle"]
    BY <1>3 DEF Attach, Disturb
  <2>2. /\ at'["loop"] = "idle" /\ \A q \in Procs \ {"loop"} : at'[q] = at[q]
    BY <1>0, <2>1, GoType DEF Procs, Places
  <2>3. /\ unsaved \subseteq unsaved'
        /\ \A a \in registered \ unsaved' : skills'[a] = skills[a]
    <3>1. PICK S \in SUBSET form.skills :
            IF S = {} THEN UNCHANGED <<skills, unsaved, taught, torn>>
            ELSE /\ skills' = [skills EXCEPT ![form.agent] =
                                 [s \in Skills |-> IF s \in S THEN "text" ELSE "no"]]
                 /\ unsaved' = unsaved \cup {form.agent}
                 /\ taught' = Untaught(form.agent) \cup ({form.agent} \X S)
      BY <1>3 DEF Attach
    <3> QED
      BY <1>0, <3>1 DEF MemoryOK
  <2> QED
    BY <1>0, <2>1, <2>2, <2>3, StillCurrent DEF Procs
<1>4. ASSUME NEW a \in Ids, NEW s \in Skills, SkillsAssign(a, s)
      PROVE  FileIsCurrent'
  <2>1. /\ UNCHANGED <<registered, outputs, dirty, edited, mixed, file, failed, at>>
        /\ torn => torn'
        /\ skills' = List(a, {s}, "text")
        /\ unsaved' = IF skills[a][s] = "no" THEN unsaved \cup {a} ELSE unsaved
    BY <1>4 DEF SkillsAssign, procVars, Disturb
  <2>2. CASE skills[a][s] = "no"
    <3>1. \A b \in registered \ unsaved' : skills'[b] = skills[b]
      BY <1>0, <2>1, <2>2, ListElsewhere DEF Listing
    <3> QED
      BY <1>0, <2>1, <2>2, <3>1, StillCurrent
  <2>3. CASE skills[a][s] # "no"
    <3>1. skills' = skills
      BY <1>0, <2>1, <2>3 DEF List, MemoryOK
    <3> QED
      BY <1>0, <2>1, <2>3, <3>1, StillCurrent
  <2> QED
    BY <2>2, <2>3
<1>5. CASE AskForPlan \/ Planned \/ CheckPlan \/ AskCeo \/ Decide
  <2>1. UNCHANGED <<registered, outputs, dirty, edited, mixed, file, torn, failed, skills,
                    unsaved>>
    BY <1>5 DEF AskForPlan, Planned, CheckPlan, AskCeo, Decide, memory, histVars
  <2>2. PICK p \in Procs, place \in Places :
          at' = [at EXCEPT ![p] = place] /\ at[p] \in {"idle", "asked", "plan"}
    BY <1>5 DEF AskForPlan, Planned, CheckPlan, AskCeo, Decide, Begin, Procs, Places
  <2>3. \A q \in Procs \ {p} : at'[q] = at[q]
    BY <1>0, <2>2, GoType
  <2> QED
    BY <1>0, <2>1, <2>2, <2>3, StillCurrent DEF Procs
<1>6. CASE ApplyPlan
  <2>1. CASE Valid(plan, registered)
    <3>1. at' = [at EXCEPT !["planner"] = "assign"]
      BY <1>6, <2>1 DEF ApplyPlan
    <3> QED
      BY <1>0, <3>1, GoType, OnTheWay DEF Procs, Places
  <2>2. CASE ~Valid(plan, registered)
    <3>1. /\ UNCHANGED <<registered, outputs, dirty, edited, mixed, file, torn, failed, skills,
                          unsaved>>
          /\ at["planner"] = "apply" /\ at' = [at EXCEPT !["planner"] = "idle"]
      BY <1>6, <2>2 DEF ApplyPlan, memory
    <3>2. \A q \in Procs \ {"planner"} : at'[q] = at[q]
      BY <1>0, <3>1, GoType DEF Procs, Places
    <3> QED
      BY <1>0, <3>1, <3>2, StillCurrent DEF Procs
  <2> QED
    BY <2>1, <2>2
<1>7. CASE AppendSkill
  <2>1. \/ SaveThen("ceo", "idle")
        \/ UNCHANGED <<skills, unsaved, torn>> /\ at' = [at EXCEPT !["ceo"] = "idle"]
    BY <1>7, Appended
  <2>2. /\ UNCHANGED <<registered, outputs, dirty, edited, mixed, file, failed>>
        /\ at["ceo"] = "append"
    BY <1>7 DEF AppendSkill
  <2>3. CASE SaveThen("ceo", "idle")
    BY <1>0, <2>3, SaveThenOnTheWay DEF Procs
  <2>4. CASE UNCHANGED <<skills, unsaved, torn>> /\ at' = [at EXCEPT !["ceo"] = "idle"]
    <3>1. \A q \in Procs \ {"ceo"} : at'[q] = at[q]
      BY <1>0, <2>4, GoType DEF Procs, Places
    <3> QED
      BY <1>0, <2>2, <2>4, <3>1, StillCurrent DEF Procs
  <2> QED
    BY <2>1, <2>3, <2>4
<1>8. ASSUME NEW p \in Procs, OpenFile(p)
      PROVE  FileIsCurrent'
  <2>1. CASE at' = [at EXCEPT ![p] = "write"]
    <3>1. at'[p] = "write"
      BY <1>0, <2>1, GoType DEF Places
    <3> QED
      BY <3>1, OnTheWay
  <2>2. CASE failed'
    BY <2>2 DEF FileIsCurrent
  <2> QED
    BY <1>8, <2>1, <2>2 DEF OpenFile
<1>9. ASSUME NEW p \in Procs, WriteFile(p)
      PROVE  FileIsCurrent'
  <2>1. UNCHANGED <<registered, skills, outputs, dirty, edited, mixed, torn>>
    BY <1>9 DEF WriteFile, memory
  <2>2. CASE failed'
    BY <2>2 DEF FileIsCurrent
  <2>3. CASE file' = Manifest /\ unsaved' = {}
    <3>2. Manifest' = Manifest
      BY <2>1 DEF Manifest
    <3>3. Manifest = [Manifest EXCEPT !.skills = Manifest.skills] /\ Manifest.skills = skills
      BY <1>0, ManifestType DEF Manifests
    <3>4. Current'
      BY <2>1, <2>3, <3>2, <3>3 DEF Current
    <3> QED
      BY <3>4 DEF FileIsCurrent, Current
  <2> QED
    BY <1>9, <2>2, <2>3 DEF WriteFile
<1>10. CASE Crash
  <2>1. /\ registered' = file.registered /\ skills' = file.skills
        /\ outputs' = file.outputs /\ dirty' = file.dirty /\ edited' = file.edited
        /\ mixed' = file.mixed /\ torn' = FALSE /\ file' = file
    BY <1>10 DEF Crash
  <2>2. SUFFICES ASSUME registered' # {}
                 PROVE  Current'
    BY DEF FileIsCurrent, Current, Loaded
  <2>3. file.parses = TRUE
    BY <1>0, <2>1, <2>2 DEF FileShape, Manifests
  <2>4. Manifest' = [parses |-> TRUE, registered |-> file.registered, dirty |-> file.dirty,
                    skills |-> file.skills, outputs |-> file.outputs, edited |-> file.edited,
                    mixed |-> file.mixed]
    <3>1. (mixed' \/ torn') = file.mixed
      BY <1>0, <2>1 DEF Manifests
    <3> QED
      BY <2>1, <3>1 DEF Manifest
  <2>5. Manifest' = file
    BY <1>0, <2>3, <2>4 DEF Manifests
  <2>6. file = [file EXCEPT !.skills = file.skills]
    BY <1>0 DEF Manifests
  <2> QED
    BY <2>1, <2>5, <2>6 DEF Current
<1>11. CASE UNCHANGED vars
  <2>1. UNCHANGED <<registered, skills, outputs, dirty, edited, mixed, file, torn, failed, at,
                    unsaved>>
    BY <1>11 DEF vars, memory, procVars, histVars
  <2> QED
    BY <1>0, <2>1, StillCurrent
<1>12. ASSUME NEW a \in Ids, AssignOutputs(a)
       PROVE  FileIsCurrent'
  BY <1>12, OnTheWay DEF AssignOutputs, Procs
<1> QED
  BY <1>1, <1>2, <1>3, <1>4, <1>5, <1>6, <1>7, <1>8, <1>9, <1>10, <1>11, <1>12 DEF Next

(* Whenever no route is on its way to a save, and the last save did not    *)
(* fail nor run beside another or a change, project.json has the registry  *)
(* the bridge works with, all but the skills of the agents that a route    *)
(* without a save changed.                                                 *)
THEOREM FileStaysCurrent == Spec => []FileIsCurrent
  BY SpecInv, FileInit, FileNext, PTL DEF Spec

=============================================================================
