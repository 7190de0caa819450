-------------------------- MODULE ProjectRegistry --------------------------
(***************************************************************************)
(* The agents of a project in the bridge (bridge/bridge.py): their         *)
(* registration, their skills, the routing graph in their outputs_to, and  *)
(* project.json, where some of the routes save all this.                   *)
(*                                                                         *)
(* The async routes run one at a time on the event loop ("loop").  POST    *)
(* /routing/ceo/rebuild and POST /orchestrate run in pool threads          *)
(* ("planner", "ceo"), one request of each, and wait there for a model or  *)
(* for skills.sh while the loop goes on.  Text is abstracted: a skill is   *)
(* listed bare, as a request named it, or with the text skills.sh has.     *)
(***************************************************************************)
EXTENDS RoutingGraph, Sequences

CONSTANTS
    Ids,           \* agent ids
    Given,         \* the agents of the project.json the bridge starts with
    Skills,
    Edits,         \* the outputs_to that a PATCH may name
    Plans,         \* the plans, sets of edges, that the model may answer
    MaxRequests,   \* bound: requests, of all routes
    MaxRestarts    \* bound: crashes of the bridge

ASSUME IdsAssumption    == IsFiniteSet(Ids)
ASSUME GivenAssumption  == Given \subseteq Ids /\ Given # {} /\ Skills # {}
ASSUME EditsAssumption  == Edits \subseteq SUBSET Ids
ASSUME PlansAssumption  == Plans \subseteq SUBSET (Ids \X Ids)
ASSUME BoundsAssumption == MaxRequests \in Nat /\ MaxRestarts \in Nat

Procs == {"loop", "planner", "ceo"}
Places == {"idle", "open", "write"} \cup  \* the save, the same for all three
          {"attach", "mark",              \* "loop": create, PATCH
           "asked", "plan", "apply",      \* "planner"; "asked" of both threads
           "assign", "append"}            \* "planner"; "ceo"
Listing == {"no", "bare", "text"}

VARIABLES
    registered,   \* PROJECT["agents"]: the ids in it
    skills,       \* skills[a][s]: how agent a lists skill s
    outputs,      \* outputs[a]: its outputs_to
    dirty,        \* PROJECT["routing"]["dirty"]
    file,         \* project.json: a manifest, or whether it does not parse
    at,           \* at[p]: where process p is
    after,        \* after[p]: where it goes from its save
    form,         \* the loop's request: agent and skills asked for
    plan,         \* the planner's edges
    todo,         \* the agents it has still to give their outputs
    task,         \* the ceo's assignment; stale: its agent was replaced
    edited,       \* history: the agents whose outputs_to PATCH wrote
    mixed,        \* history: may outputs of two plans be in the registry?
    unsaved,      \* history: agents whose skills changed after the last save
    torn,         \* history: did the last save meet another, or a change?
    failed,       \* history: did the last save fail?
    taught,       \* history: <<a, s>> answered as assigned, with its text
    requests, restarts    \* bounds

memory   == <<registered, skills, outputs, dirty>>
procVars == <<at, after, form, plan, todo, task>>
histVars == <<edited, mixed, unsaved, torn, failed, taught>>
bounds   == <<requests, restarts>>
vars     == <<memory, file, procVars, histVars, bounds>>

Manifests == [parses : BOOLEAN, registered : SUBSET Ids, dirty : BOOLEAN,
              skills : [Ids -> [Skills -> Listing]], outputs : [Ids -> SUBSET Ids],
              edited : SUBSET Ids, mixed : BOOLEAN]

NoSkill    == [s \in Skills |-> "no"]
NoSkills   == [a \in Ids |-> NoSkill]
NoOutputs  == [a \in Ids |-> {}]
NoManifest == [parses |-> FALSE, registered |-> {}, dirty |-> FALSE,
               skills |-> NoSkills, outputs |-> NoOutputs, edited |-> {},
               mixed |-> FALSE]

Edges(out) == {e \in Ids \X Ids : e[2] \in out[e[1]]}

TypeOK ==
    /\ registered \subseteq Ids
    /\ skills \in [Ids -> [Skills -> Listing]]
    /\ outputs \in [Ids -> SUBSET Ids]
    /\ dirty \in BOOLEAN
    /\ mixed \in BOOLEAN /\ torn \in BOOLEAN /\ failed \in BOOLEAN
    /\ file \in Manifests
    /\ at \in [Procs -> Places] /\ after \in [Procs -> {"idle", "attach", "mark"}]
    /\ form \in [agent : Ids, skills : SUBSET Skills]
    /\ plan \subseteq Ids \X Ids /\ todo \subseteq registered
    /\ task \in [agent : Ids, skill : Skills, stale : BOOLEAN]
    /\ \A a \in Ids \ registered : skills[a] = NoSkill /\ outputs[a] = {}
    /\ edited \subseteq registered /\ unsaved \subseteq registered
    /\ taught \subseteq registered \X Skills
    /\ requests \in 0 .. MaxRequests /\ restarts \in 0 .. MaxRestarts

Loaded == registered # {}  \* else PROJECT is {} and no route changes it

Some(S) == CHOOSE x \in S : TRUE
NoForm == [agent |-> Some(Ids), skills |-> {}]
NoTask == [agent |-> Some(Ids), skill |-> Some(Skills), stale |-> FALSE]

Init ==
    /\ registered = Given /\ skills = NoSkills /\ outputs = NoOutputs /\ dirty = FALSE
    /\ file = [NoManifest EXCEPT !.parses = TRUE, !.registered = Given]
    /\ at = [p \in Procs |-> "idle"] /\ after = [p \in Procs |-> "idle"]
    /\ form = NoForm /\ plan = {} /\ todo = {} /\ task = NoTask
    /\ edited = {} /\ mixed = FALSE /\ unsaved = {} /\ taught = {}
    /\ torn = FALSE /\ failed = FALSE
    /\ requests = 0 /\ restarts = 0

-----------------------------------------------------------------------------
(* A request arrives at process p. *)
Begin(p) ==
    /\ Loaded /\ at[p] = "idle"
    /\ requests < MaxRequests /\ requests' = requests + 1
    /\ UNCHANGED restarts

(* A save that is writing may miss what is changed now, or have half of it. *)
Writers == {p \in Procs : at[p] = "write"}
Disturb == torn' = (torn \/ Writers # {})

(* p saves from now on and then goes to "then". *)
SaveThen(p, then) ==
    at' = [at EXCEPT ![p] = "open"] /\ after' = [after EXCEPT ![p] = then]

List(a, S, how) ==
    [skills EXCEPT ![a] = [s \in Skills |-> IF s \in S /\ @[s] = "no" THEN how ELSE @[s]]]

Untaught(a) == {p \in taught : p[1] # a}

(* POST /agents/create, and each agent of /agents/create_team: a new record, *)
(* with the skills as the request names them, in the place of any old one;   *)
(* the list is a new one, so that a loop over the old list misses it.        *)
Create(a) ==
    /\ Begin("loop")
    /\ registered' = registered \cup {a}
    /\ \E S \in SUBSET Skills :
         /\ form' = [agent |-> a, skills |-> S]
         /\ skills' = [skills EXCEPT ![a] = [s \in Skills |->
                                               IF s \in S THEN "bare" ELSE "no"]]
    /\ outputs' = [outputs EXCEPT ![a] = {}]
    /\ dirty' = TRUE
    /\ taught' = Untaught(a) /\ unsaved' = unsaved \cup {a}
    /\ edited' = edited \ {a} /\ todo' = todo \ {a}
    /\ task' = [task EXCEPT !.stale = @ \/ (at["ceo"] = "append" /\ task.agent = a)]
    /\ SaveThen("loop", "attach") /\ Disturb
    /\ UNCHANGED <<file, plan, mixed, failed>>

(* Its skills are fetched after the save; what was fetched, if anything,   *)
(* becomes the agent's list, in memory.                                    *)
Attach ==
    /\ at["loop"] = "attach"
    /\ at' = [at EXCEPT !["loop"] = "idle"]
    /\ \E S \in SUBSET form.skills :
         IF S = {} THEN UNCHANGED <<skills, unsaved, taught, torn>>
         ELSE LET a == form.agent IN
              /\ skills' = [skills EXCEPT ![a] = [s \in Skills |->
                                                    IF s \in S THEN "text" ELSE "no"]]
              /\ unsaved' = unsaved \cup {a}
              /\ taught' = Untaught(a) \cup ({a} \X S)
              /\ Disturb
    /\ form' = NoForm
    /\ UNCHANGED <<registered, outputs, dirty, file, after, plan, todo, task, edited,
                   mixed, failed, bounds>>

(* POST /skills/assign, and the older /skills/{id}/apply/{agent}: no save. *)
SkillsAssign(a, s) ==
    /\ Begin("loop")
    /\ a \in registered
    /\ skills' = List(a, {s}, "text")
    /\ unsaved' = IF skills[a][s] = "no" THEN unsaved \cup {a} ELSE unsaved
    /\ taught' = taught \cup {<<a, s>>}
    /\ Disturb
    /\ UNCHANGED <<registered, outputs, dirty, file, procVars, edited, mixed, failed>>

(* Mutant: the agent is not looked up first. *)
AgentAssignAnyone(a, S) ==
    /\ Begin("loop")
    /\ skills' = List(a, S, "text")
    /\ unsaved' = unsaved /\ taught' = taught
    /\ dirty' = TRUE
    /\ SaveThen("loop", "idle") /\ Disturb
    /\ UNCHANGED <<registered, outputs, file, form, plan, todo, task, edited, mixed,
                   failed>>

(* POST /agents/{id}/skills/assign, with what skills.sh had of the request. *)
AgentAssign(a, S) ==
    /\ Begin("loop")
    /\ IF a \in registered
       THEN /\ skills' = List(a, S, "text")
            /\ unsaved' = unsaved \cup {a}
            /\ taught' = taught \cup ({a} \X S)
       ELSE UNCHANGED <<skills, unsaved, taught>>
    /\ dirty' = TRUE
    /\ SaveThen("loop", "idle") /\ Disturb
    /\ UNCHANGED <<registered, outputs, file, form, plan, todo, task, edited, mixed,
                   failed>>

(* PATCH /agents/{id}: outputs_to or skills as the body has them; it saves, *)
(* marks the routing dirty and saves again.                                 *)
Patch(a) ==
    /\ Begin("loop")
    /\ a \in registered
    /\ \/ /\ \E B \in Edits : outputs' = [outputs EXCEPT ![a] = B]
          /\ edited' = edited \cup {a}
          /\ UNCHANGED <<skills, unsaved, taught>>
       \/ /\ \E S \in SUBSET Skills :
               skills' = [skills EXCEPT ![a] = [s \in Skills |->
                                                  IF s \in S THEN "text" ELSE "no"]]
          /\ unsaved' = unsaved \cup {a} /\ taught' = Untaught(a)
          /\ UNCHANGED <<outputs, edited>>
    /\ SaveThen("loop", "mark") /\ Disturb
    /\ UNCHANGED <<registered, dirty, file, form, plan, todo, task, mixed, failed>>

(* Mutant: PATCH marks the routing dirty in memory only. *)
MarkUnsaved ==
    /\ at["loop"] = "mark"
    /\ dirty' = TRUE
    /\ at' = [at EXCEPT !["loop"] = "idle"]
    /\ Disturb
    /\ UNCHANGED <<registered, skills, outputs, file, after, form, plan, todo, task,
                   edited, mixed, unsaved, failed, taught, bounds>>

Mark ==
    /\ at["loop"] = "mark"
    /\ dirty' = TRUE
    /\ SaveThen("loop", "idle") /\ Disturb
    /\ UNCHANGED <<registered, skills, outputs, file, form, plan, todo, task, edited,
                   mixed, unsaved, failed, taught, bounds>>

-----------------------------------------------------------------------------
(* POST /routing/ceo/rebuild. *)
AskForPlan ==
    /\ Begin("planner")
    /\ at' = [at EXCEPT !["planner"] = "asked"]
    /\ UNCHANGED <<memory, file, after, form, plan, todo, task, histVars>>

(* The model names edges; when its call fails the route ends, or takes the *)
(* fallback, every agent to the CEO, which is one of the plans.            *)
Planned ==
    /\ at["planner"] = "asked"
    /\ \/ /\ plan' \in Plans
          /\ at' = [at EXCEPT !["planner"] = "plan"]
       \/ at' = [at EXCEPT !["planner"] = "idle"] /\ UNCHANGED plan
    /\ UNCHANGED <<memory, file, after, form, todo, task, histVars, bounds>>

(* The first validation; a plan that fails it, or that is not to be        *)
(* applied, is only answered.                                              *)
CheckPlan ==
    /\ at["planner"] = "plan"
    /\ \/ at' = [at EXCEPT !["planner"] = "idle"] /\ plan' = {}
       \/ /\ Valid(plan, registered)
          /\ at' = [at EXCEPT !["planner"] = "apply"] /\ UNCHANGED plan
    /\ UNCHANGED <<memory, file, after, form, todo, task, histVars, bounds>>

(* _apply_routing_edges validates once more, against the agents whose list  *)
(* it then goes through.                                                    *)
ApplyPlan ==
    /\ at["planner"] = "apply"
    /\ IF Valid(plan, registered)
       THEN /\ todo' = registered /\ mixed' = TRUE
            /\ at' = [at EXCEPT !["planner"] = "assign"] /\ UNCHANGED plan
       ELSE /\ at' = [at EXCEPT !["planner"] = "idle"] /\ plan' = {}
            /\ UNCHANGED <<todo, mixed>>
    /\ UNCHANGED <<memory, file, after, form, task, edited, unsaved, torn, failed, taught,
                   bounds>>

PlanOf(a) == {b \in Ids : <<a, b>> \in plan}

(* Mutant: the outputs of earlier plans are kept. *)
AssignOutputsToo(a) ==
    /\ at["planner"] = "assign" /\ a \in todo
    /\ outputs' = [outputs EXCEPT ![a] = @ \cup PlanOf(a)]
    /\ edited' = edited \ {a} /\ todo' = todo \ {a} /\ Disturb
    /\ UNCHANGED <<registered, skills, dirty, file, at, after, form, plan, task, mixed,
                   unsaved, failed, taught, bounds>>

(* One agent after the other is given its outputs, while the loop goes on. *)
AssignOutputs(a) ==
    /\ at["planner"] = "assign" /\ a \in todo
    /\ outputs' = [outputs EXCEPT ![a] = PlanOf(a)]
    /\ edited' = edited \ {a} /\ todo' = todo \ {a} /\ Disturb
    /\ UNCHANGED <<registered, skills, dirty, file, at, after, form, plan, task, mixed,
                   unsaved, failed, taught, bounds>>

(* PROJECT["routing"] = {..., "dirty": False, ...}, and the save. *)
CleanRouting ==
    /\ at["planner"] = "assign" /\ todo = {}
    /\ dirty' = FALSE /\ mixed' = FALSE /\ plan' = {}
    /\ SaveThen("planner", "idle") /\ Disturb
    /\ UNCHANGED <<registered, skills, outputs, file, form, todo, task, edited, unsaved,
                   failed, taught, bounds>>

-----------------------------------------------------------------------------
(* POST /orchestrate: the CEO's model is asked. *)
AskCeo ==
    /\ Begin("ceo")
    /\ at' = [at EXCEPT !["ceo"] = "asked"]
    /\ UNCHANGED <<memory, file, after, form, plan, todo, task, histVars>>

(* Its decision: nothing to assign, or a skill for an agent that is found; *)
(* the route keeps that agent's record while it fetches the skill.         *)
Decide ==
    /\ at["ceo"] = "asked"
    /\ \/ at' = [at EXCEPT !["ceo"] = "idle"] /\ UNCHANGED task
       \/ \E a \in registered, s \in Skills :
            /\ at' = [at EXCEPT !["ceo"] = "append"]
            /\ task' = [agent |-> a, skill |-> s, stale |-> FALSE]
    /\ UNCHANGED <<memory, file, after, form, plan, todo, histVars, bounds>>

(* _apply_ceo_skill_assignment after the fetch: text, or what skills.json  *)
(* says of it; it saves if the record it holds did not list the skill yet. *)
AppendSkill ==
    LET a == task.agent  s == task.skill IN
    /\ at["ceo"] = "append"
    /\ \E how \in {"text", "bare"} :
         /\ IF task.stale
            THEN /\ \/ SaveThen("ceo", "idle")
                    \/ at' = [at EXCEPT !["ceo"] = "idle"] /\ UNCHANGED after
                 /\ UNCHANGED <<skills, unsaved, torn>>
            ELSE IF skills[a][s] = "no"
            THEN /\ skills' = List(a, {s}, how)
                 /\ unsaved' = unsaved \cup {a}
                 /\ SaveThen("ceo", "idle") /\ Disturb
            ELSE /\ at' = [at EXCEPT !["ceo"] = "idle"]
                 /\ UNCHANGED <<skills, unsaved, after, torn>>
         /\ taught' = IF how = "text" THEN taught \cup {<<a, s>>} ELSE taught
    /\ task' = NoTask
    /\ UNCHANGED <<registered, outputs, dirty, file, form, plan, todo, edited, mixed,
                   failed, bounds>>

-----------------------------------------------------------------------------
(* _save_project, of any of the three: a save that fails is logged and the  *)
(* route goes on.  An open that fails leaves the file as it is.             *)
Return(p) == at' = [at EXCEPT ![p] = after[p]] /\ after' = [after EXCEPT ![p] = "idle"]

OpenFile(p) ==
    /\ at[p] = "open"
    /\ \/ /\ at' = [at EXCEPT ![p] = "write"] /\ UNCHANGED after
          /\ file' = NoManifest
          /\ torn' = (Writers # {}) /\ UNCHANGED failed
       \/ /\ Return(p)
          /\ failed' = TRUE /\ UNCHANGED <<file, torn>>
    /\ UNCHANGED <<memory, form, plan, todo, task, edited, mixed, unsaved, taught, bounds>>

(* What a save beside another, or beside a change, writes may be of two     *)
(* moments: nothing is claimed of it.                                       *)
Manifest == [parses |-> TRUE, registered |-> registered, dirty |-> dirty,
             skills |-> skills, outputs |-> outputs, edited |-> edited,
             mixed |-> mixed \/ torn]

WriteFile(p) ==
    /\ at[p] = "write"
    /\ Return(p)
    /\ \/ file' = Manifest /\ unsaved' = {} /\ failed' = FALSE
       \/ file' = NoManifest /\ failed' = TRUE /\ UNCHANGED unsaved
    /\ UNCHANGED <<memory, form, plan, todo, task, edited, mixed, torn, taught, bounds>>

(* A crash and the next start: load_project; a file that does not parse    *)
(* leaves the bridge without a project.                                    *)
Crash ==
    /\ restarts < MaxRestarts /\ restarts' = restarts + 1
    /\ registered' = file.registered /\ skills' = file.skills
    /\ outputs' = file.outputs /\ dirty' = file.dirty
    /\ edited' = file.edited /\ mixed' = file.mixed
    /\ at' = [p \in Procs |-> "idle"] /\ after' = [p \in Procs |-> "idle"]
    /\ form' = NoForm /\ plan' = {} /\ todo' = {} /\ task' = NoTask
    /\ unsaved' = {} /\ torn' = FALSE /\ failed' = FALSE
    /\ taught' = {p \in taught : p[1] \in file.registered /\ p[1] \notin unsaved}
    /\ UNCHANGED <<file, requests>>

Next ==
    \/ \E a \in Ids : \/ Create(a) \/ Patch(a) \/ AssignOutputs(a)
                      \/ \E s \in Skills : SkillsAssign(a, s)
                      \/ \E S \in SUBSET Skills : AgentAssign(a, S)
    \/ Attach \/ Mark
    \/ AskForPlan \/ Planned \/ CheckPlan \/ ApplyPlan \/ CleanRouting
    \/ AskCeo \/ Decide \/ AppendSkill
    \/ \E p \in Procs : OpenFile(p) \/ WriteFile(p)
    \/ Crash

Spec == Init /\ [][Next]_vars

-----------------------------------------------------------------------------
(* What is meant to hold. *)

(* The depth-first search of _validate_routing_edges accepts a plan exactly *)
(* when all its agents are registered and none reaches itself.              *)
ValidationExact ==
    at["planner"] = "plan" => (Valid(plan, registered) <=> Sound(plan, registered))

(* The edges that a plan and not PATCH wrote. *)
OfPlans(out, byHand) == {e \in Edges(out) : e[1] \notin byHand}

(* Whatever is registered or replaced while the model makes a plan, and    *)
(* while the plan is applied agent by agent, and whatever a crash takes    *)
(* back: the outputs that PATCH did not write name registered agents and   *)
(* have no cycle, except while a plan is applied and after a restart from  *)
(* a save made meanwhile or beside a change, until the next plan.          *)
RoutesSound == ~mixed => Sound(OfPlans(outputs, edited), registered)

Saving ==
    \/ \E p \in Procs : at[p] \in {"open", "write"}
    \/ at["planner"] = "assign" \/ at["loop"] = "mark"

(* When no route is on its way to a save, and the last save did not fail,  *)
(* nor run beside another or beside a change, project.json has the         *)
(* registry the bridge works with: a restart loses nothing but the skills  *)
(* of agents changed by a route that does not save.                        *)
FileIsCurrent ==
    Loaded /\ ~torn /\ ~failed /\ ~Saving =>
        /\ file = [Manifest EXCEPT !.skills = file.skills]
        /\ \A a \in registered \ unsaved : file.skills[a] = skills[a]

(* README.md: the bridge fetches the SKILL.md of an assigned skill and     *)
(* appends it to the target agent's instructions, that is, the agent lists *)
(* the skill with its text.                                                *)
AssignedHasText ==
    at["loop"] = "idle" => \A p \in taught : skills[p[1]][p[2]] = "text"

=============================================================================
