---------------------------- MODULE RoutingGraph ----------------------------
(***************************************************************************)
(* _validate_routing_edges (bridge/bridge.py): the checks an agent routing *)
(* graph passes before it is applied.  A graph is a set of pairs of ids;   *)
(* the warnings, which do not refuse it, are left out.                     *)
(***************************************************************************)
EXTENDS Naturals, FiniteSets

Known(edges, ids) == edges \subseteq ids \X ids

NoSelfLoop(edges) == \A e \in edges : e[1] # e[2]

(* adjacency: only known edges that are no self-loop get into it. *)
Following(edges, ids, n) == {m \in ids : m # n /\ <<n, m>> \in edges}

(***************************************************************************)
(* The depth-first search.  A work item is what a for loop of it has still *)
(* to call dfs for, with the sets visiting and visited then; the result is *)
(* visited after the loop, and whether a call in it reported a cycle.      *)
(***************************************************************************)
Work(ids)    == [todo: SUBSET ids, visiting: SUBSET ids, visited: SUBSET ids]
Results(ids) == [visited: SUBSET ids, hit: BOOLEAN]

Nothing(visited) == [visited |-> visited, hit |-> FALSE]
Cycle(visited)   == [visited |-> visited, hit |-> TRUE]

(* Work items: the loop over the successors of n; what is left after n. *)
Below(w, n, edges, ids) == [todo |-> Following(edges, ids, n),
                            visiting |-> w.visiting \cup {n}, visited |-> w.visited]
After(w, n, visited)    == [todo |-> w.todo \ {n}, visiting |-> w.visiting,
                            visited |-> visited]

(* Mutant: a node visited before counts as a cycle. *)
DfsTwice(search, w, n, edges, ids) ==
    IF n \in w.visiting \/ n \in w.visited THEN Cycle(w.visited)
    ELSE LET below == search[Below(w, n, edges, ids)]
         IN  [below EXCEPT !.visited = @ \cup {n}]

(* dfs(n). *)
Dfs(search, w, n, edges, ids) ==
    IF n \in w.visiting THEN Cycle(w.visited)
    ELSE IF n \in w.visited THEN Nothing(w.visited)
    ELSE LET below == search[Below(w, n, edges, ids)]
         IN  [below EXCEPT !.visited = @ \cup {n}]

(* The loop: dfs of one of its nodes, and the loop over the others. *)
Loop(search, w, edges, ids) ==
    IF w.todo = {} THEN Nothing(w.visited)
    ELSE LET n    == CHOOSE n \in w.todo : TRUE
             one  == Dfs(search, w, n, edges, ids)
             rest == search[After(w, n, one.visited)]
         IN  [visited |-> rest.visited, hit |-> one.hit \/ rest.hit]

Search(edges, ids) ==
    LET search[w \in Work(ids)] == Loop(search, w, edges, ids) IN search

Everything(ids) == [todo |-> ids, visiting |-> {}, visited |-> {}]

Valid(edges, ids) == /\ Known(edges, ids) /\ NoSelfLoop(edges)
                     /\ ~Search(edges, ids)[Everything(ids)].hit

-----------------------------------------------------------------------------
(* The reference: every set of agents has one that outputs to none of them. *)
Acyclic(edges, ids) ==
    \A S \in (SUBSET ids) \ {{}} : \E a \in S : \A b \in S : <<a, b>> \notin edges

Sound(edges, ids) == Known(edges, ids) /\ Acyclic(edges, ids)

=============================================================================
