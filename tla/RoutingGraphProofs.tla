------------------------- MODULE RoutingGraphProofs -------------------------
(***************************************************************************)
(* _validate_routing_edges accepts exactly the graphs over the registered  *)
(* agents that have no cycle, for every finite set of agents.              *)
(*                                                                         *)
(* The search is a recursive function.  That its equation has a solution,  *)
(* and what its values are, is proved by induction on the weight of a work *)
(* item, in the form that every non-empty set of numbers has a least one.  *)
(***************************************************************************)
EXTENDS RoutingGraph, FiniteSetTheorems, WellFoundedInduction, TLAPS

LEMMA Least ==
  ASSUME NEW S \in SUBSET Nat, S # {}
  PROVE  \E n \in S : \A m \in S : n <= m
<1> DEFINE R == {ss \in Nat \X Nat : ss[1] < ss[2]}
<1>1. IsWellFoundedOn(R, Nat)
  BY NatLessThanWellFounded DEF OpToRel
<1>2. PICK n \in S : \A m \in S : <<m, n>> \notin R
  <2> HIDE DEF R
  <2> QED
    BY <1>1, WFMin
<1>3. \A m \in S : ~(m < n)
  BY <1>2
<1> QED
  BY <1>3

-----------------------------------------------------------------------------
(* The weight: a call below has one more node in visiting, what is left    *)
(* after a call has one less to do.                                        *)
Weight(w, ids) ==
    Cardinality(ids \ w.visiting) * (Cardinality(ids) + 1) + Cardinality(w.todo)

LEMMA Lexicographic ==
  ASSUME NEW a \in Nat, NEW N \in Nat, NEW t \in Nat, NEW u \in 0 .. N
  PROVE  a * (N + 1) + u < (a + 1) * (N + 1) + t
<1>1. (a + 1) * (N + 1) = a * (N + 1) + (N + 1)
  OBVIOUS
<1>2. a * (N + 1) \in Nat
  OBVIOUS
<1> QED
  BY <1>1, <1>2

LEMMA SizeOf ==
  ASSUME NEW ids, IsFiniteSet(ids), NEW S \in SUBSET ids
  PROVE  /\ IsFiniteSet(S) /\ Cardinality(S) \in Nat
         /\ Cardinality(ids) \in Nat /\ Cardinality(S) <= Cardinality(ids)
  BY FS_Subset, FS_CardinalityType

LEMMA WeightType ==
  ASSUME NEW ids, IsFiniteSet(ids), NEW w \in Work(ids)
  PROVE  Weight(w, ids) \in Nat
<1>1. w.todo \in SUBSET ids /\ ids \ w.visiting \in SUBSET ids
  BY DEF Work
<1>2. /\ Cardinality(w.todo) \in Nat /\ Cardinality(ids \ w.visiting) \in Nat
      /\ Cardinality(ids) \in Nat
  BY <1>1, SizeOf
<1>3. \A a, b, c \in Nat : a * (b + 1) + c \in Nat
  OBVIOUS
<1> QED
  BY <1>2, <1>3 DEF Weight

LEMMA BelowIsLess ==
  ASSUME NEW edges, NEW ids, IsFiniteSet(ids), NEW w \in Work(ids),
         NEW n \in ids, n \notin w.visiting
  PROVE  /\ Below(w, n, edges, ids) \in Work(ids)
         /\ Weight(Below(w, n, edges, ids), ids) < Weight(w, ids)
<1> DEFINE v == Below(w, n, edges, ids)
           left == ids \ w.visiting
<1>1. v \in Work(ids)
  BY DEF Work, Below, Following
<1>2. v.todo \in SUBSET ids /\ w.todo \in SUBSET ids /\ left \in SUBSET ids
  BY <1>1 DEF Work
<1>3. ids \ v.visiting = left \ {n} /\ n \in left
  BY DEF Below
<1>4. IsFiniteSet(left) /\ Cardinality(left) \in Nat
  BY <1>2, SizeOf
<1>5. /\ Cardinality(left \ {n}) \in Nat
      /\ Cardinality(left) = Cardinality(left \ {n}) + 1
  <2>1. /\ IsFiniteSet(left \ {n})
        /\ Cardinality(left \ {n}) = Cardinality(left) - 1
    BY <1>3, <1>4, FS_RemoveElement
  <2>2. Cardinality(left \ {n}) \in Nat
    BY <2>1, FS_CardinalityType
  <2> QED
    BY <1>4, <2>1, <2>2
<1>6. /\ Cardinality(v.todo) \in 0 .. Cardinality(ids)
      /\ Cardinality(w.todo) \in Nat /\ Cardinality(ids) \in Nat
  BY <1>2, SizeOf
<1>7. Cardinality(left \ {n}) * (Cardinality(ids) + 1) + Cardinality(v.todo)
        < (Cardinality(left \ {n}) + 1) * (Cardinality(ids) + 1) + Cardinality(w.todo)
  <2> HIDE DEF v, left
  <2> QED
    BY <1>5, <1>6, Lexicographic
<1> QED
  BY <1>1, <1>3, <1>5, <1>7 DEF Weight

LEMMA AfterIsLess ==
  ASSUME NEW ids, IsFiniteSet(ids), NEW w \in Work(ids),
         NEW n \in w.todo, NEW visited \in SUBSET ids
  PROVE  /\ After(w, n, visited) \in Work(ids)
         /\ Weight(After(w, n, visited), ids) < Weight(w, ids)
<1> DEFINE v == After(w, n, visited)
<1>1. v \in Work(ids) /\ v.todo = w.todo \ {n} /\ v.visiting = w.visiting
  BY DEF Work, After
<1>2. w.todo \in SUBSET ids /\ ids \ w.visiting \in SUBSET ids
  BY DEF Work
<1>3. /\ IsFiniteSet(w.todo) /\ Cardinality(w.todo) \in Nat
      /\ Cardinality(ids) \in Nat /\ Cardinality(ids \ w.visiting) \in Nat
  BY <1>2, SizeOf
<1>4. /\ Cardinality(v.todo) = Cardinality(w.todo) - 1
      /\ Cardinality(v.todo) \in Nat
  <2>1. /\ IsFiniteSet(w.todo \ {n})
        /\ Cardinality(w.todo \ {n}) = Cardinality(w.todo) - 1
    BY <1>3, FS_RemoveElement
  <2>2. Cardinality(w.todo \ {n}) \in Nat
    BY <2>1, FS_CardinalityType
  <2> QED
    BY <1>1, <2>1, <2>2
<1>5. \A a, b, c, d \in Nat : c = d - 1 => a * (b + 1) + c < a * (b + 1) + d
  OBVIOUS
<1> HIDE DEF v
<1>6. Weight(v, ids) < Weight(w, ids)
  BY <1>1, <1>3, <1>4, <1>5 DEF Weight
<1> QED
  BY <1>1, <1>6 DEF v

-----------------------------------------------------------------------------
(* The loop looks at the search only for lighter work items. *)
Agree(f, g, w, ids) ==
    \A v \in Work(ids) :
        Weight(v, ids) < Weight(w, ids) => f[v] = g[v] /\ f[v] \in Results(ids)

LEMMA DfsUses ==
  ASSUME NEW edges, NEW ids, IsFiniteSet(ids), NEW f, NEW g,
         NEW w \in Work(ids), Agree(f, g, w, ids), NEW n \in ids
  PROVE  /\ Dfs(f, w, n, edges, ids) = Dfs(g, w, n, edges, ids)
         /\ Dfs(f, w, n, edges, ids) \in Results(ids)
<1>1. CASE n \in w.visiting \/ n \in w.visited
  BY <1>1 DEF Dfs, Cycle, Nothing, Results, Work
<1>2. CASE n \notin w.visiting /\ n \notin w.visited
  <2> DEFINE v == Below(w, n, edges, ids)
  <2>1. v \in Work(ids) /\ Weight(v, ids) < Weight(w, ids)
    BY <1>2, BelowIsLess
  <2>2. f[v] = g[v] /\ f[v] \in Results(ids)
    BY <2>1 DEF Agree
  <2>3. /\ Dfs(f, w, n, edges, ids) = [f[v] EXCEPT !.visited = f[v].visited \cup {n}]
        /\ Dfs(g, w, n, edges, ids) = [g[v] EXCEPT !.visited = g[v].visited \cup {n}]
    BY <1>2 DEF Dfs
  <2> HIDE DEF v
  <2> QED
    BY <2>2, <2>3 DEF Results
<1> QED
  BY <1>1, <1>2

LEMMA LoopUses ==
  ASSUME NEW edges, NEW ids, IsFiniteSet(ids), NEW f, NEW g,
         NEW w \in Work(ids), Agree(f, g, w, ids)
  PROVE  /\ Loop(f, w, edges, ids) = Loop(g, w, edges, ids)
         /\ Loop(f, w, edges, ids) \in Results(ids)
<1>1. CASE w.todo = {}
  BY <1>1 DEF Loop, Nothing, Results, Work
<1>2. CASE w.todo # {}
  <2> DEFINE n   == CHOOSE n \in w.todo : TRUE
             one == Dfs(f, w, n, edges, ids)
             v   == After(w, n, one.visited)
  <2>1. n \in w.todo /\ n \in ids
    BY <1>2 DEF Work
  <2>2. one = Dfs(g, w, n, edges, ids) /\ one \in Results(ids)
    BY <2>1, DfsUses
  <2>3. v \in Work(ids) /\ Weight(v, ids) < Weight(w, ids)
    <3>1. one.visited \in SUBSET ids
      BY <2>2 DEF Results
    <3> HIDE DEF n, one
    <3> QED
      BY <2>1, <3>1, AfterIsLess
  <2>4. f[v] = g[v] /\ f[v] \in Results(ids)
    BY <2>3 DEF Agree
  <2>5. /\ Loop(f, w, edges, ids) = [visited |-> f[v].visited, hit |-> one.hit \/ f[v].hit]
        /\ Loop(g, w, edges, ids) = [visited |-> g[v].visited, hit |-> one.hit \/ g[v].hit]
    BY <1>2, <2>2 DEF Loop
  <2> HIDE DEF n, one, v
  <2> QED
    BY <2>2, <2>4, <2>5 DEF Results
<1> QED
  BY <1>1, <1>2

-----------------------------------------------------------------------------
(* The equation of the search has a solution: first on the light work      *)
(* items, then on all of them.                                             *)
Light(k, ids) == {w \in Work(ids) : Weight(w, ids) < k}

Solves(f, D, edges, ids) ==
    /\ f \in [D -> Results(ids)]
    /\ \A w \in D : f[w] = Loop(f, w, edges, ids)

LEMMA OneHeavier ==
  ASSUME NEW edges, NEW ids, IsFiniteSet(ids), NEW k \in Nat,
         NEW f, Solves(f, Light(k, ids), edges, ids)
  PROVE  \E g : Solves(g, Light(k + 1, ids), edges, ids)
<1> DEFINE g == [w \in Light(k + 1, ids) |-> Loop(f, w, edges, ids)]
<1>1. \A v \in Light(k, ids) : f[v] = Loop(f, v, edges, ids) /\ f[v] \in Results(ids)
  BY DEF Solves
<1>2. ASSUME NEW v \in Light(k, ids)
      PROVE  v \in Light(k + 1, ids)
  BY WeightType DEF Light
<1>3. \A v \in Light(k, ids) : g[v] = f[v]
  BY <1>1, <1>2
<1>4. ASSUME NEW w \in Light(k + 1, ids), NEW v \in Work(ids),
             Weight(v, ids) < Weight(w, ids)
      PROVE  v \in Light(k, ids)
  BY <1>4, WeightType DEF Light
<1>5. ASSUME NEW w \in Light(k + 1, ids)
      PROVE  Agree(f, f, w, ids) /\ Agree(f, g, w, ids) /\ w \in Work(ids)
  <2> HIDE DEF g
  <2> QED
    BY <1>1, <1>3, <1>4 DEF Agree, Light
<1>6. ASSUME NEW w \in Light(k + 1, ids)
      PROVE  /\ Loop(f, w, edges, ids) = Loop(g, w, edges, ids)
             /\ Loop(f, w, edges, ids) \in Results(ids)
  <2> HIDE DEF g
  <2> QED
    BY <1>5, LoopUses
<1>7. Solves(g, Light(k + 1, ids), edges, ids)
  BY <1>6 DEF Solves
<1> QED
  BY <1>7

LEMMA LightSolution ==
  ASSUME NEW edges, NEW ids, IsFiniteSet(ids)
  PROVE  \A k \in Nat : \E f : Solves(f, Light(k, ids), edges, ids)
<1> DEFINE Has(k) == \E f : Solves(f, Light(k, ids), edges, ids)
           S == {k \in Nat : ~Has(k)}
<1>1. SUFFICES ASSUME S # {}
               PROVE  FALSE
  OBVIOUS
<1>2. PICK k \in S : \A m \in S : k <= m
  <2> HIDE DEF S
  <2>1. S \in SUBSET Nat
    BY DEF S
  <2> QED
    BY <1>1, <2>1, Least
<1>3. CASE k = 0
  <2>1. Light(0, ids) = {}
    BY WeightType DEF Light
  <2>2. Solves([w \in {} |-> w], Light(0, ids), edges, ids)
    BY <2>1 DEF Solves
  <2> QED
    BY <1>3, <2>2
<1>4. CASE k # 0
  <2>1. k - 1 \in Nat /\ k - 1 \notin S
    <3> HIDE DEF S
    <3>1. k \in Nat
      BY DEF S
    <3> QED
      BY <1>2, <1>4, <3>1
  <2>2. PICK f : Solves(f, Light(k - 1, ids), edges, ids)
    BY <2>1
  <2>3. Has((k - 1) + 1)
    BY <2>1, <2>2, OneHeavier
  <2>4. (k - 1) + 1 = k
    OBVIOUS
  <2> HIDE DEF Has
  <2>5. Has(k)
    BY <2>3, <2>4
  <2> QED
    BY <2>5
<1> QED
  BY <1>3, <1>4

LEMMA WeightBound ==
  ASSUME NEW ids, IsFiniteSet(ids)
  PROVE  \E k \in Nat : Light(k, ids) = Work(ids)
<1> DEFINE N == Cardinality(ids)
           k == N * (N + 1) + N + 1
<1>1. N \in Nat
  BY FS_CardinalityType
<1>2. \A a, t \in Nat : a <= N /\ t <= N => a * (N + 1) + t < N * (N + 1) + N + 1
  <2> HIDE DEF N
  <2>1. ASSUME NEW a \in Nat, NEW t \in Nat, a <= N, t <= N
        PROVE  a * (N + 1) + t < N * (N + 1) + N + 1
    <3>1. PICK d \in Nat : N = a + d
      <4>1. N - a \in Nat /\ N = a + (N - a)
        BY <1>1, <2>1
      <4> QED
        BY <4>1
    <3>2. N * (N + 1) = a * (N + 1) + d * (N + 1)
      BY <1>1, <3>1
    <3>3. d * (N + 1) \in Nat /\ a * (N + 1) \in Nat
      BY <1>1
    <3> QED
      BY <1>1, <2>1, <3>2, <3>3
  <2> QED
    BY <2>1
<1>3. ASSUME NEW w \in Work(ids)
      PROVE  Weight(w, ids) < k
  <2>1. w.todo \in SUBSET ids /\ ids \ w.visiting \in SUBSET ids
    BY DEF Work
  <2>2. /\ Cardinality(w.todo) \in Nat /\ Cardinality(w.todo) <= N
        /\ Cardinality(ids \ w.visiting) \in Nat /\ Cardinality(ids \ w.visiting) <= N
    BY <2>1, SizeOf
  <2> QED
    BY <1>2, <2>2 DEF Weight
<1>4. Light(k, ids) = Work(ids)
  BY <1>3 DEF Light
<1>5. k \in Nat
  BY <1>1
<1> QED
  BY <1>4, <1>5

(* Induction on the weight: of some work items, one is lightest.           *)
LEMMA Lightest ==
  ASSUME NEW ids, IsFiniteSet(ids), NEW B \in SUBSET Work(ids), B # {}
  PROVE  \E w \in B : \A v \in Work(ids) : Weight(v, ids) < Weight(w, ids) => v \notin B
<1> DEFINE S == {Weight(w, ids) : w \in B}
<1>1. S \in SUBSET Nat /\ S # {}
  BY WeightType
<1>2. PICK k \in S : \A m \in S : k <= m
  <2> HIDE DEF S
  <2> QED
    BY <1>1, Least
<1>3. PICK w \in B : Weight(w, ids) = k
  OBVIOUS
<1>4. ASSUME NEW v \in Work(ids), Weight(v, ids) < k, v \in B
      PROVE  FALSE
  <2>1. k <= Weight(v, ids)
    BY <1>2, <1>4
  <2>2. k \in Nat /\ Weight(v, ids) \in Nat
    BY <1>3, WeightType
  <2> QED
    BY <1>4, <2>1, <2>2
<1> QED
  BY <1>3, <1>4

(* The search is a solution. *)
LEMMA SearchEquation ==
  ASSUME NEW edges, NEW ids, IsFiniteSet(ids)
  PROVE  Solves(Search(edges, ids), Work(ids), edges, ids)
<1>1. PICK f : Solves(f, Work(ids), edges, ids)
  BY WeightBound, LightSolution
<1>2. f = [w \in Work(ids) |-> Loop(f, w, edges, ids)]
  BY <1>1 DEF Solves
<1> DEFINE g == CHOOSE g : g = [w \in Work(ids) |-> Loop(g, w, edges, ids)]
           B == {w \in Work(ids) : g[w] \notin Results(ids)}
<1>3. g = [w \in Work(ids) |-> Loop(g, w, edges, ids)]
  BY <1>2
<1>4. Search(edges, ids) = g
  BY DEF Search
<1> HIDE DEF g
<1>5. ASSUME B # {}
      PROVE  FALSE
  <2>1. PICK w \in B : \A v \in Work(ids) : Weight(v, ids) < Weight(w, ids) => v \notin B
    <3>1. B \in SUBSET Work(ids)
      OBVIOUS
    <3> HIDE DEF B
    <3> QED
      BY <1>5, <3>1, Lightest
  <2>2. Agree(g, g, w, ids)
    BY <2>1 DEF Agree
  <2>3. Loop(g, w, edges, ids) \in Results(ids)
    BY <2>2, LoopUses
  <2>4. g[w] = Loop(g, w, edges, ids)
    BY <1>3
  <2> QED
    BY <2>3, <2>4
<1>6. \A w \in Work(ids) : g[w] \in Results(ids) /\ g[w] = Loop(g, w, edges, ids)
  BY <1>3, <1>5
<1>7. g \in [Work(ids) -> Results(ids)]
  BY <1>3, <1>6
<1> QED
  BY <1>4, <1>6, <1>7 DEF Solves

LEMMA SearchStep ==
  ASSUME NEW edges, NEW ids, IsFiniteSet(ids), NEW w \in Work(ids), w.todo # {}
  PROVE  LET search == Search(edges, ids) IN
         \E n \in w.todo : LET one == Dfs(search, w, n, edges, ids)
                               rest == search[After(w, n, one.visited)] IN
           /\ n \in ids
           /\ one \in Results(ids) /\ rest \in Results(ids)
           /\ After(w, n, one.visited) \in Work(ids)
           /\ Weight(After(w, n, one.visited), ids) < Weight(w, ids)
           /\ search[w] = [visited |-> rest.visited, hit |-> one.hit \/ rest.hit]
<1> DEFINE search == Search(edges, ids)
           n    == CHOOSE n \in w.todo : TRUE
           one  == Dfs(search, w, n, edges, ids)
           rest == search[After(w, n, one.visited)]
<1>1. Solves(search, Work(ids), edges, ids)
  BY SearchEquation
<1>2. \A v \in Work(ids) : search[v] \in Results(ids) /\ search[v] = Loop(search, v, edges, ids)
  <2> HIDE DEF search
  <2> QED
    BY <1>1 DEF Solves
<1>3. Agree(search, search, w, ids)
  <2> HIDE DEF search
  <2> QED
    BY <1>2 DEF Agree
<1>4. search[w] = [visited |-> rest.visited, hit |-> one.hit \/ rest.hit]
  <2> HIDE DEF search
  <2> QED
    BY <1>2 DEF Loop
<1>5. n \in w.todo /\ n \in ids
  BY DEF Work
<1>6. one \in Results(ids)
  <2> HIDE DEF search, n
  <2> QED
    BY <1>3, <1>5, DfsUses
<1>7. /\ After(w, n, one.visited) \in Work(ids)
      /\ Weight(After(w, n, one.visited), ids) < Weight(w, ids)
  <2>1. one.visited \in SUBSET ids
    BY <1>6 DEF Results
  <2> HIDE DEF n, one
  <2> QED
    BY <1>5, <2>1, AfterIsLess
<1>8. rest \in Results(ids)
  BY <1>2, <1>7
<1> HIDE DEF search, n
<1> QED
  BY <1>4, <1>5, <1>6, <1>7, <1>8 DEF search

LEMMA SearchEmpty ==
  ASSUME NEW edges, NEW ids, IsFiniteSet(ids), NEW w \in Work(ids), w.todo = {}
  PROVE  Search(edges, ids)[w] = Nothing(w.visited)
  BY SearchEquation DEF Solves, Loop

-----------------------------------------------------------------------------
(* What the search has visited without reporting a cycle is closed, and    *)
(* every part of it has an agent that outputs to no other of it.           *)
Good(V, edges, ids) ==
    /\ \A n \in V : Following(edges, ids, n) \subseteq V
    /\ \A S \in (SUBSET V) \ {{}} :
         \E a \in S : \A b \in S : b \notin Following(edges, ids, a)

LEMMA GoodAdd ==
  ASSUME NEW edges, NEW ids, NEW V \in SUBSET ids, Good(V, edges, ids),
         NEW n \in ids, Following(edges, ids, n) \subseteq V
  PROVE  Good(V \cup {n}, edges, ids)
<1>1. \A m \in V \cup {n} : Following(edges, ids, m) \subseteq V \cup {n}
  BY DEF Good
<1>2. ASSUME NEW S \in (SUBSET (V \cup {n})) \ {{}}
      PROVE  \E a \in S : \A b \in S : b \notin Following(edges, ids, a)
  <2>1. CASE S \subseteq V
    BY <2>1 DEF Good
  <2>2. CASE S = {n}
    BY <2>2 DEF Following
  <2>3. CASE S # {n} /\ ~(S \subseteq V)
    <3>1. n \notin V /\ S \ {n} \in (SUBSET V) \ {{}}
      BY <2>3
    <3>2. PICK a \in S \ {n} : \A b \in S \ {n} : b \notin Following(edges, ids, a)
      BY <3>1 DEF Good
    <3>3. n \notin Following(edges, ids, a)
      BY <3>1 DEF Good
    <3> QED
      BY <3>2, <3>3
  <2> QED
    BY <2>1, <2>2, <2>3
<1> QED
  BY <1>1, <1>2 DEF Good

Finishes(w, edges, ids) ==
    LET r == Search(edges, ids)[w] IN
    Good(w.visited, edges, ids) /\ ~r.hit =>
        /\ Good(r.visited, edges, ids)
        /\ w.visited \subseteq r.visited /\ w.todo \subseteq r.visited

LEMMA DfsFinishes ==
  ASSUME NEW edges, NEW ids, IsFiniteSet(ids), NEW w \in Work(ids), NEW n \in ids,
         \A v \in Work(ids) : Weight(v, ids) < Weight(w, ids) => Finishes(v, edges, ids),
         Good(w.visited, edges, ids),
         ~Dfs(Search(edges, ids), w, n, edges, ids).hit
  PROVE  LET one == Dfs(Search(edges, ids), w, n, edges, ids) IN
         /\ Good(one.visited, edges, ids)
         /\ w.visited \subseteq one.visited /\ n \in one.visited
<1> DEFINE search == Search(edges, ids)
           one == Dfs(search, w, n, edges, ids)
<1>1. CASE n \in w.visiting
  BY <1>1 DEF Dfs, Cycle
<1>2. CASE n \notin w.visiting /\ n \in w.visited
  BY <1>2 DEF Dfs, Nothing
<1>3. CASE n \notin w.visiting /\ n \notin w.visited
  <2> DEFINE v == Below(w, n, edges, ids)
             r == search[v]
  <2>1. v \in Work(ids) /\ Weight(v, ids) < Weight(w, ids)
    BY <1>3, BelowIsLess
  <2>2. v.visited = w.visited /\ v.todo = Following(edges, ids, n)
    BY DEF Below
  <2>3. r \in Results(ids)
    <3> HIDE DEF v
    <3> QED
      BY <2>1, SearchEquation DEF Solves
  <2>4. one = [r EXCEPT !.visited = r.visited \cup {n}]
    BY <1>3 DEF Dfs
  <2>5. one.hit = r.hit /\ one.visited = r.visited \cup {n} /\ r.visited \in SUBSET ids
    <3> HIDE DEF r, one
    <3> QED
      BY <2>3, <2>4 DEF Results
  <2>6. /\ Good(r.visited, edges, ids)
        /\ w.visited \subseteq r.visited /\ Following(edges, ids, n) \subseteq r.visited
    <3> HIDE DEF v
    <3>1. Finishes(v, edges, ids)
      BY <2>1
    <3> QED
      BY <2>2, <2>5, <3>1 DEF Finishes
  <2> HIDE DEF r, one
  <2>7. Good(r.visited \cup {n}, edges, ids)
    BY <2>5, <2>6, GoodAdd
  <2> QED
    BY <2>5, <2>6, <2>7 DEF one
<1> QED
  BY <1>1, <1>2, <1>3

LEMMA SearchFinishes ==
  ASSUME NEW edges, NEW ids, IsFiniteSet(ids)
  PROVE  \A w \in Work(ids) : Finishes(w, edges, ids)
<1> DEFINE search == Search(edges, ids)
           B == {w \in Work(ids) : ~Finishes(w, edges, ids)}
<1>1. SUFFICES ASSUME B # {}
               PROVE  FALSE
  OBVIOUS
<1>2. PICK w \in B : \A v \in Work(ids) : Weight(v, ids) < Weight(w, ids) => v \notin B
  <2>1. B \in SUBSET Work(ids)
    OBVIOUS
  <2> HIDE DEF B
  <2> QED
    BY <1>1, <2>1, Lightest
<1>3. /\ w \in Work(ids) /\ ~Finishes(w, edges, ids)
      /\ \A v \in Work(ids) : Weight(v, ids) < Weight(w, ids) => Finishes(v, edges, ids)
  BY <1>2
<1>4. CASE w.todo = {}
  <2>1. search[w] = Nothing(w.visited)
    BY <1>3, <1>4, SearchEmpty
  <2> HIDE DEF search
  <2>2. Finishes(w, edges, ids)
    BY <1>4, <2>1 DEF Finishes, Nothing, search
  <2> QED
    BY <1>3, <2>2
<1>5. CASE w.todo # {}
  <2>1. PICK n \in w.todo :
          LET one == Dfs(search, w, n, edges, ids)
              rest == search[After(w, n, one.visited)] IN
            /\ n \in ids
            /\ one \in Results(ids) /\ rest \in Results(ids)
            /\ After(w, n, one.visited) \in Work(ids)
            /\ Weight(After(w, n, one.visited), ids) < Weight(w, ids)
            /\ search[w] = [visited |-> rest.visited, hit |-> one.hit \/ rest.hit]
    BY <1>3, <1>5, SearchStep
  <2> DEFINE one == Dfs(search, w, n, edges, ids)
             v == After(w, n, one.visited)
             rest == search[v]
  <2>2. search[w].visited = rest.visited /\ search[w].hit = (one.hit \/ rest.hit)
    BY <2>1
  <2>3. v.todo = w.todo \ {n} /\ v.visited = one.visited
    BY DEF After
  <2>4. SUFFICES ASSUME Good(w.visited, edges, ids), ~one.hit, ~rest.hit
                 PROVE  /\ Good(rest.visited, edges, ids)
                        /\ w.visited \subseteq rest.visited
                        /\ w.todo \subseteq rest.visited
    BY <1>3, <2>2 DEF Finishes
  <2>5. /\ Good(one.visited, edges, ids)
        /\ w.visited \subseteq one.visited /\ n \in one.visited
    BY <1>3, <2>1, <2>4, DfsFinishes
  <2>6. v \in Work(ids) /\ Finishes(v, edges, ids)
    BY <1>3, <2>1
  <2> HIDE DEF one, v
  <2>7. /\ Good(rest.visited, edges, ids)
        /\ one.visited \subseteq rest.visited /\ w.todo \ {n} \subseteq rest.visited
    BY <2>3, <2>4, <2>5, <2>6 DEF Finishes
  <2> QED
    BY <2>5, <2>7
<1> QED
  BY <1>4, <1>5

-----------------------------------------------------------------------------
(* Every agent the search is visiting leads to every agent that is to be   *)
(* visited next.                                                           *)
Chain(V, v, n, edges) ==
    \E S \in SUBSET V :
        v \in S /\ \A a \in S : \E b \in S \cup {n} : <<a, b>> \in edges

Leads(w, edges) ==
    \A n \in w.todo, v \in w.visiting : Chain(w.visiting, v, n, edges)

LEMMA LeadsBelow ==
  ASSUME NEW edges, NEW ids, NEW w \in Work(ids), Leads(w, edges), NEW n \in w.todo
  PROVE  Leads(Below(w, n, edges, ids), edges)
<1> DEFINE u == Below(w, n, edges, ids)
<1>0. /\ u.todo = Following(edges, ids, n)
      /\ u.visiting = w.visiting \cup {n}
  BY DEF Below
<1> HIDE DEF u
<1> SUFFICES ASSUME NEW m \in Following(edges, ids, n), NEW v \in w.visiting \cup {n}
             PROVE  Chain(w.visiting \cup {n}, v, m, edges)
  <2>1. Leads(u, edges)
    BY <1>0 DEF Leads
  <2> QED
    BY <2>1 DEF u
<1>1. <<n, m>> \in edges
  BY DEF Following
<1>2. CASE v = n
  <2>1. /\ {n} \in SUBSET (w.visiting \cup {n}) /\ v \in {n}
        /\ \A a \in {n} : \E b \in {n} \cup {m} : <<a, b>> \in edges
    BY <1>1, <1>2
  <2> QED
    BY <2>1 DEF Chain
<1>3. CASE v \in w.visiting
  <2>1. PICK S \in SUBSET w.visiting :
          v \in S /\ \A a \in S : \E b \in S \cup {n} : <<a, b>> \in edges
    BY <1>3 DEF Leads, Chain
  <2>2. \A a \in S \cup {n} : \E b \in (S \cup {n}) \cup {m} : <<a, b>> \in edges
    BY <1>1, <2>1
  <2>3. S \cup {n} \in SUBSET (w.visiting \cup {n}) /\ v \in S \cup {n}
    BY <2>1
  <2> QED
    BY <2>2, <2>3 DEF Chain
<1> QED
  BY <1>2, <1>3

Justified(w, edges, ids) ==
    Leads(w, edges) /\ Search(edges, ids)[w].hit => ~Acyclic(edges, ids)

LEMMA DfsJustified ==
  ASSUME NEW edges, NEW ids, IsFiniteSet(ids), NEW w \in Work(ids), NEW n \in w.todo,
         \A v \in Work(ids) : Weight(v, ids) < Weight(w, ids) => Justified(v, edges, ids),
         Leads(w, edges),
         Dfs(Search(edges, ids), w, n, edges, ids).hit
  PROVE  ~Acyclic(edges, ids)
<1> DEFINE search == Search(edges, ids)
           one == Dfs(search, w, n, edges, ids)
<1>1. n \in ids /\ w.visiting \in SUBSET ids
  BY DEF Work
<1>2. CASE n \in w.visiting
  <2>1. PICK S \in SUBSET w.visiting :
          n \in S /\ \A a \in S : \E b \in S \cup {n} : <<a, b>> \in edges
    BY <1>2 DEF Leads, Chain
  <2>2. S \in (SUBSET ids) \ {{}} /\ \A a \in S : \E b \in S : <<a, b>> \in edges
    BY <1>1, <2>1
  <2> QED
    BY <2>2 DEF Acyclic
<1>3. CASE n \notin w.visiting /\ n \in w.visited
  BY <1>3 DEF Dfs, Nothing
<1>4. CASE n \notin w.visiting /\ n \notin w.visited
  <2> DEFINE v == Below(w, n, edges, ids)
             r == search[v]
  <2>1. v \in Work(ids) /\ Weight(v, ids) < Weight(w, ids)
    BY <1>1, <1>4, BelowIsLess
  <2>2. Leads(v, edges)
    BY LeadsBelow
  <2>3. r \in Results(ids)
    <3> HIDE DEF v
    <3> QED
      BY <2>1, SearchEquation DEF Solves
  <2>4. one = [r EXCEPT !.visited = r.visited \cup {n}]
    BY <1>4 DEF Dfs
  <2>5. r.hit
    <3>1. one.hit
      OBVIOUS
    <3> HIDE DEF r, one
    <3> QED
      BY <2>3, <2>4, <3>1 DEF Results
  <2> HIDE DEF v
  <2> QED
    BY <2>1, <2>2, <2>5 DEF Justified
<1> QED
  BY <1>2, <1>3, <1>4

LEMMA SearchJustified ==
  ASSUME NEW edges, NEW ids, IsFiniteSet(ids)
  PROVE  \A w \in Work(ids) : Justified(w, edges, ids)
<1> DEFINE search == Search(edges, ids)
           B == {w \in Work(ids) : ~Justified(w, edges, ids)}
<1>1. SUFFICES ASSUME B # {}
               PROVE  FALSE
  OBVIOUS
<1>2. PICK w \in B : \A v \in Work(ids) : Weight(v, ids) < Weight(w, ids) => v \notin B
  <2>1. B \in SUBSET Work(ids)
    OBVIOUS
  <2> HIDE DEF B
  <2> QED
    BY <1>1, <2>1, Lightest
<1>3. /\ w \in Work(ids) /\ ~Justified(w, edges, ids)
      /\ \A v \in Work(ids) : Weight(v, ids) < Weight(w, ids) => Justified(v, edges, ids)
  BY <1>2
<1>4. CASE w.todo = {}
  <2>1. search[w] = Nothing(w.visited)
    BY <1>3, <1>4, SearchEmpty
  <2>2. ~search[w].hit
    <3> HIDE DEF search
    <3> QED
      BY <2>1 DEF Nothing
  <2> QED
    BY <1>3, <2>2 DEF Justified
<1>5. CASE w.todo # {}
  <2>1. PICK n \in w.todo :
          LET one == Dfs(search, w, n, edges, ids)
              rest == search[After(w, n, one.visited)] IN
            /\ n \in ids
            /\ one \in Results(ids) /\ rest \in Results(ids)
            /\ After(w, n, one.visited) \in Work(ids)
            /\ Weight(After(w, n, one.visited), ids) < Weight(w, ids)
            /\ search[w] = [visited |-> rest.visited, hit |-> one.hit \/ rest.hit]
    BY <1>3, <1>5, SearchStep
  <2> DEFINE one == Dfs(search, w, n, edges, ids)
             v == After(w, n, one.visited)
  <2>2. Leads(w, edges) /\ search[w].hit /\ Acyclic(edges, ids)
    BY <1>3 DEF Justified
  <2>3. search[w].hit = (one.hit \/ search[v].hit)
    BY <2>1
  <2>4. ~one.hit
    BY <1>3, <2>2, DfsJustified
  <2>5. Leads(v, edges)
    <3>1. v.todo = w.todo \ {n} /\ v.visiting = w.visiting
      BY DEF After
    <3> HIDE DEF v
    <3> QED
      BY <2>2, <3>1 DEF Leads
  <2>6. Justified(v, edges, ids)
    BY <1>3, <2>1
  <2> HIDE DEF one, v
  <2> QED
    BY <2>2, <2>3, <2>4, <2>5, <2>6 DEF Justified
<1> QED
  BY <1>4, <1>5

-----------------------------------------------------------------------------
(* For every finite set of registered agents, _validate_routing_edges      *)
(* passes exactly the graphs that name only them and have no cycle.        *)
THEOREM ValidIsSound ==
  ASSUME NEW edges, NEW ids, IsFiniteSet(ids)
  PROVE  Valid(edges, ids) <=> Sound(edges, ids)
<1> DEFINE w == Everything(ids)
           r == Search(edges, ids)[w]
<1>1. w \in Work(ids) /\ w.todo = ids /\ w.visiting = {} /\ w.visited = {}
  BY DEF Everything, Work
<1>2. Good({}, edges, ids) /\ Leads(w, edges)
  <2>1. Good({}, edges, ids)
    BY DEF Good
  <2> HIDE DEF w
  <2>2. Leads(w, edges)
    BY <1>1 DEF Leads
  <2> QED
    BY <2>1, <2>2
<1>3. Finishes(w, edges, ids) /\ Justified(w, edges, ids)
  BY <1>1, SearchFinishes, SearchJustified
<1>4. r \in Results(ids)
  <2> HIDE DEF w
  <2> QED
    BY <1>1, SearchEquation DEF Solves
<1>5. ASSUME Known(edges, ids), NoSelfLoop(edges), ~r.hit
      PROVE  Acyclic(edges, ids)
  <2>1. Good(ids, edges, ids)
    <3>1. Good(r.visited, edges, ids) /\ ids \subseteq r.visited
      BY <1>1, <1>2, <1>3, <1>5 DEF Finishes
    <3>2. r.visited = ids
      BY <1>4, <3>1 DEF Results
    <3> QED
      BY <3>1, <3>2
  <2>2. ASSUME NEW S \in (SUBSET ids) \ {{}}
        PROVE  \E a \in S : \A b \in S : <<a, b>> \notin edges
    <3>1. PICK a \in S : \A b \in S : b \notin Following(edges, ids, a)
      BY <2>1 DEF Good
    <3>2. <<a, a>> \notin edges
      BY <1>5 DEF NoSelfLoop
    <3> QED
      BY <3>1, <3>2 DEF Following
  <2> QED
    BY <2>2 DEF Acyclic
<1>6. ASSUME Known(edges, ids), Acyclic(edges, ids)
      PROVE  NoSelfLoop(edges) /\ ~r.hit
  <2>1. ~r.hit
    BY <1>2, <1>3, <1>6 DEF Justified
  <2>2. ASSUME NEW e \in edges, e[1] = e[2]
        PROVE  FALSE
    <3>1. e[1] \in ids /\ e = <<e[1], e[1]>>
      BY <1>6, <2>2 DEF Known
    <3>2. {e[1]} \in (SUBSET ids) \ {{}}
      BY <3>1
    <3> QED
      BY <1>6, <3>1, <3>2 DEF Acyclic
  <2> QED
    BY <2>1, <2>2 DEF NoSelfLoop
<1> QED
  BY <1>5, <1>6 DEF Valid, Sound

=============================================================================
