--------------------------- MODULE CompaniesProofs ---------------------------
(***************************************************************************)
(* Theorems about Companies, for every set of companies, every choice of   *)
(* the older ones and any number of crashes and reloads of the page.       *)
(*                                                                         *)
(* First the routes: what is left of a request is always Rest(r, i), the   *)
(* text of one of the routes its slot runs from the i-th stretch on, and   *)
(* what the slot holds fits that place (Base).  Then two arguments.        *)
(*                                                                         *)
(* SafeInv: the blocklist holds nothing but deleted companies, and where   *)
(* it lacks one, the request that will write all of them is still to come: *)
(* the browser sends the blocklist again when DELETE is answered, so that  *)
(* the lists of concurrent requests cannot be the last (Blocked).  With    *)
(* nothing under way the blocklist is therefore complete; and it was       *)
(* complete when the listing began, which filters by it.                   *)
(*                                                                         *)
(* ShownInv: whatever a slot has loaded is shown, deleted or old; the copy *)
(* has what is shown, or the post that brings it is under way.  Only one   *)
(* slot at a time posts copies (Solo), except after a login, when all of   *)
(* them post the same list (Scrub).  It is about a bridge with a project's *)
(* own directory; where both lists are one file it says nothing.           *)
(***************************************************************************)
EXTENDS Companies, SequenceTheorems, TLAPS

-----------------------------------------------------------------------------
(* The texts of the routes, stretch by stretch.                            *)

(* Two sequences put together, place by place.                             *)
LEMMA Joined ==
  ASSUME NEW S, NEW p \in Seq(S), NEW q \in Seq(S)
  PROVE  /\ p \o q \in Seq(S) /\ Len(p \o q) = Len(p) + Len(q)
         /\ \A i \in 1 .. Len(p) : (p \o q)[i] = p[i]
         /\ \A i \in 1 .. Len(q) : (p \o q)[Len(p) + i] = q[i]
<1>1. /\ Len(p) \in Nat /\ Len(q) \in Nat
  BY LenProperties
<1> QED
  BY <1>1, ConcatProperties

(* A further stretch x at the end. *)
LEMMA WithOne ==
  ASSUME NEW p \in Seq(Stretches), NEW x \in Stretches
  PROVE  LET r == p \o <<x>> IN
         /\ r \in Seq(Stretches) /\ Len(r) = Len(p) + 1 /\ r[Len(p) + 1] = x
         /\ \A i \in 1 .. Len(p) : r[i] = p[i]
<1> DEFINE q == <<x>>
           r == p \o q
<1>1. q \in Seq(Stretches) /\ Len(q) = 1 /\ q[1] = x
  OBVIOUS
<1>2. r = p \o q /\ q \in Seq(Stretches)
  BY <1>1
<1> HIDE DEF q, r
<1>3. r \in Seq(Stretches) /\ Len(r) = Len(p) + Len(q)
  BY <1>2, Joined
<1>4. \A i \in 1 .. Len(p) : r[i] = p[i]
  BY <1>2, Joined
<1>5. \A i \in 1 .. Len(q) : r[Len(p) + i] = q[i]
  BY <1>2, Joined
<1>6. r[Len(p) + 1] = x
  BY <1>1, <1>5
<1> QED
  BY <1>1, <1>3, <1>4, <1>6 DEF q, r

(* Two more. *)
LEMMA WithMore ==
  ASSUME NEW p \in Seq(Stretches), NEW q \in Seq(Stretches), NEW r, r = p \o q
  PROVE  \A i \in 1 .. Len(q) : r[Len(p) + i] = q[i]
  BY Joined

(* And with two more.                                                      *)
LEMMA WithTwo ==
  ASSUME NEW p \in Seq(Stretches), NEW q \in Seq(Stretches), Len(q) = 2
  PROVE  LET r == p \o q IN
         /\ r \in Seq(Stretches) /\ Len(r) = Len(p) + 2
         /\ r[Len(p) + 1] = q[1] /\ r[Len(p) + 2] = q[2]
         /\ \A i \in 1 .. Len(p) : r[i] = p[i]
<1> DEFINE r == p \o q
<1>1. r = p \o q
  OBVIOUS
<1> HIDE DEF r
<1>2. r \in Seq(Stretches) /\ Len(r) = Len(p) + Len(q)
  BY <1>1, Joined
<1>3. \A i \in 1 .. Len(p) : r[i] = p[i]
  BY <1>1, Joined
<1>4. \A i \in 1 .. Len(q) : r[Len(p) + i] = q[i]
  BY <1>1, WithMore
<1>5. r[Len(p) + 1] = q[1] /\ r[Len(p) + 2] = q[2]
  BY <1>4
<1> QED
  BY <1>2, <1>3, <1>5 DEF r

(* _save_companies, and then the routes one by one.                        *)
LEMMA SaveText ==
  Save \in Seq(Stretches) /\ Len(Save) = 2 /\ Save[1] = "openMain" /\ Save[2] = "writeMain"
  BY DEF Save, Stretches

(* GET /companies: _load_companies.                                        *)
LEMMA ListText ==
  LET q == Program("list") IN
  /\ q \in Seq(Stretches) /\ Len(q) = 5
  /\ q[1] = "readMain" /\ q[2] = "filter" /\ q[3] = "merge" /\ q[4] = "openMain"
  /\ q[5] = "writeMain"
  BY DEF Program, Load, Stretches

(* POST /data/save with the companies.                                     *)
LEMMA CopyText ==
  LET q == Program("copy") IN
  /\ q \in Seq(Stretches) /\ Len(q) = 2 /\ q[1] = "openCopy" /\ q[2] = "writeCopy"
  BY DEF Program, Stretches

(* POST /companies.                                                        *)
LEMMA CreateText ==
  LET q == Program("create") IN
  /\ q \in Seq(Stretches) /\ Len(q) = 8
  /\ q[1] = "readMain" /\ q[2] = "filter" /\ q[3] = "merge" /\ q[4] = "openMain"
  /\ q[5] = "writeMain" /\ q[6] = "add" /\ q[7] = "openMain" /\ q[8] = "writeMain"
<1> DEFINE l == Program("list")
           a == l \o <<"add">>
           q == a \o Save
<1>1. Program("create") = q
  BY DEF Program
<1>2. /\ l \in Seq(Stretches) /\ Len(l) = 5
      /\ l[1] = "readMain" /\ l[2] = "filter" /\ l[3] = "merge" /\ l[4] = "openMain"
      /\ l[5] = "writeMain"
  BY ListText
<1>3. "add" \in Stretches
  BY DEF Stretches
<1> HIDE DEF l
<1>4. /\ a \in Seq(Stretches) /\ Len(a) = Len(l) + 1 /\ a[Len(l) + 1] = "add"
      /\ \A i \in 1 .. Len(l) : a[i] = l[i]
  BY <1>2, <1>3, WithOne
<1> HIDE DEF a
<1>5. /\ q \in Seq(Stretches) /\ Len(q) = Len(a) + 2
      /\ q[Len(a) + 1] = "openMain" /\ q[Len(a) + 2] = "writeMain"
      /\ \A i \in 1 .. Len(a) : q[i] = a[i]
  BY <1>4, SaveText, WithTwo
<1> HIDE DEF q
<1>6. /\ q \in Seq(Stretches) /\ Len(q) = 8 /\ Len(a) = 6
      /\ q[6] = "add" /\ q[7] = "openMain" /\ q[8] = "writeMain"
  BY <1>2, <1>4, <1>5
<1>7. /\ q[1] = "readMain" /\ q[2] = "filter" /\ q[3] = "merge" /\ q[4] = "openMain"
      /\ q[5] = "writeMain"
  BY <1>2, <1>4, <1>5
<1> QED
  BY <1>1, <1>6, <1>7

(* DELETE /companies/{id}.                                                 *)
LEMMA DeleteText ==
  LET q == Program("delete") IN
  /\ q \in Seq(Stretches) /\ Len(q) = 11
  /\ q[1] = "readMain" /\ q[2] = "filter" /\ q[3] = "merge" /\ q[4] = "openMain"
  /\ q[5] = "writeMain" /\ q[6] = "drop" /\ q[7] = "readIds" /\ q[8] = "openIds"
  /\ q[9] = "writeIds" /\ q[10] = "openMain" /\ q[11] = "writeMain"
<1> DEFINE l == Program("list")
           a == l \o <<"drop">>
           b == a \o Mark
           q == b \o Save
<1>1. Program("delete") = q
  BY DEF Program
<1>2. /\ l \in Seq(Stretches) /\ Len(l) = 5
      /\ l[1] = "readMain" /\ l[2] = "filter" /\ l[3] = "merge" /\ l[4] = "openMain"
      /\ l[5] = "writeMain"
  BY ListText
<1>3. "drop" \in Stretches
  BY DEF Stretches
<1>3a. /\ Mark \in Seq(Stretches) /\ Len(Mark) = 3
       /\ Mark[1] = "readIds" /\ Mark[2] = "openIds" /\ Mark[3] = "writeIds"
  BY DEF Mark, Stretches
<1> HIDE DEF l
<1>4. /\ a \in Seq(Stretches) /\ Len(a) = Len(l) + 1 /\ a[Len(l) + 1] = "drop"
      /\ \A i \in 1 .. Len(l) : a[i] = l[i]
  BY <1>2, <1>3, WithOne
<1> HIDE DEF a
<1>5. /\ b \in Seq(Stretches) /\ Len(b) = 9
      /\ b[7] = "readIds" /\ b[8] = "openIds" /\ b[9] = "writeIds"
      /\ \A i \in 1 .. 6 : b[i] = a[i]
  <2>1. a \in Seq(Stretches) /\ Mark \in Seq(Stretches)
    BY <1>4, <1>3a
  <2>2. b \in Seq(Stretches) /\ Len(b) = Len(a) + Len(Mark)
    BY <2>1, Joined
  <2>3. \A i \in 1 .. Len(a) : b[i] = a[i]
    BY <2>1, Joined
  <2>4. \A i \in 1 .. Len(Mark) : b[Len(a) + i] = Mark[i]
    BY <2>1, Joined
  <2> HIDE DEF b
  <2>5. b[6 + 1] = Mark[1] /\ b[6 + 2] = Mark[2] /\ b[6 + 3] = Mark[3]
    BY <1>2, <1>3a, <1>4, <2>4
  <2> QED
    BY <1>2, <1>3a, <1>4, <2>2, <2>3, <2>5
<1> HIDE DEF b
<1>6. /\ q \in Seq(Stretches) /\ Len(q) = Len(b) + 2
      /\ q[Len(b) + 1] = "openMain" /\ q[Len(b) + 2] = "writeMain"
      /\ \A i \in 1 .. Len(b) : q[i] = b[i]
  BY <1>5, SaveText, WithTwo
<1> HIDE DEF q
<1>7. /\ q \in Seq(Stretches) /\ Len(q) = 11
      /\ q[10] = "openMain" /\ q[11] = "writeMain"
      /\ q[7] = "readIds" /\ q[8] = "openIds" /\ q[9] = "writeIds"
  BY <1>5, <1>6
<1>8. /\ q[1] = "readMain" /\ q[2] = "filter" /\ q[3] = "merge" /\ q[4] = "openMain"
      /\ q[5] = "writeMain" /\ q[6] = "drop"
  BY <1>2, <1>4, <1>5, <1>6
<1> QED
  BY <1>1, <1>7, <1>8

(* POST /data/save with the deleted ids.                                   *)
LEMMA BlocklistText ==
  LET q == Program("blocklist") IN
  /\ q \in Seq(Stretches) /\ Len(q) = 7
  /\ q[1] = "readNew" /\ q[2] = "openIds" /\ q[3] = "writeIds" /\ q[4] = "readMain"
  /\ q[5] = "dropIds" /\ q[6] = "openMain" /\ q[7] = "writeMain"
<1> DEFINE a == <<"readNew", "openIds", "writeIds", "readMain", "dropIds">>
           q == a \o Save
<1>1. Program("blocklist") = q
  BY DEF Program
<1>2. /\ a \in Seq(Stretches) /\ Len(a) = 5
      /\ a[1] = "readNew" /\ a[2] = "openIds" /\ a[3] = "writeIds" /\ a[4] = "readMain"
      /\ a[5] = "dropIds"
  BY DEF Stretches
<1> HIDE DEF a
<1>3. /\ q \in Seq(Stretches) /\ Len(q) = Len(a) + 2
      /\ q[Len(a) + 1] = "openMain" /\ q[Len(a) + 2] = "writeMain"
      /\ \A i \in 1 .. Len(a) : q[i] = a[i]
  BY <1>2, SaveText, WithTwo
<1> HIDE DEF q
<1> QED
  BY <1>1, <1>2, <1>3

-----------------------------------------------------------------------------
(* What is left of a route from its i-th stretch on.                       *)
Texts == {"list", "create", "delete", "blocklist", "copy"}
Rest(r, i) == SubSeq(Program(r), i, Len(Program(r)))
Length(r) == CASE r = "list" -> 5 [] r = "create" -> 8 [] r = "delete" -> 11
               [] r = "blocklist" -> 7 [] r = "copy" -> 2

(* The routes are sequences of stretches, of these lengths.                *)
LEMMA ProgramType ==
  ASSUME NEW r \in Texts
  PROVE  Program(r) \in Seq(Stretches) /\ Len(Program(r)) = Length(r) /\ Length(r) \in Nat
  BY ListText, CreateText, DeleteText, BlocklistText, CopyText DEF Texts, Length

(* What is left of a sequence from a place on.                             *)
LEMMA Suffix ==
  ASSUME NEW S, NEW q \in Seq(S), NEW i \in 1 .. Len(q)
  PROVE  LET R(j) == SubSeq(q, j, Len(q)) IN
         /\ R(i) \in Seq(S) /\ R(i) # <<>> /\ Head(R(i)) = q[i] /\ Tail(R(i)) = R(i + 1)
         /\ Len(R(i)) = Len(q) + 1 - i
  BY SubSeqProperties, HeadTailProperties

(* Its head and its tail, as long as there is something left. *)
LEMMA RestGoesOn ==
  ASSUME NEW r \in Texts, NEW i \in 1 .. Length(r)
  PROVE  /\ Rest(r, i) \in Seq(Stretches) /\ Rest(r, i) # <<>>
         /\ Head(Rest(r, i)) = Program(r)[i] /\ Tail(Rest(r, i)) = Rest(r, i + 1)
         /\ Len(Rest(r, i)) = Length(r) + 1 - i
  BY Suffix, ProgramType DEF Rest

(* Past the last stretch nothing is left.                                  *)
LEMMA RestEnds == ASSUME NEW r \in Texts PROVE Rest(r, Length(r) + 1) = <<>>
  BY SubSeqEmpty, ProgramType DEF Rest

(* From the first on, everything.                                          *)
LEMMA RestStarts == ASSUME NEW r \in Texts PROVE Rest(r, 1) = Program(r)
  BY SubSeqFull, ProgramType DEF Rest

(* Without the write of what was not changed. *)
Loading == {"list", "create", "delete"}

(* A load that recovered nothing goes on behind its save.                  *)
LEMMA RestSkips ==
  ASSUME NEW r \in Loading
  PROVE  SubSeq(Rest(r, 3), 4, Len(Rest(r, 3))) = Rest(r, 6)
<1>1. r \in Texts /\ Length(r) \in Nat /\ Length(r) >= 5 /\ 3 \in 1 .. Length(r)
  BY DEF Texts, Length, Loading
<1>2. Len(Rest(r, 3)) = Length(r) - 2
  BY <1>1, RestGoesOn
<1>3. CASE r = "list"
  <2>1. Length(r) = 5
    BY <1>3 DEF Length
  <2>2. Rest(r, 6) = <<>>
    <3>1. Rest(r, Length(r) + 1) = <<>>
      BY <1>1, RestEnds
    <3> QED
      BY <2>1, <3>1
  <2>3. Len(Rest(r, 3)) = 3
    BY <1>2, <2>1
  <2>4. SubSeq(Rest(r, 3), 4, 3) = <<>>
    BY SubSeqEmpty
  <2> QED
    BY <2>2, <2>3, <2>4
<1>4. CASE r # "list"
  <2> DEFINE q == Program(r)
             n == Length(r)
  <2>1. n \in Nat /\ n >= 8
    BY <1>4 DEF Length, Loading
  <2>2. q \in Seq(Stretches) /\ Len(q) = n
    BY <1>1, ProgramType
  <2>3. Rest(r, 3) = SubSeq(q, 3, n) /\ Rest(r, 6) = SubSeq(q, 6, n)
    BY <2>2 DEF Rest
  <2> HIDE DEF q, n
  <2>4. SubSeq(SubSeq(q, 3, n), 4, n - 2) = SubSeq(q, 3 + 4 - 1, 3 + (n - 2) - 1)
    BY <2>1, <2>2, SubSeqOfSubSeq
  <2>5. 3 + 4 - 1 = 6 /\ 3 + (n - 2) - 1 = n
    BY <2>1
  <2> QED
    BY <1>2, <2>3, <2>4, <2>5 DEF n
<1> QED
  BY <1>3, <1>4

(* Which routes have which stretch, and where. *)
Place(x, r, i) ==
  CASE x = "readMain"  -> (r \in Loading /\ i = 1) \/ (r = "blocklist" /\ i = 4)
    [] x = "filter"    -> r \in Loading /\ i = 2
    [] x = "merge"     -> r \in Loading /\ i = 3
    [] x = "openMain"  -> \/ r \in Loading /\ i = 4
                          \/ r = "create" /\ i = 7
                          \/ r = "delete" /\ i = 10
                          \/ r = "blocklist" /\ i = 6
    [] x = "writeMain" -> \/ r \in Loading /\ i = 5
                          \/ r = "create" /\ i = 8
                          \/ r = "delete" /\ i = 11
                          \/ r = "blocklist" /\ i = 7
    [] x = "add"       -> r = "create" /\ i = 6
    [] x = "drop"      -> r = "delete" /\ i = 6
    [] x = "readIds"   -> r = "delete" /\ i = 7
    [] x = "readNew"   -> r = "blocklist" /\ i = 1
    [] x = "openIds"   -> (r = "delete" /\ i = 8) \/ (r = "blocklist" /\ i = 2)
    [] x = "writeIds"  -> (r = "delete" /\ i = 9) \/ (r = "blocklist" /\ i = 3)
    [] x = "dropIds"   -> r = "blocklist" /\ i = 5
    [] x = "openCopy"  -> r = "copy" /\ i = 1
    [] x = "writeCopy" -> r = "copy" /\ i = 2
    [] OTHER -> FALSE

(* Every stretch of every route is where Place says.                       *)
LEMMA Placed ==
  ASSUME NEW r \in Texts, NEW i \in 1 .. Length(r)
  PROVE  Place(Program(r)[i], r, i)
<1>1. CASE r = "list"
  <2>1. i \in {1, 2, 3, 4, 5}
    BY <1>1 DEF Length
  <2> QED
    BY <1>1, <2>1, ListText DEF Place, Loading
<1>2. CASE r = "create"
  <2>1. i \in {1, 2, 3, 4, 5, 6, 7, 8}
    BY <1>2 DEF Length
  <2> QED
    BY <1>2, <2>1, CreateText DEF Place, Loading
<1>3. CASE r = "delete"
  <2>1. i \in {1, 2, 3, 4, 5, 6, 7, 8, 9, 10, 11}
    BY <1>3 DEF Length
  <2> QED
    BY <1>3, <2>1, DeleteText DEF Place, Loading
<1>4. CASE r = "blocklist"
  <2>1. i \in {1, 2, 3, 4, 5, 6, 7}
    BY <1>4 DEF Length
  <2> QED
    BY <1>4, <2>1, BlocklistText DEF Place, Loading
<1>5. CASE r = "copy"
  <2>1. i \in {1, 2}
    BY <1>5 DEF Length
  <2> QED
    BY <1>5, <2>1, CopyText DEF Place, Loading
<1> QED
  BY <1>1, <1>2, <1>3, <1>4, <1>5 DEF Texts

-----------------------------------------------------------------------------
(* Where a request is.                                                     *)
Routes(s) == CASE s = "list"   -> {"list"}
               [] s = "create" -> {"create"}
               [] s = "post"   -> {"copy", "blocklist"}
               [] OTHER        -> {"delete", "blocklist", "copy"}
Places(r) == 1 .. Length(r) + 1

Fits(s, r, i) ==
  /\ r = "create" /\ i <= 8 => created \in Companies
  /\ r \in {"delete", "blocklist"} /\ i <= Length(r) => settled = {}
  /\ r = "blocklist" /\ i <= 3 => marked[s] = deleted
  /\ r = "delete" /\ i <= 9 => /\ \/ chain[s] # <<>> /\ Head(chain[s]) = "blocklist"
                                  \/ "deletion" \in cut
                               /\ s \in deleted
  /\ r = "list" /\ i = 3 => settled \subseteq marked[s]
  /\ r = "list" /\ i >= 3 => loaded[s] \cap settled = {}

SlotAt(s) == \E r \in Routes(s) : \E i \in Places(r) : rest[s] = Rest(r, i) /\ Fits(s, r, i)

Base == TypeOK /\ \A s \in Slots : SlotAt(s)

(* Which slots run which routes.                                           *)
LEMMA RouteKinds ==
  /\ \A s \in Slots : Routes(s) \subseteq Texts
  /\ \A s \in Slots : "delete" \in Routes(s) => s \in Companies
  /\ \A s \in Slots : "create" \in Routes(s) => s = "create"
  /\ \A s \in Slots : "list" \in Routes(s) => s = "list"
  /\ Routes("list") = {"list"}
  /\ \A c \in Companies : Routes(c) = {"delete", "blocklist", "copy"}
  BY CompaniesAssumption DEF Routes, Texts, Slots, Async

(* No route is shorter than two stretches.                                 *)
LEMMA LengthType == \A r \in Texts : Length(r) \in Nat /\ Length(r) >= 2
  BY DEF Texts, Length

(* What the slot of a stretch runs, and what is left when it is done. *)
LEMMA Located ==
  ASSUME NEW s \in Slots, NEW r \in Routes(s), NEW i \in Places(r), rest[s] = Rest(r, i),
         NEW x, ~Free(s), Head(rest[s]) = x
  PROVE  /\ i \in 1 .. Length(r) /\ Place(x, r, i) /\ r \in Texts
         /\ Tail(rest[s]) = Rest(r, i + 1) /\ i + 1 \in Places(r)
<1>1. r \in Texts
  BY RouteKinds
<1>2. Length(r) \in Nat
  BY <1>1, LengthType
<1>3. i # Length(r) + 1
  BY <1>1, RestEnds DEF Free
<1>4. i \in 1 .. Length(r) /\ i + 1 \in Places(r)
  BY <1>2, <1>3 DEF Places
<1> QED
  BY <1>1, <1>4, Placed, RestGoesOn

(* What the end of a stretch changes in its slot, and that it changes no   *)
(* other.                                                                  *)
LEMMA Moved ==
  ASSUME TypeOK, NEW s \in Slots, NEW r \in Routes(s), NEW j \in Places(r),
         NEW S \in SUBSET Companies, NEW M \in SUBSET Companies,
         GoesTo(s, Rest(r, j), S, M)
  PROVE  /\ rest' \in [Slots -> Seq(Stretches)]
         /\ loaded' \in [Slots -> SUBSET Companies] /\ marked' \in [Slots -> SUBSET Companies]
         /\ rest'[s] = Rest(r, j)
         /\ loaded'[s] = IF j = Length(r) + 1 /\ s # "list" THEN {} ELSE S
         /\ marked'[s] = IF j = Length(r) + 1 THEN {} ELSE M
         /\ \A u \in Slots \ {s} : /\ rest'[u] = rest[u] /\ loaded'[u] = loaded[u]
                                   /\ marked'[u] = marked[u]
<1>1. r \in Texts
  BY RouteKinds
<1>2. Length(r) \in Nat
  BY <1>1, LengthType
<1>3. j = Length(r) + 1 <=> Rest(r, j) = <<>>
  <2>1. j = Length(r) + 1 \/ j \in 1 .. Length(r)
    BY <1>2 DEF Places
  <2> QED
    BY <1>1, <1>2, <2>1, RestEnds, RestGoesOn
<1>4. Rest(r, j) \in Seq(Stretches)
  <2>1. CASE j = Length(r) + 1
    BY <1>1, <2>1, RestEnds, EmptySeq
  <2>2. CASE j \in 1 .. Length(r)
    BY <1>1, <2>2, RestGoesOn
  <2> QED
    BY <1>2, <2>1, <2>2 DEF Places
<1> QED
  BY <1>3, <1>4 DEF GoesTo, TypeOK

(* What holds of a slot where nothing is left.                             *)
LEMMA FreeFits ==
  ASSUME NEW s \in Slots, rest[s] = <<>>, s = "list" => loaded[s] \cap settled = {}
  PROVE  SlotAt(s)
<1>1. PICK r \in Routes(s) : r \in Texts
  BY RouteKinds DEF Routes
<1>2. Length(r) + 1 \in Places(r)
  BY <1>1, LengthType DEF Places
<1>3. rest[s] = Rest(r, Length(r) + 1)
  BY <1>1, RestEnds
<1>4. Fits(s, r, Length(r) + 1)
  BY <1>1, RouteKinds DEF Fits, Length, Texts
<1> QED
  BY <1>2, <1>3, <1>4 DEF SlotAt

(* The first stretch of a route. *)
LEMMA Begins ==
  ASSUME NEW r \in Texts
  PROVE  Program(r) = Rest(r, 1) /\ 1 \in Places(r) /\ Program(r) \in Seq(Stretches)
  BY RestStarts, LengthType, ProgramType DEF Places

-----------------------------------------------------------------------------
(* No request changes where POST /data/save writes.                        *)
LEMMA PlaceStays == ASSUME NEW s \in Slots, Step(s) PROVE oneFile' = oneFile
  BY DEF Step, ReadMain, Filter, Merge, OpenMain, WriteMain, Add, Drop, DropIds, ReadIds,
         ReadNew, OpenIds, WriteIds, OpenCopy, WriteCopy, fileVars

(* Every stretch of a request keeps the types and fits its slot.           *)
LEMMA StretchBase ==
  ASSUME Base, settled \subseteq Read(blocklist), Read(blocklist) \subseteq deleted,
         NEW s \in Slots, Step(s)
  PROVE  Base'
<1> USE DEF Base
<1>0. /\ rest \in [Slots -> Seq(Stretches)] /\ loaded \in [Slots -> SUBSET Companies]
      /\ marked \in [Slots -> SUBSET Companies]
      /\ main \in Files /\ blocklist \in Files /\ copy \in Files
      /\ Read(main) \subseteq Companies /\ Read(blocklist) \subseteq Companies
      /\ Read(copy) \subseteq Companies /\ Old \subseteq Companies
      /\ loaded[s] \subseteq Companies /\ marked[s] \subseteq Companies
  BY CompaniesAssumption DEF TypeOK, Files, Read
<1>1a. PICK r \in Routes(s) : \E i \in Places(r) : rest[s] = Rest(r, i) /\ Fits(s, r, i)
  BY DEF SlotAt
<1>1. PICK i \in Places(r) : rest[s] = Rest(r, i) /\ Fits(s, r, i)
  BY <1>1a
<1>2. \A x : ~Free(s) /\ Head(rest[s]) = x =>
         /\ i \in 1 .. Length(r) /\ Place(x, r, i) /\ r \in Texts
         /\ Tail(rest[s]) = Rest(r, i + 1) /\ i + 1 \in Places(r)
  BY <1>1, Located
<1>3. Length(r) \in Nat /\ Length(r) + 1 \in Places(r) /\ Rest(r, Length(r) + 1) = <<>>
  BY RouteKinds, LengthType, RestEnds DEF Places
<1>4. UNCHANGED <<oneFile, created, page, shown, deleted, chain, kept, settled, cut, restarts>>
  BY PlaceStays DEF Step, browserVars, histVars
<1> DEFINE Moves(j, S, M) ==
      /\ j \in Places(r) /\ S \in SUBSET Companies /\ M \in SUBSET Companies
      /\ GoesTo(s, Rest(r, j), S, M)
      /\ LET l == IF j = Length(r) + 1 /\ s # "list" THEN {} ELSE S
             m == IF j = Length(r) + 1 THEN {} ELSE M
         IN  /\ r = "create" /\ j <= 8 => i <= 8
             /\ r \in {"delete", "blocklist"} /\ j <= Length(r) => i <= Length(r)
             /\ r = "blocklist" /\ j <= 3 => m = deleted
             /\ r = "delete" /\ j <= 9 => i <= 9
             /\ r = "list" /\ j = 3 => settled \subseteq m
             /\ r = "list" /\ j >= 3 => l \cap settled = {}
<1>5. ASSUME NEW j, NEW S, NEW M, Moves(j, S, M),
             main' \in Files, blocklist' \in Files, copy' \in Files
      PROVE Base'
  <2>1. /\ rest' \in [Slots -> Seq(Stretches)]
        /\ loaded' \in [Slots -> SUBSET Companies] /\ marked' \in [Slots -> SUBSET Companies]
        /\ rest'[s] = Rest(r, j)
        /\ loaded'[s] = IF j = Length(r) + 1 /\ s # "list" THEN {} ELSE S
        /\ marked'[s] = IF j = Length(r) + 1 THEN {} ELSE M
        /\ \A u \in Slots \ {s} : /\ rest'[u] = rest[u] /\ loaded'[u] = loaded[u]
                                  /\ marked'[u] = marked[u]
    BY <1>5, Moved
  <2>2. TypeOK'
    BY <1>4, <1>5, <2>1 DEF TypeOK
  <2>3. \A u \in Slots \ {s} : SlotAt(u)'
    BY <1>4, <2>1 DEF SlotAt, Fits
  <2>4. Fits(s, r, j)'
    BY <1>1, <1>4, <1>5, <2>1 DEF Fits
  <2>5. SlotAt(s)'
    BY <1>5, <2>1, <2>4 DEF SlotAt
  <2> QED
    BY <2>2, <2>3, <2>5
<1>6. main \in Files /\ blocklist \in Files /\ copy \in Files
  BY <1>0
<1>7. /\ Opened \in Files /\ \A S \in SUBSET Companies : \A f : Written(f, S) \subseteq Files
  BY DEF Opened, Files, Written, File, Mixed
<1>8. /\ r \in {"list", "create", "delete", "blocklist", "copy"} /\ i \in Nat
      /\ r = "list" => s = "list" /\ Length(r) = 5
      /\ r = "create" => s = "create" /\ Length(r) = 8
      /\ r = "delete" => s \in Companies /\ Length(r) = 11
      /\ r = "blocklist" => Length(r) = 7
      /\ r = "copy" => Length(r) = 2
  BY RouteKinds DEF Length, Texts, Places
<1>9. /\ r = "create" /\ i <= 8 => created \in Companies
      /\ r = "blocklist" /\ i <= 3 => marked[s] = deleted
      /\ r = "list" /\ i = 3 => settled \subseteq marked[s]
      /\ r = "list" /\ i >= 3 => loaded[s] \cap settled = {}
  BY <1>1 DEF Fits
<1>10. CASE ReadMain(s)
  <2>1. Place("readMain", r, i) /\ Tail(rest[s]) = Rest(r, i + 1) /\ i + 1 \in Places(r)
    BY <1>10, <1>2 DEF ReadMain, At
  <2>2. (r \in {"list", "create", "delete"} /\ i = 1) \/ (r = "blocklist" /\ i = 4)
    BY <2>1 DEF Place, Loading
  <2>3. GoesTo(s, Rest(r, i + 1), Read(main), marked[s])
    BY <1>10, <2>1 DEF ReadMain, Go
  <2>4. Moves(i + 1, Read(main), marked[s])
    BY <1>0, <1>8, <1>9, <2>1, <2>2, <2>3
  <2> QED
    BY <1>10, <1>0, <1>5, <1>6, <1>7, <2>4 DEF ReadMain, fileVars
<1>11. CASE Filter(s)
  <2>1. Place("filter", r, i) /\ Tail(rest[s]) = Rest(r, i + 1) /\ i + 1 \in Places(r)
    BY <1>11, <1>2 DEF Filter, At
  <2>2. r \in {"list", "create", "delete"} /\ i = 2
    BY <2>1 DEF Place, Loading
  <2>3. GoesTo(s, Rest(r, i + 1), loaded[s] \ Read(blocklist), Read(blocklist))
    BY <1>11, <2>1 DEF Filter, Go
  <2>4. Moves(i + 1, loaded[s] \ Read(blocklist), Read(blocklist))
    BY <1>0, <1>8, <1>9, <2>1, <2>2, <2>3
  <2> QED
    BY <1>11, <1>0, <1>5, <1>6, <1>7, <2>4 DEF Filter, fileVars
<1>12. CASE OpenMain(s)
  <2>1. Place("openMain", r, i) /\ Tail(rest[s]) = Rest(r, i + 1) /\ i + 1 \in Places(r)
    BY <1>12, <1>2 DEF OpenMain, At
  <2>2. (r \in {"list", "create", "delete"} /\ i = 4) \/ (r = "create" /\ i = 7)
        \/ (r = "delete" /\ i = 10) \/ (r = "blocklist" /\ i = 6)
    BY <2>1 DEF Place, Loading
  <2>3. GoesTo(s, Rest(r, i + 1), loaded[s], marked[s])
    BY <1>12, <2>1 DEF OpenMain, Go
  <2>4. Moves(i + 1, loaded[s], marked[s])
    BY <1>0, <1>8, <1>9, <2>1, <2>2, <2>3
  <2> QED
    BY <1>12, <1>0, <1>5, <1>6, <1>7, <2>4 DEF OpenMain, fileVars
<1>13. CASE WriteMain(s)
  <2>1. Place("writeMain", r, i) /\ Tail(rest[s]) = Rest(r, i + 1) /\ i + 1 \in Places(r)
    BY <1>13, <1>2 DEF WriteMain, At
  <2>2. (r \in {"list", "create", "delete"} /\ i = 5) \/ (r = "create" /\ i = 8)
        \/ (r = "delete" /\ i = 11) \/ (r = "blocklist" /\ i = 7)
    BY <2>1 DEF Place, Loading
  <2>3. GoesTo(s, Rest(r, i + 1), loaded[s], marked[s])
    BY <1>13, <2>1 DEF WriteMain, Go
  <2>4. Moves(i + 1, loaded[s], marked[s])
    BY <1>0, <1>8, <1>9, <2>1, <2>2, <2>3
  <2> QED
    BY <1>13, <1>0, <1>5, <1>6, <1>7, <2>4 DEF WriteMain, fileVars
<1>14. CASE Add(s)
  <2>1. Place("add", r, i) /\ Tail(rest[s]) = Rest(r, i + 1) /\ i + 1 \in Places(r)
    BY <1>14, <1>2 DEF Add, At
  <2>2. r = "create" /\ i = 6
    BY <2>1 DEF Place, Loading
  <2>3. GoesTo(s, Rest(r, i + 1), loaded[s] \cup {created}, {})
    BY <1>14, <2>1 DEF Add, Go
  <2>4. Moves(i + 1, loaded[s] \cup {created}, {})
    BY <1>0, <1>8, <1>9, <2>1, <2>2, <2>3
  <2> QED
    BY <1>14, <1>0, <1>5, <1>6, <1>7, <2>4 DEF Add, fileVars
<1>15. CASE ReadIds(s)
  <2>1. Place("readIds", r, i) /\ Tail(rest[s]) = Rest(r, i + 1) /\ i + 1 \in Places(r)
    BY <1>15, <1>2 DEF ReadIds, At
  <2>2. r = "delete" /\ i = 7
    BY <2>1 DEF Place, Loading
  <2>3. GoesTo(s, Rest(r, i + 1), loaded[s], Read(blocklist) \cup {s})
    BY <1>15, <2>1 DEF ReadIds, Go
  <2>4. Moves(i + 1, loaded[s], Read(blocklist) \cup {s})
    BY <1>0, <1>8, <1>9, <2>1, <2>2, <2>3
  <2> QED
    BY <1>15, <1>0, <1>5, <1>6, <1>7, <2>4 DEF ReadIds, fileVars
<1>16. CASE OpenIds(s)
  <2>1. Place("openIds", r, i) /\ Tail(rest[s]) = Rest(r, i + 1) /\ i + 1 \in Places(r)
    BY <1>16, <1>2 DEF OpenIds, At
  <2>2. (r = "delete" /\ i = 8) \/ (r = "blocklist" /\ i = 2)
    BY <2>1 DEF Place, Loading
  <2>3. GoesTo(s, Rest(r, i + 1), loaded[s], marked[s])
    BY <1>16, <2>1 DEF OpenIds, Go
  <2>4. Moves(i + 1, loaded[s], marked[s])
    BY <1>0, <1>8, <1>9, <2>1, <2>2, <2>3
  <2> QED
    BY <1>16, <1>0, <1>5, <1>6, <1>7, <2>4 DEF OpenIds, fileVars
<1>17. CASE WriteIds(s)
  <2>1. Place("writeIds", r, i) /\ Tail(rest[s]) = Rest(r, i + 1) /\ i + 1 \in Places(r)
    BY <1>17, <1>2 DEF WriteIds, At
  <2>2. (r = "delete" /\ i = 9) \/ (r = "blocklist" /\ i = 3)
    BY <2>1 DEF Place, Loading
  <2>3. GoesTo(s, Rest(r, i + 1), loaded[s], marked[s])
    BY <1>17, <2>1 DEF WriteIds, Go
  <2>4. Moves(i + 1, loaded[s], marked[s])
    BY <1>0, <1>8, <1>9, <2>1, <2>2, <2>3
  <2> QED
    BY <1>17, <1>0, <1>5, <1>6, <1>7, <2>4 DEF WriteIds, fileVars
<1>18. CASE OpenCopy(s)
  <2>1. Place("openCopy", r, i) /\ Tail(rest[s]) = Rest(r, i + 1) /\ i + 1 \in Places(r)
    BY <1>18, <1>2 DEF OpenCopy, At
  <2>2. r = "copy" /\ i = 1
    BY <2>1 DEF Place, Loading
  <2>3. GoesTo(s, Rest(r, i + 1), loaded[s], marked[s])
    BY <1>18, <2>1 DEF OpenCopy, Go
  <2>4. Moves(i + 1, loaded[s], marked[s])
    BY <1>0, <1>8, <1>9, <2>1, <2>2, <2>3
  <2> QED
    BY <1>18, <1>0, <1>5, <1>6, <1>7, <2>4 DEF OpenCopy, fileVars
<1>19. CASE WriteCopy(s)
  <2>1. Place("writeCopy", r, i) /\ Tail(rest[s]) = Rest(r, i + 1) /\ i + 1 \in Places(r)
    BY <1>19, <1>2 DEF WriteCopy, At
  <2>2. r = "copy" /\ i = 2
    BY <2>1 DEF Place, Loading
  <2>3. GoesTo(s, Rest(r, i + 1), loaded[s], marked[s])
    BY <1>19, <2>1 DEF WriteCopy, Go
  <2>4. Moves(i + 1, loaded[s], marked[s])
    BY <1>0, <1>8, <1>9, <2>1, <2>2, <2>3
  <2> QED
    BY <1>19, <1>0, <1>5, <1>6, <1>7, <2>4 DEF WriteCopy, fileVars
<1>20. CASE Merge(s)
  <2>1. Place("merge", r, i) /\ Tail(rest[s]) = Rest(r, i + 1) /\ i + 1 \in Places(r)
    BY <1>20, <1>2 DEF Merge, At
  <2>2. r \in {"list", "create", "delete"} /\ i = 3 /\ 6 \in Places(r)
    BY <1>8, <2>1 DEF Place, Places, Loading
  <2>3. SubSeq(rest[s], 4, Len(rest[s])) = Rest(r, 6)
    BY <1>1, <2>2, RestSkips DEF Loading
  <2> DEFINE all == loaded[s] \cup (Elsewhere \ marked[s])
  <2>4. all \in SUBSET Companies
    BY <1>0 DEF Elsewhere
  <2>5. r = "list" => all \cap settled = {}
    BY <1>9, <2>2
  <2>6. GoesTo(s, Rest(r, 4), all, {}) \/ GoesTo(s, Rest(r, 6), all, {})
    <3>1. Tail(rest[s]) = Rest(r, 4)
      BY <2>1, <2>2
    <3>2. Go(s, all, {}) \/ Skip(s, all)
      BY <1>20 DEF Merge
    <3> QED
      BY <3>1, <3>2, <2>3 DEF Go, Skip
  <2> HIDE DEF all
  <2>7. Moves(4, all, {}) \/ Moves(6, all, {})
    BY <1>8, <2>1, <2>2, <2>4, <2>5, <2>6
  <2> QED
    BY <1>20, <1>5, <1>6, <2>7 DEF Merge, fileVars
<1>21. CASE Drop(s)
  <2>1. Place("drop", r, i) /\ Tail(rest[s]) = Rest(r, i + 1) /\ i + 1 \in Places(r)
    BY <1>21, <1>2 DEF Drop, At
  <2>2. r = "delete" /\ i = 6
    BY <2>1 DEF Place
  <2>3. GoesTo(s, Rest(r, i + 1), loaded[s] \ {s}, {}) \/ GoesTo(s, Rest(r, Length(r) + 1), {}, {})
    BY <1>21, <1>3, <2>1 DEF Drop, Go, End
  <2>4. Moves(i + 1, loaded[s] \ {s}, {}) \/ Moves(Length(r) + 1, {}, {})
    BY <1>0, <1>3, <1>8, <1>9, <2>1, <2>2, <2>3
  <2> QED
    BY <1>21, <1>5, <1>6, <2>4 DEF Drop, fileVars
<1>22. CASE ReadNew(s)
  <2>1. Place("readNew", r, i) /\ Tail(rest[s]) = Rest(r, i + 1) /\ i + 1 \in Places(r)
    BY <1>22, <1>2 DEF ReadNew, At
  <2>2. r = "blocklist" /\ i = 1
    BY <2>1 DEF Place
  <2>3. \/ GoesTo(s, Rest(r, i + 1), loaded[s], Read(blocklist) \cup marked[s])
        \/ GoesTo(s, Rest(r, Length(r) + 1), {}, {})
    BY <1>22, <1>3, <2>1 DEF ReadNew, Go, End
  <2>4. Moves(i + 1, loaded[s], Read(blocklist) \cup marked[s]) \/ Moves(Length(r) + 1, {}, {})
    BY <1>0, <1>3, <1>8, <1>9, <2>1, <2>2, <2>3
  <2> QED
    BY <1>22, <1>5, <1>6, <2>4 DEF ReadNew, fileVars
<1>23. CASE DropIds(s)
  <2>1. Place("dropIds", r, i) /\ Tail(rest[s]) = Rest(r, i + 1) /\ i + 1 \in Places(r)
    BY <1>23, <1>2 DEF DropIds, At
  <2>2. r = "blocklist" /\ i = 5
    BY <2>1 DEF Place
  <2>3. \/ GoesTo(s, Rest(r, i + 1), loaded[s] \ marked[s], {})
        \/ GoesTo(s, Rest(r, Length(r) + 1), {}, {})
    BY <1>23, <1>3, <2>1 DEF DropIds, Go, End
  <2>4. Moves(i + 1, loaded[s] \ marked[s], {}) \/ Moves(Length(r) + 1, {}, {})
    BY <1>0, <1>3, <1>8, <1>9, <2>1, <2>2, <2>3
  <2> QED
    BY <1>23, <1>5, <1>6, <2>4 DEF DropIds, fileVars
<1> QED
  BY <1>10, <1>11, <1>12, <1>13, <1>14, <1>15, <1>16, <1>17, <1>18, <1>19,
     <1>20, <1>21, <1>22, <1>23 DEF Step
-----------------------------------------------------------------------------
(* The blocklist.  It has nothing but what is deleted, and while it has    *)
(* not all of that, some request is still to write all of it: one that is  *)
(* under way, or one the browser has yet to send.                          *)
Heads(s, x) == ~Free(s) /\ Head(rest[s]) = x
ToBlock(s) == s \in Companies /\ chain[s] # <<>> /\ Head(chain[s]) = "blocklist"

LoginIdle == page = "login" => Idle
OnlyDeleted == /\ Read(blocklist) \subseteq deleted
               /\ \A s \in Slots : marked[s] \subseteq deleted
               /\ blocklist.cond # "whole" => blocklist.ids = {}
Later(s) == \/ ToBlock(s)
            \/ (Heads(s, "readNew") \/ Heads(s, "openIds")) /\ marked[s] = deleted
Rewrites(s) == Heads(s, "writeIds") /\ marked[s] = deleted
Blocked == \/ deleted \subseteq Read(blocklist)
           \/ \E s \in Slots : Later(s)
           \/ blocklist = Opened /\ \E s \in Slots : Rewrites(s)
SettledInv == /\ settled \subseteq Read(blocklist)
              /\ settled # {} => \A c \in Companies : chain[c] = <<>>

SafeInv == /\ Base /\ LoginIdle /\ OnlyDeleted /\ SettledInv
           /\ "deletion" \notin cut => Blocked

(* A stretch changes nothing of the browser and of the other slots.        *)
LEMMA OthersStay ==
  ASSUME TypeOK, NEW s \in Slots, Step(s)
  PROVE  /\ \A u \in Slots \ {s} : /\ rest'[u] = rest[u] /\ loaded'[u] = loaded[u]
                                   /\ marked'[u] = marked[u]
         /\ UNCHANGED <<created, page, shown, deleted, chain, kept, settled, cut, restarts>>
<1>1. \A q, S, M : GoesTo(s, q, S, M) =>
        \A u \in Slots \ {s} : /\ rest'[u] = rest[u] /\ loaded'[u] = loaded[u]
                               /\ marked'[u] = marked[u]
  BY DEF GoesTo, TypeOK
<1>2. \E q, S, M : GoesTo(s, q, S, M)
  <2>1. CASE Merge(s)
    BY <2>1 DEF Merge, Go, Skip
  <2>2. CASE Drop(s) \/ DropIds(s) \/ ReadNew(s)
    BY <2>2 DEF Drop, DropIds, ReadNew, Go, End
  <2>3. CASE ~(Merge(s) \/ Drop(s) \/ DropIds(s) \/ ReadNew(s))
    BY <2>3 DEF Step, ReadMain, Filter, OpenMain, WriteMain, Add, ReadIds, OpenIds, WriteIds,
                OpenCopy, WriteCopy, Go
  <2> QED
    BY <2>1, <2>2, <2>3
<1> QED
  BY <1>1, <1>2 DEF Step, browserVars, histVars

(* What comes next in POST /data/save.                                     *)
LEMMA NextHeads ==
  /\ Rest("blocklist", 1) # <<>> /\ Head(Rest("blocklist", 1)) = "readNew"
  /\ Rest("blocklist", 2) # <<>> /\ Head(Rest("blocklist", 2)) = "openIds"
  /\ Rest("blocklist", 3) # <<>> /\ Head(Rest("blocklist", 3)) = "writeIds"
  /\ Rest("copy", 2) # <<>> /\ Head(Rest("copy", 2)) = "writeCopy"
<1>1. /\ "blocklist" \in Texts /\ {1, 2, 3} \subseteq 1 .. Length("blocklist")
      /\ "copy" \in Texts /\ 2 \in 1 .. Length("copy")
  BY DEF Texts, Length
<1>2. /\ Rest("blocklist", 1) # <<>> /\ Head(Rest("blocklist", 1)) = Program("blocklist")[1]
      /\ Rest("blocklist", 2) # <<>> /\ Head(Rest("blocklist", 2)) = Program("blocklist")[2]
      /\ Rest("blocklist", 3) # <<>> /\ Head(Rest("blocklist", 3)) = Program("blocklist")[3]
      /\ Rest("copy", 2) # <<>> /\ Head(Rest("copy", 2)) = Program("copy")[2]
  BY <1>1, RestGoesOn
<1> QED
  BY <1>2, BlocklistText, CopyText

(* What a slot runs that has x before it. *)
LEMMA Found ==
  ASSUME Base, NEW s \in Slots, NEW x, Heads(s, x)
  PROVE  \E r \in Routes(s) : \E i \in Places(r) :
           /\ rest[s] = Rest(r, i) /\ Fits(s, r, i)
           /\ i \in 1 .. Length(r) /\ Place(x, r, i) /\ r \in Texts
           /\ Tail(rest[s]) = Rest(r, i + 1) /\ i + 1 \in Places(r)
<1>1. PICK r \in Routes(s) : \E i \in Places(r) : rest[s] = Rest(r, i) /\ Fits(s, r, i)
  BY DEF Base, SlotAt
<1>2. PICK i \in Places(r) : rest[s] = Rest(r, i) /\ Fits(s, r, i)
  BY <1>1
<1> QED
  BY <1>2, Located DEF Heads

(* The stretches that have to do with the blocklist, in the two routes.    *)
LEMMA ReadNewDoes ==
  ASSUME Base, Read(blocklist) \subseteq deleted, NEW s \in Slots, ReadNew(s)
  PROVE  /\ marked[s] = deleted /\ marked'[s] \subseteq deleted
         /\ \/ deleted \subseteq Read(blocklist)
            \/ Heads(s, "openIds")' /\ marked'[s] = deleted
<1>1. Heads(s, "readNew")
  BY DEF ReadNew, At, Heads
<1>2. rest[s] = Rest("blocklist", 1) /\ marked[s] = deleted /\ Tail(rest[s]) = Rest("blocklist", 2)
  <2>1. PICK r \in Routes(s) : \E i \in Places(r) :
           /\ rest[s] = Rest(r, i) /\ Fits(s, r, i)
           /\ i \in 1 .. Length(r) /\ Place("readNew", r, i) /\ r \in Texts
           /\ Tail(rest[s]) = Rest(r, i + 1) /\ i + 1 \in Places(r)
    BY <1>1, Found
  <2>2. r = "blocklist"
    BY <2>1 DEF Place
  <2>3. rest[s] = Rest(r, 1) /\ Fits(s, r, 1) /\ Tail(rest[s]) = Rest(r, 1 + 1)
    BY <2>1 DEF Place
  <2> QED
    BY <2>2, <2>3 DEF Fits
<1>3. Rest("blocklist", 2) # <<>> /\ Head(Rest("blocklist", 2)) = "openIds"
  BY NextHeads
<1>4. CASE marked[s] \subseteq Read(blocklist)
  <2>1. marked'[s] = {}
    BY <1>4 DEF ReadNew, End, GoesTo, Base, TypeOK
  <2> QED
    BY <1>2, <1>4, <2>1
<1>5. CASE ~(marked[s] \subseteq Read(blocklist))
  <2>1. rest'[s] = Rest("blocklist", 2) /\ marked'[s] = Read(blocklist) \cup marked[s]
    BY <1>2, <1>3, <1>5 DEF ReadNew, Go, GoesTo, Base, TypeOK
  <2> QED
    BY <1>2, <1>3, <2>1 DEF Heads, Free
<1> QED
  BY <1>4, <1>5

(* A blocklist is emptied while no listing counts on it.                   *)
LEMMA OpenIdsDoes ==
  ASSUME Base, NEW s \in Slots, OpenIds(s)
  PROVE  /\ settled = {} /\ blocklist' = Opened /\ marked'[s] = marked[s]
         /\ \/ ToBlock(s) \/ "deletion" \in cut
            \/ Heads(s, "writeIds")' /\ marked'[s] = deleted
<1>1. Heads(s, "openIds")
  BY DEF OpenIds, At, Heads
<1>2. PICK r \in Routes(s) : \E i \in Places(r) :
         /\ rest[s] = Rest(r, i) /\ Fits(s, r, i)
         /\ i \in 1 .. Length(r) /\ Place("openIds", r, i) /\ r \in Texts
         /\ Tail(rest[s]) = Rest(r, i + 1) /\ i + 1 \in Places(r)
  BY <1>1, Found
<1>3. CASE r = "delete"
  <2>1. Fits(s, r, 8) /\ Tail(rest[s]) = Rest(r, 9)
    <3>1. Fits(s, r, 8) /\ Tail(rest[s]) = Rest(r, 8 + 1)
      BY <1>2, <1>3 DEF Place
    <3> QED
      BY <3>1
  <2>2. settled = {} /\ (ToBlock(s) \/ "deletion" \in cut)
    BY <1>3, <2>1, RouteKinds DEF Fits, Length, ToBlock
  <2>3. Rest(r, 9) # <<>>
    BY <1>3, RestGoesOn DEF Texts, Length
  <2>4. blocklist' = Opened /\ marked'[s] = marked[s]
    BY <2>1, <2>3 DEF OpenIds, Go, GoesTo, Base, TypeOK
  <2> QED
    BY <2>2, <2>4
<1>4. CASE r = "blocklist"
  <2>1. Fits(s, r, 2) /\ Tail(rest[s]) = Rest(r, 3)
    <3>1. Fits(s, r, 2) /\ Tail(rest[s]) = Rest(r, 2 + 1)
      BY <1>2, <1>4 DEF Place
    <3> QED
      BY <3>1
  <2>2. settled = {} /\ marked[s] = deleted
    BY <1>4, <2>1 DEF Fits, Length
  <2>3. Rest(r, 3) # <<>> /\ Head(Rest(r, 3)) = "writeIds"
    BY <1>4, NextHeads
  <2>4. blocklist' = Opened /\ marked'[s] = marked[s] /\ rest'[s] = Rest(r, 3)
    BY <2>1, <2>3 DEF OpenIds, Go, GoesTo, Base, TypeOK
  <2> QED
    BY <2>2, <2>3, <2>4 DEF Heads, Free
<1> QED
  BY <1>2, <1>3, <1>4 DEF Place

(* It is written with all deletions, or all of them will be sent again.    *)
LEMMA WriteIdsDoes ==
  ASSUME Base, NEW s \in Slots, WriteIds(s)
  PROVE  /\ settled = {} /\ blocklist' \in Written(blocklist, marked[s])
         /\ marked'[s] \in {{}, marked[s]}
         /\ ToBlock(s) \/ "deletion" \in cut \/ marked[s] = deleted
<1>1. Heads(s, "writeIds")
  BY DEF WriteIds, At, Heads
<1>2. PICK r \in Routes(s) : \E i \in Places(r) :
         /\ rest[s] = Rest(r, i) /\ Fits(s, r, i)
         /\ i \in 1 .. Length(r) /\ Place("writeIds", r, i) /\ r \in Texts
         /\ Tail(rest[s]) = Rest(r, i + 1) /\ i + 1 \in Places(r)
  BY <1>1, Found
<1>3. CASE r = "delete"
  <2>1. Fits(s, r, 9)
    BY <1>2, <1>3 DEF Place
  <2> QED
    BY <1>3, <2>1, RouteKinds DEF Fits, Length, ToBlock, WriteIds, Go, GoesTo, Base, TypeOK
<1>4. CASE r = "blocklist"
  <2>1. Fits(s, r, 3)
    BY <1>2, <1>4 DEF Place
  <2> QED
    BY <1>4, <2>1 DEF Fits, Length, WriteIds, Go, GoesTo, Base, TypeOK
<1> QED
  BY <1>2, <1>3, <1>4 DEF Place

(* DELETE marks a company that the browser has deleted.                    *)
LEMMA ReadIdsDoes ==
  ASSUME Base, NEW s \in Slots, ReadIds(s)
  PROVE  s \in deleted
<1>1. Heads(s, "readIds")
  BY DEF ReadIds, At, Heads
<1>2. PICK r \in Routes(s) : \E i \in Places(r) :
         /\ rest[s] = Rest(r, i) /\ Fits(s, r, i)
         /\ i \in 1 .. Length(r) /\ Place("readIds", r, i) /\ r \in Texts
         /\ Tail(rest[s]) = Rest(r, i + 1) /\ i + 1 \in Places(r)
  BY <1>1, Found
<1>3. r = "delete" /\ Fits(s, r, 7)
  BY <1>2 DEF Place
<1> QED
  BY <1>3 DEF Fits

(* A stretch leaves what it must of the blocklist.                         *)
LEMMA StretchBlock ==
  ASSUME SafeInv, NEW s \in Slots, Step(s)
  PROVE  LoginIdle' /\ OnlyDeleted' /\ SettledInv' /\ ("deletion" \notin cut => Blocked)'
<1> USE DEF SafeInv
<1>0. /\ \A u \in Slots \ {s} : /\ rest'[u] = rest[u] /\ loaded'[u] = loaded[u]
                                /\ marked'[u] = marked[u]
      /\ UNCHANGED <<created, page, shown, deleted, chain, kept, settled, cut, restarts>>
  BY OthersStay DEF Base
<1>1. LoginIdle'
  <2> SUFFICES ASSUME page = "login" PROVE Idle'
    BY <1>0 DEF LoginIdle
  <2>1. Idle /\ ~Free(s)
    BY DEF LoginIdle, Step, ReadMain, Filter, Merge, OpenMain, WriteMain, Add, Drop, DropIds,
           ReadIds, ReadNew, OpenIds, WriteIds, OpenCopy, WriteCopy, At
  <2> QED
    BY <1>0, <2>1 DEF Idle, Free
<1>2. (\A u \in Slots \ {s} : Later(u) => Later(u)') /\ (ToBlock(s) => Later(s)')
      /\ (\A u \in Slots \ {s} : Rewrites(u) => Rewrites(u)')
  BY <1>0 DEF Later, ToBlock, Heads, Free, Rewrites
<1>3. CASE ReadNew(s)
  <2>1. /\ marked[s] = deleted /\ marked'[s] \subseteq deleted
        /\ \/ deleted \subseteq Read(blocklist)
           \/ Heads(s, "openIds")' /\ marked'[s] = deleted
    BY <1>3, ReadNewDoes DEF OnlyDeleted
  <2>2. blocklist' = blocklist /\ Heads(s, "readNew") /\ ~Heads(s, "writeIds")
    BY <1>3 DEF ReadNew, fileVars, At, Heads
  <2>3. OnlyDeleted'
    BY <1>0, <2>1, <2>2 DEF OnlyDeleted
  <2>4. SettledInv'
    BY <1>0, <2>2 DEF SettledInv
  <2>5. Blocked => Blocked'
    BY <1>0, <1>2, <2>1, <2>2 DEF Blocked, Later, Rewrites
  <2> QED
    BY <1>0, <1>1, <2>3, <2>4, <2>5
<1>4. CASE OpenIds(s)
  <2>1. /\ settled = {} /\ blocklist' = Opened /\ marked'[s] = marked[s]
        /\ \/ ToBlock(s) \/ "deletion" \in cut
           \/ Heads(s, "writeIds")' /\ marked'[s] = deleted
    BY <1>4, OpenIdsDoes
  <2>2. OnlyDeleted'
    BY <1>0, <2>1 DEF OnlyDeleted, Opened, Read
  <2>3. SettledInv'
    BY <1>0, <2>1 DEF SettledInv, Read, Opened
  <2>4. "deletion" \notin cut => Blocked'
    <3>1. CASE ToBlock(s)
      BY <1>2, <3>1 DEF Blocked
    <3>2. CASE Heads(s, "writeIds")' /\ marked'[s] = deleted
      BY <1>0, <2>1, <3>2 DEF Blocked, Rewrites
    <3> QED
      BY <2>1, <3>1, <3>2
  <2> QED
    BY <1>0, <1>1, <2>2, <2>3, <2>4
<1>5. CASE WriteIds(s)
  <2>1. /\ settled = {} /\ blocklist' \in Written(blocklist, marked[s])
        /\ marked'[s] \in {{}, marked[s]}
        /\ ToBlock(s) \/ "deletion" \in cut \/ marked[s] = deleted
    BY <1>5, WriteIdsDoes
  <2>2. \/ blocklist' = File(marked[s])
        \/ blocklist' = Mixed /\ blocklist # Opened /\ blocklist # File(marked[s])
    BY <2>1 DEF Written
  <2>3. OnlyDeleted'
    BY <1>0, <2>1, <2>2 DEF OnlyDeleted, File, Mixed, Read
  <2>4. SettledInv'
    BY <1>0, <2>1 DEF SettledInv
  <2>5. Blocked /\ "deletion" \notin cut => Blocked'
    <3> SUFFICES ASSUME Blocked, ~ToBlock(s), marked[s] = deleted PROVE Blocked'
      BY <1>2, <2>1 DEF Blocked
    <3>1. CASE blocklist' = File(marked[s])
      BY <1>0, <3>1 DEF Blocked, File, Read
    <3>2. CASE blocklist' = Mixed /\ blocklist # Opened /\ blocklist # File(marked[s])
      <4>1. ~Later(s)
        BY <1>5 DEF Later, WriteIds, At, Heads
      <4>2. CASE deleted \subseteq Read(blocklist)
        <5>1. blocklist.ids = deleted /\ blocklist.cond # "whole"
          BY <3>2, <4>2 DEF OnlyDeleted, Read, File, Base, TypeOK, Files
        <5> QED
          BY <1>0, <3>2, <5>1 DEF OnlyDeleted, Blocked, Read, Mixed
      <4> QED
        BY <1>2, <3>2, <4>1, <4>2 DEF Blocked
    <3> QED
      BY <2>2, <3>1, <3>2
  <2> QED
    BY <1>0, <1>1, <2>3, <2>4, <2>5
<1>6. CASE ~(ReadNew(s) \/ OpenIds(s) \/ WriteIds(s))
  <2>1. /\ blocklist' = blocklist
        /\ ~Heads(s, "readNew") /\ ~Heads(s, "openIds") /\ ~Heads(s, "writeIds")
    BY <1>6 DEF Step, ReadMain, Filter, Merge, OpenMain, WriteMain, Add, Drop, DropIds,
                ReadIds, OpenCopy, WriteCopy, At, Heads, fileVars
  <2>2. marked'[s] \subseteq deleted
    <3>1. marked \in [Slots -> SUBSET Companies] /\ marked[s] \subseteq deleted
          /\ Read(blocklist) \subseteq deleted
      BY DEF Base, TypeOK, OnlyDeleted
    <3>2. CASE ReadIds(s)
      <4>1. s \in deleted
        BY <3>2, ReadIdsDoes
      <4> QED
        BY <3>1, <3>2, <4>1 DEF ReadIds, Go, GoesTo
    <3>3. CASE Merge(s)
      BY <3>1, <3>3 DEF Merge, Go, Skip, GoesTo
    <3>4. CASE Drop(s) \/ DropIds(s)
      BY <3>1, <3>4 DEF Drop, DropIds, Go, End, GoesTo
    <3>5. CASE ReadMain(s) \/ Filter(s) \/ OpenMain(s) \/ WriteMain(s) \/ Add(s)
               \/ OpenCopy(s) \/ WriteCopy(s)
      BY <3>1, <3>5 DEF ReadMain, Filter, OpenMain, WriteMain, Add, OpenCopy, WriteCopy, Go, GoesTo
    <3> QED
      BY <1>6, <3>2, <3>3, <3>4, <3>5 DEF Step
  <2>3. OnlyDeleted'
    BY <1>0, <2>1, <2>2 DEF OnlyDeleted
  <2>4. SettledInv'
    BY <1>0, <2>1 DEF SettledInv
  <2>5. Blocked => Blocked'
    BY <1>0, <1>2, <2>1 DEF Blocked, Later, Rewrites
  <2> QED
    BY <1>0, <1>1, <2>3, <2>4, <2>5
<1> QED
  BY <1>1, <1>3, <1>4, <1>5, <1>6
-----------------------------------------------------------------------------
(* Requests that begin and end, and the bridge that goes down.             *)

(* The same of the next state.                                             *)
LEMMA FreeFitsNext ==
  ASSUME NEW s \in Slots, rest'[s] = <<>>, s = "list" => loaded'[s] \cap settled' = {}
  PROVE  SlotAt(s)'
<1>1. PICK r \in Routes(s) : r \in Texts
  BY RouteKinds DEF Routes
<1>2. Length(r) + 1 \in Places(r)
  BY <1>1, LengthType DEF Places
<1>3. rest'[s] = Rest(r, Length(r) + 1)
  BY <1>1, RestEnds
<1>4. Fits(s, r, Length(r) + 1)'
  BY <1>1, RouteKinds DEF Fits, Length, Texts
<1> QED
  BY <1>2, <1>3, <1>4 DEF SlotAt

(* A request goes on through what happens elsewhere. *)
LEMMA Kept ==
  ASSUME NEW s \in Slots, SlotAt(s), rest'[s] = rest[s], marked'[s] = marked[s],
         loaded'[s] = loaded[s], settled' \in {settled, {}},
         s = "list" \/ /\ created' = created /\ deleted' = deleted
                       /\ "deletion" \in cut => "deletion" \in cut'
                       /\ s \in Companies => chain'[s] = chain[s] \/ "deletion" \in cut'
  PROVE  SlotAt(s)'
<1>1. PICK r \in Routes(s) : \E i \in Places(r) : rest[s] = Rest(r, i) /\ Fits(s, r, i)
  BY DEF SlotAt
<1>2. PICK i \in Places(r) : rest[s] = Rest(r, i) /\ Fits(s, r, i)
  BY <1>1
<1>3. Fits(s, r, i)'
  <2>1. CASE s = "list"
    BY <1>2, <2>1, RouteKinds DEF Fits
  <2>2. CASE s # "list"
    BY <1>2, <2>2, RouteKinds DEF Fits
  <2> QED
    BY <2>1, <2>2
<1> QED
  BY <1>2, <1>3 DEF SlotAt

(* With nothing under way, only the listing may be. *)
LEMMA IdleSlots ==
  ASSUME Base, Idle
  PROVE  /\ \A s \in Slots \ {"list"} : rest[s] = <<>>
         /\ \A c \in Companies : chain[c] = <<>>
         /\ \A s \in Slots : ~Later(s) /\ ~Rewrites(s)
<1>1. /\ \A s \in Slots \ {"list"} : rest[s] = <<>>
      /\ \A c \in Companies : chain[c] = <<>>
  BY DEF Idle, Free
<1>2. \A x : Heads("list", x) => x \notin {"readNew", "openIds", "writeIds"}
  <2> SUFFICES ASSUME NEW x, Heads("list", x) PROVE x \notin {"readNew", "openIds", "writeIds"}
    OBVIOUS
  <2>1. \E i : Place(x, "list", i)
    BY Found, RouteKinds DEF Slots, Async
  <2> QED
    BY <2>1 DEF Place
<1> QED
  BY <1>1, <1>2 DEF Later, Rewrites, ToBlock, Heads, Free

(* With nothing under way, all deletions are in the blocklist.             *)
LEMMA IdleBlocked ==
  ASSUME Base, Idle, Blocked
  PROVE  deleted \subseteq Read(blocklist)
  BY IdleSlots DEF Blocked

(* The slots are different from each other.                                *)
LEMMA SlotKinds ==
  /\ Slots = {"list", "create", "post"} \cup Companies
  /\ "list" \notin Companies /\ "create" \notin Companies /\ "post" \notin Companies
  /\ {"list", "create", "delete", "blocklist", "copy"} = Texts
  BY CompaniesAssumption DEF Slots, Async, Texts

(* A listing that begins finds the blocklist complete.                     *)
LEMMA AskSafe ==
  ASSUME SafeInv, NEW reason \in {"loading", "login"}, Ask(reason)
  PROVE  SafeInv'
<1> USE DEF SafeInv
<1>1. /\ rest' = [s \in Slots |-> IF s = "list" THEN Program("list") ELSE rest[s]]
      /\ loaded' = [s \in Slots |-> IF s = "list" THEN {} ELSE loaded[s]]
      /\ marked' = [s \in Slots |-> IF s = "list" THEN {} ELSE marked[s]]
      /\ UNCHANGED <<main, blocklist, oneFile, copy, created, shown, deleted, chain, kept, cut, restarts>>
      /\ page' = reason /\ settled' = IF "deletion" \in cut THEN {} ELSE deleted
      /\ Idle
  BY DEF Ask, Send, fileVars
<1>2. Program("list") = Rest("list", 1) /\ 1 \in Places("list") /\ Program("list") \in Seq(Stretches)
  BY Begins, SlotKinds
<1>3. TypeOK'
  BY <1>1, <1>2 DEF TypeOK, Base
<1>4. SlotAt("list")'
  <2>1. Fits("list", "list", 1)'
    BY DEF Fits
  <2>2. rest'["list"] = Rest("list", 1)
    BY <1>1, <1>2, SlotKinds
  <2> QED
    BY <1>2, <2>1, <2>2, RouteKinds DEF SlotAt
<1>5. ASSUME NEW s \in Slots \ {"list"} PROVE SlotAt(s)'
  <2>1. rest'[s] = <<>>
    BY <1>1, IdleSlots
  <2> QED
    BY <2>1, FreeFitsNext
<1>6. Idle'
  BY <1>1, IdleSlots DEF Idle, Free
<1>7. OnlyDeleted'
  BY <1>1 DEF OnlyDeleted
<1>8. "deletion" \notin cut => deleted \subseteq Read(blocklist)
  BY <1>1, IdleBlocked
<1>9. SettledInv'
  BY <1>1, <1>8, IdleSlots DEF SettledInv
<1>10. ("deletion" \notin cut => Blocked)'
  BY <1>1, <1>8 DEF Blocked
<1> QED
  BY <1>3, <1>4, <1>5, <1>6, <1>7, <1>9, <1>10 DEF Base, LoginIdle

(* A listing that ends without an answer changes nothing.                  *)
LEMMA NoAnswerSafe ==
  ASSUME SafeInv, NoAnswer
  PROVE  SafeInv'
<1> USE DEF SafeInv
<1>1. /\ rest["list"] = <<>> /\ page' = "quiet" /\ settled' = {}
      /\ loaded' = [loaded EXCEPT !["list"] = {}]
      /\ UNCHANGED <<main, blocklist, oneFile, copy, rest, marked, created, shown, deleted, chain, kept,
                     cut, restarts>>
  BY DEF NoAnswer, Free, fileVars
<1>2. TypeOK'
  BY <1>1 DEF TypeOK, Base
<1>3. SlotAt("list")'
  BY <1>1, FreeFitsNext, SlotKinds
<1>4. ASSUME NEW s \in Slots \ {"list"} PROVE SlotAt(s)'
  <2>1. loaded'[s] = loaded[s] /\ SlotAt(s)
    BY <1>1 DEF Base, TypeOK
  <2> QED
    BY <1>1, <2>1, Kept
<1>5. OnlyDeleted' /\ SettledInv' /\ LoginIdle'
  BY <1>1 DEF OnlyDeleted, SettledInv, LoginIdle
<1>6. ("deletion" \notin cut => Blocked)'
  BY <1>1 DEF Blocked, Later, Rewrites, ToBlock, Heads, Free
<1> QED
  BY <1>2, <1>3, <1>4, <1>5, <1>6 DEF Base

(* An answer at login deletes every deleted company once more.             *)
LEMMA AnswerSafe ==
  ASSUME SafeInv, Answer
  PROVE  SafeInv'
<1> USE DEF SafeInv
<1> DEFINE again == IF page = "login" THEN deleted ELSE {}
<1>1. /\ rest["list"] = <<>> /\ page' = "quiet" /\ settled' = {}
      /\ loaded' = [loaded EXCEPT !["list"] = {}]
      /\ rest'  = [s \in Slots |-> IF s \in again THEN Program("delete") ELSE rest[s]]
      /\ chain' = [c \in Companies |-> IF c \in again THEN AfterScrub ELSE chain[c]]
      /\ UNCHANGED <<main, blocklist, oneFile, copy, marked, created, deleted, kept, restarts>>
  BY DEF Answer, Free, fileVars
<1>2. shown' \subseteq Companies /\ cut' \subseteq {"creation", "deletion"}
  <2>1. loaded["list"] \subseteq Companies /\ shown \subseteq Companies
        /\ cut \subseteq {"creation", "deletion"}
    BY SlotKinds DEF Base, TypeOK
  <2>2. shown' \subseteq loaded["list"] \/ shown' = shown
    BY DEF Answer
  <2>3. cut' \subseteq cut \cup {"creation"}
    BY DEF Answer
  <2> QED
    BY <2>1, <2>2, <2>3
<1>3. "deletion" \in cut' <=> "deletion" \in cut /\ page # "login"
  BY DEF Answer
<1>4. again \subseteq Companies /\ again \subseteq deleted
  BY DEF Base, TypeOK
<1>5. /\ Program("delete") = Rest("delete", 1) /\ 1 \in Places("delete")
      /\ Program("delete") \in Seq(Stretches)
  BY Begins, SlotKinds
<1>6. AfterScrub # <<>> /\ Head(AfterScrub) = "blocklist"
      /\ AfterScrub \in Seq({"blocklist", "copy", "saveCompanies"})
  BY DEF AfterScrub
<1>7. TypeOK'
  <2>1. rest' \in [Slots -> Seq(Stretches)]
    BY <1>1, <1>5 DEF Base, TypeOK
  <2>2. chain' \in [Companies -> Seq({"blocklist", "copy", "saveCompanies"})]
    BY <1>1, <1>6 DEF Base, TypeOK
  <2> QED
    BY <1>1, <1>2, <2>1, <2>2 DEF Base, TypeOK
<1>8. ASSUME NEW s \in Slots PROVE SlotAt(s)'
  <2>1. CASE s = "list"
    <3>1. rest'[s] = <<>>
      BY <1>1, <1>4, <2>1, SlotKinds
    <3> QED
      BY <1>1, <3>1, FreeFitsNext
  <2>2. CASE s \in again
    <3>1. rest'[s] = Rest("delete", 1) /\ chain'[s] = AfterScrub /\ s \in deleted' /\ s \in Companies
      BY <1>1, <1>4, <1>5, <2>2
    <3>2. Fits(s, "delete", 1)'
      BY <1>1, <1>6, <3>1 DEF Fits
    <3> QED
      BY <1>5, <3>1, <3>2, RouteKinds DEF SlotAt
  <2>3. CASE s # "list" /\ s \notin again
    <3>1. rest'[s] = rest[s] /\ loaded'[s] = loaded[s] /\ SlotAt(s)
          /\ (s \in Companies => chain'[s] = chain[s])
      BY <1>1, <2>3 DEF Base, TypeOK
    <3>2. CASE page = "login"
      <4>1. rest'[s] = <<>>
        BY <2>3, <3>1, <3>2, IdleSlots DEF LoginIdle
      <4> QED
        BY <2>3, <4>1, FreeFitsNext
    <3>3. CASE page # "login"
      BY <1>1, <1>3, <3>1, <3>3, Kept
    <3> QED
      BY <3>2, <3>3
  <2> QED
    BY <2>1, <2>2, <2>3
<1>9. OnlyDeleted' /\ SettledInv' /\ LoginIdle'
  BY <1>1 DEF OnlyDeleted, SettledInv, LoginIdle
<1>10. ("deletion" \notin cut => Blocked)'
  <2>1. CASE page = "login"
    <3>1. CASE deleted = {}
      BY <1>1, <3>1 DEF Blocked
    <3>2. CASE deleted # {}
      <4>1. PICK c \in deleted : TRUE
        BY <3>2
      <4>2. c \in Companies /\ c \in Slots /\ chain'[c] = AfterScrub
        BY <1>1, <1>4, <2>1, SlotKinds
      <4> QED
        BY <1>6, <4>2 DEF Blocked, Later, ToBlock
    <3> QED
      BY <3>1, <3>2
  <2>2. CASE page # "login"
    <3>1. (\A s \in Slots : rest'[s] = rest[s]) /\ \A c \in Companies : chain'[c] = chain[c]
      BY <1>1, <2>2
    <3> QED
      BY <1>1, <1>3, <2>2, <3>1 DEF Blocked, Later, Rewrites, ToBlock, Heads, Free
  <2> QED
    BY <2>1, <2>2
<1> QED
  BY <1>7, <1>8, <1>9, <1>10 DEF Base

(* A creation has no part in the blocklist.                                *)
LEMMA CreateSafe ==
  ASSUME SafeInv, NEW c \in Companies, CreateCompany(c)
  PROVE  SafeInv'
<1> USE DEF SafeInv
<1> DEFINE S == {"post", "create"}
<1>1. /\ Idle /\ page # "login" /\ created' = c /\ shown' = shown \cup {c}
      /\ rest' = [s \in Slots |-> IF s \in S THEN Program(IF s = "post" THEN "copy" ELSE "create")
                                  ELSE rest[s]]
      /\ loaded' = [s \in Slots |-> IF s \in S THEN shown' ELSE loaded[s]]
      /\ marked' = [s \in Slots |-> IF s \in S THEN {} ELSE marked[s]]
      /\ UNCHANGED <<main, blocklist, oneFile, copy, page, deleted, chain, kept, settled, cut, restarts>>
  BY DEF CreateCompany, Send, fileVars, histVars
<1>2. /\ Program("copy") = Rest("copy", 1) /\ 1 \in Places("copy") /\ Program("copy") \in Seq(Stretches)
      /\ Program("create") = Rest("create", 1) /\ 1 \in Places("create")
      /\ Program("create") \in Seq(Stretches)
  BY Begins, SlotKinds
<1>3. TypeOK'
  <2>1. shown' \subseteq Companies
    BY <1>1 DEF Base, TypeOK
  <2>2. rest' \in [Slots -> Seq(Stretches)]
    BY <1>1, <1>2 DEF Base, TypeOK
  <2>3. loaded' \in [Slots -> SUBSET Companies] /\ marked' \in [Slots -> SUBSET Companies]
    BY <1>1, <2>1 DEF Base, TypeOK
  <2> QED
    BY <1>1, <2>1, <2>2, <2>3 DEF Base, TypeOK
<1>4. ASSUME NEW s \in Slots PROVE SlotAt(s)'
  <2>1. CASE s = "post"
    <3>1. rest'[s] = Rest("copy", 1)
      BY <1>1, <1>2, <2>1
    <3>2. Fits(s, "copy", 1)' /\ "copy" \in Routes(s)
      BY <2>1, SlotKinds DEF Fits, Routes
    <3> QED
      BY <1>2, <3>1, <3>2 DEF SlotAt
  <2>2. CASE s = "create"
    <3>1. rest'[s] = Rest("create", 1)
      BY <1>1, <1>2, <2>2
    <3>2. Fits(s, "create", 1)' /\ "create" \in Routes(s)
      BY <1>1, <2>2 DEF Fits, Routes
    <3> QED
      BY <1>2, <3>1, <3>2 DEF SlotAt
  <2>3. CASE s = "list"
    <3>1. rest'[s] = rest[s] /\ loaded'[s] = loaded[s] /\ marked'[s] = marked[s] /\ SlotAt(s)
      BY <1>1, <2>3 DEF Base
    <3> QED
      BY <1>1, <2>3, <3>1, Kept
  <2>4. CASE s \in Companies
    <3>1. rest'[s] = <<>> /\ s # "list"
      BY <1>1, <2>4, IdleSlots, SlotKinds
    <3> QED
      BY <3>1, FreeFitsNext
  <2> QED
    BY <2>1, <2>2, <2>3, <2>4, SlotKinds
<1>5. OnlyDeleted' /\ SettledInv' /\ LoginIdle'
  BY <1>1 DEF OnlyDeleted, SettledInv, LoginIdle
<1>6. ("deletion" \notin cut => Blocked)'
  BY <1>1, IdleBlocked DEF Blocked
<1> QED
  BY <1>3, <1>4, <1>5, <1>6 DEF Base

(* A deletion sends the deleted ids, and again when it is answered.        *)
LEMMA DeleteSafe ==
  ASSUME SafeInv, NEW c \in Companies, DeleteCompany(c)
  PROVE  SafeInv'
<1> USE DEF SafeInv
<1> DEFINE S == {"post", c}
<1>1. /\ Idle /\ page # "login" /\ deleted' = deleted \cup {c} /\ settled' = {}
      /\ shown' = shown \ {c} /\ kept' = shown'
      /\ rest' = [s \in Slots |-> IF s \in S THEN Program(IF s = "post" THEN "blocklist" ELSE "delete")
                                  ELSE rest[s]]
      /\ loaded' = [s \in Slots |-> IF s \in S THEN {} ELSE loaded[s]]
      /\ marked' = [s \in Slots |-> IF s \in S THEN deleted' ELSE marked[s]]
      /\ chain' = [chain EXCEPT ![c] = AfterDelete]
      /\ UNCHANGED <<main, blocklist, oneFile, copy, page, created, cut, restarts>>
  BY DEF DeleteCompany, Send, fileVars
<1>2. /\ Program("blocklist") = Rest("blocklist", 1) /\ 1 \in Places("blocklist")
      /\ Program("blocklist") \in Seq(Stretches)
      /\ Program("delete") = Rest("delete", 1) /\ 1 \in Places("delete")
      /\ Program("delete") \in Seq(Stretches)
  BY Begins, SlotKinds
<1>3. AfterDelete # <<>> /\ Head(AfterDelete) = "blocklist"
      /\ AfterDelete \in Seq({"blocklist", "copy", "saveCompanies"})
  BY DEF AfterDelete
<1>4. chain'[c] = AfterDelete /\ chain' \in [Companies -> Seq({"blocklist", "copy", "saveCompanies"})]
      /\ c \in Slots
  BY <1>1, <1>3, SlotKinds DEF Base, TypeOK
<1>5. TypeOK'
  <2>1. shown' \subseteq Companies /\ deleted' \subseteq Companies
    BY <1>1 DEF Base, TypeOK
  <2>2. rest' \in [Slots -> Seq(Stretches)]
    BY <1>1, <1>2 DEF Base, TypeOK
  <2>3. loaded' \in [Slots -> SUBSET Companies] /\ marked' \in [Slots -> SUBSET Companies]
    BY <1>1, <2>1 DEF Base, TypeOK
  <2> QED
    BY <1>1, <1>4, <2>1, <2>2, <2>3 DEF Base, TypeOK
<1>6. ASSUME NEW s \in Slots PROVE SlotAt(s)'
  <2>1. CASE s = "post"
    <3>1. rest'[s] = Rest("blocklist", 1) /\ marked'[s] = deleted'
      BY <1>1, <1>2, <2>1
    <3>2. Fits(s, "blocklist", 1)' /\ "blocklist" \in Routes(s)
      BY <1>1, <2>1, <3>1 DEF Fits, Routes
    <3> QED
      BY <1>2, <3>1, <3>2 DEF SlotAt
  <2>2. CASE s = c
    <3>1. rest'[s] = Rest("delete", 1)
      BY <1>1, <1>2, <2>2, SlotKinds
    <3>2. Fits(s, "delete", 1)' /\ "delete" \in Routes(s)
      BY <1>1, <1>3, <1>4, <2>2, RouteKinds DEF Fits
    <3> QED
      BY <1>2, <3>1, <3>2 DEF SlotAt
  <2>3. CASE s = "list"
    <3>1. rest'[s] = rest[s] /\ loaded'[s] = loaded[s] /\ marked'[s] = marked[s] /\ SlotAt(s)
      BY <1>1, <2>3, SlotKinds DEF Base
    <3> QED
      BY <1>1, <2>3, <3>1, Kept
  <2>4. CASE s \notin {"post", c, "list"}
    <3>1. rest'[s] = <<>>
      BY <1>1, <2>4, IdleSlots
    <3> QED
      BY <2>4, <3>1, FreeFitsNext
  <2> QED
    BY <2>1, <2>2, <2>3, <2>4
<1>7. OnlyDeleted' /\ SettledInv' /\ LoginIdle'
  BY <1>1 DEF OnlyDeleted, SettledInv, LoginIdle
<1>8. Blocked'
  BY <1>3, <1>4 DEF Blocked, Later, ToBlock
<1> QED
  BY <1>5, <1>6, <1>7, <1>8 DEF Base

(* What the deletion sends next.                                           *)
LEMMA ChainSafe ==
  ASSUME SafeInv, NEW c \in Companies, ChainStep(c)
  PROVE  SafeInv'
<1> USE DEF SafeInv
<1>1. /\ chain[c] # <<>> /\ rest[c] = <<>> /\ chain' = [chain EXCEPT ![c] = Tail(@)]
      /\ UNCHANGED <<main, blocklist, oneFile, copy, created, page, deleted, settled, cut, restarts>>
      /\ c \in Slots /\ c # "list"
  BY SlotKinds DEF ChainStep, Free, fileVars, histVars
<1>2. PICK r \in {"blocklist", "copy"}, l \in SUBSET Companies, m \in SUBSET deleted :
        /\ rest'   = [s \in Slots |-> IF s = c THEN Program(r) ELSE rest[s]]
        /\ loaded' = [s \in Slots |-> IF s = c THEN l ELSE loaded[s]]
        /\ marked' = [s \in Slots |-> IF s = c THEN m ELSE marked[s]]
        /\ shown' \in {shown, kept} /\ kept' \in {kept, {}}
        /\ l \subseteq Companies /\ m \subseteq deleted
        /\ (r = "blocklist" => m = deleted)
        /\ (Head(chain[c]) = "blocklist" => r = "blocklist")
  <2>0. shown \subseteq Companies /\ kept \subseteq Companies
    BY DEF Base, TypeOK
  <2>1. CASE /\ Head(chain[c]) = "blocklist" /\ UNCHANGED <<shown, kept>>
             /\ Send({c}, [s \in {c} |-> "blocklist"], {}, deleted)
    <3>1. /\ rest'   = [s \in Slots |-> IF s = c THEN Program("blocklist") ELSE rest[s]]
          /\ loaded' = [s \in Slots |-> IF s = c THEN {} ELSE loaded[s]]
          /\ marked' = [s \in Slots |-> IF s = c THEN deleted ELSE marked[s]]
      BY <2>1 DEF Send
    <3> QED
      BY <2>0, <2>1, <3>1
  <2>2. CASE /\ Head(chain[c]) = "copy" /\ UNCHANGED <<shown, kept>>
             /\ Send({c}, [s \in {c} |-> "copy"], shown \ deleted, {})
    <3>1. /\ rest'   = [s \in Slots |-> IF s = c THEN Program("copy") ELSE rest[s]]
          /\ loaded' = [s \in Slots |-> IF s = c THEN shown \ deleted ELSE loaded[s]]
          /\ marked' = [s \in Slots |-> IF s = c THEN {} ELSE marked[s]]
      BY <2>2 DEF Send
    <3>2. shown \ deleted \subseteq Companies
      BY <2>0
    <3> QED
      BY <2>2, <3>1, <3>2
  <2>3. CASE /\ Head(chain[c]) = "saveCompanies" /\ shown' = kept /\ kept' = {}
             /\ Send({c}, [s \in {c} |-> "copy"], kept, {})
    <3>1. /\ rest'   = [s \in Slots |-> IF s = c THEN Program("copy") ELSE rest[s]]
          /\ loaded' = [s \in Slots |-> IF s = c THEN kept ELSE loaded[s]]
          /\ marked' = [s \in Slots |-> IF s = c THEN {} ELSE marked[s]]
      BY <2>3 DEF Send
    <3> QED
      BY <2>0, <2>3, <3>1
  <2> QED
    BY <2>1, <2>2, <2>3 DEF ChainStep
<1>3. /\ Program(r) = Rest(r, 1) /\ 1 \in Places(r) /\ Program(r) \in Seq(Stretches) /\ r \in Texts
      /\ r \in Routes(c)
  BY Begins, SlotKinds, RouteKinds
<1>4. TypeOK'
  <2>1. shown' \subseteq Companies /\ kept' \subseteq Companies /\ m \subseteq Companies
    BY <1>2 DEF Base, TypeOK
  <2>2. rest' \in [Slots -> Seq(Stretches)]
    BY <1>2, <1>3 DEF Base, TypeOK
  <2>3. loaded' \in [Slots -> SUBSET Companies] /\ marked' \in [Slots -> SUBSET Companies]
    BY <1>2, <2>1 DEF Base, TypeOK
  <2>4. chain' \in [Companies -> Seq({"blocklist", "copy", "saveCompanies"})]
    <3>1. chain \in [Companies -> Seq({"blocklist", "copy", "saveCompanies"})]
      BY DEF Base, TypeOK
    <3>2. Tail(chain[c]) \in Seq({"blocklist", "copy", "saveCompanies"})
      BY <1>1, <3>1, HeadTailProperties
    <3> QED
      BY <1>1, <3>1, <3>2
  <2> QED
    BY <1>1, <2>1, <2>2, <2>3, <2>4 DEF Base, TypeOK
<1>5. \A s \in Slots \ {c} : /\ rest'[s] = rest[s] /\ loaded'[s] = loaded[s]
                             /\ marked'[s] = marked[s] /\ (s \in Companies => chain'[s] = chain[s])
  BY <1>1, <1>2 DEF Base, TypeOK
<1>6. ASSUME NEW s \in Slots PROVE SlotAt(s)'
  <2>1. CASE s = c
    <3>1. rest'[s] = Rest(r, 1) /\ marked'[s] = m
      BY <1>1, <1>2, <1>3, <2>1
    <3>2. settled = {}
      BY <1>1 DEF SettledInv
    <3>3. Fits(s, r, 1)'
      BY <1>1, <1>2, <3>1, <3>2 DEF Fits
    <3> QED
      BY <1>3, <2>1, <3>1, <3>3 DEF SlotAt
  <2>2. CASE s # c
    BY <1>1, <1>5, <2>2, Kept DEF Base
  <2> QED
    BY <2>1, <2>2
<1>7. OnlyDeleted'
  <2>1. ASSUME NEW s \in Slots PROVE marked'[s] \subseteq deleted
    BY <1>2, <1>5 DEF OnlyDeleted
  <2> QED
    BY <1>1, <2>1 DEF OnlyDeleted
<1>8. SettledInv' /\ LoginIdle'
  BY <1>1 DEF SettledInv, LoginIdle, Idle
<1>9. Blocked => Blocked'
  <2>1. \A s \in Slots \ {c} : (Later(s) => Later(s)') /\ (Rewrites(s) => Rewrites(s)')
    BY <1>1, <1>5 DEF Later, Rewrites, ToBlock, Heads, Free
  <2>2. ~Rewrites(c) /\ (Later(c) => Head(chain[c]) = "blocklist")
    BY <1>1 DEF Rewrites, Later, ToBlock, Heads, Free
  <2>3. Head(chain[c]) = "blocklist" => Later(c)'
    <3> SUFFICES ASSUME Head(chain[c]) = "blocklist" PROVE Later(c)'
      OBVIOUS
    <3>1. rest'[c] = Rest("blocklist", 1) /\ marked'[c] = deleted
      BY <1>1, <1>2, <1>3
    <3>2. Rest("blocklist", 1) # <<>> /\ Head(Rest("blocklist", 1)) = "readNew"
      BY NextHeads
    <3> QED
      BY <1>1, <3>1, <3>2 DEF Later, Heads, Free
  <2> QED
    BY <1>1, <2>1, <2>2, <2>3 DEF Blocked
<1> QED
  BY <1>1, <1>4, <1>6, <1>7, <1>8, <1>9 DEF Base

(* A page that is loaded again leaves what was sent to the bridge, and is  *)
(* remembered in cut.                                                      *)
LEMMA ReloadSafe ==
  ASSUME SafeInv, Reload
  PROVE  SafeInv'
<1> USE DEF SafeInv
<1>1. /\ rest["list"] = <<>>
      /\ rest' = [s \in Slots |-> IF s = "list" THEN Program("list") ELSE rest[s]]
      /\ loaded' = [s \in Slots |-> IF s = "list" THEN {} ELSE loaded[s]]
      /\ marked' = [s \in Slots |-> IF s = "list" THEN {} ELSE marked[s]]
      /\ chain' = [c \in Companies |-> <<>>] /\ kept' = {} /\ page' = "loading"
      /\ settled' = {} /\ cut' = cut \cup {"deletion"} /\ restarts' = restarts + 1
      /\ UNCHANGED <<main, blocklist, oneFile, copy, created, shown, deleted>>
  BY DEF Reload, Send, Free, fileVars
<1>2. Program("list") = Rest("list", 1) /\ 1 \in Places("list") /\ Program("list") \in Seq(Stretches)
  BY Begins, SlotKinds
<1>3. TypeOK'
  <2>1. rest' \in [Slots -> Seq(Stretches)]
    BY <1>1, <1>2 DEF Base, TypeOK
  <2>2. chain' \in [Companies -> Seq({"blocklist", "copy", "saveCompanies"})]
    BY <1>1, EmptySeq
  <2>3. restarts' \in Nat /\ cut' \subseteq {"creation", "deletion"}
    BY <1>1 DEF Base, TypeOK
  <2> QED
    BY <1>1, <2>1, <2>2, <2>3 DEF Base, TypeOK
<1>4. SlotAt("list")'
  <2>1. Fits("list", "list", 1)'
    BY DEF Fits
  <2>2. rest'["list"] = Rest("list", 1)
    BY <1>1, <1>2, SlotKinds
  <2> QED
    BY <1>2, <2>1, <2>2, RouteKinds DEF SlotAt
<1>5. ASSUME NEW s \in Slots \ {"list"} PROVE SlotAt(s)'
  <2>1. rest'[s] = rest[s] /\ loaded'[s] = loaded[s] /\ marked'[s] = marked[s] /\ SlotAt(s)
    BY <1>1 DEF Base
  <2> QED
    BY <1>1, <2>1, Kept
<1>6. OnlyDeleted' /\ SettledInv' /\ LoginIdle'
  BY <1>1 DEF OnlyDeleted, SettledInv, LoginIdle
<1> QED
  BY <1>1, <1>3, <1>4, <1>5, <1>6 DEF Base

(* A crash leaves the deletions to the browser, or is remembered in cut.   *)
LEMMA CrashSafe ==
  ASSUME SafeInv, Crash
  PROVE  SafeInv'
<1> USE DEF SafeInv
<1>1. /\ rest' = [s \in Slots |-> <<>>] /\ loaded' = [s \in Slots |-> {}]
      /\ marked' = [s \in Slots |-> {}] /\ page' = "quiet" /\ settled' = {}
      /\ chain' \in {chain, [c \in Companies |-> <<>>]} /\ restarts' = restarts + 1
      /\ cut' = IF Idle THEN cut ELSE {"creation", "deletion"}
      /\ UNCHANGED <<main, blocklist, oneFile, copy, created, shown, deleted, kept>>
  BY DEF Crash, fileVars
<1>2. TypeOK'
  <2>1. <<>> \in Seq(Stretches) /\ <<>> \in Seq({"blocklist", "copy", "saveCompanies"})
    BY EmptySeq
  <2>2. chain' \in [Companies -> Seq({"blocklist", "copy", "saveCompanies"})]
    BY <1>1, <2>1 DEF Base, TypeOK
  <2>3. restarts' \in Nat /\ cut' \subseteq {"creation", "deletion"}
    BY <1>1 DEF Base, TypeOK
  <2>4. rest' \in [Slots -> Seq(Stretches)]
    BY <1>1, <2>1
  <2> QED
    BY <1>1, <2>2, <2>3, <2>4 DEF Base, TypeOK
<1>3. \A s \in Slots : SlotAt(s)'
  BY <1>1, FreeFitsNext
<1>4. OnlyDeleted' /\ SettledInv' /\ LoginIdle'
  BY <1>1 DEF OnlyDeleted, SettledInv, LoginIdle
<1>5. ("deletion" \notin cut => Blocked)'
  BY <1>1, IdleBlocked DEF Blocked
<1> QED
  BY <1>2, <1>3, <1>4, <1>5 DEF Base

(* SafeInv is inductive.                                                   *)
LEMMA SafeStep == SafeInv /\ [Next]_vars => SafeInv'
<1> SUFFICES ASSUME SafeInv, [Next]_vars PROVE SafeInv'
  OBVIOUS
<1>1. ASSUME NEW s \in Slots, Step(s) PROVE SafeInv'
  BY <1>1, StretchBase, StretchBlock DEF SafeInv, OnlyDeleted, SettledInv
<1>2. CASE UNCHANGED vars
  <2>1. /\ UNCHANGED <<main, blocklist, oneFile, copy, rest, loaded, marked, created, page>>
        /\ UNCHANGED <<shown, deleted, chain, kept, settled, cut, restarts>>
    BY <1>2 DEF vars, fileVars, requestVars, browserVars, histVars
  <2>2. TypeOK'
    BY <2>1 DEF SafeInv, Base, TypeOK
  <2>3. \A s \in Slots : SlotAt(s)'
    BY <2>1 DEF SafeInv, Base, SlotAt, Fits
  <2>4. LoginIdle' /\ OnlyDeleted' /\ SettledInv'
    BY <2>1 DEF SafeInv, LoginIdle, OnlyDeleted, SettledInv, Read, Idle, Free
  <2>5. ("deletion" \notin cut => Blocked)'
    BY <2>1 DEF SafeInv, Blocked, Later, Rewrites, ToBlock, Heads, Free, Read
  <2> QED
    BY <2>2, <2>3, <2>4, <2>5 DEF SafeInv, Base
<1> QED
  BY <1>1, <1>2, AskSafe, NoAnswerSafe, AnswerSafe, CreateSafe, DeleteSafe, ChainSafe, ReloadSafe,
     CrashSafe
  DEF Next

(* It holds at the start.                                                  *)
LEMMA SafeStarts == Init => SafeInv
<1> SUFFICES ASSUME Init PROVE SafeInv
  OBVIOUS
<1>1. TypeOK
  BY BoundAssumption, EmptySeq DEF Init, TypeOK, File, Files
<1>2. \A s \in Slots : SlotAt(s)
  BY FreeFits DEF Init
<1>3. LoginIdle /\ OnlyDeleted /\ SettledInv /\ Blocked
  BY DEF Init, LoginIdle, OnlyDeleted, SettledInv, Blocked, File, Read
<1> QED
  BY <1>1, <1>2, <1>3 DEF SafeInv, Base

(* Type correctness: whatever requests, answers and crashes interleave,    *)
(* the files, the requests and the lists of the browser stay in their      *)
(* types.                                                                  *)
THEOREM Types == Spec => []TypeOK
  BY SafeStarts, SafeStep, PTL DEF Spec, SafeInv, Base

(* With nothing under way, no load of the registry, in                     *)
(* _load_companies, lists a company the user deleted, though threads of    *)
(* the bridge save stale dictionaries and the blocklist is found empty or  *)
(* torn in between; unless a crash or a page loaded in the middle of it    *)
(* cut a deletion short.                                                   *)
THEOREM DeletedAreAway == Spec => []DeletedStayAway
<1>1. SafeInv => DeletedStayAway
  BY IdleBlocked DEF SafeInv, DeletedStayAway, NextListing
<1> QED
  BY <1>1, SafeStarts, SafeStep, PTL DEF Spec

(* A listing neither answers with nor saves a company whose deletion was   *)
(* over when it began, whatever other copies _load_companies merges in.    *)
THEOREM NothingComesBack == Spec => []NoResurrection
<1>1. SafeInv => NoResurrection
  <2> SUFFICES ASSUME SafeInv, Free("list") \/ Head(rest["list"]) \notin {"readMain", "filter"}
               PROVE  loaded["list"] \cap settled = {}
    BY DEF NoResurrection
  <2>1. PICK i \in Places("list") : rest["list"] = Rest("list", i) /\ Fits("list", "list", i)
    BY RouteKinds, SlotKinds DEF SafeInv, Base, SlotAt
  <2>2. i \in Nat /\ i # 1 /\ i # 2
    <3>1. "list" \in Texts /\ 1 \in 1 .. Length("list") /\ 2 \in 1 .. Length("list")
      BY DEF Texts, Length
    <3>2. /\ Rest("list", 1) # <<>> /\ Head(Rest("list", 1)) = "readMain"
          /\ Rest("list", 2) # <<>> /\ Head(Rest("list", 2)) = "filter"
      BY <3>1, RestGoesOn, ListText
    <3> QED
      BY <2>1, <3>2 DEF Free, Places
  <2> QED
    BY <2>1, <2>2 DEF Fits, Places
<1> QED
  BY <1>1, SafeStarts, SafeStep, PTL DEF Spec

-----------------------------------------------------------------------------
(* What the user sees is in the copy that the browser posts, or the post   *)
(* is under way and has it.  That takes that no two posts with different   *)
(* lists overlap: only one slot sends them (Solo), or, after a login, all  *)
(* of them have the list that is shown (Scrub).                            *)
Copying(s) == Heads(s, "openCopy") \/ Heads(s, "writeCopy")
Ours == shown \cup deleted \cup Old
Saves(c) == \E i \in DOMAIN chain[c] : chain[c][i] = "saveCompanies"

Apart == shown \cap deleted = {} /\ kept \cap deleted = {}
FromPage == /\ Read(main) \subseteq Ours /\ Read(copy) \subseteq Ours
            /\ \A s \in Slots : loaded[s] \subseteq Ours
            /\ created \in Ours \cup {NoCompany}
KeptInv == /\ \A c, d \in Companies : Saves(c) /\ Saves(d) => c = d
           /\ \A c \in Companies : \A i \in DOMAIN chain[c] :
                 chain[c][i] = "saveCompanies" => i = Len(chain[c])
           /\ \A c \in Companies : Saves(c) => /\ shown \subseteq kept \cup Old
                                               /\ kept \subseteq shown \cup Old
SoloOf(w) == \A s \in Slots \ {w} : ~Copying(s) /\ (s \in Companies => chain[s] = <<>>)
Solo == \E w \in Slots : SoloOf(w)
Scrub == /\ \A c \in Companies : ~Saves(c)
         /\ \A s, u \in Slots : Copying(s) /\ Copying(u) => loaded[s] = loaded[u]
         /\ \/ \A c \in Companies : chain[c] = <<>>
            \/ page = "quiet" /\ \A s \in Slots : Copying(s) => loaded[s] = shown
InCopy == \/ shown \ Old \subseteq Read(copy)
          \/ \E s \in Slots : Heads(s, "openCopy")
          \/ copy = Opened /\ \E s \in Slots : Heads(s, "writeCopy")
CopyInv == /\ Solo \/ Scrub
           /\ \A s \in Slots : Copying(s) => shown \ Old \subseteq loaded[s]
           /\ \A s \in Slots : Heads(s, "writeCopy") => copy \in {Opened, File(loaded[s])}
           /\ InCopy

PageInv == FromPage /\ KeptInv /\ CopyInv
ShownInv == Apart /\ ("creation" \notin cut /\ ~oneFile => PageInv)

(* A copy is opened, and then written, with the same list. *)
LEMMA OpenCopyDoes ==
  ASSUME Base, NEW s \in Slots, OpenCopy(s), ~oneFile
  PROVE  /\ Heads(s, "openCopy") /\ copy' = Opened
         /\ Heads(s, "writeCopy")' /\ loaded'[s] = loaded[s]
<1>1. Heads(s, "openCopy")
  BY DEF OpenCopy, At, Heads
<1>2. PICK r \in Routes(s) : \E i \in Places(r) :
         /\ rest[s] = Rest(r, i) /\ Fits(s, r, i)
         /\ i \in 1 .. Length(r) /\ Place("openCopy", r, i) /\ r \in Texts
         /\ Tail(rest[s]) = Rest(r, i + 1) /\ i + 1 \in Places(r)
  BY <1>1, Found
<1>3. r = "copy" /\ Tail(rest[s]) = Rest(r, 1 + 1)
  BY <1>2 DEF Place
<1>3a. Tail(rest[s]) = Rest("copy", 2)
  BY <1>3
<1>4. Tail(rest[s]) # <<>> /\ Head(Tail(rest[s])) = "writeCopy"
  BY <1>3a, NextHeads
<1> QED
  BY <1>1, <1>4 DEF OpenCopy, Go, GoesTo, Heads, Free, Base, TypeOK

(* Only the opening of a copy leaves one to write.                         *)
LEMMA CopyGoesOn ==
  ASSUME Base, NEW s \in Slots, Step(s), Copying(s)'
  PROVE  OpenCopy(s)
<1>1. PICK r \in Routes(s) : \E i \in Places(r) : rest[s] = Rest(r, i) /\ Fits(s, r, i)
  BY DEF Base, SlotAt
<1>2. PICK i \in Places(r) : rest[s] = Rest(r, i) /\ Fits(s, r, i)
  BY <1>1
<1>3. ~Free(s)
  BY DEF Step, ReadMain, Filter, Merge, OpenMain, WriteMain, Add, Drop, DropIds,
         ReadIds, ReadNew, OpenIds, WriteIds, OpenCopy, WriteCopy, At
<1>4. /\ i \in 1 .. Length(r) /\ Place(Head(rest[s]), r, i) /\ r \in Texts
      /\ Tail(rest[s]) = Rest(r, i + 1) /\ i + 1 \in Places(r)
  BY <1>2, <1>3, Located
<1>5. rest'[s] # <<>> /\ Head(rest'[s]) \in {"openCopy", "writeCopy"}
  BY DEF Copying, Heads, Free
<1>6. ASSUME NEW j \in Places(r), rest'[s] = Rest(r, j)
      PROVE  j \in 1 .. Length(r) /\ Place(Head(rest'[s]), r, j)
  <2>1. Length(r) \in Nat /\ Rest(r, Length(r) + 1) = <<>>
    BY <1>4, LengthType, RestEnds
  <2>2. j \in 1 .. Length(r)
    BY <1>5, <1>6, <2>1 DEF Places
  <2> QED
    BY <1>4, <1>6, <2>2, RestGoesOn, Placed
<1>7. \/ rest'[s] = Tail(rest[s]) \/ rest'[s] = <<>>
      \/ Heads(s, "merge") /\ rest'[s] = SubSeq(rest[s], 4, Len(rest[s]))
  <2>0. \A q, S, M : GoesTo(s, q, S, M) => rest'[s] = q
    BY DEF GoesTo, Base, TypeOK
  <2>1. CASE Merge(s)
    BY <2>0, <2>1 DEF Merge, Go, Skip, At, Heads
  <2>2. CASE Drop(s) \/ DropIds(s) \/ ReadNew(s)
    BY <2>0, <2>2 DEF Drop, DropIds, ReadNew, Go, End
  <2>3. CASE ~(Merge(s) \/ Drop(s) \/ DropIds(s) \/ ReadNew(s))
    BY <2>0, <2>3 DEF Step, ReadMain, Filter, OpenMain, WriteMain, Add, ReadIds, OpenIds, WriteIds,
                OpenCopy, WriteCopy, Go
  <2> QED
    BY <2>1, <2>2, <2>3
<1>8. CASE rest'[s] = Tail(rest[s])
  <2>1. Place(Head(rest'[s]), r, i + 1)
    BY <1>4, <1>6, <1>8
  <2>2. r = "copy" /\ i = 1
    BY <1>4, <1>5, <2>1 DEF Place
  <2>3. Head(rest[s]) = "openCopy"
    <3>1. "copy" \in Texts /\ 1 \in 1 .. Length("copy")
      BY DEF Texts, Length
    <3>2. Head(Rest("copy", 1)) = Program("copy")[1]
      BY <3>1, RestGoesOn
    <3>3. rest[s] = Rest("copy", 1)
      BY <1>2, <2>2
    <3> QED
      BY <3>2, <3>3, CopyText
  <2> QED
    BY <2>3 DEF Step, ReadMain, Filter, Merge, OpenMain, WriteMain, Add, Drop, DropIds,
                ReadIds, ReadNew, OpenIds, WriteIds, WriteCopy, At
<1>9. CASE Heads(s, "merge") /\ rest'[s] = SubSeq(rest[s], 4, Len(rest[s]))
  <2>1. r \in Loading /\ i = 3
    BY <1>4, <1>9 DEF Place, Heads
  <2>2. rest'[s] = Rest(r, 6) /\ 6 \in Places(r)
    BY <1>2, <1>9, <2>1, RestSkips DEF Places, Length, Loading
  <2>3. Place(Head(rest'[s]), r, 6)
    BY <1>6, <2>2
  <2> QED
    BY <1>5, <2>1, <2>3 DEF Place, Loading
<1> QED
  BY <1>5, <1>7, <1>8, <1>9

(* No listing posts a copy. *)
LEMMA ListNeverCopies == ASSUME Base PROVE ~Copying("list")
<1> SUFFICES ASSUME NEW x, x \in {"openCopy", "writeCopy"}, Heads("list", x) PROVE FALSE
  BY DEF Copying
<1>1. \E i : Place(x, "list", i)
  BY Found, RouteKinds, SlotKinds
<1> QED
  BY <1>1 DEF Place

(* An empty chain sends nothing.                                           *)
LEMMA NothingIn == DOMAIN <<>> = {}
  BY SMT

(* With nothing under way, nobody posts a copy.                            *)
LEMMA IdleCopies ==
  ASSUME Base, Idle
  PROVE  /\ \A s \in Slots : ~Copying(s)
         /\ \A c \in Companies : ~Saves(c)
         /\ InCopy => shown \ Old \subseteq Read(copy)
<1>1. \A s \in Slots : ~Copying(s)
  BY IdleSlots, ListNeverCopies DEF Copying, Heads, Free
<1>2. \A c \in Companies : ~Saves(c)
  <2>1. \A c \in Companies : chain[c] = <<>>
    BY IdleSlots
  <2> QED
    BY <2>1, NothingIn DEF Saves
<1> QED
  BY <1>1, <1>2 DEF InCopy, Copying

(* Stretches keep it. *)
LEMMA StretchFromPage ==
  ASSUME Base, Base', FromPage, NEW s \in Slots, Step(s)
  PROVE  FromPage'
<1>0. /\ \A u \in Slots \ {s} : loaded'[u] = loaded[u]
      /\ UNCHANGED <<created, shown, deleted>>
  BY OthersStay DEF Base
<1>1. Ours' = Ours
  BY <1>0 DEF Ours
<1>2. /\ loaded \in [Slots -> SUBSET Companies] /\ loaded'[s] \subseteq Companies
  BY DEF Base, TypeOK
<1>3. loaded[s] \subseteq Ours /\ Read(main) \subseteq Ours /\ Read(copy) \subseteq Ours
      /\ Old \subseteq Ours /\ created \in Ours \cup {NoCompany}
  BY DEF FromPage, Ours
<1>4. NoCompany \notin Companies
  BY CompaniesAssumption
<1>5. \A q, S, M : GoesTo(s, q, S, M) => loaded'[s] \in {S, {}}
  BY <1>2 DEF GoesTo
<1>6. loaded'[s] \subseteq Ours
  <2>1. CASE Merge(s)
    BY <1>3, <1>5, <2>1 DEF Merge, Go, Skip, Elsewhere
  <2>2. CASE Drop(s) \/ DropIds(s) \/ ReadNew(s)
    BY <1>3, <1>5, <2>2 DEF Drop, DropIds, ReadNew, Go, End
  <2>3. CASE Add(s)
    <3>1. loaded'[s] \subseteq loaded[s] \cup {created}
      BY <1>5, <2>3 DEF Add, Go
    <3> QED
      BY <1>2, <1>3, <1>4, <3>1
  <2>4. CASE ReadMain(s) \/ Filter(s)
    BY <1>3, <1>5, <2>4 DEF ReadMain, Filter, Go
  <2>5. CASE OpenMain(s) \/ WriteMain(s) \/ ReadIds(s) \/ OpenIds(s) \/ WriteIds(s)
             \/ OpenCopy(s) \/ WriteCopy(s)
    BY <1>3, <1>5, <2>5 DEF OpenMain, WriteMain, ReadIds, OpenIds, WriteIds, OpenCopy, WriteCopy, Go
  <2> QED
    BY <2>1, <2>2, <2>3, <2>4, <2>5 DEF Step
<1>7. \A f : \A g \in Written(f, loaded[s]) : Read(g) \subseteq Ours
  BY <1>3 DEF Written, File, Mixed, Read
<1>8. Read(Opened) \subseteq Ours
  BY DEF Read, Opened
<1>9. Read(main') \subseteq Ours /\ Read(copy') \subseteq Ours
  <2>1. CASE OpenMain(s) \/ WriteMain(s)
    BY <1>3, <1>7, <1>8, <2>1 DEF OpenMain, WriteMain
  <2>2. CASE OpenCopy(s) \/ WriteCopy(s)
    <3>1. main' \in {main, Opened} \cup Written(main, loaded[s])
          /\ copy' \in {copy, Opened} \cup Written(copy, loaded[s])
      BY <2>2 DEF OpenCopy, WriteCopy
    <3> QED
      BY <1>3, <1>7, <1>8, <3>1
  <2>3. CASE OpenIds(s) \/ WriteIds(s)
    BY <1>3, <2>3 DEF OpenIds, WriteIds
  <2>4. CASE ~(OpenMain(s) \/ WriteMain(s) \/ OpenCopy(s) \/ WriteCopy(s) \/ OpenIds(s) \/ WriteIds(s))
    <3>1. main' = main /\ copy' = copy
      BY <2>4 DEF Step, ReadMain, Filter, Merge, Add, Drop, DropIds, ReadIds, ReadNew, fileVars
    <3> QED
      BY <1>3, <3>1
  <2> QED
    BY <2>1, <2>2, <2>3, <2>4
<1>10. \A u \in Slots : loaded'[u] \subseteq Ours
  BY <1>0, <1>6 DEF FromPage
<1>11. Read(main)' = Read(main') /\ Read(copy)' = Read(copy')
  BY DEF Read
<1> QED
  BY <1>0, <1>1, <1>3, <1>9, <1>10, <1>11 DEF FromPage

(* A post that writes the copy writes what is shown.                       *)
LEMMA StretchCopy ==
  ASSUME Base, CopyInv, NEW s \in Slots, Step(s), ~oneFile
  PROVE  CopyInv'
<1>0. /\ \A u \in Slots \ {s} : rest'[u] = rest[u] /\ loaded'[u] = loaded[u]
      /\ UNCHANGED <<created, page, shown, deleted, chain, kept, settled, cut, restarts>>
  BY OthersStay DEF Base
<1>1. \A u \in Slots \ {s} : \A x : Heads(u, x)' <=> Heads(u, x)
  BY <1>0 DEF Heads, Free
<1>2. Copying(s)' => OpenCopy(s) /\ Copying(s) /\ loaded'[s] = loaded[s]
  BY CopyGoesOn, OpenCopyDoes DEF Copying
<1>3. \A u \in Slots : Copying(u)' => Copying(u) /\ loaded'[u] = loaded[u]
  BY <1>0, <1>1, <1>2 DEF Copying
<1>4. (Solo \/ Scrub)'
  <2>1. ASSUME NEW w \in Slots, SoloOf(w) PROVE SoloOf(w)'
    BY <1>0, <1>3, <2>1 DEF SoloOf
  <2>2. Scrub => Scrub'
    BY <1>0, <1>3 DEF Scrub, Saves
  <2> QED
    BY <2>1, <2>2 DEF CopyInv, Solo
<1>5. (\A u \in Slots : Copying(u) => shown \ Old \subseteq loaded[u])'
  BY <1>0, <1>3 DEF CopyInv
<1>6. CASE OpenCopy(s)
  <2>1. copy' = Opened /\ Heads(s, "writeCopy")'
    BY <1>6, OpenCopyDoes
  <2> QED
    BY <1>4, <1>5, <2>1 DEF CopyInv, InCopy
<1>7. CASE WriteCopy(s)
  <2>1. Heads(s, "writeCopy") /\ Copying(s) /\ ~Copying(s)'
    BY <1>2, <1>7 DEF WriteCopy, OpenCopy, At, Heads, Copying
  <2>2. copy \in {Opened, File(loaded[s])} /\ shown \ Old \subseteq loaded[s]
    BY <2>1 DEF CopyInv
  <2>3. copy' = File(loaded[s])
    BY <1>7, <2>2 DEF WriteCopy, Written
  <2>4. InCopy'
    BY <1>0, <2>2, <2>3 DEF InCopy, Read, File
  <2>5. ASSUME NEW u \in Slots, Heads(u, "writeCopy")' PROVE copy' = File(loaded'[u])
    <3>1. u # s /\ Copying(u) /\ loaded'[u] = loaded[u]
      BY <1>3, <2>1, <2>5 DEF Copying
    <3>2. CASE Solo
      BY <2>1, <3>1, <3>2 DEF Solo, SoloOf
    <3>3. CASE Scrub
      BY <2>1, <2>3, <3>1, <3>3 DEF Scrub
    <3> QED
      BY <3>2, <3>3 DEF CopyInv
  <2> QED
    BY <1>4, <1>5, <2>4, <2>5 DEF CopyInv
<1>8. CASE ~(OpenCopy(s) \/ WriteCopy(s))
  <2>1. copy' = copy /\ ~Copying(s)
    BY <1>8 DEF Step, ReadMain, Filter, Merge, OpenMain, WriteMain, Add, Drop, DropIds,
                ReadIds, ReadNew, OpenIds, WriteIds, At, Copying, Heads, fileVars
  <2>2. ~Copying(s)'
    BY <1>2, <2>1
  <2>3. InCopy'
    BY <1>0, <1>1, <2>1 DEF CopyInv, InCopy, Copying
  <2>4. (\A u \in Slots : Heads(u, "writeCopy") => copy \in {Opened, File(loaded[u])})'
    BY <1>0, <1>1, <2>1, <2>2 DEF CopyInv, Copying
  <2> QED
    BY <1>4, <1>5, <2>3, <2>4 DEF CopyInv
<1> QED
  BY <1>6, <1>7, <1>8

(* A stretch of a request keeps ShownInv.                                  *)
LEMMA StretchShown ==
  ASSUME SafeInv, SafeInv', ShownInv, NEW s \in Slots, Step(s)
  PROVE  ShownInv'
<1>1. UNCHANGED <<created, page, shown, deleted, chain, kept, settled, cut, restarts>>
  BY OthersStay DEF SafeInv, Base
<1>2. Apart'
  BY <1>1 DEF ShownInv, Apart
<1>3. KeptInv => KeptInv'
  BY <1>1 DEF KeptInv, Saves
<1> QED
  BY <1>1, <1>2, <1>3, PlaceStays, StretchFromPage, StretchCopy DEF ShownInv, PageInv, SafeInv

-----------------------------------------------------------------------------
(* Requests that begin and end keep it.                                    *)
LEMMA FirstHeads ==
  ASSUME NEW r \in Texts
  PROVE  /\ Program(r) # <<>>
         /\ r = "copy" => Head(Program(r)) = "openCopy"
         /\ r # "copy" => Head(Program(r)) \notin {"openCopy", "writeCopy"}
<1>1. 1 \in 1 .. Length(r)
  BY LengthType
<1>2. Program(r) # <<>> /\ Head(Program(r)) = Program(r)[1]
  BY <1>1, RestGoesOn, RestStarts
<1> QED
  BY <1>2, ListText, CreateText, DeleteText, BlocklistText, CopyText DEF Texts

(* While nobody posts a copy, the one there is must have what is shown.    *)
LEMMA NoCopiesNext ==
  ASSUME \A s \in Slots : ~Copying(s)', Solo' \/ Scrub',
         shown' \ Old \subseteq Read(copy)'
  PROVE  CopyInv'
  BY DEF CopyInv, InCopy, Copying

(* A listing that begins posts nothing.                                    *)
LEMMA AskShown ==
  ASSUME SafeInv, ShownInv, NEW reason \in {"loading", "login"}, Ask(reason)
  PROVE  ShownInv'
<1>1. /\ rest' = [s \in Slots |-> IF s = "list" THEN Program("list") ELSE rest[s]]
      /\ loaded' = [s \in Slots |-> IF s = "list" THEN {} ELSE loaded[s]]
      /\ UNCHANGED <<main, oneFile, copy, created, shown, deleted, chain, kept, cut>> /\ Idle
  BY DEF Ask, Send, fileVars
<1>2. Apart'
  BY <1>1 DEF ShownInv, Apart
<1> SUFFICES ASSUME "creation" \notin cut, ~oneFile PROVE PageInv'
  BY <1>1, <1>2 DEF ShownInv
<1>3. FromPage' /\ KeptInv'
  <2>1. FromPage /\ KeptInv
    BY DEF ShownInv, PageInv
  <2>2. \A s \in Slots : loaded'[s] \subseteq loaded[s]
    BY <1>1
  <2> QED
    BY <1>1, <2>1, <2>2 DEF FromPage, KeptInv, Ours, Saves, Read
<1>4. /\ \A s \in Slots : ~Copying(s)
      /\ shown \ Old \subseteq Read(copy) /\ \A c \in Companies : chain[c] = <<>>
  BY <1>1, IdleCopies, IdleSlots DEF SafeInv, ShownInv, PageInv, CopyInv
<1>5. \A s \in Slots : ~Copying(s)'
  BY <1>1, <1>4, FirstHeads, SlotKinds DEF Copying, Heads, Free
<1>6. Solo'
  BY <1>1, <1>4, <1>5, SlotKinds DEF Solo, SoloOf
<1>7. shown' \ Old \subseteq Read(copy)'
  BY <1>1, <1>4 DEF Read
<1> QED
  BY <1>3, <1>5, <1>6, <1>7, NoCopiesNext DEF PageInv

(* One that ends without an answer leaves what is shown.                   *)
LEMMA NoAnswerShown ==
  ASSUME SafeInv, ShownInv, NoAnswer
  PROVE  ShownInv'
<1>1. /\ page # "quiet" /\ page' = "quiet"
      /\ loaded' = [loaded EXCEPT !["list"] = {}]
      /\ UNCHANGED <<main, oneFile, copy, rest, created, shown, deleted, chain, kept, cut>>
  BY DEF NoAnswer, fileVars
<1>2. Apart'
  BY <1>1 DEF ShownInv, Apart
<1> SUFFICES ASSUME "creation" \notin cut, ~oneFile PROVE PageInv'
  BY <1>1, <1>2 DEF ShownInv
<1>3. \A s \in Slots : loaded'[s] \subseteq loaded[s] /\ (s # "list" => loaded'[s] = loaded[s])
  BY <1>1 DEF SafeInv, Base, TypeOK
<1>4. FromPage' /\ KeptInv'
  BY <1>1, <1>3 DEF ShownInv, PageInv, FromPage, KeptInv, Ours, Saves, Read
<1>5. \A s \in Slots : \A x : Heads(s, x)' <=> Heads(s, x)
  BY <1>1 DEF Heads, Free
<1>6. \A s \in Slots : Copying(s)' => Copying(s) /\ loaded'[s] = loaded[s]
  BY <1>3, <1>5, ListNeverCopies DEF Copying, SafeInv
<1>7. (Solo \/ Scrub)'
  <2>1. ASSUME NEW w \in Slots, SoloOf(w) PROVE SoloOf(w)'
    BY <1>1, <1>6, <2>1 DEF SoloOf
  <2>2. Scrub => Scrub'
    BY <1>1, <1>6 DEF Scrub, Saves
  <2> QED
    BY <2>1, <2>2 DEF ShownInv, PageInv, CopyInv, Solo
<1>8. CopyInv'
  <2>1. CopyInv
    BY DEF ShownInv, PageInv
  <2>2. InCopy'
    BY <1>1, <1>5, <2>1 DEF CopyInv, InCopy, Read
  <2>3. (\A s \in Slots : Copying(s) => shown \ Old \subseteq loaded[s])'
    BY <1>1, <1>6, <2>1 DEF CopyInv
  <2>4. (\A s \in Slots : Heads(s, "writeCopy") => copy \in {Opened, File(loaded[s])})'
    BY <1>1, <1>5, <1>6, <2>1 DEF CopyInv, Copying
  <2> QED
    BY <1>7, <2>2, <2>3, <2>4 DEF CopyInv
<1> QED
  BY <1>4, <1>8 DEF PageInv

(* An answer that does not drop what is shown adds nothing but older       *)
(* companies to it.                                                        *)
LEMMA AnswerShown ==
  ASSUME SafeInv, ShownInv, Answer
  PROVE  ShownInv'
<1> DEFINE again == IF page = "login" THEN deleted ELSE {}
<1>1. /\ page # "quiet" /\ page' = "quiet"
      /\ loaded' = [loaded EXCEPT !["list"] = {}]
      /\ rest'  = [s \in Slots |-> IF s \in again THEN Program("delete") ELSE rest[s]]
      /\ chain' = [c \in Companies |-> IF c \in again THEN AfterScrub ELSE chain[c]]
      /\ shown' \in {shown, loaded["list"] \ deleted}
      /\ UNCHANGED <<main, oneFile, copy, created, deleted, kept>>
  BY DEF Answer, fileVars
<1>2. Apart'
  BY <1>1 DEF ShownInv, Apart
<1> SUFFICES ASSUME "creation" \notin cut', ~oneFile PROVE PageInv'
  BY <1>1, <1>2 DEF ShownInv
<1>3. "creation" \notin cut /\ shown \subseteq shown'
  BY DEF Answer
<1>4. FromPage /\ KeptInv /\ CopyInv /\ Apart
  BY <1>3 DEF ShownInv, PageInv
<1>5. shown' \subseteq shown \cup Old
  BY <1>1, <1>4, SlotKinds DEF FromPage, Ours
<1>6. Ours \subseteq Ours'
  BY <1>1, <1>3 DEF Ours
<1>7. \A s \in Slots : loaded'[s] \subseteq loaded[s] /\ (s # "list" => loaded'[s] = loaded[s])
  BY <1>1 DEF SafeInv, Base, TypeOK
<1>8. FromPage'
  BY <1>1, <1>4, <1>6, <1>7 DEF FromPage, Read
<1>9. \A c \in Companies : \A i \in DOMAIN AfterScrub : AfterScrub[i] # "saveCompanies"
  BY DEF AfterScrub
<1>10. \A c \in Companies : c \in again \/ chain'[c] = chain[c]
  BY <1>1
<1>11. \A c \in Companies : c \in again => chain'[c] = AfterScrub
  BY <1>1
<1> HIDE DEF again
<1>12. \A c \in Companies : Saves(c)' => Saves(c) /\ chain'[c] = chain[c]
  BY <1>9, <1>10, <1>11 DEF Saves
<1>13. KeptInv'
  <2>1. \A c, d \in Companies : Saves(c)' /\ Saves(d)' => c = d
    BY <1>4, <1>12 DEF KeptInv
  <2>2. ASSUME NEW c \in Companies, NEW i \in DOMAIN chain'[c], chain'[c][i] = "saveCompanies"
        PROVE  i = Len(chain'[c])
    <3>1. chain'[c] = chain[c]
      BY <1>12, <2>2 DEF Saves
    <3> QED
      BY <1>4, <2>2, <3>1 DEF KeptInv
  <2>3. \A c \in Companies : Saves(c)' => shown' \subseteq kept' \cup Old /\ kept' \subseteq shown' \cup Old
    BY <1>1, <1>3, <1>4, <1>5, <1>12 DEF KeptInv
  <2> QED
    BY <2>1, <2>2, <2>3 DEF KeptInv
<1>14. CASE page = "login"
  <2>1. Idle
    BY <1>14 DEF SafeInv, LoginIdle
  <2>2. /\ \A s \in Slots : ~Copying(s)
        /\ \A c \in Companies : ~Saves(c)
        /\ shown \ Old \subseteq Read(copy)
    BY <1>4, <2>1, IdleCopies DEF SafeInv, CopyInv
  <2>3. \A s \in Slots : rest'[s] \in {rest[s], Program("delete")}
    BY <1>1
  <2>4. \A s \in Slots : ~Copying(s)'
    <3>1. Program("delete") # <<>> /\ Head(Program("delete")) \notin {"openCopy", "writeCopy"}
      BY FirstHeads, SlotKinds
    <3> QED
      BY <2>2, <2>3, <3>1 DEF Copying, Heads, Free
  <2>5. Scrub'
    BY <1>1, <1>12, <2>2, <2>4 DEF Scrub
  <2>6. shown' \ Old \subseteq Read(copy)'
    BY <1>1, <1>5, <2>2 DEF Read
  <2> QED
    BY <1>8, <1>13, <2>4, <2>5, <2>6, NoCopiesNext DEF PageInv
<1>15. CASE page # "login"
  <2>1. (\A s \in Slots : rest'[s] = rest[s]) /\ \A c \in Companies : chain'[c] = chain[c]
    BY <1>1, <1>15 DEF again
  <2>2. \A s \in Slots : \A x : Heads(s, x)' <=> Heads(s, x)
    BY <2>1 DEF Heads, Free
  <2>3. \A s \in Slots : Copying(s)' => Copying(s) /\ loaded'[s] = loaded[s]
    BY <1>7, <2>2, ListNeverCopies DEF Copying, SafeInv
  <2>4. ASSUME NEW w \in Slots, SoloOf(w) PROVE SoloOf(w)'
    BY <2>1, <2>3, <2>4 DEF SoloOf
  <2>4a. Scrub => Scrub'
    BY <1>1, <1>12, <2>1, <2>3 DEF Scrub
  <2>5. (Solo \/ Scrub)'
    BY <1>4, <2>4, <2>4a DEF CopyInv, Solo
  <2>6. InCopy'
    BY <1>1, <1>4, <1>5, <2>2 DEF CopyInv, InCopy, Read
  <2>7. (\A s \in Slots : Copying(s) => shown \ Old \subseteq loaded[s])'
    BY <1>4, <1>5, <2>3 DEF CopyInv
  <2>8. (\A s \in Slots : Heads(s, "writeCopy") => copy \in {Opened, File(loaded[s])})'
    BY <1>1, <1>4, <2>2, <2>3 DEF CopyInv, Copying
  <2> QED
    BY <1>8, <1>13, <2>5, <2>6, <2>7, <2>8 DEF PageInv, CopyInv
<1> QED
  BY <1>14, <1>15

(* What is created is posted at once. *)
LEMMA CreateShown ==
  ASSUME SafeInv, ShownInv, NEW c \in Companies, CreateCompany(c)
  PROVE  ShownInv'
<1>1. /\ Idle /\ c \notin deleted /\ created' = c /\ shown' = shown \cup {c}
      /\ rest' = [s \in Slots |-> IF s \in {"post", "create"}
                                  THEN Program(IF s = "post" THEN "copy" ELSE "create")
                                  ELSE rest[s]]
      /\ loaded' = [s \in Slots |-> IF s \in {"post", "create"} THEN shown' ELSE loaded[s]]
      /\ UNCHANGED <<main, oneFile, copy, deleted, chain, kept, cut>>
  BY DEF CreateCompany, Send, fileVars, histVars
<1>2. Apart'
  BY <1>1 DEF ShownInv, Apart
<1> SUFFICES ASSUME "creation" \notin cut, ~oneFile PROVE PageInv'
  BY <1>1, <1>2 DEF ShownInv
<1>3. FromPage /\ KeptInv /\ CopyInv
  BY DEF ShownInv, PageInv
<1>4. /\ \A s \in Slots : ~Copying(s) /\ \A d \in Companies : ~Saves(d)
      /\ \A d \in Companies : chain[d] = <<>>
  BY <1>1, IdleCopies, IdleSlots DEF SafeInv
<1>5. FromPage'
  <2>1. Ours' = Ours \cup {c}
    BY <1>1 DEF Ours
  <2>2. \A s \in Slots : loaded'[s] \subseteq Ours'
    BY <1>1, <1>3, <2>1 DEF FromPage, Ours
  <2> QED
    BY <1>1, <1>3, <2>1, <2>2 DEF FromPage, Read
<1>6. \A d \in Companies : ~Saves(d)'
  BY <1>1, <1>4 DEF Saves
<1>7. KeptInv'
  BY <1>1, <1>3, <1>6 DEF KeptInv
<1>8. /\ rest'["post"] = Program("copy") /\ loaded'["post"] = shown'
      /\ \A s \in Slots \ {"post"} : rest'[s] \in {rest[s], Program("create")}
  BY <1>1, SlotKinds
<1>9. Heads("post", "openCopy")' /\ \A s \in Slots \ {"post"} : ~Copying(s)'
  BY <1>4, <1>8, FirstHeads, SlotKinds DEF Copying, Heads, Free
<1>10. ~Heads("post", "writeCopy")'
  BY <1>9 DEF Heads
<1>11. Solo'
  BY <1>1, <1>4, <1>9, SlotKinds DEF Solo, SoloOf
<1>12. CopyInv'
  BY <1>8, <1>9, <1>10, <1>11, SlotKinds DEF CopyInv, InCopy, Copying
<1> QED
  BY <1>5, <1>7, <1>12 DEF PageInv

(* A deletion posts the list when the bridge has answered. *)
LEMMA DeleteShown ==
  ASSUME SafeInv, ShownInv, NEW c \in Companies, DeleteCompany(c)
  PROVE  ShownInv'
<1>1. /\ Idle /\ c \in shown /\ deleted' = deleted \cup {c}
      /\ shown' = shown \ {c} /\ kept' = shown'
      /\ rest' = [s \in Slots |-> IF s \in {"post", c}
                                  THEN Program(IF s = "post" THEN "blocklist" ELSE "delete")
                                  ELSE rest[s]]
      /\ loaded' = [s \in Slots |-> IF s \in {"post", c} THEN {} ELSE loaded[s]]
      /\ chain' = [chain EXCEPT ![c] = AfterDelete]
      /\ UNCHANGED <<main, oneFile, copy, created, cut>>
  BY DEF DeleteCompany, Send, fileVars
<1>2. Apart'
  BY <1>1 DEF ShownInv, Apart
<1> SUFFICES ASSUME "creation" \notin cut, ~oneFile PROVE PageInv'
  BY <1>1, <1>2 DEF ShownInv
<1>3. FromPage /\ KeptInv /\ CopyInv
  BY DEF ShownInv, PageInv
<1>4. /\ \A s \in Slots : ~Copying(s) /\ \A d \in Companies : ~Saves(d)
      /\ \A d \in Companies : chain[d] = <<>>
      /\ shown \ Old \subseteq Read(copy)
  BY <1>1, <1>3, IdleCopies, IdleSlots DEF SafeInv, CopyInv
<1>5. FromPage'
  <2>1. Ours' = Ours
    BY <1>1 DEF Ours
  <2>2. \A s \in Slots : loaded'[s] \subseteq loaded[s]
    BY <1>1
  <2> QED
    BY <1>1, <1>3, <2>1, <2>2 DEF FromPage, Read
<1>6. /\ chain'[c] = AfterDelete /\ \A d \in Companies \ {c} : chain'[d] = chain[d]
  BY <1>1 DEF SafeInv, Base, TypeOK
<1>7. \A d \in Companies \ {c} : ~Saves(d)'
  BY <1>4, <1>6 DEF Saves
<1>8. \A i \in DOMAIN AfterDelete : AfterDelete[i] = "saveCompanies" => i = Len(AfterDelete)
  BY DEF AfterDelete
<1>9. KeptInv'
  <2>1. ASSUME NEW d \in Companies, NEW i \in DOMAIN chain'[d], chain'[d][i] = "saveCompanies"
        PROVE  i = Len(chain'[d])
    <3>1. d = c
      BY <1>7, <2>1 DEF Saves
    <3> QED
      BY <1>6, <1>8, <2>1, <3>1
  <2> QED
    BY <1>1, <1>7, <2>1 DEF KeptInv
<1>10. \A s \in Slots : rest'[s] \in {rest[s], Program("delete"), Program("blocklist")}
  BY <1>1
<1>11. \A s \in Slots : ~Copying(s)'
  BY <1>4, <1>10, FirstHeads, SlotKinds DEF Copying, Heads, Free
<1>12. Solo'
  <2>1. c \in Slots
    BY SlotKinds
  <2> QED
    BY <1>4, <1>6, <1>11, <2>1 DEF Solo, SoloOf
<1>13. shown' \ Old \subseteq Read(copy)'
  BY <1>1, <1>4 DEF Read
<1> QED
  BY <1>5, <1>9, <1>11, <1>12, <1>13, NoCopiesNext DEF PageInv

(* The places of a tail.                                                   *)
LEMMA TailOf ==
  ASSUME NEW S, NEW q \in Seq(S), q # <<>>
  PROVE  /\ Len(q) \in Nat /\ Len(Tail(q)) = Len(q) - 1
         /\ DOMAIN Tail(q) = 1 .. (Len(q) - 1)
         /\ \A i \in DOMAIN Tail(q) : i + 1 \in DOMAIN q /\ Tail(q)[i] = q[i + 1]
<1>1. /\ Len(q) \in Nat \ {0} /\ DOMAIN q = 1 .. Len(q)
      /\ Tail(q) \in Seq(S) /\ Len(Tail(q)) = Len(q) - 1
      /\ \A i \in 1 .. Len(Tail(q)) : Tail(q)[i] = q[i + 1]
  BY EmptySeq, LenProperties, HeadTailProperties
<1>2. DOMAIN Tail(q) = 1 .. Len(Tail(q))
  BY <1>1, LenProperties
<1> QED
  BY <1>1, <1>2

(* What a deletion sends: the list as it is shown, and at the end the list *)
(* from before the other deletions and creations, of which there are none. *)
LEMMA ChainShown ==
  ASSUME SafeInv, ShownInv, NEW c \in Companies, ChainStep(c)
  PROVE  ShownInv'
<1>1. /\ chain[c] # <<>> /\ rest[c] = <<>> /\ chain' = [chain EXCEPT ![c] = Tail(@)]
      /\ UNCHANGED <<main, oneFile, copy, created, page, deleted, cut>>
      /\ c \in Slots /\ c # "list"
  BY SlotKinds DEF ChainStep, Free, fileVars, histVars
<1>2. chain[c] \in Seq({"blocklist", "copy", "saveCompanies"})
  BY DEF SafeInv, Base, TypeOK
<1>3. /\ chain'[c] = Tail(chain[c]) /\ \A d \in Companies \ {c} : chain'[d] = chain[d]
  BY <1>1 DEF SafeInv, Base, TypeOK
<1>4. /\ \A i \in DOMAIN chain'[c] : /\ i + 1 \in DOMAIN chain[c]
                                     /\ chain'[c][i] = chain[c][i + 1]
      /\ Len(chain[c]) \in Nat /\ Len(chain'[c]) = Len(chain[c]) - 1
      /\ DOMAIN chain'[c] = 1 .. (Len(chain[c]) - 1)
  <2>1. chain[c] # <<>>
    BY <1>1
  <2>2. /\ Len(chain[c]) \in Nat /\ Len(Tail(chain[c])) = Len(chain[c]) - 1
        /\ DOMAIN Tail(chain[c]) = 1 .. (Len(chain[c]) - 1)
        /\ \A i \in DOMAIN Tail(chain[c]) : /\ i + 1 \in DOMAIN chain[c]
                                            /\ Tail(chain[c])[i] = chain[c][i + 1]
    BY <1>2, <2>1, TailOf
  <2> QED
    BY <1>3, <2>2
<1>5. \A d \in Companies : Saves(d)' => Saves(d)
  BY <1>3, <1>4 DEF Saves
<1>6. Apart'
  BY <1>1 DEF ShownInv, Apart, ChainStep
<1> SUFFICES ASSUME "creation" \notin cut, ~oneFile PROVE PageInv'
  BY <1>1, <1>6 DEF ShownInv
<1>7. FromPage /\ KeptInv /\ CopyInv /\ Apart
  BY DEF ShownInv, PageInv
<1>8. \A d \in Companies : \A i \in DOMAIN chain'[d] :
        chain'[d][i] = "saveCompanies" => i = Len(chain'[d])
  <2> SUFFICES ASSUME NEW d \in Companies, NEW i \in DOMAIN chain'[d],
                      chain'[d][i] = "saveCompanies"
               PROVE  i = Len(chain'[d])
    OBVIOUS
  <2>1. CASE d = c
    <3>1. i + 1 \in DOMAIN chain[c] /\ chain[c][i + 1] = "saveCompanies"
      BY <1>4, <2>1
    <3>2. i + 1 = Len(chain[c])
      BY <1>7, <3>1 DEF KeptInv
    <3>3. i \in Nat
      BY <1>4, <2>1
    <3> QED
      BY <1>4, <2>1, <3>2, <3>3
  <2>2. CASE d # c
    BY <1>3, <1>7, <2>2 DEF KeptInv
  <2> QED
    BY <2>1, <2>2
<1>9. ASSUME NEW r \in Texts, NEW l, UNCHANGED <<shown, kept>>, l \subseteq Ours, NEW m,
             r = "copy" => l = shown, r \in {"blocklist", "copy"}, Send({c}, [s \in {c} |-> r], l, m)
      PROVE  PageInv'
  <2>1. /\ rest' = [s \in Slots |-> IF s = c THEN Program(r) ELSE rest[s]]
        /\ loaded' = [s \in Slots |-> IF s = c THEN l ELSE loaded[s]]
    BY <1>9 DEF Send
  <2>2. FromPage'
    <3>1. \A s \in Slots : loaded'[s] \subseteq Ours
      BY <1>7, <1>9, <2>1 DEF FromPage
    <3>2. Ours' = Ours
      BY <1>1, <1>9 DEF Ours
    <3> QED
      BY <1>1, <1>7, <3>1, <3>2 DEF FromPage, Read
  <2>3. KeptInv'
    BY <1>5, <1>7, <1>8, <1>9 DEF KeptInv
  <2>4. /\ rest'[c] = Program(r) /\ loaded'[c] = l
        /\ \A s \in Slots \ {c} : rest'[s] = rest[s] /\ loaded'[s] = loaded[s]
    BY <1>1, <2>1
  <2>5. \A s \in Slots \ {c} : \A x : Heads(s, x)' <=> Heads(s, x)
    BY <2>4 DEF Heads, Free
  <2>6. /\ \A s \in Slots \ {c} : Copying(s)' <=> Copying(s)
        /\ ~Copying(c)
    BY <1>1, <2>5 DEF Copying, Heads, Free
  <2>7. Copying(c)' => r = "copy" /\ Heads(c, "openCopy")' /\ ~Heads(c, "writeCopy")'
    BY <1>9, <2>4, FirstHeads DEF Copying, Heads, Free
  <2>8. (Solo \/ Scrub)'
    <3>1. CASE Solo
      <4>1. PICK w \in Slots : SoloOf(w)
        BY <3>1 DEF Solo
      <4>2. w = c
        BY <1>1, <4>1 DEF SoloOf
      <4>3. SoloOf(c)'
        BY <1>3, <2>6, <4>1, <4>2 DEF SoloOf
      <4> QED
        BY <1>1, <4>3 DEF Solo
    <3>2. CASE Scrub
      BY <1>1, <1>5, <1>9, <2>4, <2>6, <2>7, <3>2 DEF Scrub
    <3> QED
      BY <1>7, <3>1, <3>2 DEF CopyInv
  <2>9. (\A s \in Slots : Copying(s) => shown \ Old \subseteq loaded[s])'
    BY <1>7, <1>9, <2>4, <2>6, <2>7 DEF CopyInv
  <2>10. (\A s \in Slots : Heads(s, "writeCopy") => copy \in {Opened, File(loaded[s])})'
    BY <1>1, <1>7, <2>4, <2>5, <2>7 DEF CopyInv, Copying
  <2>11. InCopy'
    BY <1>1, <1>7, <1>9, <2>5, <2>6 DEF CopyInv, InCopy, Read, Copying
  <2> QED
    BY <2>2, <2>3, <2>8, <2>9, <2>10, <2>11 DEF PageInv, CopyInv
<1>10. CASE /\ Head(chain[c]) = "blocklist" /\ UNCHANGED <<shown, kept>>
            /\ Send({c}, [s \in {c} |-> "blocklist"], {}, deleted)
  BY <1>9, <1>10, SlotKinds
<1>11. CASE /\ Head(chain[c]) = "copy" /\ UNCHANGED <<shown, kept>>
            /\ Send({c}, [s \in {c} |-> "copy"], shown \ deleted, {})
  <2>1. shown \ deleted = shown /\ shown \subseteq Ours
    BY <1>7 DEF Apart, Ours
  <2> QED
    BY <1>9, <1>11, <2>1, SlotKinds
<1>12. CASE /\ Head(chain[c]) = "saveCompanies" /\ shown' = kept /\ kept' = {}
            /\ Send({c}, [s \in {c} |-> "copy"], kept, {})
  <2>1. 1 \in DOMAIN chain[c] /\ chain[c][1] = "saveCompanies"
    <3>1. Len(chain[c]) # 0 /\ DOMAIN chain[c] = 1 .. Len(chain[c]) /\ Head(chain[c]) = chain[c][1]
      BY <1>1, <1>2
    <3> QED
      BY <1>4, <1>12, <3>1
  <2>2. Saves(c) /\ Len(chain[c]) = 1
    BY <1>7, <2>1 DEF Saves, KeptInv
  <2>3. shown \subseteq kept \cup Old /\ kept \subseteq shown \cup Old
    BY <1>7, <2>2 DEF KeptInv
  <2>4. \A d \in Companies : ~Saves(d)'
    <3>1. DOMAIN chain'[c] = {}
      BY <1>4, <2>2
    <3> QED
      BY <1>5, <1>7, <2>2, <3>1 DEF Saves, KeptInv
  <2>5. KeptInv'
    BY <1>8, <2>4 DEF KeptInv
  <2>6. /\ rest' = [s \in Slots |-> IF s = c THEN Program("copy") ELSE rest[s]]
        /\ loaded' = [s \in Slots |-> IF s = c THEN kept ELSE loaded[s]]
    BY <1>12 DEF Send
  <2>7. /\ rest'[c] = Program("copy") /\ loaded'[c] = shown'
        /\ \A s \in Slots \ {c} : rest'[s] = rest[s] /\ loaded'[s] = loaded[s]
    BY <1>1, <1>12, <2>6
  <2>8. Ours \subseteq Ours' /\ shown' \subseteq Ours'
    BY <1>1, <1>12, <2>3 DEF Ours
  <2>9. FromPage'
    <3>1. \A s \in Slots : loaded'[s] \subseteq Ours'
      BY <1>7, <2>7, <2>8 DEF FromPage
    <3> QED
      BY <1>1, <1>7, <2>8, <3>1 DEF FromPage, Read
  <2>10. SoloOf(c)
    <3>1. PICK w \in Slots : SoloOf(w)
      BY <1>7, <2>2 DEF CopyInv, Scrub, Solo
    <3>2. w = c
      BY <1>1, <3>1 DEF SoloOf
    <3> QED
      BY <3>1, <3>2
  <2>11. \A s \in Slots \ {c} : ~Copying(s)' /\ (s \in Companies => chain'[s] = <<>>)
    BY <1>3, <2>7, <2>10 DEF SoloOf, Copying, Heads, Free
  <2>12. Heads(c, "openCopy")' /\ ~Heads(c, "writeCopy")'
    BY <2>7, FirstHeads, SlotKinds DEF Heads, Free
  <2>13. Solo'
    BY <1>1, <2>11 DEF Solo, SoloOf
  <2>14. CopyInv'
    BY <1>1, <2>7, <2>11, <2>12, <2>13 DEF CopyInv, InCopy, Copying
  <2> QED
    BY <2>5, <2>9, <2>14 DEF PageInv
<1> QED
  BY <1>10, <1>11, <1>12 DEF ChainStep

(* A page loaded again sends no further copies: those under way have one   *)
(* list.                                                                   *)
LEMMA ReloadShown ==
  ASSUME SafeInv, ShownInv, Reload
  PROVE  ShownInv'
<1>1. /\ rest' = [s \in Slots |-> IF s = "list" THEN Program("list") ELSE rest[s]]
      /\ loaded' = [s \in Slots |-> IF s = "list" THEN {} ELSE loaded[s]]
      /\ chain' = [c \in Companies |-> <<>>] /\ kept' = {}
      /\ cut' = cut \cup {"deletion"}
      /\ UNCHANGED <<main, oneFile, copy, created, shown, deleted>>
  BY DEF Reload, Send, fileVars
<1>2. Apart'
  BY <1>1 DEF ShownInv, Apart
<1> SUFFICES ASSUME "creation" \notin cut, ~oneFile PROVE PageInv'
  BY <1>1, <1>2 DEF ShownInv
<1>3. FromPage /\ KeptInv /\ CopyInv
  BY DEF ShownInv, PageInv
<1>4. FromPage'
  <2>1. \A s \in Slots : loaded'[s] \subseteq loaded[s]
    BY <1>1
  <2> QED
    BY <1>1, <1>3, <2>1 DEF FromPage, Ours, Read
<1>5. \A c \in Companies : chain'[c] = <<>>
  BY <1>1
<1>6. \A c \in Companies : ~Saves(c)'
  BY <1>5, NothingIn DEF Saves
<1>7. KeptInv'
  BY <1>5, <1>6, NothingIn DEF KeptInv
<1>8. \A s \in Slots \ {"list"} : loaded'[s] = loaded[s] /\ \A x : Heads(s, x)' <=> Heads(s, x)
  BY <1>1 DEF Heads, Free
<1>9. ~Copying("list")' /\ ~Copying("list")
  <2>1. rest'["list"] = Program("list")
    BY <1>1, SlotKinds
  <2> QED
    BY <2>1, FirstHeads, SlotKinds, ListNeverCopies DEF Copying, Heads, Free, SafeInv
<1>10. \A s \in Slots : /\ Copying(s)' => Copying(s) /\ loaded'[s] = loaded[s]
                        /\ Heads(s, "openCopy")' <=> Heads(s, "openCopy")
                        /\ Heads(s, "writeCopy")' <=> Heads(s, "writeCopy")
  BY <1>8, <1>9 DEF Copying
<1>11. (Solo \/ Scrub)'
  <2>1. ASSUME NEW w \in Slots, SoloOf(w) PROVE SoloOf(w)'
    BY <1>5, <1>10, <2>1 DEF SoloOf
  <2>2. Scrub => Scrub'
    BY <1>5, <1>6, <1>10 DEF Scrub
  <2> QED
    BY <1>3, <2>1, <2>2 DEF CopyInv, Solo
<1>12. InCopy'
  BY <1>1, <1>3, <1>10 DEF CopyInv, InCopy, Read
<1>13. (\A s \in Slots : Copying(s) => shown \ Old \subseteq loaded[s])'
  BY <1>1, <1>3, <1>10 DEF CopyInv
<1>14. (\A s \in Slots : Heads(s, "writeCopy") => copy \in {Opened, File(loaded[s])})'
  BY <1>1, <1>3, <1>10 DEF CopyInv, Copying
<1> QED
  BY <1>4, <1>7, <1>11, <1>12, <1>13, <1>14 DEF PageInv, CopyInv

(* A crash that cuts nothing short finds the copy written.                 *)
LEMMA CrashShown ==
  ASSUME SafeInv, ShownInv, Crash
  PROVE  ShownInv'
<1>1. /\ rest' = [s \in Slots |-> <<>>] /\ loaded' = [s \in Slots |-> {}]
      /\ chain' \in {chain, [c \in Companies |-> <<>>]}
      /\ cut' = IF Idle THEN cut ELSE {"creation", "deletion"}
      /\ UNCHANGED <<main, oneFile, copy, created, shown, deleted, kept>>
  BY DEF Crash, fileVars
<1>2. Apart'
  BY <1>1 DEF ShownInv, Apart
<1> SUFFICES ASSUME "creation" \notin cut', ~oneFile PROVE PageInv'
  BY <1>1, <1>2 DEF ShownInv
<1>3. Idle /\ "creation" \notin cut
  BY <1>1
<1>4. FromPage /\ KeptInv /\ CopyInv
  BY <1>3 DEF ShownInv, PageInv
<1>5. FromPage'
  BY <1>1, <1>4 DEF FromPage, Ours, Read
<1>6. /\ \A c \in Companies : chain[c] = <<>>
      /\ shown \ Old \subseteq Read(copy)
  BY <1>3, <1>4, IdleCopies, IdleSlots DEF SafeInv, CopyInv
<1>7. \A c \in Companies : chain'[c] = <<>>
  BY <1>1, <1>6
<1>8. KeptInv'
  BY <1>7, NothingIn DEF KeptInv, Saves
<1>9. \A s \in Slots : ~Copying(s)'
  BY <1>1 DEF Copying, Heads, Free
<1>10. Solo'
  BY <1>7, <1>9, SlotKinds DEF Solo, SoloOf
<1>11. shown' \ Old \subseteq Read(copy)'
  BY <1>1, <1>6 DEF Read
<1> QED
  BY <1>5, <1>8, <1>9, <1>10, <1>11, NoCopiesNext DEF PageInv

(* ShownInv is inductive.                                                  *)
LEMMA ShownStep == SafeInv /\ SafeInv' /\ ShownInv /\ [Next]_vars => ShownInv'
<1> SUFFICES ASSUME SafeInv, SafeInv', ShownInv, [Next]_vars PROVE ShownInv'
  OBVIOUS
<1>1. ASSUME NEW s \in Slots, Step(s) PROVE ShownInv'
  BY <1>1, StretchShown
<1>2. CASE UNCHANGED vars
  <2>1. UNCHANGED <<main, oneFile, copy, rest, loaded, created, page, shown, deleted, chain, kept, cut>>
    BY <1>2 DEF vars, fileVars, requestVars, browserVars, histVars
  <2>2. \A s \in Slots : \A x : Heads(s, x)' <=> Heads(s, x)
    BY <2>1 DEF Heads, Free
  <2>3. \A s \in Slots : Copying(s)' <=> Copying(s)
    BY <2>2 DEF Copying
  <2>4. Apart' <=> Apart
    BY <2>1 DEF Apart
  <2>5. FromPage => FromPage'
    BY <2>1 DEF FromPage, Ours, Read
  <2>6. KeptInv => KeptInv'
    BY <2>1 DEF KeptInv, Saves
  <2>7. Solo \/ Scrub => Solo' \/ Scrub'
    BY <2>1, <2>3 DEF Solo, SoloOf, Scrub, Saves
  <2>8. CopyInv => CopyInv'
    BY <2>1, <2>2, <2>3, <2>7 DEF CopyInv, InCopy, Read
  <2> QED
    BY <2>1, <2>4, <2>5, <2>6, <2>8 DEF ShownInv, PageInv
<1> QED
  BY <1>1, <1>2, AskShown, NoAnswerShown, AnswerShown, CreateShown, DeleteShown, ChainShown,
     ReloadShown, CrashShown
  DEF Next

(* It holds at the start.                                                  *)
LEMMA ShownStarts == Init => ShownInv
<1> SUFFICES ASSUME Init PROVE ShownInv
  OBVIOUS
<1>1. Apart /\ FromPage
  BY DEF Init, Apart, FromPage, Ours, Read, File
<1>2. \A c \in Companies : chain[c] = <<>>
  BY DEF Init
<1>3. KeptInv
  BY <1>2, NothingIn DEF KeptInv, Saves
<1>4. \A s \in Slots : ~Copying(s)
  BY DEF Init, Copying, Heads, Free
<1>5. Solo
  BY <1>2, <1>4, SlotKinds DEF Solo, SoloOf
<1>6. CopyInv
  BY <1>4, <1>5 DEF CopyInv, InCopy, Copying, Init, File, Read
<1> QED
  BY <1>1, <1>3, <1>6 DEF ShownInv, PageInv

(* With nothing under way, every company the user sees is in what the next *)
(* load of the registry lists: the copy that POST /data/save writes in the *)
(* project's directory has it, or an older build does, and the blocklist   *)
(* has not; unless a crash or a page load undid the change.                *)
THEOREM ShownStayListed == Spec => []ShownAreListed
<1>1. SafeInv /\ ShownInv => ShownAreListed
  <2> SUFFICES ASSUME SafeInv, ShownInv, Idle, ~oneFile, "creation" \notin cut
               PROVE  shown \subseteq NextListing
    BY DEF ShownAreListed
  <2>1. shown \ Old \subseteq Read(copy)
    BY IdleCopies DEF SafeInv, ShownInv, PageInv, CopyInv
  <2>2. shown \cap Read(blocklist) = {}
    BY DEF SafeInv, OnlyDeleted, ShownInv, Apart
  <2> QED
    BY <2>1, <2>2 DEF NextListing, Elsewhere
<1>2. Init => SafeInv /\ ShownInv
  BY SafeStarts, ShownStarts
<1>3. SafeInv /\ ShownInv /\ [Next]_vars => (SafeInv /\ ShownInv)'
  BY SafeStep, ShownStep
<1> QED
  BY <1>1, <1>2, <1>3, PTL DEF Spec

=============================================================================
