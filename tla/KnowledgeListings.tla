------------------------- MODULE KnowledgeListings -------------------------
(***************************************************************************)
(* Lemmas for KnowledgeProofs: where a run goes next, what a page of a     *)
(* listing shows, and what one writer's step does to the listings and      *)
(* scans of the others.                                                    *)
(***************************************************************************)
EXTENDS Knowledge, SequenceTheorems, FiniteSetTheorems, TLAPS

(* Least of a finite, nonempty set of numbers is its least member: of the  *)
(* sets {j \in S : j <= i} one is minimal.                                 *)
LEMMA LeastIsLeast ==
  ASSUME NEW S \in SUBSET Nat, IsFiniteSet(S), S # {}
  PROVE  Least(S) \in S /\ \A k \in S : Least(S) <= k
<1> DEFINE down(i) == {j \in S : j <= i}
           D == {down(i) : i \in S}
           R == StrictSubsetOrdering(S)
<1>1. IsWellFoundedOn(R, FiniteSubsetsOf(S))
  BY FS_StrictSubsetOrderingWellFounded
<1>2. D \subseteq FiniteSubsetsOf(S) /\ D # {}
  <2>1. \A i \in S : down(i) \in SUBSET S /\ IsFiniteSet(down(i))
    BY FS_Subset
  <2>2. QED BY <2>1 DEF FiniteSubsetsOf
<1>3. \E x \in D : \A y \in D : ~(<<y, x>> \in R)
  <2> HIDE DEF D, R
  <2>1. QED BY <1>1, <1>2, WFMin
<1>4. PICK i \in S : \A y \in D : ~(<<y, down(i)>> \in R)
  BY <1>3
<1>5. \A k \in S : i <= k
  <2> SUFFICES ASSUME NEW k \in S, ~(i <= k) PROVE FALSE
    OBVIOUS
  <2>0. i \in Nat /\ k \in Nat /\ k < i
    OBVIOUS
  <2>1. down(k) \in SUBSET S /\ down(i) \in SUBSET S /\ down(k) \subseteq down(i)
    <3>1. \A j \in S : j \in Nat /\ (j <= k => j <= i)
      BY <2>0
    <3>2. QED BY <3>1
  <2>2. i \in down(i) /\ i \notin down(k)
    BY <2>0
  <2>3. down(k) \in D
    OBVIOUS
  <2> HIDE DEF down, D
  <2>4. <<down(k), down(i)>> \in R
    BY <2>1, <2>2 DEF StrictSubsetOrdering
  <2>5. QED BY <1>4, <2>3, <2>4
<1>6. QED BY <1>5 DEF Least

(* Strata are finitely many numbers.                                       *)
LEMMA StrataAreNumbers ==
  Strata \in SUBSET Nat /\ IsFiniteSet(Strata)
<1>1. StratumOf \in Surjection(Rules, Strata)
  BY InferAssumption DEF Strata, Surjection
<1>2. QED BY <1>1, FS_Surjection, InferAssumption DEF Strata

(* Where a run goes next is a rule it has yet to fire, or home.            *)
Planned == [mode : {"run"}, fire : SUBSET Rules, rule : Nat, spent : Nat, news : BOOLEAN,
            at : {"match", "existing", "upsert"}, hop : Nat, seen : SUBSET Facts,
            found : SUBSET Ground]

(* ... at the first page of its first input.                               *)
Starting == {m \in Run : m.at = "match" /\ m.hop = 1 /\ m.seen = {} /\ m.found = {}}

(* A stratum is entered at one of its rules, or skipped.                   *)
LEMMA EnteredIsRun ==
  ASSUME NEW run \in Planned, NEW s \in Nat, NEW spent \in Nat
  PROVE  Entered(run, s, spent) \in {NULL} \cup Starting
<1>1. Fired(run, s) \in SUBSET Rules /\ IsFiniteSet(Fired(run, s))
  BY FS_Subset, InferAssumption DEF Fired, Planned
<1>2. Fired(run, s) # {} => Least(Fired(run, s)) \in Rules
  BY <1>1, LeastIsLeast, InferAssumption
<1>3. QED BY <1>2 DEF Entered, Run, Planned, Starting

(* The next stratum is one of a run, or the run is over.                   *)
LEMMA NextStratumIsRun ==
  ASSUME NEW run \in Planned, NEW s \in Nat
  PROVE  NextStratum(run, s) \in {NULL} \cup Starting
<1> DEFINE firing == {t \in Later(run, s) : Fired(run, t) # {}}
           passed == {t \in Later(run, s) : t <= Least(firing)}
<1>1. CASE firing = {}
  BY <1>1 DEF NextStratum
<1>2. CASE firing # {}
  <2>1. /\ firing \in SUBSET Nat /\ IsFiniteSet(firing)
        /\ passed \in SUBSET Nat /\ IsFiniteSet(passed)
    <3>1. firing \in SUBSET Strata /\ passed \in SUBSET Strata
      BY DEF Later
    <3>2. QED BY <3>1, StrataAreNumbers, FS_Subset
  <2>2. Least(firing) \in Nat
    BY <1>2, <2>1, LeastIsLeast
  <2>3. run.spent + Cardinality(passed) \in Nat
    <3>1. Cardinality(passed) \in Nat
      BY <2>1, FS_CardinalityType
    <3>2. QED BY <3>1 DEF Planned
  <2>4. NextStratum(run, s) = Entered(run, Least(firing), run.spent + Cardinality(passed))
    BY <1>2 DEF NextStratum
  <2> HIDE DEF firing, passed
  <2>5. QED BY <2>2, <2>3, <2>4, EnteredIsRun
<1>3. QED BY <1>1, <1>2

(* After a rule comes the next one, another pass, the next stratum or the  *)
(* end.                                                                    *)
LEMMA AfterRuleIsRun ==
  ASSUME NEW run \in Run, NEW news \in BOOLEAN
  PROVE  AfterRule(run, news) \in {NULL} \cup Starting
<1> DEFINE s    == StratumOf[run.rule]
           rest == {r \in Fired(run, s) : r > run.rule}
<1>1. run \in Planned /\ s \in Nat /\ run.spent + 1 \in Nat
  <2>1. /\ run.mode = "run" /\ run.fire \in SUBSET Rules /\ run.rule \in Rules
        /\ run.spent \in Nat
    BY DEF Run
  <2>2. s \in Nat /\ run.spent + 1 \in Nat
    <3>1. StratumOf \in [Rules -> Nat]
      BY InferAssumption
    <3>2. s \in Nat
      BY <2>1, <3>1
    <3>3. run.spent + 1 \in Nat
      BY <2>1
    <3>4. QED BY <3>2, <3>3
  <2>3. run \in Planned
    <3>1. Rules \subseteq Nat
      BY InferAssumption
    <3>2. Run \subseteq Planned
      BY <3>1 DEF Run, Planned
    <3>3. QED BY <3>2
  <2>4. QED BY <2>2, <2>3
<1>2. CASE rest # {}
  <2>1. rest \in SUBSET Rules
    BY DEF Fired, Run
  <2>2. Least(rest) \in Rules
    BY <1>2, <2>1, LeastIsLeast, FS_Subset, InferAssumption
  <2>3. AfterRule(run, news) =
          [run EXCEPT !.rule = Least(rest), !.news = news, !.at = "match",
                      !.hop = 1, !.seen = {}, !.found = {}]
    BY <1>2 DEF AfterRule
  <2> HIDE DEF rest
  <2> DEFINE next == AfterRule(run, news)
  <2>4. next.at = "match" /\ next.hop = 1 /\ next.seen = {} /\ next.found = {}
    BY <2>3 DEF Run
  <2>5. next \in Run
    <3>1. /\ run.mode = "run" /\ run.fire \in SUBSET Rules /\ run.spent \in Nat
          /\ run = [mode |-> run.mode, fire |-> run.fire, rule |-> run.rule,
                    spent |-> run.spent, news |-> run.news, at |-> run.at,
                    hop |-> run.hop, seen |-> run.seen, found |-> run.found]
      BY DEF Run
    <3>2. next = [mode |-> "run", fire |-> run.fire, rule |-> Least(rest),
                  spent |-> run.spent, news |-> news, at |-> "match",
                  hop |-> 1, seen |-> {}, found |-> {}]
      BY <2>3, <3>1
    <3> HIDE DEF next
    <3>3. QED BY <2>2, <3>1, <3>2 DEF Run
  <2> HIDE DEF next
  <2>6. next \in Starting
    BY <2>4, <2>5 DEF Starting
  <2>7. QED BY <2>6 DEF next
<1>3. CASE rest = {} /\ news
  BY <1>1, <1>3, EnteredIsRun DEF AfterRule
<1>4. CASE rest = {} /\ ~news
  BY <1>1, <1>4, NextStratumIsRun DEF AfterRule
<1>5. QED BY <1>2, <1>3, <1>4

(* A run begins at the first stratum of the rules to fire.                 *)
LEMMA FirstOfIsRun ==
  ASSUME NEW fire \in SUBSET Rules
  PROVE  FirstOf(fire) \in {NULL} \cup Starting
<1> DEFINE run == [mode |-> "run", fire |-> fire, rule |-> 0, spent |-> 0, news |-> FALSE,
                   at |-> "match", hop |-> 1, seen |-> {}, found |-> {}]
           firing == {t \in Strata : Fired(run, t) # {}}
           passed == {t \in Strata : t <= Least(firing)}
<1>1. run \in Planned
  BY DEF Planned
<1>2. CASE firing = {}
  BY <1>2 DEF FirstOf
<1>3. CASE firing # {}
  <2>1. /\ firing \in SUBSET Nat /\ IsFiniteSet(firing)
        /\ passed \in SUBSET Nat /\ IsFiniteSet(passed)
    <3>1. firing \in SUBSET Strata /\ passed \in SUBSET Strata
      OBVIOUS
    <3>2. QED BY <3>1, StrataAreNumbers, FS_Subset
  <2>2. Least(firing) \in Nat /\ Cardinality(passed) \in Nat
    BY <1>3, <2>1, LeastIsLeast, FS_CardinalityType
  <2>3. FirstOf(fire) = Entered(run, Least(firing), Cardinality(passed))
    BY <1>3 DEF FirstOf
  <2> HIDE DEF run, firing, passed
  <2>4. QED BY <1>1, <2>2, <2>3, EnteredIsRun
<1>4. QED BY <1>2, <1>3
-----------------------------------------------------------------------------
(* The graph as the listings see it.                                       *)
GraphOK ==
  /\ graph \subseteq Edge /\ IsFiniteSet(graph)
  /\ cursor \in [Writers -> {NULL} \cup Cursor]
  /\ fresh \in [Writers -> {NULL} \cup SUBSET Ids]
  /\ missed \subseteq Ids

(* The identity of an edge is one.                                         *)
LEMMA IdIsId ==
  \A e \in Edge : Id(e) \in Ids
BY DEF Edge, Id, Ids

(* The order of a listing is a strict one.                                 *)
LEMMA SortsStrictly ==
  ASSUME NEW x \in Edge, NEW e \in Edge, NEW y \in Edge
  PROVE  /\ ~SortsBefore(e, e)
         /\ SortsBefore(x, e) /\ SortsBefore(e, y) => SortsBefore(x, y)
<1>1. /\ x.fact \in Facts /\ e.fact \in Facts /\ y.fact \in Facts
      /\ x.dated \in BOOLEAN /\ e.dated \in BOOLEAN /\ y.dated \in BOOLEAN
      /\ x.copy \in Nat /\ e.copy \in Nat /\ y.copy \in Nat
  BY DEF Edge
<1>2. KeyOf[x.fact] \in Nat /\ KeyOf[e.fact] \in Nat /\ KeyOf[y.fact] \in Nat
  BY <1>1, GraphAssumption
<1>3. \A a, b : Id(a) = Id(b) <=> a.fact = b.fact /\ a.dated = b.dated
  BY DEF Id
<1>4. ~SortsBefore(e, e)
  BY <1>1, <1>2 DEF SortsBefore
<1>5. SortsBefore(x, e) /\ SortsBefore(e, y) => SortsBefore(x, y)
  BY <1>1, <1>2, <1>3 DEF SortsBefore
<1>6. QED BY <1>4, <1>5

(* The place of an edge in the listing of its rel is below the number of   *)
(* edges there, and grows with the order.                                  *)
LEMMA Places ==
  ASSUME NEW edges \in SUBSET Edge, IsFiniteSet(edges)
  PROVE  /\ \A rel : Cardinality(OfRel(edges, rel)) \in Nat
         /\ \A e \in Edge : Place(edges, e) \in Nat
         /\ \A e \in edges : Place(edges, e) < Cardinality(OfRel(edges, RelOf[e.fact]))
         /\ \A x, e \in edges : SortsBefore(x, e) /\ RelOf[x.fact] = RelOf[e.fact] =>
              Place(edges, x) <= Place(edges, e)
<1> DEFINE down(e) == {x \in OfRel(edges, RelOf[e.fact]) : SortsBefore(x, e)}
<1>1. \A rel : /\ OfRel(edges, rel) \subseteq edges
               /\ IsFiniteSet(OfRel(edges, rel)) /\ Cardinality(OfRel(edges, rel)) \in Nat
  BY FS_Subset, FS_CardinalityType DEF OfRel
<1>2. \A e : /\ down(e) \subseteq OfRel(edges, RelOf[e.fact])
             /\ IsFiniteSet(down(e)) /\ Cardinality(down(e)) \in Nat
             /\ Place(edges, e) = Cardinality(down(e))
  <2> SUFFICES ASSUME NEW e
               PROVE  /\ down(e) \subseteq OfRel(edges, RelOf[e.fact])
                      /\ IsFiniteSet(down(e)) /\ Cardinality(down(e)) \in Nat
                      /\ Place(edges, e) = Cardinality(down(e))
    OBVIOUS
  <2>1. down(e) \subseteq OfRel(edges, RelOf[e.fact])
    OBVIOUS
  <2>2. IsFiniteSet(down(e)) /\ Cardinality(down(e)) \in Nat
    BY <1>1, <2>1, FS_Subset, FS_CardinalityType
  <2>3. QED BY <2>1, <2>2 DEF Place
<1>3. ASSUME NEW e \in edges
      PROVE  Place(edges, e) < Cardinality(OfRel(edges, RelOf[e.fact]))
  <2>1. e \in OfRel(edges, RelOf[e.fact]) /\ e \notin down(e)
    BY SortsStrictly DEF OfRel
  <2> HIDE DEF down
  <2>2. /\ Cardinality(down(e)) <= Cardinality(OfRel(edges, RelOf[e.fact]))
        /\ Cardinality(down(e)) # Cardinality(OfRel(edges, RelOf[e.fact]))
    BY <1>1, <1>2, <2>1, FS_Subset
  <2>3. QED BY <1>1, <1>2, <2>2
<1>4. ASSUME NEW x \in edges, NEW e \in edges, SortsBefore(x, e), RelOf[x.fact] = RelOf[e.fact]
      PROVE  Place(edges, x) <= Place(edges, e)
  <2>1. down(x) \subseteq down(e)
    BY <1>4, SortsStrictly DEF OfRel
  <2> HIDE DEF down
  <2>2. Cardinality(down(x)) <= Cardinality(down(e))
    BY <1>2, <2>1, FS_Subset
  <2>3. QED BY <1>2, <2>2
<1> HIDE DEF down
<1>5. QED BY <1>1, <1>2, <1>3, <1>4

(* A finite set of edges has a first one.                                  *)
LEMMA FirstExists ==
  ASSUME NEW edges \in SUBSET Edge, IsFiniteSet(edges), edges # {}
  PROVE  \E e \in edges : \A x \in edges : ~SortsBefore(x, e)
<1> DEFINE down(e) == {x \in edges : SortsBefore(x, e)}
           D == {down(e) : e \in edges}
           R == StrictSubsetOrdering(edges)
<1>1. IsWellFoundedOn(R, FiniteSubsetsOf(edges))
  BY FS_StrictSubsetOrderingWellFounded
<1>2. D \subseteq FiniteSubsetsOf(edges) /\ D # {}
  <2>1. \A e \in edges : down(e) \in SUBSET edges /\ IsFiniteSet(down(e))
    BY FS_Subset
  <2>2. QED BY <2>1 DEF FiniteSubsetsOf
<1>3. \E x \in D : \A y \in D : ~(<<y, x>> \in R)
  <2> HIDE DEF D, R
  <2>1. QED BY <1>1, <1>2, WFMin
<1>4. PICK e \in edges : \A y \in D : ~(<<y, down(e)>> \in R)
  BY <1>3
<1>5. ASSUME NEW x \in edges, SortsBefore(x, e) PROVE FALSE
  <2>1. x \in down(e) /\ x \notin down(x) /\ down(x) \subseteq down(e)
    BY <1>5, SortsStrictly
  <2>2. down(x) \in D /\ down(x) \in SUBSET edges /\ down(e) \in SUBSET edges
    OBVIOUS
  <2> HIDE DEF down, D
  <2>3. <<down(x), down(e)>> \in R
    BY <2>1, <2>2 DEF StrictSubsetOrdering
  <2>4. QED BY <1>4, <2>2, <2>3
<1>6. QED BY <1>5
-----------------------------------------------------------------------------
(* What w has yet to list.                                                 *)
Unread(w, e) == Place(graph, e) >= Offset(w)

(* A page shows what it is about to pass.                                  *)
Turned(w, rel) ==
  /\ graph' = graph
  /\ cursor' \in [Writers -> {NULL} \cup Cursor]
  /\ cursor'[w] # NULL /\ cursor'[w].rel = rel
  /\ \A v \in Writers : v # w => cursor'[v] = cursor[v]
  /\ \A e \in graph : RelOf[e.fact] = rel /\ Unread(w, e) =>
       e \in PageOf(w, rel) \/ Unread(w, e)'

(* Numbers: a place is on the page, beyond it, or passed.                  *)
LEMMA OffsetIsNat ==
  ASSUME GraphOK, NEW w \in Writers
  PROVE  Offset(w) \in Nat
BY DEF GraphOK, Offset, Cursor

LEMMA TurnEffect ==
  ASSUME GraphOK, NEW w \in Writers, NEW rel \in Rels, Turn(w, rel), graph' = graph
  PROVE  Turned(w, rel)
<1> DEFINE next == IF IsShort(w, rel) THEN Stored(rel) ELSE Offset(w) + EdgePage
<1>1. /\ Offset(w) \in Nat /\ EdgePage \in Nat /\ Stored(rel) \in Nat
      /\ \A e \in graph : /\ Place(graph, e) \in Nat
                          /\ Place(graph, e) < Stored(RelOf[e.fact])
  BY OffsetIsNat, GraphAssumption, Places DEF GraphOK, Stored
<1>2. next \in Nat
  BY <1>1
<1>3. cursor' = [cursor EXCEPT ![w] = [rel |-> rel, offset |-> next]]
  BY DEF Turn
<1>4. [rel |-> rel, offset |-> next] \in Cursor
  BY <1>2 DEF Cursor
<1> HIDE DEF next
<1>5. /\ cursor' \in [Writers -> {NULL} \cup Cursor]
      /\ cursor'[w] = [rel |-> rel, offset |-> next]
      /\ \A v \in Writers : v # w => cursor'[v] = cursor[v]
  BY <1>3, <1>4 DEF GraphOK
<1>6. cursor'[w] # NULL /\ cursor'[w].rel = rel /\ Offset(w)' = next
  BY <1>4, <1>5, NullAssumption DEF Offset
<1>7. ASSUME NEW e \in graph, RelOf[e.fact] = rel, Unread(w, e)
      PROVE  e \in PageOf(w, rel) \/ Place(graph, e) >= next
  <2>1. e \in OfRel(graph, rel)
    BY <1>7 DEF OfRel
  <2>2. Place(graph, e) >= Offset(w) /\ Place(graph, e) < Stored(rel) /\ Place(graph, e) \in Nat
    BY <1>1, <1>7 DEF Unread
  <2>3. CASE Place(graph, e) <= Offset(w) + EdgePage - 1
    BY <1>1, <2>1, <2>2, <2>3 DEF PageOf
  <2>4. CASE ~(Place(graph, e) <= Offset(w) + EdgePage - 1)
    BY <1>1, <2>2, <2>4 DEF IsShort, next
  <2>5. QED BY <2>3, <2>4
<1>8. QED BY <1>5, <1>6, <1>7 DEF Turned, Unread

(* The last page shows what is left.                                       *)
LEMMA LastPage ==
  ASSUME GraphOK, NEW w \in Writers, NEW rel, IsShort(w, rel),
         NEW e \in graph, RelOf[e.fact] = rel, Unread(w, e)
  PROVE  e \in PageOf(w, rel)
<1>1. /\ Offset(w) \in Nat /\ EdgePage \in Nat /\ Stored(rel) \in Nat
      /\ Place(graph, e) \in Nat /\ Place(graph, e) < Stored(rel)
  BY OffsetIsNat, GraphAssumption, Places DEF GraphOK, Stored
<1>2. QED BY <1>1 DEF PageOf, OfRel, IsShort, Unread

(* Nothing is left beyond the last page.                                   *)
LEMMA NothingLeft ==
  ASSUME GraphOK, NEW w \in Writers, NEW rel, IsEmpty(w, rel),
         NEW e \in graph, RelOf[e.fact] = rel
  PROVE  ~Unread(w, e)
<1>1. /\ Offset(w) \in Nat /\ Stored(rel) \in Nat
      /\ Place(graph, e) \in Nat /\ Place(graph, e) < Stored(rel)
  BY OffsetIsNat, Places DEF GraphOK, Stored
<1>2. QED BY <1>1 DEF IsEmpty, Unread

(* With no listing under way everything is yet to come.                    *)
LEMMA UnreadAtFirst ==
  ASSUME GraphOK, NEW w \in Writers, cursor[w] = NULL, NEW e \in graph
  PROVE  Unread(w, e)
<1>1. Place(graph, e) \in Nat
  BY Places DEF GraphOK
<1>2. QED BY <1>1 DEF Unread, Offset

(* What is yet to come behind an edge is so with it.                       *)
LEMMA UnreadBehind ==
  ASSUME GraphOK, NEW w \in Writers, NEW x \in graph, NEW e \in graph,
         SortsBefore(x, e), RelOf[x.fact] = RelOf[e.fact], Unread(w, x)
  PROVE  Unread(w, e)
<1>1. /\ Offset(w) \in Nat /\ Place(graph, x) \in Nat /\ Place(graph, e) \in Nat
      /\ Place(graph, x) <= Place(graph, e)
  BY OffsetIsNat, Places DEF GraphOK
<1>2. QED BY <1>1 DEF Unread

(* A page is part of the graph.                                            *)
LEMMA PageIsStored ==
  \A w, rel : PageOf(w, rel) \subseteq graph /\ \A e \in PageOf(w, rel) : RelOf[e.fact] = rel
BY DEF PageOf, OfRel
-----------------------------------------------------------------------------
(* The graph under a write.                                                *)
Touched == (graph \ graph') \cup (graph' \ graph)

(* What others did to the graph is known to writer v as touched, and what  *)
(* they moved out of v's listing as missed.                                *)
Aged(v) ==
  /\ cursor'[v] = cursor[v]
  /\ fresh[v] # NULL =>
       /\ fresh'[v] # NULL
       /\ fresh[v] \subseteq fresh'[v]
       /\ \A e \in Touched : Id(e) \in fresh'[v]
  /\ cursor[v] # NULL =>
       \A x \in graph, e \in graph' :
         RelOf[x.fact] = cursor[v].rel /\ Id(e) = Id(x) /\ e.copy = x.copy /\ Unread(v, x) =>
           \/ Unread(v, e)'
           \/ Id(e) \in missed' /\ (fresh[v] # NULL => Id(e) \in fresh'[v])

(* The cursor of w may be closed by the way.                               *)
Closes(w) ==
  \/ cursor' = cursor
  \/ w \in Writers /\ Close(w)

(* A step leaves every listing but w's own where it is, and all that is    *)
(* known of the graph.                                                     *)
Ages(w) ==
  /\ GraphOK'
  /\ missed \subseteq missed'
  /\ \A v \in Writers : v # w => Aged(v)

(* A write ends the writer's own scan and ages everybody else's.           *)
LEMMA PutEffect ==
  ASSUME GraphOK, NEW w, NEW g \in SUBSET Edge, IsFiniteSet(g), Put(w, g), Closes(w)
  PROVE  /\ graph' = g
         /\ Ages(w)
         /\ w \in Writers => fresh'[w] = NULL
<1> DEFINE touched == {Id(e) : e \in (graph \ g) \cup (g \ graph)}
           age(v) == fresh[v] \cup touched \cup MovedOut(v, g)
<1>1. /\ graph' = g
      /\ fresh' = [v \in Writers |-> IF v = w \/ fresh[v] = NULL THEN NULL ELSE age(v)]
      /\ missed' = missed \cup UNION {MovedOut(v, g) : v \in Writers \ {w}}
  BY DEF Put
<1>2. touched \subseteq Ids
  BY IdIsId DEF GraphOK
<1>3. \A v : MovedOut(v, g) \subseteq Ids
  BY IdIsId DEF GraphOK, MovedOut, OfRel
<1>4. \A v \in Writers : fresh[v] # NULL => fresh[v] \in SUBSET Ids
  BY DEF GraphOK
<1>5. \A e \in Touched : Id(e) \in touched
  BY <1>1 DEF Touched
<1>6. \A v \in Writers : fresh[v] # NULL => age(v) \in SUBSET Ids
  <2> HIDE DEF touched
  <2>1. QED BY <1>2, <1>3, <1>4
<1>7. fresh' \in [Writers -> {NULL} \cup SUBSET Ids]
  <2> HIDE DEF age
  <2>1. QED BY <1>1, <1>6
<1>8. missed' \subseteq Ids /\ missed \subseteq missed'
  BY <1>1, <1>3 DEF GraphOK
<1>9. /\ cursor' \in [Writers -> {NULL} \cup Cursor]
      /\ \A v \in Writers : v # w => cursor'[v] = cursor[v]
  BY DEF Closes, Close, GraphOK
<1>10. ASSUME NEW v \in Writers, v # w PROVE Aged(v)
  <2>1. ASSUME fresh[v] # NULL
        PROVE  /\ fresh'[v] = age(v) /\ fresh'[v] # NULL
               /\ fresh[v] \subseteq fresh'[v]
               /\ \A e \in Touched : Id(e) \in fresh'[v]
    <3>1. fresh'[v] = age(v)
      <4> HIDE DEF age
      <4>1. QED BY <1>1, <1>10, <2>1
    <3>2. fresh'[v] # NULL
      <4> HIDE DEF age
      <4>1. QED BY <1>6, <2>1, <3>1, NullAssumption
    <3>3. QED
      <4> HIDE DEF touched
      <4>1. QED BY <1>5, <3>1, <3>2
  <2>2. ASSUME cursor[v] # NULL, NEW x \in graph, NEW e \in graph',
               RelOf[x.fact] = cursor[v].rel, Id(e) = Id(x), e.copy = x.copy,
               Unread(v, x), ~Unread(v, e)'
        PROVE  Id(e) \in missed' /\ (fresh[v] # NULL => Id(e) \in fresh'[v])
    <3>1. /\ Offset(v) = cursor[v].offset /\ Offset(v)' = cursor[v].offset
          /\ cursor[v].offset \in Nat
      BY <1>9, <1>10, <2>2 DEF Offset, GraphOK, Cursor
    <3>2. Place(graph, x) >= cursor[v].offset
      BY <2>2, <3>1 DEF Unread
    <3>3. Place(g, e) \in Nat /\ Place(g, e) < cursor[v].offset
      <4>1. Place(g, e) \in Nat
        BY <1>1, Places
      <4>2. ~(Place(g, e) >= cursor[v].offset)
        BY <1>1, <2>2, <3>1 DEF Unread
      <4>3. QED BY <3>1, <4>1, <4>2
    <3>4. Id(e) \in MovedOut(v, g)
      BY <1>1, <2>2, <3>2, <3>3 DEF MovedOut, OfRel
    <3>5. Id(e) \in missed'
      BY <1>1, <1>10, <3>4
    <3>6. QED BY <2>1, <3>4, <3>5
  <2>3. QED BY <1>9, <1>10, <2>1, <2>2 DEF Aged
<1>11. w \in Writers => fresh'[w] = NULL
  BY <1>1
<1>12. QED BY <1>1, <1>7, <1>8, <1>9, <1>10, <1>11 DEF GraphOK, Ages

(* A page, a scan or the end of a writer's work leaves the graph as it is. *)
Kept(w) ==
  /\ graph' = graph /\ missed' = missed
  /\ fresh' = fresh \/ Scan(w) \/ Drop(w)
  /\ Closes(w) \/ \E rel \in Rels : Turn(w, rel)

(* Without a write nothing has to age.                                     *)
LEMMA KeptEffect ==
  ASSUME GraphOK, NEW w \in Writers, Kept(w)
  PROVE  Ages(w)
<1>1. cursor' \in [Writers -> {NULL} \cup Cursor] /\ \A v \in Writers : v # w => cursor'[v] = cursor[v]
  <2>1. CASE Closes(w)
    BY <2>1 DEF Closes, Close, GraphOK
  <2>2. CASE \E rel \in Rels : Turn(w, rel)
    BY <2>2, TurnEffect DEF Kept, Turned
  <2>3. QED BY <2>1, <2>2 DEF Kept
<1>2. /\ fresh' \in [Writers -> {NULL} \cup SUBSET Ids]
      /\ \A v \in Writers : v # w => fresh'[v] = fresh[v]
  BY DEF GraphOK, Kept, Scan, Drop
<1>3. GraphOK'
  BY <1>1, <1>2 DEF GraphOK, Kept
<1>4. Touched = {}
  BY DEF Kept, Touched
<1>5. ASSUME NEW v \in Writers, v # w, cursor[v] # NULL, NEW x \in graph, NEW e \in graph',
             RelOf[x.fact] = cursor[v].rel, Id(e) = Id(x), e.copy = x.copy, Unread(v, x)
      PROVE  Unread(v, e)'
  <2>1. Offset(v)' = Offset(v)
    BY <1>1, <1>5 DEF Offset
  <2>2. Place(graph', e) = Place(graph, x)
    <3>1. RelOf[e.fact] = RelOf[x.fact] /\ e.fact = x.fact /\ e.dated = x.dated
      BY <1>5 DEF Id
    <3>2. \A z : SortsBefore(z, e) <=> SortsBefore(z, x)
      BY <1>5, <3>1 DEF SortsBefore, Id
    <3>3. QED BY <3>1, <3>2 DEF Kept, Place
  <2>3. QED BY <1>5, <2>1, <2>2 DEF Unread
<1>6. QED BY <1>1, <1>2, <1>3, <1>4, <1>5 DEF Aged, Ages, Kept

(* upsert_edges: what is there stays or is overwritten by one of its       *)
(* identity, in its place.                                                 *)
LEMMA UpsertedKeeps ==
  ASSUME GraphOK, NEW edges \in SUBSET Edge, IsFiniteSet(edges)
  PROVE  /\ Upserted(edges) \in SUBSET Edge /\ IsFiniteSet(Upserted(edges))
         /\ edges \subseteq Upserted(edges)
         /\ \A e \in Upserted(edges) : e \in graph \/ e \in edges
         /\ \A e \in graph \ Upserted(edges) : e.copy = 0 /\ \E n \in edges : Id(n) = Id(e)
<1> DEFINE kept == {e \in graph : e.copy = 0 => \A n \in edges : Id(n) # Id(e)}
<1>1. Upserted(edges) = kept \cup edges
  BY DEF Upserted
<1>2. IsFiniteSet(kept)
  BY FS_Subset DEF GraphOK
<1>3. IsFiniteSet(Upserted(edges))
  <2> HIDE DEF kept
  <2>1. QED BY <1>1, <1>2, FS_Union
<1>4. QED BY <1>1, <1>3 DEF GraphOK

(* replace_edges: what is not of the group stays.                          *)
LEMMA ReplacedKeeps ==
  ASSUME GraphOK, NEW group, NEW edges \in SUBSET Edge, IsFiniteSet(edges)
  PROVE  /\ Replaced(group, edges) \in SUBSET Edge /\ IsFiniteSet(Replaced(group, edges))
         /\ edges \subseteq Replaced(group, edges)
         /\ \A e \in Replaced(group, edges) \ edges : e \in graph /\ GroupOf[e.fact] # group
         /\ \A e \in graph \ Replaced(group, edges) : GroupOf[e.fact] = group
<1> DEFINE kept == graph \ Group(group)
<1>1. Replaced(group, edges) = kept \cup edges
  BY DEF Replaced
<1>2. IsFiniteSet(kept)
  BY FS_Subset DEF GraphOK
<1>3. IsFiniteSet(Replaced(group, edges))
  <2> HIDE DEF kept
  <2>1. QED BY <1>1, <1>2, FS_Union
<1>4. QED BY <1>1, <1>3 DEF GraphOK, Group
-----------------------------------------------------------------------------
(* What a retirement writes back: what it scanned, with its target closed. *)
LEMMA TargetIsSeen ==
  ASSUME op.view \subseteq Edge, IsFiniteSet(op.view), OpenEdges(op.view, kind.about) # {}
  PROVE  Target \in op.view /\ Target.fact = kind.about
<1> DEFINE open == OpenEdges(op.view, kind.about)
<1>1. open \in SUBSET Edge /\ IsFiniteSet(open) /\ open # {}
  BY FS_Subset DEF OpenEdges
<1>2. \E e \in open : \A x \in open : ~SortsBefore(x, e)
  <2> HIDE DEF open
  <2>1. QED BY <1>1, FirstExists
<1>3. Target \in open
  BY <1>2 DEF Target
<1>4. QED BY <1>3 DEF OpenEdges

(* A closed edge is an edge, and its author's is the target's.             *)
LEMMA ClosedTarget ==
  ASSUME Target \in Edge, NEW e \in Edge
  PROVE  /\ TargetClosed(e) \in Edge
         /\ Id(TargetClosed(e)) = Id(Target) /\ TargetClosed(e).fact = Target.fact
         /\ TargetClosed(e).copy = e.copy
         /\ TargetClosed(e).by = Target.by /\ TargetClosed(e).pid = Target.pid
BY DEF TargetClosed, Edge, Id

(* x is what becomes of e: the same identity in the same place, and the    *)
(* edge itself unless it is retired.                                       *)
Becomes(e, x) ==
  /\ Id(x) = Id(e) /\ x.copy = e.copy
  /\ Id(e) # Id(Target) => x = e
  /\ Id(e) = Id(Target) => x.by = Target.by /\ x.pid = Target.pid

(* A retirement writes back what it has scanned, edge by edge.             *)
LEMMA RetiredIsSeen ==
  ASSUME op.view \subseteq Edge, IsFiniteSet(op.view), OpenEdges(op.view, kind.about) # {}
  PROVE  /\ Retired \in SUBSET Edge /\ IsFiniteSet(Retired)
         /\ \A x \in Retired : \E e \in op.view : Becomes(e, x)
         /\ \A e \in op.view : \E x \in Retired : Becomes(e, x)
<1> DEFINE next(e) == IF Id(e) = Id(Target) THEN TargetClosed(e) ELSE e
<1>1. Target \in op.view /\ Target \in Edge
  BY TargetIsSeen
<1>2. Retired = {next(e) : e \in op.view}
  BY DEF Retired
<1>3. \A e \in op.view : next(e) \in Edge /\ Becomes(e, next(e))
  <2> SUFFICES ASSUME NEW e \in op.view PROVE next(e) \in Edge /\ Becomes(e, next(e))
    OBVIOUS
  <2>1. CASE Id(e) = Id(Target)
    BY <1>1, <2>1, ClosedTarget DEF Becomes
  <2>2. CASE Id(e) # Id(Target)
    BY <2>2 DEF Becomes
  <2>3. QED BY <2>1, <2>2
<1>4. IsFiniteSet(Retired)
  <2>1. [e \in op.view |-> next(e)] \in Surjection(op.view, Retired)
    BY <1>2 DEF Surjection
  <2>2. QED BY <2>1, FS_Surjection
<1> HIDE DEF next
<1>5. QED BY <1>2, <1>3, <1>4

(* The edges a pass derives are new and well formed.                       *)
LEMMA NewEdgeIsEdge ==
  ASSUME NEW f \in Facts, NEW by \in {"ingest", "user", "gate", "rule"}, NEW pid \in Nat
  PROVE  /\ NewEdge(f, by, pid) \in Edge /\ Id(NewEdge(f, by, pid)) = <<f, FALSE>>
         /\ NewEdge(f, by, pid).copy = 0
         /\ NewEdge(f, by, pid).by = by /\ NewEdge(f, by, pid).pid = pid
BY DEF NewEdge, Edge, Id

(* A pass upserts one edge for each fact it derived.                       *)
LEMMA DerivedIsNew ==
  ASSUME inf.found \subseteq Ground
  PROVE  /\ Derived \in SUBSET Edge /\ IsFiniteSet(Derived)
         /\ \A e \in Derived : /\ e.copy = 0 /\ e.by = "rule" /\ ~e.dated
                               /\ \E g \in inf.found : e.fact = g.fact
<1>1. \A g \in inf.found : g.fact \in Facts
  BY InferAssumption
<1>2. IsFiniteSet(inf.found)
  BY FS_Subset, InferAssumption
<1>3. [g \in inf.found |-> NewEdge(g.fact, "rule", 0)] \in Surjection(inf.found, Derived)
  BY DEF Derived, Surjection
<1>4. IsFiniteSet(Derived)
  BY <1>2, <1>3, FS_Surjection
<1>5. Derived \in SUBSET Edge
  <2>1. \A g \in inf.found : NewEdge(g.fact, "rule", 0) \in Edge
    BY <1>1, NewEdgeIsEdge
  <2>2. QED BY <2>1 DEF Derived
<1>6. QED BY <1>4, <1>5 DEF Derived, NewEdge

(* A retraction under way has a fact to retract.                           *)
LEMMA GoalIsLeft ==
  ASSUME inf.left # {}
  PROVE  Goal \in inf.left
BY DEF Goal

(* A page of a retraction's listing gives it the edges that stay: each is  *)
(* collected, under its identity and with its author.                      *)
Shows(view, e) == \E x \in view : Id(x) = Id(e) /\ x.by = e.by /\ x.pid = e.pid

LEMMA CollectedShows ==
  ASSUME NEW view \in SUBSET Edge, IsFiniteSet(view), NEW edges \in SUBSET Edge, IsFiniteSet(edges)
  PROVE  /\ Collected(view, edges) \in SUBSET Edge /\ IsFiniteSet(Collected(view, edges))
         /\ view \subseteq Collected(view, edges)
         /\ \A e \in edges : Shows(Collected(view, edges), e)
         /\ \A x \in Collected(view, edges) \ view : Shows(edges, x)
<1> DEFINE n(e) == Cardinality({x \in view : Id(x) = Id(e)})
                   + Cardinality({x \in edges : Id(x) = Id(e) /\ x.copy < e.copy})
           new(e) == [e EXCEPT !.copy = n(e)]
<1>1. Collected(view, edges) = view \cup {new(e) : e \in edges}
  BY DEF Collected
<1>2. \A e \in edges : n(e) \in Nat
  <2> SUFFICES ASSUME NEW e \in edges PROVE n(e) \in Nat
    OBVIOUS
  <2>1. /\ Cardinality({x \in view : Id(x) = Id(e)}) \in Nat
        /\ Cardinality({x \in edges : Id(x) = Id(e) /\ x.copy < e.copy}) \in Nat
    BY FS_Subset, FS_CardinalityType
  <2>2. QED BY <2>1
<1> HIDE DEF n
<1>3. \A e \in edges : /\ new(e) \in Edge /\ Id(new(e)) = Id(e)
                       /\ new(e).by = e.by /\ new(e).pid = e.pid
  <2> SUFFICES ASSUME NEW e \in edges
               PROVE  /\ new(e) \in Edge /\ Id(new(e)) = Id(e)
                      /\ new(e).by = e.by /\ new(e).pid = e.pid
    OBVIOUS
  <2>1. n(e) \in Nat /\ e \in Edge
    BY <1>2
  <2>2. QED BY <2>1 DEF Edge, Id
<1>4. IsFiniteSet({new(e) : e \in edges})
  <2>1. [e \in edges |-> new(e)] \in Surjection(edges, {new(e) : e \in edges})
    BY DEF Surjection
  <2>2. QED BY <2>1, FS_Surjection
<1> HIDE DEF new
<1>5. IsFiniteSet(Collected(view, edges))
  BY <1>1, <1>4, FS_Union
<1>6. QED BY <1>1, <1>3, <1>5 DEF Shows
=============================================================================
