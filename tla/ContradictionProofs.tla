------------------------ MODULE ContradictionProofs ------------------------
(***************************************************************************)
(* Proofs about Contradiction, for any subjects, objects, scans and size   *)
(* of a page.  The invariant compares what a scan has in hand with what a  *)
(* scan that began now would list: however scans overlap, they agree on    *)
(* the best value of each subject, and so none of them ever closes it; a   *)
(* scan into which nobody wrote also knows everything else.                *)
(***************************************************************************)
EXTENDS Contradiction, FiniteSetTheorems, TLAPS

(* What a scan that began now would list of a subject, and what it would   *)
(* take for the current value.                                             *)
Listing(e) == [at |-> Place(Id(e)), edge |-> e]

Current(s) == {Listing(e) : e \in {x \in Of(s) : Active(x, today)}}

Best(s) == First(Current(s))

Ids(s) == {Id(e) : e \in Of(s)}

(* Those that neighbors() shows.                                           *)
NeighborIds(s) == {i \in Ids(s) : i[2] # s}

(* No two items of a listing have one place: the pages are disjoint.       *)
OnePerPlace(items) == \A x, y \in items : x.at = y.at => x = y

(* Sets of edges as the engine accepts and returns them.                   *)
Sound(edges) ==
  /\ edges \subseteq Edge /\ IsFiniteSet(edges)
  /\ Windowed(edges) /\ Unique(edges)

(* What scans and the gate have in hand, whoever writes meanwhile.         *)
Scanning(day) ==
  {c \in Scan :
     /\ c.day <= day
     /\ IsFiniteSet(c.listed) /\ OnePerPlace(c.listed)
     /\ \A x \in c.listed : x.at < c.offset
     /\ Windowed({x.edge : x \in c.listed \cup c.todo})
     /\ c.next # "list" => c.todo # {}
     /\ Sound(c.view)
     /\ c.next # "write" => c.view = {}
     /\ \A x \in c.todo : IsFirst(x, c.todo) =>
          \A e \in c.view : e.subject = x.edge.subject}

Holding ==
  {g \in Materialization :
     /\ Windowed({g.edge}) /\ Sound(g.view)
     /\ \A e \in g.view : e.subject = g.edge.subject
     /\ g.kind = "assert" => g.edge.from = Undated /\ g.edge.to = Open}

Shaped ==
  /\ Sound(facts)
  /\ today \in Days
  /\ scan \in [Scans -> {NULL} \cup Scanning(today)]
  /\ gate \in {NULL} \cup Holding
  /\ settled \in BOOLEAN

(* An item as it is or was current, none better than the best.             *)
Below(x) ==
  /\ x.at = Place(Id(x.edge))
  /\ Current(x.edge.subject) # {}
  /\ x = Best(x.edge.subject) \/ Ranked(Best(x.edge.subject), x)

(* A scan into which at most other scans wrote: it knows the best of all   *)
(* that it has come past, closes only what is below it, and does not drop  *)
(* it from what it writes back, unless it is a self-loop.                  *)
CleanScan(c) ==
  /\ c.day = today
  /\ \A x \in c.listed : Below(x)
  /\ c.next = "list" =>
       \A s \in Subjects : Current(s) # {} /\ Best(s).at < c.offset => Best(s) \in c.listed
  /\ \A x \in c.todo : /\ Below(x) /\ x # Best(x.edge.subject)
                       /\ ~Active(x.edge, today)
  /\ c.next = "write" => \A x \in c.todo : IsFirst(x, c.todo) =>
       /\ Best(x.edge.subject).edge.object # x.edge.subject => Best(x.edge.subject).edge \in c.view
       /\ {Id(e) : e \in c.view} = NeighborIds(x.edge.subject)
       /\ \A e \in c.view : Active(e, today) => Below(Listing(e))

Closable(s) ==
  {y \in Current(s) : y # Best(s) /\ MayClose(y.edge, CloseAt(Best(s).edge, today))}

(* A scan into which nobody wrote: it misses nothing that it may close.    *)
LoneScan(c) ==
  /\ c.next = "list" => \A s \in Subjects : \A y \in Current(s) : y.at < c.offset => y \in c.listed
  /\ c.next # "list" => \A s \in Subjects : \A y \in Closable(s) :
                           \E x \in c.todo : Id(x.edge) = Id(y.edge)
  /\ c.next = "write" => \A x \in c.todo : IsFirst(x, c.todo) => c.view = NeighborsOf(x.edge.subject)

CleanScans ==
  \A r \in Scans : scan[r] # NULL /\ scan[r].intruder # "other" => CleanScan(scan[r])

LoneScans ==
  \A r \in Scans : scan[r] # NULL /\ scan[r].intruder = "none" => LoneScan(scan[r])

NothingToClose == settled => \A s \in Subjects : Closable(s) = {}

IInv == Shaped /\ CleanScans /\ LoneScans /\ NothingToClose
-----------------------------------------------------------------------------
(* The fields the orders compare are numbers.                              *)
LEMMA EdgeNumbers ==
  ASSUME NEW e \in Edge
  PROVE  e.subject \in Nat /\ e.object \in Nat /\ e.from \in Nat /\ e.to \in Nat
<1>1. e.subject \in Subjects /\ e.object \in Objects
  BY DEF Edge
<1>2. e.from \in {0} \cup Days /\ e.to \in {0} \cup Days
  BY DEF Edge, Undated, Open
<1>3. Subjects \subseteq Nat /\ Objects \subseteq Nat
  BY ContradictionAssumption
<1>4. Days \subseteq Nat
  BY ContradictionAssumption DEF Days
<1>5. {0} \cup Days \subseteq Nat
  BY <1>4
<1>6. e.subject \in Nat /\ e.object \in Nat
  BY <1>1, <1>3
<1>7. e.from \in Nat /\ e.to \in Nat
  BY <1>2, <1>5
<1>8. QED BY <1>6, <1>7

(* The ranking of scan_all_functional is a strict order, total on items of *)
(* different places.                                                       *)
LEMMA RankedOrder ==
  ASSUME NEW x \in Item, NEW y \in Item, NEW z \in Item
  PROVE  /\ ~(Ranked(x, y) /\ Ranked(y, x))
         /\ Ranked(x, y) /\ Ranked(y, z) => Ranked(x, z)
         /\ x.at # y.at => Ranked(x, y) \/ Ranked(y, x)
<1>1. /\ x.at \in Nat /\ y.at \in Nat /\ z.at \in Nat
      /\ x.edge.from \in Nat /\ y.edge.from \in Nat /\ z.edge.from \in Nat
  BY EdgeNumbers DEF Item
<1>2. QED BY <1>1 DEF Ranked, Newer, Undated

(* So is the order in which a scan goes through subjects and edges.        *)
LEMMA PrecedesOrder ==
  ASSUME NEW x \in Item, NEW y \in Item, NEW z \in Item
  PROVE  /\ ~(Precedes(x, y) /\ Precedes(y, x))
         /\ Precedes(x, y) /\ Precedes(y, z) => Precedes(x, z)
         /\ x.at # y.at => Precedes(x, y) \/ Precedes(y, x)
<1>1. x.edge.subject \in Nat /\ y.edge.subject \in Nat /\ z.edge.subject \in Nat
  BY EdgeNumbers DEF Item
<1>2. QED BY <1>1, RankedOrder DEF Precedes

(* There is one first item at most.                                        *)
LEMMA FirstIsUnique ==
  ASSUME NEW S \in SUBSET Item, NEW x, IsFirst(x, S)
  PROVE  /\ \A y : IsFirst(y, S) => y = x
         /\ First(S) = x
<1>1. ASSUME NEW y, IsFirst(y, S) PROVE y = x
  BY <1>1, PrecedesOrder DEF IsFirst
<1>2. IsFirst(First(S), S)
  BY DEF First, IsFirst
<1>3. QED BY <1>1, <1>2

(* A finite listing has a first item: of the sets of items that precede    *)
(* some item one is minimal.                                               *)
LEMMA FirstExists ==
  ASSUME NEW S \in SUBSET Item, IsFiniteSet(S), S # {}, OnePerPlace(S)
  PROVE  IsFirst(First(S), S)
<1> DEFINE down(i) == {j \in S : Precedes(j, i)}
           D == {down(i) : i \in S}
           R == StrictSubsetOrdering(S)
<1>1. IsWellFoundedOn(R, FiniteSubsetsOf(S))
  BY FS_StrictSubsetOrderingWellFounded
<1>2. D \subseteq FiniteSubsetsOf(S) /\ D # {}
  <2>1. \A i \in S : down(i) \in SUBSET S /\ IsFiniteSet(down(i))
    BY FS_Subset
  <2>2. QED BY <2>1 DEF FiniteSubsetsOf
<1>3. \E x \in D : \A y \in D : ~(<<y, x>> \in R)
  <2> HIDE DEF D, R
  <2>1. QED BY <1>1, <1>2, WFMin
<1>4. PICK i \in S : \A y \in D : ~(<<y, down(i)>> \in R)
  BY <1>3
<1>5. \A k \in S : ~Precedes(k, i)
  <2> SUFFICES ASSUME NEW k \in S, Precedes(k, i) PROVE FALSE
    OBVIOUS
  <2>1. down(k) \in SUBSET S /\ down(i) \in SUBSET S /\ down(k) \subseteq down(i)
    BY PrecedesOrder
  <2>2. k \in down(i) /\ k \notin down(k)
    BY PrecedesOrder
  <2>3. down(k) \in D
    OBVIOUS
  <2> HIDE DEF down, D
  <2>4. <<down(k), down(i)>> \in R
    BY <2>1, <2>2 DEF StrictSubsetOrdering
  <2>5. QED BY <1>4, <2>3, <2>4
<1>6. IsFirst(i, S)
  BY <1>5, PrecedesOrder DEF IsFirst, OnePerPlace
<1>7. QED BY <1>6 DEF First

(* Identities are ordered, and totally.                                    *)
LEMMA BeforeOrder ==
  ASSUME NEW a \in Nat \X Nat \X Nat, NEW b \in Nat \X Nat \X Nat, NEW c \in Nat \X Nat \X Nat
  PROVE  /\ ~Before(a, a)
         /\ Before(a, b) /\ Before(b, c) => Before(a, c)
         /\ a # b => Before(a, b) \/ Before(b, a)
BY DEF Before

(* An identity is a triple of numbers.                                     *)
LEMMA IdNumbers ==
  ASSUME NEW e \in Edge
  PROVE  Id(e) \in Nat \X Nat \X Nat
BY EdgeNumbers DEF Id

(* The places of the listing: each edge has one of its own, and none is    *)
(* past the end.                                                           *)
LEMMA Places ==
  ASSUME facts \subseteq Edge, IsFiniteSet(facts)
  PROVE  /\ Cardinality(facts) \in Nat
         /\ \A i : Place(i) \in Nat
         /\ \A e \in facts : Place(Id(e)) < Cardinality(facts)
         /\ \A e, x \in facts : Id(e) # Id(x) => Place(Id(e)) # Place(Id(x))
<1> DEFINE down(i) == {k \in Stored : Before(k, i)}
<1>1. IsFiniteSet(Stored) /\ Cardinality(Stored) <= Cardinality(facts)
  <2>1. [e \in facts |-> Id(e)] \in Surjection(facts, Stored)
    BY DEF Stored, Surjection
  <2>2. QED BY <2>1, FS_Surjection
<1>2. Cardinality(Stored) \in Nat /\ Cardinality(facts) \in Nat
  BY <1>1, FS_CardinalityType
<1>3. Stored \subseteq Nat \X Nat \X Nat
  BY IdNumbers DEF Stored
<1>4. \A i : IsFiniteSet(down(i)) /\ Cardinality(down(i)) \in Nat /\ Place(i) = Cardinality(down(i))
  BY <1>1, FS_Subset, FS_CardinalityType DEF Place
<1>5. ASSUME NEW i \in Stored PROVE Cardinality(down(i)) < Cardinality(Stored)
  <2>1. down(i) \subseteq Stored /\ down(i) # Stored
    BY <1>3, BeforeOrder
  <2> HIDE DEF down
  <2>2. /\ Cardinality(down(i)) <= Cardinality(Stored)
        /\ Cardinality(down(i)) # Cardinality(Stored)
    BY <1>1, <2>1, FS_Subset
  <2>3. QED BY <1>2, <1>4, <2>2
<1>6. ASSUME NEW i \in Stored, NEW k \in Stored, Before(i, k)
      PROVE  Cardinality(down(i)) < Cardinality(down(k))
  <2>1. down(i) \subseteq down(k) /\ i \in down(k) /\ i \notin down(i)
    BY <1>3, <1>6, BeforeOrder
  <2>2. IsFiniteSet(down(k))
    BY <1>4
  <2> HIDE DEF down
  <2>3. /\ Cardinality(down(i)) <= Cardinality(down(k))
        /\ Cardinality(down(i)) # Cardinality(down(k))
    BY <2>1, <2>2, FS_Subset
  <2>4. QED BY <1>4, <2>3
<1>7. \A e \in facts : Id(e) \in Stored
  BY DEF Stored
<1> HIDE DEF down
<1>8. \A i, k \in Stored : i # k => Place(i) # Place(k)
  BY <1>3, <1>4, <1>6, BeforeOrder
<1>9. QED BY <1>1, <1>2, <1>4, <1>5, <1>7, <1>8
(* What a scan that began now would list, and the best of it.              *)
LEMMA CurrentItems ==
  ASSUME Sound(facts)
  PROVE  \A s : /\ Current(s) \in SUBSET Item /\ IsFiniteSet(Current(s))
                /\ OnePerPlace(Current(s))
                /\ \A y \in Current(s) : /\ y.edge \in facts /\ y.edge.subject = s
                                         /\ Active(y.edge, today) /\ y = Listing(y.edge)
<1> SUFFICES ASSUME NEW s
             PROVE  /\ Current(s) \in SUBSET Item /\ IsFiniteSet(Current(s))
                    /\ OnePerPlace(Current(s))
                    /\ \A y \in Current(s) : /\ y.edge \in facts /\ y.edge.subject = s
                                             /\ Active(y.edge, today) /\ y = Listing(y.edge)
  OBVIOUS
<1> DEFINE active == {x \in Of(s) : Active(x, today)}
<1>0. facts \subseteq Edge /\ IsFiniteSet(facts) /\ Unique(facts)
  BY DEF Sound
<1>1. active \subseteq facts /\ IsFiniteSet(active)
  <2>1. active \subseteq facts
    BY DEF Of
  <2>2. QED BY <1>0, <2>1, FS_Subset
<1>2. \A e \in active : /\ Listing(e) \in Item /\ Listing(e).edge = e
                        /\ Listing(e).at = Place(Id(e))
  BY <1>0, <1>1, Places DEF Listing, Item
<1>3. Current(s) = {Listing(e) : e \in active}
  BY DEF Current
<1>4. IsFiniteSet(Current(s))
  <2>1. [e \in active |-> Listing(e)] \in Surjection(active, Current(s))
    BY <1>3 DEF Surjection
  <2>2. QED BY <1>1, <2>1, FS_Surjection
<1>5. \A y \in Current(s) : /\ y.edge \in facts /\ y.edge.subject = s
                            /\ Active(y.edge, today) /\ y = Listing(y.edge)
  BY <1>2, <1>3 DEF Of
<1>6. OnePerPlace(Current(s))
  <2> SUFFICES ASSUME NEW x \in Current(s), NEW y \in Current(s), x.at = y.at
               PROVE  x = y
    BY DEF OnePerPlace
  <2>1. Place(Id(x.edge)) = Place(Id(y.edge))
    BY <1>5 DEF Listing
  <2>2. Id(x.edge) = Id(y.edge)
    BY <1>0, <1>5, <2>1, Places
  <2>3. x.edge = y.edge
    BY <1>0, <1>5, <2>2 DEF Unique
  <2>4. QED BY <1>5, <2>3
<1>7. QED BY <1>2, <1>3, <1>4, <1>5, <1>6

(* Where something is current there is a best, and nothing current is      *)
(* above it.                                                               *)
LEMMA BestIsBest ==
  ASSUME Sound(facts), NEW s, Current(s) # {}
  PROVE  /\ Best(s) \in Current(s)
         /\ \A y \in Current(s) : Below(y)
<1>1. /\ Current(s) \in SUBSET Item /\ IsFiniteSet(Current(s)) /\ OnePerPlace(Current(s))
      /\ \A y \in Current(s) : y.edge.subject = s /\ y = Listing(y.edge)
  BY CurrentItems
<1>2. IsFirst(Best(s), Current(s))
  BY <1>1, FirstExists DEF Best
<1>3. \A y \in Current(s) : y # Best(s) => Ranked(Best(s), y)
  BY <1>1, <1>2, EdgeNumbers DEF IsFirst, Precedes, Item
<1>4. \A y \in Current(s) : y.at = Place(Id(y.edge))
  BY <1>1 DEF Listing
<1>5. QED BY <1>1, <1>2, <1>3, <1>4 DEF Below, IsFirst

(* The best is unique: what precedes everything current is the best.       *)
LEMMA BestIsUnique ==
  ASSUME Sound(facts), NEW s, NEW b \in Current(s),
         \A y \in Current(s) : y # b => Ranked(b, y)
  PROVE  Best(s) = b
<1>1. /\ Current(s) \in SUBSET Item
      /\ \A y \in Current(s) : y.edge.subject = s
  BY CurrentItems
<1>2. IsFirst(b, Current(s))
  BY <1>1 DEF IsFirst, Precedes
<1>3. QED BY <1>1, <1>2, FirstIsUnique DEF Best

(* What is to be closed: of each subject all but the first of the listed.  *)
Closed(y, w, day) == [y EXCEPT !.edge.to = CloseAt(w.edge, day)]

Group(items, x) == {z \in items : z.edge.subject = x.edge.subject}

(* Closures, item by item.                                                 *)
LEMMA ClosuresAre ==
  ASSUME NEW items \in SUBSET Item, NEW day
  PROVE  \A x : x \in Closures(items, day) <=>
           \E y \in items :
             LET w == First(Group(items, y))
             IN /\ y # w /\ MayClose(y.edge, CloseAt(w.edge, day))
                /\ x = Closed(y, w, day)
<1> DEFINE G(s) == {x \in items : x.edge.subject = s}
<1>1. \A y \in items : Group(items, y) = G(y.edge.subject)
  BY DEF Group
<1>2. \A s, x : x \in ClosedOf(G(s), day) <=>
        \E y \in G(s) : /\ y # First(G(s)) /\ MayClose(y.edge, CloseAt(First(G(s)).edge, day))
                        /\ x = Closed(y, First(G(s)), day)
  <2> HIDE DEF G
  <2>1. QED BY DEF ClosedOf, Losers, Closed
<1>3. \A x : x \in Closures(items, day) <=> \E y \in items : x \in ClosedOf(G(y.edge.subject), day)
  BY DEF Closures
<1>4. \A s : \A y \in G(s) : y \in items /\ y.edge.subject = s
  OBVIOUS
<1>5. \A y \in items : y \in G(y.edge.subject)
  OBVIOUS
<1> HIDE DEF G
<1>6. QED BY <1>1, <1>2, <1>3, <1>4, <1>5

(* The listed items of a subject have a first one, of that subject.        *)
LEMMA GroupHasFirst ==
  ASSUME NEW items \in SUBSET Item, IsFiniteSet(items), OnePerPlace(items), NEW y \in items
  PROVE  /\ Group(items, y) \in SUBSET Item
         /\ IsFirst(First(Group(items, y)), Group(items, y))
         /\ First(Group(items, y)) \in items
         /\ First(Group(items, y)).edge.subject = y.edge.subject
<1>1. Group(items, y) \in SUBSET items /\ y \in Group(items, y)
  BY DEF Group
<1>2. IsFiniteSet(Group(items, y)) /\ OnePerPlace(Group(items, y))
  BY <1>1, FS_Subset DEF OnePerPlace
<1>3. IsFirst(First(Group(items, y)), Group(items, y))
  BY <1>1, <1>2, FirstExists
<1>4. QED BY <1>1, <1>3 DEF IsFirst, Group

(* A closed item: it differs in the end of the window, which is not empty. *)
LEMMA ClosedItem ==
  ASSUME NEW y \in Item, NEW w \in Item, NEW day \in Days,
         MayClose(y.edge, CloseAt(w.edge, day)),
         NEW x, x = Closed(y, w, day)
  PROVE  /\ x \in Item /\ x.at = y.at /\ Id(x.edge) = Id(y.edge)
         /\ x.edge.subject = y.edge.subject /\ x.edge.from = y.edge.from
         /\ x.edge.to = CloseAt(w.edge, day)
         /\ x.edge.to # Open /\ x.edge.from < x.edge.to
<1>1. CloseAt(w.edge, day) \in Days
  BY DEF CloseAt, Item, Edge
<1>2. x = [at |-> y.at, edge |-> [y.edge EXCEPT !.to = CloseAt(w.edge, day)]]
  BY DEF Item, Closed
<1>3. x \in Item /\ x.at = y.at /\ x.edge = [y.edge EXCEPT !.to = CloseAt(w.edge, day)]
  BY <1>1, <1>2 DEF Item, Edge
<1>4. y.edge \in Edge
  BY DEF Item
<1>5. /\ x.edge.subject = y.edge.subject /\ x.edge.object = y.edge.object
      /\ x.edge.from = y.edge.from /\ x.edge.to = CloseAt(w.edge, day)
  BY <1>3, <1>4 DEF Edge
<1>6. CloseAt(w.edge, day) \in Nat /\ CloseAt(w.edge, day) > 0
  BY <1>1, ContradictionAssumption DEF Days
<1>7. x.edge.to # Open /\ x.edge.from < x.edge.to
  BY <1>5, <1>6 DEF MayClose, Undated, Open
<1>8. QED BY <1>3, <1>5, <1>7 DEF Id
-----------------------------------------------------------------------------
(* A subset of what the engine holds is as sound.                          *)
LEMMA SubsetSound ==
  ASSUME NEW E, Sound(E), NEW V \in SUBSET E
  PROVE  Sound(V)
BY FS_Subset DEF Sound, Windowed, Unique

(* replace_edges: what is written back takes the place of one subject's    *)
(* edges, with one of them exchanged.                                      *)
LEMMA ExchangeSound ==
  ASSUME Sound(facts), NEW V, Sound(V), NEW e \in Edge, Windowed({e}),
         \A x \in V : x.subject = e.subject
  PROVE  Sound((facts \ Of(e.subject)) \cup Exchanged(V, e))
<1> DEFINE X == Exchanged(V, e)
           K == facts \ Of(e.subject)
<1>1. \A x \in X : \/ x = e /\ \E v \in V : Id(v) = Id(e)
                   \/ x \in V /\ Id(x) # Id(e)
  BY DEF Exchanged
<1>2. X \subseteq Edge /\ K \subseteq Edge
  BY <1>1 DEF Sound
<1>3. IsFiniteSet(X) /\ IsFiniteSet(K)
  <2>1. [x \in V |-> IF Id(x) = Id(e) THEN e ELSE x] \in Surjection(V, X)
    BY DEF Exchanged, Surjection
  <2>2. IsFiniteSet(X)
    BY <2>1, FS_Surjection DEF Sound
  <2>3. IsFiniteSet(K)
    BY FS_Subset DEF Sound
  <2>4. QED BY <2>2, <2>3
<1>4. Windowed(X) /\ Windowed(K)
  BY <1>1 DEF Sound, Windowed
<1>5. \A x \in X : x.subject = e.subject
  BY <1>1
<1>6. \A x \in K : x \in facts /\ x.subject # e.subject
  BY DEF Of
<1>7. Unique(X)
  BY <1>1 DEF Unique, Sound
<1>8. Unique(K)
  BY <1>6 DEF Unique, Sound
<1>9. \A x \in X, y \in K : Id(x) # Id(y)
  BY <1>5, <1>6 DEF Id
<1> HIDE DEF X, K
<1>10. Unique(K \cup X)
  BY <1>7, <1>8, <1>9 DEF Unique
<1>11. IsFiniteSet(K \cup X)
  BY <1>3, FS_Union
<1>12. Sound(K \cup X)
  BY <1>2, <1>4, <1>10, <1>11 DEF Sound, Windowed
<1>13. QED BY <1>12 DEF K, X

(* upsert_edges.                                                           *)
LEMMA UpsertSound ==
  ASSUME Sound(facts), NEW e \in Edge, Windowed({e})
  PROVE  Sound(Upserted(e))
<1> DEFINE K == {x \in facts : Id(x) # Id(e)}
<1>1. K \subseteq Edge /\ IsFiniteSet(K) /\ Windowed(K) /\ Unique(K) /\ \A x \in K : Id(x) # Id(e)
  BY FS_Subset DEF Sound, Windowed, Unique
<1> HIDE DEF K
<1>2. IsFiniteSet(K \cup {e})
  BY <1>1, FS_AddElement
<1>3. Unique(K \cup {e})
  BY <1>1 DEF Unique
<1>4. Sound(K \cup {e})
  BY <1>1, <1>2, <1>3 DEF Sound, Windowed
<1>5. QED BY <1>4 DEF Upserted, K

(* A new edge is of the right shape; its window is open.                   *)
LEMMA NewEdgeSound ==
  ASSUME NEW s \in Subjects, NEW o \in Objects, NEW day \in {Undated} \cup Days,
         NEW by \in {"gate", "ingest", "user", "rule"}
  PROVE  /\ NewEdge(s, o, day, by) \in Edge
         /\ Windowed({NewEdge(s, o, day, by)})
BY DEF NewEdge, Edge, Windowed, Open

(* That somebody wrote is noted of the scans under way, and nothing else.  *)
LEMMA IntrudedIs ==
  ASSUME scan \in [Scans -> {NULL} \cup Scan], NEW who \in {"scan", "other"}
  PROVE  /\ DOMAIN Intruded(who) = Scans
         /\ \A r \in Scans :
              /\ scan[r] = NULL => Intruded(who)[r] = NULL
              /\ scan[r] # NULL =>
                   /\ Intruded(who)[r] \in Scan
                   /\ Intruded(who)[r] # NULL
                   /\ Intruded(who)[r] =
                        [scan[r] EXCEPT !.intruder = IF @ = "other" THEN @ ELSE who]
<1> SUFFICES ASSUME NEW r \in Scans, scan[r] # NULL
             PROVE  [scan[r] EXCEPT !.intruder = IF @ = "other" THEN @ ELSE who] \in Scan
  BY NullAssumption DEF Intruded
<1>1. scan[r] \in Scan
  OBVIOUS
<1>2. QED BY <1>1 DEF Scan

(* Noting who wrote leaves every scan as well-shaped as it was.            *)
LEMMA IntrudedShaped ==
  ASSUME NEW day, scan \in [Scans -> {NULL} \cup Scanning(day)], NEW who \in {"scan", "other"}
  PROVE  Intruded(who) \in [Scans -> {NULL} \cup Scanning(day)]
<1>1. scan \in [Scans -> {NULL} \cup Scan]
  BY DEF Scanning
<1>2. ASSUME NEW r \in Scans PROVE Intruded(who)[r] \in {NULL} \cup Scanning(day)
  <2>1. CASE scan[r] = NULL
    BY <1>1, <2>1, IntrudedIs
  <2>2. CASE scan[r] # NULL
    <3>1. scan[r] \in Scanning(day)
      BY <2>2
    <3>2. /\ Intruded(who)[r] \in Scan
          /\ Intruded(who)[r] = [scan[r] EXCEPT !.intruder = IF @ = "other" THEN @ ELSE who]
      BY <1>1, <2>2, IntrudedIs
    <3> DEFINE c == scan[r]
               d == Intruded(who)[r]
    <3>3. c \in Scan
      BY <3>1 DEF Scanning
    <3>4. /\ d.next = c.next /\ d.day = c.day /\ d.offset = c.offset
          /\ d.listed = c.listed /\ d.todo = c.todo /\ d.view = c.view
      BY <3>2, <3>3 DEF Scan
    <3> HIDE DEF c, d
    <3>5. c \in Scanning(day) /\ d \in Scan => d \in Scanning(day)
      BY <3>4 DEF Scanning
    <3>6. QED BY <3>1, <3>2, <3>4, <3>5 DEF c, d
  <2>3. QED BY <2>1, <2>2
<1>3. Intruded(who) = [r \in Scans |-> Intruded(who)[r]]
  BY DEF Intruded
<1>4. QED BY <1>2, <1>3

(* A page lists places that no earlier page has listed.                    *)
LEMMA PageItems ==
  ASSUME Sound(facts), NEW offset \in Nat
  PROVE  /\ PageFrom(offset) \in SUBSET Item /\ IsFiniteSet(PageFrom(offset))
         /\ OnePerPlace(PageFrom(offset))
         /\ \A x \in PageFrom(offset) : /\ x.edge \in facts /\ x = Listing(x.edge)
                                        /\ offset <= x.at /\ x.at < offset + Page
         /\ \A e \in facts : offset <= Place(Id(e)) /\ Place(Id(e)) < offset + Page =>
              Listing(e) \in PageFrom(offset)
<1> DEFINE there == {x \in facts : Place(Id(x)) \in offset..(offset + Page - 1)}
<1>0. facts \subseteq Edge /\ IsFiniteSet(facts) /\ Unique(facts) /\ Page \in Nat
  BY ContradictionAssumption DEF Sound
<1>1. there \subseteq facts /\ IsFiniteSet(there)
  BY <1>0, FS_Subset
<1>2. PageFrom(offset) = {Listing(e) : e \in there}
  BY DEF PageFrom, Listing
<1>3. \A e \in facts : /\ Place(Id(e)) \in Nat /\ Listing(e) \in Item
                       /\ Listing(e).edge = e /\ Listing(e).at = Place(Id(e))
  BY <1>0, Places DEF Listing, Item
<1>4. \A e \in facts : e \in there <=> offset <= Place(Id(e)) /\ Place(Id(e)) < offset + Page
  BY <1>0, <1>3
<1>5. IsFiniteSet(PageFrom(offset))
  <2>1. [e \in there |-> Listing(e)] \in Surjection(there, PageFrom(offset))
    BY <1>2 DEF Surjection
  <2>2. QED BY <1>1, <2>1, FS_Surjection
<1> HIDE DEF there
<1>6. \A x \in PageFrom(offset) : /\ x.edge \in facts /\ x = Listing(x.edge)
                                  /\ offset <= x.at /\ x.at < offset + Page
  BY <1>1, <1>2, <1>3, <1>4
<1>7. OnePerPlace(PageFrom(offset))
  <2> SUFFICES ASSUME NEW x \in PageFrom(offset), NEW y \in PageFrom(offset), x.at = y.at
               PROVE  x = y
    BY DEF OnePerPlace
  <2>1. Place(Id(x.edge)) = Place(Id(y.edge))
    BY <1>6 DEF Listing
  <2>2. Id(x.edge) = Id(y.edge)
    BY <1>0, <1>6, <2>1, Places
  <2>3. x.edge = y.edge
    BY <1>0, <1>6, <2>2 DEF Unique
  <2>4. QED BY <1>6, <2>3
<1>8. QED BY <1>1, <1>2, <1>3, <1>4, <1>5, <1>6, <1>7
-----------------------------------------------------------------------------
(* The shape of the state is kept: one lemma for each action.              *)
LEMMA ScansShape ==
  ASSUME Shaped
  PROVE  /\ scan \in [Scans -> {NULL} \cup Scan]
         /\ \A r \in Scans : scan[r] # NULL => scan[r] \in Scanning(today) /\ scan[r] \in Scan
BY DEF Shaped, Scanning

(* At the start.                                                           *)
LEMMA InitShaped ==
  Init => Shaped
<1> SUFFICES ASSUME Init PROVE Shaped
  OBVIOUS
<1>1. Sound(facts)
  BY ContradictionAssumption DEF Init, Sound, Windowed
<1>2. today \in Days
  BY ContradictionAssumption DEF Init, Days
<1>3. QED BY <1>1, <1>2 DEF Init, Shaped

(* A scan that begins has nothing in hand.                                 *)
LEMMA ScanBeginShaped ==
  ASSUME Shaped, NEW r \in Scans, ScanBegin(r)
  PROVE  Shaped'
<1> DEFINE c == [next |-> "list", day |-> today, offset |-> 0, listed |-> {}, todo |-> {},
                 view |-> {}, intruder |-> "none"]
<1>1. c \in Scan
  BY DEF Shaped, Scan
<1>2. Sound({}) /\ IsFiniteSet({})
  BY FS_EmptySet DEF Sound, Windowed, Unique
<1>3. c \in Scanning(today)
  <2>1. today <= today
    BY ContradictionAssumption DEF Shaped, Days
  <2>2. QED BY <1>1, <1>2, <2>1 DEF Scanning, Windowed, OnePerPlace
<1>4. scan' = [scan EXCEPT ![r] = c] /\ UNCHANGED <<facts, today, gate, settled>>
  BY DEF ScanBegin
<1> HIDE DEF c
<1>5. QED BY <1>3, <1>4 DEF Shaped

(* What a scan lists in the end: all items of its pages, each place once.  *)
NextPage(c) == {x \in PageFrom(c.offset) : Active(x.edge, c.day)}

(* The items listed so far and the next page: finitely many, each place    *)
(* once.                                                                   *)
LEMMA ListedShape ==
  ASSUME Sound(facts), NEW day, NEW c \in Scanning(day), c \in Scan
  PROVE  /\ c.listed \cup NextPage(c) \in SUBSET Item
         /\ IsFiniteSet(c.listed \cup NextPage(c))
         /\ OnePerPlace(c.listed \cup NextPage(c))
         /\ Windowed({x.edge : x \in c.listed \cup NextPage(c)})
         /\ \A x \in c.listed \cup NextPage(c) : x.at < c.offset + Page
         /\ c.offset + Page \in Nat
<1>1. /\ c.offset \in Nat /\ c.listed \in SUBSET Item /\ Page \in Nat
  BY ContradictionAssumption DEF Scan
<1>2. /\ IsFiniteSet(c.listed) /\ OnePerPlace(c.listed)
      /\ \A x \in c.listed : x.at < c.offset
      /\ Windowed({x.edge : x \in c.listed \cup c.todo})
  BY DEF Scanning
<1>3. /\ NextPage(c) \in SUBSET Item /\ IsFiniteSet(NextPage(c)) /\ OnePerPlace(NextPage(c))
      /\ \A x \in NextPage(c) : x.edge \in facts /\ c.offset <= x.at /\ x.at < c.offset + Page
  <2>1. NextPage(c) \subseteq PageFrom(c.offset)
    BY DEF NextPage
  <2>2. QED BY <1>1, <2>1, PageItems, FS_Subset DEF OnePerPlace
<1>4. \A x \in c.listed \cup NextPage(c) : x.at \in Nat
  BY <1>1, <1>3 DEF Item
<1>5. OnePerPlace(c.listed \cup NextPage(c))
  BY <1>1, <1>2, <1>3, <1>4 DEF OnePerPlace
<1>6. Windowed({x.edge : x \in c.listed \cup NextPage(c)})
  BY <1>2, <1>3 DEF Windowed, Sound
<1>7. IsFiniteSet(c.listed \cup NextPage(c))
  BY <1>2, <1>3, FS_Union
<1>8. \A x \in c.listed \cup NextPage(c) : x.at < c.offset + Page
  BY <1>1, <1>2, <1>3, <1>4
<1>9. QED BY <1>1, <1>3, <1>5, <1>6, <1>7, <1>8

(* Listing a page, and deciding after the last: what is to be closed gets  *)
(* a window that is not empty.                                             *)
LEMMA ListPageShaped ==
  ASSUME Shaped, NEW r \in Scans, ListPage(r)
  PROVE  Shaped'
<1> DEFINE c == scan[r]
           listed == c.listed \cup NextPage(c)
           todo == Closures(listed, c.day)
<1>1. scan[r] # NULL /\ c \in Scanning(today) /\ c \in Scan /\ Sound(facts) /\ c.day \in Days
  BY ScansShape DEF ListPage, Shaped, Scan
<1>2. /\ listed \in SUBSET Item /\ IsFiniteSet(listed) /\ OnePerPlace(listed)
      /\ Windowed({x.edge : x \in listed})
      /\ \A x \in listed : x.at < c.offset + Page
      /\ c.offset + Page \in Nat
  BY <1>1, ListedShape
<1>3. c.next = "list" /\ c.todo \in SUBSET Item
  BY <1>1 DEF ListPage, Scan
<1>4. todo \in SUBSET Item /\ Windowed({x.edge : x \in todo})
  <2> HIDE DEF c, listed
  <2> SUFFICES ASSUME NEW x \in todo PROVE x \in Item /\ x.edge.from < x.edge.to
    BY DEF Windowed
  <2>1. PICK y \in listed :
          LET w == First(Group(listed, y))
          IN /\ MayClose(y.edge, CloseAt(w.edge, c.day))
             /\ x = Closed(y, w, c.day)
    BY <1>2, ClosuresAre
  <2>2. First(Group(listed, y)) \in Item
    BY <1>2, GroupHasFirst
  <2>3. QED BY <1>1, <1>2, <2>1, <2>2, ClosedItem
<1>5. UNCHANGED <<facts, today, gate>> /\ settled' \in BOOLEAN
  BY DEF ListPage, Shaped
<1>6. Sound(c.view) /\ c.view \in SUBSET Edge
  BY <1>1 DEF Scanning, Scan
<1>7. \/ scan' = [scan EXCEPT ![r].offset = c.offset + Page, ![r].listed = listed]
      \/ /\ todo # {}
         /\ scan' = [scan EXCEPT ![r].next = "read", ![r].todo = todo,
                                 ![r].listed = {}, ![r].offset = 0]
      \/ scan' = [scan EXCEPT ![r] = NULL]
  BY DEF ListPage, NextPage
<1>8. scan' \in [Scans -> {NULL} \cup Scanning(today)]
  <2>1. CASE scan' = [scan EXCEPT ![r].offset = c.offset + Page, ![r].listed = listed]
    <3> DEFINE d == [c EXCEPT !.offset = c.offset + Page, !.listed = listed]
    <3>1. scan' = [scan EXCEPT ![r] = d]
      BY <2>1 DEF Shaped
    <3>2. d \in Scanning(today)
      <4> HIDE DEF c, listed
      <4>1. /\ d \in Scan
            /\ d.next = c.next /\ d.day = c.day /\ d.offset = c.offset + Page
            /\ d.listed = listed /\ d.todo = c.todo /\ d.view = c.view
        BY <1>1, <1>2 DEF Scan
      <4>2. Windowed({x.edge : x \in listed \cup c.todo})
        BY <1>1, <1>2 DEF Scanning, Windowed
      <4>3. /\ c.day <= today /\ Sound(c.view)
            /\ c.next # "write" => c.view = {}
        BY <1>1 DEF Scanning
      <4> HIDE DEF d
      <4>4. QED BY <1>2, <1>3, <4>1, <4>2, <4>3 DEF Scanning
    <3>3. QED BY <3>1, <3>2 DEF Shaped
  <2>2. CASE /\ todo # {}
             /\ scan' = [scan EXCEPT ![r].next = "read", ![r].todo = todo,
                                     ![r].listed = {}, ![r].offset = 0]
    <3> DEFINE d == [c EXCEPT !.next = "read", !.todo = todo, !.listed = {}, !.offset = 0]
    <3>1. scan' = [scan EXCEPT ![r] = d]
      BY <2>2 DEF Shaped
    <3>2. d \in Scanning(today)
      <4> HIDE DEF c, todo
      <4>1. c.view = {}
        BY <1>1, <1>3 DEF Scanning
      <4>2. /\ d \in Scan
            /\ d.next = "read" /\ d.day = c.day /\ d.offset = 0
            /\ d.listed = {} /\ d.todo = todo /\ d.view = {}
        BY <1>1, <1>4, <4>1 DEF Scan
      <4>3. c.day <= today /\ Sound({}) /\ IsFiniteSet({})
        BY <1>1, <1>6, <4>1, FS_EmptySet DEF Scanning
      <4>4. Windowed({x.edge : x \in {} \cup todo})
        BY <1>4
      <4> HIDE DEF d
      <4>5. QED BY <2>2, <4>2, <4>3, <4>4 DEF Scanning, OnePerPlace
    <3>3. QED BY <3>1, <3>2 DEF Shaped
  <2>3. CASE scan' = [scan EXCEPT ![r] = NULL]
    BY <2>3 DEF Shaped
  <2>4. QED BY <1>7, <2>1, <2>2, <2>3
<1>9. QED BY <1>5, <1>8 DEF Shaped
(* What a scan reads of a subject is a sound set of edges of that subject. *)
LEMMA RescanShaped ==
  ASSUME Shaped, NEW r \in Scans, Rescan(r)
  PROVE  Shaped'
<1> DEFINE c == scan[r]
<1>1. c # NULL /\ c \in Scanning(today) /\ c \in Scan /\ Sound(facts) /\ c.next = "read"
  BY ScansShape DEF Rescan, Shaped
<1>2. PICK x \in c.todo :
        /\ IsFirst(x, c.todo)
        /\ scan' = [scan EXCEPT ![r].next = "write", ![r].view = NeighborsOf(x.edge.subject)]
  BY DEF Rescan
<1> DEFINE d == [c EXCEPT !.next = "write", !.view = NeighborsOf(x.edge.subject)]
<1>3. scan' = [scan EXCEPT ![r] = d]
  BY <1>2 DEF Shaped
<1>4. /\ NeighborsOf(x.edge.subject) \in SUBSET facts
      /\ \A e \in NeighborsOf(x.edge.subject) : e.subject = x.edge.subject
  BY DEF NeighborsOf, Of
<1>5. Sound(NeighborsOf(x.edge.subject))
  BY <1>1, <1>4, SubsetSound
<1>6. NeighborsOf(x.edge.subject) \in SUBSET Edge
  BY <1>5 DEF Sound
<1> HIDE DEF c
<1>7. /\ d \in Scan
      /\ d.next = "write" /\ d.day = c.day /\ d.offset = c.offset
      /\ d.listed = c.listed /\ d.todo = c.todo /\ d.view = NeighborsOf(x.edge.subject)
  BY <1>1, <1>6 DEF Scan
<1>8. \A y \in c.todo : IsFirst(y, c.todo) => y = x
  BY <1>1, <1>2, FirstIsUnique DEF Scan
<1> HIDE DEF d
<1>9. /\ c.day <= today
      /\ IsFiniteSet(c.listed) /\ OnePerPlace(c.listed)
      /\ \A y \in c.listed : y.at < c.offset
      /\ Windowed({y.edge : y \in c.listed \cup c.todo})
      /\ c.todo # {}
  BY <1>1, <1>2 DEF Scanning
<1>10. d \in Scanning(today)
  BY <1>4, <1>5, <1>7, <1>8, <1>9 DEF Scanning
<1>11. UNCHANGED <<facts, today, gate, settled>>
  BY DEF Rescan
<1>12. QED BY <1>3, <1>10, <1>11 DEF Shaped

(* A scan's write leaves a sound relation.                                 *)
LEMMA RewriteSound ==
  ASSUME Shaped, NEW r \in Scans, scan[r] # NULL, NEW x \in scan[r].todo, Rewrite(r, x)
  PROVE  Sound(facts')
<1>1. /\ scan[r] \in Scanning(today) /\ scan[r] \in Scan /\ Sound(facts)
      /\ IsFirst(x, scan[r].todo)
      /\ facts' = (facts \ Of(x.edge.subject)) \cup Exchanged(scan[r].view, x.edge)
  BY ScansShape DEF Rewrite, Shaped
<1>2. x \in Item /\ x.edge \in Edge
  BY <1>1 DEF Scan, Item
<1>3. /\ Sound(scan[r].view) /\ Windowed({y.edge : y \in scan[r].listed \cup scan[r].todo})
      /\ \A e \in scan[r].view : e.subject = x.edge.subject
  BY <1>1 DEF Scanning
<1>4. Windowed({x.edge})
  BY <1>3 DEF Windowed
<1>5. QED BY <1>1, <1>2, <1>3, <1>4, ExchangeSound

(* A scan's write leaves every scan well-shaped.                           *)
LEMMA AfterShaped ==
  ASSUME Shaped, NEW r \in Scans, NEW x
  PROVE  After(r, x) \in [Scans -> {NULL} \cup Scanning(today)]
BY IntrudedShaped DEF After, Shaped

(* A scan's write, and what is left for it to do.                          *)
LEMMA ReplaceShaped ==
  ASSUME Shaped, NEW r \in Scans, Replace(r)
  PROVE  Shaped'
<1> DEFINE c == scan[r]
<1>1. c # NULL /\ c \in Scanning(today) /\ c \in Scan /\ c.next = "write"
  BY ScansShape DEF Replace
<1>2. PICK x \in c.todo :
        /\ Rewrite(r, x)
        /\ scan' = [After(r, x) EXCEPT ![r] =
             IF c.todo \ {x} = {} THEN NULL
             ELSE [c EXCEPT !.next = "read", !.todo = c.todo \ {x}, !.view = {},
                            !.intruder = IF Estranged(r, x) THEN "other" ELSE c.intruder]]
        /\ settled' = (c.todo \ {x} = {} /\ c.intruder = "none" /\ ~Estranged(r, x))
  BY DEF Replace
<1> DEFINE d == [c EXCEPT !.next = "read", !.todo = c.todo \ {x}, !.view = {},
                          !.intruder = IF Estranged(r, x) THEN "other" ELSE c.intruder]
<1>3. Sound(facts')
  BY <1>1, <1>2, RewriteSound
<1>4. c.todo \ {x} # {} => d \in Scanning(today)
  <2> HIDE DEF c
  <2>1. /\ d \in Scan
        /\ d.next = "read" /\ d.day = c.day /\ d.offset = c.offset
        /\ d.listed = c.listed /\ d.todo = c.todo \ {x} /\ d.view = {}
    BY <1>1 DEF Scan
  <2>2. /\ c.day <= today
        /\ IsFiniteSet(c.listed) /\ OnePerPlace(c.listed)
        /\ \A y \in c.listed : y.at < c.offset
        /\ Windowed({y.edge : y \in c.listed \cup c.todo})
    BY <1>1 DEF Scanning
  <2>3. Windowed({y.edge : y \in c.listed \cup (c.todo \ {x})})
    BY <2>2 DEF Windowed
  <2>4. Sound({})
    BY FS_EmptySet DEF Sound, Windowed, Unique
  <2> HIDE DEF d
  <2>5. QED BY <2>1, <2>2, <2>3, <2>4 DEF Scanning
<1> HIDE DEF c, d
<1>5. scan' \in [Scans -> {NULL} \cup Scanning(today)]
  BY <1>2, <1>4, AfterShaped DEF c, d
<1>6. UNCHANGED <<today, gate>> /\ settled' \in BOOLEAN
  BY <1>2 DEF Replace
<1>7. QED BY <1>3, <1>5, <1>6 DEF Shaped

(* A scan that gives up, with or without a last write.                     *)
LEMMA ScanFailsShaped ==
  ASSUME Shaped, NEW r \in Scans, ScanFails(r)
  PROVE  Shaped'
<1>1. scan[r] # NULL /\ UNCHANGED <<today, gate>>
  BY DEF ScanFails
<1>2. CASE scan' = [scan EXCEPT ![r] = NULL] /\ UNCHANGED <<facts, settled>>
  BY <1>1, <1>2 DEF Shaped
<1>3. ASSUME NEW x \in scan[r].todo, Rewrite(r, x),
             scan' = [After(r, x) EXCEPT ![r] = NULL], settled' = FALSE
      PROVE  Shaped'
  <2>1. Sound(facts')
    BY <1>1, <1>3, RewriteSound
  <2>2. scan' \in [Scans -> {NULL} \cup Scanning(today)]
    BY <1>3, AfterShaped
  <2>3. QED BY <1>1, <1>3, <2>1, <2>2 DEF Shaped
<1>4. QED BY <1>2, <1>3 DEF ScanFails

(* The gate's new edge is undated and open.                                *)
LEMMA GateCheckShaped ==
  ASSUME Shaped, NEW s \in Subjects, NEW o \in Objects, GateCheck(s, o)
  PROVE  Shaped'
<1> DEFINE g == [kind |-> "assert", edge |-> NewEdge(s, o, Undated, "gate"), view |-> {}]
<1>1. NewEdge(s, o, Undated, "gate") \in Edge /\ Windowed({NewEdge(s, o, Undated, "gate")})
  BY NewEdgeSound
<1>2. g \in Materialization
  BY <1>1 DEF Materialization
<1>3. Sound({})
  BY FS_EmptySet DEF Sound, Windowed, Unique
<1>4. g \in Holding
  BY <1>1, <1>2, <1>3 DEF Holding, NewEdge
<1>5. gate' = g /\ UNCHANGED <<facts, today, scan, settled>>
  BY DEF GateCheck
<1> HIDE DEF g
<1>6. QED BY <1>4, <1>5 DEF Shaped

(* What a retirement has read is of one subject, and what it will write    *)
(* has a window that is not empty.                                         *)
LEMMA RetireScanShaped ==
  ASSUME Shaped, NEW s \in Subjects, NEW o \in Objects, RetireScan(s, o)
  PROVE  Shaped'
<1>1. PICK e \in NeighborsOf(s) :
        /\ e.to = Open
        /\ gate' = [kind |-> "retire", edge |-> Retired(e), view |-> NeighborsOf(s)]
  BY DEF RetireScan
<1>2. UNCHANGED <<facts, today, scan, settled>>
  BY DEF RetireScan
<1>3. e \in Edge /\ e.subject = s /\ NeighborsOf(s) \in SUBSET facts /\ \A x \in NeighborsOf(s) : x.subject = s
  BY DEF NeighborsOf, Of, Shaped, Sound
<1>4. Sound(NeighborsOf(s)) /\ NeighborsOf(s) \in SUBSET Edge
  BY <1>3, SubsetSound DEF Shaped, Sound
<1>5. Retired(e) \in Edge /\ Retired(e).subject = s /\ Windowed({Retired(e)})
  BY <1>1, <1>3 DEF Retired, Edge, Shaped, Windowed
<1>6. gate' \in Holding
  <2>1. gate' \in Materialization
    BY <1>1, <1>4, <1>5 DEF Materialization
  <2>2. QED BY <1>1, <1>3, <1>4, <1>5, <2>1 DEF Holding
<1>7. QED BY <1>2, <1>6 DEF Shaped

(* A write that is not a scan's, if what it writes is sound.               *)
LEMMA WriteShaped ==
  ASSUME Shaped, NEW E, Sound(E), Write(E), today' = today, gate' \in {NULL, gate}
  PROVE  Shaped'
<1>1. scan' \in [Scans -> {NULL} \cup Scanning(today)]
  BY IntrudedShaped DEF Write, Shaped
<1>2. QED BY <1>1 DEF Write, Shaped

(* The gate's upsert.                                                      *)
LEMMA GateWriteShaped ==
  ASSUME Shaped, GateWrite
  PROVE  Shaped'
<1>1. gate \in Holding /\ Sound(facts)
  BY DEF GateWrite, Shaped
<1>2. Sound(Upserted(gate.edge))
  BY <1>1, UpsertSound DEF Holding, Materialization
<1>3. QED BY <1>2, WriteShaped DEF GateWrite

(* The retirement's write-back.                                            *)
LEMMA RetireWriteShaped ==
  ASSUME Shaped, RetireWrite
  PROVE  Shaped'
<1>1. gate \in Holding /\ Sound(facts)
  BY DEF RetireWrite, Shaped
<1>2. Sound((facts \ Of(gate.edge.subject)) \cup Exchanged(gate.view, gate.edge))
  BY <1>1, ExchangeSound DEF Holding, Materialization
<1>3. QED BY <1>2, WriteShaped DEF RetireWrite

(* An ingested batch, or a user's link.                                    *)
LEMMA ArrivesShaped ==
  ASSUME Shaped, NEW s \in Subjects, NEW o \in Objects, NEW by \in {"ingest", "user"},
         NEW day \in {Undated} \cup Days, Arrives(s, o, by, day)
  PROVE  Shaped'
<1>1. Sound(Upserted(NewEdge(s, o, day, by)))
  BY NewEdgeSound, UpsertSound DEF Shaped
<1>2. QED BY <1>1, WriteShaped DEF Arrives

(* Midnight: no scan is of a later day.                                    *)
LEMMA TickShaped ==
  ASSUME Shaped, Tick
  PROVE  Shaped'
<1>1. today' = today + 1 /\ today' \in Days /\ today \in Nat
  BY ContradictionAssumption DEF Tick, Shaped, Days
<1>2. \A c \in Scanning(today) : c \in Scanning(today')
  <2>1. \A c \in Scan : c.day \in Nat
    BY ContradictionAssumption DEF Scan, Days
  <2>2. \A c \in Scan : c.day <= today => c.day <= today'
    BY <1>1, <2>1
  <2>3. QED BY <2>2 DEF Scanning
<1>3. scan' \in [Scans -> {NULL} \cup Scanning(today)]
  BY IntrudedShaped DEF Tick, Shaped
<1>4. QED BY <1>1, <1>2, <1>3 DEF Shaped, Tick
(* All steps together.                                                     *)
LEMMA ShapedStep ==
  ASSUME Shaped, [Next]_vars
  PROVE  Shaped'
<1>1. CASE UNCHANGED vars
  BY <1>1 DEF vars, Shaped
<1>2. ASSUME NEW r \in Scans, Detector(r) PROVE Shaped'
  BY <1>2, ScanBeginShaped, ListPageShaped, RescanShaped, ReplaceShaped, ScanFailsShaped
     DEF Detector
<1>3. ASSUME NEW p \in Proposed, GateCheck(p[1], p[2]) \/ RetireScan(p[1], p[2]) PROVE Shaped'
  <2>1. p[1] \in Subjects /\ p[2] \in Objects
    BY ContradictionAssumption
  <2>2. QED BY <1>3, <2>1, GateCheckShaped, RetireScanShaped
<1>4. ASSUME NEW a \in Arriving, Arrives(a[1], a[2], a[3], a[4]) PROVE Shaped'
  <2>1. a[1] \in Subjects /\ a[2] \in Objects /\ a[3] \in {"ingest", "user"} /\ a[4] \in {Undated} \cup Days
    BY ContradictionAssumption
  <2>2. QED BY <1>4, <2>1, ArrivesShaped
<1>5. CASE GateWrite \/ RetireWrite \/ Tick
  BY <1>5, GateWriteShaped, RetireWriteShaped, TickShaped
<1>6. QED BY <1>1, <1>2, <1>3, <1>4, <1>5 DEF Next, Others

-----------------------------------------------------------------------------
(* What a scan would list depends on the relation and the day alone.       *)
LEMMA SameListing ==
  ASSUME UNCHANGED <<facts, today>>
  PROVE  /\ \A i : Place(i)' = Place(i)
         /\ \A e : Listing(e)' = Listing(e)
         /\ \A s : /\ Of(s)' = Of(s) /\ Ids(s)' = Ids(s) /\ Current(s)' = Current(s)
                   /\ Best(s)' = Best(s) /\ Closable(s)' = Closable(s)
                   /\ NeighborsOf(s)' = NeighborsOf(s)
<1>1. Stored' = Stored
  BY DEF Stored
<1>2. \A i : Place(i)' = Place(i)
  BY <1>1 DEF Place
<1>3. \A e : Listing(e)' = Listing(e)
  BY <1>2 DEF Listing
<1>4. \A s : Of(s)' = Of(s)
  BY DEF Of
<1>5. \A s : Current(s)' = Current(s)
  BY <1>3, <1>4 DEF Current
<1>6. \A s : Best(s)' = Best(s)
  BY <1>5 DEF Best
<1>7. \A s : Closable(s)' = Closable(s)
  BY <1>5, <1>6 DEF Closable
<1>8. \A s : Ids(s)' = Ids(s)
  BY <1>4 DEF Ids
<1>9. \A s : NeighborsOf(s)' = NeighborsOf(s)
  BY <1>4 DEF NeighborsOf
<1>10. QED BY <1>2, <1>3, <1>4, <1>5, <1>6, <1>7, <1>8, <1>9

(* What is known of the best stays true while the best and the places do.  *)
SameBest ==
  /\ UNCHANGED today
  /\ \A i : Place(i)' = Place(i)
  /\ \A s : /\ Ids(s)' = Ids(s)
            /\ Current(s)' # {} <=> Current(s) # {}
            /\ Current(s) # {} => Best(s)' = Best(s)

(* Then an item below the best stays below it, and a clean scan stays      *)
(* clean.                                                                  *)
LEMMA StillClean ==
  ASSUME SameBest
  PROVE  /\ \A y : Below(y) => Below(y)'
         /\ \A c : CleanScan(c) => CleanScan(c)'
<1>1. \A y : Below(y) => Below(y)'
  BY DEF SameBest, Below
<1>2. \A e : Below(Listing(e)) => Below(Listing(e))'
  BY DEF SameBest, Below, Listing
<1>3. ASSUME NEW c, CleanScan(c) PROVE CleanScan(c)'
  <2>1. (c.day = today)' /\ \A x \in c.listed : Below(x)'
    BY <1>1, <1>3 DEF CleanScan, SameBest
  <2>2. c.next = "list" => \A s \in Subjects :
          Current(s)' # {} /\ Best(s)'.at < c.offset => Best(s)' \in c.listed
    BY <1>3 DEF CleanScan, SameBest
  <2>3. \A x \in c.todo : /\ Below(x)' /\ x # Best(x.edge.subject)'
                          /\ ~Active(x.edge, today')
    BY <1>1, <1>3 DEF CleanScan, SameBest, Below
  <2>4. ASSUME c.next = "write", NEW x \in c.todo, IsFirst(x, c.todo)
        PROVE  /\ Best(x.edge.subject)'.edge.object # x.edge.subject =>
                    Best(x.edge.subject)'.edge \in c.view
               /\ {Id(e) : e \in c.view} = NeighborIds(x.edge.subject)'
               /\ \A e \in c.view : Active(e, today') => Below(Listing(e))'
    <3>1. NeighborIds(x.edge.subject)' = NeighborIds(x.edge.subject)
      BY DEF SameBest, NeighborIds
    <3>2. /\ Best(x.edge.subject)' = Best(x.edge.subject)
          /\ today' = today
      BY <1>3, <2>4 DEF CleanScan, SameBest, Below
    <3>3. /\ Best(x.edge.subject).edge.object # x.edge.subject =>
               Best(x.edge.subject).edge \in c.view
          /\ {Id(e) : e \in c.view} = NeighborIds(x.edge.subject)
          /\ \A e \in c.view : Active(e, today) => Below(Listing(e))
      BY <1>3, <2>4 DEF CleanScan
    <3>4. \A e \in c.view : Active(e, today') => Below(Listing(e))'
      BY <1>2, <3>2, <3>3
    <3>5. QED BY <3>1, <3>2, <3>3, <3>4
  <2>5. QED BY <2>1, <2>2, <2>3, <2>4 DEF CleanScan
<1>4. QED BY <1>1, <1>3

(* Who wrote is a history: it is not what a scan knows.                    *)
LEMMA HistoryOnly ==
  ASSUME NEW c \in Scan, NEW d \in Scan,
         d.next = c.next, d.day = c.day, d.offset = c.offset, d.listed = c.listed,
         d.todo = c.todo, d.view = c.view
  PROVE  CleanScan(c) => CleanScan(d)
BY DEF CleanScan
-----------------------------------------------------------------------------
(* A page of a clean scan: what it lists is current, and it lists the best *)
(* that it comes past.                                                     *)
LEMMA PageIsCurrent ==
  ASSUME Sound(facts), NEW c \in Scan, c.day = today
  PROVE  /\ \A x \in NextPage(c) : x \in Current(x.edge.subject) /\ Below(x)
         /\ \A s : \A y \in Current(s) :
              c.offset <= y.at /\ y.at < c.offset + Page => y \in NextPage(c)
<1>1. c.offset \in Nat
  BY DEF Scan
<1>2. ASSUME NEW x \in NextPage(c) PROVE x \in Current(x.edge.subject) /\ Below(x)
  <2>1. x.edge \in facts /\ x = Listing(x.edge) /\ Active(x.edge, today)
    BY <1>1, PageItems DEF NextPage
  <2>2. x \in Current(x.edge.subject)
    BY <2>1 DEF Current, Of
  <2>3. QED BY <2>2, BestIsBest
<1>3. ASSUME NEW s, NEW y \in Current(s), c.offset <= y.at, y.at < c.offset + Page
      PROVE  y \in NextPage(c)
  <2>1. y.edge \in facts /\ Active(y.edge, today) /\ y = Listing(y.edge)
    BY CurrentItems
  <2>2. y.at = Place(Id(y.edge))
    BY <2>1 DEF Listing
  <2>3. y \in PageFrom(c.offset)
    BY <1>1, <1>3, <2>1, <2>2, PageItems
  <2>4. QED BY <2>1, <2>3 DEF NextPage
<1>4. QED BY <1>2, <1>3

(* Between the pages.                                                      *)
LEMMA ListOn ==
  ASSUME Sound(facts), NEW c \in Scan, c \in Scanning(today), c.next = "list", CleanScan(c)
  PROVE  /\ \A x \in c.listed \cup NextPage(c) : Below(x)
         /\ \A s : Current(s) # {} /\ s \in Subjects /\ Best(s).at < c.offset + Page =>
              Best(s) \in c.listed \cup NextPage(c)
         /\ LoneScan(c) => \A s \in Subjects : \A y \in Current(s) :
              y.at < c.offset + Page => y \in c.listed \cup NextPage(c)
<1>1. c.day = today /\ c.offset \in Nat /\ Page \in Nat
  BY ContradictionAssumption DEF CleanScan, Scan
<1>2. \A x \in c.listed \cup NextPage(c) : Below(x)
  BY <1>1, PageIsCurrent DEF CleanScan
<1>3. \A s : \A y \in Current(s) : y.at \in Nat
  BY CurrentItems DEF Item
<1>4. \A s : Current(s) # {} => Best(s) \in Current(s)
  BY BestIsBest
<1>5. \A s : \A y \in Current(s) : y.at < c.offset + Page => y \in NextPage(c) \/ y.at < c.offset
  BY <1>1, <1>3, PageIsCurrent
<1>6. QED BY <1>2, <1>4, <1>5 DEF CleanScan, LoneScan

(* After the last page: of each subject the first of the listed is the     *)
(* best that there is.                                                     *)
LEMMA ListedBest ==
  ASSUME Sound(facts), NEW c \in Scan, c \in Scanning(today), c.next = "list", CleanScan(c),
         Cardinality(facts) < c.offset + Page
  PROVE  /\ \A s \in Subjects : Current(s) # {} => Best(s) \in c.listed \cup NextPage(c)
         /\ \A y \in c.listed \cup NextPage(c) :
              /\ Below(y) /\ y.edge.subject \in Subjects
              /\ First(Group(c.listed \cup NextPage(c), y)) = Best(y.edge.subject)
         /\ LoneScan(c) =>
              \A s \in Subjects : Current(s) \subseteq c.listed \cup NextPage(c)
<1> DEFINE L == c.listed \cup NextPage(c)
<1>1. c.offset \in Nat /\ Page \in Nat
  BY ContradictionAssumption DEF Scan
<1>2. facts \subseteq Edge /\ IsFiniteSet(facts)
  BY DEF Sound
<1>3. \A s : \A y \in Current(s) : y.at < c.offset + Page
  <2>1. \A s : \A y \in Current(s) : y.edge \in facts /\ y = Listing(y.edge)
    BY CurrentItems
  <2>2. \A s : \A y \in Current(s) : y.at = Place(Id(y.edge)) /\ y.edge \in facts
    BY <2>1 DEF Listing
  <2>3. QED BY <1>1, <1>2, <2>2, Places
<1>4. \A s \in Subjects : Current(s) # {} => Best(s) \in L
  BY <1>3, ListOn, BestIsBest
<1>5. L \in SUBSET Item /\ \A y \in L : Below(y) /\ y.edge.subject \in Subjects
  <2>1. L \in SUBSET Item
    BY ListedShape
  <2>2. \A y \in Item : y.edge.subject \in Subjects
    BY DEF Item, Edge
  <2>3. QED BY <2>1, <2>2, ListOn
<1>6. ASSUME NEW y \in L PROVE First(Group(L, y)) = Best(y.edge.subject)
  <2> DEFINE b == Best(y.edge.subject)
  <2>1. Current(y.edge.subject) # {} /\ y.edge.subject \in Subjects
    BY <1>5 DEF Below
  <2>2. b \in L /\ b.edge.subject = y.edge.subject
    BY <1>4, <2>1, BestIsBest, CurrentItems
  <2>3. \A z \in Group(L, y) : z \in L /\ z.edge.subject = y.edge.subject
    BY DEF Group
  <2>4. b \in Group(L, y) /\ Group(L, y) \in SUBSET Item
    BY <1>5, <2>2, <2>3 DEF Group
  <2>5. \A z \in Group(L, y) : z # b => Ranked(b, z)
    BY <1>5, <2>3 DEF Below
  <2>6. IsFirst(b, Group(L, y))
    BY <2>2, <2>3, <2>4, <2>5 DEF IsFirst, Precedes
  <2>7. QED BY <2>4, <2>6, FirstIsUnique
<1>7. LoneScan(c) => \A s \in Subjects : Current(s) \subseteq L
  BY <1>3, ListOn
<1>8. QED BY <1>4, <1>5, <1>6, <1>7

(* What it decides: to close none that is best, and, if nobody wrote, all  *)
(* others that it may.                                                     *)
LEMMA Decided ==
  ASSUME Sound(facts), today \in Days, NEW c \in Scan, c \in Scanning(today), c.next = "list",
         CleanScan(c), Cardinality(facts) < c.offset + Page
  PROVE  /\ \A x \in Closures(c.listed \cup NextPage(c), c.day) :
              /\ Below(x) /\ x # Best(x.edge.subject) /\ ~Active(x.edge, today)
         /\ LoneScan(c) => \A s \in Subjects : \A y \in Closable(s) :
              \E x \in Closures(c.listed \cup NextPage(c), c.day) : Id(x.edge) = Id(y.edge)
<1> DEFINE L == c.listed \cup NextPage(c)
<1>1. L \in SUBSET Item /\ c.day = today
  BY ListedShape DEF CleanScan
<1>2. \A y \in L : /\ Below(y) /\ y.edge.subject \in Subjects
                   /\ First(Group(L, y)) = Best(y.edge.subject)
  BY ListedBest
<1> HIDE DEF L
<1>3. \A x : x \in Closures(L, today) <=>
        \E y \in L :
          LET b == Best(y.edge.subject)
          IN /\ y # b /\ MayClose(y.edge, CloseAt(b.edge, today))
             /\ x = Closed(y, b, today)
  BY <1>1, <1>2, ClosuresAre
<1>4. ASSUME NEW x \in Closures(L, today)
      PROVE  Below(x) /\ x # Best(x.edge.subject) /\ ~Active(x.edge, today)
  <2>1. PICK y \in L : /\ y # Best(y.edge.subject)
                       /\ MayClose(y.edge, CloseAt(Best(y.edge.subject).edge, today))
                       /\ x = Closed(y, Best(y.edge.subject), today)
    BY <1>3
  <2> DEFINE b == Best(y.edge.subject)
  <2>2. Below(y) /\ y \in Item
    BY <1>1, <1>2
  <2>3. Current(y.edge.subject) # {}
    BY <2>2 DEF Below
  <2>4. b \in Item /\ b.edge \in Edge /\ Active(b.edge, today)
    <3>1. b \in Current(y.edge.subject)
      BY <2>3, BestIsBest
    <3>2. b \in Item /\ Active(b.edge, today)
      BY <3>1, CurrentItems
    <3>3. QED BY <3>2 DEF Item
  <2>5. /\ x \in Item /\ x.at = y.at /\ Id(x.edge) = Id(y.edge)
        /\ x.edge.subject = y.edge.subject /\ x.edge.from = y.edge.from
        /\ x.edge.to = CloseAt(b.edge, today) /\ x.edge.to # Open
    BY <2>1, <2>2, <2>4, ClosedItem
  <2>6. Ranked(b, y)
    BY <2>1, <2>2 DEF Below
  <2>7. Ranked(b, x)
    BY <2>5, <2>6 DEF Ranked, Newer
  <2>8. b # x
    BY <2>4, <2>5, <2>7, RankedOrder
  <2>9. ~Active(x.edge, today)
    <3>1. today \in Nat /\ b.edge.from \in Nat
      BY <2>4, EdgeNumbers, ContradictionAssumption DEF Days
    <3>2. CloseAt(b.edge, today) <= today
      BY <2>4, <3>1 DEF CloseAt, Active
    <3>3. CloseAt(b.edge, today) \in Nat
      BY <3>1 DEF CloseAt
    <3>4. QED BY <2>5, <3>1, <3>2, <3>3 DEF Active
  <2>10. QED BY <2>2, <2>5, <2>7, <2>8, <2>9 DEF Below
<1>5. ASSUME LoneScan(c), NEW s \in Subjects, NEW y \in Closable(s)
      PROVE  \E x \in Closures(L, today) : Id(x.edge) = Id(y.edge)
  <2>1. /\ y \in Current(s) /\ y # Best(s)
        /\ MayClose(y.edge, CloseAt(Best(s).edge, today))
    BY DEF Closable
  <2>2. y \in L /\ y.edge.subject = s
    BY <1>5, <2>1, ListedBest, CurrentItems DEF L
  <2>3. y \in Item /\ Best(s) \in Item
    <3>1. Current(s) \in SUBSET Item
      BY CurrentItems
    <3>2. Best(s) \in Current(s)
      BY <2>1, BestIsBest
    <3>3. QED BY <2>1, <3>1, <3>2
  <2> DEFINE x == Closed(y, Best(s), today)
  <2>4. x \in Closures(L, today)
    BY <1>3, <2>1, <2>2
  <2>5. Id(x.edge) = Id(y.edge)
    BY <2>1, <2>3, ClosedItem
  <2>6. QED BY <2>4, <2>5
<1>6. QED BY <1>1, <1>4, <1>5 DEF L
-----------------------------------------------------------------------------
(* Steps that write nothing.                                               *)
Known ==
  CleanScans /\ LoneScans /\ NothingToClose

(* A step that leaves the relation and the day alone changes nothing of    *)
(* what scans know.                                                        *)
LEMMA SameListingSameBest ==
  ASSUME UNCHANGED <<facts, today>>
  PROVE  /\ SameBest
         /\ \A c : LoneScan(c) => LoneScan(c)'
         /\ (\A s \in Subjects : Closable(s) = {}) => (\A s \in Subjects : Closable(s) = {})'
<1>1. /\ \A i : Place(i)' = Place(i)
      /\ \A s : /\ Of(s)' = Of(s) /\ Ids(s)' = Ids(s) /\ Current(s)' = Current(s)
                /\ Best(s)' = Best(s) /\ Closable(s)' = Closable(s)
                /\ NeighborsOf(s)' = NeighborsOf(s)
  BY SameListing
<1>2. SameBest
  BY <1>1 DEF SameBest
<1>3. \A c : LoneScan(c) => LoneScan(c)'
  BY <1>1 DEF LoneScan
<1>4. QED BY <1>1, <1>2, <1>3

(* Such a step of one scan: the others know what they knew.                *)
LEMMA OneScanMoves ==
  ASSUME CleanScans, LoneScans, UNCHANGED <<facts, today>>,
         scan \in [Scans -> {NULL} \cup Scan],
         NEW r \in Scans, NEW d, scan' = [scan EXCEPT ![r] = d],
         d # NULL /\ d.intruder # "other" => CleanScan(d),
         d # NULL /\ d.intruder = "none" => LoneScan(d)
  PROVE  CleanScans' /\ LoneScans'
<1>1. /\ \A c : CleanScan(c) => CleanScan(c)'
      /\ \A c : LoneScan(c) => LoneScan(c)'
  BY SameListingSameBest, StillClean
<1>2. ASSUME NEW q \in Scans, NEW c, c = scan'[q], c # NULL
      PROVE  /\ c.intruder # "other" => CleanScan(c)'
             /\ c.intruder = "none" => LoneScan(c)'
  <2>1. CASE q = r
    BY <1>1, <1>2, <2>1
  <2>2. CASE q # r
    <3>1. c = scan[q]
      BY <1>2, <2>2
    <3>2. QED BY <1>1, <1>2, <3>1 DEF CleanScans, LoneScans
  <2>3. QED BY <2>1, <2>2
<1>3. QED BY <1>2 DEF CleanScans, LoneScans

(* A scan that begins has come past nothing, and has missed nothing.       *)
LEMMA ScanBeginKnown ==
  ASSUME Shaped, Known, NEW r \in Scans, ScanBegin(r)
  PROVE  Known'
<1> DEFINE d == [next |-> "list", day |-> today, offset |-> 0, listed |-> {}, todo |-> {},
                 view |-> {}, intruder |-> "none"]
<1>1. scan' = [scan EXCEPT ![r] = d] /\ UNCHANGED <<facts, today, gate, settled>>
  BY DEF ScanBegin
<1>2. \A s : \A y \in Current(s) : ~(y.at < 0)
  BY CurrentItems DEF Item, Shaped
<1>3. \A s : Current(s) # {} => Best(s) \in Current(s)
  BY BestIsBest DEF Shaped
<1>4. CleanScan(d)
  BY <1>2, <1>3 DEF CleanScan
<1>5. LoneScan(d)
  BY <1>2 DEF LoneScan
<1> HIDE DEF d
<1>6. CleanScans' /\ LoneScans'
  BY <1>1, <1>4, <1>5, ScansShape, OneScanMoves DEF Known
<1>7. NothingToClose'
  BY <1>1, SameListingSameBest DEF Known, NothingToClose
<1>8. QED BY <1>6, <1>7 DEF Known

(* Listing a page, and deciding after the last.                            *)
LEMMA ListPageKnown ==
  ASSUME Shaped, Known, NEW r \in Scans, ListPage(r)
  PROVE  Known'
<1> DEFINE c == scan[r]
           listed == c.listed \cup NextPage(c)
           todo == Closures(listed, c.day)
<1>1. /\ c # NULL /\ c \in Scanning(today) /\ c \in Scan /\ c.next = "list"
      /\ Sound(facts) /\ today \in Days /\ UNCHANGED <<facts, today, gate>>
  BY ScansShape DEF ListPage, Shaped
<1>2. /\ c.intruder # "other" => CleanScan(c)
      /\ c.intruder = "none" => CleanScan(c) /\ LoneScan(c)
  BY <1>1 DEF Known, CleanScans, LoneScans
<1>3. /\ listed \in SUBSET Item /\ c.offset + Page \in Nat /\ c.view = {}
  <2>1. listed \in SUBSET Item /\ c.offset + Page \in Nat
    BY <1>1, ListedShape
  <2>2. QED BY <1>1, <2>1 DEF Scanning
<1>4. Cardinality(facts) \in Nat
  BY <1>1, Places DEF Sound
<1>5. CASE /\ scan' = [scan EXCEPT ![r].offset = c.offset + Page, ![r].listed = listed]
           /\ UNCHANGED settled
  <2> DEFINE d == [c EXCEPT !.offset = c.offset + Page, !.listed = listed]
  <2>1. scan' = [scan EXCEPT ![r] = d]
    BY <1>5 DEF Shaped
  <2>2. /\ d.next = c.next /\ d.day = c.day /\ d.offset = c.offset + Page
        /\ d.listed = listed /\ d.todo = c.todo /\ d.view = c.view /\ d.intruder = c.intruder
    BY <1>1 DEF Scan
  <2>3. CleanScan(c) => CleanScan(d)
    <3> SUFFICES ASSUME CleanScan(c) PROVE CleanScan(d)
      OBVIOUS
    <3> HIDE DEF d
    <3>1. /\ \A x \in listed : Below(x)
          /\ \A s \in Subjects : Current(s) # {} /\ Best(s).at < c.offset + Page => Best(s) \in listed
      BY <1>1, ListOn
    <3> HIDE DEF c, listed
    <3>2. QED BY <1>1, <1>3, <2>2, <3>1 DEF CleanScan
  <2>4. CleanScan(c) /\ LoneScan(c) => LoneScan(d)
    <3> SUFFICES ASSUME CleanScan(c), LoneScan(c) PROVE LoneScan(d)
      OBVIOUS
    <3> HIDE DEF d
    <3>1. \A s \in Subjects : \A y \in Current(s) : y.at < c.offset + Page => y \in listed
      BY <1>1, ListOn
    <3> HIDE DEF c, listed
    <3>2. QED BY <1>1, <2>2, <3>1 DEF LoneScan
  <2> HIDE DEF d, c
  <2>5. CleanScans' /\ LoneScans'
    BY <1>1, <1>2, <2>1, <2>2, <2>3, <2>4, ScansShape, OneScanMoves DEF Known
  <2>6. NothingToClose'
    BY <1>1, <1>5, SameListingSameBest DEF Known, NothingToClose
  <2>7. QED BY <2>5, <2>6 DEF Known
<1>6. ASSUME Cardinality(facts) < c.offset + Page
      PROVE  /\ CleanScan(c) => \A x \in todo : /\ Below(x) /\ x # Best(x.edge.subject)
                                                /\ ~Active(x.edge, today)
             /\ CleanScan(c) /\ LoneScan(c) => \A s \in Subjects : \A y \in Closable(s) :
                                                 \E x \in todo : Id(x.edge) = Id(y.edge)
  BY <1>1, <1>6, Decided
<1>7. CASE /\ Cardinality(facts) < c.offset + Page
           /\ scan' = [scan EXCEPT ![r].next = "read", ![r].todo = todo,
                                   ![r].listed = {}, ![r].offset = 0]
           /\ UNCHANGED settled
  <2> DEFINE d == [c EXCEPT !.next = "read", !.todo = todo, !.listed = {}, !.offset = 0]
  <2>1. scan' = [scan EXCEPT ![r] = d]
    BY <1>7 DEF Shaped
  <2>2. /\ d.next = "read" /\ d.day = c.day /\ d.offset = 0
        /\ d.listed = {} /\ d.todo = todo /\ d.view = c.view /\ d.intruder = c.intruder
    BY <1>1 DEF Scan
  <2> HIDE DEF d, c, todo
  <2>3. CleanScan(c) => CleanScan(d)
    BY <1>6, <1>7, <2>2 DEF CleanScan
  <2>4. CleanScan(c) /\ LoneScan(c) => LoneScan(d)
    BY <1>6, <1>7, <2>2 DEF LoneScan
  <2>5. CleanScans' /\ LoneScans'
    BY <1>1, <1>2, <2>1, <2>2, <2>3, <2>4, ScansShape, OneScanMoves DEF Known
  <2>6. NothingToClose'
    BY <1>1, <1>7, SameListingSameBest DEF Known, NothingToClose
  <2>7. QED BY <2>5, <2>6 DEF Known
<1>8. CASE /\ Cardinality(facts) < c.offset + Page /\ todo = {}
           /\ scan' = [scan EXCEPT ![r] = NULL]
           /\ settled' = (settled \/ c.intruder = "none")
  <2>1. CleanScans' /\ LoneScans'
    BY <1>1, <1>8, ScansShape, OneScanMoves DEF Known
  <2>2. NothingToClose'
    <3>1. settled' => \A s \in Subjects : Closable(s) = {}
      BY <1>2, <1>6, <1>8 DEF Known, NothingToClose
    <3>2. QED BY <1>1, <3>1, SameListingSameBest DEF NothingToClose
  <2>3. QED BY <2>1, <2>2 DEF Known
<1>9. QED BY <1>5, <1>7, <1>8 DEF ListPage, NextPage
(* What a scan reads of a subject holds the best, and nothing above it.    *)
LEMMA RescanKnown ==
  ASSUME Shaped, Known, NEW r \in Scans, Rescan(r)
  PROVE  Known'
<1> DEFINE c == scan[r]
<1>1. c # NULL /\ c \in Scanning(today) /\ c \in Scan /\ Sound(facts) /\ c.next = "read"
  BY ScansShape DEF Rescan, Shaped
<1>2. PICK x \in c.todo :
        /\ IsFirst(x, c.todo)
        /\ scan' = [scan EXCEPT ![r].next = "write", ![r].view = NeighborsOf(x.edge.subject)]
  BY DEF Rescan
<1> DEFINE d == [c EXCEPT !.next = "write", !.view = NeighborsOf(x.edge.subject)]
<1>3. scan' = [scan EXCEPT ![r] = d]
  BY <1>2 DEF Shaped
<1>4. /\ d.next = "write" /\ d.day = c.day /\ d.offset = c.offset /\ d.listed = c.listed
      /\ d.todo = c.todo /\ d.view = NeighborsOf(x.edge.subject) /\ d.intruder = c.intruder
  BY <1>1 DEF Scan
<1>5. \A y \in c.todo : IsFirst(y, c.todo) => y = x
  BY <1>1, <1>2, FirstIsUnique DEF Scan
<1> HIDE DEF c, d
<1>6. ASSUME CleanScan(c) PROVE CleanScan(d)
  <2>1. Below(x)
    BY <1>6 DEF CleanScan
  <2>2. Best(x.edge.subject) \in Current(x.edge.subject)
    BY <1>1, <2>1, BestIsBest DEF Below
  <2>3. Best(x.edge.subject).edge.object # x.edge.subject =>
          Best(x.edge.subject).edge \in NeighborsOf(x.edge.subject)
    BY <1>1, <2>2, CurrentItems DEF Of, NeighborsOf
  <2>4. \A e \in NeighborsOf(x.edge.subject) : Active(e, today) => Below(Listing(e))
    <3>1. \A e \in NeighborsOf(x.edge.subject) :
            Active(e, today) => Listing(e) \in Current(x.edge.subject)
      BY DEF Current, NeighborsOf
    <3>2. QED BY <1>1, <3>1, BestIsBest
  <2>5. {Id(e) : e \in NeighborsOf(x.edge.subject)} = NeighborIds(x.edge.subject)
    BY DEF NeighborIds, Ids, NeighborsOf, Id
  <2>6. QED BY <1>1, <1>4, <1>5, <1>6, <2>3, <2>4, <2>5 DEF CleanScan
<1>7. LoneScan(c) => LoneScan(d)
  BY <1>1, <1>4, <1>5 DEF LoneScan
<1>8. /\ c.intruder # "other" => CleanScan(c)
      /\ c.intruder = "none" => LoneScan(c)
  BY <1>1 DEF Known, CleanScans, LoneScans, c
<1>9. UNCHANGED <<facts, today, gate, settled>>
  BY DEF Rescan
<1>10. CleanScans' /\ LoneScans'
  BY <1>3, <1>4, <1>6, <1>7, <1>8, <1>9, ScansShape, OneScanMoves DEF Known
<1>11. NothingToClose'
  BY <1>9, SameListingSameBest DEF Known, NothingToClose
<1>12. QED BY <1>10, <1>11 DEF Known

(* The gate's steps that only read, and a scan that gives up.              *)
LEMMA NothingWritten ==
  ASSUME Shaped, Known, UNCHANGED <<facts, today, settled>>,
         scan' = scan \/ \E r \in Scans : scan' = [scan EXCEPT ![r] = NULL]
  PROVE  Known'
<1>1. NothingToClose'
  BY SameListingSameBest DEF Known, NothingToClose
<1>2. CASE scan' = scan
  <2>1. /\ \A c : CleanScan(c) => CleanScan(c)'
        /\ \A c : LoneScan(c) => LoneScan(c)'
    BY SameListingSameBest, StillClean
  <2>2. CleanScans' /\ LoneScans'
    BY <1>2, <2>1 DEF Known, CleanScans, LoneScans
  <2>3. QED BY <1>1, <2>2 DEF Known
<1>3. ASSUME NEW r \in Scans, scan' = [scan EXCEPT ![r] = NULL]
      PROVE  Known'
  BY <1>1, <1>3, ScansShape, OneScanMoves DEF Known
<1>4. QED BY <1>2, <1>3

-----------------------------------------------------------------------------
(* Steps that write.  Whoever is not a clean scan takes part in every scan *)
(* under way, and none is clean any more.                                  *)
LEMMA OtherWrites ==
  ASSUME Shaped, settled' = FALSE,
         \A q \in Scans : scan'[q] \in {NULL, Intruded("other")[q]} \/ scan'[q].intruder = "other"
  PROVE  Known'
<1>1. scan \in [Scans -> {NULL} \cup Scan]
  BY ScansShape
<1>2. \A q \in Scans : Intruded("other")[q] # NULL => Intruded("other")[q].intruder = "other"
  <2> SUFFICES ASSUME NEW q \in Scans, scan[q] # NULL
               PROVE  [scan[q] EXCEPT !.intruder = IF @ = "other" THEN @ ELSE "other"].intruder = "other"
    BY <1>1, IntrudedIs
  <2>1. scan[q] \in Scan
    BY <1>1
  <2>2. QED BY <2>1 DEF Scan
<1>3. \A q \in Scans : scan'[q] # NULL => scan'[q].intruder = "other"
  BY <1>2
<1>4. QED BY <1>3 DEF Known, CleanScans, LoneScans, NothingToClose

(* What a clean scan's write leaves, whatever the subject has: the other   *)
(* subjects' edges, the identities that neighbors() shows, and the best    *)
(* value unless it is a self-loop.                                         *)
LEMMA RewriteKeeps ==
  ASSUME Shaped, NEW c \in Scan, c \in Scanning(today), c.next = "write",
         CleanScan(c), NEW x \in c.todo, IsFirst(x, c.todo),
         facts' = (facts \ Of(x.edge.subject)) \cup Exchanged(c.view, x.edge)
  PROVE  /\ Of(x.edge.subject)' = Exchanged(c.view, x.edge)
         /\ \A s : s # x.edge.subject => Of(s)' = Of(s) /\ Ids(s)' = Ids(s)
         /\ Ids(x.edge.subject)' = NeighborIds(x.edge.subject)
         /\ Best(x.edge.subject) \in Current(x.edge.subject)
         /\ Id(Best(x.edge.subject).edge) # Id(x.edge)
         /\ Best(x.edge.subject).edge.object # x.edge.subject =>
              Best(x.edge.subject).edge \in Exchanged(c.view, x.edge)
<1> DEFINE s0 == x.edge.subject
           X == Exchanged(c.view, x.edge)
           b == Best(s0)
<1>0. Sound(facts)
  BY DEF Shaped
<1>1. \A e \in c.view : e.subject = s0
  BY DEF Scanning
<1>2. /\ Below(x) /\ (b.edge.object # s0 => b.edge \in c.view)
      /\ x # b /\ {Id(e) : e \in c.view} = NeighborIds(s0)
  BY DEF CleanScan
<1>3. x \in Item
  BY DEF Scan
<1>4. \A e \in X : \/ e = x.edge /\ \E v \in c.view : Id(v) = Id(x.edge)
                   \/ e \in c.view /\ Id(e) # Id(x.edge)
  BY DEF Exchanged
<1>5. \A v \in c.view : \E e \in X : Id(e) = Id(v)
  BY DEF Exchanged
<1>6. \A e \in c.view : Id(e) # Id(x.edge) => e \in X
  BY DEF Exchanged
<1> HIDE DEF X
<1>7. Of(s0)' = X /\ \A s : s # s0 => Of(s)' = Of(s)
  <2>1. facts' = (facts \ Of(s0)) \cup X
    BY DEF X
  <2>2. \A e \in X : e.subject = s0
    BY <1>1, <1>4
  <2>3. QED BY <2>1, <2>2 DEF Of
<1>8. \A s : s # s0 => Ids(s)' = Ids(s)
  BY <1>7 DEF Ids
<1>9. Ids(s0)' = NeighborIds(s0)
  <2>1. {Id(e) : e \in X} = {Id(e) : e \in c.view}
    BY <1>4, <1>5
  <2>2. QED BY <1>2, <1>7, <2>1 DEF Ids
<1>10. b \in Current(s0) /\ b \in Item /\ b = Listing(b.edge)
  BY <1>0, <1>2, BestIsBest, CurrentItems DEF Below
<1>11. Id(b.edge) # Id(x.edge)
  <2>1. Ranked(b, x) /\ x.at = Place(Id(x.edge))
    BY <1>2 DEF Below
  <2>2. b.at = Place(Id(b.edge))
    BY <1>10 DEF Listing
  <2>3. Id(b.edge) = Id(x.edge) => b.edge.from = x.edge.from
    BY DEF Id
  <2>4. b.at \in Nat /\ x.at \in Nat
    BY <1>3, <1>10 DEF Item
  <2>5. QED BY <2>1, <2>2, <2>3, <2>4 DEF Ranked, Newer
<1>12. QED BY <1>2, <1>6, <1>7, <1>8, <1>9, <1>10, <1>11 DEF X

(* If no self-loop is lost, the identities stay, and with them the places; *)
(* the best stays; and, if nobody wrote since the scan began, the closed   *)
(* edge is all that is no longer current.                                  *)
LEMMA CleanRewrite ==
  ASSUME Shaped, UNCHANGED today, NEW c \in Scan, c \in Scanning(today), c.next = "write",
         CleanScan(c), NEW x \in c.todo, IsFirst(x, c.todo),
         facts' = (facts \ Of(x.edge.subject)) \cup Exchanged(c.view, x.edge),
         ~HasLoop(x.edge.subject)
  PROVE  /\ SameBest
         /\ LoneScan(c) => \A s : \A y \in Current(s)' : y \in Current(s) /\ Id(y.edge) # Id(x.edge)
<1> DEFINE s0 == x.edge.subject
           X == Exchanged(c.view, x.edge)
           b == Best(s0)
<1>0. Sound(facts) /\ facts \subseteq Edge /\ IsFiniteSet(facts)
  BY DEF Shaped, Sound
<1>1. /\ \A e \in c.view : e.subject = s0
      /\ c.view \subseteq Edge
  BY DEF Scanning, Sound
<1>2. /\ Below(x) /\ ~Active(x.edge, today)
      /\ \A e \in c.view : Active(e, today) => Below(Listing(e))
  BY DEF CleanScan
<1>3. x \in Item /\ x.edge \in Edge
  BY DEF Scan, Item
<1>4. \A e \in X : \/ e = x.edge /\ \E v \in c.view : Id(v) = Id(x.edge)
                   \/ e \in c.view /\ Id(e) # Id(x.edge)
  BY DEF Exchanged
<1> HIDE DEF X
<1>7. /\ Of(s0)' = X
      /\ \A s : s # s0 => Of(s)' = Of(s)
  BY RewriteKeeps DEF X
<1>8. \A s : Ids(s)' = Ids(s)
  <2>1. NeighborIds(s0) = Ids(s0)
    BY DEF NeighborIds, Ids, HasLoop, Id
  <2>2. QED BY <2>1, RewriteKeeps
<1>9. \A i : Place(i)' = Place(i)
  <2>1. \A i : i \in Stored <=> \E s : i \in Ids(s)
    BY DEF Stored, Ids, Of
  <2>2. \A i : i \in Stored' <=> \E s : i \in Ids(s)'
    BY DEF Stored, Ids, Of
  <2>3. Stored' = Stored
    BY <1>8, <2>1, <2>2
  <2>4. QED BY <2>3 DEF Place
<1>10. \A e : Listing(e)' = Listing(e)
  BY <1>9 DEF Listing
<1>11. \A s : s # s0 => Current(s)' = Current(s) /\ Best(s)' = Best(s)
  <2>1. \A s : s # s0 => Current(s)' = Current(s)
    BY <1>7, <1>10 DEF Current
  <2>2. QED BY <2>1 DEF Best
<1>12. \A y : y \in Current(s0)' <=> \E e \in X : Active(e, today) /\ y = Listing(e)
  BY <1>7, <1>10 DEF Current
<1>13. \A e \in X : Active(e, today) => e \in c.view /\ Id(e) # Id(x.edge) /\ Below(Listing(e))
  BY <1>2, <1>4
<1>14. /\ Current(s0) # {} /\ b \in Current(s0) /\ b \in Item
       /\ b = Listing(b.edge) /\ Active(b.edge, today)
  BY <1>0, <1>2, BestIsBest, CurrentItems DEF Below
<1>15. b.edge \in X
  <2>1. b.edge.object # s0
    BY <1>0, <1>14, CurrentItems DEF HasLoop, Of
  <2>2. QED BY <2>1, RewriteKeeps DEF X
<1>16. b \in Current(s0)'
  BY <1>12, <1>14, <1>15
<1>17. \A y \in Current(s0)' : /\ y \in Item /\ y.edge.subject = s0
                               /\ y # b => Ranked(b, y)
  <2> SUFFICES ASSUME NEW e \in X, Active(e, today)
               PROVE  /\ Listing(e) \in Item /\ Listing(e).edge.subject = s0
                      /\ Listing(e) # b => Ranked(b, Listing(e))
    BY <1>12
  <2>1. e \in c.view /\ e \in Edge /\ e.subject = s0 /\ Below(Listing(e))
    BY <1>1, <1>13
  <2>2. Listing(e) \in Item /\ Listing(e).edge = e
    BY <1>0, <2>1, Places DEF Listing, Item
  <2>3. QED BY <2>1, <2>2 DEF Below
<1>18. Best(s0)' = b
  <2> DEFINE C == Current(s0)'
  <2>1. C \in SUBSET Item /\ b \in C
    BY <1>16, <1>17
  <2>2. \A y \in C : y # b => Precedes(b, y)
    BY <1>16, <1>17 DEF Precedes
  <2> HIDE DEF C
  <2>3. First(C) = b
    <3>1. IsFirst(b, C)
      BY <2>1, <2>2 DEF IsFirst
    <3>2. QED BY <2>1, <3>1, FirstIsUnique
  <2>4. QED BY <2>3 DEF Best, C
<1>19. SameBest
  BY <1>8, <1>9, <1>11, <1>14, <1>16, <1>18 DEF SameBest
<1>20. ASSUME LoneScan(c), NEW s, NEW y \in Current(s)'
       PROVE  y \in Current(s) /\ Id(y.edge) # Id(x.edge)
  <2>1. CASE s = s0
    <3>1. c.view = Of(s0)
      BY <1>20 DEF LoneScan, NeighborsOf, HasLoop
    <3>2. PICK e \in X : Active(e, today) /\ y = Listing(e)
      BY <1>12, <1>20, <2>1
    <3>3. e \in Of(s0) /\ Id(e) # Id(x.edge)
      BY <1>13, <3>1, <3>2
    <3>4. y.edge = e
      BY <3>2 DEF Listing
    <3>5. QED BY <2>1, <3>2, <3>3, <3>4 DEF Current
  <2>2. CASE s # s0
    <3>1. y \in Current(s)
      BY <1>11, <1>20, <2>2
    <3>2. y.edge.subject = s
      BY <1>0, <3>1, CurrentItems
    <3>3. QED BY <2>2, <3>1, <3>2 DEF Id
  <2>3. QED BY <2>1, <2>2
<1>21. QED BY <1>19, <1>20
(* A clean scan's write leaves every clean scan clean, if it leaves the    *)
(* best; none but the writer is alone any more.                            *)
LEMMA CleanWrites ==
  ASSUME Shaped, CleanScans, SameBest, NEW r \in Scans, NEW d,
         scan' = [Intruded("scan") EXCEPT ![r] = d],
         d # NULL /\ d.intruder # "other" => CleanScan(d),
         d # NULL /\ d.intruder = "none" => LoneScan(d)'
  PROVE  CleanScans' /\ LoneScans'
<1>1. scan \in [Scans -> {NULL} \cup Scan]
  BY ScansShape
<1>2. DOMAIN Intruded("scan") = Scans
  BY <1>1, IntrudedIs
<1>3. \A c : CleanScan(c) => CleanScan(c)'
  BY StillClean
<1>4. ASSUME NEW q \in Scans, NEW c, c = scan'[q], c # NULL
      PROVE  /\ c.intruder # "other" => CleanScan(c)'
             /\ c.intruder = "none" => LoneScan(c)'
  <2>1. CASE q = r
    BY <1>2, <1>3, <1>4, <2>1
  <2>2. CASE q # r
    <3>1. c = Intruded("scan")[q]
      BY <1>2, <1>4, <2>2
    <3>2. scan[q] # NULL /\ scan[q] \in Scan /\ c \in Scan
      BY <1>1, <1>4, <3>1, IntrudedIs
    <3>3. c = [scan[q] EXCEPT !.intruder = IF @ = "other" THEN @ ELSE "scan"]
      BY <1>1, <3>1, <3>2, IntrudedIs
    <3>4. /\ c.next = scan[q].next /\ c.day = scan[q].day /\ c.offset = scan[q].offset
          /\ c.listed = scan[q].listed /\ c.todo = scan[q].todo /\ c.view = scan[q].view
          /\ c.intruder = IF scan[q].intruder = "other" THEN "other" ELSE "scan"
      BY <3>2, <3>3 DEF Scan
    <3>5. c.intruder # "other" => CleanScan(c)
      BY <3>2, <3>4, HistoryOnly DEF CleanScans
    <3>6. QED BY <1>3, <3>4, <3>5
  <2>3. QED BY <2>1, <2>2
<1>5. QED BY <1>4 DEF CleanScans, LoneScans

(* What is left to do when a lone scan has closed one edge.                *)
LEMMA LoneRewrite ==
  ASSUME Shaped, UNCHANGED today, NEW c \in Scan, c \in Scanning(today), c.next = "write",
         CleanScan(c), LoneScan(c), NEW x \in c.todo, IsFirst(x, c.todo),
         facts' = (facts \ Of(x.edge.subject)) \cup Exchanged(c.view, x.edge),
         ~HasLoop(x.edge.subject)
  PROVE  \A s \in Subjects : \A y \in Closable(s)' :
           \E z \in c.todo \ {x} : Id(z.edge) = Id(y.edge)
<1>1. /\ SameBest
      /\ \A s : \A y \in Current(s)' : y \in Current(s) /\ Id(y.edge) # Id(x.edge)
  BY CleanRewrite
<1>2. ASSUME NEW s \in Subjects, NEW y \in Closable(s)'
      PROVE  \E z \in c.todo \ {x} : Id(z.edge) = Id(y.edge)
  <2>1. /\ y \in Current(s)' /\ y # Best(s)'
        /\ MayClose(y.edge, CloseAt(Best(s)'.edge, today))
    BY <1>1 DEF Closable, SameBest
  <2>2. y \in Current(s) /\ Best(s)' = Best(s) /\ Id(y.edge) # Id(x.edge)
    BY <1>1, <2>1 DEF SameBest
  <2>3. y \in Closable(s)
    BY <2>1, <2>2 DEF Closable
  <2>4. PICK z \in c.todo : Id(z.edge) = Id(y.edge)
    BY <2>3 DEF LoneScan
  <2>5. QED BY <2>2, <2>4
<1>3. QED BY <1>2

(* A scan's write: of a clean scan, or of one that others wrote into.      *)
LEMMA ReplaceKnown ==
  ASSUME Shaped, Known, NEW r \in Scans, Replace(r)
  PROVE  Known'
<1> DEFINE c == scan[r]
<1>1. /\ c # NULL /\ c \in Scanning(today) /\ c \in Scan /\ c.next = "write"
      /\ UNCHANGED <<today, gate>>
  BY ScansShape DEF Replace
<1>2. PICK x \in c.todo :
        /\ Rewrite(r, x)
        /\ scan' = [After(r, x) EXCEPT ![r] =
             IF c.todo \ {x} = {} THEN NULL
             ELSE [c EXCEPT !.next = "read", !.todo = c.todo \ {x}, !.view = {},
                            !.intruder = IF Estranged(r, x) THEN "other" ELSE c.intruder]]
        /\ settled' = (c.todo \ {x} = {} /\ c.intruder = "none" /\ ~Estranged(r, x))
  BY DEF Replace
<1> DEFINE e == [c EXCEPT !.next = "read", !.todo = c.todo \ {x}, !.view = {},
                          !.intruder = IF Estranged(r, x) THEN "other" ELSE c.intruder]
           d == IF c.todo \ {x} = {} THEN NULL ELSE e
<1>3. scan \in [Scans -> {NULL} \cup Scan]
  BY ScansShape
<1>4. /\ e.next = "read" /\ e.day = c.day /\ e.offset = c.offset /\ e.listed = c.listed
      /\ e.todo = c.todo \ {x} /\ e.view = {}
      /\ e.intruder = IF Estranged(r, x) THEN "other" ELSE c.intruder
  BY <1>1 DEF Scan
<1>5. CASE Estranged(r, x)
  <2>1. scan' = [Intruded("other") EXCEPT ![r] = d]
    BY <1>2, <1>5 DEF After
  <2>2. DOMAIN Intruded("other") = Scans
    BY <1>3, IntrudedIs
  <2>3. d = NULL \/ d.intruder = "other"
    BY <1>4, <1>5
  <2> HIDE DEF d
  <2>4. \A q \in Scans : \/ scan'[q] \in {NULL, Intruded("other")[q]}
                         \/ scan'[q].intruder = "other"
    BY <2>1, <2>2, <2>3
  <2>5. settled' = FALSE
    BY <1>2, <1>5
  <2>6. QED BY <2>4, <2>5, OtherWrites
<1>6. CASE ~Estranged(r, x)
  <2>1. scan' = [Intruded("scan") EXCEPT ![r] = d]
    BY <1>2, <1>6 DEF After
  <2>2. /\ CleanScan(c) /\ (c.intruder = "none" => LoneScan(c)) /\ CleanScans
        /\ ~HasLoop(x.edge.subject)
    BY <1>1, <1>6 DEF Known, CleanScans, LoneScans, Estranged
  <2>3. /\ IsFirst(x, c.todo)
        /\ facts' = (facts \ Of(x.edge.subject)) \cup Exchanged(c.view, x.edge)
    BY <1>2 DEF Rewrite
  <2> HIDE DEF c, e
  <2>4. SameBest
    BY <1>1, <2>2, <2>3, CleanRewrite
  <2>5. CleanScan(e)
    BY <1>1, <1>4, <2>2 DEF CleanScan
  <2>6. c.intruder = "none" =>
          \A s \in Subjects : \A y \in Closable(s)' :
            \E z \in c.todo \ {x} : Id(z.edge) = Id(y.edge)
    BY <1>1, <2>2, <2>3, LoneRewrite
  <2>7. ASSUME NEW f, f = e, c.intruder = "none" PROVE LoneScan(f)'
    BY <1>4, <2>6, <2>7 DEF LoneScan
  <2>8. ASSUME NEW f, f = d PROVE CleanScans' /\ LoneScans'
    <3>1. scan' = [Intruded("scan") EXCEPT ![r] = f]
      BY <2>1, <2>8
    <3>2. f = NULL \/ f = e
      BY <2>8
    <3>3. /\ f # NULL /\ f.intruder # "other" => CleanScan(f)
          /\ f # NULL /\ f.intruder = "none" => LoneScan(f)'
      BY <1>4, <1>6, <2>5, <2>7, <3>2
    <3>4. QED BY <2>2, <2>4, <3>1, <3>3, CleanWrites
  <2>9. NothingToClose'
    BY <1>2, <2>6 DEF NothingToClose
  <2>10. QED BY <2>8, <2>9 DEF Known
<1>7. QED BY <1>5, <1>6

(* A scan that gives up, with or without a last write.                     *)
LEMMA ScanFailsKnown ==
  ASSUME Shaped, Known, NEW r \in Scans, ScanFails(r)
  PROVE  Known'
<1> DEFINE c == scan[r]
<1>1. /\ c # NULL /\ c \in Scanning(today) /\ c \in Scan /\ UNCHANGED <<today, gate>>
  BY ScansShape DEF ScanFails
<1>2. CASE scan' = [scan EXCEPT ![r] = NULL] /\ UNCHANGED <<facts, settled>>
  BY <1>1, <1>2, NothingWritten
<1>3. ASSUME NEW x \in c.todo, Rewrite(r, x), c.next = "write",
             scan' = [After(r, x) EXCEPT ![r] = NULL], settled' = FALSE
      PROVE  Known'
  <2>1. CASE Estranged(r, x)
    <3>1. scan' = [Intruded("other") EXCEPT ![r] = NULL]
      BY <1>3, <2>1 DEF After
    <3>2. DOMAIN Intruded("other") = Scans
      BY ScansShape, IntrudedIs
    <3>3. \A q \in Scans : scan'[q] \in {NULL, Intruded("other")[q]}
      BY <3>1, <3>2
    <3>4. QED BY <1>3, <3>3, OtherWrites
  <2>2. CASE ~Estranged(r, x)
    <3>1. scan' = [Intruded("scan") EXCEPT ![r] = NULL]
      BY <1>3, <2>2 DEF After
    <3>2. CleanScan(c) /\ CleanScans /\ ~HasLoop(x.edge.subject)
      BY <1>1, <2>2 DEF Known, CleanScans, Estranged
    <3>3. /\ IsFirst(x, c.todo)
          /\ facts' = (facts \ Of(x.edge.subject)) \cup Exchanged(c.view, x.edge)
      BY <1>3 DEF Rewrite
    <3> HIDE DEF c
    <3>4. SameBest
      BY <1>1, <1>3, <3>2, <3>3, CleanRewrite
    <3>5. CleanScans' /\ LoneScans'
      BY <3>1, <3>2, <3>4, CleanWrites
    <3>6. QED BY <1>3, <3>5 DEF Known, NothingToClose
  <2>3. QED BY <2>1, <2>2
<1>4. QED BY <1>2, <1>3 DEF ScanFails

(* The gate, the ingester, the user and midnight.                          *)
LEMMA OthersKnown ==
  ASSUME Shaped, Known, Others
  PROVE  Known'
<1>1. CASE \E p \in Proposed : GateCheck(p[1], p[2]) \/ RetireScan(p[1], p[2])
  <2>1. UNCHANGED <<facts, today, scan, settled>>
    BY <1>1 DEF GateCheck, RetireScan
  <2>2. QED BY <2>1, NothingWritten
<1>2. CASE \/ GateWrite \/ RetireWrite \/ Tick
           \/ \E a \in Arriving : Arrives(a[1], a[2], a[3], a[4])
  <2>1. scan' = Intruded("other") /\ settled' = FALSE
    BY <1>2 DEF GateWrite, RetireWrite, Tick, Arrives, Write
  <2>2. QED BY <2>1, OtherWrites
<1>3. QED BY <1>1, <1>2 DEF Others

-----------------------------------------------------------------------------
(* At the start no scan is under way.                                      *)
LEMMA InitKnown ==
  Init => Known
BY DEF Init, Known, CleanScans, LoneScans, NothingToClose

(* All steps together.                                                     *)
LEMMA KnownStep ==
  ASSUME Shaped, Known, [Next]_vars
  PROVE  Known'
<1>1. CASE UNCHANGED vars
  BY <1>1, NothingWritten DEF vars
<1>2. ASSUME NEW r \in Scans, Detector(r) PROVE Known'
  BY <1>2, ScanBeginKnown, ListPageKnown, RescanKnown, ReplaceKnown, ScanFailsKnown
     DEF Detector
<1>3. QED BY <1>1, <1>2, OthersKnown DEF Next

(* What scans have in hand: its shape, what a scan into which at most      *)
(* other scans wrote knows of the best values, what a scan into which      *)
(* nobody wrote knows of the others, and what follows when it is through.  *)
THEOREM InductiveInvariant == Spec => []IInv
<1>1. Init => IInv
  BY InitShaped, InitKnown DEF IInv, Known
<1>2. IInv /\ [Next]_vars => IInv'
  BY ShapedStep, KnownStep DEF IInv, Known
<1>3. QED BY <1>1, <1>2, PTL DEF Spec

(* The state has the shape of the Rust types; no window is empty and no    *)
(* two edges have one identity, also in what scans and the gate will       *)
(* write, so that the engine accepts every rewrite.                        *)
THEOREM TypeCorrect == Spec => []TypeOK
<1>1. ASSUME Shaped PROVE TypeOK
  <2>1. scan \in [Scans -> {NULL} \cup Scan]
    BY <1>1, ScansShape
  <2>2. ASSUME NEW r \in Scans, scan[r] # NULL
        PROVE  /\ scan[r].day <= today
               /\ Windowed({x.edge : x \in scan[r].listed \cup scan[r].todo} \cup scan[r].view)
               /\ Unique(scan[r].view)
               /\ scan[r].next # "list" => scan[r].todo # {}
    <3>1. scan[r] \in Scanning(today)
      BY <1>1, <2>2, ScansShape
    <3>2. /\ scan[r].day <= today
          /\ Windowed({x.edge : x \in scan[r].listed \cup scan[r].todo})
          /\ Windowed(scan[r].view) /\ Unique(scan[r].view)
          /\ scan[r].next # "list" => scan[r].todo # {}
      BY <3>1 DEF Scanning, Sound
    <3>3. QED BY <3>2 DEF Windowed
  <2>3. /\ gate \in {NULL} \cup Materialization
        /\ gate # NULL => Windowed(gate.view \cup {gate.edge}) /\ Unique(gate.view)
    BY <1>1 DEF Shaped, Holding, Sound, Windowed
  <2>4. QED BY <1>1, <2>1, <2>2, <2>3 DEF TypeOK, Shaped, Sound
<1>2. IInv => TypeOK
  BY <1>1 DEF IInv
<1>3. QED BY <1>2, InductiveInvariant, PTL

(* A scan into which nobody wrote leaves each subject one current value,   *)
(* but for what the detector may not decide.                               *)
THEOREM LoneScansSettle == Spec => []OneCurrentValue
<1>1. ASSUME Shaped, NothingToClose PROVE OneCurrentValue
  <2> SUFFICES ASSUME settled, NEW s \in Subjects, {e \in Of(s) : Active(e, today)} # {}
               PROVE  \E w \in {e \in Of(s) : Active(e, today)} :
                        \A e \in {x \in Of(s) : Active(x, today)} \ {w} :
                          ~MayClose(e, CloseAt(w, today))
    BY DEF OneCurrentValue
  <2> DEFINE active == {e \in Of(s) : Active(e, today)}
  <2>1. Sound(facts) /\ Closable(s) = {}
    BY <1>1 DEF Shaped, NothingToClose
  <2>2. \A e \in active : Listing(e) \in Current(s) /\ Listing(e).edge = e
    BY DEF Current, Listing
  <2>3. Best(s) \in Current(s)
    BY <2>1, <2>2, BestIsBest
  <2>4. Best(s).edge \in active
    BY <2>1, <2>3, CurrentItems DEF Of
  <2>5. \A e \in active \ {Best(s).edge} : ~MayClose(e, CloseAt(Best(s).edge, today))
    BY <2>1, <2>2 DEF Closable
  <2>6. QED BY <2>4, <2>5
<1>2. IInv => OneCurrentValue
  BY <1>1 DEF IInv
<1>3. QED BY <1>2, InductiveInvariant, PTL

(* What may take a subject's last value.                                   *)
Excused(s) ==
  \/ gate # NULL /\ gate.kind = "retire" /\ gate' = NULL /\ gate.edge.subject = s
  \/ \E r \in Scans : scan[r] # NULL /\ \E x \in scan[r].todo :
       /\ x.edge.subject = s /\ Rewrite(r, x)
       /\ \/ scan[r].intruder = "other"
          \/ \E e \in Of(s) : e.object = s /\ Active(e, today)

(* Neither a scan's write nor an approval or an arrival takes a subject's  *)
(* last value.                                                             *)
LEMMA ValueKept ==
  ASSUME Shaped, Known, [Next]_vars, NEW s \in Subjects, NEW a \in Of(s), Active(a, today)
  PROVE  (\E e \in facts' : e.subject = s /\ Active(e, today)) \/ Excused(s)
<1> DEFINE Kept == \E e \in facts' : e.subject = s /\ Active(e, today)
<1>1. a \in facts /\ a.subject = s
  BY DEF Of
<1>2. CASE UNCHANGED facts
  BY <1>1, <1>2
<1>3. ASSUME NEW e \in Edge, e.from <= today, e.to = Open, facts' = Upserted(e)
      PROVE  Kept
  <2>1. CASE Id(a) = Id(e)
    BY <1>1, <1>3, <2>1 DEF Upserted, Active, Id
  <2>2. CASE Id(a) # Id(e)
    BY <1>1, <1>3, <2>2 DEF Upserted
  <2>3. QED BY <2>1, <2>2
<1>4. ASSUME NEW r \in Scans, scan[r] # NULL, NEW x \in scan[r].todo, Rewrite(r, x)
      PROVE  Kept \/ Excused(s)
  <2>1. CASE s # x.edge.subject
    BY <1>1, <1>4, <2>1 DEF Rewrite, Of
  <2>2. CASE /\ s = x.edge.subject
             /\ \/ scan[r].intruder = "other"
                \/ \E e \in Of(s) : e.object = s /\ Active(e, today)
    BY <1>4, <2>2 DEF Excused
  <2>3. CASE /\ s = x.edge.subject /\ scan[r].intruder # "other"
             /\ \A e \in Of(s) : Active(e, today) => e.object # s
    <3> DEFINE c == scan[r]
    <3>1. /\ c \in Scanning(today) /\ c \in Scan /\ c.next = "write" /\ CleanScan(c)
          /\ IsFirst(x, c.todo)
          /\ facts' = (facts \ Of(s)) \cup Exchanged(c.view, x.edge)
      BY <1>4, <2>3, ScansShape DEF Rewrite, Known, CleanScans
    <3> HIDE DEF c
    <3>2. /\ Best(s) \in Current(s)
          /\ Best(s).edge.object # s => Best(s).edge \in Exchanged(c.view, x.edge)
      <4>1. x.edge.subject = s /\ x \in c.todo
        BY <2>3 DEF c
      <4>2. QED BY <3>1, <4>1, RewriteKeeps
    <3>3. Best(s).edge \in Of(s) /\ Active(Best(s).edge, today) /\ Best(s).edge.subject = s
      BY <3>2, CurrentItems DEF Shaped, Of
    <3>4. QED BY <2>3, <3>1, <3>2, <3>3
  <2>4. QED BY <2>1, <2>2, <2>3
<1>5. CASE GateWrite
  <2>1. gate.edge \in Edge /\ gate.edge.from = Undated /\ gate.edge.to = Open
    BY <1>5 DEF GateWrite, Shaped, Holding, Materialization
  <2>2. gate.edge.from <= today
    BY <2>1, ContradictionAssumption DEF Undated, Shaped, Days
  <2>3. QED BY <1>3, <1>5, <2>1, <2>2 DEF GateWrite, Write
<1>6. ASSUME NEW v \in Arriving, Arrives(v[1], v[2], v[3], v[4]) PROVE Kept
  <2>1. /\ v[1] \in Subjects /\ v[2] \in Objects /\ v[3] \in {"ingest", "user"}
        /\ v[4] \in {Undated} \cup Days
    BY ContradictionAssumption
  <2>2. NewEdge(v[1], v[2], v[4], v[3]) \in Edge
    BY <2>1, NewEdgeSound
  <2>3. QED BY <1>3, <1>6, <2>2 DEF Arrives, Write, NewEdge
<1>7. CASE RetireWrite
  <2>1. CASE gate.edge.subject = s
    BY <1>7, <2>1 DEF RetireWrite, Excused
  <2>2. CASE gate.edge.subject # s
    BY <1>1, <1>7, <2>2 DEF RetireWrite, Write, Of
  <2>3. QED BY <2>1, <2>2
<1>8. ASSUME NEW r \in Scans, Detector(r)
      PROVE  \/ UNCHANGED facts
             \/ scan[r] # NULL /\ \E x \in scan[r].todo : Rewrite(r, x)
  BY <1>8 DEF Detector, ScanBegin, ListPage, Rescan, Replace, ScanFails
<1>9. Others => \/ UNCHANGED facts
                \/ GateWrite \/ RetireWrite
                \/ \E v \in Arriving : Arrives(v[1], v[2], v[3], v[4])
  BY DEF Others, GateCheck, RetireScan, Tick
<1>10. CASE Others
  BY <1>2, <1>5, <1>6, <1>7, <1>9, <1>10
<1>11. CASE \E r \in Scans : Detector(r)
  BY <1>2, <1>4, <1>8, <1>11
<1>12. CASE UNCHANGED vars
  BY <1>2, <1>12 DEF vars
<1>13. QED BY <1>10, <1>11, <1>12 DEF Next

(* However scans overlap, they never take the last value of a subject, but *)
(* for a self-loop that neighbors() does not show.                         *)
THEOREM ScansKeepAValue == Spec => SubjectKeepsValue
<1> DEFINE Keeps(s) ==
      (\E e \in Of(s) : Active(e, today)) =>
        \/ \E e \in facts' : e.subject = s /\ Active(e, today)
        \/ /\ gate # NULL /\ gate.kind = "retire" /\ gate' = NULL
           /\ gate.edge.subject = s
        \/ \E r \in Scans : scan[r] # NULL /\ \E x \in scan[r].todo :
             /\ x.edge.subject = s /\ Rewrite(r, x)
             /\ \/ scan[r].intruder = "other"
                \/ \E e \in Of(s) : e.object = s /\ Active(e, today)
<1>1. IInv /\ [Next]_vars => [\A s \in Subjects : Keeps(s)]_vars
  BY ValueKept DEF IInv, Known, Excused
<1>2. QED BY <1>1, InductiveInvariant, PTL DEF Spec, SubjectKeepsValue

-----------------------------------------------------------------------------
(* A write of a scan that at most other scans came into takes nothing from *)
(* the graph but the subject's self-loops, and adds nothing.  It leaves    *)
(* the value every subject's edges are superseded by, unless that is the   *)
(* self-loop: whatever it closes or opens again is outranked.  And if it   *)
(* takes no self-loop, that value stays what supersedes the others.        *)
OnlyOutrankedChange ==
  [][\A r \in Scans :
       scan[r] # NULL /\ scan[r].intruder # "other" /\ today' = today =>
         \A x \in scan[r].todo : Rewrite(r, x) =>
           \A s \in Subjects :
             /\ Ids(s)' = IF s = x.edge.subject THEN NeighborIds(s) ELSE Ids(s)
             /\ Current(s) # {} /\ ~(s = x.edge.subject /\ Best(s).edge.object = s) =>
                  Best(s).edge \in facts'
             /\ Current(s) # {} /\ ~HasLoop(x.edge.subject) =>
                  Current(s)' # {} /\ Best(s)' = Best(s)]_vars

(* So overlapping scans cannot supersede a value by an older one, and lose *)
(* no edge by what they write back, but for the self-loops that            *)
(* scan_rel_for_subject does not read (scan_all_functional, resolve).      *)
THEOREM ScansAgreeOnTheBest == Spec => OnlyOutrankedChange
<1> DEFINE Agree(r, x, s) ==
      /\ Ids(s)' = IF s = x.edge.subject THEN NeighborIds(s) ELSE Ids(s)
      /\ Current(s) # {} /\ ~(s = x.edge.subject /\ Best(s).edge.object = s) =>
           Best(s).edge \in facts'
      /\ Current(s) # {} /\ ~HasLoop(x.edge.subject) =>
           Current(s)' # {} /\ Best(s)' = Best(s)
<1>1. ASSUME IInv, NEW r \in Scans, scan[r] # NULL, scan[r].intruder # "other",
             UNCHANGED today, NEW x \in scan[r].todo, Rewrite(r, x), NEW s \in Subjects
      PROVE  Agree(r, x, s)
  <2> DEFINE c == scan[r]
  <2>1. Shaped /\ Sound(facts) /\ c \in Scanning(today) /\ c \in Scan
    BY <1>1, ScansShape DEF IInv, Shaped
  <2>2. /\ c.next = "write" /\ CleanScan(c) /\ IsFirst(x, c.todo) /\ x \in c.todo
        /\ facts' = (facts \ Of(x.edge.subject)) \cup Exchanged(c.view, x.edge)
    BY <1>1 DEF Rewrite, IInv, CleanScans
  <2> HIDE DEF c
  <2>3. Ids(s)' = IF s = x.edge.subject THEN NeighborIds(s) ELSE Ids(s)
    BY <2>1, <2>2, RewriteKeeps
  <2>4. ASSUME Current(s) # {}, ~(s = x.edge.subject /\ Best(s).edge.object = s)
        PROVE  Best(s).edge \in facts'
    <3>1. CASE s = x.edge.subject
      BY <2>1, <2>2, <2>4, <3>1, RewriteKeeps
    <3>2. CASE s # x.edge.subject
      <4>1. Best(s).edge \in facts /\ Best(s).edge.subject = s
        BY <2>1, <2>4, BestIsBest, CurrentItems
      <4>2. QED BY <2>2, <3>2, <4>1 DEF Of
    <3>3. QED BY <3>1, <3>2
  <2>5. ~HasLoop(x.edge.subject) => SameBest
    BY <1>1, <2>1, <2>2, CleanRewrite
  <2>6. Current(s) # {} /\ ~HasLoop(x.edge.subject) => Current(s)' # {} /\ Best(s)' = Best(s)
    BY <2>5 DEF SameBest
  <2>7. QED BY <2>3, <2>4, <2>6
<1>2. IInv => [\A r \in Scans :
                 scan[r] # NULL /\ scan[r].intruder # "other" /\ today' = today =>
                   \A x \in scan[r].todo : Rewrite(r, x) =>
                     \A s \in Subjects : Agree(r, x, s)]_vars
  <2> HIDE DEF Agree
  <2>1. QED BY <1>1
<1>3. QED BY <1>2, InductiveInvariant, PTL DEF OnlyOutrankedChange
=============================================================================
