--------------------------- MODULE KnowledgeGraph ---------------------------
(***************************************************************************)
(* The graph engine that the proposal gate and the inference engine share  *)
(* (crates/tdw-storage-graph, behind tdw_core::GraphEngine).  Every engine *)
(* call is atomic; nothing holds from one call to the next, because the    *)
(* gate's mutex, the inference mutex and the ingest and finding tools      *)
(* protect their own state and not the graph.  So a listing that pages     *)
(* through a relation by offset can miss an edge that nobody touched, when *)
(* one before it goes, and list one twice, when one before it comes.       *)
(*                                                                         *)
(* A fact is a triple.  The identity of an edge is its triple and its      *)
(* valid_from: the gate and the rules write edges without one, findings    *)
(* dated ones and ingestion either.  The engine's edges are a list: an     *)
(* identity can be stored more than once, and `copy` tells these apart, in *)
(* their order.  Nodes are never removed by anybody, so the endpoints of   *)
(* every fact are taken to be there.                                       *)
(***************************************************************************)
EXTENDS Naturals, FiniteSets

CONSTANTS
  Facts,        (* triples (from, rel, to) *)
  Loops,        (* those whose from is their to *)
  RelOf,        (* the rel of a fact *)
  GroupOf,      (* its (from, rel), the unit of replace_edges *)
  KeyOf,        (* its place in the order (from, rel, to) *)
  Initial,      (* facts ingested at the start, without a date *)
  EdgePage,     (* edges in a page *)
  MaxFailures,  (* bound: engine calls that fail *)
  MaxArrivals,  (* bound: assertions and ingested batches *)
  NULL

ASSUME GraphAssumption ==
  /\ Loops \subseteq Facts
  /\ DOMAIN RelOf = Facts /\ DOMAIN GroupOf = Facts
  /\ KeyOf \in [Facts -> Nat]
  /\ \A f, h \in Facts : /\ KeyOf[f] = KeyOf[h] => f = h
                         /\ GroupOf[f] = GroupOf[h] => RelOf[f] = RelOf[h]
  /\ Initial \subseteq Facts /\ IsFiniteSet(Initial)
  /\ EdgePage \in Nat \ {0}
  /\ MaxFailures \in Nat /\ MaxArrivals \in Nat

VARIABLES
  graph,     (* the stored edges *)
  failures,  (* engine calls that failed so far *)
  arrivals,  (* assertions by others, and batches, so far *)
  cursor,    (* how far each writer is in the listing of a relation, or NULL *)
  fresh,     (* history: for each writer between its scan and its write, the
                edges that others have touched since the scan began, or moved
                out of it; NULL for the rest *)
  missed,    (* history: edges moved out of any listing under way, ever *)
  changes,   (* the ChangeSets handed to the inference engine, ever *)
  handled    (* those whose task has taken the inference mutex *)

graphVars == <<graph, failures, arrivals, cursor, fresh, missed>>

-----------------------------------------------------------------------------
Writers == {"gate", "infer"}

(* "user" is Provenance::Agent with gated: false; "gate" the same with     *)
(* gated: true; "rule" Provenance::Rule.  open: no valid_to, no forgotten  *)
(* block.                                                                  *)
Edge == [fact : Facts, dated : BOOLEAN, copy : Nat,
         by : {"ingest", "user", "gate", "rule"}, pid : Nat, open : BOOLEAN]

Ids == Facts \X BOOLEAN

Rels == {RelOf[f] : f \in Facts}

Cursor == [rel : Rels, offset : Nat]

ASSUME NullAssumption ==
  /\ \A S \in SUBSET Facts : S # NULL
  /\ \A S \in SUBSET Ids : S # NULL
  /\ NULL \notin Cursor

Id(e) == <<e.fact, e.dated>>

NewEdge(f, by, pid) ==
  [fact |-> f, dated |-> FALSE, copy |-> 0, by |-> by, pid |-> pid, open |-> TRUE]

Asserted(f) == \E e \in graph : e.fact = f

(* upsert_edges: the first edge of the same identity is overwritten.       *)
Upserted(edges) ==
  {e \in graph : e.copy = 0 => \A n \in edges : Id(n) # Id(e)} \cup edges

Group(group) == {e \in graph : GroupOf[e.fact] = group}

(* neighbors(from, rel): a node is no neighbor of its own.                 *)
Neighbourhood(group) == {e \in Group(group) : e.fact \notin Loops}

(* replace_edges: every (from, rel, _) edge goes, the new ones come.       *)
Replaced(group, edges) == (graph \ Group(group)) \cup edges

-----------------------------------------------------------------------------
(* edges(rel, offset, limit): by (from, rel, to, valid_from), a stable     *)
(* sort; no date comes before any.                                         *)
SortsBefore(x, e) ==
  \/ KeyOf[x.fact] < KeyOf[e.fact]
  \/ x.fact = e.fact /\ ~x.dated /\ e.dated
  \/ Id(x) = Id(e) /\ x.copy < e.copy

OfRel(edges, rel) == {e \in edges : RelOf[e.fact] = rel}

Place(edges, e) ==
  Cardinality({x \in OfRel(edges, RelOf[e.fact]) : SortsBefore(x, e)})

Stored(rel) == Cardinality(OfRel(graph, rel))

Offset(w) == IF cursor[w] = NULL THEN 0 ELSE cursor[w].offset

PageOf(w, rel) ==
  {e \in OfRel(graph, rel) : Place(graph, e) \in Offset(w)..(Offset(w) + EdgePage - 1)}

(* The page is short, or even empty.                                       *)
IsShort(w, rel) == Stored(rel) < Offset(w) + EdgePage
IsEmpty(w, rel) == Stored(rel) <= Offset(w)

(* w has read a page, and the listing goes on after it.                    *)
Turn(w, rel) ==
  cursor' = [cursor EXCEPT ![w] =
    [rel |-> rel,
     offset |-> IF IsShort(w, rel) THEN Stored(rel) ELSE Offset(w) + EdgePage]]

(* Mutant of Close: the next listing goes on at the offset of this one.    *)
NotClosed(w) == UNCHANGED cursor

Close(w) == cursor' = [cursor EXCEPT ![w] = NULL]

-----------------------------------------------------------------------------
GraphInit ==
  /\ graph = {NewEdge(f, "ingest", 0) : f \in Initial}
  /\ failures = 0 /\ arrivals = 0
  /\ cursor = [w \in Writers |-> NULL]
  /\ fresh = [w \in Writers |-> NULL]
  /\ missed = {}
  /\ changes = {} /\ handled = {}

(* A writer reads what its next write relies on, or a page of it.          *)
Scan(w) ==
  /\ fresh' = IF cursor[w] = NULL THEN [fresh EXCEPT ![w] = {}] ELSE fresh
  /\ UNCHANGED <<graph, missed>>

Drop(w) ==
  /\ fresh' = [fresh EXCEPT ![w] = NULL]
  /\ UNCHANGED <<graph, missed>>

(* What goes out of w's listing when the graph becomes g: it was yet to    *)
(* come, and is now on a page that w has read.                             *)
MovedOut(w, g) ==
  IF cursor[w] = NULL THEN {}
  ELSE {Id(e) : e \in {x \in OfRel(graph, cursor[w].rel) :
                         /\ Place(graph, x) >= cursor[w].offset
                         /\ \E y \in g : /\ Id(y) = Id(x) /\ y.copy = x.copy
                                         /\ Place(g, y) < cursor[w].offset}}

(* w makes the graph g; the other writers' scans are that much older.      *)
Put(w, g) ==
  LET touched == {Id(e) : e \in (graph \ g) \cup (g \ graph)}
  IN /\ graph' = g
     /\ fresh' = [v \in Writers |->
          IF v = w \/ fresh[v] = NULL THEN NULL
          ELSE fresh[v] \cup touched \cup MovedOut(v, g)]
     /\ missed' = missed \cup UNION {MovedOut(v, g) : v \in Writers \ {w}}

EngineFails ==
  /\ failures < MaxFailures
  /\ failures' = failures + 1

(* A finding or an ingested document asserts f, whatever is there.  (The   *)
(* tool tdw.kg.link looks first, in a call of its own.)                    *)
OtherAsserts(f, source, dated) ==
  /\ arrivals < MaxArrivals
  /\ arrivals' = arrivals + 1
  /\ Put("other", Upserted({[NewEdge(f, source, 0) EXCEPT !.dated = dated]}))
  /\ UNCHANGED <<failures, cursor, changes, handled>>

=============================================================================
