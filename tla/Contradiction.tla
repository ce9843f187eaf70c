--------------------------- MODULE Contradiction ---------------------------
(***************************************************************************)
(* The contradiction detector of crates/tdw-infer/src/contradiction.rs: a  *)
(* relation declared functional has one current value for each subject, so *)
(* a scan closes the validity window of what a newer fact supersedes.      *)
(*                                                                         *)
(* Scans start after every ingested batch and every materialization, under *)
(* no mutex: a scan lists the relation page by page, and then reads and    *)
(* rewrites one subject's edges for each edge it closes, while other scans *)
(* and the other writers of the graph come in between.  The model is of    *)
(* one functional relation; a scan goes through them one after the other.  *)
(***************************************************************************)
EXTENDS Integers, FiniteSets

CONSTANTS
  Subjects, Objects,  (* numbers, in the order of the ids *)
  Initial,            (* the relation's edges at the start *)
  Proposed,           (* <<subject, object>>: what the gate may approve *)
  Arriving,           (* <<subject, object, by, day>>: what ingestion and
                         tdw.kg.link may assert *)
  Scans,              (* tasks that scan *)
  Page,               (* size of a page *)
  MaxDay,             (* bound: the days the model runs *)
  NULL

Days == 1..MaxDay
Undated == 0
Open == 0

(* One edge of the relation: valid_from, valid_to, provenance, and whether *)
(* it carries the `forgotten` block.                                       *)
Edge == [subject : Subjects, object : Objects, from : {Undated} \cup Days,
         to : {Open} \cup Days, by : {"gate", "ingest", "user", "rule"}, cold : BOOLEAN]

Id(e) == <<e.subject, e.object, e.from>>

Unique(edges) == \A e, x \in edges : Id(e) = Id(x) => e = x

ASSUME ContradictionAssumption ==
  /\ Subjects \subseteq Nat /\ Objects \subseteq Nat
  /\ {MaxDay, Page} \subseteq Nat \ {0}
  /\ Initial \subseteq Edge /\ IsFiniteSet(Initial) /\ Unique(Initial)
  /\ \A e \in Initial : e.from <= 1 /\ e.to = Open
  /\ Proposed \subseteq Subjects \X Objects
  /\ Arriving \subseteq Subjects \X Objects \X {"ingest", "user"} \X ({Undated} \cup Days)

VARIABLES
  facts,    (* the relation's edges in the graph *)
  today,    (* the date all callers pass as `now` *)
  scan,     (* what each scan has in hand; NULL outside a scan *)
  gate,     (* what the gate's mutex holder has in hand; NULL if nobody *)
  settled   (* history: a scan of today has ended that no write came into,
               and nobody has written since *)

vars == <<facts, today, scan, gate, settled>>

-----------------------------------------------------------------------------
(* A scan: what it does next; the edges it has listed, with their places   *)
(* in the listing, and how far it is; what it has decided to write; what   *)
(* it has read to write one of it; and, a history, who wrote since it      *)
(* began: nobody, other scans, or somebody else too.                       *)
Item == [at : Nat, edge : Edge]

Scan == [next : {"list", "read", "write"}, day : Days, offset : Nat, listed : SUBSET Item,
         todo : SUBSET Item, view : SUBSET Edge, intruder : {"none", "scan", "other"}]

(* The gate between validation and write, or between the retirement's read *)
(* and its write.                                                          *)
Materialization == [kind : {"assert", "retire"}, edge : Edge, view : SUBSET Edge]

ASSUME NullAssumption == NULL \notin Scan \cup Materialization

NewEdge(s, o, day, by) ==
  [subject |-> s, object |-> o, from |-> day, to |-> Open, by |-> by, cold |-> FALSE]

(* active_at: half-open windows, open bounds pass.                         *)
Active(e, day) == e.from <= day /\ (e.to = Open \/ day < e.to)

Of(s) == {e \in facts : e.subject = s}

(* neighbors(s, Out): a node is no neighbor of its own.                    *)
NeighborsOf(s) == {e \in Of(s) : e.object # s}

HasLoop(s) == \E e \in Of(s) : e.object = s

(* edges(rel, ...): sorted by (from, rel, to, valid_from).                 *)
Before(i, k) == \/ i[1] < k[1]
                \/ i[1] = k[1] /\ i[2] < k[2]
                \/ i[1] = k[1] /\ i[2] = k[2] /\ i[3] < k[3]

Stored == {Id(e) : e \in facts}

Place(i) == Cardinality({k \in Stored : Before(k, i)})

PageFrom(offset) ==
  {[at |-> Place(Id(e)), edge |-> e] :
     e \in {x \in facts : Place(Id(x)) \in offset..(offset + Page - 1)}}

(* The comparison of scan_all_functional: an edge without a date comes     *)
(* before all others, then the later date; the sort is stable.             *)
Newer(e, x) == e.from # x.from /\ (e.from = Undated \/ (x.from # Undated /\ e.from > x.from))

Ranked(x, y) == \/ Newer(x.edge, y.edge)
                \/ ~Newer(y.edge, x.edge) /\ x.at < y.at

(* The order in which a scan goes through the subjects and their edges.    *)
Precedes(x, y) == \/ x.edge.subject < y.edge.subject
                  \/ x.edge.subject = y.edge.subject /\ Ranked(x, y)

IsFirst(x, items) == x \in items /\ \A y \in items \ {x} : Precedes(x, y)

First(items) == CHOOSE x \in items : IsFirst(x, items)

CloseAt(winner, day) == IF winner.from = Undated THEN day ELSE winner.from

(* Mutant of MayClose: equal dates pass.                                   *)
MayCloseSameDay(e, day) ==
  /\ e.by \in {"gate", "ingest"}
  /\ e.from = Undated \/ e.from <= day

(* The trust-class matrix, and the guard against an empty window.          *)
MayClose(e, day) ==
  /\ e.by \in {"gate", "ingest"}
  /\ e.from = Undated \/ e.from < day

(* Mutants of Losers: the first too; the second alone.                     *)
AllRanked(items) == items
OnlyNext(items) == {x \in items : IsFirst(x, items \ {First(items)})}

(* What is superseded: all but the first.                                  *)
Losers(items) == items \ {First(items)}

(* The active edges of a subject that a scan closes, as it will write them.*)
ClosedOf(items, day) ==
  LET at == CloseAt(First(items).edge, day)
  IN {[x EXCEPT !.edge.to = at] : x \in {y \in Losers(items) : MayClose(y.edge, at)}}

Closures(items, day) ==
  UNION {ClosedOf({x \in items : x.edge.subject = s}, day) : s \in {x.edge.subject : x \in items}}

(* replace_edges with the edge of the same identity exchanged.             *)
Exchanged(view, e) == {IF Id(x) = Id(e) THEN e ELSE x : x \in view}

-----------------------------------------------------------------------------
(* A write comes into every scan under way.  So does midnight: scans of    *)
(* two days decide differently.                                            *)
Intruded(who) ==
  [r \in Scans |-> IF scan[r] = NULL THEN NULL
                   ELSE [scan[r] EXCEPT !.intruder = IF @ = "other" THEN @ ELSE who]]

(* A write that is not a scan's.                                           *)
Write(edges) == facts' = edges /\ scan' = Intruded("other") /\ settled' = FALSE

Upserted(e) == {x \in facts : Id(x) # Id(e)} \cup {e}

Init ==
  /\ facts = Initial /\ today = 1
  /\ scan = [r \in Scans |-> NULL] /\ gate = NULL
  /\ settled = FALSE

(* A batch was ingested or a proposal materialized, of this or any other   *)
(* relation.                                                               *)
ScanBegin(r) ==
  /\ scan[r] = NULL
  /\ scan' = [scan EXCEPT ![r] =
       [next |-> "list", day |-> today, offset |-> 0, listed |-> {}, todo |-> {},
        view |-> {}, intruder |-> "none"]]
  /\ UNCHANGED <<facts, today, gate, settled>>

(* The next page; after the last, what is to be closed is decided.         *)
ListPage(r) ==
  /\ scan[r] # NULL /\ scan[r].next = "list"
  /\ LET next   == scan[r].offset + Page
         page   == {x \in PageFrom(scan[r].offset) : Active(x.edge, scan[r].day)}
         listed == scan[r].listed \cup page
         todo   == Closures(listed, scan[r].day)
     IN \/ /\ Cardinality(facts) >= next
           /\ scan' = [scan EXCEPT ![r].offset = next, ![r].listed = listed]
           /\ UNCHANGED settled
        \/ /\ Cardinality(facts) < next /\ todo # {}
           /\ scan' = [scan EXCEPT ![r].next = "read", ![r].todo = todo,
                                       ![r].listed = {}, ![r].offset = 0]
           /\ UNCHANGED settled
        \/ /\ Cardinality(facts) < next /\ todo = {}
           /\ scan' = [scan EXCEPT ![r] = NULL]
           /\ settled' = (settled \/ scan[r].intruder = "none")
  /\ UNCHANGED <<facts, today, gate>>

(* scan_rel_for_subject, by neighbors().                                   *)
Rescan(r) ==
  /\ scan[r] # NULL /\ scan[r].next = "read"
  /\ \E x \in scan[r].todo :
       /\ IsFirst(x, scan[r].todo)
       /\ scan' = [scan EXCEPT ![r].next = "write", ![r].view = NeighborsOf(x.edge.subject)]
  /\ UNCHANGED <<facts, today, gate, settled>>

(* replace_edges takes all edges of the subject out, a self-loop that the  *)
(* scan has not read as well.                                              *)
Rewrite(r, x) ==
  /\ scan[r] # NULL /\ scan[r].next = "write"
  /\ IsFirst(x, scan[r].todo)
  /\ facts' = (facts \ Of(x.edge.subject)) \cup Exchanged(scan[r].view, x.edge)

(* The write of a scan that somebody else wrote into counts as somebody    *)
(* else's, and so does one that loses a self-loop, for the scan itself too.*)
Estranged(r, x) == scan[r].intruder = "other" \/ HasLoop(x.edge.subject)

After(r, x) == Intruded(IF Estranged(r, x) THEN "other" ELSE "scan")

(* It returns, and the scan goes on to the next edge to close.             *)
Replace(r) ==
  /\ scan[r] # NULL /\ scan[r].next = "write"
  /\ \E x \in scan[r].todo :
       LET todo == scan[r].todo \ {x}
       IN /\ Rewrite(r, x)
          /\ scan' = [After(r, x) EXCEPT ![r] =
               IF todo = {} THEN NULL
               ELSE [scan[r] EXCEPT !.next = "read", !.todo = todo, !.view = {},
                                    !.intruder = IF Estranged(r, x) THEN "other" ELSE @]]
          /\ settled' = (todo = {} /\ scan[r].intruder = "none" /\ ~Estranged(r, x))
  /\ UNCHANGED <<today, gate>>

(* An engine call fails and `?` leaves the rest of the scan undone; a      *)
(* write may have been committed.                                          *)
ScanFails(r) ==
  /\ scan[r] # NULL
  /\ \/ /\ scan' = [scan EXCEPT ![r] = NULL]
        /\ UNCHANGED <<facts, settled>>
     \/ /\ scan[r].next = "write"
        /\ \E x \in scan[r].todo :
             Rewrite(r, x) /\ scan' = [After(r, x) EXCEPT ![r] = NULL]
        /\ settled' = FALSE
  /\ UNCHANGED <<today, gate>>

-----------------------------------------------------------------------------
(* The gate materializes an approved edge: the triple must be new, the     *)
(* write is a later call.  The check lists the relation by pages, here one *)
(* step: it is sure to find an edge of the first page, and one beyond it   *)
(* may move to a page already read.                                        *)
MayBeNew(s, o) == \A e \in Of(s) : e.object = o => Place(Id(e)) >= Page

GateCheck(s, o) ==
  /\ gate = NULL
  /\ MayBeNew(s, o)
  /\ gate' = [kind |-> "assert", edge |-> NewEdge(s, o, Undated, "gate"), view |-> {}]
  /\ UNCHANGED <<facts, today, scan, settled>>

GateWrite ==
  /\ gate # NULL /\ gate.kind = "assert"
  /\ Write(Upserted(gate.edge))
  /\ gate' = NULL
  /\ UNCHANGED today

(* retire_edge_to_cold: closes the window today, unless it began today.    *)
Retired(e) ==
  [e EXCEPT !.cold = TRUE, !.to = IF e.from < today THEN today ELSE @]

(* The first open edge of the triple that is not cold, by neighbors().     *)
RetireScan(s, o) ==
  LET found == {e \in NeighborsOf(s) : e.object = o /\ e.to = Open /\ ~e.cold}
  IN /\ gate = NULL
     /\ \E e \in found :
          /\ \A x \in found : e.from <= x.from
          /\ gate' = [kind |-> "retire", edge |-> Retired(e), view |-> NeighborsOf(s)]
     /\ UNCHANGED <<facts, today, scan, settled>>

RetireWrite ==
  /\ gate # NULL /\ gate.kind = "retire"
  /\ Write((facts \ Of(gate.edge.subject)) \cup Exchanged(gate.view, gate.edge))
  /\ gate' = NULL
  /\ UNCHANGED today

(* A document of today, of an earlier day or without a date is ingested,   *)
(* perhaps once more; or a user makes a link today, if neighbors() shows   *)
(* no edge of that triple.                                                 *)
Arrives(s, o, by, day) ==
  LET e == NewEdge(s, o, day, by)
  IN /\ day <= today /\ e \notin facts
     /\ by = "user" => day = today /\ ~\E x \in NeighborsOf(s) : x.object = o
     /\ Write(Upserted(e))
     /\ UNCHANGED <<today, gate>>

Tick ==
  /\ today < MaxDay
  /\ today' = today + 1
  /\ scan' = Intruded("other") /\ settled' = FALSE
  /\ UNCHANGED <<facts, gate>>

Detector(r) == ScanBegin(r) \/ ListPage(r) \/ Rescan(r) \/ Replace(r) \/ ScanFails(r)

Others ==
  \/ \E p \in Proposed : GateCheck(p[1], p[2]) \/ RetireScan(p[1], p[2])
  \/ GateWrite \/ RetireWrite
  \/ \E a \in Arriving : Arrives(a[1], a[2], a[3], a[4])
  \/ Tick

Next == (\E r \in Scans : Detector(r)) \/ Others

Spec == Init /\ [][Next]_vars

-----------------------------------------------------------------------------
(* The state has the shape of the Rust types.  No window is empty, so that *)
(* the engine accepts every rewrite, and no two edges have one identity,   *)
(* also in what scans and the gate have read and will write.               *)
Windowed(edges) == \A e \in edges : e.to # Open => e.from < e.to

TypeOK ==
  /\ facts \subseteq Edge /\ IsFiniteSet(facts) /\ Windowed(facts) /\ Unique(facts)
  /\ today \in Days
  /\ scan \in [Scans -> {NULL} \cup Scan]
  /\ \A r \in Scans : scan[r] # NULL =>
       /\ scan[r].day <= today
       /\ Windowed({x.edge : x \in scan[r].listed \cup scan[r].todo} \cup scan[r].view)
       /\ Unique(scan[r].view)
       /\ scan[r].next # "list" => scan[r].todo # {}
  /\ gate \in {NULL} \cup Materialization
  /\ gate # NULL => Windowed(gate.view \cup {gate.edge}) /\ Unique(gate.view)
  /\ settled \in BOOLEAN

(* When a scan is through that no other write came into and that lost no   *)
(* self-loop, each subject has one current value, apart from what the      *)
(* detector may not decide: users' links, derived edges and facts of the   *)
(* same day.  Until somebody writes, and be it another scan, which writes  *)
(* back what it read before.                                               *)
OneCurrentValue ==
  settled =>
    \A s \in Subjects :
      LET active == {e \in Of(s) : Active(e, today)}
      IN active # {} => \E w \in active : \A e \in active \ {w} :
           ~MayClose(e, CloseAt(w, today))

(* However scans overlap, they never take the last value of a subject:     *)
(* only forgetting it does; or a scan that rewrites the subject and that   *)
(* somebody else wrote into (it may have listed an edge twice, because an  *)
(* insertion shifted the pages, and take the edge for its own successor;   *)
(* or its winner is gone); or one that loses the subject's current         *)
(* self-loop, which may be the value it closed the others for.             *)
SubjectKeepsValue ==
  [][\A s \in Subjects :
       (\E e \in Of(s) : Active(e, today)) =>
         \/ \E e \in facts' : e.subject = s /\ Active(e, today)
         \/ /\ gate # NULL /\ gate.kind = "retire" /\ gate' = NULL
            /\ gate.edge.subject = s
         \/ \E r \in Scans : scan[r] # NULL /\ \E x \in scan[r].todo :
              /\ x.edge.subject = s /\ Rewrite(r, x)
              /\ \/ scan[r].intruder = "other"
                 \/ \E e \in Of(s) : e.object = s /\ Active(e, today)]_vars

=============================================================================
