----------------------------- MODULE Inference -----------------------------
(***************************************************************************)
(* The rule engine of crates/tdw-infer over the shared graph: incremental  *)
(* runs, spawned for the ChangeSets of the gate and of ingestion, and      *)
(* retraction.  A mutex admits one of them at a time.  A rule pass lists   *)
(* its inputs page by page, then the derived type, records the derivations *)
(* in memory and then upserts the edges; each page and each write is a     *)
(* step.                                                                   *)
(*                                                                         *)
(* DeriveEdge rules only.  Their joins are given: Ground is the set of     *)
(* instances (which facts support which).                                  *)
(***************************************************************************)
EXTENDS KnowledgeGraph, Sequences

CONSTANTS
  Rules,          (* 1..n, in the order of the rule set *)
  StratumOf,      (* a rule's stratum *)
  WhenOf,         (* the rels it joins, in order; each of them once *)
  ThenOf,         (* its derived_type *)
  Ground,         (* its instances: [rule, support, fact] *)
  MaxIterations,  (* RunLimits::max_iterations *)
  IngestRels      (* edge_types of the ChangeSet that ingestion hands over *)

ASSUME InferAssumption ==
  /\ Rules \subseteq Nat /\ IsFiniteSet(Rules)
  /\ StratumOf \in [Rules -> Nat]
  /\ WhenOf \in [Rules -> Seq(Rels) \ {<<>>}] /\ ThenOf \in [Rules -> Rels]
  /\ MaxIterations \in Nat
  /\ IsFiniteSet(Ground)
  /\ \A g \in Ground :
       /\ g.rule \in Rules /\ g.fact \in Facts \ Loops /\ g.support \subseteq Facts
       /\ RelOf[g.fact] = ThenOf[g.rule]
       /\ \A s \in g.support : \E i \in DOMAIN WhenOf[g.rule] : RelOf[s] = WhenOf[g.rule][i]
       /\ g.fact \notin g.support

VARIABLES
  index,   (* DerivationIndex: the support recorded for a fact, or NULL *)
  inf      (* the run or retraction holding the mutex, or NULL *)

inferVars == <<index, inf>>

-----------------------------------------------------------------------------
(* run_rules_filtered and retract under way.  A run keeps the hop of the   *)
(* chain it lists and the facts the listings have shown it; a retraction   *)
(* whether it came by a rule edge of its goal, and the edges that stay.    *)
Run == [mode : {"run"}, fire : SUBSET Rules, rule : Rules, spent : Nat, news : BOOLEAN,
        at : {"match", "existing", "upsert"}, hop : Nat, seen : SUBSET Facts,
        found : SUBSET Ground]

Retracting == [mode : {"retract"}, left : SUBSET Facts, at : {"scan", "replace"},
               removed : BOOLEAN, view : SUBSET Edge]

ASSUME RunAssumption == NULL \notin Run \cup Retracting

Least(S) == CHOOSE i \in S : \A k \in S : i <= k

Strata == {StratumOf[r] : r \in Rules}

(* Mutant of Triggered: every input of the rule must have changed.         *)
FullyTriggered(r, rels) == \A i \in DOMAIN WhenOf[r] : WhenOf[r][i] \in rels

(* rule_triggered.                                                         *)
Triggered(r, rels) == \E i \in DOMAIN WhenOf[r] : WhenOf[r][i] \in rels

InferInit ==
  /\ index = [f \in Facts |-> NULL]
  /\ inf = NULL

(* Where a run goes from stratum s with the rules of that stratum that are *)
(* left, after `spent` iterations: to the next rule, to a stratum with a   *)
(* rule to fire (each stratum on the way costs an iteration), or home.     *)
Later(run, s) == {t \in Strata : t > s}

Fired(run, s) == {r \in run.fire : StratumOf[r] = s}

Entered(run, s, spent) ==
  IF spent > MaxIterations \/ Fired(run, s) = {}
  THEN NULL
  ELSE [run EXCEPT !.rule = Least(Fired(run, s)), !.spent = spent, !.news = FALSE,
                   !.at = "match", !.hop = 1, !.seen = {}, !.found = {}]

NextStratum(run, s) ==
  LET firing == {t \in Later(run, s) : Fired(run, t) # {}}
  IN IF firing = {} THEN NULL
     ELSE Entered(run, Least(firing),
                  run.spent + Cardinality({t \in Later(run, s) : t <= Least(firing)}))

AfterRule(run, news) ==
  LET s    == StratumOf[run.rule]
      rest == {r \in Fired(run, s) : r > run.rule}
  IN IF rest # {}
     THEN [run EXCEPT !.rule = Least(rest), !.news = news,
                      !.at = "match", !.hop = 1, !.seen = {}, !.found = {}]
     ELSE IF news THEN Entered(run, s, run.spent + 1)
                  ELSE NextStratum(run, s)

FirstOf(fire) ==
  LET run == [mode |-> "run", fire |-> fire, rule |-> 0, spent |-> 0, news |-> FALSE,
              at |-> "match", hop |-> 1, seen |-> {}, found |-> {}]
      firing == {t \in Strata : Fired(run, t) # {}}
  IN IF firing = {} THEN NULL
     ELSE Entered(run, Least(firing), Cardinality({t \in Strata : t <= Least(firing)}))

(* fire_infer_after_sweep, fire_infer_after_materialize: the spawned task  *)
(* gets the mutex.                                                         *)
BeginIncremental(c) ==
  /\ inf = NULL
  /\ handled' = handled \cup {c}
  /\ inf' = FirstOf({r \in Rules : Triggered(r, c.rels)})
  /\ UNCHANGED <<index, graphVars, changes>>

(* run_infer_after_ingest, for a batch that may have brought other facts.  *)
BeginAfterIngest ==
  /\ inf = NULL
  /\ arrivals < MaxArrivals
  /\ arrivals' = arrivals + 1
  /\ inf' = FirstOf({r \in Rules : Triggered(r, IngestRels)})
  /\ UNCHANGED <<index, graph, failures, cursor, fresh, missed, changes, handled>>

(* scan_rel ends with a short page, and goes on otherwise.                 *)
Listing(rel) == ~IsShort("infer", rel) /\ Turn("infer", rel)
Listed(rel) == IsShort("infer", rel) /\ Close("infer")

(* match_chain lists the inputs; findings (gated: false) are left out,     *)
(* closed edges are not.                                                   *)
Hop == WhenOf[inf.rule][inf.hop]

Inputs == UNION {g.support : g \in {h \in Ground : h.rule = inf.rule}}

Matched == inf.seen \cup (Inputs \cap {e.fact : e \in {x \in PageOf("infer", Hop) : x.by # "user"}})

Matching ==
  /\ inf # NULL /\ inf.at = "match"
  /\ UNCHANGED <<index, graph, failures, arrivals, fresh, missed, changes, handled>>

MatchPage ==
  /\ Matching
  /\ Listing(Hop)
  /\ inf' = [inf EXCEPT !.seen = Matched]

NextHop ==
  /\ Matching
  /\ Listed(Hop)
  /\ inf.hop < Len(WhenOf[inf.rule])
  /\ inf' = [inf EXCEPT !.hop = @ + 1, !.seen = Matched]

Joined(r, seen) == {g \in Ground : g.rule = r /\ g.support \subseteq seen}

Match ==
  /\ Matching
  /\ Listed(Hop)
  /\ inf.hop = Len(WhenOf[inf.rule])
  /\ inf' = [inf EXCEPT !.at = "existing", !.seen = {},
                         !.found = Joined(inf.rule, Matched)]

(* The listing of the derived type, whoever wrote its edges.               *)
Existing ==
  inf.seen \cup ({g.fact : g \in inf.found}
                  \cap {e.fact : e \in PageOf("infer", ThenOf[inf.rule])})

ExistingPage ==
  /\ inf # NULL /\ inf.at = "existing"
  /\ Listing(ThenOf[inf.rule])
  /\ Scan("infer")
  /\ inf' = [inf EXCEPT !.seen = Existing]
  /\ UNCHANGED <<index, failures, arrivals, changes, handled>>

(* What was derived, is not indexed and did not show.                      *)
New == {g \in inf.found : index[g.fact] = NULL /\ g.fact \notin Existing}

(* The derivations are recorded before their edges are written.            *)
ScanExisting ==
  /\ inf # NULL /\ inf.at = "existing"
  /\ Listed(ThenOf[inf.rule])
  /\ index' = [f \in Facts |->
       IF \E g \in New : g.fact = f THEN (CHOOSE g \in New : g.fact = f).support
                                   ELSE index[f]]
  /\ IF New = {}
     THEN /\ inf' = AfterRule(inf, inf.news)
          /\ Drop("infer")
     ELSE /\ inf' = [inf EXCEPT !.at = "upsert", !.seen = {}, !.found = New]
          /\ Scan("infer")
  /\ UNCHANGED <<failures, arrivals, changes, handled>>

Derived == {NewEdge(g.fact, "rule", 0) : g \in inf.found}

UpsertDerived ==
  /\ inf # NULL /\ inf.at = "upsert"
  /\ Put("infer", Upserted(Derived))
  /\ inf' = AfterRule(inf, TRUE)
  /\ UNCHANGED <<index, failures, arrivals, cursor, changes, handled>>

-----------------------------------------------------------------------------
(* Mutant of Dependents: one level of the support closure.                 *)
DirectDependents(f) == {d \in Facts : index[d] # NULL /\ f \in index[d]}

ClosedFrom(f, C) ==
  \A d \in Facts : index[d] # NULL /\ index[d] \cap (C \cup {f}) # {} => d \in C

(* retract: everything indexed whose support leads back to f, the least    *)
(* set that is closed from f.                                              *)
Dependents(f) == {d \in Facts : \A C \in SUBSET Facts : ClosedFrom(f, C) => d \in C}

Retraction(facts) ==
  IF facts = {} THEN NULL
  ELSE [mode |-> "retract", left |-> facts, at |-> "scan", removed |-> FALSE, view |-> {}]

BeginRetract(f) ==
  /\ inf = NULL
  /\ inf' = Retraction(Dependents(f))
  /\ inf' # NULL
  /\ UNCHANGED <<index, graphVars, changes, handled>>

RuleEdges(edges, f) == {e \in edges : e.fact = f /\ e.by = "rule"}

Goal == CHOOSE f \in inf.left : TRUE

(* The survivors, in the order of the listing; one that shows twice is     *)
(* kept twice.                                                             *)
Collected(view, edges) ==
  view \cup {[e EXCEPT !.copy = Cardinality({x \in view : Id(x) = Id(e)})
                              + Cardinality({x \in edges : Id(x) = Id(e) /\ x.copy < e.copy})]
             : e \in edges}

GoalsPage == {e \in PageOf("infer", RelOf[Goal]) : GroupOf[e.fact] = GroupOf[Goal]}

Removed == inf.removed \/ RuleEdges(GoalsPage, Goal) # {}

Survivors == Collected(inf.view, GoalsPage \ RuleEdges(GoalsPage, Goal))

RetractPage ==
  /\ inf # NULL /\ inf.at = "scan"
  /\ Listing(RelOf[Goal])
  /\ Scan("infer")
  /\ inf' = [inf EXCEPT !.removed = Removed, !.view = Survivors]
  /\ UNCHANGED <<index, failures, arrivals, changes, handled>>

(* Nothing of the rules' to remove: only the index entry goes.             *)
RetractPreserves ==
  /\ inf # NULL /\ inf.at = "scan"
  /\ Listed(RelOf[Goal])
  /\ ~Removed
  /\ Drop("infer")
  /\ index' = [index EXCEPT ![Goal] = NULL]
  /\ inf' = Retraction(inf.left \ {Goal})
  /\ UNCHANGED <<failures, arrivals, changes, handled>>

RetractScan ==
  /\ inf # NULL /\ inf.at = "scan"
  /\ Listed(RelOf[Goal])
  /\ Removed
  /\ Scan("infer")
  /\ inf' = [inf EXCEPT !.at = "replace", !.removed = TRUE, !.view = Survivors]
  /\ UNCHANGED <<index, failures, arrivals, changes, handled>>

RetractReplace ==
  /\ inf # NULL /\ inf.at = "replace"
  /\ Put("infer", Replaced(GroupOf[Goal], inf.view))
  /\ index' = [index EXCEPT ![Goal] = NULL]
  /\ inf' = Retraction(inf.left \ {Goal})
  /\ UNCHANGED <<failures, arrivals, cursor, changes, handled>>

(* An engine call fails and ends the run or the retraction.  What was      *)
(* recorded stays recorded; a write may have been committed.               *)
InferFails ==
  /\ inf # NULL
  /\ EngineFails
  /\ inf' = NULL
  /\ Close("infer")
  /\ \/ Drop("infer")
     \/ inf.at = "upsert" /\ Put("infer", Upserted(Derived))
     \/ inf.at = "replace" /\ Put("infer", Replaced(GroupOf[Goal], inf.view))
  /\ UNCHANGED <<index, arrivals, changes, handled>>

InferStep ==
  \/ \E c \in changes \ handled : BeginIncremental(c)
  \/ MatchPage \/ NextHop \/ Match
  \/ ExistingPage \/ ScanExisting \/ UpsertDerived
  \/ RetractPage \/ RetractPreserves \/ RetractScan \/ RetractReplace

InferNext ==
  \/ InferStep
  \/ BeginAfterIngest
  \/ \E f \in Facts : BeginRetract(f)
  \/ InferFails

=============================================================================
