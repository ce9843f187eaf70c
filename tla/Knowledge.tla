----------------------------- MODULE Knowledge -----------------------------
(***************************************************************************)
(* The knowledge runtime of the daemon: the proposal gate, the inference   *)
(* engine and the other writers (findings, ingestion) over one graph.      *)
(*                                                                         *)
(* Gate and engine each have a mutex of their own and neither covers the   *)
(* graph, so a step of one can fall between any two engine calls of the    *)
(* other.  The properties say what survives that.                          *)
(***************************************************************************)
EXTENDS ProposalGate, Inference

CONSTANT
  Arriving  (* what findings ("user") and ingestion may still assert *)

ASSUME ArrivingAssumption == Arriving \subseteq Facts \X {"user", "ingest"} \X BOOLEAN

VARIABLE
  undone  (* history: edges that the write-back of a retirement put back or
             removed although others had touched them since its scan, and
             self-loops, which the scan does not show *)

vars == <<graphVars, changes, handled, gateVars, inferVars, undone>>

Undoing ==
  IF op # NULL /\ op.at = "retire"
  THEN {Id(e) : e \in (graph \ graph') \cup (graph' \ graph)}
         \cap (fresh["gate"] \cup Loops \X BOOLEAN)
  ELSE {}

Init == GraphInit /\ GateInit /\ InferInit /\ undone = {}

Gate(A) == /\ A
           /\ undone' = undone \cup Undoing
           /\ UNCHANGED inferVars

Infer(A) == A /\ UNCHANGED <<gateVars, undone>>

Others(A) == A /\ UNCHANGED <<gateVars, inferVars, undone>>

Next ==
  \/ Gate(GateNext)
  \/ Infer(InferNext)
  \/ \E a \in Arriving : Others(OtherAsserts(a[1], a[2], a[3]))

(* The sweep's cron slots keep coming; a step whose engine call returns is *)
(* taken; tokio's mutex queues its waiters, so that a task waiting for the *)
(* inference mutex gets it however often others take it.                   *)
Fairness ==
  /\ WF_vars(Gate(Begin(SweepCap)))
  /\ WF_vars(Gate(GateStep))
  /\ WF_vars(Infer(InferStep))
  /\ SF_vars(Infer(\E c \in changes \ handled : BeginIncremental(c)))

Spec == Init /\ [][Next]_vars /\ Fairness

-----------------------------------------------------------------------------
(* Where w is when it lists relation rel of the graph.                     *)
Lists(w, rel) ==
  \/ /\ w = "gate" /\ op # NULL
     /\ op.at = "check" /\ kind.type = "edge" /\ rel = RelOf[kind.about]
  \/ /\ w = "infer" /\ inf # NULL
     /\ \/ inf.at = "match" /\ rel = Hop
        \/ inf.at = "existing" /\ rel = ThenOf[inf.rule]
        \/ inf.at = "scan" /\ rel = RelOf[Goal]

(* The state has the shape of the Rust types: proposal ids are list        *)
(* positions, a listing's offset is of the relation that its writer is     *)
(* listing, and whoever is between a scan and a write holds a record of    *)
(* what it scanned.                                                        *)
TypeOK ==
  /\ graph \subseteq Edge
  /\ failures \in 0..MaxFailures /\ arrivals \in 0..MaxArrivals
  /\ cursor \in [Writers -> {NULL} \cup Cursor]
  /\ \A w \in Writers : cursor[w] # NULL => Lists(w, cursor[w].rel)
  /\ fresh \in [Writers -> {NULL} \cup SUBSET Ids]
  /\ missed \subseteq Ids
  /\ handled \subseteq changes
  /\ changes \subseteq [pids : SUBSET Pids, rels : SUBSET Rels]
  /\ proposals \in Seq(Proposal) /\ Len(proposals) <= MaxProposals
  /\ op \in {NULL} \cup Materialization
  /\ op # NULL => {op.pid} \cup op.rest \cup op.landed \subseteq Pids
  /\ notes \cup assigned \cup unsure \cup cut \subseteq Pids /\ links \subseteq notes
  /\ index \in [Facts -> {NULL} \cup SUBSET Facts]
  /\ inf \in {NULL} \cup Run \cup Retracting
  /\ undone \subseteq Ids

(* What of proposal p the engines hold.                                    *)
Landing(p) == \/ \E e \in graph : e.by = "gate" /\ e.pid = p
              \/ p \in notes \cup links \cup assigned

(* Nothing an agent proposed reaches an engine without approval: what      *)
(* landed was Ready, and it is settled as materialized unless the gate is  *)
(* still at it or one of its engine calls returned an error.               *)
OnlyReadyLands ==
  \A p \in Pids : Landing(p) =>
    /\ proposals[p].status = "Ready"
    /\ proposals[p].materialized \/ p \in unsure \/ (op # NULL /\ op.pid = p)

(* A decision is never taken back or taken twice: a proposal that was      *)
(* rejected never lands afterwards, and a materialized one is not written  *)
(* again, whichever of approve, reject, promotion and the two callers of   *)
(* materialize come in which order.                                        *)
DecisionsAreFinal ==
  [][\A p \in Pids :
       ~Pending(p) => /\ proposals'[p] = proposals[p]
                      /\ ~(op' # NULL /\ op' # op /\ op'.pid = p)]_vars

(* What accounts for the loss of edge e, or of its author, in a step: a    *)
(* retraction of it, somebody else's hand since the writer's scan began,   *)
(* the blind upsert of a finding or an ingestion, a retirement whose scan  *)
(* shows no self-loop, or one of the same identity that is retired.        *)
StillThere(e) == \E x \in graph' : Id(x) = Id(e) /\ x.by = e.by /\ x.pid = e.pid

RetractedNow(e) == e.by = "rule" /\ inf # NULL /\ inf.mode = "retract" /\ e.fact = Goal

Raced(e) == \E w \in Writers : fresh[w] # NULL /\ fresh'[w] = NULL /\ Id(e) \in fresh[w]

Overwritten(e) ==
  /\ UNCHANGED <<op, inf>>
  /\ \E x \in graph' : Id(x) = Id(e) /\ x.by \in {"user", "ingest"}

RetiredWith(e) ==
  /\ op # NULL /\ op' # op /\ op.at = "retire" /\ GroupOf[e.fact] = GroupOf[kind.about]
  /\ e.fact \in Loops \/ (Id(e) = Id(Target) /\ \E x \in graph' : Id(x) = Id(e))

(* An edge leaves the graph, or changes its author, for one of these       *)
(* reasons only.  The scans and write-backs of the gate, of the rules and  *)
(* of retraction, page by page, lose nothing that kept its place: neither  *)
(* a neighbour of the target nor a base fact of the derived shape.         *)
LostOnlyToRaces ==
  [][\A e \in graph : \/ StillThere(e) \/ RetractedNow(e) \/ Raced(e)
                      \/ Overwritten(e) \/ RetiredWith(e)]_vars

(* Whoever materializes tells the inference engine: the rel of every edge  *)
(* that landed is in the ChangeSet of the call that landed it, unless the  *)
(* call failed later on or the proposal is beyond the page of list().      *)
LandedAreTold ==
  \A p \in Pids :
    proposals[p].materialized /\ proposals[p].kind.type = "edge" =>
      \/ op # NULL /\ p \in op.landed
      \/ \E c \in changes : p \in c.pids /\ RelOf[proposals[p].kind.about] \in c.rels
      \/ p \in cut
      \/ p \notin Page

(* Retraction can find what the rules wrote: every rule edge is in the     *)
(* index, and everything that an indexed fact was derived from is still in *)
(* the graph or in the index.  Not so for an edge that has ever slipped    *)
(* out of a listing, or whose retraction, or whose arrival, a retirement   *)
(* undid, and the supports not within a retraction or after a failed       *)
(* engine call.                                                            *)
Disturbed(s) == {<<s, TRUE>>, <<s, FALSE>>} \cap (undone \cup missed) # {}

RuleEdgesIndexed ==
  /\ \A e \in graph : e.by = "rule" /\ Id(e) \notin undone \cup missed => index[e.fact] # NULL
  /\ failures = 0 /\ ~(inf # NULL /\ inf.mode = "retract") =>
       \A d \in Facts : index[d] # NULL =>
         \A s \in index[d] : Asserted(s) \/ index[s] # NULL \/ Disturbed(s)

-----------------------------------------------------------------------------
(* What has been approved is decided: the sweep materializes or rejects    *)
(* it, whatever fails on the way and whatever is ahead of it in the queue, *)
(* unless retractions never end (a forget proposal whose target a rule     *)
(* derives and a retraction removes again can fail at every sweep).        *)
ReadyIsDecided ==
  \/ []<>(inf # NULL /\ inf.mode = "retract")
  \/ \A p \in 1..MaxProposals : (p \in Pids /\ Ready(p)) ~> (p \in Pids /\ ~Pending(p))

Supported(g) == \A s \in g.support : \E e \in graph : e.fact = s /\ e.by # "user"

(* A change that was handed over is worked off: every instance of a rule   *)
(* that one of its rels triggers and whose support is there gets derived,  *)
(* unless an engine call fails, the support goes first or some of it has   *)
(* ever slipped out of a listing.                                          *)
ToldIsInferred ==
  \A g \in Ground :
    (/\ Supported(g)
     /\ \E c \in changes \ handled :
          \E i \in DOMAIN WhenOf[g.rule] : WhenOf[g.rule][i] \in c.rels)
    ~> \/ Asserted(g.fact) \/ index[g.fact] # NULL
       \/ failures > 0 \/ ~Supported(g)
       \/ \E s \in g.support : {<<s, TRUE>>, <<s, FALSE>>} \cap missed # {}

-----------------------------------------------------------------------------
(* What crates/tdw-infer/src/lib.rs says of fire_derive_edge: "A derived   *)
(* edge NEVER re-asserts an existing triple", lest it clobber the          *)
(* provenance of a base edge and make it prey to retraction.               *)
RulesNeverReassert ==
  [][\A e \in graph : e.by # "rule" =>
       ~\E x \in graph' : Id(x) = Id(e) /\ x.by = "rule"]_vars

=============================================================================
