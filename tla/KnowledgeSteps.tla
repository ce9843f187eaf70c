--------------------------- MODULE KnowledgeSteps ---------------------------
(***************************************************************************)
(* The inductive invariant of Knowledge, and the proofs about the gate     *)
(* that have to do with its queue: every step of the gate is sorted by     *)
(* what it does to the queue and by what it does to the graph.             *)
(***************************************************************************)
EXTENDS KnowledgeListings

Retracts == inf # NULL /\ inf.mode = "retract"

(* What the gate works on is Ready and undecided, each proposal once, and  *)
(* only what was Ready has been materialized.                              *)
OpInv ==
  /\ \A p \in Pids : proposals[p].materialized => proposals[p].status = "Ready"
  /\ op # NULL =>
       /\ op.pid \notin op.rest
       /\ \A p \in {op.pid} \cup op.rest : Ready(p)
       /\ op.at = "link" => kind.type = "note" /\ op.pid \in notes
       /\ op.at = "retire" => kind.type = "forget"

(* An edge of the gate's, stored or scanned, comes from a Ready proposal   *)
(* that is settled, or whose write returned an error.                      *)
Backed(e) ==
  e.by = "gate" => /\ e.pid \in Pids
                   /\ proposals[e.pid].status = "Ready"
                   /\ proposals[e.pid].materialized \/ e.pid \in unsure

LandInv ==
  /\ \A e \in graph : Backed(e)
  /\ op # NULL => \A e \in op.view : Backed(e)
  /\ Retracts => \A e \in inf.view : Backed(e)
  /\ \A p \in notes \cup links \cup assigned :
       /\ proposals[p].status = "Ready"
       /\ \/ proposals[p].materialized \/ p \in unsure
          \/ op # NULL /\ op.at = "link" /\ op.pid = p

(* The ChangeSet to come has the rel of everything that has landed so far, *)
(* and will have that of everything that may land yet.                     *)
TellInv ==
  /\ LandedAreTold
  /\ op # NULL => \A p \in {op.pid} \cup op.rest \cup op.landed :
       proposals[p].kind.type = "edge" => RelOf[proposals[p].kind.about] \in op.rels \/ p \notin Page

-----------------------------------------------------------------------------
(* The scans.  What a writer has not been shown is yet to come in its      *)
(* listing, or has been touched or moved since it began.                   *)
Known(w, e) == fresh[w] # NULL /\ Id(e) \in fresh[w]

Absent(w, f) == fresh[w] # NULL /\ \A e \in graph : e.fact = f => Id(e) \in fresh[w]

Scanned(view, group) ==
  /\ fresh["gate"] # NULL /\ IsFiniteSet(view)
  /\ \A e \in view : GroupOf[e.fact] = group /\ e.fact \notin Loops
  /\ \A e \in Neighbourhood(group) \ view : Id(e) \in fresh["gate"]
  /\ \A e \in view \ graph : Id(e) \in fresh["gate"]

GateSeen ==
  op # NULL =>
    /\ op.at = "check" /\ cursor["gate"] # NULL =>
         /\ fresh["gate"] # NULL
         /\ \A e \in graph : e.fact = kind.about => Id(e) \in fresh["gate"] \/ Unread("gate", e)
    /\ op.at = "write" /\ kind.type = "edge" => Absent("gate", kind.about)
    /\ op.at = "retire" => /\ Scanned(op.view, GroupOf[kind.about])
                           /\ OpenEdges(op.view, kind.about) # {}

IsGoals(e) == e.fact = Goal /\ e.by = "rule"

(* A pass knows of every edge of what it found, and a retraction has in    *)
(* its view, under its identity and author, every edge of its goal's       *)
(* subject and rel that stays.                                             *)
PassSeen ==
  /\ \A g \in inf.found : g.rule = inf.rule
  /\ inf.at = "match" => inf.hop \in DOMAIN WhenOf[inf.rule]
  /\ inf.at = "existing" /\ cursor["infer"] # NULL =>
       /\ fresh["infer"] # NULL
       /\ \A e \in graph : (\E g \in inf.found : g.fact = e.fact) =>
            e.fact \in inf.seen \/ Id(e) \in fresh["infer"] \/ Unread("infer", e)
  /\ inf.at = "upsert" => \A g \in inf.found : Absent("infer", g.fact)

GoalSeen ==
  /\ inf.left # {} /\ IsFiniteSet(inf.view)
  /\ \A x \in inf.view : GroupOf[x.fact] = GroupOf[Goal] /\ ~IsGoals(x)
  /\ inf.at = "replace" \/ cursor["infer"] # NULL => fresh["infer"] # NULL
  /\ \A e \in Group(GroupOf[Goal]) :
       \/ Shows(inf.view, e) \/ IsGoals(e) \/ Known("infer", e)
       \/ inf.at = "scan" /\ Unread("infer", e)

InferSeen ==
  inf # NULL => IF inf.mode = "run" THEN PassSeen ELSE GoalSeen

(* A rule edge is in the index unless a retirement put it back or it has   *)
(* slipped out of a listing.  A retraction that has not come by one of its *)
(* goal's has them ahead.                                                  *)
Excused(e) == Id(e) \in undone \cup missed

Ahead(e) ==
  \E x \in RuleEdges(graph, Goal) : Id(x) = Id(e) /\ x.copy >= e.copy /\ Unread("infer", x)

EdgeInv ==
  /\ \A e \in graph : e.by = "rule" => Excused(e) \/ index[e.fact] # NULL
  /\ op # NULL /\ op.at = "retire" => \A e \in op.view : e.by = "rule" =>
       Excused(e) \/ index[e.fact] # NULL \/ Id(e) \in fresh["gate"]
  /\ Retracts => \A e \in inf.view : e.by = "rule" => Excused(e) \/ index[e.fact] # NULL
  /\ inf # NULL /\ inf.mode = "run" /\ inf.at = "upsert" =>
       \A g \in inf.found : index[g.fact] # NULL
  /\ Retracts /\ inf.at = "scan" /\ ~inf.removed =>
       \A e \in RuleEdges(graph, Goal) : Excused(e) \/ Ahead(e)

(* What an indexed fact was derived from is still known.  A retraction     *)
(* keeps to that for the facts it leaves alone, none of which was derived  *)
(* from one it has yet to retract.                                         *)
Spared(s) ==
  /\ Asserted(s)
  /\ GroupOf[s] = GroupOf[Goal] =>
       \/ \E x \in inf.view : x.fact = s
       \/ inf.at = "scan" /\ \E e \in graph : e.fact = s /\ Unread("infer", e)

SupportInv ==
  failures = 0 =>
    /\ ~Retracts => \A d \in Facts : index[d] # NULL =>
         \A s \in index[d] : Asserted(s) \/ index[s] # NULL \/ Disturbed(s)
    /\ inf # NULL /\ inf.mode = "run" /\ inf.at = "match" =>
         \A s \in inf.seen : Asserted(s) \/ Disturbed(s)
    /\ inf # NULL /\ inf.mode = "run" /\ inf.at = "existing" =>
         \A g \in inf.found : \A s \in g.support : Asserted(s) \/ Disturbed(s)
    /\ Retracts => \A d \in Facts \ inf.left : index[d] # NULL =>
         \A s \in index[d] : s \notin inf.left /\ (index[s] # NULL \/ Disturbed(s) \/ Spared(s))

(* A listing is of the relation that its writer is at.                     *)
CursorOK == \A w \in Writers : cursor[w] # NULL => Lists(w, cursor[w].rel)

IInv ==
  /\ TypeOK /\ IsFiniteSet(graph)
  /\ OpInv /\ LandInv /\ TellInv /\ GateSeen /\ InferSeen /\ EdgeInv /\ SupportInv
-----------------------------------------------------------------------------
(* The gate's steps, sorted by what they do to the queue and to op.        *)
GateOK ==
  /\ proposals \in Seq(Proposal) /\ Len(proposals) <= MaxProposals
  /\ op \in {NULL} \cup Materialization
  /\ op # NULL => {op.pid} \cup op.rest \cup op.landed \subseteq Pids
  /\ notes \cup assigned \cup unsure \cup cut \subseteq Pids /\ links \subseteq notes
  /\ handled \subseteq changes
  /\ changes \subseteq [pids : SUBSET Pids, rels : SUBSET Rels]

(* submit, approve, promote and reject.                                    *)
QueueStep ==
  /\ op = NULL /\ op' = NULL
  /\ UNCHANGED <<engineVars, unsure, cut, graphVars, changes, handled>>
  /\ proposals' \in Seq(Proposal) /\ Len(proposals') <= MaxProposals
  /\ Pids \subseteq Pids'
  /\ \A p \in Pids :
       /\ proposals'[p].kind = proposals[p].kind
       /\ proposals'[p].materialized = proposals[p].materialized
       /\ proposals[p].status = "Ready" => proposals'[p].status = "Ready"
       /\ ~Pending(p) => proposals'[p] = proposals[p]
  /\ \A p \in Pids' : p \notin Pids => ~proposals'[p].materialized

(* One item's check is under way or passed, its note is written, or its    *)
(* target scanned.                                                         *)
Goes ==
  /\ op # NULL /\ op' \in Materialization
  /\ op'.pid = op.pid /\ op'.rest = op.rest /\ op'.landed = op.landed /\ op'.rels = op.rels
  /\ op'.at = "link" => kind.type = "note" /\ op.pid \in notes'
  /\ op'.at = "retire" => kind.type = "forget"
  /\ op.at # "link"
  /\ notes' = notes \/ (notes' = notes \cup {op.pid} /\ op'.at = "link")
  /\ UNCHANGED <<proposals, links, assigned, unsure, cut, changes, handled>>

GrowsBy(p) ==
  /\ notes' \in {notes, notes \cup {p}}
  /\ links' \in {links, links \cup {p}} /\ links' \subseteq notes'
  /\ assigned' \in {assigned, assigned \cup {p}}

Refuses == op # NULL /\ op.at = "check" /\ Refuse

Lands == op # NULL /\ op.at # "check" /\ Landed /\ GrowsBy(op.pid)

Quits ==
  /\ op # NULL /\ Abort /\ GrowsBy(op.pid)
  /\ \/ unsure' = unsure \cup {op.pid}
     \/ op.at # "link" /\ UNCHANGED <<unsure, engineVars>>

(* A decision is about one proposal.                                       *)
LEMMA OneChanges ==
  ASSUME GateOK, NEW p \in Pids, NEW v \in Proposal, proposals' = [proposals EXCEPT ![p] = v]
  PROVE  /\ proposals' \in Seq(Proposal) /\ Len(proposals') = Len(proposals)
         /\ Pids' = Pids
         /\ proposals'[p] = v
         /\ \A q \in Pids : q # p => proposals'[q] = proposals[q]
<1>1. proposals \in Seq(Proposal) /\ Pids = 1 .. Len(proposals)
  BY DEF GateOK, Pids
<1>2. proposals' \in Seq(Proposal) /\ Len(proposals') = Len(proposals)
  BY <1>1, ExceptSeq
<1>3. Pids' = Pids
  BY <1>1, <1>2 DEF Pids
<1>4. proposals'[p] = v /\ \A q \in Pids : q # p => proposals'[q] = proposals[q]
  BY <1>1
<1>5. QED BY <1>2, <1>3, <1>4

(* Submissions and decisions append a proposal or change a pending one,    *)
(* and leave the materialization alone.                                    *)
LEMMA QueueSteps ==
  ASSUME GateOK, OpInv,
         \/ \E a \in Agents : PromoteForAgent(a) \/ \E k \in Kinds : Submit(a, k)
         \/ \E p \in Pids : Approve(p) \/ Reject(p)
  PROVE  QueueStep
<1>1. /\ Pids = 1 .. Len(proposals) /\ Len(proposals) \in Nat
      /\ \A p \in Pids : proposals[p] \in Proposal
  BY DEF GateOK, Pids
<1>2. ASSUME NEW a \in Agents, NEW k \in Kinds, Submit(a, k) PROVE QueueStep
  <2> DEFINE new == [kind |-> k, agent |-> a, status |-> "Validated",
                     rejected |-> FALSE, materialized |-> FALSE]
  <2>1. new \in Proposal /\ ~new.materialized
    BY DEF Proposal
  <2>2. proposals' = Append(proposals, new) /\ Len(proposals) < MaxProposals
    BY <1>2 DEF Submit
  <2> HIDE DEF new
  <2>3. /\ proposals' \in Seq(Proposal) /\ Len(proposals') = Len(proposals) + 1
        /\ \A p \in Pids : proposals'[p] = proposals[p]
        /\ proposals'[Len(proposals) + 1] = new
    BY <1>1, <2>1, <2>2 DEF GateOK
  <2>4. Pids' = 1 .. Len(proposals) + 1
    BY <2>3 DEF Pids
  <2>5. Len(proposals') <= MaxProposals
    BY <1>1, <2>2, <2>3, GateAssumption
  <2>6. Pids \subseteq Pids' /\ \A p \in Pids' : p \notin Pids => p = Len(proposals) + 1
    BY <1>1, <2>4
  <2>7. QED BY <1>2, <2>1, <2>3, <2>5, <2>6 DEF Submit, QueueStep
<1>3. ASSUME NEW p \in Pids, Approve(p) \/ Reject(p) PROVE QueueStep
  <2>1. PICK v \in Proposal :
          /\ proposals' = [proposals EXCEPT ![p] = v]
          /\ v.kind = proposals[p].kind /\ v.materialized = proposals[p].materialized
          /\ proposals[p].status = "Ready" => v.status = "Ready"
          /\ Pending(p)
    <3>1. CASE Approve(p)
      <4> DEFINE v == [proposals[p] EXCEPT !.status = "Ready"]
      <4>1. v \in Proposal /\ proposals' = [proposals EXCEPT ![p] = v]
        BY <1>1, <3>1 DEF Approve, Proposal
      <4>2. Pending(p)
        BY <1>1, <3>1 DEF Approve, Pending, OpInv
      <4>3. QED BY <1>1, <3>1, <4>1, <4>2 DEF Approve, Proposal
    <3>2. CASE Reject(p)
      <4> DEFINE v == [proposals[p] EXCEPT !.rejected = TRUE]
      <4>1. v \in Proposal /\ proposals' = [proposals EXCEPT ![p] = v]
        BY <1>1, <3>2 DEF Reject, Proposal
      <4>2. QED BY <1>1, <3>2, <4>1 DEF Reject, Proposal
    <3>3. QED BY <1>3, <3>1, <3>2
  <2>2. /\ proposals' \in Seq(Proposal) /\ Len(proposals') = Len(proposals)
        /\ Pids' = Pids
        /\ proposals'[p] = v
        /\ \A q \in Pids : q # p => proposals'[q] = proposals[q]
    BY <2>1, OneChanges
  <2>3. /\ op = NULL /\ op' = NULL
        /\ UNCHANGED <<engineVars, unsure, cut, graphVars, changes, handled>>
    BY <1>3 DEF Approve, Reject
  <2>4. Len(proposals') <= MaxProposals
    BY <2>2 DEF GateOK
  <2>5. QED BY <2>1, <2>2, <2>3, <2>4 DEF QueueStep
<1>4. ASSUME NEW a \in Agents, PromoteForAgent(a) PROVE QueueStep
  <2> DEFINE promoted == {p \in Pids : /\ proposals[p].agent = a
                                       /\ proposals[p].status = "Validated" /\ Pending(p)}
  <2>1. proposals' = [p \in Pids |->
          IF p \in promoted THEN [proposals[p] EXCEPT !.status = "Ready"]
                            ELSE proposals[p]]
    BY <1>4 DEF PromoteForAgent
  <2>2. proposals' \in [1 .. Len(proposals) -> Proposal]
    BY <1>1, <2>1 DEF Proposal
  <2>3. proposals' \in Seq(Proposal) /\ Len(proposals') = Len(proposals)
    <3>1. proposals' \in Seq(Proposal)
      BY <1>1, <2>2, SeqDef
    <3>2. QED BY <1>1, <2>2, <3>1
  <2>4. Pids' = Pids
    BY <1>1, <2>3 DEF Pids
  <2>5. ASSUME NEW p \in Pids
        PROVE  /\ proposals'[p].kind = proposals[p].kind
               /\ proposals'[p].materialized = proposals[p].materialized
               /\ proposals[p].status = "Ready" => proposals'[p].status = "Ready"
               /\ ~Pending(p) => proposals'[p] = proposals[p]
    BY <1>1, <2>1 DEF Proposal
  <2>6. QED BY <1>4, <2>3, <2>4, <2>5 DEF PromoteForAgent, QueueStep, GateOK
<1>5. QED BY <1>2, <1>3, <1>4

(* What a materialization has in hand.                                     *)
LEMMA OpTyped ==
  ASSUME GateOK, op # NULL
  PROVE  /\ op \in Materialization
         /\ op.pid \in Pids /\ op.rest \in SUBSET Pids /\ op.landed \in SUBSET Pids
         /\ proposals[op.pid] \in Proposal /\ kind \in Kinds
         /\ Pids \subseteq 1 .. MaxProposals
<1>1. /\ op \in Materialization /\ op.pid \in Pids
      /\ op.rest \in SUBSET Pids /\ op.landed \in SUBSET Pids
      /\ proposals \in Seq(Proposal) /\ Len(proposals) <= MaxProposals
  BY DEF GateOK
<1>2. proposals[op.pid] \in Proposal
  BY <1>1 DEF Pids
<1>3. Pids \subseteq 1 .. MaxProposals
  BY <1>1, GateAssumption DEF Pids
<1>4. QED BY <1>1, <1>2, <1>3 DEF kind, Proposal

(* The mutex is released, or the next item's turn comes.                   *)
Moves(landed) ==
  \/ /\ op' = NULL /\ op.rest = {}
     /\ changes' = IF landed # {} /\ op.rels # {}
                   THEN changes \cup {[pids |-> landed, rels |-> op.rels]}
                   ELSE changes
  \/ /\ op' \in Materialization /\ op'.pid \in op.rest /\ op'.rest = op.rest \ {op'.pid}
     /\ op'.at = "check" /\ op'.landed = landed /\ op'.rels = op.rels /\ op'.view = {}
     /\ UNCHANGED changes

(* NextItem releases the mutex or takes one of the rest.                   *)
LEMMA NextItemMoves ==
  ASSUME op \in Materialization, NEW landed \in SUBSET (1 .. MaxProposals), NextItem(landed)
  PROVE  Moves(landed)
<1>1. CASE op.rest = {}
  BY <1>1 DEF NextItem, Moves
<1>2. CASE op.rest # {}
  <2>1. PICK p \in op.rest :
          op' = [op EXCEPT !.pid = p, !.rest = @ \ {p},
                           !.at = "check", !.landed = landed, !.view = {}]
    BY <1>2 DEF NextItem
  <2>2. op' \in Materialization /\ op'.pid = p /\ op'.rest = op.rest \ {p}
        /\ op'.at = "check" /\ op'.landed = landed /\ op'.rels = op.rels /\ op'.view = {}
    BY <2>1 DEF Materialization
  <2>3. QED BY <1>2, <2>1, <2>2 DEF NextItem, Moves
<1>3. QED BY <1>1, <1>2

(* These steps stay with the item in hand.                                 *)
LEMMA GoSteps ==
  ASSUME GateOK, GraphOK, OpInv, CheckPage \/ CheckPasses \/ WriteNote \/ RetireScan
  PROVE  Goes
<1>1. op # NULL
  BY DEF CheckPage, CheckPasses, WriteNote, RetireScan
<1>2. op \in Materialization
  BY <1>1, OpTyped
<1>3. CASE CheckPasses
  <2>1. op' = [op EXCEPT !.at = "write"]
    BY <1>3 DEF CheckPasses
  <2>2. op' \in Materialization /\ op'.at = "write"
        /\ op'.pid = op.pid /\ op'.rest = op.rest /\ op'.landed = op.landed /\ op'.rels = op.rels
    BY <1>2, <2>1 DEF Materialization
  <2>3. QED BY <1>1, <1>3, <2>2 DEF CheckPasses, Goes, engineVars
<1>4. CASE WriteNote
  <2>1. op' = [op EXCEPT !.at = "link"]
    BY <1>4 DEF WriteNote
  <2>2. op' \in Materialization /\ op'.at = "link"
        /\ op'.pid = op.pid /\ op'.rest = op.rest /\ op'.landed = op.landed /\ op'.rels = op.rels
    BY <1>2, <2>1 DEF Materialization
  <2>3. QED BY <1>1, <1>4, <2>2 DEF WriteNote, Goes
<1>5. CASE RetireScan
  <2> DEFINE view == Neighbourhood(GroupOf[kind.about])
  <2>1. op' = [op EXCEPT !.at = "retire", !.view = view]
    BY <1>5 DEF RetireScan
  <2>2. view \in SUBSET Edge
    BY DEF GraphOK, Neighbourhood, Group
  <2>3. op' \in Materialization /\ op'.at = "retire"
        /\ op'.pid = op.pid /\ op'.rest = op.rest /\ op'.landed = op.landed /\ op'.rels = op.rels
    <3> HIDE DEF view
    <3>1. QED BY <1>2, <2>1, <2>2 DEF Materialization
  <2>4. QED BY <1>1, <1>5, <2>3 DEF RetireScan, Goes, engineVars
<1>6. CASE CheckPage
  <2>1. op.at = "check" /\ UNCHANGED <<gateVars, changes, handled>>
    BY <1>6 DEF CheckPage
  <2>2. QED BY <1>1, <1>2, <2>1 DEF Goes, gateVars, engineVars
<1>7. QED BY <1>3, <1>4, <1>5, <1>6

(* These steps land it.                                                    *)
LEMMA LandSteps ==
  ASSUME GateOK, OpInv, WriteEdge \/ WriteTag \/ WriteLink \/ RetireReplace
  PROVE  Lands
<1>1. op # NULL /\ op.at # "check" /\ Landed
  BY DEF WriteEdge, WriteTag, WriteLink, RetireReplace
<1>2. links \subseteq notes
  BY DEF GateOK
<1>3. CASE WriteEdge \/ RetireReplace
  BY <1>1, <1>2, <1>3 DEF WriteEdge, RetireReplace, Lands, GrowsBy, engineVars
<1>4. CASE WriteTag
  BY <1>1, <1>2, <1>4 DEF WriteTag, Lands, GrowsBy
<1>5. CASE WriteLink
  <2>1. op.pid \in notes
    BY <1>5 DEF WriteLink, OpInv
  <2>2. QED BY <1>1, <1>2, <1>5, <2>1 DEF WriteLink, Lands, GrowsBy
<1>6. QED BY <1>3, <1>4, <1>5

(* These steps end the materialization without a decision of the item.     *)
LEMMA QuitSteps ==
  ASSUME GateOK, OpInv, RetireFindsNothing \/ WriteFails
  PROVE  Quits
<1>1. op # NULL /\ Abort
  BY DEF RetireFindsNothing, WriteFails
<1>2. links \subseteq notes
  BY DEF GateOK
<1>3. CASE RetireFindsNothing
  BY <1>1, <1>2, <1>3 DEF RetireFindsNothing, Quits, GrowsBy, engineVars
<1>4. CASE WriteFails
  <2>1. unsure' = unsure \cup {op.pid}
    BY <1>4 DEF WriteFails
  <2>2. \/ UNCHANGED engineVars
        \/ /\ notes' = notes \cup {op.pid}
           /\ links' = IF op.at = "link" THEN links \cup {op.pid} ELSE links
           /\ UNCHANGED assigned
    BY <1>4 DEF WriteFails
  <2>3. GrowsBy(op.pid)
    BY <1>2, <2>2 DEF GrowsBy, engineVars
  <2>4. QED BY <1>1, <2>1, <2>3 DEF Quits
<1>5. QED BY <1>3, <1>4

(* The case split of the proofs about the gate.                            *)
LEMMA GateSteps ==
  ASSUME GateOK, GraphOK, OpInv, GateNext
  PROVE  \/ QueueStep \/ Goes \/ Refuses \/ Lands \/ Quits
         \/ \E n \in {SweepCap, MaxProposals} : Begin(n)
<1>1. CASE \/ \E a \in Agents : PromoteForAgent(a) \/ \E k \in Kinds : Submit(a, k)
           \/ \E p \in Pids : Approve(p) \/ Reject(p)
  BY <1>1, QueueSteps
<1>2. CASE CheckPage \/ CheckPasses \/ WriteNote \/ RetireScan
  BY <1>2, GoSteps
<1>3. CASE CheckRefuses \/ CheckFails
  BY <1>3 DEF CheckRefuses, Refuted, CheckFails, Refuses
<1>4. CASE WriteEdge \/ WriteTag \/ WriteLink \/ RetireReplace
  BY <1>4, LandSteps
<1>5. CASE RetireFindsNothing \/ WriteFails
  BY <1>5, QuitSteps
<1>6. CASE \E n \in {SweepCap, MaxProposals} : Begin(n)
  BY <1>6
<1>7. QED BY <1>1, <1>2, <1>3, <1>4, <1>5, <1>6 DEF GateNext, GateStep

(* How the item in hand is decided.                                        *)
LEMMA RefusedItem ==
  ASSUME GateOK, Refuses
  PROVE  /\ proposals' \in Seq(Proposal) /\ Len(proposals') = Len(proposals) /\ Pids' = Pids
         /\ proposals'[op.pid] = [proposals[op.pid] EXCEPT !.rejected = TRUE]
         /\ \A q \in Pids : q # op.pid => proposals'[q] = proposals[q]
         /\ Moves(op.landed)
<1> DEFINE v == [proposals[op.pid] EXCEPT !.rejected = TRUE]
<1>1. op # NULL /\ Refuse
  BY DEF Refuses
<1>2. op \in Materialization /\ op.pid \in Pids /\ proposals[op.pid] \in Proposal
      /\ op.landed \in SUBSET (1 .. MaxProposals)
  BY <1>1, OpTyped
<1>3. v \in Proposal /\ proposals' = [proposals EXCEPT ![op.pid] = v]
  BY <1>1, <1>2 DEF Refuse, Proposal
<1>4. Moves(op.landed)
  BY <1>1, <1>2, NextItemMoves DEF Refuse
<1> HIDE DEF v
<1>5. /\ proposals' \in Seq(Proposal) /\ Len(proposals') = Len(proposals) /\ Pids' = Pids
      /\ proposals'[op.pid] = v
      /\ \A q \in Pids : q # op.pid => proposals'[q] = proposals[q]
  BY <1>2, <1>3, OneChanges
<1>6. QED BY <1>4, <1>5 DEF v

(* Landing marks the item and no other proposal.                           *)
LEMMA LandedItem ==
  ASSUME GateOK, Lands
  PROVE  /\ proposals' \in Seq(Proposal) /\ Len(proposals') = Len(proposals) /\ Pids' = Pids
         /\ proposals'[op.pid] = [proposals[op.pid] EXCEPT !.materialized = TRUE]
         /\ \A q \in Pids : q # op.pid => proposals'[q] = proposals[q]
         /\ Moves(op.landed \cup {op.pid})
<1> DEFINE v == [proposals[op.pid] EXCEPT !.materialized = TRUE]
<1>1. op # NULL /\ Landed
  BY DEF Lands
<1>2. op \in Materialization /\ op.pid \in Pids /\ proposals[op.pid] \in Proposal
      /\ op.landed \cup {op.pid} \in SUBSET (1 .. MaxProposals)
  BY <1>1, OpTyped
<1>3. v \in Proposal /\ proposals' = [proposals EXCEPT ![op.pid] = v]
  BY <1>1, <1>2 DEF Landed, Proposal
<1>4. Moves(op.landed \cup {op.pid})
  BY <1>1, <1>2, NextItemMoves DEF Landed
<1> HIDE DEF v
<1>5. /\ proposals' \in Seq(Proposal) /\ Len(proposals') = Len(proposals) /\ Pids' = Pids
      /\ proposals'[op.pid] = v
      /\ \A q \in Pids : q # op.pid => proposals'[q] = proposals[q]
  BY <1>2, <1>3, OneChanges
<1>6. QED BY <1>4, <1>5 DEF v

(* A materialization starts with what is Ready.                            *)
LEMMA BeginItem ==
  ASSUME GateOK, NEW n, Begin(n)
  PROVE  /\ op' \in Materialization
         /\ op'.pid \in Snapshot(n) /\ op'.rest = Snapshot(n) \ {op'.pid}
         /\ op'.at = "check" /\ op'.rels = ReadyRels(n) /\ op'.landed = {} /\ op'.view = {}
         /\ Snapshot(n) \subseteq {p \in Pids : Ready(p)}
         /\ op = NULL
<1>1. PICK p \in Snapshot(n) :
        op' = [pid |-> p, rest |-> Snapshot(n) \ {p}, at |-> "check",
               rels |-> ReadyRels(n), landed |-> {}, view |-> {}]
  BY DEF Begin
<1>2. Snapshot(n) \subseteq {q \in Pids : Ready(q)}
  BY DEF Snapshot, Earliest
<1>3. Pids \subseteq 1 .. MaxProposals /\ \A q \in Pids : proposals[q] \in Proposal
  BY GateAssumption DEF GateOK, Pids
<1>4. ReadyRels(n) \in SUBSET Rels
  <2>1. ASSUME NEW q \in Pids, proposals[q].kind.type = "edge"
        PROVE  RelOf[proposals[q].kind.about] \in Rels
    <3>1. proposals[q].kind \in Kinds
      BY <1>3 DEF Proposal
    <3>2. QED BY <2>1, <3>1, GateAssumption DEF Rels
  <2>2. QED BY <2>1 DEF ReadyRels, Earliest, Page
<1>5. op = NULL
  BY DEF Begin
<1>6. /\ p \in 1 .. MaxProposals /\ Snapshot(n) \ {p} \in SUBSET (1 .. MaxProposals)
  BY <1>2, <1>3
<1>7. op' \in Materialization
  BY <1>1, <1>4, <1>6 DEF Materialization
<1>8. QED BY <1>1, <1>2, <1>5, <1>7

(* The gate's variables keep their types.                                  *)
LEMMA GateStaysOK ==
  ASSUME GateOK, GraphOK, OpInv, GateNext
  PROVE  GateOK'
<1>1. CASE QueueStep
  <2>1. op' = NULL /\ Pids \subseteq Pids'
        /\ UNCHANGED <<notes, links, assigned, unsure, cut, changes, handled>>
    BY <1>1 DEF QueueStep, engineVars
  <2>2. proposals' \in Seq(Proposal) /\ Len(proposals') <= MaxProposals
    BY <1>1 DEF QueueStep
  <2>3. QED BY <2>1, <2>2 DEF GateOK
<1>2. CASE Goes
  <2>1. /\ op # NULL /\ op' \in Materialization /\ op'.pid = op.pid
        /\ op'.rest = op.rest /\ op'.landed = op.landed
        /\ notes' \in {notes, notes \cup {op.pid}}
        /\ UNCHANGED <<proposals, links, assigned, unsure, cut, changes, handled>>
    BY <1>2 DEF Goes
  <2>2. Pids' = Pids
    BY <2>1 DEF Pids
  <2>3. QED BY <2>1, <2>2 DEF GateOK
<1>3. CASE Refuses
  <2>1. /\ proposals' \in Seq(Proposal) /\ Len(proposals') = Len(proposals) /\ Pids' = Pids
        /\ Moves(op.landed)
    BY <1>3, RefusedItem
  <2>2. op # NULL /\ UNCHANGED <<notes, links, assigned, unsure, cut, handled>>
    BY <1>3 DEF Refuses, Refuse, engineVars
  <2>3. op' = NULL \/ /\ op' \in Materialization /\ op'.pid \in op.rest
                      /\ op'.rest \subseteq op.rest /\ op'.landed = op.landed
    BY <2>1 DEF Moves
  <2>4. changes' = changes \/ changes' = changes \cup {[pids |-> op.landed, rels |-> op.rels]}
    BY <2>1 DEF Moves
  <2>5. op.landed \in SUBSET Pids /\ op.rels \in SUBSET Rels /\ op.rest \in SUBSET Pids
    BY <2>2, OpTyped DEF Materialization
  <2>6. changes' \subseteq [pids : SUBSET Pids, rels : SUBSET Rels] /\ handled' \subseteq changes'
    BY <2>2, <2>4, <2>5 DEF GateOK
  <2>7. QED BY <2>1, <2>2, <2>3, <2>5, <2>6 DEF GateOK
<1>4. CASE Lands
  <2> DEFINE landed == op.landed \cup {op.pid}
  <2>1. /\ proposals' \in Seq(Proposal) /\ Len(proposals') = Len(proposals) /\ Pids' = Pids
        /\ Moves(landed)
    BY <1>4, LandedItem
  <2>2. op # NULL /\ GrowsBy(op.pid) /\ UNCHANGED <<unsure, cut, handled>>
    BY <1>4 DEF Lands, Landed
  <2>3. op' = NULL \/ /\ op' \in Materialization /\ op'.pid \in op.rest
                      /\ op'.rest \subseteq op.rest /\ op'.landed = landed
    BY <2>1 DEF Moves
  <2>4. changes' = changes \/ changes' = changes \cup {[pids |-> landed, rels |-> op.rels]}
    BY <2>1 DEF Moves
  <2>5. /\ landed \in SUBSET Pids /\ op.rels \in SUBSET Rels /\ op.rest \in SUBSET Pids
        /\ op.pid \in Pids
    BY <2>2, OpTyped DEF Materialization
  <2> HIDE DEF landed
  <2>6. changes' \subseteq [pids : SUBSET Pids, rels : SUBSET Rels] /\ handled' \subseteq changes'
    BY <2>2, <2>4, <2>5 DEF GateOK
  <2>7. QED BY <2>1, <2>2, <2>3, <2>5, <2>6 DEF GateOK, GrowsBy
<1>5. CASE Quits
  <2>1. op # NULL /\ GrowsBy(op.pid) /\ (unsure' = unsure \/ unsure' = unsure \cup {op.pid})
    BY <1>5 DEF Quits
  <2>2. op' = NULL /\ cut' = cut \cup op.landed /\ UNCHANGED <<proposals, changes, handled>>
    BY <1>5 DEF Quits, Abort
  <2>3. op.pid \in Pids /\ op.landed \in SUBSET Pids
    BY <2>1, OpTyped
  <2>4. Pids' = Pids
    BY <2>2 DEF Pids
  <2>5. QED BY <2>1, <2>2, <2>3, <2>4 DEF GateOK, GrowsBy
<1>6. ASSUME NEW n, Begin(n) PROVE GateOK'
  <2>1. /\ op' \in Materialization /\ op'.pid \in Pids /\ op'.rest \in SUBSET Pids
        /\ op'.landed = {}
    BY <1>6, BeginItem
  <2>2. UNCHANGED <<proposals, notes, links, assigned, unsure, cut, changes, handled>>
    BY <1>6 DEF Begin, engineVars
  <2>3. Pids' = Pids
    BY <2>2 DEF Pids
  <2>4. QED BY <2>1, <2>2, <2>3 DEF GateOK
<1>7. QED BY <1>1, <1>2, <1>3, <1>4, <1>5, <1>6, GateSteps

(* A decision needs the mutex or is about another proposal, so what is     *)
(* Ready stays so until it is materialized.                                *)
LEMMA OpInvKept ==
  ASSUME GateOK, GraphOK, OpInv, GateNext
  PROVE  OpInv'
<1>1. CASE QueueStep
  BY <1>1 DEF QueueStep, OpInv
<1>2. CASE Goes
  <2>1. /\ op # NULL /\ op'.pid = op.pid /\ op'.rest = op.rest
        /\ proposals' = proposals /\ op' # NULL
    BY <1>2, MaterializationAssumption DEF Goes
  <2>2. Pids' = Pids /\ kind' = kind
    BY <2>1 DEF Pids, kind
  <2>3. \A p : Ready(p)' <=> Ready(p)
    BY <2>1 DEF Ready, Pending
  <2>4. /\ op'.at = "link" => kind.type = "note" /\ op.pid \in notes'
        /\ op'.at = "retire" => kind.type = "forget"
    BY <1>2 DEF Goes
  <2>5. /\ \A p \in Pids' : proposals'[p].materialized => proposals'[p].status = "Ready"
        /\ op'.pid \notin op'.rest
        /\ \A p \in {op.pid} \cup op.rest : Ready(p)
    BY <2>1, <2>2 DEF OpInv
  <2>6. \A p \in {op'.pid} \cup op'.rest : Ready(p)'
    BY <2>1, <2>3, <2>5
  <2>7. QED BY <2>1, <2>2, <2>4, <2>5, <2>6 DEF OpInv
<1>3. ASSUME op # NULL, op.pid \notin op.rest, NEW landed, Moves(landed),
             \A p \in op.rest : Ready(p),
             \A q \in Pids : q # op.pid => proposals'[q] = proposals[q],
             op.rest \subseteq Pids,
             \A p \in Pids' : proposals'[p].materialized => proposals'[p].status = "Ready"
      PROVE  OpInv'
  <2>1. CASE op' = NULL
    BY <1>3, <2>1 DEF OpInv
  <2>2. CASE op' # NULL
    <3>1. op'.pid \in op.rest /\ op'.rest = op.rest \ {op'.pid} /\ op'.at = "check"
      BY <1>3, <2>2 DEF Moves
    <3>2. ASSUME NEW p \in op.rest PROVE Ready(p)'
      <4>1. Ready(p) /\ proposals'[p] = proposals[p]
        BY <1>3, <3>2
      <4>2. QED BY <4>1 DEF Ready, Pending
    <3>3. \A p \in {op'.pid} \cup op'.rest : Ready(p)'
      BY <3>1, <3>2
    <3>4. QED BY <1>3, <3>1, <3>3 DEF OpInv
  <2>3. QED BY <2>1, <2>2
<1>4. CASE Refuses
  <2>1. op # NULL /\ op.pid \notin op.rest /\ \A p \in {op.pid} \cup op.rest : Ready(p)
    BY <1>4 DEF OpInv, Refuses
  <2>2. /\ Pids' = Pids /\ Moves(op.landed)
        /\ proposals'[op.pid] = [proposals[op.pid] EXCEPT !.rejected = TRUE]
        /\ \A q \in Pids : q # op.pid => proposals'[q] = proposals[q]
    BY <1>4, RefusedItem
  <2>3. op.rest \subseteq Pids /\ op.pid \in Pids /\ proposals[op.pid] \in Proposal
    BY <2>1, OpTyped
  <2>4. proposals'[op.pid].status = "Ready"
    BY <2>1, <2>2, <2>3 DEF Ready, Proposal
  <2>5. \A p \in Pids' : proposals'[p].materialized => proposals'[p].status = "Ready"
    BY <2>2, <2>4 DEF OpInv
  <2>6. QED BY <1>3, <2>1, <2>2, <2>3, <2>5
<1>5. CASE Lands
  <2>1. op # NULL /\ op.pid \notin op.rest /\ \A p \in {op.pid} \cup op.rest : Ready(p)
    BY <1>5 DEF OpInv, Lands
  <2>2. /\ Pids' = Pids /\ Moves(op.landed \cup {op.pid})
        /\ proposals'[op.pid] = [proposals[op.pid] EXCEPT !.materialized = TRUE]
        /\ \A q \in Pids : q # op.pid => proposals'[q] = proposals[q]
    BY <1>5, LandedItem
  <2>3. op.rest \subseteq Pids /\ op.pid \in Pids /\ proposals[op.pid] \in Proposal
    BY <2>1, OpTyped
  <2>4. proposals'[op.pid].status = "Ready"
    BY <2>1, <2>2, <2>3 DEF Ready, Proposal
  <2>5. \A p \in Pids' : proposals'[p].materialized => proposals'[p].status = "Ready"
    BY <2>2, <2>4 DEF OpInv
  <2>6. QED BY <1>3, <2>1, <2>2, <2>3, <2>5
<1>6. CASE Quits
  BY <1>6 DEF Quits, Abort, OpInv, Pids
<1>7. ASSUME NEW n, Begin(n) PROVE OpInv'
  <2>1. /\ op'.pid \in Snapshot(n) /\ op'.rest = Snapshot(n) \ {op'.pid} /\ op'.at = "check"
        /\ Snapshot(n) \subseteq {p \in Pids : Ready(p)}
    BY <1>7, BeginItem
  <2>2. proposals' = proposals
    BY <1>7 DEF Begin
  <2>3. \A p : Ready(p)' <=> Ready(p)
    BY <2>2 DEF Ready, Pending
  <2>4. /\ op'.pid \notin op'.rest
        /\ \A p \in {op'.pid} \cup op'.rest : Ready(p)'
    BY <2>1, <2>3
  <2>5. QED BY <2>1, <2>2, <2>4 DEF OpInv, Pids
<1>8. QED BY <1>1, <1>2, <1>4, <1>5, <1>6, <1>7, GateSteps

(* A step of the gate takes nothing back.                                  *)
LEMMA ProposalsPersist ==
  ASSUME GateOK, GraphOK, OpInv, GateNext, NEW p \in Pids
  PROVE  /\ p \in Pids'
         /\ proposals'[p].kind = proposals[p].kind
         /\ proposals[p].status = "Ready" => proposals'[p].status = "Ready"
         /\ proposals[p].materialized => proposals'[p].materialized
         /\ p \in unsure => p \in unsure'
         /\ ~Pending(p) => /\ proposals'[p] = proposals[p]
                           /\ ~(op' # NULL /\ op' # op /\ op'.pid = p)
<1>1. proposals[p] \in Proposal
  BY DEF GateOK, Pids
<1>2. CASE QueueStep
  BY <1>2 DEF QueueStep
<1>3. CASE Goes
  <2>1. Pending(op.pid)
    BY <1>3 DEF Goes, OpInv, Ready
  <2>2. QED BY <1>3, <2>1 DEF Goes, Pids
<1>4. ASSUME op # NULL, NEW landed, Moves(landed)
      PROVE  ~Pending(p) => ~(op' # NULL /\ op'.pid = p)
  <2>1. op' # NULL => op'.pid \in op.rest
    BY <1>4 DEF Moves
  <2>2. \A q \in op.rest : Pending(q)
    BY <1>4 DEF OpInv, Ready
  <2>3. QED BY <2>1, <2>2
<1>5. CASE Refuses
  <2>1. op # NULL /\ Pending(op.pid) /\ unsure' = unsure
    BY <1>5 DEF Refuses, Refuse, OpInv, Ready
  <2>2. /\ Pids' = Pids /\ Moves(op.landed)
        /\ proposals'[op.pid] = [proposals[op.pid] EXCEPT !.rejected = TRUE]
        /\ \A q \in Pids : q # op.pid => proposals'[q] = proposals[q]
    BY <1>5, RefusedItem
  <2>3. QED BY <1>1, <1>4, <2>1, <2>2 DEF Proposal
<1>6. CASE Lands
  <2>1. op # NULL /\ Pending(op.pid) /\ unsure' = unsure
    BY <1>6 DEF Lands, Landed, OpInv, Ready
  <2>2. /\ Pids' = Pids /\ Moves(op.landed \cup {op.pid})
        /\ proposals'[op.pid] = [proposals[op.pid] EXCEPT !.materialized = TRUE]
        /\ \A q \in Pids : q # op.pid => proposals'[q] = proposals[q]
    BY <1>6, LandedItem
  <2>3. QED BY <1>1, <1>4, <2>1, <2>2 DEF Proposal
<1>7. CASE Quits
  BY <1>7 DEF Quits, Abort, Pids
<1>8. ASSUME NEW n, Begin(n)
      PROVE  /\ proposals' = proposals /\ unsure' = unsure
             /\ ~Pending(p) => ~(op' # NULL /\ op'.pid = p)
  BY <1>8, BeginItem DEF Begin, Ready
<1>9. CASE \E n \in {SweepCap, MaxProposals} : Begin(n)
  BY <1>8, <1>9 DEF Pids
<1>10. QED BY <1>2, <1>3, <1>5, <1>6, <1>7, <1>9, GateSteps

(* The gate writes an edge, writes back a scanned neighbourhood, or leaves *)
(* the graph alone.                                                        *)
WritesEdge ==
  /\ op # NULL /\ op.at = "write" /\ kind.type = "edge"
  /\ Put("gate", Upserted({NewEdge(kind.about, "gate", op.pid)}))
  /\ Closes("gate")
  /\ Lands \/ op.pid \in unsure'

WritesBack ==
  /\ op # NULL /\ op.at = "retire" /\ op' # op
  /\ Put("gate", Replaced(GroupOf[kind.about], Retired))
  /\ Closes("gate")

(* What is proposed to be linked or forgotten is a fact.                   *)
LEMMA KindTyped ==
  ASSUME GateOK, op # NULL
  PROVE  /\ kind.type \in {"edge", "forget"} => kind.about \in Facts /\ RelOf[kind.about] \in Rels
         /\ op.pid \in Nat
<1>1. kind \in Kinds /\ op.pid \in Nat
  BY OpTyped
<1>2. QED BY <1>1, GateAssumption DEF Rels

(* A landing or a failure leaves the item behind.                          *)
LEMMA ItemLeft ==
  ASSUME GateOK, OpInv, op # NULL, Lands \/ Quits
  PROVE  op' # op
<1>1. CASE Lands
  <2>1. Moves(op.landed \cup {op.pid})
    BY <1>1, LandedItem
  <2>2. QED BY <2>1 DEF Moves, OpInv
<1>2. CASE Quits
  BY <1>2 DEF Quits, Abort
<1>3. QED BY <1>1, <1>2

(* The case split of the proofs about the gate and the graph.              *)
LEMMA GateGraphSteps ==
  ASSUME GateOK, OpInv, GateNext
  PROVE  Kept("gate") \/ WritesEdge \/ WritesBack
<1>0. "gate" \in Writers
  BY DEF Writers
<1>1. CASE \/ \E a \in Agents : PromoteForAgent(a) \/ \E k \in Kinds : Submit(a, k)
           \/ \E p \in Pids : Approve(p) \/ Reject(p)
           \/ Begin(SweepCap) \/ Begin(MaxProposals)
  BY <1>1 DEF PromoteForAgent, Submit, Approve, Reject, Begin, graphVars, Kept, Closes
<1>2. CASE CheckPasses \/ CheckRefuses \/ CheckFails
  BY <1>0, <1>2 DEF CheckPasses, CheckRefuses, CheckFails, Refuse, Kept, Closes, Scan, Drop
<1>3. CASE CheckPage
  <2>1. RelOf[kind.about] \in Rels
    BY <1>3, KindTyped DEF CheckPage
  <2>2. QED BY <1>3, <2>1 DEF CheckPage, Kept, Scan
<1>4. CASE WriteTag \/ WriteNote \/ WriteLink \/ RetireScan \/ RetireFindsNothing
  BY <1>4 DEF WriteTag, WriteNote, WriteLink, RetireScan, RetireFindsNothing, Landed, Abort,
              graphVars, Kept, Closes, Scan, Drop
<1>5. CASE WriteEdge
  BY <1>5, LandSteps DEF WriteEdge, WritesEdge, Landed, Closes
<1>6. CASE RetireReplace
  <2>1. op # NULL /\ op' # op
    BY <1>6, LandSteps, ItemLeft DEF RetireReplace
  <2>2. QED BY <1>6, <2>1 DEF RetireReplace, WritesBack, Landed, Closes
<1>7. CASE WriteFails
  <2>1. op # NULL /\ op.pid \in unsure' /\ op.at # "check" /\ cursor' = cursor /\ op' # op
    <3>1. op # NULL
      BY <1>7 DEF WriteFails
    <3>2. op' # op
      BY <1>7, <3>1, QuitSteps, ItemLeft
    <3>3. QED BY <1>7, <3>1, <3>2 DEF WriteFails, Abort
  <2>2. op.at \in {"check", "write", "link", "retire"}
    BY <2>1, OpTyped DEF Materialization
  <2>3. kind.type = "edge" => op.at = "write"
    BY <2>1, <2>2 DEF OpInv
  <2>4. \/ Drop("gate")
        \/ kind.type = "edge" /\ Put("gate", Upserted({NewEdge(kind.about, "gate", op.pid)}))
        \/ op.at = "retire" /\ Put("gate", Replaced(GroupOf[kind.about], Retired))
    BY <1>7 DEF WriteFails
  <2>5. QED BY <2>1, <2>3, <2>4 DEF Kept, Drop, WritesEdge, WritesBack, Closes
<1>8. QED BY <1>1, <1>2, <1>3, <1>4, <1>5, <1>6, <1>7 DEF GateNext, GateStep

(* What a retirement writes back is well formed.                           *)
LEMMA BackWritten ==
  ASSUME GateOK, GraphOK, GateSeen, WritesBack
  PROVE  /\ op # NULL /\ op.at = "retire" /\ op \in Materialization
         /\ op.view \subseteq Edge /\ Scanned(op.view, GroupOf[kind.about])
         /\ Target \in op.view
         /\ Retired \in SUBSET Edge /\ IsFiniteSet(Retired)
         /\ \A x \in Retired : \E e \in op.view : Becomes(e, x)
         /\ \A e \in op.view : \E x \in Retired : Becomes(e, x)
         /\ graph' = Replaced(GroupOf[kind.about], Retired)
<1>1. op # NULL /\ op.at = "retire" /\ graph' = Replaced(GroupOf[kind.about], Retired)
  BY DEF WritesBack, Put
<1>2. op \in Materialization /\ op.view \subseteq Edge
  BY <1>1, OpTyped DEF Materialization
<1>3. Scanned(op.view, GroupOf[kind.about]) /\ OpenEdges(op.view, kind.about) # {}
  BY <1>1 DEF GateSeen
<1>4. IsFiniteSet(op.view)
  BY <1>3 DEF Scanned
<1>5. QED BY <1>1, <1>2, <1>3, <1>4, TargetIsSeen, RetiredIsSeen

(* Whatever the gate does to the graph is known as touched to the engine.  *)
LEMMA GateGraph ==
  ASSUME GateOK, GraphOK, OpInv, GateSeen, GateNext
  PROVE  Ages("gate") /\ Aged("infer")
<1>1. "gate" \in Writers /\ "infer" \in Writers /\ "gate" # "infer"
  BY DEF Writers
<1>2. CASE Kept("gate")
  BY <1>1, <1>2, KeptEffect DEF Ages
<1>3. CASE WritesEdge
  <2> DEFINE new == NewEdge(kind.about, "gate", op.pid)
  <2>1. Put("gate", Upserted({new})) /\ Closes("gate")
    BY <1>3 DEF WritesEdge
  <2>2. new \in Edge
    BY <1>3, KindTyped, NewEdgeIsEdge DEF WritesEdge
  <2> HIDE DEF new
  <2>3. {new} \in SUBSET Edge /\ IsFiniteSet({new})
    BY <2>2, FS_Singleton
  <2>4. Upserted({new}) \in SUBSET Edge /\ IsFiniteSet(Upserted({new}))
    BY <2>3, UpsertedKeeps
  <2>5. QED BY <1>1, <2>1, <2>4, PutEffect DEF Ages
<1>4. CASE WritesBack
  <2> DEFINE g == Replaced(GroupOf[kind.about], Retired)
  <2>1. Put("gate", g) /\ Closes("gate")
    BY <1>4 DEF WritesBack
  <2>2. Retired \in SUBSET Edge /\ IsFiniteSet(Retired)
    BY <1>4, BackWritten
  <2>3. g \in SUBSET Edge /\ IsFiniteSet(g)
    BY <2>2, ReplacedKeeps
  <2> HIDE DEF g
  <2>4. QED BY <1>1, <2>1, <2>3, PutEffect DEF Ages
<1>5. QED BY <1>2, <1>3, <1>4, GateGraphSteps

-----------------------------------------------------------------------------
(* What the gate's steps keep.                                             *)
LEMMA BackedPersists ==
  ASSUME GateOK, GraphOK, OpInv, GateNext
  PROVE  \A e : Backed(e) => Backed(e)'
BY ProposalsPersist DEF Backed

(* The edge written for an item in hand is settled by the same step, or    *)
(* its write has returned an error.                                        *)
LEMMA LandedEdgeIsBacked ==
  ASSUME GateOK, GraphOK, OpInv, GateNext, WritesEdge,
         NEW e, e = NewEdge(kind.about, "gate", op.pid)
  PROVE  Backed(e)'
<1> DEFINE p == op.pid
<1>1. op # NULL /\ e.pid = p
  BY DEF WritesEdge, NewEdge
<1>2. p \in Pids /\ proposals[p].status = "Ready" /\ proposals[p] \in Proposal
  BY <1>1, OpTyped DEF OpInv, Ready
<1>3. p \in Pids' /\ proposals'[p].status = "Ready"
  BY <1>2, ProposalsPersist
<1>4. CASE Lands
  <2>1. proposals'[p] = [proposals[p] EXCEPT !.materialized = TRUE]
    BY <1>4, LandedItem
  <2>2. proposals'[p].materialized
    BY <1>2, <2>1 DEF Proposal
  <2>3. QED BY <1>1, <1>3, <2>2 DEF Backed
<1>5. CASE p \in unsure'
  BY <1>1, <1>3, <1>5 DEF Backed
<1>6. QED BY <1>4, <1>5 DEF WritesEdge

(* Every edge after a gate's step was there, is written, or was scanned.   *)
LEMMA GateEdges ==
  ASSUME GateOK, GraphOK, OpInv, GateSeen, GateNext, NEW e \in graph'
  PROVE  \/ e \in graph
         \/ WritesEdge /\ e = NewEdge(kind.about, "gate", op.pid)
         \/ WritesBack /\ \E x \in op.view : Becomes(x, e)
<1>1. CASE Kept("gate")
  BY <1>1 DEF Kept
<1>2. CASE WritesEdge
  <2>1. graph' = Upserted({NewEdge(kind.about, "gate", op.pid)})
    BY <1>2 DEF WritesEdge, Put
  <2>2. QED BY <1>2, <2>1 DEF Upserted
<1>3. CASE WritesBack
  <2>1. graph' = Replaced(GroupOf[kind.about], Retired)
        /\ \A x \in Retired : \E y \in op.view : Becomes(y, x)
    BY <1>3, BackWritten
  <2>2. e \in graph \/ e \in Retired
    BY <2>1 DEF Replaced
  <2>3. QED BY <1>3, <2>1, <2>2
<1>4. QED BY <1>1, <1>2, <1>3, GateGraphSteps

(* The view of a materialization is scanned from the graph.                *)
LEMMA GateViews ==
  ASSUME GateOK, GraphOK, OpInv, GateNext, op' # NULL, NEW e \in op'.view
  PROVE  \/ op # NULL /\ e \in op.view
         \/ RetireScan /\ e \in graph
<1>1. CASE QueueStep
  BY <1>1 DEF QueueStep
<1>2. CASE CheckPage \/ CheckPasses \/ WriteNote
  <2>1. op # NULL /\ op'.view = op.view
    <3>1. op # NULL
      BY <1>2 DEF CheckPage, CheckPasses, WriteNote
    <3>2. op \in Materialization
      BY <3>1, OpTyped
    <3>3. op' = op \/ op' = [op EXCEPT !.at = "write"] \/ op' = [op EXCEPT !.at = "link"]
      BY <1>2 DEF CheckPage, CheckPasses, WriteNote, gateVars
    <3>4. QED BY <3>1, <3>2, <3>3 DEF Materialization
  <2>2. QED BY <2>1
<1>3. CASE RetireScan
  <2>1. op \in Materialization
    BY <1>3, OpTyped DEF RetireScan
  <2>2. op'.view = Neighbourhood(GroupOf[kind.about])
    BY <1>3, <2>1 DEF RetireScan, Materialization
  <2>3. QED BY <1>3, <2>2 DEF Neighbourhood, Group
<1>4. CASE Refuses \/ Lands
  BY <1>4, RefusedItem, LandedItem DEF Moves
<1>5. CASE Quits
  BY <1>5 DEF Quits, Abort
<1>6. CASE \E n \in {SweepCap, MaxProposals} : Begin(n)
  BY <1>6, BeginItem
<1>7. CASE \/ \E a \in Agents : PromoteForAgent(a) \/ \E k \in Kinds : Submit(a, k)
           \/ \E p \in Pids : Approve(p) \/ Reject(p)
  BY <1>1, <1>7, QueueSteps
<1>8. CASE CheckRefuses \/ CheckFails
  BY <1>4, <1>8 DEF CheckRefuses, Refuted, CheckFails, Refuses
<1>9. CASE WriteEdge \/ WriteTag \/ WriteLink \/ RetireReplace
  BY <1>4, <1>9, LandSteps
<1>10. CASE RetireFindsNothing \/ WriteFails
  BY <1>5, <1>10, QuitSteps
<1>11. QED BY <1>2, <1>3, <1>6, <1>7, <1>8, <1>9, <1>10 DEF GateNext, GateStep

(* The gate's steps keep LandInv: what it writes back it has scanned.      *)
LEMMA LandInvKept ==
  ASSUME GateOK, GraphOK, OpInv, LandInv, GateSeen, GateNext, UNCHANGED inferVars
  PROVE  LandInv'
<1>1. \A e : Backed(e) => Backed(e)'
  BY BackedPersists
<1>2. ASSUME NEW e \in graph' PROVE Backed(e)'
  <2>1. CASE e \in graph
    BY <1>1, <2>1 DEF LandInv
  <2>2. CASE WritesEdge /\ e = NewEdge(kind.about, "gate", op.pid)
    BY <2>2, LandedEdgeIsBacked
  <2>3. CASE WritesBack /\ \E x \in op.view : Becomes(x, e)
    <3>1. PICK x \in op.view : e.by = x.by /\ e.pid = x.pid
      BY <2>3, BackWritten DEF Becomes
    <3>2. Backed(x)
      BY <2>3 DEF LandInv, WritesBack
    <3>3. Backed(e)
      BY <3>1, <3>2 DEF Backed
    <3>4. QED BY <1>1, <3>3
  <2>4. QED BY <2>1, <2>2, <2>3, GateEdges
<1>3. ASSUME op' # NULL, NEW e \in op'.view PROVE Backed(e)'
  <2>1. (op # NULL /\ e \in op.view) \/ e \in graph
    BY <1>3, GateViews
  <2>2. Backed(e)
    BY <2>1 DEF LandInv
  <2>3. QED BY <1>1, <2>2
<1>4. ASSUME Retracts', NEW e \in inf'.view PROVE Backed(e)'
  BY <1>1, <1>4 DEF LandInv, Retracts, inferVars
<1>5. ASSUME NEW p \in (notes \cup links \cup assigned)'
      PROVE  /\ proposals'[p].status = "Ready"
             /\ \/ proposals'[p].materialized \/ p \in unsure'
                \/ op' # NULL /\ op'.at = "link" /\ op'.pid = p
  <2>1. p \in Pids /\ proposals[p].status = "Ready" =>
          proposals'[p].status = "Ready"
    BY ProposalsPersist
  <2>2. p \in notes \cup links \cup assigned => p \in Pids /\ proposals[p].status = "Ready"
    BY DEF GateOK, LandInv
  <2>3. op # NULL => op.pid \in Pids /\ proposals[op.pid].status = "Ready"
    BY OpTyped DEF OpInv, Ready
  <2>4. p \in notes \cup links \cup assigned =>
          \/ proposals'[p].materialized \/ p \in unsure'
          \/ op # NULL /\ op.at = "link" /\ op.pid = p
    BY <2>2, ProposalsPersist DEF LandInv
  <2>5. CASE QueueStep \/ \E n \in {SweepCap, MaxProposals} : Begin(n)
    <3>1. op = NULL /\ UNCHANGED engineVars
      BY <2>5 DEF QueueStep, Begin
    <3>2. QED BY <2>1, <2>2, <2>4, <3>1 DEF engineVars
  <2>6. CASE Goes
    <3>1. op' # NULL /\ op'.pid = op.pid /\ op # NULL /\ op.at # "link"
      BY <2>6, MaterializationAssumption DEF Goes
    <3>2. p \in notes \cup links \cup assigned \/ (p = op.pid /\ op'.at = "link")
      BY <2>6 DEF Goes
    <3>3. QED BY <2>1, <2>2, <2>3, <2>4, <3>1, <3>2
  <2>7. CASE Refuses
    <3>1. op.at = "check" /\ UNCHANGED engineVars
      BY <2>7 DEF Refuses, Refuse
    <3>2. QED BY <2>1, <2>2, <2>4, <3>1 DEF engineVars
  <2>8. CASE Lands
    <3>1. op # NULL /\ p \in notes \cup links \cup assigned \cup {op.pid}
      BY <2>8 DEF Lands, GrowsBy
    <3>2. proposals'[op.pid] = [proposals[op.pid] EXCEPT !.materialized = TRUE]
      BY <2>8, LandedItem
    <3>3. proposals'[op.pid].materialized
      BY <3>1, <3>2, OpTyped DEF Proposal
    <3>4. QED BY <2>1, <2>2, <2>3, <2>4, <3>1, <3>3
  <2>9. CASE Quits
    <3>1. op # NULL /\ p \in notes \cup links \cup assigned \cup {op.pid}
      BY <2>9 DEF Quits, GrowsBy
    <3>2. CASE unsure' = unsure \cup {op.pid}
      BY <2>1, <2>2, <2>3, <2>4, <3>1, <3>2
    <3>3. CASE op.at # "link" /\ UNCHANGED <<unsure, engineVars>>
      BY <2>1, <2>2, <2>4, <3>3 DEF engineVars
    <3>4. QED BY <2>9, <3>2, <3>3 DEF Quits
  <2>10. QED BY <2>5, <2>6, <2>7, <2>8, <2>9, GateSteps
<1>6. QED BY <1>2, <1>3, <1>4, <1>5 DEF LandInv

(* A proposal beyond the page stays beyond it, and one within it that is   *)
(* about to be materialized has its rel read.                              *)
LEMMA PidsFinite ==
  ASSUME GateOK
  PROVE  IsFiniteSet(Pids)
<1>1. Pids = 1 .. Len(proposals) /\ Len(proposals) \in Nat
  BY DEF GateOK, Pids
<1>2. QED BY <1>1, FS_Interval

(* A proposal among the earliest of a set is so in a part of it.           *)
LEMMA EarliestShrinks ==
  ASSUME NEW S, NEW T, S \subseteq T, IsFiniteSet(T), NEW n \in Nat, NEW p \in S,
         p \in Earliest(T, n)
  PROVE  p \in Earliest(S, n)
<1> DEFINE before(U) == {q \in U : Before(q, p)}
<1>1. IsFiniteSet(before(T)) /\ before(S) \in SUBSET before(T)
  BY FS_Subset
<1> HIDE DEF before
<1>2. IsFiniteSet(before(S)) /\ Cardinality(before(S)) <= Cardinality(before(T))
  BY <1>1, FS_Subset
<1>3. Cardinality(before(S)) \in Nat /\ Cardinality(before(T)) \in Nat
  BY <1>1, <1>2, FS_CardinalityType
<1>4. Cardinality(before(T)) < n
  BY DEF Earliest, before
<1>5. Cardinality(before(S)) < n
  BY <1>2, <1>3, <1>4
<1>6. QED BY <1>5 DEF Earliest, before

(* Submissions append, so that they do not push a proposal into the page.  *)
LEMMA PageShrinks ==
  ASSUME GateOK, GateOK', Pids \subseteq Pids', NEW p \in Pids, p \notin Page
  PROVE  p \notin Page'
<1>1. IsFiniteSet(Pids')
  <2>1. Pids' = 1 .. Len(proposals') /\ Len(proposals') \in Nat
    BY DEF GateOK, Pids
  <2>2. QED BY <2>1, FS_Interval
<1>2. Page' = Earliest(Pids', PageMax)
  BY DEF Page, Earliest, Before
<1>3. QED BY <1>1, <1>2, EarliestShrinks, GateAssumption DEF Page

(* The listing made before the sweep has the rel of whatever the sweep     *)
(* takes up, but for what is beyond the page.                              *)
LEMMA ReadyRelsTell ==
  ASSUME GateOK, NEW n \in Nat, NEW p \in Snapshot(n), proposals[p].kind.type = "edge"
  PROVE  RelOf[proposals[p].kind.about] \in ReadyRels(n) \/ p \notin Page
<1> DEFINE all == {q \in Pids : Ready(q)}
           listed == {q \in Page : Ready(q)}
<1>1. Page \subseteq Pids
  BY DEF Page, Earliest
<1>2. IsFiniteSet(all) /\ listed \subseteq all
  BY <1>1, PidsFinite, FS_Subset
<1>3. p \in Earliest(all, n) /\ p \in all
  BY DEF Snapshot, Earliest
<1>4. ASSUME p \in Page PROVE p \in Earliest(listed, n)
  <2>1. p \in listed
    BY <1>3, <1>4
  <2> HIDE DEF all, listed
  <2>2. QED BY <1>2, <1>3, <2>1, EarliestShrinks
<1>5. QED BY <1>4 DEF ReadyRels

(* That p landed has been told, or cannot be any more.                     *)
Tells(p, rels) == proposals[p].kind.type = "edge" => RelOf[proposals[p].kind.about] \in rels

Told(p) == \/ \E c \in changes : p \in c.pids /\ Tells(p, c.rels)
           \/ p \in cut
           \/ p \notin Page

(* The gate's steps keep TellInv: nothing lands that was not in the        *)
(* listing.                                                                *)
LEMMA TellInvKept ==
  ASSUME GateOK, GraphOK, OpInv, TellInv, GateNext
  PROVE  TellInv'
<1>1. \A p \in Pids : proposals[p].materialized /\ proposals[p].kind.type = "edge" =>
        (op # NULL /\ p \in op.landed) \/ Told(p)
  BY DEF TellInv, LandedAreTold, Told, Tells
<1>2. op # NULL => \A p \in {op.pid} \cup op.rest \cup op.landed :
        Tells(p, op.rels) \/ p \notin Page
  BY DEF TellInv, Tells
<1>3. GateOK'
  BY GateStaysOK
<1>4. Pids \subseteq Pids' /\ \A p \in Pids : proposals'[p].kind = proposals[p].kind
  BY ProposalsPersist
<1>5. \A p \in Pids : p \notin Page => p \notin Page'
  BY <1>3, <1>4, PageShrinks
<1>6. \A p \in Pids : \A rels : Tells(p, rels) =>
        (proposals'[p].kind.type = "edge" => RelOf[proposals'[p].kind.about] \in rels)
  BY <1>4 DEF Tells
<1>7. ASSUME changes \subseteq changes', cut \subseteq cut', NEW p \in Pids, Told(p)
      PROVE  Told(p)'
  <2>1. CASE \E c \in changes : p \in c.pids /\ Tells(p, c.rels)
    BY <1>4, <1>7, <2>1 DEF Told, Tells
  <2>2. CASE p \in cut
    BY <1>7, <2>2 DEF Told
  <2>3. CASE p \notin Page
    BY <1>5, <2>3 DEF Told
  <2>4. QED BY <1>7, <2>1, <2>2, <2>3 DEF Told
<1>8. ASSUME \A p \in Pids' : proposals'[p].materialized /\ proposals'[p].kind.type = "edge" =>
               (op' # NULL /\ p \in op'.landed) \/ Told(p)',
             op' # NULL => \A p \in {op'.pid} \cup op'.rest \cup op'.landed :
               (proposals'[p].kind.type = "edge" =>
                  RelOf[proposals'[p].kind.about] \in op'.rels) \/ p \notin Page'
      PROVE  TellInv'
  BY <1>8 DEF TellInv, LandedAreTold, Told, Tells
<1>9. CASE QueueStep
  <2>1. /\ op' = NULL /\ op = NULL /\ changes' = changes /\ cut' = cut
        /\ \A p \in Pids : proposals'[p].materialized = proposals[p].materialized
        /\ \A p \in Pids' : p \notin Pids => ~proposals'[p].materialized
    BY <1>9 DEF QueueStep
  <2>2. ASSUME NEW p \in Pids', proposals'[p].materialized, proposals'[p].kind.type = "edge"
        PROVE  Told(p)'
    <3>1. p \in Pids /\ Told(p)
      BY <1>1, <1>4, <2>1, <2>2
    <3>2. QED BY <1>7, <2>1, <3>1
  <2>3. QED BY <1>8, <2>1, <2>2
<1>10. CASE Goes
  <2>1. /\ op # NULL /\ op'.pid = op.pid /\ op'.rest = op.rest
        /\ op'.landed = op.landed /\ op'.rels = op.rels /\ op' # NULL
        /\ UNCHANGED <<proposals, cut, changes>>
    BY <1>10, MaterializationAssumption DEF Goes
  <2>2. {op.pid} \cup op.rest \cup op.landed \subseteq Pids
    BY <2>1 DEF GateOK
  <2>3. Pids' = Pids
    BY <2>1 DEF Pids
  <2>4. ASSUME NEW p \in Pids', proposals'[p].materialized, proposals'[p].kind.type = "edge"
        PROVE  p \in op'.landed \/ Told(p)'
    BY <1>1, <1>7, <2>1, <2>3, <2>4
  <2>5. ASSUME NEW p \in {op'.pid} \cup op'.rest \cup op'.landed
        PROVE  (proposals'[p].kind.type = "edge" =>
                  RelOf[proposals'[p].kind.about] \in op'.rels) \/ p \notin Page'
    BY <1>2, <1>5, <1>6, <2>1, <2>2, <2>5
  <2>6. QED BY <1>8, <2>1, <2>4, <2>5
<1>11. ASSUME op # NULL, Pids' = Pids, cut' = cut,
              NEW landed, op.landed \subseteq landed, landed \subseteq op.landed \cup {op.pid},
              Moves(landed),
              \A p \in Pids : proposals'[p].materialized => proposals[p].materialized \/ p \in landed
       PROVE  TellInv'
  <2>1. /\ {op.pid} \cup op.rest \cup op.landed \subseteq Pids
    BY <1>11 DEF GateOK
  <2>2. changes \subseteq changes'
    BY <1>11 DEF Moves
  <2>3. \A p \in landed : Tells(p, op.rels) \/ p \notin Page'
    BY <1>2, <1>5, <1>11, <2>1
  <2>4. ASSUME NEW p \in Pids', proposals'[p].materialized, proposals'[p].kind.type = "edge"
        PROVE  (op' # NULL /\ p \in op'.landed) \/ Told(p)'
    <3>1. CASE p \notin landed
      <4>1. Told(p)
        BY <1>1, <1>4, <1>11, <2>4, <3>1
      <4>2. QED BY <1>7, <1>11, <2>2, <4>1
    <3>2. CASE p \in landed /\ op' # NULL
      BY <1>11, <3>2 DEF Moves
    <3>3. CASE p \in landed /\ p \notin Page'
      BY <3>3 DEF Told
    <3>4. CASE p \in landed /\ op' = NULL /\ Tells(p, op.rels)
      <4>1. RelOf[proposals'[p].kind.about] \in op.rels
        BY <1>6, <1>11, <2>4, <3>4
      <4>2. op' \notin Materialization
        BY <3>4, MaterializationAssumption
      <4>3. [pids |-> landed, rels |-> op.rels] \in changes'
        BY <1>11, <3>4, <4>1, <4>2 DEF Moves
      <4>4. QED BY <3>4, <4>1, <4>3 DEF Told, Tells
    <3>5. QED BY <2>3, <3>1, <3>2, <3>3, <3>4
  <2>5. ASSUME op' # NULL, NEW p \in {op'.pid} \cup op'.rest \cup op'.landed
        PROVE  (proposals'[p].kind.type = "edge" =>
                  RelOf[proposals'[p].kind.about] \in op'.rels) \/ p \notin Page'
    <3>1. op'.rels = op.rels /\ p \in {op.pid} \cup op.rest \cup op.landed
      BY <1>11, <2>5 DEF Moves
    <3>2. QED BY <1>2, <1>5, <1>6, <1>11, <2>1, <3>1
  <2>6. QED BY <1>8, <2>4, <2>5
<1>12. CASE Refuses
  <2>1. op # NULL /\ cut' = cut
    BY <1>12 DEF Refuses, Refuse
  <2>2. /\ Pids' = Pids /\ Moves(op.landed)
        /\ proposals'[op.pid] = [proposals[op.pid] EXCEPT !.rejected = TRUE]
        /\ \A q \in Pids : q # op.pid => proposals'[q] = proposals[q]
    BY <1>12, RefusedItem
  <2>3. proposals[op.pid] \in Proposal
    BY <2>1, OpTyped
  <2>4. \A p \in Pids : proposals'[p].materialized => proposals[p].materialized
    BY <2>2, <2>3 DEF Proposal
  <2>5. QED BY <1>11, <2>1, <2>2, <2>4
<1>13. CASE Lands
  <2>1. op # NULL /\ cut' = cut
    BY <1>13 DEF Lands, Landed
  <2>2. /\ Pids' = Pids /\ Moves(op.landed \cup {op.pid})
        /\ \A q \in Pids : q # op.pid => proposals'[q] = proposals[q]
    BY <1>13, LandedItem
  <2>3. QED BY <1>11, <2>1, <2>2
<1>14. CASE Quits
  <2>1. /\ op # NULL /\ op' = NULL /\ cut' = cut \cup op.landed
        /\ UNCHANGED <<proposals, changes>>
    BY <1>14 DEF Quits, Abort
  <2>2. Pids' = Pids
    BY <2>1 DEF Pids
  <2>3. ASSUME NEW p \in Pids', proposals'[p].materialized, proposals'[p].kind.type = "edge"
        PROVE  Told(p)'
    <3>1. CASE p \in op.landed
      BY <2>1, <3>1 DEF Told
    <3>2. CASE Told(p)
      BY <1>7, <2>1, <2>2, <3>2
    <3>3. QED BY <1>1, <2>1, <2>2, <2>3, <3>1, <3>2
  <2>4. QED BY <1>8, <2>1, <2>3
<1>15. ASSUME NEW n \in {SweepCap, MaxProposals}, Begin(n) PROVE TellInv'
  <2>1. /\ op = NULL /\ op' # NULL
        /\ op'.pid \in Snapshot(n) /\ op'.rest = Snapshot(n) \ {op'.pid}
        /\ op'.rels = ReadyRels(n) /\ op'.landed = {}
        /\ Snapshot(n) \subseteq Pids
    BY <1>15, BeginItem, MaterializationAssumption
  <2>2. UNCHANGED <<proposals, cut, changes>>
    BY <1>15 DEF Begin
  <2>3. Pids' = Pids
    BY <2>2 DEF Pids
  <2>4. ASSUME NEW p \in Pids', proposals'[p].materialized, proposals'[p].kind.type = "edge"
        PROVE  Told(p)'
    BY <1>1, <1>7, <2>1, <2>2, <2>3, <2>4
  <2>5. ASSUME NEW p \in {op'.pid} \cup op'.rest \cup op'.landed
        PROVE  (proposals'[p].kind.type = "edge" =>
                  RelOf[proposals'[p].kind.about] \in op'.rels) \/ p \notin Page'
    <3>1. p \in Snapshot(n) /\ n \in Nat
      BY <2>1, <2>5, GateAssumption
    <3>2. proposals[p].kind.type = "edge" =>
            RelOf[proposals[p].kind.about] \in ReadyRels(n) \/ p \notin Page
      BY <3>1, ReadyRelsTell
    <3>3. p \in Pids
      BY <2>1, <3>1
    <3>4. QED BY <1>5, <2>1, <2>2, <3>2, <3>3
  <2>6. QED BY <1>8, <2>1, <2>4, <2>5
<1>16. QED BY <1>9, <1>10, <1>12, <1>13, <1>14, <1>15, GateSteps
=============================================================================
