---------------------------- MODULE ProposalGate ----------------------------
(***************************************************************************)
(* The agent writeback gate, crates/tdw-knowledge/src/proposals.rs, and    *)
(* the two callers that materialize: the tool tdw.kg.proposals and the     *)
(* auto-materialize sweep of tdw-backend.  One tokio mutex is held for a   *)
(* whole call, so calls never overlap each other; submit, approve,         *)
(* promote and reject are single steps.  A materialization awaits the      *)
(* engines once per check and once or twice per write; other writers of    *)
(* the graph run in between.                                               *)
(*                                                                         *)
(* A check reads the engines several times.  Nodes and tags are never      *)
(* removed, so that only the pages of an edge's relation are steps of      *)
(* their own; the other checks are one step each.                          *)
(***************************************************************************)
EXTENDS KnowledgeGraph, Sequences

CONSTANTS
  Kinds,         (* the proposals agents may make *)
  Agents,        (* agent ids *)
  Learners,      (* those whose adaptivity is Learning or above *)
  MaxProposals,  (* bound: proposals ever submitted *)
  KeyRank,       (* the place of an id in the BTreeMap: "p10" before "p2" *)
  PendingCap,    (* PER_AGENT_PENDING_CAP *)
  TotalCap,      (* MAX_TOTAL_PENDING *)
  PageMax,       (* LIST_PAGE_MAX *)
  SweepCap       (* sweep_cap of the auto-materialize sweep *)

ASSUME GateAssumption ==
  /\ Learners \subseteq Agents
  /\ \A k \in Kinds : /\ k.type \in {"edge", "forget", "note", "define", "assign"}
                      /\ k.type \in {"edge", "forget"} => k.about \in Facts
  /\ {MaxProposals, PendingCap, TotalCap, PageMax, SweepCap} \subseteq Nat \ {0}
  /\ KeyRank \in [1..MaxProposals -> 1..MaxProposals]
  /\ \A i, j \in 1..MaxProposals : KeyRank[i] = KeyRank[j] => i = j

VARIABLES
  proposals,  (* ProposalQueue::proposals; the index is the id *)
  op,         (* the materialization holding the mutex, or NULL *)
  notes,      (* proposals whose annotation node exists *)
  links,      (* those whose annotated_by edge exists *)
  tags,       (* tags defined in the tag engine *)
  assigned,   (* proposals whose tag assignment exists *)
  unsure,     (* history: proposals one of whose writes returned an error *)
  cut         (* history: proposals landed by a sweep that returned an error *)

engineVars == <<notes, links, tags, assigned>>
gateVars == <<proposals, op, engineVars, unsure, cut>>

-----------------------------------------------------------------------------
Pids == DOMAIN proposals

Proposal == [kind : Kinds, agent : Agents, status : {"Validated", "Ready"},
             rejected : BOOLEAN, materialized : BOOLEAN]

(* materialize_ready_capped under way: the proposal it is at and those to  *)
(* come, where it is with it, the rels its caller has read, what landed,   *)
(* and the neighbourhood a retirement scanned.                             *)
Materialization == [pid : 1..MaxProposals, rest : SUBSET (1..MaxProposals),
                    at : {"check", "write", "link", "retire"}, rels : SUBSET Rels,
                    landed : SUBSET (1..MaxProposals), view : SUBSET Edge]

ASSUME MaterializationAssumption == NULL \notin Materialization

Pending(p) == ~proposals[p].materialized /\ ~proposals[p].rejected

(* Mutant of Ready: the status is not looked at.                           *)
AnyPending(p) == Pending(p)

Ready(p) == proposals[p].status = "Ready" /\ Pending(p)

OpenEdges(edges, f) == {e \in edges : e.fact = f /\ e.open}

Retirable(f) == OpenEdges(Neighbourhood(GroupOf[f]), f) # {}

(* validate_kind, validate_forget: what the engines must say, but for the  *)
(* triple of an edge.                                                      *)
Valid(k) ==
  \/ k.type = "forget" /\ Retirable(k.about)
  \/ k.type = "note"
  \/ k.type = "define" /\ k.about \notin tags
  \/ k.type = "assign" /\ k.about \in tags

-----------------------------------------------------------------------------
GateInit ==
  /\ proposals = <<>> /\ op = NULL
  /\ notes = {} /\ links = {} /\ tags = {} /\ assigned = {}
  /\ unsure = {} /\ cut = {}

(* A submission's check for the triple, as one step: it is sure to find an *)
(* edge of the first page.  One beyond it may move to a page already read. *)
MayBeNew(f) == \A e \in graph : e.fact = f => Place(graph, e) >= EdgePage

(* The calls that take the mutex for one step.                             *)
Submit(a, k) ==
  /\ op = NULL
  /\ Len(proposals) < MaxProposals
  /\ a \in Learners
  /\ Cardinality({p \in Pids : Pending(p)}) < TotalCap
  /\ Cardinality({p \in Pids : Pending(p) /\ proposals[p].agent = a}) < PendingCap
  /\ Valid(k) \/ (k.type = "edge" /\ MayBeNew(k.about))
  /\ proposals' = Append(proposals, [kind |-> k, agent |-> a, status |-> "Validated",
                                     rejected |-> FALSE, materialized |-> FALSE])
  /\ UNCHANGED <<op, engineVars, unsure, cut, graphVars, changes, handled>>

(* Mutant of Approve: without the check for a rejection.                   *)
ApproveRejected(p) ==
  /\ op = NULL
  /\ proposals[p].status = "Validated"
  /\ proposals' = [proposals EXCEPT ![p].status = "Ready"]
  /\ UNCHANGED <<op, engineVars, unsure, cut, graphVars, changes, handled>>

Approve(p) ==
  /\ op = NULL
  /\ proposals[p].status = "Validated" /\ ~proposals[p].rejected
  /\ proposals' = [proposals EXCEPT ![p].status = "Ready"]
  /\ UNCHANGED <<op, engineVars, unsure, cut, graphVars, changes, handled>>

(* An eval of agent a met the threshold with enough cases.                 *)
PromoteForAgent(a) ==
  LET promoted == {p \in Pids : /\ proposals[p].agent = a
                                /\ proposals[p].status = "Validated" /\ Pending(p)}
  IN /\ op = NULL
     /\ promoted # {}
     /\ proposals' = [p \in Pids |->
          IF p \in promoted THEN [proposals[p] EXCEPT !.status = "Ready"]
                            ELSE proposals[p]]
     /\ UNCHANGED <<op, engineVars, unsure, cut, graphVars, changes, handled>>

Reject(p) ==
  /\ op = NULL
  /\ Pending(p)
  /\ proposals' = [proposals EXCEPT ![p].rejected = TRUE]
  /\ UNCHANGED <<op, engineVars, unsure, cut, graphVars, changes, handled>>

-----------------------------------------------------------------------------
(* materialize_ready(_capped).                                             *)

Before(p, q) == KeyRank[p] < KeyRank[q]

(* Iterator::take over the values of the BTreeMap that are in S.           *)
Earliest(S, n) == {p \in S : Cardinality({q \in S : Before(q, p)}) < n}

IsFirst(p, S) == p \in S /\ \A q \in S \ {p} : Before(p, q)

Snapshot(n) == Earliest({p \in Pids : Ready(p)}, n)

(* list(): one page of all proposals, whatever became of them.             *)
Page == Earliest(Pids, PageMax)

(* The callers' ready_kinds.  Only edges give the ChangeSet rels.          *)
ReadyRels(n) ==
  LET listed == Earliest({p \in Page : Ready(p)}, n)
      edges  == {p \in listed : proposals[p].kind.type = "edge"}
  IN {RelOf[proposals[p].kind.about] : p \in edges}

(* A cron slot of the sweep (n = sweep_cap), or the operator's tool (all). *)
Begin(n) ==
  /\ op = NULL
  /\ \E p \in Snapshot(n) :
       /\ IsFirst(p, Snapshot(n))
       /\ op' = [pid |-> p, rest |-> Snapshot(n) \ {p}, at |-> "check",
                 rels |-> ReadyRels(n), landed |-> {}, view |-> {}]
  /\ UNCHANGED <<proposals, engineVars, unsure, cut, graphVars, changes, handled>>

kind == proposals[op.pid].kind

(* The next ready id, or the end: the mutex is released, and if something  *)
(* landed a ChangeSet goes to the inference engine.                        *)
NextItem(landed) ==
  IF op.rest # {}
  THEN /\ \E p \in op.rest :
            /\ IsFirst(p, op.rest)
            /\ op' = [op EXCEPT !.pid = p, !.rest = @ \ {p},
                                !.at = "check", !.landed = landed, !.view = {}]
       /\ UNCHANGED changes
  ELSE /\ op' = NULL
       /\ changes' = IF landed # {} /\ op.rels # {}
                     THEN changes \cup {[pids |-> landed, rels |-> op.rels]}
                     ELSE changes

(* A page of the check for the triple does not show it.                    *)
CheckPage ==
  LET rel == RelOf[kind.about]
  IN /\ op # NULL /\ op.at = "check" /\ kind.type = "edge"
     /\ ~IsEmpty("gate", rel)
     /\ \A e \in PageOf("gate", rel) : e.fact # kind.about
     /\ Scan("gate")
     /\ Turn("gate", rel)
     /\ UNCHANGED <<gateVars, failures, arrivals, changes, handled>>

CheckPasses ==
  /\ op # NULL /\ op.at = "check"
  /\ Valid(kind) \/ (kind.type = "edge" /\ IsEmpty("gate", RelOf[kind.about]))
  /\ op' = [op EXCEPT !.at = "write"]
  /\ Scan("gate")
  /\ Close("gate")
  /\ UNCHANGED <<proposals, engineVars, unsure, cut, failures, arrivals, changes, handled>>

(* validate_kind returns Err.                                              *)
Refuted ==
  /\ op # NULL /\ op.at = "check"
  /\ IF kind.type = "edge"
     THEN \E e \in PageOf("gate", RelOf[kind.about]) : e.fact = kind.about
     ELSE ~Valid(kind)

(* Mutant of Refuse: the error is returned instead of going on.            *)
RefuseAndReturn ==
  /\ proposals' = [proposals EXCEPT ![op.pid].rejected = TRUE]
  /\ op' = NULL
  /\ Drop("gate") /\ Close("gate")
  /\ UNCHANGED <<engineVars, unsure, cut, arrivals, handled, changes>>

(* validate_kind returned Err: the proposal is rejected, the sweep goes on.*)
Refuse ==
  /\ proposals' = [proposals EXCEPT ![op.pid].rejected = TRUE]
  /\ NextItem(op.landed)
  /\ Drop("gate") /\ Close("gate")
  /\ UNCHANGED <<engineVars, unsure, cut, arrivals, handled>>

(* Mutant of CheckRefuses: skipped, but not rejected.                      *)
CheckSkips ==
  /\ Refuted
  /\ NextItem(op.landed)
  /\ Drop("gate") /\ Close("gate")
  /\ UNCHANGED <<proposals, engineVars, unsure, cut, failures, arrivals, handled>>

CheckRefuses ==
  /\ Refuted
  /\ Refuse
  /\ UNCHANGED failures

(* A graph read failed: validate_kind makes it the same Err.  (The tag     *)
(* engine is in memory and does not fail.)                                 *)
CheckFails ==
  /\ op # NULL /\ op.at = "check"
  /\ kind.type # "define"
  /\ EngineFails
  /\ Refuse

Landed ==
  /\ proposals' = [proposals EXCEPT ![op.pid].materialized = TRUE]
  /\ NextItem(op.landed \cup {op.pid})
  /\ UNCHANGED <<failures, arrivals, cursor, unsure, cut, handled>>

WriteEdge ==
  /\ op # NULL /\ op.at = "write" /\ kind.type = "edge"
  /\ Put("gate", Upserted({NewEdge(kind.about, "gate", op.pid)}))
  /\ Landed
  /\ UNCHANGED engineVars

WriteTag ==
  /\ op # NULL /\ op.at = "write" /\ kind.type \in {"define", "assign"}
  /\ tags' = IF kind.type = "define" THEN tags \cup {kind.about} ELSE tags
  /\ assigned' = IF kind.type = "assign" THEN assigned \cup {op.pid} ELSE assigned
  /\ Drop("gate")
  /\ Landed
  /\ UNCHANGED <<notes, links>>

WriteNote ==
  /\ op # NULL /\ op.at = "write" /\ kind.type = "note"
  /\ notes' = notes \cup {op.pid}
  /\ op' = [op EXCEPT !.at = "link"]
  /\ UNCHANGED <<proposals, links, tags, assigned, unsure, cut, graphVars, changes, handled>>

WriteLink ==
  /\ op # NULL /\ op.at = "link"
  /\ links' = links \cup {op.pid}
  /\ Drop("gate")
  /\ Landed
  /\ UNCHANGED <<notes, tags, assigned>>

(* retire_edge_to_cold: scan the neighbourhood, then write it back with    *)
(* the target closed.                                                      *)
RetireScan ==
  /\ op # NULL /\ op.at = "write" /\ kind.type = "forget"
  /\ Retirable(kind.about)
  /\ op' = [op EXCEPT !.at = "retire", !.view = Neighbourhood(GroupOf[kind.about])]
  /\ Scan("gate")
  /\ UNCHANGED <<proposals, engineVars, unsure, cut, failures, arrivals, cursor,
                 changes, handled>>

(* The first open edge of the scan.                                        *)
Target == LET open == OpenEdges(op.view, kind.about)
          IN CHOOSE e \in open : \A x \in open : ~SortsBefore(x, e)

TargetClosed(e) == [Target EXCEPT !.open = FALSE, !.copy = e.copy]

(* Mutant of Retired: the neighbours are not written back.                 *)
RetiredAlone == {TargetClosed(Target)}

(* Every edge of the target's identity becomes the closed target.          *)
Retired == {IF Id(e) = Id(Target) THEN TargetClosed(e) ELSE e : e \in op.view}

RetireReplace ==
  /\ op # NULL /\ op.at = "retire"
  /\ Put("gate", Replaced(GroupOf[kind.about], Retired))
  /\ Landed
  /\ UNCHANGED engineVars

(* write_proposal returned Err: the call ends there, and with it whatever  *)
(* it would have told the inference engine.                                *)
Abort ==
  /\ op' = NULL
  /\ cut' = cut \cup op.landed
  /\ UNCHANGED <<proposals, arrivals, cursor, changes, handled>>

RetireFindsNothing ==
  /\ op # NULL /\ op.at = "write" /\ kind.type = "forget"
  /\ ~Retirable(kind.about)
  /\ Abort
  /\ Drop("gate")
  /\ UNCHANGED <<engineVars, unsure, failures>>

(* A write, or the retire scan, fails; a write may have been committed.    *)
WriteFails ==
  /\ op # NULL /\ op.at # "check" /\ kind.type \notin {"define", "assign"}
  /\ EngineFails
  /\ Abort
  /\ unsure' = unsure \cup {op.pid}
  /\ \/ /\ Drop("gate")
        /\ UNCHANGED engineVars
     \/ /\ kind.type = "edge"
        /\ Put("gate", Upserted({NewEdge(kind.about, "gate", op.pid)}))
        /\ UNCHANGED engineVars
     \/ /\ op.at = "retire"
        /\ Put("gate", Replaced(GroupOf[kind.about], Retired))
        /\ UNCHANGED engineVars
     \/ /\ kind.type = "note"
        /\ notes' = notes \cup {op.pid}
        /\ links' = IF op.at = "link" THEN links \cup {op.pid} ELSE links
        /\ Drop("gate")
        /\ UNCHANGED <<tags, assigned>>

(* What the gate does next of itself, the engines answering.               *)
GateStep ==
  \/ CheckPage \/ CheckPasses \/ CheckRefuses
  \/ WriteEdge \/ WriteTag \/ WriteNote \/ WriteLink
  \/ RetireScan \/ RetireReplace \/ RetireFindsNothing

GateNext ==
  \/ \E a \in Agents : PromoteForAgent(a) \/ \E k \in Kinds : Submit(a, k)
  \/ \E p \in Pids : Approve(p) \/ Reject(p)
  \/ Begin(SweepCap) \/ Begin(MaxProposals)
  \/ GateStep
  \/ CheckFails \/ WriteFails

=============================================================================
