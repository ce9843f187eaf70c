-------------------------- MODULE KnowledgeProofs --------------------------
(***************************************************************************)
(* Proofs about Knowledge, for any facts, rules, proposals and bounds.     *)
(* The inductive invariant says in its parts what a materialization, a     *)
(* rule pass and a retraction still know of the graph when they write:     *)
(* what they scanned, page by page, is in the graph, or somebody has       *)
(* touched it since or moved it out of the listing.                        *)
(***************************************************************************)
EXTENDS KnowledgeSteps

(* Neither mutex holder lists anything between its calls.                  *)
LEMMA CursorIdle ==
  ASSUME CursorOK
  PROVE  /\ op = NULL \/ op.at # "check" \/ kind.type # "edge" => cursor["gate"] = NULL
         /\ inf = NULL \/ inf.at \in {"upsert", "replace"} => cursor["infer"] = NULL
BY DEF CursorOK, Lists, Writers

(* What a writer has seen stays so while others write.                     *)
LEMMA AbsentAges ==
  ASSUME NEW w \in Writers, Aged(w), NEW f, Absent(w, f)
  PROVE  Absent(w, f)'
BY DEF Absent, Aged, Touched

(* The gate's check and scan establish what its write relies on.           *)
LEMMA GateSeenKept ==
  ASSUME GateOK, GraphOK, OpInv, CursorOK, GateSeen, GateNext
  PROVE  GateSeen'
<1>1. "gate" \in Writers /\ {} \in SUBSET Ids /\ {} # NULL
  BY NullAssumption DEF Writers
<1>2. CASE CheckPage
  <2> DEFINE rel == RelOf[kind.about]
             w   == "gate"
  <2>1. /\ op # NULL /\ op.at = "check" /\ kind.type = "edge" /\ rel \in Rels
        /\ \A e \in PageOf(w, rel) : e.fact # kind.about
        /\ op' = op /\ proposals' = proposals
        /\ Scan(w) /\ Turn(w, rel) /\ graph' = graph
    BY <1>2, KindTyped DEF CheckPage, gateVars, Scan
  <2>2. kind' = kind
    BY <2>1 DEF kind
  <2> HIDE DEF rel
  <2>3. Turned(w, rel)
    BY <1>1, <2>1, TurnEffect
  <2>4. fresh'[w] = IF cursor[w] = NULL THEN {} ELSE fresh[w]
    BY <1>1, <2>1 DEF Scan, GraphOK
  <2>5. cursor[w] # NULL => fresh[w] # NULL
    BY <2>1 DEF GateSeen
  <2>6. ASSUME NEW e \in graph, e.fact = kind.about
        PROVE  Id(e) \in fresh'[w] \/ Unread(w, e)'
    <3>1. (cursor[w] # NULL /\ Id(e) \in fresh[w]) \/ Unread(w, e)
      BY <1>1, <2>1, <2>6, UnreadAtFirst DEF GateSeen
    <3>2. e \notin PageOf(w, rel) /\ RelOf[e.fact] = rel
      BY <2>1, <2>6 DEF rel
    <3>3. QED BY <2>3, <2>4, <3>1, <3>2 DEF Turned
  <2>7. fresh'[w] # NULL
    BY <1>1, <2>4, <2>5
  <2>8. QED BY <2>1, <2>2, <2>6, <2>7 DEF GateSeen
<1>3. CASE CheckPasses
  <2>1. op # NULL /\ op' = [op EXCEPT !.at = "write"] /\ Scan("gate")
        /\ graph' = graph /\ proposals' = proposals
        /\ (Valid(kind) \/ (kind.type = "edge" /\ IsEmpty("gate", RelOf[kind.about])))
        /\ op.at = "check"
    BY <1>3 DEF CheckPasses, Scan
  <2>2. op \in Materialization
    BY <2>1, OpTyped
  <2>3. op'.at = "write" /\ op'.pid = op.pid
    BY <2>1, <2>2 DEF Materialization
  <2>4. kind' = kind
    BY <2>1, <2>3 DEF kind
  <2>5. fresh'["gate"] = IF cursor["gate"] = NULL THEN {} ELSE fresh["gate"]
    BY <1>1, <2>1 DEF Scan, GraphOK
  <2>6. ASSUME kind.type = "edge", NEW e \in graph, e.fact = kind.about
        PROVE  cursor["gate"] # NULL /\ Id(e) \in fresh["gate"]
    <3>1. IsEmpty("gate", RelOf[kind.about])
      BY <2>1, <2>6 DEF Valid
    <3>2. ~Unread("gate", e)
      BY <1>1, <2>6, <3>1, NothingLeft
    <3>3. cursor["gate"] # NULL
      BY <1>1, <3>2, UnreadAtFirst
    <3>4. QED BY <2>1, <2>6, <3>2, <3>3 DEF GateSeen
  <2>7. cursor["gate"] # NULL => fresh["gate"] # NULL
    BY <2>1 DEF GateSeen
  <2>8. kind.type = "edge" => Absent("gate", kind.about)'
    BY <1>1, <2>1, <2>4, <2>5, <2>6, <2>7 DEF Absent
  <2>9. QED BY <2>3, <2>4, <2>8 DEF GateSeen
<1>4. CASE RetireScan
  <2> DEFINE group == GroupOf[kind.about]
  <2>1. op # NULL /\ op' = [op EXCEPT !.at = "retire", !.view = Neighbourhood(group)]
        /\ Scan("gate") /\ graph' = graph /\ proposals' = proposals
        /\ OpenEdges(Neighbourhood(group), kind.about) # {}
        /\ op.at = "write"
    BY <1>4 DEF RetireScan, Retirable, Scan
  <2>2. op \in Materialization
    BY <2>1, OpTyped
  <2>3. op'.at = "retire" /\ op'.pid = op.pid /\ op'.view = Neighbourhood(group)
    BY <2>1, <2>2 DEF Materialization
  <2>4. kind' = kind
    BY <2>1, <2>3 DEF kind
  <2>5. fresh'["gate"] # NULL
    <3>1. cursor["gate"] = NULL
      BY <2>1, CursorIdle
    <3>2. QED BY <1>1, <2>1, <3>1 DEF Scan, GraphOK
  <2>6. OpenEdges(op'.view, kind'.about) # {}
    BY <2>1, <2>3, <2>4
  <2>7. IsFiniteSet(op'.view)
    <3>1. op'.view \subseteq graph
      BY <2>3 DEF Neighbourhood, Group
    <3>2. QED BY <3>1, FS_Subset DEF GraphOK
  <2>8. /\ \A e \in op'.view : GroupOf[e.fact] = group /\ e.fact \notin Loops
        /\ \A e \in graph' : GroupOf[e.fact] = group /\ e.fact \notin Loops => e \in op'.view
        /\ op'.view \subseteq graph'
    BY <2>1, <2>3 DEF Neighbourhood, Group
  <2> HIDE DEF group
  <2>9. Scanned(op.view, group)'
    <3>1. group' = group
      BY <2>4 DEF group
    <3>2. QED BY <2>5, <2>7, <2>8, <3>1 DEF Scanned, Neighbourhood, Group
  <2>10. QED BY <2>3, <2>4, <2>6, <2>9 DEF GateSeen, OpenEdges, group
<1>5. CASE op' = NULL
  BY <1>5 DEF GateSeen
<1>6. CASE op' # NULL /\ (op'.at = "link" \/ (op'.at = "check" /\ cursor'["gate"] = NULL))
  BY <1>6 DEF GateSeen
<1>7. CASE Refuses
  <2>1. cursor'["gate"] = NULL
    BY <1>1, <1>7 DEF Refuses, Refuse, Close, GraphOK
  <2>2. QED BY <1>5, <1>6, <1>7, <2>1, RefusedItem DEF Moves
<1>8. CASE Lands
  <2>1. Moves(op.landed \cup {op.pid}) /\ cursor' = cursor /\ op # NULL
    BY <1>8, LandedItem DEF Lands, Landed
  <2>2. cursor["gate"] = NULL
    BY <1>8, CursorIdle DEF Lands
  <2>3. QED BY <1>5, <1>6, <2>1, <2>2 DEF Moves
<1>9. CASE WriteNote
  <2>1. op # NULL /\ op' = [op EXCEPT !.at = "link"]
    BY <1>9 DEF WriteNote
  <2>2. op'.at = "link"
    BY <2>1, OpTyped DEF Materialization
  <2>3. QED BY <1>5, <1>6, <2>2
<1>10. CASE Quits \/ QueueStep
  BY <1>5, <1>10 DEF Quits, Abort, QueueStep
<1>11. CASE \E n \in {SweepCap, MaxProposals} : Begin(n)
  <2>1. op'.at = "check" /\ op = NULL /\ cursor' = cursor
    BY <1>11, BeginItem DEF Begin, graphVars
  <2>2. QED BY <1>5, <1>6, <2>1, CursorIdle
<1>12. CASE CheckRefuses \/ CheckFails
  BY <1>7, <1>12 DEF CheckRefuses, Refuted, CheckFails, Refuses
<1>13. CASE WriteEdge \/ WriteTag \/ WriteLink \/ RetireReplace
  BY <1>8, <1>13, LandSteps
<1>14. CASE RetireFindsNothing \/ WriteFails
  BY <1>10, <1>14, QuitSteps
<1>15. CASE \/ \E a \in Agents : PromoteForAgent(a) \/ \E k \in Kinds : Submit(a, k)
            \/ \E p \in Pids : Approve(p) \/ Reject(p)
  BY <1>10, <1>15, QueueSteps
<1>16. QED BY <1>2, <1>3, <1>4, <1>9, <1>11, <1>12, <1>13, <1>14, <1>15 DEF GateNext, GateStep

(* The gate's check and scans grow old, and no more, while the engine or   *)
(* others write.                                                           *)
LEMMA GateSeenAges ==
  ASSUME GateSeen, CursorOK, Aged("gate"), UNCHANGED <<proposals, op>>
  PROVE  GateSeen'
<1>1. op' = op /\ kind' = kind /\ "gate" \in Writers
  BY DEF kind, Writers
<1>2. ASSUME op # NULL, op.at = "check", cursor'["gate"] # NULL
      PROVE  /\ fresh'["gate"] # NULL
             /\ \A e \in graph' : e.fact = kind.about =>
                  Id(e) \in fresh'["gate"] \/ Unread("gate", e)'
  <2>1. cursor["gate"] # NULL /\ fresh["gate"] # NULL
    BY <1>2 DEF Aged, GateSeen
  <2>2. cursor["gate"].rel = RelOf[kind.about]
    BY <1>1, <2>1 DEF CursorOK, Lists
  <2>3. ASSUME NEW e \in graph', e.fact = kind.about
        PROVE  Id(e) \in fresh'["gate"] \/ Unread("gate", e)'
    <3>1. CASE e \notin graph
      BY <2>1, <3>1 DEF Aged, Touched
    <3>2. CASE e \in graph /\ Id(e) \in fresh["gate"]
      BY <2>1, <3>2 DEF Aged
    <3>3. CASE e \in graph /\ Unread("gate", e)
      BY <2>1, <2>2, <2>3, <3>3 DEF Aged
    <3>4. QED BY <1>2, <2>1, <2>3, <3>1, <3>2, <3>3 DEF GateSeen
  <2>4. QED BY <2>1, <2>3 DEF Aged
<1>3. ASSUME op # NULL, op.at = "write", kind.type = "edge"
      PROVE  Absent("gate", kind.about)'
  <2>1. Absent("gate", kind.about)
    BY <1>3 DEF GateSeen
  <2> DEFINE f == kind.about
  <2>2. f' = f
    BY <1>1
  <2> HIDE DEF f
  <2>3. Absent("gate", f)'
    BY <1>1, <2>1, <2>2, AbsentAges DEF f
  <2>4. QED BY <2>3 DEF f
<1>4. ASSUME op # NULL, op.at = "retire"
      PROVE  Scanned(op.view, GroupOf[kind.about])'
  <2> DEFINE group == GroupOf[kind.about]
             view == op.view
  <2>1. Scanned(view, group)
    BY <1>4 DEF GateSeen
  <2>2. group' = group /\ view' = view
    BY <1>1
  <2> HIDE DEF group, view
  <2>3. Scanned(view, group)'
    BY <2>1, <2>2 DEF Scanned, Neighbourhood, Group, Aged, Touched
  <2>4. QED BY <2>3 DEF group, view
<1>5. op # NULL /\ op.at = "retire" => OpenEdges(op.view, kind.about)' # {}
  BY <1>1 DEF GateSeen, OpenEdges
<1>6. QED BY <1>1, <1>2, <1>3, <1>4, <1>5 DEF GateSeen

(* What a retraction has in hand.                                          *)
LEMMA GoalTyped ==
  ASSUME inf \in {NULL} \cup Run \cup Retracting, Retracts, InferSeen
  PROVE  /\ inf \in Retracting /\ Goal \in Facts /\ Goal \in inf.left
         /\ inf.at \in {"scan", "replace"} /\ GoalSeen
         /\ inf.view \in SUBSET Edge
         /\ \A f \in Facts : GroupOf[f] = GroupOf[Goal] => RelOf[f] = RelOf[Goal]
<1>1. inf \in Retracting /\ inf.mode = "retract"
  BY DEF Retracts, Run
<1>2. GoalSeen
  BY <1>1 DEF InferSeen, Retracts
<1>3. Goal \in inf.left /\ inf.left \subseteq Facts
  BY <1>1, <1>2, GoalIsLeft DEF Retracting, GoalSeen
<1>4. QED BY <1>1, <1>2, <1>3, GraphAssumption DEF Retracting

(* What a run has in hand.                                                 *)
LEMMA RunTyped ==
  ASSUME inf \in {NULL} \cup Run \cup Retracting, inf # NULL, ~Retracts, InferSeen
  PROVE  inf \in Run /\ PassSeen
BY DEF Retracts, Run, Retracting, InferSeen

(* The engine's scans grow old likewise.                                   *)
LEMMA InferSeenAges ==
  ASSUME inf \in {NULL} \cup Run \cup Retracting, GraphOK, GraphOK', InferSeen, CursorOK,
         Aged("infer"), UNCHANGED inferVars
  PROVE  InferSeen'
<1>1. inf' = inf /\ "infer" \in Writers /\ Goal' = Goal /\ cursor'["infer"] = cursor["infer"]
  BY DEF inferVars, Writers, Goal, Aged
<1>2. CASE inf = NULL
  BY <1>1, <1>2 DEF InferSeen
<1>3. CASE inf # NULL /\ ~Retracts
  <2>1. inf \in Run /\ PassSeen
    BY <1>3, RunTyped
  <2>2. ASSUME inf.at = "existing", cursor["infer"] # NULL
        PROVE  /\ fresh'["infer"] # NULL
               /\ \A e \in graph' : (\E g \in inf.found : g.fact = e.fact) =>
                    e.fact \in inf.seen \/ Id(e) \in fresh'["infer"] \/ Unread("infer", e)'
    <3>1. fresh["infer"] # NULL /\ cursor["infer"].rel = ThenOf[inf.rule]
      BY <1>1, <2>1, <2>2 DEF PassSeen, CursorOK, Lists, Run
    <3>2. ASSUME NEW e \in graph', NEW g \in inf.found, g.fact = e.fact, e.fact \notin inf.seen
          PROVE  Id(e) \in fresh'["infer"] \/ Unread("infer", e)'
      <4>1. RelOf[e.fact] = cursor["infer"].rel
        BY <2>1, <3>1, <3>2, InferAssumption DEF PassSeen, Run
      <4>2. CASE e \notin graph
        BY <3>1, <4>2 DEF Aged, Touched
      <4>3. CASE e \in graph /\ Id(e) \in fresh["infer"]
        BY <3>1, <4>3 DEF Aged
      <4>4. CASE e \in graph /\ Unread("infer", e)
        BY <2>2, <3>1, <4>1, <4>4 DEF Aged
      <4>5. QED BY <2>1, <2>2, <3>2, <4>2, <4>3, <4>4 DEF PassSeen
    <3>3. fresh'["infer"] # NULL
      BY <3>1 DEF Aged
    <3>4. QED BY <3>2, <3>3
  <2>3. inf.at = "upsert" => \A g \in inf.found : Absent("infer", g.fact)'
    <3> SUFFICES ASSUME inf.at = "upsert", NEW g \in inf.found
                 PROVE  Absent("infer", g.fact)'
      OBVIOUS
    <3>1. Absent("infer", g.fact)
      BY <2>1 DEF PassSeen
    <3>2. QED BY <1>1, <3>1, AbsentAges
  <2>4. PassSeen'
    BY <1>1, <2>1, <2>2, <2>3 DEF PassSeen
  <2>5. QED BY <1>1, <2>1, <2>4 DEF InferSeen, Run
<1>4. CASE Retracts
  <2>1. /\ inf \in Retracting /\ GoalSeen
        /\ \A f \in Facts : GroupOf[f] = GroupOf[Goal] => RelOf[f] = RelOf[Goal]
    BY <1>4, GoalTyped
  <2>2. inf.at \in {"scan", "replace"}
    BY <2>1 DEF Retracting
  <2>3. ASSUME NEW e \in graph', GroupOf[e.fact] = GroupOf[Goal]
        PROVE  \/ Shows(inf.view, e) \/ IsGoals(e)
               \/ fresh'["infer"] # NULL /\ Id(e) \in fresh'["infer"]
               \/ inf.at = "scan" /\ Unread("infer", e)'
    <3>1. CASE inf.at = "scan" /\ cursor["infer"] = NULL
      <4>1. Place(graph', e) \in Nat
        BY <2>3, Places DEF GraphOK
      <4>2. QED BY <1>1, <3>1, <4>1 DEF Unread, Offset
    <3>2. CASE inf.at = "replace" \/ cursor["infer"] # NULL
      <4>1. fresh["infer"] # NULL /\ fresh'["infer"] # NULL
        BY <2>1, <3>2 DEF GoalSeen, Aged
      <4>2. CASE e \notin graph
        BY <4>1, <4>2 DEF Aged, Touched
      <4>3. CASE e \in graph /\ inf.at = "scan" /\ Unread("infer", e)
        <5>1. cursor["infer"] # NULL
          BY <3>2, <4>3
        <5>2. cursor["infer"].rel = RelOf[Goal]
          BY <1>1, <4>3, <5>1 DEF CursorOK, Lists
        <5>3. RelOf[e.fact] = RelOf[Goal]
          BY <2>1, <2>3, <4>3 DEF GraphOK, Edge
        <5>4. QED BY <4>1, <4>3, <5>1, <5>2, <5>3 DEF Aged
      <4>4. CASE e \in graph /\ Known("infer", e)
        BY <4>1, <4>4 DEF Aged, Known
      <4>5. QED BY <2>1, <2>3, <4>2, <4>3, <4>4 DEF GoalSeen, Group
    <3>3. QED BY <2>2, <3>1, <3>2
  <2>4. inf.at = "replace" \/ cursor'["infer"] # NULL => fresh'["infer"] # NULL
    BY <1>1, <2>1 DEF GoalSeen, Aged
  <2>5. GoalSeen'
    BY <1>1, <2>1, <2>3, <2>4 DEF GoalSeen, Group, IsGoals, Known
  <2>6. QED BY <1>1, <1>4, <2>5 DEF InferSeen, Retracts
<1>5. QED BY <1>2, <1>3, <1>4

(* Only the scan of a retirement takes the gate to its write-back.         *)
LEMMA OnlyScanRetires ==
  ASSUME GateOK, OpInv, GraphOK, GateNext, op' # NULL, op'.at = "retire"
  PROVE  op'.view \subseteq graph
<1>1. CASE RetireScan
  <2>1. op # NULL /\ op' = [op EXCEPT !.at = "retire", !.view = Neighbourhood(GroupOf[kind.about])]
    BY <1>1 DEF RetireScan
  <2>2. op'.view = Neighbourhood(GroupOf[kind.about])
    BY <2>1, OpTyped DEF Materialization
  <2>3. QED BY <2>2 DEF Neighbourhood, Group
<1>2. CASE CheckPasses \/ WriteNote
  <2>1. op # NULL /\ (op' = [op EXCEPT !.at = "write"] \/ op' = [op EXCEPT !.at = "link"])
    BY <1>2 DEF CheckPasses, WriteNote
  <2>2. QED BY <2>1, OpTyped DEF Materialization
<1>3. CASE Refuses \/ Lands
  BY <1>3, RefusedItem, LandedItem DEF Moves
<1>4. CASE Quits \/ QueueStep
  BY <1>4 DEF Quits, Abort, QueueStep
<1>5. CASE \E n \in {SweepCap, MaxProposals} : Begin(n)
  BY <1>5, BeginItem
<1>6. CASE CheckRefuses \/ CheckFails
  BY <1>3, <1>6 DEF CheckRefuses, Refuted, CheckFails, Refuses
<1>7. CASE WriteEdge \/ WriteTag \/ WriteLink \/ RetireReplace
  BY <1>3, <1>7, LandSteps
<1>8. CASE RetireFindsNothing \/ WriteFails
  BY <1>4, <1>8, QuitSteps
<1>9. CASE \/ \E a \in Agents : PromoteForAgent(a) \/ \E k \in Kinds : Submit(a, k)
           \/ \E p \in Pids : Approve(p) \/ Reject(p)
  BY <1>4, <1>9, QueueSteps
<1>10. CASE CheckPage
  BY <1>10 DEF CheckPage, gateVars
<1>11. QED BY <1>1, <1>2, <1>5, <1>6, <1>7, <1>8, <1>9, <1>10 DEF GateNext, GateStep
-----------------------------------------------------------------------------
(* Engine calls that failed are counted.                                   *)
LEMMA FailuresGrow ==
  ASSUME failures \in 0 .. MaxFailures, GateOK, OpInv, GateNext
  PROVE  failures' \in 0 .. MaxFailures /\ (failures' = failures \/ failures' # 0)
<1>1. UNCHANGED failures \/ EngineFails
  BY DEF GateNext, GateStep, PromoteForAgent, Submit, Approve, Reject, Begin, CheckPage,
         CheckPasses, CheckRefuses, CheckFails, WriteEdge, WriteTag, WriteNote, WriteLink,
         RetireScan, RetireReplace, RetireFindsNothing, WriteFails, Landed, graphVars
<1>2. QED BY <1>1, GraphAssumption DEF EngineFails

(* What a step of the gate undid is in undone.                             *)
LEMMA UndoneGrows ==
  ASSUME GraphOK, undone' = undone \cup Undoing
  PROVE  /\ undone \subseteq undone'
         /\ op # NULL /\ op.at = "retire" =>
              /\ \A e \in Touched : Id(e) \in fresh["gate"] => Id(e) \in undone'
              /\ \A e \in graph \ graph' : e.fact \in Loops => Id(e) \in undone'
<1>1. \A e \in graph : e.fact \in Loops => Id(e) \in Loops \X BOOLEAN
  BY DEF GraphOK, Edge, Id
<1>2. QED BY <1>1 DEF Undoing, Touched

(* An edge keeps its place, closed or overwritten, or its loss is          *)
(* recorded.                                                               *)
LEMMA GateKeepsPlaces ==
  ASSUME GateOK, GraphOK, OpInv, GateSeen, GateNext, undone' = undone \cup Undoing,
         NEW e \in graph
  PROVE  \/ \E y \in graph' : Id(y) = Id(e) /\ y.copy = e.copy
         \/ Id(e) \in undone'
<1>1. CASE e \in graph'
  BY <1>1
<1>2. CASE Kept("gate")
  BY <1>1, <1>2 DEF Kept
<1>3. CASE WritesEdge /\ e \notin graph'
  <2> DEFINE new == NewEdge(kind.about, "gate", op.pid)
  <2>1. graph' = Upserted({new})
    BY <1>3 DEF WritesEdge, Put
  <2>2. e.copy = 0 /\ Id(new) = Id(e) /\ new \in graph' /\ new.copy = 0
    BY <1>3, <2>1 DEF Upserted, NewEdge
  <2>3. QED BY <2>2
<1>4. CASE WritesBack /\ e \notin graph'
  <2>1. /\ op # NULL /\ op.at = "retire" /\ graph' = Replaced(GroupOf[kind.about], Retired)
        /\ \A x \in op.view : \E y \in Retired : Becomes(x, y)
        /\ Scanned(op.view, GroupOf[kind.about])
    BY <1>4, BackWritten
  <2>2. e \in Group(GroupOf[kind.about]) /\ Retired \subseteq graph' /\ e \in Touched
    BY <1>4, <2>1 DEF Replaced, Touched
  <2>3. CASE e \in op.view
    BY <2>1, <2>2, <2>3 DEF Becomes
  <2>4. CASE e.fact \in Loops
    BY <1>4, <2>1, <2>4, UndoneGrows
  <2>5. CASE e \notin op.view /\ e.fact \notin Loops
    <3>1. Id(e) \in fresh["gate"]
      BY <2>1, <2>2, <2>5 DEF Scanned, Neighbourhood
    <3>2. QED BY <2>1, <2>2, <3>1, UndoneGrows
  <2>6. QED BY <2>3, <2>4, <2>5
<1>5. QED BY <1>1, <1>2, <1>3, <1>4, GateGraphSteps

(* What a retraction had ahead is ahead still, or has slipped out.         *)
LEMMA AheadAges ==
  ASSUME GraphOK, GraphOK', CursorOK, Aged("infer"), Retracts, inf.at = "scan",
         inf \in Retracting, Goal \in Facts,
         NEW x \in graph, Unread("infer", x), RelOf[x.fact] = RelOf[Goal],
         NEW y \in graph', Id(y) = Id(x), y.copy = x.copy
  PROVE  Unread("infer", y)' \/ Id(y) \in missed'
<1>1. "infer" \in Writers /\ cursor'["infer"] = cursor["infer"]
  BY DEF Writers, Aged
<1>2. CASE cursor["infer"] = NULL
  <2>1. Place(graph', y) \in Nat
    BY Places DEF GraphOK
  <2>2. QED BY <1>1, <1>2, <2>1 DEF Unread, Offset
<1>3. CASE cursor["infer"] # NULL
  <2>1. cursor["infer"].rel = RelOf[Goal]
    BY <1>1, <1>3 DEF CursorOK, Lists, Retracting
  <2>2. QED BY <1>3, <2>1 DEF Aged
<1>4. QED BY <1>2, <1>3

(* Excuses are not taken back.                                             *)
LEMMA ExcusedStays ==
  ASSUME undone \subseteq undone', missed \subseteq missed', NEW e, NEW x, Id(x) = Id(e), Excused(e)
  PROVE  Excused(x)'
BY DEF Excused, Id

(* A retraction that has not come by a rule edge of its goal still has     *)
(* them ahead after a step of the gate.                                    *)
LEMMA AheadGate ==
  ASSUME GateOK, GraphOK, GraphOK', OpInv, GateSeen, EdgeInv, CursorOK, GateNext,
         Aged("infer"), missed \subseteq missed', undone' = undone \cup Undoing,
         UNCHANGED inferVars, Retracts, inf \in Retracting, Goal \in Facts,
         inf.at = "scan", ~inf.removed,
         NEW e \in graph', e.fact = Goal, e.by = "rule"
  PROVE  Excused(e)' \/ Ahead(e)'
<1>1. /\ undone \subseteq undone' /\ Goal' = Goal
      /\ \A x \in RuleEdges(graph, Goal) : Excused(x) \/ Ahead(x)
  BY UndoneGrows DEF inferVars, Goal, EdgeInv
<1>2. \A x \in graph' : x.fact = Goal /\ x.by = "rule" <=> x \in RuleEdges(graph', Goal)
  BY DEF RuleEdges
(* An edge that was ahead and is there, or its successor.                  *)
<1>3. ASSUME NEW x \in graph, x.fact = Goal, Unread("infer", x),
             NEW y \in graph', Id(y) = Id(x), y.copy = x.copy, y.by = "rule", y.copy >= e.copy,
             Id(y) = Id(e)
      PROVE  Excused(e)' \/ Ahead(e)'
  <2>1. Unread("infer", y)' \/ Id(y) \in missed'
    BY <1>3, AheadAges
  <2>2. y.fact = Goal
    BY <1>3 DEF Id
  <2>3. CASE Id(y) \in missed'
    BY <1>3, <2>3 DEF Excused, Id
  <2>4. CASE Unread("infer", y)'
    BY <1>1, <1>2, <1>3, <2>2, <2>4 DEF Ahead, RuleEdges
  <2>5. QED BY <2>1, <2>3, <2>4
<1>4. CASE Kept("gate")
  <2>1. e \in RuleEdges(graph, Goal) /\ graph' = graph
    BY <1>4 DEF Kept, RuleEdges
  <2>2. CASE Excused(e)
    BY <1>1, <2>2, ExcusedStays
  <2>3. CASE Ahead(e)
    <3>1. PICK x \in RuleEdges(graph, Goal) :
            Id(x) = Id(e) /\ x.copy >= e.copy /\ Unread("infer", x)
      BY <2>3 DEF Ahead
    <3>2. QED BY <1>3, <2>1, <3>1 DEF RuleEdges
  <2>4. QED BY <1>1, <2>1, <2>2, <2>3
<1>5. CASE WritesEdge
  <2> DEFINE new == NewEdge(kind.about, "gate", op.pid)
  <2>1. graph' = Upserted({new}) /\ new.by = "gate"
    BY <1>5 DEF WritesEdge, Put, NewEdge
  <2> HIDE DEF new
  <2>2. e \in graph /\ (e.copy = 0 => Id(new) # Id(e))
    BY <2>1 DEF Upserted
  <2>3. CASE Excused(e)
    BY <1>1, <2>3, ExcusedStays
  <2>4. CASE Ahead(e)
    <3>1. PICK x \in RuleEdges(graph, Goal) :
            Id(x) = Id(e) /\ x.copy >= e.copy /\ Unread("infer", x)
      BY <2>4 DEF Ahead
    <3>2. x \in graph /\ x.fact = Goal /\ x.by = "rule"
      BY <3>1 DEF RuleEdges
    <3>3. x.copy \in Nat /\ e.copy \in Nat
      BY <2>2, <3>2 DEF GraphOK, Edge
    <3>4. x \in graph'
      <4>1. x.copy = 0 => e.copy = 0
        BY <3>1, <3>3
      <4>2. QED BY <2>1, <2>2, <3>1, <3>2, <4>1 DEF Upserted
    <3>5. QED BY <1>3, <3>1, <3>2, <3>4
  <2>5. e \in RuleEdges(graph, Goal)
    BY <2>2 DEF RuleEdges
  <2>6. QED BY <1>1, <2>3, <2>4, <2>5
<1>6. CASE WritesBack
  <2> DEFINE group == GroupOf[kind.about]
  <2>1. /\ op # NULL /\ op.at = "retire" /\ op.view \subseteq Edge
        /\ Scanned(op.view, group) /\ Target \in op.view
        /\ \A x \in Retired : \E z \in op.view : Becomes(z, x)
        /\ \A z \in op.view : \E x \in Retired : Becomes(z, x)
        /\ graph' = Replaced(group, Retired)
    BY <1>6, BackWritten
  <2> HIDE DEF group
  <2>2. ASSUME e \in graph, Excused(e) \/ (Ahead(e) /\ (group # GroupOf[Goal] \/ Id(e) \in fresh["gate"]))
        PROVE  Excused(e)' \/ Ahead(e)'
    <3>1. CASE Excused(e)
      BY <1>1, <3>1, ExcusedStays
    <3>2. CASE Ahead(e) /\ (group # GroupOf[Goal] \/ Id(e) \in fresh["gate"])
      <4>1. PICK x \in RuleEdges(graph, Goal) :
              Id(x) = Id(e) /\ x.copy >= e.copy /\ Unread("infer", x)
        BY <3>2 DEF Ahead
      <4>2. x \in graph /\ x.fact = Goal /\ x.by = "rule"
        BY <4>1 DEF RuleEdges
      <4>3. CASE x \in graph'
        BY <1>3, <4>1, <4>2, <4>3
      <4>4. CASE x \notin graph'
        <5>1. GroupOf[Goal] = group
          BY <2>1, <4>2, <4>4 DEF Replaced, Group
        <5>2. Id(x) \in fresh["gate"] /\ x \in Touched
          BY <3>2, <4>1, <4>2, <4>4, <5>1 DEF Touched
        <5>3. Id(x) \in undone'
          BY <2>1, <5>2, UndoneGrows
        <5>4. QED BY <4>1, <5>3 DEF Excused, Id
      <4>5. QED BY <4>3, <4>4
    <3>3. QED BY <2>2, <3>1, <3>2
  <2>3. e \in graph => Excused(e) \/ Ahead(e)
    BY <1>1 DEF RuleEdges
  <2>4. CASE e \notin Retired
    <3>1. e \in graph /\ GroupOf[e.fact] # group
      BY <2>1, <2>4 DEF Replaced, Group
    <3>2. QED BY <2>2, <2>3, <3>1
  <2>5. CASE Id(e) \in fresh["gate"] /\ e \in graph
    BY <2>2, <2>3, <2>5
  <2>6. CASE Id(e) \in fresh["gate"] /\ e \notin graph
    <3>1. Id(e) \in undone'
      BY <2>1, <2>6, UndoneGrows DEF Touched
    <3>2. QED BY <3>1 DEF Excused, Id
  <2>7. CASE e \in Retired /\ Id(e) \notin fresh["gate"]
    <3>1. PICK z \in op.view : Becomes(z, e)
      BY <2>1, <2>7
    <3>2. Id(z) = Id(e) /\ z.copy = e.copy /\ z \in graph /\ z.fact = Goal
      <4>1. Id(z) = Id(e) /\ z.copy = e.copy
        BY <3>1 DEF Becomes
      <4>2. QED BY <2>1, <2>7, <4>1 DEF Scanned, Id
    <3>3. PICK r \in RuleEdges(graph, Goal) :
            /\ Id(r) = Id(e)
            /\ Id(e) # Id(Target) => r = e
      <4>1. CASE Id(z) # Id(Target)
        BY <3>1, <3>2, <4>1 DEF Becomes, RuleEdges
      <4>2. CASE Id(z) = Id(Target)
        <5>1. Target.by = "rule" /\ Id(Target) = Id(e)
          BY <3>1, <3>2, <4>2 DEF Becomes
        <5>2. Target \in graph /\ Target.fact = Goal
          BY <2>1, <2>7, <5>1 DEF Scanned, Id
        <5>3. QED BY <5>1, <5>2 DEF RuleEdges
      <4>3. QED BY <4>1, <4>2
    <3>4. CASE Excused(r)
      BY <1>1, <3>3, <3>4, ExcusedStays
    <3>5. CASE Ahead(r)
      <4>1. PICK x \in RuleEdges(graph, Goal) :
              Id(x) = Id(r) /\ x.copy >= r.copy /\ Unread("infer", x)
        BY <3>5 DEF Ahead
      <4>2. x \in graph /\ x.fact = Goal /\ x.by = "rule" /\ Id(x) = Id(e)
        BY <3>3, <4>1 DEF RuleEdges
      <4>3. x \in op.view
        <5>1. GroupOf[Goal] = group /\ Goal \notin Loops
          BY <2>1, <3>2 DEF Scanned
        <5>2. x \in Neighbourhood(group)
          BY <4>2, <5>1 DEF Neighbourhood, Group
        <5>3. QED BY <2>1, <2>7, <4>2, <5>2 DEF Scanned
      <4>4. PICK y \in Retired : Becomes(x, y)
        BY <2>1, <4>3
      <4>5. y \in graph' /\ Id(y) = Id(x) /\ y.copy = x.copy
        BY <2>1, <4>4 DEF Replaced, Becomes
      <4>6. y.by = "rule"
        <5>1. CASE Id(x) # Id(Target)
          BY <4>2, <4>4, <5>1 DEF Becomes
        <5>2. CASE Id(x) = Id(Target)
          <6>1. y.by = Target.by
            BY <4>4, <5>2 DEF Becomes
          <6>2. e.by = Target.by
            BY <3>1, <3>2, <4>2, <5>2 DEF Becomes
          <6>3. QED BY <6>1, <6>2
        <5>3. QED BY <5>1, <5>2
      <4>7. x.copy \in Nat /\ z.copy \in Nat /\ e.copy = z.copy
        BY <3>2, <4>2 DEF GraphOK, Edge
      <4>8. CASE x.copy >= e.copy
        BY <1>3, <4>1, <4>2, <4>5, <4>6, <4>8
      <4>9. CASE x.copy < z.copy
        <5>1. SortsBefore(x, z)
          BY <3>2, <4>2, <4>9 DEF SortsBefore
        <5>2. Unread("infer", z)
          BY <3>2, <4>1, <4>2, <5>1, UnreadBehind DEF Writers
        <5>3. e.copy >= e.copy
          BY <4>7
        <5>4. QED BY <1>3, <3>2, <5>2, <5>3
      <4>10. QED BY <4>7, <4>8, <4>9
    <3>6. QED BY <1>1, <3>4, <3>5
  <2>8. QED BY <2>4, <2>5, <2>6, <2>7
<1>7. QED BY <1>4, <1>5, <1>6, GateGraphSteps

(* The gate's steps keep EdgeInv: a rule edge that comes back is recorded  *)
(* in undone, or was in the graph.                                         *)
LEMMA EdgeInvGate ==
  ASSUME GateOK, GraphOK, GraphOK', OpInv, GateSeen, InferSeen, EdgeInv, CursorOK, GateNext,
         Aged("infer"), missed \subseteq missed', undone' = undone \cup Undoing,
         inf \in {NULL} \cup Run \cup Retracting, UNCHANGED inferVars
  PROVE  EdgeInv'
<1>1. inf' = inf /\ index' = index /\ Goal' = Goal /\ (Retracts' <=> Retracts)
  BY DEF inferVars, Goal, Retracts
<1>2. undone \subseteq undone'
  BY UndoneGrows
<1>3. \A e : Excused(e) => Excused(e)'
  BY <1>2 DEF Excused, Id
<1>4. ASSUME NEW e \in graph', e.by = "rule" PROVE Excused(e)' \/ index[e.fact] # NULL
  <2>1. CASE e \in graph
    BY <1>3, <1>4, <2>1 DEF EdgeInv
  <2>2. CASE e = NewEdge(kind.about, "gate", op.pid)
    BY <1>4, <2>2 DEF NewEdge
  <2>3. CASE e \notin graph /\ WritesBack /\ \E x \in op.view : Becomes(x, e)
    <3>1. op # NULL /\ op.at = "retire" /\ Target \in op.view
      BY <2>3, BackWritten
    <3>2. PICK x \in op.view : Id(x) = Id(e) /\ x.by = "rule" /\ x.fact = e.fact
      <4>1. PICK z \in op.view : Becomes(z, e)
        BY <2>3
      <4>2. CASE Id(z) = Id(Target)
        BY <1>4, <3>1, <4>1, <4>2 DEF Becomes, Id
      <4>3. CASE Id(z) # Id(Target)
        BY <1>4, <4>1, <4>3 DEF Becomes
      <4>4. QED BY <4>2, <4>3
    <3>3. Excused(x) \/ index[x.fact] # NULL \/ Id(x) \in fresh["gate"]
      BY <3>1, <3>2 DEF EdgeInv
    <3>4. CASE Excused(x)
      BY <1>3, <3>2, <3>4 DEF Excused, Id
    <3>5. CASE Id(x) \in fresh["gate"]
      <4>1. Id(e) \in undone'
        BY <2>3, <3>1, <3>2, <3>5, UndoneGrows DEF Touched
      <4>2. QED BY <4>1 DEF Excused, Id
    <3>6. QED BY <3>2, <3>3, <3>4, <3>5
  <2>4. QED BY <2>1, <2>2, <2>3, GateEdges
<1>5. ASSUME op' # NULL, op'.at = "retire", NEW e \in op'.view, e.by = "rule"
      PROVE  Excused(e)' \/ index[e.fact] # NULL
  <2>1. e \in graph
    BY <1>5, OnlyScanRetires
  <2>2. QED BY <1>3, <1>5, <2>1 DEF EdgeInv
<1>6. ASSUME Retracts, NEW e \in inf.view, e.by = "rule"
      PROVE  Excused(e)' \/ index[e.fact] # NULL
  BY <1>3, <1>6 DEF EdgeInv
<1>7. ASSUME Retracts, inf.at = "scan", ~inf.removed, NEW e \in graph', e.fact = Goal, e.by = "rule"
      PROVE  Excused(e)' \/ Ahead(e)'
  <2>1. inf \in Retracting /\ Goal \in Facts
    BY <1>7, GoalTyped
  <2>2. QED BY <1>7, <2>1, AheadGate
<1>8. inf # NULL /\ inf.mode = "run" /\ inf.at = "upsert" => \A g \in inf.found : index[g.fact] # NULL
  BY DEF EdgeInv
<1>9. QED BY <1>1, <1>4, <1>5, <1>6, <1>7, <1>8 DEF EdgeInv, RuleEdges

(* A fact is known while the gate works: its edge stays, or the loss of it *)
(* is recorded.                                                            *)
LEMMA IdsOf ==
  ASSUME NEW e \in Edge
  PROVE  Id(e) = <<e.fact, TRUE>> \/ Id(e) = <<e.fact, FALSE>>
BY DEF Edge, Id

LEMMA AssertedStays ==
  ASSUME GateOK, GraphOK, OpInv, GateSeen, GateNext, undone' = undone \cup Undoing,
         NEW s, Asserted(s)
  PROVE  Asserted(s)' \/ Disturbed(s)'
<1>1. PICK e \in graph : e.fact = s
  BY DEF Asserted
<1>2. CASE \E y \in graph' : Id(y) = Id(e) /\ y.copy = e.copy
  BY <1>1, <1>2 DEF Asserted, Id
<1>3. CASE Id(e) \in undone'
  BY <1>1, <1>3, IdsOf DEF Disturbed, GraphOK
<1>4. QED BY <1>2, <1>3, GateKeepsPlaces

(* What a retraction is to spare it keeps in sight.                        *)
LEMMA SparedStays ==
  ASSUME GateOK, GraphOK, GraphOK', OpInv, GateSeen, CursorOK, GateNext,
         Aged("infer"), undone' = undone \cup Undoing,
         UNCHANGED inferVars, Retracts, inf \in Retracting, Goal \in Facts,
         \A f \in Facts : GroupOf[f] = GroupOf[Goal] => RelOf[f] = RelOf[Goal],
         NEW s, Spared(s)
  PROVE  Spared(s)' \/ Disturbed(s)'
<1>1. inf' = inf /\ Goal' = Goal
  BY DEF inferVars, Goal
<1>2. Asserted(s)' \/ Disturbed(s)'
  BY AssertedStays DEF Spared
<1>3. CASE GroupOf[s] # GroupOf[Goal] \/ \E x \in inf.view : x.fact = s
  BY <1>1, <1>2, <1>3 DEF Spared
<1>4. ASSUME GroupOf[s] = GroupOf[Goal], inf.at = "scan",
             NEW e \in graph, e.fact = s, Unread("infer", e)
      PROVE  Spared(s)' \/ Disturbed(s)'
  <2>1. e \in Edge /\ RelOf[e.fact] = RelOf[Goal]
    BY <1>4 DEF GraphOK, Edge
  <2>2. CASE Id(e) \in undone'
    BY <1>4, <2>1, <2>2, IdsOf DEF Disturbed
  <2>3. ASSUME NEW y \in graph', Id(y) = Id(e), y.copy = e.copy
        PROVE  Spared(s)' \/ Disturbed(s)'
    <3>1. Unread("infer", y)' \/ Id(e) \in missed'
      BY <1>4, <2>1, <2>3, AheadAges
    <3>2. CASE Id(e) \in missed'
      BY <1>4, <2>1, <3>2, IdsOf DEF Disturbed
    <3>3. y.fact = s
      BY <1>4, <2>3 DEF Id
    <3>4. CASE Unread("infer", y)'
      BY <1>1, <1>2, <1>4, <2>3, <3>3, <3>4 DEF Spared
    <3>5. QED BY <3>1, <3>2, <3>4
  <2>4. QED BY <2>2, <2>3, GateKeepsPlaces
<1>5. QED BY <1>3, <1>4 DEF Spared

(* The gate's steps keep SupportInv: it never takes a known fact away      *)
(* without a record in undone.                                             *)
LEMMA SupportInvGate ==
  ASSUME GateOK, GraphOK, GraphOK', OpInv, GateSeen, InferSeen, SupportInv, CursorOK, GateNext,
         failures \in 0 .. MaxFailures, Aged("infer"), missed \subseteq missed',
         undone' = undone \cup Undoing,
         inf \in {NULL} \cup Run \cup Retracting, UNCHANGED inferVars
  PROVE  SupportInv'
<1>1. inf' = inf /\ index' = index /\ (Retracts' <=> Retracts) /\ Goal' = Goal
  BY DEF inferVars, Retracts, Goal
<1>2. \A s : Asserted(s) => Asserted(s)' \/ Disturbed(s)'
  BY AssertedStays
<1>3. \A s : Disturbed(s) => Disturbed(s)'
  BY UndoneGrows DEF Disturbed
<1>4. failures' = 0 => failures = 0
  BY FailuresGrow
<1> SUFFICES ASSUME failures' = 0, failures = 0
             PROVE  SupportInv'
  BY <1>4 DEF SupportInv
<1>5. ASSUME ~Retracts, NEW d \in Facts, index[d] # NULL, NEW s \in index[d]
      PROVE  Asserted(s)' \/ index[s] # NULL \/ Disturbed(s)'
  BY <1>2, <1>3, <1>5 DEF SupportInv
<1>6. ASSUME inf # NULL, inf.mode = "run", inf.at = "existing",
             NEW g \in inf.found, NEW s \in g.support
      PROVE  Asserted(s)' \/ Disturbed(s)'
  BY <1>2, <1>3, <1>6 DEF SupportInv
<1>7. ASSUME inf # NULL, inf.mode = "run", inf.at = "match", NEW s \in inf.seen
      PROVE  Asserted(s)' \/ Disturbed(s)'
  BY <1>2, <1>3, <1>7 DEF SupportInv
<1>8. ASSUME Retracts, NEW d \in Facts \ inf.left, index[d] # NULL, NEW s \in index[d]
      PROVE  s \notin inf.left /\ (index[s] # NULL \/ Disturbed(s)' \/ Spared(s)')
  <2>1. s \notin inf.left /\ (index[s] # NULL \/ Disturbed(s) \/ Spared(s))
    BY <1>8 DEF SupportInv
  <2>2. Spared(s) => Spared(s)' \/ Disturbed(s)'
    BY <1>8, GoalTyped, SparedStays
  <2>3. QED BY <1>3, <2>1, <2>2
<1>9. QED BY <1>1, <1>5, <1>6, <1>7, <1>8 DEF SupportInv

(* What accounts for a loss.                                               *)
Accounted(e) ==
  StillThere(e) \/ RetractedNow(e) \/ Raced(e) \/ Overwritten(e) \/ RetiredWith(e)

(* What the gate's write removes, or gives another author, somebody has    *)
(* touched since the gate's scan, or its scan does not show.               *)
LEMMA GateLosesToRaces ==
  ASSUME GateOK, GraphOK, OpInv, GateSeen, GateNext, NEW e \in graph
  PROVE  Accounted(e)
<1>1. "gate" \in Writers
  BY DEF Writers
<1>2. CASE e \in graph'
  BY <1>2 DEF Accounted, StillThere
<1>3. ASSUME NEW g, Put("gate", g) PROVE graph' = g /\ fresh'["gate"] = NULL
  BY <1>1, <1>3 DEF Put
<1>4. CASE WritesEdge /\ e \notin graph'
  <2>1. graph' = Upserted({NewEdge(kind.about, "gate", op.pid)}) /\ fresh'["gate"] = NULL
    BY <1>3, <1>4 DEF WritesEdge
  <2>2. Id(e) = Id(NewEdge(kind.about, "gate", op.pid))
    BY <1>4, <2>1 DEF Upserted
  <2>3. e.fact = kind.about
    BY <2>2 DEF Id, NewEdge
  <2>4. Absent("gate", kind.about)
    BY <1>4 DEF WritesEdge, GateSeen
  <2>5. QED BY <1>1, <2>1, <2>3, <2>4 DEF Absent, Accounted, Raced
<1>5. CASE WritesBack /\ e \notin graph'
  <2>1. /\ op # NULL /\ op.at = "retire" /\ op' # op
        /\ graph' = Replaced(GroupOf[kind.about], Retired) /\ fresh'["gate"] = NULL
    BY <1>3, <1>5 DEF WritesBack
  <2>2. /\ Scanned(op.view, GroupOf[kind.about])
        /\ \A x \in op.view : \E y \in Retired : Becomes(x, y)
    BY <1>5, BackWritten
  <2>3. e \in Group(GroupOf[kind.about]) /\ Retired \subseteq graph'
    BY <1>5, <2>1 DEF Replaced
  <2>4. CASE e \in op.view
    <3>1. PICK y \in Retired : Becomes(e, y)
      BY <2>2, <2>4
    <3>2. CASE Id(e) = Id(Target)
      BY <2>1, <2>3, <3>1, <3>2 DEF Accounted, RetiredWith, Becomes, Group
    <3>3. CASE Id(e) # Id(Target)
      BY <1>5, <2>3, <3>1, <3>3 DEF Becomes
    <3>4. QED BY <3>2, <3>3
  <2>5. CASE e.fact \in Loops
    BY <2>1, <2>3, <2>5 DEF Accounted, RetiredWith, Group
  <2>6. CASE e \notin op.view /\ e.fact \notin Loops
    <3>1. fresh["gate"] # NULL /\ Id(e) \in fresh["gate"]
      BY <2>2, <2>3, <2>6 DEF Scanned, Neighbourhood
    <3>2. QED BY <1>1, <2>1, <3>1 DEF Accounted, Raced
  <2>7. QED BY <2>4, <2>5, <2>6
<1>6. CASE Kept("gate")
  BY <1>2, <1>6 DEF Kept
<1>7. QED BY <1>2, <1>4, <1>5, <1>6, GateGraphSteps
-----------------------------------------------------------------------------
(* The engine's steps.                                                     *)
InferOK ==
  /\ index \in [Facts -> {NULL} \cup SUBSET Facts]
  /\ inf \in {NULL} \cup Run \cup Retracting

(* Where the engine stands tells a run from a retraction.                  *)
LEMMA InferTyped ==
  ASSUME InferOK, inf # NULL
  PROVE  /\ inf.mode = "run" => inf \in Run
         /\ inf.mode = "retract" => inf \in Retracting
         /\ inf.at \in {"match", "existing", "upsert"} => inf.mode = "run"
         /\ inf.at \in {"scan", "replace"} => inf.mode = "retract"
BY DEF InferOK, Run, Retracting

(* The modes of a run and of a retraction.                                 *)
LEMMA Modes ==
  /\ \A m \in Run : m.mode = "run" /\ m # NULL /\ m.at \in {"match", "existing", "upsert"}
  /\ \A m \in Retracting : m.mode = "retract" /\ m # NULL /\ m.at \in {"scan", "replace"}
BY RunAssumption DEF Run, Retracting

(* What a run lists are relations.                                         *)
LEMMA RunLists ==
  ASSUME InferOK, InferSeen, inf # NULL, inf.at \in {"match", "existing", "upsert"}
  PROVE  /\ inf \in Run /\ PassSeen /\ ThenOf[inf.rule] \in Rels
         /\ inf.at = "match" => /\ Hop \in Rels
                                /\ inf.hop \in 1 .. Len(WhenOf[inf.rule])
                                /\ Len(WhenOf[inf.rule]) \in Nat
<1>1. inf \in Run /\ PassSeen /\ inf.rule \in Rules
  BY InferTyped, Modes DEF InferSeen, Run
<1>2. WhenOf[inf.rule] \in Seq(Rels) /\ ThenOf[inf.rule] \in Rels
  BY <1>1, InferAssumption
<1>3. inf.at = "match" => inf.hop \in DOMAIN WhenOf[inf.rule]
  BY <1>1 DEF PassSeen
<1>4. QED BY <1>1, <1>2, <1>3 DEF Hop

(* What a retraction lists is its goal's relation.                         *)
LEMMA RetractionLists ==
  ASSUME InferOK, InferSeen, inf # NULL, inf.at \in {"scan", "replace"}
  PROVE  /\ Retracts /\ inf \in Retracting /\ Goal \in Facts /\ Goal \in inf.left /\ GoalSeen
         /\ inf.view \in SUBSET Edge /\ RelOf[Goal] \in Rels
         /\ \A f \in Facts : GroupOf[f] = GroupOf[Goal] => RelOf[f] = RelOf[Goal]
<1>1. Retracts
  BY InferTyped DEF Retracts
<1>2. QED BY <1>1, GoalTyped DEF InferOK, Rels

WritesDerived ==
  /\ inf # NULL /\ inf.mode = "run" /\ inf.at = "upsert"
  /\ Put("infer", Upserted(Derived))
  /\ Closes("infer")

WritesSurvivors ==
  /\ inf # NULL /\ inf.mode = "retract" /\ inf.at = "replace"
  /\ Put("infer", Replaced(GroupOf[Goal], inf.view))
  /\ Closes("infer")

(* The case split of the proofs about the engine and the graph.            *)
LEMMA InferGraphSteps ==
  ASSUME InferOK, InferSeen, InferNext
  PROVE  Kept("infer") \/ WritesDerived \/ WritesSurvivors
<1>0. "infer" \in Writers
  BY DEF Writers
<1>1. CASE \/ \E c \in changes \ handled : BeginIncremental(c)
           \/ BeginAfterIngest \/ \E f \in Facts : BeginRetract(f)
  BY <1>1 DEF BeginIncremental, BeginAfterIngest, BeginRetract, graphVars, Kept, Closes
<1>2. CASE MatchPage
  <2>1. Hop \in Rels
    BY <1>2, RunLists DEF MatchPage, Matching
  <2>2. QED BY <1>2, <2>1 DEF MatchPage, Matching, Listing, Kept
<1>3. CASE NextHop \/ Match
  BY <1>0, <1>3 DEF NextHop, Match, Matching, Listed, Kept, Closes
<1>4. CASE ExistingPage
  <2>1. ThenOf[inf.rule] \in Rels
    BY <1>4, RunLists DEF ExistingPage
  <2>2. QED BY <1>4, <2>1 DEF ExistingPage, Listing, Kept, Scan
<1>5. CASE ScanExisting \/ RetractPreserves \/ RetractScan
  BY <1>0, <1>5 DEF ScanExisting, RetractPreserves, RetractScan, Listed, Kept, Closes, Scan, Drop
<1>6. CASE RetractPage
  <2>1. RelOf[Goal] \in Rels
    BY <1>6, RetractionLists DEF RetractPage
  <2>2. QED BY <1>6, <2>1 DEF RetractPage, Listing, Kept, Scan
<1>7. CASE UpsertDerived
  BY <1>7, InferTyped DEF UpsertDerived, WritesDerived, Closes
<1>8. CASE RetractReplace
  BY <1>8, InferTyped DEF RetractReplace, WritesSurvivors, Closes
<1>9. CASE InferFails
  BY <1>0, <1>9, InferTyped DEF InferFails, WritesDerived, WritesSurvivors, Kept, Closes, Drop
<1>10. QED BY <1>1, <1>2, <1>3, <1>4, <1>5, <1>6, <1>7, <1>8, <1>9 DEF InferNext, InferStep

(* A pass knows what it upserts, and a retraction what it writes back.     *)
LEMMA DerivedWritten ==
  ASSUME InferOK, GraphOK, InferSeen, WritesDerived
  PROVE  /\ inf \in Run /\ PassSeen /\ inf.found \subseteq Ground
         /\ Upserted(Derived) \in SUBSET Edge /\ IsFiniteSet(Upserted(Derived))
         /\ graph' = Upserted(Derived)
<1>1. inf \in Run /\ PassSeen /\ inf.found \subseteq Ground
  BY RunLists DEF WritesDerived, Run
<1>2. QED BY <1>1, DerivedIsNew, UpsertedKeeps DEF WritesDerived, Put

LEMMA SurvivorsWritten ==
  ASSUME InferOK, GraphOK, InferSeen, WritesSurvivors
  PROVE  /\ Retracts /\ inf \in Retracting /\ GoalSeen /\ inf.at = "replace"
         /\ inf.view \in SUBSET Edge /\ IsFiniteSet(inf.view)
         /\ graph' = Replaced(GroupOf[Goal], inf.view)
         /\ graph' \in SUBSET Edge /\ IsFiniteSet(graph')
         /\ \A e \in graph' \ inf.view : e \in graph /\ GroupOf[e.fact] # GroupOf[Goal]
         /\ \A e \in graph \ graph' : GroupOf[e.fact] = GroupOf[Goal]
         /\ inf.view \subseteq graph'
<1>1. /\ Retracts /\ inf \in Retracting /\ GoalSeen /\ inf.at = "replace"
      /\ inf.view \in SUBSET Edge /\ graph' = Replaced(GroupOf[Goal], inf.view)
  BY RetractionLists DEF WritesSurvivors, Put
<1>2. IsFiniteSet(inf.view)
  BY <1>1 DEF GoalSeen
<1>3. QED BY <1>1, <1>2, ReplacedKeeps

(* Whatever the engine does to the graph is known as touched to the gate.  *)
LEMMA InferGraph ==
  ASSUME InferOK, GraphOK, InferSeen, InferNext
  PROVE  Ages("infer") /\ Aged("gate")
<1>1. "gate" \in Writers /\ "infer" \in Writers /\ "gate" # "infer"
  BY DEF Writers
<1>2. CASE Kept("infer")
  BY <1>1, <1>2, KeptEffect DEF Ages
<1>3. CASE WritesDerived
  <2>1. Put("infer", Upserted(Derived)) /\ Closes("infer")
    BY <1>3 DEF WritesDerived
  <2>2. QED BY <1>1, <1>3, <2>1, DerivedWritten, PutEffect DEF Ages
<1>4. CASE WritesSurvivors
  <2>1. /\ Put("infer", Replaced(GroupOf[Goal], inf.view)) /\ Closes("infer")
        /\ Replaced(GroupOf[Goal], inf.view) \in SUBSET Edge
        /\ IsFiniteSet(Replaced(GroupOf[Goal], inf.view))
    BY <1>4, SurvivorsWritten DEF WritesSurvivors
  <2>2. QED BY <1>1, <2>1, PutEffect DEF Ages
<1>5. QED BY <1>2, <1>3, <1>4, InferGraphSteps

(* The engine's writes lose what was touched since its scan, and the rule  *)
(* edge it retracts.                                                       *)
LEMMA InferLosesToRaces ==
  ASSUME InferOK, GraphOK, InferSeen, InferNext, NEW e \in graph
  PROVE  Accounted(e)
<1>1. "infer" \in Writers
  BY DEF Writers
<1>2. CASE e \in graph'
  BY <1>2 DEF Accounted, StillThere
<1>3. ASSUME NEW g, Put("infer", g) PROVE fresh'["infer"] = NULL
  BY <1>1, <1>3 DEF Put
<1>4. CASE WritesDerived /\ e \notin graph'
  <2>1. graph' = Upserted(Derived) /\ fresh'["infer"] = NULL /\ PassSeen /\ inf.at = "upsert"
    BY <1>3, <1>4, DerivedWritten DEF WritesDerived
  <2>2. PICK n \in Derived : Id(e) = Id(n)
    BY <1>4, <2>1 DEF Upserted
  <2>3. PICK g \in inf.found : n = NewEdge(g.fact, "rule", 0)
    BY <2>2 DEF Derived
  <2>4. e.fact = g.fact
    BY <2>2, <2>3 DEF Id, NewEdge
  <2>5. Absent("infer", g.fact)
    BY <2>1 DEF PassSeen
  <2>6. QED BY <1>1, <2>1, <2>4, <2>5 DEF Absent, Accounted, Raced
<1>5. CASE WritesSurvivors /\ e \notin graph'
  <2>1. /\ Retracts /\ GoalSeen /\ inf.at = "replace" /\ fresh'["infer"] = NULL
        /\ GroupOf[e.fact] = GroupOf[Goal] /\ inf.view \subseteq graph'
    BY <1>3, <1>5, SurvivorsWritten DEF WritesSurvivors
  <2>2. Shows(inf.view, e) \/ IsGoals(e) \/ Known("infer", e)
    BY <2>1 DEF GoalSeen, Group
  <2>3. CASE Shows(inf.view, e)
    BY <2>1, <2>3 DEF Shows, Accounted, StillThere
  <2>4. CASE IsGoals(e)
    BY <2>1, <2>4 DEF IsGoals, Accounted, RetractedNow, Retracts
  <2>5. CASE Known("infer", e)
    BY <1>1, <2>1, <2>5 DEF Known, Accounted, Raced
  <2>6. QED BY <2>2, <2>3, <2>4, <2>5
<1>6. CASE Kept("infer")
  BY <1>2, <1>6 DEF Kept
<1>7. QED BY <1>2, <1>4, <1>5, <1>6, InferGraphSteps

(* What the engine is at after a step.                                     *)
AtRest == inf' \in {NULL} \cup Starting

(* At the first page of a goal's listing.                                  *)
AtGoal(left) ==
  /\ inf' \in Retracting /\ inf'.left = left /\ left # {}
  /\ inf'.at = "scan" /\ ~inf'.removed /\ inf'.view = {}
  /\ cursor'["infer"] = NULL

(* A retraction goes on with what is left, or is over.                     *)
LEMMA RetractionIs ==
  ASSUME NEW facts \in SUBSET Facts
  PROVE  \/ facts = {} /\ Retraction(facts) = NULL
         \/ /\ facts # {} /\ Retraction(facts) \in Retracting
            /\ Retraction(facts).left = facts /\ Retraction(facts).at = "scan"
            /\ ~Retraction(facts).removed /\ Retraction(facts).view = {}
BY DEF Retraction, Retracting

(* A run or a retraction gets the mutex.                                   *)
LEMMA BeginSteps ==
  ASSUME InferOK, \/ \E c \in changes \ handled : BeginIncremental(c)
                  \/ BeginAfterIngest
  PROVE  AtRest /\ inf = NULL /\ index' = index /\ graph' = graph /\ cursor' = cursor
<1>1. PICK rels : inf' = FirstOf({r \in Rules : Triggered(r, rels)})
  BY DEF BeginIncremental, BeginAfterIngest
<1>2. {r \in Rules : Triggered(r, rels)} \in SUBSET Rules
  OBVIOUS
<1>3. AtRest
  BY <1>1, <1>2, FirstOfIsRun DEF AtRest
<1>4. QED BY <1>3 DEF BeginIncremental, BeginAfterIngest, graphVars

(* A retraction begins with the dependents of a fact.                      *)
LEMMA RetractBegins ==
  ASSUME InferOK, CursorOK, NEW f \in Facts, BeginRetract(f)
  PROVE  /\ inf = NULL /\ index' = index /\ graph' = graph /\ cursor' = cursor
         /\ AtGoal(Dependents(f))
<1>1. inf = NULL /\ index' = index /\ inf' = Retraction(Dependents(f)) /\ inf' # NULL
      /\ graph' = graph /\ cursor' = cursor
  BY DEF BeginRetract, graphVars
<1>2. Dependents(f) \in SUBSET Facts
  BY DEF Dependents
<1>3. cursor'["infer"] = NULL
  BY <1>1, CursorIdle
<1>4. QED BY <1>1, <1>2, <1>3, RetractionIs DEF AtGoal

(* A pass lists its inputs.                                                *)
LEMMA MatchedIsSeen ==
  ASSUME InferOK, InferSeen, inf # NULL, inf.at = "match"
  PROVE  /\ Matched \in SUBSET Facts
         /\ \A s \in Matched : s \in inf.seen \/ Asserted(s)
<1>1. inf \in Run
  BY RunLists
<1>2. inf.seen \subseteq Facts /\ Inputs \subseteq Facts
  BY <1>1, InferAssumption DEF Run, Inputs
<1>3. \A e \in PageOf("infer", Hop) : e \in graph
  BY PageIsStored
<1>4. QED BY <1>2, <1>3 DEF Matched, Asserted

LEMMA PageSteps ==
  ASSUME InferOK, InferSeen, MatchPage \/ NextHop
  PROVE  /\ inf \in Run /\ inf' \in Run /\ inf.at = "match" /\ inf'.at = "match" /\ PassSeen
         /\ inf'.found = inf.found /\ inf'.rule = inf.rule /\ inf'.seen = Matched
         /\ inf'.hop \in DOMAIN WhenOf[inf.rule]
         /\ index' = index /\ graph' = graph
         /\ MatchPage => Hop' = Hop
<1>1. inf # NULL /\ inf.at = "match" /\ index' = index /\ graph' = graph
  BY DEF MatchPage, NextHop, Matching
<1>2. /\ inf \in Run /\ PassSeen /\ inf.hop \in 1 .. Len(WhenOf[inf.rule])
      /\ Len(WhenOf[inf.rule]) \in Nat /\ Matched \in SUBSET Facts
      /\ DOMAIN WhenOf[inf.rule] = 1 .. Len(WhenOf[inf.rule])
  <2>1. WhenOf[inf.rule] \in Seq(Rels)
    BY <1>1, RunLists, InferAssumption DEF Run
  <2>2. QED BY <1>1, <2>1, RunLists, MatchedIsSeen
<1>3. CASE MatchPage
  <2>1. inf' = [inf EXCEPT !.seen = Matched]
    BY <1>3 DEF MatchPage
  <2>2. inf' \in Run /\ inf'.at = "match" /\ inf'.found = inf.found /\ inf'.rule = inf.rule
        /\ inf'.seen = Matched /\ inf'.hop = inf.hop
    BY <1>1, <1>2, <2>1 DEF Run
  <2>3. QED BY <1>1, <1>2, <2>2 DEF Hop
<1>4. CASE NextHop /\ ~MatchPage
  <2>1. inf' = [inf EXCEPT !.hop = @ + 1, !.seen = Matched] /\ inf.hop < Len(WhenOf[inf.rule])
    BY <1>4 DEF NextHop
  <2>2. inf.hop + 1 \in DOMAIN WhenOf[inf.rule] /\ inf.hop + 1 \in Nat
    BY <1>2, <2>1
  <2>3. inf' \in Run /\ inf'.at = "match" /\ inf'.found = inf.found /\ inf'.rule = inf.rule
        /\ inf'.seen = Matched /\ inf'.hop = inf.hop + 1
    BY <1>1, <1>2, <2>1, <2>2 DEF Run
  <2>4. QED BY <1>1, <1>2, <1>4, <2>2, <2>3
<1>5. QED BY <1>3, <1>4

(* It joins what they have shown.                                          *)
LEMMA MatchStep ==
  ASSUME InferOK, GraphOK, InferSeen, Match
  PROVE  /\ inf' \in Run /\ inf'.at = "existing" /\ inf'.rule = inf.rule
         /\ inf'.found = Joined(inf.rule, Matched)
         /\ index' = index /\ graph' = graph /\ inf # NULL /\ inf.mode = "run"
         /\ inf.at = "match" /\ cursor'["infer"] = NULL
<1>1. inf # NULL /\ inf.at = "match" /\ index' = index /\ graph' = graph
      /\ inf' = [inf EXCEPT !.at = "existing", !.seen = {},
                            !.found = Joined(inf.rule, Matched)]
      /\ Close("infer")
  BY DEF Match, Matching, Listed
<1>2. inf \in Run /\ inf.mode = "run"
  BY <1>1, InferTyped
<1>3. Joined(inf.rule, Matched) \in SUBSET Ground
  BY DEF Joined
<1>4. cursor'["infer"] = NULL
  BY <1>1 DEF Close, GraphOK, Writers
<1>5. QED BY <1>1, <1>2, <1>3, <1>4 DEF Run

(* It lists the derived type.                                              *)
LEMMA ExistingStep ==
  ASSUME InferOK, InferSeen, ExistingPage
  PROVE  /\ inf \in Run /\ inf' \in Run /\ inf.at = "existing" /\ inf'.at = "existing" /\ PassSeen
         /\ inf'.found = inf.found /\ inf'.rule = inf.rule /\ inf'.seen = Existing
         /\ index' = index /\ graph' = graph /\ ThenOf[inf.rule] \in Rels
<1>1. inf # NULL /\ inf.at = "existing" /\ index' = index /\ graph' = graph
      /\ inf' = [inf EXCEPT !.seen = Existing]
  BY DEF ExistingPage, Scan
<1>2. inf \in Run /\ PassSeen /\ ThenOf[inf.rule] \in Rels
  BY <1>1, RunLists
<1>3. Existing \in SUBSET Facts
  BY <1>2, InferAssumption DEF Existing, Run
<1>4. inf' \in Run /\ inf'.at = "existing" /\ inf'.found = inf.found /\ inf'.rule = inf.rule
      /\ inf'.seen = Existing
  BY <1>1, <1>2, <1>3 DEF Run
<1>5. QED BY <1>1, <1>2, <1>4

(* The derivations that are new are recorded, with a support of one of     *)
(* their instances.                                                        *)
LEMMA RecordStep ==
  ASSUME InferOK, InferSeen, ScanExisting
  PROVE  /\ inf \in Run /\ PassSeen /\ inf # NULL /\ inf.at = "existing" /\ graph' = graph
         /\ index' \in [Facts -> {NULL} \cup SUBSET Facts]
         /\ \A f \in Facts : index[f] # NULL => index'[f] = index[f]
         /\ \A g \in New : index'[g.fact] # NULL
         /\ \A f \in Facts : index'[f] # index[f] =>
              \E g \in inf.found : g.fact = f /\ index'[f] = g.support
         /\ \/ AtRest
            \/ /\ inf' \in Run /\ inf'.at = "upsert" /\ inf'.rule = inf.rule
               /\ inf'.found = New /\ New \subseteq inf.found
               /\ Scan("infer") /\ IsShort("infer", ThenOf[inf.rule])
<1> DEFINE Chosen(f) == CHOOSE g \in New : g.fact = f
           Has(f) == \E g \in New : g.fact = f
<1>1. inf # NULL /\ inf.at = "existing" /\ inf \in Run /\ PassSeen /\ inf.found \subseteq Ground
      /\ graph' = graph
  <2>1. inf # NULL /\ inf.at = "existing" /\ graph' = graph
    BY DEF ScanExisting, Drop, Scan
  <2>2. inf \in Run /\ PassSeen
    BY <2>1, RunLists
  <2>3. QED BY <2>1, <2>2 DEF Run
<1>2. index' = [f \in Facts |-> IF Has(f) THEN Chosen(f).support ELSE index[f]]
  BY DEF ScanExisting
<1>3. \A f : Has(f) => /\ index[f] = NULL
                       /\ Chosen(f) \in inf.found /\ Chosen(f).fact = f
  BY DEF New
<1>4. \A g \in New : Has(g.fact)
  OBVIOUS
<1> HIDE DEF Chosen, Has
<1>5. \A f : Has(f) => f \in Facts /\ Chosen(f).support \in SUBSET Facts
  BY <1>1, <1>3, InferAssumption
<1>6. \A f : Has(f) => Chosen(f).support # NULL
  BY <1>5, NullAssumption
<1>7. index' \in [Facts -> {NULL} \cup SUBSET Facts]
  BY <1>2, <1>5 DEF InferOK
<1>8. \A f \in Facts : index'[f] # index[f] =>
        \E g \in inf.found : g.fact = f /\ index'[f] = g.support
  BY <1>2, <1>3
<1>9. \A f \in Facts : index[f] # NULL => index'[f] = index[f]
  BY <1>2, <1>3
<1>10. \A g \in New : index'[g.fact] # NULL
  BY <1>2, <1>4, <1>5, <1>6
<1>11. \/ AtRest
       \/ /\ inf' \in Run /\ inf'.at = "upsert" /\ inf'.rule = inf.rule
          /\ inf'.found = New /\ New \subseteq inf.found
          /\ Scan("infer") /\ IsShort("infer", ThenOf[inf.rule])
  <2>1. CASE New = {}
    <3>1. inf' = AfterRule(inf, inf.news) /\ inf.news \in BOOLEAN
      BY <1>1, <2>1 DEF ScanExisting, Run
    <3>2. QED BY <1>1, <3>1, AfterRuleIsRun DEF AtRest
  <2>2. CASE New # {}
    <3>1. /\ inf' = [inf EXCEPT !.at = "upsert", !.seen = {}, !.found = New]
          /\ Scan("infer") /\ IsShort("infer", ThenOf[inf.rule])
      BY <2>2 DEF ScanExisting, Listed
    <3>2. New \in SUBSET Ground /\ New \subseteq inf.found
      BY <1>1 DEF New
    <3>3. inf' \in Run /\ inf'.at = "upsert" /\ inf'.found = New /\ inf'.rule = inf.rule
      BY <1>1, <3>1, <3>2 DEF Run
    <3>4. QED BY <3>1, <3>2, <3>3
  <2>3. QED BY <2>1, <2>2
<1>12. QED BY <1>1, <1>7, <1>8, <1>9, <1>10, <1>11

(* The upsert writes edges, and the index stays.                           *)
LEMMA UpsertStep ==
  ASSUME InferOK, UpsertDerived
  PROVE  /\ inf \in Run /\ inf # NULL /\ inf.at = "upsert" /\ AtRest /\ index' = index
         /\ WritesDerived
<1>1. inf # NULL /\ inf.at = "upsert" /\ index' = index /\ inf' = AfterRule(inf, TRUE)
  BY DEF UpsertDerived
<1>2. inf \in Run /\ inf.mode = "run"
  BY <1>1, InferTyped
<1>3. WritesDerived
  BY <1>1, <1>2 DEF UpsertDerived, WritesDerived, Closes
<1>4. QED BY <1>1, <1>2, <1>3, AfterRuleIsRun DEF AtRest

(* A retraction lists the relation of its goal and collects what stays.    *)
LEMMA CollectStep ==
  ASSUME InferOK, GraphOK, InferSeen, RetractPage \/ RetractScan
  PROVE  /\ inf \in Retracting /\ inf # NULL /\ inf.at = "scan"
         /\ inf' \in Retracting /\ inf'.left = inf.left /\ Goal' = Goal
         /\ RetractPage => inf'.at = "scan" /\ (inf'.removed <=> Removed)
         /\ RetractScan => inf'.at = "replace"
         /\ inf'.view = Survivors
         /\ index' = index /\ graph' = graph /\ Scan("infer")
<1>1. /\ inf # NULL /\ inf.at = "scan" /\ Scan("infer") /\ graph' = graph /\ index' = index
  BY DEF RetractPage, RetractScan, Scan
<1>2. inf \in Retracting /\ inf.view \in SUBSET Edge /\ IsFiniteSet(inf.view)
  BY <1>1, RetractionLists DEF GoalSeen
<1>3. Survivors \in SUBSET Edge
  <2> DEFINE edges == GoalsPage \ RuleEdges(GoalsPage, Goal)
  <2>1. edges \in SUBSET Edge /\ IsFiniteSet(edges)
    <3>1. edges \subseteq graph
      BY PageIsStored DEF GoalsPage
    <3>2. QED BY <3>1, FS_Subset DEF GraphOK
  <2> HIDE DEF edges
  <2>2. Collected(inf.view, edges) \in SUBSET Edge
    BY <1>2, <2>1, CollectedShows
  <2>3. QED BY <2>2 DEF Survivors, edges
<1>4. Removed \in BOOLEAN
  BY <1>2 DEF Removed, Retracting
<1>5. CASE RetractPage
  <2>1. inf' = [inf EXCEPT !.removed = Removed, !.view = Survivors] /\ ~IsShort("infer", RelOf[Goal])
    BY <1>5 DEF RetractPage, Listing
  <2>2. ~RetractScan
    BY <2>1 DEF RetractScan, Listed
  <2>3. /\ inf' \in Retracting /\ inf'.left = inf.left /\ inf'.at = "scan"
        /\ (inf'.removed <=> Removed) /\ inf'.view = Survivors
    BY <1>1, <1>2, <1>3, <1>4, <2>1 DEF Retracting
  <2>4. QED BY <1>1, <1>2, <2>2, <2>3 DEF Goal
<1>6. CASE RetractScan
  <2>1. /\ inf' = [inf EXCEPT !.at = "replace", !.removed = TRUE, !.view = Survivors]
        /\ IsShort("infer", RelOf[Goal])
    BY <1>6 DEF RetractScan, Listed
  <2>2. ~RetractPage
    BY <2>1 DEF RetractPage, Listing
  <2>3. inf' \in Retracting /\ inf'.left = inf.left /\ inf'.at = "replace" /\ inf'.view = Survivors
    BY <1>2, <1>3, <2>1 DEF Retracting
  <2>4. QED BY <1>1, <1>2, <2>2, <2>3 DEF Goal
<1>7. QED BY <1>5, <1>6

(* What a retraction has collected: what it had, and what of the page is   *)
(* not a rule edge of its goal.                                            *)
LEMMA SurvivorsShow ==
  ASSUME InferOK, GraphOK, InferSeen, inf # NULL, inf.at = "scan"
  PROVE  /\ inf.view \subseteq Survivors /\ IsFiniteSet(Survivors)
         /\ \A x \in Survivors \ inf.view :
              \E e \in graph : /\ Id(e) = Id(x) /\ e.by = x.by /\ e.fact = x.fact
                               /\ GroupOf[e.fact] = GroupOf[Goal] /\ ~IsGoals(e)
         /\ \A e \in PageOf("infer", RelOf[Goal]) :
              GroupOf[e.fact] = GroupOf[Goal] => Shows(Survivors, e) \/ IsGoals(e)
<1> DEFINE edges == GoalsPage \ RuleEdges(GoalsPage, Goal)
<1>1. edges \in SUBSET Edge /\ IsFiniteSet(edges) /\ edges \subseteq graph
  <2>1. edges \subseteq graph
    BY PageIsStored DEF GoalsPage
  <2>2. QED BY <2>1, FS_Subset DEF GraphOK
<1>2. \A e \in edges : GroupOf[e.fact] = GroupOf[Goal] /\ ~IsGoals(e)
  BY DEF GoalsPage, RuleEdges, IsGoals
<1>3. \A e \in PageOf("infer", RelOf[Goal]) :
        GroupOf[e.fact] = GroupOf[Goal] => e \in edges \/ IsGoals(e)
  BY DEF GoalsPage, RuleEdges, IsGoals
<1>4. inf.view \in SUBSET Edge /\ IsFiniteSet(inf.view)
  BY RetractionLists DEF GoalSeen
<1>5. Survivors = Collected(inf.view, edges)
  BY DEF Survivors
<1> HIDE DEF edges
<1>6. /\ inf.view \subseteq Survivors /\ IsFiniteSet(Survivors)
      /\ \A e \in edges : Shows(Survivors, e)
      /\ \A x \in Survivors \ inf.view : Shows(edges, x)
  BY <1>1, <1>4, <1>5, CollectedShows
<1>7. QED BY <1>1, <1>2, <1>3, <1>6 DEF Shows, Id

(* The goal leaves the index and the list of what is left.                 *)
LEMMA GoalStep ==
  ASSUME InferOK, GraphOK, InferSeen, CursorOK, RetractPreserves \/ RetractReplace
  PROVE  /\ inf \in Retracting /\ inf # NULL /\ Goal \in inf.left /\ Goal \in Facts /\ Retracts
         /\ index' = [index EXCEPT ![Goal] = NULL]
         /\ index' \in [Facts -> {NULL} \cup SUBSET Facts]
         /\ \/ inf' = NULL /\ inf.left \subseteq {Goal}
            \/ AtGoal(inf.left \ {Goal})
         /\ RetractReplace => WritesSurvivors
<1>1. /\ inf # NULL /\ inf.at \in {"scan", "replace"}
      /\ index' = [index EXCEPT ![Goal] = NULL] /\ inf' = Retraction(inf.left \ {Goal})
  BY DEF RetractPreserves, RetractReplace
<1>2. inf \in Retracting /\ Goal \in inf.left /\ Goal \in Facts /\ Retracts
      /\ inf.left \in SUBSET Facts
  BY <1>1, RetractionLists DEF Retracting
<1>3. inf.left \ {Goal} \in SUBSET Facts
  BY <1>2
<1>4. cursor'["infer"] = NULL
  <2>1. CASE RetractPreserves
    BY <2>1 DEF RetractPreserves, Listed, Close, GraphOK, Writers
  <2>2. CASE RetractReplace
    BY <2>2, CursorIdle DEF RetractReplace
  <2>3. QED BY <2>1, <2>2
<1>5. (inf' = NULL /\ inf.left \subseteq {Goal}) \/ AtGoal(inf.left \ {Goal})
  BY <1>1, <1>3, <1>4, RetractionIs DEF AtGoal
<1>6. index' \in [Facts -> {NULL} \cup SUBSET Facts]
  BY <1>1, <1>2 DEF InferOK
<1>7. RetractReplace => WritesSurvivors
  BY <1>2 DEF RetractReplace, WritesSurvivors, Closes, Retracts
<1>8. QED BY <1>1, <1>2, <1>5, <1>6, <1>7

(* The engine's variables keep their types.                                *)
LEMMA InferStaysOK ==
  ASSUME InferOK, GraphOK, InferSeen, CursorOK, InferNext
  PROVE  InferOK'
<1>1. CASE \/ \E c \in changes \ handled : BeginIncremental(c)
           \/ BeginAfterIngest
  BY <1>1, BeginSteps DEF InferOK, AtRest, Starting
<1>2. CASE \E f \in Facts : BeginRetract(f)
  BY <1>2, RetractBegins DEF InferOK, AtGoal
<1>3. CASE MatchPage \/ NextHop
  BY <1>3, PageSteps DEF InferOK
<1>4. CASE Match
  BY <1>4, MatchStep DEF InferOK
<1>5. CASE ExistingPage
  BY <1>5, ExistingStep DEF InferOK
<1>6. CASE ScanExisting
  BY <1>6, RecordStep DEF InferOK, AtRest, Starting
<1>7. CASE UpsertDerived
  BY <1>7, UpsertStep DEF InferOK, AtRest, Starting
<1>8. CASE RetractPreserves \/ RetractReplace
  BY <1>8, GoalStep DEF InferOK, AtGoal
<1>9. CASE RetractPage \/ RetractScan
  BY <1>9, CollectStep DEF InferOK
<1>10. CASE InferFails
  BY <1>10 DEF InferFails, InferOK
<1>11. QED BY <1>1, <1>2, <1>3, <1>4, <1>5, <1>6, <1>7, <1>8, <1>9, <1>10 DEF InferNext, InferStep

(* With no listing under way all is yet to come.                           *)
LEMMA AllAhead ==
  ASSUME GraphOK', cursor'["infer"] = NULL, NEW e \in graph'
  PROVE  Unread("infer", e)'
<1>1. Place(graph', e) \in Nat
  BY Places DEF GraphOK
<1>2. QED BY <1>1 DEF Unread, Offset

(* A goal's listing begins with nothing known.                             *)
LEMMA GoalSeenAtFirst ==
  ASSUME GraphOK', NEW left, AtGoal(left)
  PROVE  InferSeen'
<1>1. inf' \in Retracting /\ inf'.left # {} /\ inf'.at = "scan" /\ inf'.view = {}
      /\ cursor'["infer"] = NULL
  BY DEF AtGoal
<1>2. IsFiniteSet(inf'.view)
  BY <1>1, FS_EmptySet
<1>3. \A e \in graph' : Unread("infer", e)'
  BY <1>1, AllAhead
<1>4. GoalSeen'
  BY <1>1, <1>2, <1>3 DEF GoalSeen, Group
<1>5. QED BY <1>1, <1>4, Modes DEF InferSeen

(* So does a rule's pass.                                                  *)
LEMMA PassSeenAtFirst ==
  ASSUME AtRest
  PROVE  InferSeen'
<1>1. CASE inf' = NULL
  BY <1>1 DEF InferSeen
<1>2. CASE inf' \in Starting
  <2>1. inf' \in Run /\ inf'.at = "match" /\ inf'.hop = 1 /\ inf'.found = {} /\ inf'.rule \in Rules
    BY <1>2 DEF Starting, Run
  <2>2. 1 \in DOMAIN WhenOf[inf'.rule]
    <3>1. WhenOf[inf'.rule] \in Seq(Rels) \ {<<>>}
      BY <2>1, InferAssumption
    <3>2. QED BY <3>1
  <2>3. PassSeen'
    BY <2>1, <2>2 DEF PassSeen
  <2>4. QED BY <2>1, <2>3, Modes DEF InferSeen
<1>3. QED BY <1>1, <1>2 DEF AtRest

(* What the engine is about to list of the facts it looks for.             *)
LEMMA InferSeenKept ==
  ASSUME InferOK, GraphOK, GraphOK', InferSeen, CursorOK, InferNext
  PROVE  InferSeen'
<1>1. "infer" \in Writers /\ {} \in SUBSET Ids /\ {} # NULL
  BY NullAssumption DEF Writers
<1>2. ASSUME Scan("infer"), cursor["infer"] # NULL => fresh["infer"] # NULL
      PROVE  /\ fresh'["infer"] = IF cursor["infer"] = NULL THEN {} ELSE fresh["infer"]
             /\ fresh'["infer"] # NULL
  BY <1>1, <1>2 DEF Scan, GraphOK
<1>3. CASE \/ \E c \in changes \ handled : BeginIncremental(c)
           \/ BeginAfterIngest \/ UpsertDerived
  BY <1>3, BeginSteps, UpsertStep, PassSeenAtFirst
<1>4. CASE \E f \in Facts : BeginRetract(f)
  BY <1>4, RetractBegins, GoalSeenAtFirst
<1>5. CASE MatchPage \/ NextHop
  <2>1. /\ inf' \in Run /\ inf'.at = "match" /\ PassSeen
        /\ inf'.found = inf.found /\ inf'.rule = inf.rule
        /\ inf'.hop \in DOMAIN WhenOf[inf.rule]
    BY <1>5, PageSteps
  <2>2. PassSeen'
    BY <2>1 DEF PassSeen
  <2>3. QED BY <2>1, <2>2, Modes DEF InferSeen
<1>6. CASE Match
  <2>1. /\ inf' \in Run /\ inf'.at = "existing" /\ inf'.rule = inf.rule
        /\ inf'.found = Joined(inf.rule, Matched) /\ cursor'["infer"] = NULL
    BY <1>6, MatchStep
  <2>2. PassSeen'
    BY <2>1 DEF PassSeen, Joined
  <2>3. QED BY <2>1, <2>2, Modes DEF InferSeen
<1>7. CASE ExistingPage
  <2> DEFINE rel == ThenOf[inf.rule]
  <2>1. /\ inf \in Run /\ inf' \in Run /\ inf.at = "existing" /\ inf'.at = "existing" /\ PassSeen
        /\ inf'.found = inf.found /\ inf'.rule = inf.rule /\ inf'.seen = Existing
        /\ graph' = graph /\ rel \in Rels
    BY <1>7, ExistingStep
  <2>2. \A g \in inf.found : RelOf[g.fact] = rel
    BY <2>1, InferAssumption DEF PassSeen, Run
  <2>3. Turn("infer", rel) /\ Scan("infer")
    BY <1>7 DEF ExistingPage, Listing
  <2>4. /\ fresh'["infer"] = IF cursor["infer"] = NULL THEN {} ELSE fresh["infer"]
        /\ fresh'["infer"] # NULL
    BY <1>2, <2>1, <2>3 DEF PassSeen
  <2> HIDE DEF rel
  <2>5. Turned("infer", rel)
    BY <1>1, <2>1, <2>3, TurnEffect
  <2>6. ASSUME NEW e \in graph, NEW g \in inf.found, g.fact = e.fact, e.fact \notin Existing
        PROVE  Id(e) \in fresh'["infer"] \/ Unread("infer", e)'
    <3>1. RelOf[e.fact] = rel
      BY <2>2, <2>6
    <3>2. e.fact \notin inf.seen /\ e \notin PageOf("infer", rel)
      BY <2>6 DEF Existing, rel
    <3>3. CASE cursor["infer"] = NULL
      <4>1. Unread("infer", e)
        BY <1>1, <3>3, UnreadAtFirst
      <4>2. QED BY <2>5, <3>1, <3>2, <4>1 DEF Turned
    <3>4. CASE cursor["infer"] # NULL
      <4>1. Id(e) \in fresh["infer"] \/ Unread("infer", e)
        BY <2>1, <2>6, <3>2, <3>4 DEF PassSeen
      <4>2. QED BY <2>4, <2>5, <3>1, <3>2, <3>4, <4>1 DEF Turned
    <3>5. QED BY <3>3, <3>4
  <2>7. PassSeen'
    BY <2>1, <2>4, <2>6 DEF PassSeen
  <2>8. QED BY <2>1, <2>7, Modes DEF InferSeen
<1>8. CASE ScanExisting
  <2>1. CASE AtRest
    BY <2>1, PassSeenAtFirst
  <2>2. CASE /\ inf' \in Run /\ inf'.at = "upsert" /\ inf'.rule = inf.rule
             /\ inf'.found = New /\ New \subseteq inf.found
             /\ Scan("infer") /\ IsShort("infer", ThenOf[inf.rule])
    <3>1. inf \in Run /\ PassSeen /\ inf.at = "existing" /\ graph' = graph
      BY <1>8, RecordStep
    <3>2. /\ fresh'["infer"] = IF cursor["infer"] = NULL THEN {} ELSE fresh["infer"]
          /\ fresh'["infer"] # NULL
      BY <1>2, <2>2, <3>1 DEF PassSeen
    <3>3. ASSUME NEW g \in New, NEW e \in graph, e.fact = g.fact
          PROVE  Id(e) \in fresh'["infer"]
      <4>1. g.fact \notin Existing /\ g \in inf.found
        BY <2>2 DEF New
      <4>2. RelOf[e.fact] = ThenOf[inf.rule]
        BY <3>1, <3>3, <4>1, InferAssumption DEF PassSeen, Run
      <4>3. e.fact \notin inf.seen /\ e \notin PageOf("infer", ThenOf[inf.rule])
        BY <3>3, <4>1 DEF Existing
      <4>4. ~Unread("infer", e)
        BY <1>1, <2>2, <4>2, <4>3, LastPage
      <4>5. cursor["infer"] # NULL
        BY <1>1, <4>4, UnreadAtFirst
      <4>6. QED BY <3>1, <3>2, <3>3, <4>1, <4>3, <4>4, <4>5 DEF PassSeen
    <3>4. \A g \in inf'.found : Absent("infer", g.fact)'
      <4> SUFFICES ASSUME NEW g \in inf'.found PROVE Absent("infer", g.fact)'
        OBVIOUS
      <4>1. g \in New
        BY <2>2
      <4>2. QED BY <3>1, <3>2, <3>3, <4>1 DEF Absent
    <3>5. PassSeen'
      BY <2>2, <3>1, <3>4 DEF PassSeen
    <3>6. QED BY <2>2, <3>5, Modes DEF InferSeen
  <2>3. QED BY <1>8, <2>1, <2>2, RecordStep
<1>9. CASE RetractPreserves \/ RetractReplace
  <2>1. CASE inf' = NULL
    BY <2>1 DEF InferSeen
  <2>2. QED BY <1>9, <2>1, GoalStep, GoalSeenAtFirst
<1>10. CASE RetractPage \/ RetractScan
  <2> DEFINE rel == RelOf[Goal]
  <2>1. /\ inf \in Retracting /\ inf # NULL /\ inf.at = "scan"
        /\ inf' \in Retracting /\ inf'.left = inf.left /\ Goal' = Goal
        /\ RetractPage => inf'.at = "scan"
        /\ RetractScan => inf'.at = "replace"
        /\ inf'.view = Survivors /\ graph' = graph /\ Scan("infer")
    BY <1>10, CollectStep
  <2>2. /\ GoalSeen /\ rel \in Rels
        /\ \A f \in Facts : GroupOf[f] = GroupOf[Goal] => RelOf[f] = rel
    BY <2>1, RetractionLists
  <2>3. /\ inf.view \subseteq Survivors /\ IsFiniteSet(Survivors)
        /\ \A x \in Survivors \ inf.view :
             \E e \in graph : /\ Id(e) = Id(x) /\ e.by = x.by /\ e.fact = x.fact
                              /\ GroupOf[e.fact] = GroupOf[Goal] /\ ~IsGoals(e)
        /\ \A e \in PageOf("infer", rel) :
             GroupOf[e.fact] = GroupOf[Goal] => Shows(Survivors, e) \/ IsGoals(e)
    BY <2>1, SurvivorsShow
  <2>4. /\ fresh'["infer"] = IF cursor["infer"] = NULL THEN {} ELSE fresh["infer"]
        /\ fresh'["infer"] # NULL
    BY <1>2, <2>1, <2>2 DEF GoalSeen
  <2>5. \A x \in Survivors : GroupOf[x.fact] = GroupOf[Goal] /\ ~IsGoals(x)
    BY <2>2, <2>3 DEF GoalSeen, IsGoals
  <2>6. \A e : Shows(inf.view, e) => Shows(Survivors, e)
    BY <2>3 DEF Shows
  <2> HIDE DEF rel
  <2>7. ASSUME NEW e \in graph, GroupOf[e.fact] = GroupOf[Goal], ~Shows(Survivors, e), ~IsGoals(e)
        PROVE  Id(e) \in fresh'["infer"] \/ (RetractPage /\ Unread("infer", e)')
    <3>1. RelOf[e.fact] = rel /\ e \notin PageOf("infer", rel)
      BY <2>2, <2>3, <2>7 DEF GraphOK, Edge
    <3>2. (cursor["infer"] # NULL /\ Id(e) \in fresh["infer"]) \/ Unread("infer", e)
      <4>1. CASE cursor["infer"] = NULL
        BY <1>1, <4>1, UnreadAtFirst
      <4>2. CASE cursor["infer"] # NULL
        BY <2>2, <2>6, <2>7, <4>2 DEF GoalSeen, Group, Known
      <4>3. QED BY <4>1, <4>2
    <3>3. CASE Unread("infer", e) /\ RetractPage
      <4>1. Turn("infer", rel)
        BY <3>3 DEF RetractPage, Listing, rel
      <4>2. Turned("infer", rel)
        BY <1>1, <2>1, <2>2, <4>1, TurnEffect
      <4>3. QED BY <3>1, <3>3, <4>2 DEF Turned
    <3>4. CASE Unread("infer", e) /\ RetractScan
      <4>1. IsShort("infer", rel)
        BY <3>4 DEF RetractScan, Listed, rel
      <4>2. QED BY <1>1, <3>1, <3>4, <4>1, LastPage
    <3>5. CASE cursor["infer"] # NULL /\ Id(e) \in fresh["infer"]
      BY <2>4, <3>5
    <3>6. QED BY <1>10, <3>2, <3>3, <3>4, <3>5
  <2>8. inf'.left # {}
    BY <2>1, <2>2 DEF GoalSeen
  <2>9. GoalSeen'
    BY <2>1, <2>3, <2>4, <2>5, <2>7, <2>8 DEF GoalSeen, Group, Known, Shows, IsGoals
  <2>10. QED BY <2>1, <2>9, Modes DEF InferSeen
<1>11. CASE InferFails
  BY <1>11 DEF InferFails, InferSeen
<1>12. QED BY <1>3, <1>4, <1>5, <1>6, <1>7, <1>8, <1>9, <1>10, <1>11 DEF InferNext, InferStep

(* Each writer's listing is of the relation it is at.                      *)
LEMMA CursorAtInfer ==
  ASSUME InferOK, GraphOK, GraphOK', InferSeen, CursorOK, InferNext, UNCHANGED gateVars,
         cursor'["gate"] = cursor["gate"]
  PROVE  CursorOK'
<1>1. "infer" \in Writers /\ "gate" \in Writers /\ Writers = {"gate", "infer"}
  BY DEF Writers
<1>2. cursor'["gate"] # NULL => Lists("gate", cursor["gate"].rel)'
  <2>1. op' = op /\ proposals' = proposals
    BY DEF gateVars
  <2>2. QED BY <1>1, <2>1 DEF CursorOK, Lists, kind
<1>3. SUFFICES ASSUME cursor'["infer"] # NULL PROVE Lists("infer", cursor["infer"].rel)'
  BY <1>1, <1>2 DEF CursorOK
<1>4. ASSUME NEW rel \in Rels, Turn("infer", rel), graph' = graph
      PROVE  cursor'["infer"].rel = rel
  BY <1>1, <1>4, TurnEffect DEF Turned
<1>5. ~Close("infer")
  BY <1>1, <1>3 DEF Close, GraphOK
<1>6. cursor' = cursor => inf # NULL /\ inf.at \notin {"upsert", "replace"}
  BY <1>3, CursorIdle
<1>7. CASE MatchPage
  <2>1. Hop \in Rels /\ Turn("infer", Hop)
    BY <1>7, RunLists DEF MatchPage, Matching, Listing
  <2>2. graph' = graph /\ inf' \in Run /\ inf'.at = "match" /\ Hop' = Hop
    BY <1>7, PageSteps
  <2>3. cursor'["infer"].rel = Hop
    BY <1>4, <2>1, <2>2
  <2>4. QED BY <2>2, <2>3, Modes DEF Lists
<1>8. CASE ExistingPage
  <2>1. /\ graph' = graph /\ ThenOf[inf.rule] \in Rels /\ inf' \in Run /\ inf'.at = "existing"
        /\ inf'.rule = inf.rule
    BY <1>8, ExistingStep
  <2>2. cursor'["infer"].rel = ThenOf[inf.rule]
    BY <1>4, <1>8, <2>1 DEF ExistingPage, Listing
  <2>3. QED BY <2>1, <2>2, Modes DEF Lists
<1>9. CASE RetractPage
  <2>1. /\ graph' = graph /\ inf' \in Retracting /\ inf'.at = "scan" /\ Goal' = Goal
        /\ RelOf[Goal] \in Rels
    BY <1>9, CollectStep, RetractionLists DEF RetractPage
  <2>2. cursor'["infer"].rel = RelOf[Goal]
    BY <1>4, <1>9, <2>1 DEF RetractPage, Listing
  <2>3. QED BY <2>1, <2>2, Modes DEF Lists
<1>10. CASE \/ \E c \in changes \ handled : BeginIncremental(c)
            \/ BeginAfterIngest \/ \E f \in Facts : BeginRetract(f)
            \/ UpsertDerived \/ RetractReplace
  BY <1>6, <1>10 DEF BeginIncremental, BeginAfterIngest, BeginRetract, UpsertDerived,
                     RetractReplace, graphVars
<1>11. CASE NextHop \/ Match \/ ScanExisting \/ RetractPreserves \/ RetractScan \/ InferFails
  BY <1>5, <1>11 DEF NextHop, Match, ScanExisting, RetractPreserves, RetractScan, InferFails, Listed
<1>12. QED BY <1>7, <1>8, <1>9, <1>10, <1>11 DEF InferNext, InferStep

LEMMA CursorAtGate ==
  ASSUME GateOK, GraphOK, GraphOK', OpInv, CursorOK, GateNext, UNCHANGED inferVars,
         cursor'["infer"] = cursor["infer"]
  PROVE  CursorOK'
<1>1. "infer" \in Writers /\ "gate" \in Writers /\ Writers = {"gate", "infer"}
  BY DEF Writers
<1>2. cursor'["infer"] # NULL => Lists("infer", cursor["infer"].rel)'
  <2>1. inf' = inf
    BY DEF inferVars
  <2>2. QED BY <1>1, <2>1 DEF CursorOK, Lists, Hop, Goal
<1>3. SUFFICES ASSUME cursor'["gate"] # NULL PROVE Lists("gate", cursor["gate"].rel)'
  BY <1>1, <1>2 DEF CursorOK
<1>4. ~Close("gate")
  BY <1>1, <1>3 DEF Close, GraphOK
<1>5. cursor' = cursor => op # NULL /\ op.at = "check"
  BY <1>3, CursorIdle
<1>6. CASE CheckPage
  <2>1. /\ op # NULL /\ op.at = "check" /\ kind.type = "edge"
        /\ Turn("gate", RelOf[kind.about]) /\ graph' = graph
        /\ op' = op /\ proposals' = proposals
    BY <1>6 DEF CheckPage, Scan, gateVars
  <2>2. RelOf[kind.about] \in Rels
    BY <2>1, KindTyped
  <2>3. cursor'["gate"].rel = RelOf[kind.about]
    BY <1>1, <2>1, <2>2, TurnEffect DEF Turned
  <2>4. QED BY <2>1, <2>3 DEF Lists, kind
<1>7. CASE CheckPasses \/ CheckRefuses \/ CheckFails
  BY <1>4, <1>7 DEF CheckPasses, CheckRefuses, CheckFails, Refuse
<1>8. CASE \/ \E a \in Agents : PromoteForAgent(a) \/ \E k \in Kinds : Submit(a, k)
           \/ \E p \in Pids : Approve(p) \/ Reject(p)
           \/ Begin(SweepCap) \/ Begin(MaxProposals)
  BY <1>5, <1>8 DEF PromoteForAgent, Submit, Approve, Reject, Begin, graphVars
<1>9. CASE \/ WriteEdge \/ WriteTag \/ WriteNote \/ WriteLink
           \/ RetireScan \/ RetireReplace \/ RetireFindsNothing \/ WriteFails
  BY <1>5, <1>9 DEF WriteEdge, WriteTag, WriteNote, WriteLink, RetireScan, RetireReplace,
                    RetireFindsNothing, WriteFails, Landed, Abort, graphVars
<1>10. QED BY <1>6, <1>7, <1>8, <1>9 DEF GateNext, GateStep

(* Whence an edge that the engine writes.                                  *)
LEMMA InferEdges ==
  ASSUME InferOK, InferSeen, InferNext, NEW e \in graph'
  PROVE  \/ e \in graph
         \/ WritesDerived /\ e \in Derived
         \/ WritesSurvivors /\ e \in inf.view
<1>1. CASE Kept("infer")
  BY <1>1 DEF Kept
<1>2. CASE WritesDerived
  BY <1>2 DEF WritesDerived, Put, Upserted
<1>3. CASE WritesSurvivors
  BY <1>3 DEF WritesSurvivors, Put, Replaced
<1>4. QED BY <1>1, <1>2, <1>3, InferGraphSteps

(* What a retraction has collected is or was in the graph.                 *)
LEMMA InferViews ==
  ASSUME InferOK, GraphOK, InferSeen, CursorOK, InferNext, Retracts', NEW x \in inf'.view
  PROVE  /\ index' = index
         /\ \/ Retracts /\ x \in inf.view
            \/ \E e \in graph : Id(e) = Id(x) /\ e.by = x.by /\ e.fact = x.fact /\ e.pid = x.pid
<1>1. CASE \/ \E c \in changes \ handled : BeginIncremental(c)
           \/ BeginAfterIngest \/ UpsertDerived
  BY <1>1, BeginSteps, UpsertStep, Modes DEF AtRest, Starting, Retracts
<1>2. CASE \E f \in Facts : BeginRetract(f)
  BY <1>2, RetractBegins DEF AtGoal
<1>3. CASE MatchPage \/ NextHop \/ Match \/ ExistingPage
  BY <1>3, PageSteps, MatchStep, ExistingStep, Modes DEF Retracts
<1>4. CASE ScanExisting
  BY <1>4, RecordStep, Modes DEF AtRest, Starting, Retracts
<1>5. CASE RetractPreserves \/ RetractReplace
  BY <1>5, GoalStep DEF Retracts, AtGoal
<1>6. CASE RetractPage \/ RetractScan
  <2>1. inf # NULL /\ inf.at = "scan" /\ inf'.view = Survivors /\ index' = index
    BY <1>6, CollectStep
  <2>2. Retracts
    BY <2>1, RetractionLists
  <2> DEFINE edges == GoalsPage \ RuleEdges(GoalsPage, Goal)
  <2>3. edges \in SUBSET Edge /\ IsFiniteSet(edges) /\ edges \subseteq graph
    <3>1. edges \subseteq graph
      BY PageIsStored DEF GoalsPage
    <3>2. QED BY <3>1, FS_Subset DEF GraphOK
  <2>4. inf.view \in SUBSET Edge /\ IsFiniteSet(inf.view)
    BY <2>1, RetractionLists DEF GoalSeen
  <2>5. Survivors = Collected(inf.view, edges)
    BY DEF Survivors
  <2> HIDE DEF edges
  <2>6. x \in inf.view \/ Shows(edges, x)
    BY <2>1, <2>3, <2>4, <2>5, CollectedShows
  <2>7. QED BY <2>1, <2>2, <2>3, <2>6 DEF Shows, Id
<1>7. CASE InferFails
  BY <1>7 DEF InferFails, Retracts
<1>8. QED BY <1>1, <1>2, <1>3, <1>4, <1>5, <1>6, <1>7 DEF InferNext, InferStep

(* The engine's steps keep LandInv: what it writes back it has scanned,    *)
(* and what it derives is not the gate's.                                  *)
LEMMA LandInvInfer ==
  ASSUME InferOK, GraphOK, InferSeen, CursorOK, LandInv, InferNext, UNCHANGED gateVars
  PROVE  LandInv'
<1>1. UNCHANGED <<proposals, op, notes, links, assigned, unsure>>
  BY DEF gateVars, engineVars
<1>2. \A e : Backed(e) => Backed(e)'
  BY <1>1 DEF Backed, Pids
<1>3. ASSUME NEW e \in graph' PROVE Backed(e)
  <2>1. CASE e \in graph
    BY <2>1 DEF LandInv
  <2>2. CASE e \in Derived
    BY <2>2 DEF Derived, NewEdge, Backed
  <2>3. CASE WritesSurvivors /\ e \in inf.view
    BY <2>3 DEF LandInv, WritesSurvivors, Retracts
  <2>4. QED BY <2>1, <2>2, <2>3, InferEdges
<1>4. ASSUME Retracts', NEW x \in inf'.view PROVE Backed(x)
  <2>1. CASE Retracts /\ x \in inf.view
    BY <2>1 DEF LandInv
  <2>2. CASE \E e \in graph : Id(e) = Id(x) /\ e.by = x.by /\ e.fact = x.fact /\ e.pid = x.pid
    BY <2>2 DEF LandInv, Backed
  <2>3. QED BY <1>4, <2>1, <2>2, InferViews
<1>5. QED BY <1>1, <1>2, <1>3, <1>4 DEF LandInv

(* Only the recording of a pass takes it to its write, and only a goal     *)
(* that is dealt with leaves the index.                                    *)
IndexKept == \A f \in Facts : index[f] # NULL => index'[f] = index[f]

(* Only a retraction takes anything from the index.                        *)
LEMMA IndexSteps ==
  ASSUME InferOK, GraphOK, InferSeen, CursorOK, InferNext
  PROVE  IndexKept \/ RetractPreserves \/ RetractReplace
<1>1. CASE \/ \E c \in changes \ handled : BeginIncremental(c)
           \/ BeginAfterIngest \/ UpsertDerived
  BY <1>1, BeginSteps, UpsertStep DEF IndexKept
<1>2. CASE \E f \in Facts : BeginRetract(f)
  BY <1>2, RetractBegins DEF IndexKept
<1>3. CASE MatchPage \/ NextHop \/ Match \/ ExistingPage
  BY <1>3, PageSteps, MatchStep, ExistingStep DEF IndexKept
<1>4. CASE ScanExisting
  BY <1>4, RecordStep DEF IndexKept
<1>5. CASE RetractPage \/ RetractScan
  BY <1>5, CollectStep DEF IndexKept
<1>6. CASE InferFails
  BY <1>6 DEF InferFails, IndexKept
<1>7. QED BY <1>1, <1>2, <1>3, <1>4, <1>5, <1>6 DEF InferNext, InferStep

(* What a run is about to upsert it has recorded.                          *)
LEMMA OnlyRecordsUpsert ==
  ASSUME InferOK, GraphOK, InferSeen, CursorOK, InferNext,
         inf' # NULL, inf'.mode = "run", inf'.at = "upsert"
  PROVE  \A g \in inf'.found : index'[g.fact] # NULL
<1>1. CASE \/ \E c \in changes \ handled : BeginIncremental(c)
           \/ BeginAfterIngest \/ UpsertDerived
  BY <1>1, BeginSteps, UpsertStep DEF AtRest, Starting
<1>2. CASE \E f \in Facts : BeginRetract(f)
  BY <1>2, RetractBegins DEF AtGoal
<1>3. CASE MatchPage \/ NextHop \/ Match \/ ExistingPage
  BY <1>3, PageSteps, MatchStep, ExistingStep
<1>4. CASE ScanExisting
  BY <1>4, RecordStep DEF AtRest, Starting
<1>5. CASE RetractPreserves \/ RetractReplace
  BY <1>5, GoalStep DEF AtGoal
<1>6. CASE RetractPage \/ RetractScan
  BY <1>6, CollectStep, Modes
<1>7. CASE InferFails
  BY <1>7 DEF InferFails
<1>8. QED BY <1>1, <1>2, <1>3, <1>4, <1>5, <1>6, <1>7 DEF InferNext, InferStep

(* A retraction that reads on has the goal's rule edges ahead, or comes by *)
(* one.                                                                    *)
LEMMA AheadInfer ==
  ASSUME InferOK, GraphOK, GraphOK', InferSeen, CursorOK, EdgeInv, InferNext,
         undone' = undone, missed \subseteq missed',
         Retracts', inf'.at = "scan", ~inf'.removed,
         NEW e \in graph', e \in RuleEdges(graph, Goal)'
  PROVE  Excused(e)' \/ Ahead(e)'
<1>1. e \in Edge /\ e.copy \in Nat /\ e.copy >= e.copy
  BY DEF GraphOK, Edge
<1>2. ASSUME cursor'["infer"] = NULL PROVE Ahead(e)'
  <2>1. Unread("infer", e)'
    BY <1>2, AllAhead
  <2>2. QED BY <1>1, <2>1 DEF Ahead
<1>3. CASE \E f \in Facts : BeginRetract(f)
  BY <1>2, <1>3, RetractBegins DEF AtGoal
<1>4. CASE RetractPreserves \/ RetractReplace
  BY <1>2, <1>4, GoalStep DEF AtGoal, Retracts
<1>5. CASE RetractPage
  <2> DEFINE rel == RelOf[Goal]
  <2>1. /\ inf \in Retracting /\ inf # NULL /\ inf.at = "scan" /\ ~Removed
        /\ graph' = graph /\ Goal' = Goal
    BY <1>5, CollectStep
  <2>2. Retracts /\ Goal \in Facts /\ rel \in Rels
    BY <2>1, RetractionLists
  <2>3. ~inf.removed /\ RuleEdges(GoalsPage, Goal) = {}
    BY <2>1 DEF Removed
  <2>4. e \in RuleEdges(graph, Goal)
    BY <2>1 DEF RuleEdges
  <2>5. Excused(e) \/ Ahead(e)
    BY <2>1, <2>2, <2>3, <2>4 DEF EdgeInv
  <2>6. CASE Excused(e)
    BY <2>6, ExcusedStays
  <2>7. CASE Ahead(e)
    <3>1. PICK x \in RuleEdges(graph, Goal) :
            Id(x) = Id(e) /\ x.copy >= e.copy /\ Unread("infer", x)
      BY <2>7 DEF Ahead
    <3>2. x \in graph /\ x.fact = Goal /\ x.by = "rule"
      BY <3>1 DEF RuleEdges
    <3>3. x \notin PageOf("infer", rel)
      BY <2>3, <3>2 DEF GoalsPage, RuleEdges
    <3>4. Turned("infer", rel)
      <4>1. Turn("infer", rel)
        BY <1>5 DEF RetractPage, Listing
      <4> HIDE DEF rel
      <4>2. QED BY <2>1, <2>2, <4>1, TurnEffect DEF Writers
    <3>5. Unread("infer", x)'
      <4>1. RelOf[x.fact] = rel
        BY <3>2
      <4> HIDE DEF rel
      <4>2. QED BY <3>1, <3>2, <3>3, <3>4, <4>1 DEF Turned
    <3>6. QED BY <2>1, <3>1, <3>2, <3>5 DEF Ahead, RuleEdges
  <2>8. QED BY <2>5, <2>6, <2>7
<1>6. CASE \/ \E c \in changes \ handled : BeginIncremental(c)
           \/ BeginAfterIngest \/ UpsertDerived
  BY <1>6, BeginSteps, UpsertStep, Modes DEF AtRest, Starting, Retracts
<1>7. CASE MatchPage \/ NextHop \/ Match \/ ExistingPage
  BY <1>7, PageSteps, MatchStep, ExistingStep, Modes DEF Retracts
<1>8. CASE ScanExisting
  BY <1>8, RecordStep, Modes DEF AtRest, Starting, Retracts
<1>9. CASE RetractScan
  BY <1>9, CollectStep
<1>10. CASE InferFails
  BY <1>10 DEF InferFails, Retracts
<1>11. QED BY <1>3, <1>4, <1>5, <1>6, <1>7, <1>8, <1>9, <1>10 DEF InferNext, InferStep

(* A goal leaves the index when no rule edge of it is left, but for those  *)
(* that slipped out of its listing.                                        *)
LEMMA GoalIsGone ==
  ASSUME InferOK, GraphOK, InferSeen, CursorOK, EdgeInv,
         RetractPreserves \/ RetractReplace, NEW e \in graph', e.fact = Goal, e.by = "rule"
  PROVE  RetractPreserves /\ graph' = graph /\ Excused(e)
<1>1. inf # NULL /\ Retracts /\ Goal \in Facts
  BY GoalStep
<1>2. CASE RetractPreserves
  <2>1. /\ inf.at = "scan" /\ IsShort("infer", RelOf[Goal]) /\ ~Removed /\ graph' = graph
    BY <1>2 DEF RetractPreserves, Listed, Drop
  <2>2. ~inf.removed /\ RuleEdges(GoalsPage, Goal) = {}
    BY <2>1 DEF Removed
  <2>3. e \in RuleEdges(graph, Goal)
    BY <2>1 DEF RuleEdges
  <2>4. CASE Ahead(e)
    <3>1. PICK x \in RuleEdges(graph, Goal) : Unread("infer", x)
      BY <2>4 DEF Ahead
    <3>2. x \in graph /\ x.fact = Goal /\ x.by = "rule"
      BY <3>1 DEF RuleEdges
    <3>3. x \in PageOf("infer", RelOf[Goal])
      <4>1. RelOf[x.fact] = RelOf[Goal]
        BY <3>2
      <4>2. QED BY <2>1, <3>1, <3>2, <4>1, LastPage DEF Writers
    <3>4. QED BY <2>2, <3>2, <3>3 DEF GoalsPage, RuleEdges
  <2>5. Excused(e) \/ Ahead(e)
    BY <1>1, <2>1, <2>2, <2>3 DEF EdgeInv
  <2>6. QED BY <1>2, <2>1, <2>4, <2>5
<1>3. CASE RetractReplace
  <2>1. /\ GoalSeen
        /\ \A x \in graph' \ inf.view : x \in graph /\ GroupOf[x.fact] # GroupOf[Goal]
    BY <1>3, GoalStep, SurvivorsWritten
  <2>2. \A x \in inf.view : ~IsGoals(x)
    BY <2>1 DEF GoalSeen
  <2>3. QED BY <2>1, <2>2 DEF IsGoals
<1>4. QED BY <1>2, <1>3

(* The engine's steps keep EdgeInv: a retraction takes a fact from the     *)
(* index with the rule edges of it.                                        *)
LEMMA EdgeInvInfer ==
  ASSUME GateOK, InferOK, GraphOK, GraphOK', InferSeen, GateSeen, CursorOK, EdgeInv, InferNext,
         Aged("gate"), missed \subseteq missed', UNCHANGED <<gateVars, undone>>
  PROVE  EdgeInv'
<1>1. op' = op /\ undone' = undone
  BY DEF gateVars
<1>2. \A e, x : Id(x) = Id(e) /\ Excused(e) => Excused(x)'
  BY <1>1, ExcusedStays
<1>3. /\ \A e \in graph' : e.fact \in Facts
      /\ \A e \in graph : e.fact \in Facts
      /\ op # NULL => \A e \in op.view : e.fact \in Facts
  BY OpTyped DEF GraphOK, Edge, Materialization
<1>4. ASSUME op # NULL, op.at = "retire"
      PROVE  /\ fresh["gate"] # NULL /\ fresh["gate"] \subseteq fresh'["gate"]
             /\ \A x \in Touched : Id(x) \in fresh'["gate"]
             /\ \A x \in op.view \ graph : Id(x) \in fresh["gate"]
  BY <1>4 DEF GateSeen, Scanned, Aged
<1> DEFINE Indexed(e) == e.by = "rule" => Excused(e)' \/ index'[e.fact] # NULL
           KnownAged == op # NULL /\ op.at = "retire" =>
             \A e \in op.view : Indexed(e) \/ Id(e) \in fresh'["gate"]
<1>5. ASSUME IndexKept PROVE (\A e \in graph' : Indexed(e)) /\ KnownAged
  <2>1. ASSUME NEW e \in graph', e.by = "rule" PROVE Excused(e)' \/ index'[e.fact] # NULL
    <3>1. Excused(e) \/ index[e.fact] # NULL
      <4>1. CASE e \in graph
        BY <2>1, <4>1 DEF EdgeInv
      <4>2. CASE WritesDerived /\ e \in Derived
        <5>1. PICK g \in inf.found : e = NewEdge(g.fact, "rule", 0)
          BY <4>2 DEF Derived
        <5>2. e.fact = g.fact
          BY <5>1 DEF NewEdge
        <5>3. QED BY <4>2, <5>2 DEF WritesDerived, EdgeInv
      <4>3. CASE WritesSurvivors /\ e \in inf.view
        BY <2>1, <4>3 DEF WritesSurvivors, EdgeInv, Retracts
      <4>4. QED BY <4>1, <4>2, <4>3, InferEdges
    <3>2. e.fact \in Facts
      BY <1>3, <2>1
    <3>3. QED BY <1>2, <1>5, <3>1, <3>2 DEF IndexKept
  <2>2. ASSUME op # NULL, op.at = "retire", NEW e \in op.view, e.by = "rule"
        PROVE  Excused(e)' \/ index'[e.fact] # NULL \/ Id(e) \in fresh'["gate"]
    <3>1. Excused(e) \/ index[e.fact] # NULL \/ Id(e) \in fresh["gate"]
      BY <2>2 DEF EdgeInv
    <3>2. index[e.fact] # NULL => index'[e.fact] # NULL
      BY <1>3, <1>5, <2>2 DEF IndexKept
    <3>3. QED BY <1>2, <1>4, <2>2, <3>1, <3>2
  <2>3. QED BY <2>1, <2>2
<1>6. ASSUME RetractPreserves \/ RetractReplace
      PROVE  (\A e \in graph' : Indexed(e)) /\ KnownAged
  <2>1. /\ Goal \in Facts /\ index' = [index EXCEPT ![Goal] = NULL]
        /\ inf # NULL /\ inf.mode = "retract"
    BY <1>6, GoalStep DEF Retracts
  <2>2. \A f \in Facts : f # Goal => index'[f] = index[f]
    BY <2>1 DEF InferOK
  <2>3. \A e \in graph' : e.fact = Goal /\ e.by = "rule" => e \in graph /\ Excused(e)
    BY <1>6, GoalIsGone
  <2>4. ASSUME NEW e \in graph', e.by = "rule" PROVE Excused(e)' \/ index'[e.fact] # NULL
    <3>1. CASE e.fact = Goal
      BY <1>2, <2>3, <2>4, <3>1
    <3>2. CASE e.fact # Goal
      <4>1. Excused(e) \/ index[e.fact] # NULL
        <5>1. CASE e \in graph
          BY <2>4, <5>1 DEF EdgeInv
        <5>2. CASE WritesDerived
          BY <2>1, <5>2 DEF WritesDerived
        <5>3. CASE WritesSurvivors /\ e \in inf.view
          BY <2>4, <5>3 DEF WritesSurvivors, EdgeInv, Retracts
        <5>4. QED BY <5>1, <5>2, <5>3, InferEdges
      <4>2. QED BY <1>2, <1>3, <2>2, <2>4, <3>2, <4>1
    <3>3. QED BY <3>1, <3>2
  <2>5. ASSUME op # NULL, op.at = "retire", NEW e \in op.view, e.by = "rule"
        PROVE  Excused(e)' \/ index'[e.fact] # NULL \/ Id(e) \in fresh'["gate"]
    <3>1. Excused(e) \/ index[e.fact] # NULL \/ Id(e) \in fresh["gate"]
      BY <2>5 DEF EdgeInv
    <3>2. CASE e.fact # Goal
      BY <1>2, <1>3, <1>4, <2>2, <2>5, <3>1, <3>2
    <3>3. CASE e.fact = Goal /\ e \in graph'
      BY <1>2, <2>3, <2>5, <3>3
    <3>4. CASE e \in graph /\ e \notin graph'
      BY <1>4, <2>5, <3>4 DEF Touched
    <3>5. CASE e \notin graph
      BY <1>4, <2>5, <3>5
    <3>6. QED BY <3>2, <3>3, <3>4, <3>5
  <2>6. QED BY <2>4, <2>5
<1>7. (\A e \in graph' : Indexed(e)) /\ KnownAged
  BY <1>5, <1>6, IndexSteps
<1>8. ASSUME Retracts', NEW x \in inf'.view PROVE Indexed(x)
  <2>1. index' = index
    BY <1>8, InferViews
  <2>2. CASE Retracts /\ x \in inf.view
    BY <1>2, <2>1, <2>2 DEF EdgeInv
  <2>3. CASE \E e \in graph : Id(e) = Id(x) /\ e.by = x.by /\ e.fact = x.fact /\ e.pid = x.pid
    BY <1>2, <2>1, <2>3 DEF EdgeInv
  <2>4. QED BY <1>8, <2>2, <2>3, InferViews
<1>9. ASSUME inf' # NULL, inf'.mode = "run", inf'.at = "upsert", NEW g \in inf'.found
      PROVE  index'[g.fact] # NULL
  BY <1>9, OnlyRecordsUpsert
<1>10. ASSUME Retracts', inf'.at = "scan", ~inf'.removed, NEW e \in RuleEdges(graph, Goal)'
       PROVE  Excused(e)' \/ Ahead(e)'
  <2>1. e \in graph'
    BY <1>10 DEF RuleEdges
  <2>2. QED BY <1>1, <1>10, <2>1, AheadInfer
<1>11. QED BY <1>1, <1>7, <1>8, <1>9, <1>10 DEF EdgeInv

-----------------------------------------------------------------------------
(* A failed engine call is counted.                                        *)
LEMMA InferFailuresGrow ==
  ASSUME failures \in 0 .. MaxFailures, InferNext
  PROVE  /\ failures' \in 0 .. MaxFailures
         /\ failures' = failures \/ failures' # 0
         /\ InferFails => failures' # 0
<1>1. UNCHANGED failures \/ EngineFails
  BY DEF InferNext, InferStep, BeginIncremental, BeginAfterIngest, BeginRetract, Matching,
         MatchPage, NextHop, Match, ExistingPage, ScanExisting, UpsertDerived, RetractPage,
         RetractPreserves, RetractScan, RetractReplace, InferFails, graphVars
<1>2. InferFails => EngineFails
  BY DEF InferFails
<1>3. QED BY <1>1, <1>2, GraphAssumption DEF EngineFails

(* Dependents is closed: what was derived from a dependent is one.         *)
LEMMA DependentsAreClosed ==
  ASSUME NEW f \in Facts, NEW d \in Facts, index[d] # NULL, d \notin Dependents(f)
  PROVE  \A s \in index[d] : s \notin Dependents(f)
<1>1. PICK C \in SUBSET Facts : ClosedFrom(f, C) /\ d \notin C
  BY DEF Dependents
<1>2. Dependents(f) \subseteq C
  BY <1>1 DEF Dependents
<1>3. QED BY <1>1, <1>2 DEF ClosedFrom

(* What an indexed fact may rest on.                                       *)
Rests(s) == Asserted(s) \/ index[s] # NULL \/ Disturbed(s)

(* What has been disturbed stays so.                                       *)
LEMMA DisturbedStays ==
  ASSUME undone \subseteq undone', missed \subseteq missed'
  PROVE  \A s : Disturbed(s) => Disturbed(s)'
BY DEF Disturbed

(* An upsert of derived edges leaves what is asserted so.                  *)
LEMMA UpsertAsserts ==
  ASSUME InferOK, GraphOK, InferSeen, WritesDerived, NEW s, Asserted(s)
  PROVE  Asserted(s)'
<1>1. graph' = Upserted(Derived)
  BY DerivedWritten
<1>2. PICK e \in graph : e.fact = s
  BY DEF Asserted
<1>3. CASE e \in graph'
  BY <1>2, <1>3 DEF Asserted
<1>4. CASE e \notin graph'
  <2>1. PICK n \in Derived : Id(n) = Id(e)
    BY <1>1, <1>4 DEF Upserted
  <2>2. n \in graph' /\ n.fact = s
    BY <1>1, <1>2, <2>1 DEF Upserted, Id
  <2>3. QED BY <2>2 DEF Asserted
<1>5. QED BY <1>3, <1>4

(* A write-back of survivors keeps what they assert, and what is no        *)
(* neighbour of the goal.                                                  *)
LEMMA ReplaceAsserts ==
  ASSUME InferOK, GraphOK, InferSeen, WritesSurvivors, NEW s, Spared(s)
  PROVE  Asserted(s)'
<1>1. /\ inf.at = "replace" /\ inf.view \subseteq graph'
      /\ \A e \in graph \ graph' : GroupOf[e.fact] = GroupOf[Goal]
  BY SurvivorsWritten
<1>2. CASE GroupOf[s] = GroupOf[Goal]
  <2>1. PICK x \in inf.view : x.fact = s
    BY <1>1, <1>2 DEF Spared
  <2>2. QED BY <1>1, <2>1 DEF Asserted
<1>3. CASE GroupOf[s] # GroupOf[Goal]
  <2>1. PICK e \in graph : e.fact = s
    BY DEF Spared, Asserted
  <2>2. e \in graph'
    BY <1>1, <1>3, <2>1
  <2>3. QED BY <2>1, <2>2 DEF Asserted
<1>4. QED BY <1>2, <1>3

(* At the start of a retraction all that is asserted is ahead.             *)
LEMMA SparedAtFirst ==
  ASSUME GraphOK', NEW left, AtGoal(left), NEW s, Asserted(s)'
  PROVE  Spared(s)'
<1>1. PICK e \in graph' : e.fact = s
  BY DEF Asserted
<1>2. Unread("infer", e)'
  BY <1>1, AllAhead DEF AtGoal
<1>3. QED BY <1>1, <1>2 DEF Spared, AtGoal

(* A page of a retraction's listing collects what it passes.               *)
LEMMA SparedCollected ==
  ASSUME InferOK, GraphOK, InferSeen, RetractPage \/ RetractScan,
         NEW s, s \notin inf.left, Spared(s)
  PROVE  Spared(s)'
<1>1. /\ inf \in Retracting /\ inf # NULL /\ inf.at = "scan" /\ Goal' = Goal
      /\ RetractPage => inf'.at = "scan"
      /\ inf'.view = Survivors /\ graph' = graph
  BY CollectStep
<1>2. /\ Goal \in inf.left /\ RelOf[Goal] \in Rels
      /\ \A f \in Facts : GroupOf[f] = GroupOf[Goal] => RelOf[f] = RelOf[Goal]
  BY <1>1, RetractionLists
<1>3. /\ inf.view \subseteq Survivors
      /\ \A e \in PageOf("infer", RelOf[Goal]) :
           GroupOf[e.fact] = GroupOf[Goal] => Shows(Survivors, e) \/ IsGoals(e)
  BY <1>1, SurvivorsShow
<1>4. Asserted(s)'
  BY <1>1 DEF Spared, Asserted
<1>5. CASE GroupOf[s] # GroupOf[Goal] \/ \E x \in inf.view : x.fact = s
  BY <1>1, <1>3, <1>4, <1>5 DEF Spared
<1>6. ASSUME GroupOf[s] = GroupOf[Goal], NEW e \in graph, e.fact = s, Unread("infer", e)
      PROVE  Spared(s)'
  <2>1. RelOf[e.fact] = RelOf[Goal] /\ "infer" \in Writers
    BY <1>2, <1>6 DEF GraphOK, Edge, Writers
  <2>2. CASE e \in PageOf("infer", RelOf[Goal])
    <3>1. Shows(Survivors, e)
      BY <1>2, <1>3, <1>6, <2>2 DEF IsGoals
    <3>2. \E x \in inf'.view : x.fact = s
      BY <1>1, <1>6, <3>1 DEF Shows, Id
    <3>3. QED BY <1>4, <3>2 DEF Spared
  <2>3. CASE RetractPage
    <3>1. Turn("infer", RelOf[Goal])
      BY <2>3 DEF RetractPage, Listing
    <3>2. Turned("infer", RelOf[Goal])
      BY <1>1, <1>2, <2>1, <3>1, TurnEffect
    <3>3. CASE Unread("infer", e)'
      BY <1>1, <1>4, <1>6, <2>3, <3>3 DEF Spared
    <3>4. QED BY <1>6, <2>1, <2>2, <3>2, <3>3 DEF Turned
  <2>4. CASE RetractScan
    <3>1. IsShort("infer", RelOf[Goal])
      BY <2>4 DEF RetractScan, Listed
    <3>2. e \in PageOf("infer", RelOf[Goal])
      BY <1>6, <2>1, <3>1, LastPage
    <3>3. QED BY <2>2, <3>2
  <2>5. QED BY <2>3, <2>4
<1>7. QED BY <1>1, <1>5, <1>6 DEF Spared

(* When a goal is dealt with, the facts that are not left keep what they   *)
(* were derived from.                                                      *)
LEMMA GoalKeepsSupport ==
  ASSUME InferOK, GraphOK, InferSeen, CursorOK, SupportInv, failures = 0,
         undone' = undone, missed \subseteq missed',
         RetractPreserves \/ RetractReplace,
         NEW d \in Facts, d \notin inf.left \ {Goal}, index'[d] # NULL, NEW s \in index'[d]
  PROVE  s \notin inf.left /\ Rests(s)'
<1>1. /\ inf \in Retracting /\ inf # NULL /\ Goal \in inf.left /\ Goal \in Facts /\ Retracts
      /\ index' = [index EXCEPT ![Goal] = NULL]
      /\ RetractReplace => WritesSurvivors
  BY GoalStep
<1>2. d # Goal /\ d \notin inf.left /\ index'[d] = index[d]
  BY <1>1 DEF InferOK
<1>3. s \in Facts
  BY <1>2, NullAssumption DEF InferOK
<1>4. s \notin inf.left /\ (index[s] # NULL \/ Disturbed(s) \/ Spared(s))
  BY <1>1, <1>2 DEF SupportInv
<1>5. index'[s] = index[s]
  BY <1>1, <1>3, <1>4 DEF InferOK
<1>6. Disturbed(s) => Disturbed(s)'
  BY DisturbedStays
<1>7. ASSUME Spared(s) PROVE Asserted(s)'
  <2>1. CASE RetractPreserves
    BY <1>7, <2>1 DEF RetractPreserves, Drop, Spared, Asserted
  <2>2. CASE RetractReplace
    BY <1>1, <1>7, <2>2, ReplaceAsserts
  <2>3. QED BY <2>1, <2>2
<1>8. QED BY <1>4, <1>5, <1>6, <1>7 DEF Rests

(* The engine's steps keep SupportInv: what is derived rests on matched    *)
(* facts, and what is retracted goes with all that was derived from it.    *)
LEMMA SupportInvInfer ==
  ASSUME InferOK, GraphOK, GraphOK', InferSeen, CursorOK, SupportInv, InferNext,
         failures \in 0 .. MaxFailures, undone' = undone, missed \subseteq missed'
  PROVE  SupportInv'
<1> SUFFICES ASSUME failures' = 0 PROVE SupportInv'
  BY DEF SupportInv
<1>1. failures = 0 /\ ~InferFails
  BY InferFailuresGrow
<1>2. \A s : Disturbed(s) => Disturbed(s)'
  BY DisturbedStays
<1>3. ~Retracts => \A d \in Facts : index[d] # NULL => \A s \in index[d] : Rests(s)
  BY <1>1 DEF SupportInv, Rests
<1>4. ASSUME ~Retracts',
             inf' # NULL /\ inf'.mode = "run" /\ inf'.at = "match" =>
               \A s \in inf'.seen : Asserted(s)' \/ Disturbed(s)',
             inf' # NULL /\ inf'.mode = "run" /\ inf'.at = "existing" =>
               \A g \in inf'.found : \A s \in g.support : Asserted(s)' \/ Disturbed(s)',
             \A d \in Facts : index'[d] # NULL => \A s \in index'[d] : Rests(s)'
      PROVE  SupportInv'
  BY <1>4 DEF SupportInv, Rests
<1>5. ASSUME AtRest, \A d \in Facts : index'[d] # NULL => \A s \in index'[d] : Rests(s)'
      PROVE  SupportInv'
  BY <1>4, <1>5, Modes DEF AtRest, Starting, Retracts
<1>6. ASSUME ~Retracts, index' = index, \A s : Asserted(s) => Asserted(s)'
      PROVE  \A d \in Facts : index'[d] # NULL => \A s \in index'[d] : Rests(s)'
  <2>1. \A s : Rests(s) => Rests(s)'
    BY <1>2, <1>6 DEF Rests
  <2>2. QED BY <1>3, <1>6, <2>1
<1>7. graph' = graph => \A s : Asserted(s) => Asserted(s)'
  BY DEF Asserted
<1>8. CASE \/ \E c \in changes \ handled : BeginIncremental(c)
           \/ BeginAfterIngest
  <2>1. AtRest /\ inf = NULL /\ index' = index /\ graph' = graph
    BY <1>8, BeginSteps
  <2>2. QED BY <1>5, <1>6, <1>7, <2>1 DEF Retracts
<1>9. CASE \E f \in Facts : BeginRetract(f)
  <2>1. PICK f \in Facts : BeginRetract(f)
    BY <1>9
  <2>2. inf = NULL /\ index' = index /\ graph' = graph /\ AtGoal(Dependents(f))
    BY <2>1, RetractBegins
  <2>3. inf' \in Retracting /\ inf'.left = Dependents(f)
    BY <2>2 DEF AtGoal
  <2>4. ASSUME NEW d \in Facts \ inf'.left, index'[d] # NULL, NEW s \in index'[d]
        PROVE  s \notin inf'.left /\ (index'[s] # NULL \/ Disturbed(s)' \/ Spared(s)')
    <3>1. s \notin inf'.left
      BY <2>2, <2>3, <2>4, DependentsAreClosed
    <3>2. Rests(s)'
      BY <1>6, <1>7, <2>2, <2>4 DEF Retracts
    <3>3. Asserted(s)' => Spared(s)'
      BY <2>2, SparedAtFirst
    <3>4. QED BY <3>1, <3>2, <3>3 DEF Rests
  <2>5. QED BY <2>3, <2>4, Modes DEF SupportInv, Retracts
<1>10. ASSUME inf # NULL, inf.mode = "run", inf.at = "match", NEW s \in Matched, graph' = graph
       PROVE  Asserted(s)' \/ Disturbed(s)'
  <2>1. s \in inf.seen \/ Asserted(s)
    BY <1>10, MatchedIsSeen
  <2>2. Asserted(s) \/ Disturbed(s)
    BY <1>1, <1>10, <2>1 DEF SupportInv
  <2>3. QED BY <1>2, <1>7, <1>10, <2>2
<1>11. CASE MatchPage \/ NextHop
  <2>1. /\ inf \in Run /\ inf' \in Run /\ inf.at = "match" /\ inf'.at = "match"
        /\ inf'.seen = Matched /\ index' = index /\ graph' = graph
    BY <1>11, PageSteps
  <2>2. ~Retracts /\ ~Retracts' /\ inf # NULL /\ inf.mode = "run"
    BY <2>1, Modes DEF Retracts
  <2>3. QED BY <1>4, <1>6, <1>7, <1>10, <2>1, <2>2
<1>12. CASE Match
  <2>1. /\ inf' \in Run /\ inf'.at = "existing" /\ inf'.found = Joined(inf.rule, Matched)
        /\ index' = index /\ graph' = graph /\ inf # NULL /\ inf.mode = "run"
        /\ inf.at = "match"
    BY <1>12, MatchStep
  <2>2. ~Retracts /\ ~Retracts'
    BY <2>1, Modes DEF Retracts
  <2>3. \A g \in inf'.found : \A s \in g.support : Asserted(s)' \/ Disturbed(s)'
    BY <1>10, <2>1 DEF Joined
  <2>4. QED BY <1>4, <1>6, <1>7, <2>1, <2>2, <2>3
<1>13. CASE ExistingPage
  <2>1. /\ inf \in Run /\ inf' \in Run /\ inf.at = "existing" /\ inf'.at = "existing"
        /\ inf'.found = inf.found /\ index' = index /\ graph' = graph
    BY <1>13, ExistingStep
  <2>2. ~Retracts /\ ~Retracts' /\ inf # NULL /\ inf.mode = "run"
    BY <2>1, Modes DEF Retracts
  <2>3. \A g \in inf.found : \A s \in g.support : Asserted(s) \/ Disturbed(s)
    BY <1>1, <2>1, <2>2 DEF SupportInv
  <2>4. QED BY <1>2, <1>4, <1>6, <1>7, <2>1, <2>2, <2>3
<1>14. CASE ScanExisting
  <2>1. /\ inf \in Run /\ inf # NULL /\ inf.at = "existing" /\ graph' = graph
        /\ index' \in [Facts -> {NULL} \cup SUBSET Facts]
        /\ \A f \in Facts : index[f] # NULL => index'[f] = index[f]
        /\ \A f \in Facts : index'[f] # index[f] =>
             \E g \in inf.found : g.fact = f /\ index'[f] = g.support
        /\ AtRest \/ (inf' \in Run /\ inf'.at = "upsert")
    BY <1>14, RecordStep
  <2>2. inf.mode = "run" /\ ~Retracts
    BY <2>1, Modes DEF Retracts
  <2>3. \A g \in inf.found : \A s \in g.support : Asserted(s) \/ Disturbed(s)
    BY <1>1, <2>1, <2>2 DEF SupportInv
  <2>4. \A s \in Facts : Rests(s) => Rests(s)'
    BY <1>2, <1>7, <2>1 DEF Rests
  <2>5. ASSUME NEW d \in Facts, index'[d] # NULL, NEW s \in index'[d] PROVE Rests(s)'
    <3>1. s \in Facts
      BY <2>1, <2>5
    <3>2. CASE index'[d] = index[d]
      BY <1>3, <2>2, <2>4, <2>5, <3>1, <3>2
    <3>3. CASE index'[d] # index[d]
      <4>1. Asserted(s) \/ Disturbed(s)
        BY <2>1, <2>3, <2>5, <3>3
      <4>2. QED BY <2>4, <3>1, <4>1 DEF Rests
    <3>4. QED BY <3>2, <3>3
  <2>6. CASE AtRest
    BY <1>5, <2>5, <2>6
  <2>7. CASE inf' \in Run /\ inf'.at = "upsert"
    BY <1>4, <2>5, <2>7, Modes DEF Retracts
  <2>8. QED BY <2>1, <2>6, <2>7
<1>15. CASE UpsertDerived
  <2>1. inf \in Run /\ AtRest /\ index' = index /\ WritesDerived
    BY <1>15, UpsertStep
  <2>2. QED BY <1>5, <1>6, <2>1, UpsertAsserts, Modes DEF Retracts
<1>16. CASE RetractPreserves \/ RetractReplace
  <2>1. \/ inf' = NULL /\ inf.left \subseteq {Goal}
        \/ AtGoal(inf.left \ {Goal})
    BY <1>16, GoalStep
  <2>2. \A d \in Facts : d \notin inf.left \ {Goal} /\ index'[d] # NULL =>
          \A s \in index'[d] : s \notin inf.left /\ Rests(s)'
    BY <1>1, <1>16, GoalKeepsSupport
  <2>3. CASE inf' = NULL /\ inf.left \subseteq {Goal}
    BY <1>5, <2>2, <2>3 DEF AtRest
  <2>4. CASE AtGoal(inf.left \ {Goal})
    <3>1. inf' \in Retracting /\ inf'.left = inf.left \ {Goal}
      BY <2>4 DEF AtGoal
    <3>2. \A s : Asserted(s)' => Spared(s)'
      BY <2>4, SparedAtFirst
    <3>3. \A d \in Facts \ inf'.left : index'[d] # NULL => \A s \in index'[d] :
            s \notin inf'.left /\ (index'[s] # NULL \/ Disturbed(s)' \/ Spared(s)')
      BY <2>2, <3>1, <3>2 DEF Rests
    <3>4. QED BY <3>1, <3>3, Modes DEF SupportInv, Retracts
  <2>5. QED BY <2>1, <2>3, <2>4
<1>17. CASE RetractPage \/ RetractScan
  <2>1. /\ inf \in Retracting /\ inf' \in Retracting /\ inf'.left = inf.left
        /\ index' = index
    BY <1>17, CollectStep
  <2>2. Retracts
    BY <2>1, Modes DEF Retracts
  <2>3. ASSUME NEW d \in Facts \ inf'.left, index'[d] # NULL, NEW s \in index'[d]
        PROVE  s \notin inf'.left /\ (index'[s] # NULL \/ Disturbed(s)' \/ Spared(s)')
    <3>1. s \notin inf.left /\ (index[s] # NULL \/ Disturbed(s) \/ Spared(s))
      BY <1>1, <2>1, <2>2, <2>3 DEF SupportInv
    <3>2. Spared(s) => Spared(s)'
      BY <1>17, <3>1, SparedCollected
    <3>3. QED BY <1>2, <2>1, <3>1, <3>2
  <2>4. QED BY <2>1, <2>3, Modes DEF SupportInv, Retracts
<1>18. QED BY <1>1, <1>8, <1>9, <1>11, <1>12, <1>13, <1>14, <1>15, <1>16, <1>17
           DEF InferNext, InferStep

-----------------------------------------------------------------------------
(* The other writers bring an edge of their own, in the place of the first *)
(* one of its identity.                                                    *)
Brings ==
  /\ \A e \in graph \ graph' : e.copy = 0 /\ \E y \in graph' : Id(y) = Id(e) /\ y.copy = 0
  /\ \A e \in graph \ graph', y \in graph' :
       Id(y) = Id(e) /\ y.copy = 0 => y.by \in {"user", "ingest"}
  /\ \A e \in graph' : e \in graph \/ e.by \in {"user", "ingest"}
  /\ UNCHANGED <<failures, cursor, changes, handled, gateVars, inferVars, undone>>

(* Findings and ingestion bring an edge, whatever is there.                *)
LEMMA OthersBring ==
  ASSUME GraphOK, NEW a \in Arriving, Others(OtherAsserts(a[1], a[2], a[3]))
  PROVE  /\ GraphOK' /\ Brings /\ missed \subseteq missed' /\ \A v \in Writers : Aged(v)
         /\ arrivals < MaxArrivals /\ arrivals' = arrivals + 1
<1> DEFINE new == [NewEdge(a[1], a[2], 0) EXCEPT !.dated = a[3]]
<1>1. a[1] \in Facts /\ a[2] \in {"user", "ingest"} /\ a[3] \in BOOLEAN
  BY ArrivingAssumption
<1>2. new \in Edge /\ new.by = a[2] /\ new.copy = 0
  BY <1>1 DEF NewEdge, Edge
<1>3. /\ Put("other", Upserted({new}))
      /\ arrivals < MaxArrivals /\ arrivals' = arrivals + 1
      /\ UNCHANGED <<failures, cursor, changes, handled, gateVars, inferVars, undone>>
  BY DEF Others, OtherAsserts
<1> HIDE DEF new
<1>4. IsFiniteSet({new}) /\ {new} \in SUBSET Edge
  BY <1>2, FS_Singleton
<1>5. /\ Upserted({new}) \in SUBSET Edge /\ IsFiniteSet(Upserted({new}))
      /\ new \in Upserted({new})
      /\ \A e \in Upserted({new}) : e \in graph \/ e = new
      /\ \A e \in graph \ Upserted({new}) : e.copy = 0 /\ Id(new) = Id(e)
  BY <1>4, UpsertedKeeps
<1>6. graph' = Upserted({new}) /\ Ages("other")
  BY <1>3, <1>5, PutEffect DEF Closes
<1>7. ASSUME NEW e \in graph \ graph', NEW y \in graph', Id(y) = Id(e), y.copy = 0
      PROVE  y = new
  <2>1. Id(y) = Id(new)
    BY <1>5, <1>6, <1>7
  <2>2. QED BY <1>6, <1>7, <2>1 DEF Upserted
<1>8. Brings
  BY <1>1, <1>2, <1>3, <1>5, <1>6, <1>7 DEF Brings
<1>9. \A v \in Writers : v # "other"
  BY DEF Writers
<1>10. QED BY <1>3, <1>6, <1>8, <1>9 DEF Ages

(* What was there has a successor in its place.                            *)
LEMMA BringsKeepsPlaces ==
  ASSUME Brings, NEW e \in graph
  PROVE  \E y \in graph' : Id(y) = Id(e) /\ y.copy = e.copy
BY DEF Brings

(* Who leaves the queue and the engine alone keeps what is said of them.   *)
LEMMA LandInvBrings ==
  ASSUME LandInv, Brings
  PROVE  LandInv'
<1>1. UNCHANGED <<proposals, op, notes, links, assigned, unsure, inf>>
  BY DEF Brings, gateVars, engineVars, inferVars
<1>2. \A e : Backed(e) => Backed(e)'
  BY <1>1 DEF Backed, Pids
<1>3. \A e \in graph' : Backed(e)
  BY DEF Brings, LandInv, Backed
<1>4. QED BY <1>1, <1>2, <1>3 DEF LandInv, Retracts

(* A goal's edge that is ahead stays so with those before it, unless all   *)
(* of them are overwritten or one slips out of the listing.                *)
LEMMA AheadBrings ==
  ASSUME GraphOK, GraphOK', EdgeInv, CursorOK, Brings, Aged("infer"), missed \subseteq missed',
         Retracts, inf \in Retracting, Goal \in Facts, inf.at = "scan", ~inf.removed,
         NEW e \in graph', e.fact = Goal, e.by = "rule"
  PROVE  Excused(e)' \/ Ahead(e)'
<1>1. e \in graph /\ undone' = undone /\ Goal' = Goal
  BY DEF Brings, inferVars, Goal
<1>2. CASE Excused(e)
  BY <1>1, <1>2, ExcusedStays
<1>3. ASSUME NEW x \in RuleEdges(graph, Goal), Id(x) = Id(e), x.copy >= e.copy,
             Unread("infer", x)
      PROVE  Excused(e)' \/ Ahead(e)'
  <2>1. x \in graph /\ x \in Edge /\ e \in Edge /\ x.fact = Goal /\ x.by = "rule"
    BY <1>3 DEF RuleEdges, GraphOK
  <2>2. x \in graph'
    <3> SUFFICES ASSUME x \notin graph' PROVE FALSE
      OBVIOUS
    <3>1. x.copy = 0
      BY <2>1 DEF Brings
    <3>2. e.copy = 0
      BY <1>3, <2>1, <3>1 DEF Edge
    <3>3. e.by \in {"user", "ingest"}
      BY <1>3, <2>1, <3>2 DEF Brings
    <3>4. QED BY <3>3
  <2>3. Unread("infer", x)' \/ Id(x) \in missed'
    BY <1>3, <2>1, <2>2, AheadAges
  <2>4. CASE Id(x) \in missed'
    BY <1>3, <2>4 DEF Excused
  <2>5. CASE Unread("infer", x)'
    <3>1. x \in RuleEdges(graph', Goal')
      BY <1>1, <2>1, <2>2 DEF RuleEdges
    <3>2. QED BY <1>3, <2>5, <3>1 DEF Ahead
  <2>6. QED BY <2>3, <2>4, <2>5
<1>4. Excused(e) \/ Ahead(e)
  BY <1>1 DEF EdgeInv, RuleEdges
<1>5. QED BY <1>2, <1>3, <1>4 DEF Ahead

(* The others keep EdgeInv, as they derive nothing.                        *)
LEMMA EdgeInvBrings ==
  ASSUME GraphOK, GraphOK', InferOK, GateSeen, InferSeen, EdgeInv, CursorOK, Brings,
         Aged("gate"), Aged("infer"), missed \subseteq missed'
  PROVE  EdgeInv'
<1>1. /\ UNCHANGED <<op, inf, index, undone>> /\ Goal' = Goal
      /\ (Retracts' <=> Retracts)
  BY DEF Brings, gateVars, inferVars, Goal, Retracts
<1>2. op # NULL /\ op.at = "retire" => fresh["gate"] \subseteq fresh'["gate"]
  BY DEF GateSeen, Scanned, Aged
<1>3. \A e \in graph' : e.by = "rule" => e \in graph
  BY DEF Brings
<1>4. \A e : Excused(e) => Excused(e)'
  BY <1>1, ExcusedStays
<1>5. ASSUME Retracts, inf.at = "scan", ~inf.removed, NEW e \in RuleEdges(graph, Goal)'
      PROVE  Excused(e)' \/ Ahead(e)'
  <2>1. e \in graph' /\ e.fact = Goal /\ e.by = "rule"
    BY <1>1, <1>5 DEF RuleEdges
  <2>2. inf \in Retracting /\ Goal \in Facts
    BY <1>5, GoalTyped DEF InferOK
  <2>3. QED BY <1>5, <2>1, <2>2, AheadBrings
<1>6. QED BY <1>1, <1>2, <1>3, <1>4, <1>5 DEF EdgeInv

(* The others keep SupportInv, as they take away no assertion.             *)
LEMMA SupportInvBrings ==
  ASSUME GraphOK, GraphOK', InferOK, InferSeen, SupportInv, CursorOK, Brings,
         Aged("infer"), missed \subseteq missed'
  PROVE  SupportInv'
<1>1. /\ UNCHANGED <<inf, index, undone, failures>> /\ Goal' = Goal
      /\ (Retracts' <=> Retracts)
  BY DEF Brings, inferVars, Goal, Retracts
<1>2. \A s : Disturbed(s) => Disturbed(s)'
  BY <1>1, DisturbedStays
<1>3. \A s : Asserted(s) => Asserted(s)'
  BY BringsKeepsPlaces DEF Asserted, Id
<1>4. ASSUME Retracts, NEW s, Spared(s) PROVE Spared(s)' \/ Disturbed(s)'
  <2>1. /\ inf \in Retracting /\ Goal \in Facts
        /\ \A f \in Facts : GroupOf[f] = GroupOf[Goal] => RelOf[f] = RelOf[Goal]
    BY <1>4, GoalTyped DEF InferOK
  <2>2. CASE GroupOf[s] # GroupOf[Goal] \/ \E x \in inf.view : x.fact = s
    BY <1>1, <1>3, <1>4, <2>2 DEF Spared
  <2>3. ASSUME GroupOf[s] = GroupOf[Goal], inf.at = "scan",
               NEW e \in graph, e.fact = s, Unread("infer", e)
        PROVE  Spared(s)' \/ Disturbed(s)'
    <3>1. e \in Edge /\ RelOf[e.fact] = RelOf[Goal]
      BY <2>1, <2>3 DEF GraphOK, Edge
    <3>2. PICK y \in graph' : Id(y) = Id(e) /\ y.copy = e.copy
      BY BringsKeepsPlaces
    <3>3. Unread("infer", y)' \/ Id(e) \in missed'
      BY <1>4, <2>1, <2>3, <3>1, <3>2, AheadAges
    <3>4. CASE Id(e) \in missed'
      BY <2>3, <3>1, <3>4, IdsOf DEF Disturbed
    <3>5. CASE Unread("infer", y)'
      <4>1. y.fact = s
        BY <2>3, <3>2 DEF Id
      <4>2. QED BY <1>1, <1>3, <1>4, <2>3, <3>2, <3>5, <4>1 DEF Spared
    <3>6. QED BY <3>3, <3>4, <3>5
  <2>4. QED BY <1>4, <2>2, <2>3 DEF Spared
<1>5. QED BY <1>1, <1>2, <1>3, <1>4 DEF SupportInv

(* The queue's invariants are about the gate's variables alone.            *)
LEMMA QueueIsKept ==
  ASSUME GateOK, OpInv, TellInv, UNCHANGED <<gateVars, changes>>, handled' \subseteq changes
  PROVE  GateOK' /\ OpInv' /\ TellInv'
<1>1. UNCHANGED <<proposals, op, notes, links, tags, assigned, unsure, cut, changes>>
  BY DEF gateVars, engineVars
<1>2. GateOK'
  BY <1>1 DEF GateOK, Pids
<1>3. OpInv'
  BY <1>1 DEF OpInv, Ready, Pending, kind, Pids
<1>4. Page' = Page
  BY <1>1 DEF Page, Earliest, Before, Pids
<1>5. TellInv'
  BY <1>1, <1>4 DEF TellInv, LandedAreTold, Pids
<1>6. QED BY <1>2, <1>3, <1>5

(* The engine hands over nothing, and works off what is there.             *)
LEMMA InferKeepsChanges ==
  ASSUME GateOK, InferNext
  PROVE  changes' = changes /\ handled' \subseteq changes
BY DEF GateOK, InferNext, InferStep, BeginIncremental, BeginAfterIngest, BeginRetract, Matching,
       MatchPage, NextHop, Match, ExistingPage, ScanExisting, UpsertDerived, RetractPage,
       RetractPreserves, RetractScan, RetractReplace, InferFails

(* The gate brings no batch.                                               *)
LEMMA GateKeepsArrivals ==
  ASSUME GateNext
  PROVE  arrivals' = arrivals
BY DEF GateNext, GateStep, PromoteForAgent, Submit, Approve, Reject, Begin, CheckPage,
       CheckPasses, CheckRefuses, CheckFails, WriteEdge, WriteTag, WriteNote, WriteLink, Refuse,
       RetireScan, RetireReplace, RetireFindsNothing, WriteFails, Landed, Abort, graphVars

(* The engine's work starts with one now and then.                         *)
LEMMA InferCountsArrivals ==
  ASSUME arrivals \in 0 .. MaxArrivals, InferNext
  PROVE  arrivals' \in 0 .. MaxArrivals
<1>1. arrivals' = arrivals \/ (arrivals < MaxArrivals /\ arrivals' = arrivals + 1)
  BY DEF InferNext, InferStep, BeginIncremental, BeginAfterIngest, BeginRetract, Matching,
         MatchPage, NextHop, Match, ExistingPage, ScanExisting, UpsertDerived, RetractPage,
         RetractPreserves, RetractScan, RetractReplace, InferFails, graphVars
<1>2. QED BY <1>1, GraphAssumption
-----------------------------------------------------------------------------
(* The invariant, taken apart and put together again.                      *)
TypeParts ==
  /\ GraphOK /\ GateOK /\ InferOK /\ CursorOK
  /\ failures \in 0 .. MaxFailures /\ arrivals \in 0 .. MaxArrivals /\ undone \subseteq Ids

(* TypeOK and finiteness are the conjunction of their parts.               *)
LEMMA TypeOKIsParts ==
  /\ TypeOK /\ IsFiniteSet(graph) <=> TypeParts
  /\ TypeOK' /\ IsFiniteSet(graph') <=> TypeParts'
BY DEF TypeOK, TypeParts, GraphOK, GateOK, InferOK, CursorOK

(* What a step undoes are identities of edges.                             *)
LEMMA UndoingIsTyped ==
  ASSUME GraphOK, GraphOK'
  PROVE  Undoing \subseteq Ids
BY IdIsId DEF GraphOK, Undoing

(* Everything holds at the start.                                          *)
LEMMA InitIsOK ==
  Init => IInv
<1> SUFFICES ASSUME Init PROVE IInv
  OBVIOUS
<1>1. /\ proposals = <<>> /\ op = NULL /\ notes = {} /\ links = {} /\ assigned = {}
      /\ unsure = {} /\ cut = {} /\ inf = NULL /\ index = [f \in Facts |-> NULL]
      /\ graph = {NewEdge(f, "ingest", 0) : f \in Initial}
      /\ failures = 0 /\ arrivals = 0 /\ missed = {}
      /\ cursor = [w \in Writers |-> NULL] /\ fresh = [w \in Writers |-> NULL]
      /\ changes = {} /\ handled = {} /\ undone = {}
  BY DEF Init, GraphInit, GateInit, InferInit
<1>2. Pids = {}
  BY <1>1 DEF Pids
<1>3. GraphOK /\ CursorOK /\ \A e \in graph : e.by = "ingest"
  <2>1. \A f \in Initial : NewEdge(f, "ingest", 0) \in Edge
    BY NewEdgeIsEdge, GraphAssumption
  <2>2. graph \subseteq Edge
    BY <1>1, <2>1
  <2>3. IsFiniteSet(graph)
    <3>1. [f \in Initial |-> NewEdge(f, "ingest", 0)] \in Surjection(Initial, graph)
      BY <1>1 DEF Surjection
    <3>2. QED BY <3>1, FS_Surjection, GraphAssumption
  <2>4. \A e \in graph : e.by = "ingest"
    BY <1>1 DEF NewEdge
  <2>5. QED BY <1>1, <2>2, <2>3, <2>4 DEF GraphOK, CursorOK
<1>4. GateOK
  BY <1>1, <1>2, GateAssumption DEF GateOK
<1>5. TypeOK /\ IsFiniteSet(graph)
  BY <1>1, <1>3, <1>4, GraphAssumption, TypeOKIsParts DEF TypeParts, InferOK
<1>6. OpInv /\ TellInv /\ GateSeen /\ InferSeen
  BY <1>1, <1>2 DEF OpInv, TellInv, LandedAreTold, GateSeen, InferSeen
<1>7. LandInv
  BY <1>1, <1>3 DEF LandInv, Backed, Retracts
<1>8. EdgeInv
  BY <1>1, <1>3 DEF EdgeInv, Retracts
<1>9. SupportInv
  BY <1>1 DEF SupportInv, Retracts
<1>10. QED BY <1>5, <1>6, <1>7, <1>8, <1>9 DEF IInv

(* The parts of the invariant that the lemmas name.                        *)
LEMMA InvParts ==
  ASSUME IInv
  PROVE  /\ GraphOK /\ GateOK /\ InferOK /\ CursorOK
         /\ failures \in 0 .. MaxFailures /\ arrivals \in 0 .. MaxArrivals /\ undone \subseteq Ids
         /\ OpInv /\ LandInv /\ TellInv /\ GateSeen /\ InferSeen /\ EdgeInv /\ SupportInv
BY TypeOKIsParts DEF IInv, TypeParts

(* The steps of the gate, of the engine and of the others keep it.         *)
LEMMA GateKeepsInv ==
  ASSUME IInv, Gate(GateNext)
  PROVE  IInv'
<1>1. GateNext /\ undone' = undone \cup Undoing /\ UNCHANGED inferVars
  BY DEF Gate
<1>2. /\ GraphOK /\ GateOK /\ InferOK /\ CursorOK
      /\ failures \in 0 .. MaxFailures /\ arrivals \in 0 .. MaxArrivals /\ undone \subseteq Ids
      /\ OpInv /\ LandInv /\ TellInv /\ GateSeen /\ InferSeen /\ EdgeInv /\ SupportInv
  BY InvParts
<1>3. Ages("gate") /\ Aged("infer")
  BY <1>1, <1>2, GateGraph
<1>4. GraphOK' /\ missed \subseteq missed' /\ cursor'["infer"] = cursor["infer"]
  BY <1>3 DEF Ages, Aged
<1>5. GateOK' /\ failures' \in 0 .. MaxFailures /\ arrivals' \in 0 .. MaxArrivals
  BY <1>1, <1>2, GateStaysOK, FailuresGrow, GateKeepsArrivals
<1>6. InferOK' /\ CursorOK'
  BY <1>1, <1>2, <1>4, CursorAtGate DEF InferOK, inferVars
<1>7. undone' \subseteq Ids
  BY <1>1, <1>2, <1>4, UndoingIsTyped
<1>8. TypeParts'
  BY <1>4, <1>5, <1>6, <1>7 DEF TypeParts
<1>9. TypeOK' /\ IsFiniteSet(graph')
  BY <1>8, TypeOKIsParts
<1>10. OpInv' /\ LandInv' /\ TellInv' /\ GateSeen' /\ InferSeen'
  BY <1>1, <1>2, <1>3, <1>4, OpInvKept, LandInvKept, TellInvKept, GateSeenKept, InferSeenAges
     DEF InferOK
<1>11. EdgeInv' /\ SupportInv'
  BY <1>1, <1>2, <1>3, <1>4, EdgeInvGate, SupportInvGate DEF InferOK
<1>12. QED BY <1>9, <1>10, <1>11 DEF IInv

(* The engine's steps keep the invariant.                                  *)
LEMMA InferKeepsInv ==
  ASSUME IInv, Infer(InferNext)
  PROVE  IInv'
<1>1. InferNext /\ UNCHANGED <<gateVars, undone>>
  BY DEF Infer
<1>2. /\ GraphOK /\ GateOK /\ InferOK /\ CursorOK
      /\ failures \in 0 .. MaxFailures /\ arrivals \in 0 .. MaxArrivals /\ undone \subseteq Ids
      /\ OpInv /\ LandInv /\ TellInv /\ GateSeen /\ InferSeen /\ EdgeInv /\ SupportInv
  BY InvParts
<1>3. Ages("infer") /\ Aged("gate")
  BY <1>1, <1>2, InferGraph
<1>4. GraphOK' /\ missed \subseteq missed' /\ cursor'["gate"] = cursor["gate"]
  BY <1>3 DEF Ages, Aged
<1>5. changes' = changes /\ handled' \subseteq changes
  BY <1>1, <1>2, InferKeepsChanges
<1>6. GateOK' /\ OpInv' /\ TellInv'
  BY <1>1, <1>2, <1>5, QueueIsKept
<1>7. /\ InferOK' /\ failures' \in 0 .. MaxFailures /\ undone' \subseteq Ids
      /\ arrivals' \in 0 .. MaxArrivals
  BY <1>1, <1>2, InferStaysOK, InferFailuresGrow, InferCountsArrivals
<1>8. CursorOK'
  BY <1>1, <1>2, <1>4, CursorAtInfer
<1>9. TypeParts'
  BY <1>4, <1>6, <1>7, <1>8 DEF TypeParts
<1>10. TypeOK' /\ IsFiniteSet(graph')
  BY <1>9, TypeOKIsParts
<1>11. UNCHANGED <<proposals, op>>
  BY <1>1 DEF gateVars
<1>12. LandInv' /\ GateSeen' /\ InferSeen'
  BY <1>1, <1>2, <1>3, <1>4, <1>11, LandInvInfer, GateSeenAges, InferSeenKept
<1>13. EdgeInv' /\ SupportInv'
  BY <1>1, <1>2, <1>3, <1>4, EdgeInvInfer, SupportInvInfer
<1>14. QED BY <1>6, <1>10, <1>12, <1>13 DEF IInv

(* Whatever only brings edges of its own keeps the invariant.              *)
LEMMA BringsKeepInv ==
  ASSUME IInv, GraphOK', Brings, missed \subseteq missed', \A v \in Writers : Aged(v),
         arrivals' \in 0 .. MaxArrivals
  PROVE  IInv'
<1>1. /\ GraphOK /\ GateOK /\ InferOK /\ CursorOK
      /\ failures \in 0 .. MaxFailures /\ undone \subseteq Ids
      /\ OpInv /\ LandInv /\ TellInv /\ GateSeen /\ InferSeen /\ EdgeInv /\ SupportInv
  BY InvParts
<1>2. Aged("gate") /\ Aged("infer")
  BY DEF Writers
<1>3. UNCHANGED <<failures, cursor, changes, handled, gateVars, inferVars, proposals, op,
                  index, inf, undone>>
  BY DEF Brings, gateVars, inferVars
<1>4. GateOK' /\ OpInv' /\ TellInv'
  BY <1>1, <1>3, QueueIsKept DEF GateOK
<1>5. InferOK' /\ failures' \in 0 .. MaxFailures /\ undone' \subseteq Ids
  BY <1>1, <1>3 DEF InferOK
<1>6. CursorOK'
  BY <1>1, <1>3 DEF CursorOK, Lists, kind, Hop, Goal
<1>7. TypeParts'
  BY <1>4, <1>5, <1>6 DEF TypeParts
<1>8. TypeOK' /\ IsFiniteSet(graph')
  BY <1>7, TypeOKIsParts
<1>9. GateSeen' /\ InferSeen'
  BY <1>1, <1>2, <1>3, GateSeenAges, InferSeenAges DEF InferOK
<1>10. LandInv' /\ EdgeInv' /\ SupportInv'
  BY <1>1, <1>2, LandInvBrings, EdgeInvBrings, SupportInvBrings
<1>11. QED BY <1>4, <1>8, <1>9, <1>10 DEF IInv

(* So do the other writers of the graph.                                   *)
LEMMA OthersKeepInv ==
  ASSUME IInv, NEW a \in Arriving, Others(OtherAsserts(a[1], a[2], a[3]))
  PROVE  IInv'
<1>1. GraphOK /\ arrivals \in 0 .. MaxArrivals
  BY InvParts
<1>2. /\ GraphOK' /\ Brings /\ missed \subseteq missed' /\ \A v \in Writers : Aged(v)
      /\ arrivals < MaxArrivals /\ arrivals' = arrivals + 1
  BY <1>1, OthersBring
<1>3. arrivals' \in 0 .. MaxArrivals
  BY <1>1, <1>2, GraphAssumption
<1>4. QED BY <1>2, <1>3, BringsKeepInv

(* So does standing still.                                                 *)
LEMMA StutterKeepsInv ==
  ASSUME IInv, UNCHANGED vars
  PROVE  IInv'
<1>1. UNCHANGED <<graph, failures, arrivals, cursor, fresh, missed, changes, handled,
                  gateVars, inferVars, undone>>
  BY DEF vars, graphVars
<1>2. GraphOK /\ arrivals \in 0 .. MaxArrivals
  BY InvParts
<1>3. "gate" \in Writers /\ "infer" \in Writers /\ Writers = {"gate", "infer"}
  BY DEF Writers
<1>4. Kept("gate") /\ Kept("infer")
  BY <1>1 DEF Kept, Closes
<1>5. Ages("gate") /\ Ages("infer")
  BY <1>2, <1>3, <1>4, KeptEffect
<1>6. GraphOK' /\ \A v \in Writers : Aged(v)
  BY <1>3, <1>5 DEF Ages
<1>7. Brings
  BY <1>1 DEF Brings
<1>8. QED BY <1>1, <1>2, <1>6, <1>7, BringsKeepInv

-----------------------------------------------------------------------------
(* The invariant is inductive: it holds at the start, and no step of the   *)
(* gate, of the engine or of the other writers breaks it.                  *)
THEOREM InductiveInvariant ==
  Spec => []IInv
<1>1. Init => IInv
  BY InitIsOK
<1>2. IInv /\ [Next]_vars => IInv'
  <2> SUFFICES ASSUME IInv, [Next]_vars PROVE IInv'
    OBVIOUS
  <2>1. CASE Next
    BY <2>1, GateKeepsInv, InferKeepsInv, OthersKeepInv DEF Next
  <2>2. CASE UNCHANGED vars
    BY <2>2, StutterKeepsInv
  <2>3. QED BY <2>1, <2>2
<1>3. QED BY <1>1, <1>2, PTL DEF Spec

(* TypeOK holds in every behavior: whatever the facts, rules, proposals    *)
(* and bounds, what a materialization, a pass or a retraction holds has    *)
(* the shape of the code's locals, and an offset that a listing goes on    *)
(* with belongs to the relation being listed, however calls fail.          *)
THEOREM TypeCorrect ==
  Spec => []TypeOK
<1>1. IInv => TypeOK
  BY DEF IInv
<1>2. QED BY <1>1, InductiveInvariant, PTL

(* What an agent proposed reaches an engine only as a Ready proposal, and  *)
(* is then settled, in hand, or a write that returned an error.            *)
THEOREM OnlyApprovedLands ==
  Spec => []OnlyReadyLands
<1>1. IInv => OnlyReadyLands
  <2> SUFFICES ASSUME IInv, NEW p \in Pids, Landing(p)
               PROVE  /\ proposals[p].status = "Ready"
                      /\ \/ proposals[p].materialized \/ p \in unsure
                         \/ op # NULL /\ op.pid = p
    BY DEF OnlyReadyLands
  <2>1. CASE \E e \in graph : e.by = "gate" /\ e.pid = p
    BY <2>1 DEF IInv, LandInv, Backed
  <2>2. CASE p \in notes \cup links \cup assigned
    BY <2>2 DEF IInv, LandInv
  <2>3. QED BY <2>1, <2>2 DEF Landing
<1>2. QED BY <1>1, InductiveInvariant, PTL

(* Every edge that landed has its rel in the ChangeSet of its call, or     *)
(* will have, but for calls that failed and what is beyond the page.       *)
THEOREM LandedIsTold ==
  Spec => []LandedAreTold
<1>1. IInv => LandedAreTold
  BY DEF IInv, TellInv
<1>2. QED BY <1>1, InductiveInvariant, PTL

(* Whatever interleaves with retraction, it can find every rule edge and   *)
(* the supports of every derivation, but for what a retirement undid and   *)
(* what slipped out of a listing.                                          *)
THEOREM RetractionFindsAll ==
  Spec => []RuleEdgesIndexed
<1>1. IInv => RuleEdgesIndexed
  <2> SUFFICES ASSUME IInv PROVE RuleEdgesIndexed
    OBVIOUS
  <2>1. \A e \in graph : e.by = "rule" /\ Id(e) \notin undone \cup missed => index[e.fact] # NULL
    BY DEF IInv, EdgeInv, Excused
  <2>2. failures = 0 /\ ~Retracts => \A d \in Facts : index[d] # NULL =>
          \A s \in index[d] : Asserted(s) \/ index[s] # NULL \/ Disturbed(s)
    BY DEF IInv, SupportInv
  <2>3. QED BY <2>1, <2>2 DEF RuleEdgesIndexed, Retracts
<1>2. QED BY <1>1, InductiveInvariant, PTL

(* A proposal that was rejected or materialized stays as it is and is not  *)
(* worked on again, in whatever order its decisions are asked for.         *)
THEOREM DecisionsStand ==
  Spec => DecisionsAreFinal
<1> DEFINE Stands(p) == ~Pending(p) => /\ proposals'[p] = proposals[p]
                                       /\ ~(op' # NULL /\ op' # op /\ op'.pid = p)
<1>1. IInv /\ [Next]_vars => [\A p \in Pids : Stands(p)]_vars
  <2> SUFFICES ASSUME IInv, Next, NEW p \in Pids PROVE Stands(p)
    OBVIOUS
  <2>1. CASE Gate(GateNext)
    <3>1. GateOK /\ GraphOK /\ OpInv
      BY InvParts
    <3>2. QED BY <2>1, <3>1, ProposalsPersist DEF Gate
  <2>2. CASE UNCHANGED gateVars
    BY <2>2 DEF gateVars
  <2>3. QED BY <2>1, <2>2 DEF Next, Infer, Others
<1>2. QED BY <1>1, InductiveInvariant, PTL DEF Spec, DecisionsAreFinal

(* An edge that leaves the graph, or loses its author, was retracted,      *)
(* touched or moved out of the listing by somebody else while its remover  *)
(* worked, overwritten by an arrival, or is a self-loop or a double in a   *)
(* retirement: for any graph and page size and any interleaving of the     *)
(* gate, the engine and the others.                                        *)
THEOREM OnlyRacesLose ==
  Spec => LostOnlyToRaces
<1> DEFINE Excusable(e) == \/ StillThere(e) \/ RetractedNow(e) \/ Raced(e)
                           \/ Overwritten(e) \/ RetiredWith(e)
<1>1. IInv /\ [Next]_vars => [\A e \in graph : Excusable(e)]_vars
  <2> SUFFICES ASSUME IInv, Next, NEW e \in graph PROVE Accounted(e)
    BY DEF Accounted
  <2>1. GateOK /\ GraphOK /\ InferOK /\ OpInv /\ GateSeen /\ InferSeen
    BY InvParts
  <2>2. CASE Gate(GateNext)
    BY <2>1, <2>2, GateLosesToRaces DEF Gate
  <2>3. CASE Infer(InferNext)
    BY <2>1, <2>3, InferLosesToRaces DEF Infer
  <2>4. CASE \E a \in Arriving : Others(OtherAsserts(a[1], a[2], a[3]))
    <3>1. Brings
      BY <2>1, <2>4, OthersBring
    <3>2. CASE e \in graph'
      BY <3>2 DEF Accounted, StillThere
    <3>3. CASE e \notin graph'
      <4>1. PICK y \in graph' : Id(y) = Id(e) /\ y.copy = 0
        BY <3>1, <3>3 DEF Brings
      <4>2. y.by \in {"user", "ingest"}
        BY <3>1, <3>3, <4>1 DEF Brings
      <4>3. UNCHANGED <<op, inf>>
        BY <3>1 DEF Brings, gateVars, inferVars
      <4>4. QED BY <4>1, <4>2, <4>3 DEF Accounted, Overwritten
    <3>4. QED BY <3>2, <3>3
  <2>5. QED BY <2>2, <2>3, <2>4 DEF Next
<1>2. QED BY <1>1, InductiveInvariant, PTL DEF Spec, LostOnlyToRaces

-----------------------------------------------------------------------------
(* Where the claim that the run knowledge_reassert refutes does hold: when *)
(* nobody writes between a writer's scan and its write, as under one mutex *)
(* for the gate, the engine, the findings and ingestion.                   *)
NobodyIntervenes == \A w \in Writers : fresh[w] # NULL => fresh[w] = {}

(* What a pass is about to write asserts nothing that is there.            *)
NothingReasserted ==
  inf # NULL /\ inf.mode = "run" /\ inf.at = "upsert" =>
    \A g \in inf.found : ~Asserted(g.fact)

(* Then a derived edge never re-asserts a triple: the pages of the listing *)
(* together leave nothing out.                                             *)
THEOREM OneMutexNeverReasserts ==
  Spec /\ []NobodyIntervenes => []NothingReasserted
<1>1. IInv /\ NobodyIntervenes => NothingReasserted
  <2> SUFFICES ASSUME IInv, NobodyIntervenes, inf # NULL, inf.mode = "run", inf.at = "upsert",
                      NEW g \in inf.found, NEW e \in graph, e.fact = g.fact
               PROVE  FALSE
    BY DEF NothingReasserted, Asserted
  <2>1. InferSeen
    BY InvParts
  <2>2. Absent("infer", g.fact)
    BY <2>1 DEF InferSeen, PassSeen
  <2>3. fresh["infer"] = {}
    BY <2>2 DEF Absent, NobodyIntervenes, Writers
  <2>4. QED BY <2>2, <2>3 DEF Absent
<1>2. QED BY <1>1, InductiveInvariant, PTL
=============================================================================
