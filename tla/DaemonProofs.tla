---------------------------- MODULE DaemonProofs ----------------------------
(***************************************************************************)
(* Proofs about Daemon, for any operations and any bus capacity.  The      *)
(* inductive invariant has a part for each of the loop's promises: where   *)
(* run_once stands, what it has sent, what it has announced, which         *)
(* submissions it has taken, how it stops; and two parts for the relay.    *)
(***************************************************************************)
EXTENDS Daemon, SequenceTheorems, FiniteSetTheorems, TLAPS

(* run_once has an operation in hand, and serve() still runs, exactly      *)
(* between the channel and the cost record.                                *)
LoopInv ==
  /\ cur = NULL <=> at = "recv"
  /\ at # "recv" => serve = "running"

(* The event the outbox is ahead by.                                       *)
SendNext(e) ==
  /\ Cardinality(Sendable) = Cardinality(Heard(sent)) + 1
  /\ \A i \in Sendable : Position(i) = Cardinality(Heard(sent)) + 1 => outbox[i].event = e

(* Between the append of an event and its send the outbox is one ahead.    *)
SendInv ==
  /\ SentAfterLogged
  /\ serve = "running" /\ at \notin {"started", "terminal"} =>
       Cardinality(Sendable) = Cardinality(Heard(sent))
  /\ at \in {"started", "terminal"} =>
       SendNext(EventOf(IF at = "started" THEN "started" ELSE verdict))

(* A registration that goes on to a completed event has been announced.    *)
AnnounceInv ==
  /\ RegistrationIsAnnounced
  /\ at = "announced" => cur \in RegisterOps
  /\ cur \in RegisterOps =>
       \/ Logged(cur, "created") # {}
       \/ at \in {"recv", "dispatch"}
       \/ at \in {"started", "terminal", "cost"} /\ verdict = "failed"

(* The first Taken submissions have left the channel.                      *)
Taken == Len(accepted) - Len(queue)

WasTaken(o) == \E i \in 1 .. Taken : accepted[i] = o

TakenInv ==
  /\ Len(queue) <= Len(accepted)
  /\ \A i, j \in DOMAIN accepted : accepted[i] = accepted[j] => i = j
  /\ \A i \in DOMAIN queue : queue[i] = accepted[Taken + i]
  /\ cur # NULL => Taken > 0 /\ cur = accepted[Taken] /\ cur \notin finished
  /\ serve = "running" => \A i \in 1 .. Taken : accepted[i] \in finished \cup {cur}
  /\ \A o \in finished : WasTaken(o)
  /\ \A k \in DOMAIN outbox : WasTaken(outbox[k].event.op)

(* A completed Op::Shutdown was the last one taken, and serve() stopped.   *)
StopInv ==
  /\ cur # NULL /\ Logged(cur, "completed") # {} =>
       at \in {"terminal", "cost"} /\ verdict = "completed"
  /\ \A o \in finished \cap ShutdownOps : Logged(o, "completed") # {} =>
       /\ serve # "running" /\ Taken > 0 /\ o = accepted[Taken]
       /\ \A i \in 1 .. Taken : accepted[i] \in finished

(* The relay has published the outbox up to its last sequence number, and  *)
(* one more before it marks it; what it holds is the records that follow.  *)
RelayInv ==
  /\ Len(published) <= Len(outbox)
  /\ \A i \in DOMAIN published : published[i] = outbox[i].event
  /\ lastSeq <= Len(outbox)
  /\ relay # "dead" => Len(published) = IF relay = "mark" THEN lastSeq + 1 ELSE lastSeq
  /\ \A i \in DOMAIN outbox : i > lastSeq => outbox[i].status = "Pending"
  /\ relay \in {"publish", "mark"} =>
       \E m \in lastSeq + 1 .. Len(outbox) : pending = lastSeq + 1 .. m

IInv ==
  /\ TypeOK
  /\ LoopInv /\ SendInv /\ AnnounceInv /\ TakenInv /\ StopInv
  /\ RelayInv /\ BusRetainsNewest

-----------------------------------------------------------------------------
(* The outbox grows at its end; a mark changes a status and nothing else.  *)
LEMMA LogGrows ==
  ASSUME TypeOK, NEW e \in Event, outbox' = Appended(e)
  PROVE  /\ outbox' \in Seq(Record)
         /\ Len(outbox') = Len(outbox) + 1
         /\ \A i \in DOMAIN outbox : outbox'[i] = outbox[i]
         /\ outbox'[Len(outbox) + 1] = [event |-> e, status |-> "Pending"]
<1>1. outbox \in Seq(Record) /\ [event |-> e, status |-> "Pending"] \in Record
  BY DEF TypeOK, Record
<1>2. QED
  BY <1>1, AppendProperties, LenProperties DEF Appended

(* A mark changes the status of one record and nothing else.               *)
LEMMA LogMarked ==
  ASSUME TypeOK, NEW i \in DOMAIN outbox,
         outbox' = [outbox EXCEPT ![i].status = "Dispatched"]
  PROVE  /\ outbox' \in Seq(Record)
         /\ Len(outbox') = Len(outbox)
         /\ \A k \in DOMAIN outbox : /\ outbox'[k].event = outbox[k].event
                                     /\ k # i => outbox'[k] = outbox[k]
<1>1. outbox \in Seq(Record) /\ DOMAIN outbox = 1 .. Len(outbox)
  BY LenProperties DEF TypeOK
<1>2. \A k \in DOMAIN outbox : outbox[k] \in Record
  BY <1>1, ElementOfSeq
<1>. DEFINE marked == [outbox[i] EXCEPT !.status = "Dispatched"]
<1>3. marked \in Record /\ marked.event = outbox[i].event
  BY <1>2 DEF Record
<1>4. outbox' = [outbox EXCEPT ![i] = marked]
  OBVIOUS
<1>. HIDE DEF marked
<1>5. QED
  BY <1>1, <1>3, <1>4, ExceptSeq

(* Whoever holds an operation holds one of Operations.                     *)
LEMMA EventsAreEvents ==
  ASSUME TypeOK, LoopInv, at # "recv", NEW kind \in Kinds
  PROVE  EventOf(kind) \in Event
  BY DEF TypeOK, LoopInv, EventOf, Event

(* While the relay has a batch, its head is the record after the cursor.   *)
LEMMA RelayHolds ==
  ASSUME TypeOK, RelayInv, relay \in {"publish", "mark"}
  PROVE  /\ First(pending) = lastSeq + 1
         /\ lastSeq + 1 \in DOMAIN outbox
         /\ \E m \in lastSeq + 1 .. Len(outbox) :
              /\ pending = lastSeq + 1 .. m
              /\ pending \ {lastSeq + 1} = lastSeq + 2 .. m
<1>1. lastSeq \in Nat /\ Len(outbox) \in Nat /\ DOMAIN outbox = 1 .. Len(outbox)
  BY LenProperties DEF TypeOK
<1>2. PICK m \in lastSeq + 1 .. Len(outbox) : pending = lastSeq + 1 .. m
  BY DEF RelayInv
<1>3. lastSeq + 1 \in pending /\ \A k \in pending : lastSeq + 1 <= k
  BY <1>1, <1>2
<1>4. First(pending) = lastSeq + 1
  BY <1>1, <1>2, <1>3 DEF First
<1>5. QED
  BY <1>1, <1>2, <1>4

-----------------------------------------------------------------------------
(* Sendable records are finitely many, and a position is one of 1, 2, ...  *)
LEMMA SendableFinite ==
  ASSUME TypeOK
  PROVE  /\ IsFiniteSet(Sendable) /\ Cardinality(Sendable) \in Nat
         /\ \A i \in DOMAIN outbox : Position(i) \in 0 .. Cardinality(Sendable)
<1>1. Len(outbox) \in Nat /\ DOMAIN outbox = 1 .. Len(outbox)
  BY LenProperties DEF TypeOK
<1>2. IsFiniteSet(1 .. Len(outbox))
  BY <1>1, FS_Interval
<1>3. IsFiniteSet(Sendable) /\ Cardinality(Sendable) \in Nat
  BY <1>1, <1>2, FS_Subset, FS_CardinalityType DEF Sendable
<1>4. ASSUME NEW i \in DOMAIN outbox PROVE Position(i) \in 0 .. Cardinality(Sendable)
  <2>. DEFINE P == {k \in Sendable : k <= i}
  <2>1. P \in SUBSET Sendable
    OBVIOUS
  <2>2. IsFiniteSet(P) /\ Cardinality(P) <= Cardinality(Sendable) /\ Cardinality(P) \in Nat
    BY <1>3, <2>1, FS_Subset, FS_CardinalityType
  <2>3. QED
    BY <1>3, <2>2 DEF Position
<1>5. QED
  BY <1>3, <1>4

(* Messages heard are finitely many; each has its rank among them.         *)
LEMMA HeardFinite ==
  ASSUME NEW s \in Seq(Message)
  PROVE  /\ Len(s) \in Nat /\ DOMAIN s = 1 .. Len(s)
         /\ IsFiniteSet(DOMAIN s) /\ IsFiniteSet(Heard(s)) /\ IsFiniteSet(DOMAIN s \ Heard(s))
         /\ Cardinality(Heard(s)) \in Nat /\ Cardinality(DOMAIN s \ Heard(s)) \in Nat
         /\ \A k \in Heard(s) : Rank(s, k) \in 1 .. Cardinality(Heard(s))
<1>1. Len(s) \in Nat /\ DOMAIN s = 1 .. Len(s)
  BY LenProperties
<1>2. IsFiniteSet(DOMAIN s)
  BY <1>1, FS_Interval
<1>3. Heard(s) \in SUBSET DOMAIN s /\ DOMAIN s \ Heard(s) \in SUBSET DOMAIN s
  BY DEF Heard
<1>4. IsFiniteSet(Heard(s)) /\ IsFiniteSet(DOMAIN s \ Heard(s))
  BY <1>2, <1>3, FS_Subset
<1>5. Cardinality(Heard(s)) \in Nat /\ Cardinality(DOMAIN s \ Heard(s)) \in Nat
  BY <1>4, FS_CardinalityType
<1>6. ASSUME NEW k \in Heard(s) PROVE Rank(s, k) \in 1 .. Cardinality(Heard(s))
  <2>. DEFINE P == {h \in Heard(s) : h <= k}
  <2>1. P \in SUBSET Heard(s) /\ k \in P
    BY <1>1, <1>3
  <2>2. /\ IsFiniteSet(P) /\ Cardinality(P) <= Cardinality(Heard(s)) /\ Cardinality(P) \in Nat
    BY <1>4, <2>1, FS_Subset, FS_CardinalityType
  <2>3. Cardinality(P) # 0
    BY <2>1, <2>2, FS_EmptySet
  <2>4. QED
    BY <1>5, <2>2, <2>3 DEF Rank
<1>7. QED
  BY <1>1, <1>2, <1>4, <1>5, <1>6

(* What t, which is s and then the message m, makes of the messages heard. *)
Extends(t, s, m) ==
  /\ t \in Seq(Message) /\ Len(t) = Len(s) + 1 /\ t[Len(t)] = m
  /\ \A k \in DOMAIN s : t[k] = s[k]
  /\ \A k \in Heard(s) : k \in Heard(t) /\ Rank(t, k) = Rank(s, k)
  /\ m.kind \in Notices =>
       /\ Heard(t) = Heard(s)
       /\ Cardinality(DOMAIN t \ Heard(t)) = Cardinality(DOMAIN s \ Heard(s)) + 1
  /\ m.kind \notin Notices =>
       /\ Heard(t) = Heard(s) \cup {Len(t)}
       /\ Cardinality(Heard(t)) = Cardinality(Heard(s)) + 1
       /\ Rank(t, Len(t)) = Cardinality(Heard(t))
       /\ DOMAIN t \ Heard(t) = DOMAIN s \ Heard(s)

(* A notice is not heard as an event; an event is heard next.              *)
LEMMA HeardGrows ==
  ASSUME NEW s \in Seq(Message), NEW m \in Message
  PROVE  Extends(Append(s, m), s, m)
<1>. DEFINE t == Append(s, m)
<1>1. Len(s) \in Nat /\ DOMAIN s = 1 .. Len(s)
  BY LenProperties
<1>2. /\ t \in Seq(Message) /\ Len(t) = Len(s) + 1 /\ t[Len(t)] = m
      /\ \A k \in DOMAIN s : t[k] = s[k]
  BY <1>1, AppendProperties
<1>. HIDE DEF t
<1>3. DOMAIN t = 1 .. Len(s) + 1
  BY <1>2, LenProperties
<1>4. /\ m.kind \in Notices => Heard(t) = Heard(s)
      /\ m.kind \notin Notices => Heard(t) = Heard(s) \cup {Len(t)}
  BY <1>1, <1>2, <1>3 DEF Heard
<1>5. Heard(s) \subseteq 1 .. Len(s)
  BY <1>1 DEF Heard
<1>6. ASSUME NEW k \in Heard(s) PROVE k \in Heard(t) /\ Rank(t, k) = Rank(s, k)
  <2>1. {h \in Heard(t) : h <= k} = {h \in Heard(s) : h <= k}
    BY <1>1, <1>2, <1>4, <1>5
  <2>2. QED
    BY <1>4, <2>1 DEF Rank
<1>7. ASSUME m.kind \in Notices
      PROVE  Cardinality(DOMAIN t \ Heard(t)) = Cardinality(DOMAIN s \ Heard(s)) + 1
  <2>1. DOMAIN t \ Heard(t) = (DOMAIN s \ Heard(s)) \cup {Len(s) + 1}
    BY <1>1, <1>3, <1>4, <1>5, <1>7
  <2>2. Len(s) + 1 \notin DOMAIN s \ Heard(s)
    BY <1>1
  <2>3. QED
    BY <2>1, <2>2, HeardFinite, FS_AddElement
<1>8. ASSUME m.kind \notin Notices
      PROVE  /\ Cardinality(Heard(t)) = Cardinality(Heard(s)) + 1
             /\ Rank(t, Len(t)) = Cardinality(Heard(t))
             /\ DOMAIN t \ Heard(t) = DOMAIN s \ Heard(s)
  <2>1. Len(t) \notin Heard(s)
    BY <1>1, <1>2, <1>5
  <2>2. Cardinality(Heard(t)) = Cardinality(Heard(s)) + 1
    BY <1>4, <1>8, <2>1, HeardFinite, FS_AddElement
  <2>3. {h \in Heard(t) : h <= Len(t)} = Heard(t)
    BY <1>1, <1>2, <1>4, <1>5, <1>8
  <2>4. Rank(t, Len(t)) = Cardinality(Heard(t))
    BY <2>3, Zenon DEF Rank
  <2>5. DOMAIN t \ Heard(t) = DOMAIN s \ Heard(s)
    BY <1>1, <1>2, <1>3, <1>4, <1>8
  <2>6. QED
    BY <2>2, <2>4, <2>5
<1>9. Extends(t, s, m)
  BY <1>2, <1>4, <1>6, <1>7, <1>8 DEF Extends
<1>10. QED
  BY <1>9 DEF t

(* The sink's answer adds a notice to what was told, or nothing.           *)
LEMMA SinkAnswers ==
  ASSUME TypeOK, LoopInv, at # "recv", NEW n \in {PersistFailed, CostFailed},
         NEW told, SinkMayFail(n, told)
  PROVE  /\ n \in Notice /\ n \in Message /\ told \in Seq(Message)
         /\ failures' \in 0 .. MaxFailures
<1>. USE DaemonAssumption
<1>1. cur \in Operations /\ LastNumber \in Nat
  BY SendableFinite DEF TypeOK, LoopInv, LastNumber
<1>2. n \in Notice /\ n \in Message
  <2>1. CASE n = PersistFailed
    BY <1>1, <2>1 DEF PersistFailed, Notice, Notices, Message
  <2>2. CASE n = CostFailed
    BY <1>1, <2>2 DEF CostFailed, Notice, Notices, Message
  <2>3. QED
    BY <2>1, <2>2
<1>3. told \in Seq(Message)
  <2>1. sent \in Seq(Message)
    BY DEF TypeOK
  <2>2. Append(sent, n) \in Seq(Message)
    BY <1>2, <2>1, AppendProperties
  <2>3. QED
    BY <2>1, <2>2 DEF SinkMayFail
<1>4. failures' \in 0 .. MaxFailures
  BY DEF SinkMayFail, TypeOK
<1>5. QED
  BY <1>2, <1>3, <1>4

-----------------------------------------------------------------------------
(* The daemon begins well typed.                                           *)
LEMMA InitType == Init => TypeOK
<1>. SUFFICES ASSUME Init PROVE TypeOK
  OBVIOUS
<1>1. <<>> \in Seq(Operations) /\ <<>> \in Seq(Record) /\ <<>> \in Seq(Event) /\ <<>> \in Seq(Message)
      /\ <<>> \in Seq([sequence : Nat, event : Event])
  BY EmptySeq
<1>2. bus \in [next : Nat, retained : Seq([sequence : Nat, event : Event])]
  BY <1>1 DEF Init
<1>3. pending \subseteq DOMAIN outbox /\ users \subseteq RegisterOps /\ failures \in 0 .. MaxFailures
  BY DaemonAssumption DEF Init
<1>4. QED
  BY <1>1, <1>2, <1>3 DEF Init, TypeOK, Awaits, Verdicts

(* TypeOK is inductive, given where loop and relay stand.                  *)
LEMMA NextType ==
  ASSUME TypeOK, LoopInv, RelayInv, [Next]_vars
  PROVE  TypeOK'
<1>. USE DaemonAssumption
<1>1. ASSUME NEW o \in Operations, Submit(o) PROVE TypeOK'
  <2>1. Append(queue, o) \in Seq(Operations) /\ Append(accepted, o) \in Seq(Operations)
    BY AppendProperties DEF TypeOK
  <2>2. QED
    BY <1>1, <2>1 DEF Submit, TypeOK, relayVars
<1>2. CASE DropHandles
  BY <1>2 DEF DropHandles, TypeOK, relayVars
<1>3. CASE Signal
  BY <1>3 DEF Signal, TypeOK, loopVars, relayVars
<1>4. CASE Receive
  <2>1. Head(queue) \in Operations /\ Tail(queue) \in Seq(Operations)
    BY <1>4, HeadTailProperties DEF TypeOK, Receive
  <2>2. QED
    BY <1>4, <2>1 DEF Receive, AfterReceive, TypeOK, relayVars, Awaits
<1>5. CASE UserCommitted
  BY <1>5 DEF UserCommitted, TypeOK, relayVars
<1>6. ASSUME NEW e \in Event, outbox' = Appended(e)
      PROVE  outbox' \in Seq(Record) /\ DOMAIN outbox \subseteq DOMAIN outbox'
  <2>1. outbox' \in Seq(Record) /\ Len(outbox') = Len(outbox) + 1
    BY <1>6, LogGrows
  <2>2. Len(outbox) \in Nat /\ DOMAIN outbox = 1 .. Len(outbox) /\ DOMAIN outbox' = 1 .. Len(outbox')
    BY <2>1, LenProperties DEF TypeOK
  <2>3. QED
    BY <2>1, <2>2
<1>7. CASE UserAnnounced
  <2>1. outbox' \in Seq(Record) /\ DOMAIN outbox \subseteq DOMAIN outbox'
    BY <1>6, <1>7, EventsAreEvents DEF UserAnnounced, Kinds
  <2>2. QED
    BY <1>7, <2>1 DEF UserAnnounced, TypeOK, relayVars, Awaits
<1>8. CASE RegistrationReturns \/ DispatchReturns
  <2>1. outbox' \in Seq(Record) /\ DOMAIN outbox \subseteq DOMAIN outbox'
    BY <1>6, <1>8, EventsAreEvents DEF RegistrationReturns, DispatchReturns, LogStarted, Kinds
  <2>2. verdict' \in Verdicts
    BY <1>8 DEF RegistrationReturns, DispatchReturns, Verdicts
  <2>3. QED
    BY <1>8, <2>1, <2>2
    DEF RegistrationReturns, DispatchReturns, LogStarted, TypeOK, relayVars, Awaits
<1>9. CASE StartedPersisted
  <2>1. EventOf("started") \in Event /\ EventOf(verdict) \in Event
    BY <1>9, EventsAreEvents DEF StartedPersisted, Kinds, TypeOK
  <2>2. outbox' \in Seq(Record) /\ DOMAIN outbox \subseteq DOMAIN outbox'
    BY <1>6, <1>9, <2>1 DEF StartedPersisted
  <2>3. PICK told \in {sent, Append(sent, PersistFailed)} :
          SinkMayFail(PersistFailed, told) /\ sent' = Append(told, EventOf("started"))
    BY <1>9 DEF StartedPersisted
  <2>4. told \in Seq(Message) /\ failures' \in 0 .. MaxFailures
    BY <1>9, <2>3, SinkAnswers DEF StartedPersisted
  <2>6. sent' \in Seq(Message)
    BY <2>1, <2>3, <2>4, AppendProperties DEF Message
  <2>5. QED
    BY <1>9, <2>2, <2>4, <2>6 DEF StartedPersisted, TypeOK, relayVars, Awaits
<1>10. CASE TerminalPersisted
  <2>1. EventOf(verdict) \in Event
    BY <1>10, EventsAreEvents DEF TerminalPersisted, Kinds, TypeOK
  <2>2. PICK told \in {sent, Append(sent, PersistFailed)} :
          SinkMayFail(PersistFailed, told) /\ sent' = Append(told, EventOf(verdict))
    BY <1>10 DEF TerminalPersisted
  <2>3. told \in Seq(Message) /\ failures' \in 0 .. MaxFailures
    BY <1>10, <2>2, SinkAnswers DEF TerminalPersisted
  <2>4. sent' \in Seq(Message)
    BY <2>1, <2>2, <2>3, AppendProperties DEF Message
  <2>5. QED
    BY <1>10, <2>3, <2>4 DEF TerminalPersisted, TypeOK, relayVars, Awaits
<1>11. CASE CostRecorded
  <2>1. cur \in Operations
    BY <1>11 DEF CostRecorded, LoopInv, TypeOK
  <2>2. sent' \in Seq(Message) /\ failures' \in 0 .. MaxFailures
    BY <1>11, SinkAnswers DEF CostRecorded
  <2>3. cancelled' \in BOOLEAN
    BY <1>11 DEF CostRecorded, TypeOK
  <2>4. QED
    BY <1>11, <2>1, <2>2, <2>3 DEF CostRecorded, TypeOK, relayVars, Awaits
<1>12. CASE ServeSeesCancel \/ ServeSeesRelayDead
  BY <1>12 DEF ServeSeesCancel, ServeSeesRelayDead, DropRunOnce, TypeOK, relayVars, Awaits
<1>13. CASE ServeSeesClosed \/ ServeJoinsRelay
  BY <1>13 DEF ServeSeesClosed, ServeJoinsRelay, TypeOK, loopVars, relayVars
<1>14. CASE RelaySnapshot
  BY <1>14 DEF RelaySnapshot, PendingAfter, TypeOK, loopVars
<1>15. CASE RelayPublish
  <2>1. First(pending) \in DOMAIN outbox
    BY <1>15, RelayHolds DEF RelayPublish
  <2>. DEFINE Entry == [sequence : Nat, event : Event]
              e == outbox[First(pending)].event
              longer == Append(bus.retained, [sequence |-> bus.next, event |-> e])
  <2>2. outbox[First(pending)] \in Record
    BY <2>1, ElementOfSeq, LenProperties DEF TypeOK
  <2>3. e \in Event
    BY <2>2 DEF Record
  <2>4. bus.next \in Nat /\ bus.retained \in Seq(Entry)
    BY DEF TypeOK
  <2>5. longer \in Seq(Entry) /\ longer # <<>>
    BY <2>3, <2>4, AppendProperties
  <2>6. Tail(longer) \in Seq(Entry)
    BY <2>5, HeadTailProperties
  <2>7. bus' = Published(e) /\ published' = Append(published, e)
    BY <1>15 DEF RelayPublish
  <2>. HIDE DEF e
  <2>8. bus' \in [next : Nat, retained : Seq(Entry)]
    <3>1. bus' = [next |-> bus.next + 1, retained |-> bus'.retained]
      BY <2>7 DEF Published
    <3>2. bus'.retained \in {longer, Tail(longer)}
      BY <2>7 DEF Published
    <3>3. bus'.retained \in Seq(Entry)
      BY <2>5, <2>6, <3>2
    <3>4. bus.next + 1 \in Nat
      BY <2>4
    <3>. HIDE DEF longer, Entry
    <3>5. QED
      BY <3>1, <3>3, <3>4
  <2>9. published' \in Seq(Event)
    BY <2>3, <2>7, AppendProperties DEF TypeOK
  <2>10. QED
    BY <1>15, <2>8, <2>9 DEF RelayPublish, TypeOK, loopVars
<1>16. CASE RelayMark
  <2>1. First(pending) = lastSeq + 1 /\ lastSeq + 1 \in DOMAIN outbox
    BY <1>16, RelayHolds DEF RelayMark
  <2>2. outbox' \in Seq(Record) /\ Len(outbox') = Len(outbox)
    BY <1>16, <2>1, LogMarked DEF RelayMark
  <2>3. DOMAIN outbox' = DOMAIN outbox
    BY <2>2, LenProperties DEF TypeOK
  <2>4. QED
    BY <1>16, <2>1, <2>2, <2>3 DEF RelayMark, TypeOK, loopVars
<1>17. CASE RelayWakes \/ RelayPanics
  BY <1>17 DEF RelayWakes, RelayPanics, AfterTick, TypeOK, loopVars
<1>18. CASE UNCHANGED vars
  BY <1>18 DEF vars, TypeOK, loopVars, relayVars
<1>19. QED
  BY <1>1, <1>2, <1>3, <1>4, <1>5, <1>7, <1>8, <1>9, <1>10, <1>11, <1>12, <1>13,
     <1>14, <1>15, <1>16, <1>17, <1>18
  DEF Next, RunOnce, Serving, Relaying, Stopped

-----------------------------------------------------------------------------
(* run_once has an operation in hand from the channel to the cost record.  *)
LEMMA NextLoop ==
  ASSUME TypeOK, LoopInv, [Next]_vars
  PROVE  LoopInv'
<1>. USE DaemonAssumption DEF LoopInv
<1>1. CASE Receive
  <2>1. Head(queue) \in Operations
    BY <1>1, HeadTailProperties DEF Receive, TypeOK
  <2>2. QED
    BY <1>1, <2>1 DEF Receive, Polled
<1>2. CASE RunOnce /\ ~Receive
  BY <1>2 DEF RunOnce, UserAnnounced, RegistrationReturns, LogStarted, StartedPersisted,
     TerminalPersisted, CostRecorded
<1>3. CASE UserCommitted \/ DispatchReturns
  BY <1>3 DEF UserCommitted, DispatchReturns, LogStarted
<1>4. CASE Serving
  BY <1>4 DEF Serving, ServeSeesCancel, ServeSeesRelayDead, DropRunOnce, ServeSeesClosed,
     ServeJoinsRelay, loopVars
<1>5. CASE UNCHANGED <<cur, at, serve>>
  BY <1>5
<1>6. QED
  BY <1>1, <1>2, <1>3, <1>4, <1>5
  DEF Next, Submit, DropHandles, Signal, Relaying, RelaySnapshot, RelayPublish, RelayMark,
      RelayWakes, RelayPanics, Stopped, vars, loopVars

-----------------------------------------------------------------------------
(* An appended event is sendable at the next position, unless it is        *)
(* user.created, which goes to the bus alone.                              *)
LEMMA SendableGrows ==
  ASSUME TypeOK, NEW e \in Event, outbox' = Appended(e)
  PROVE  /\ \A i \in Sendable : i \in Sendable' /\ outbox'[i] = outbox[i]
                                /\ Position(i)' = Position(i)
         /\ e.kind = "created" => Sendable' = Sendable
         /\ e.kind # "created" =>
              /\ Sendable' = Sendable \cup {Len(outbox) + 1}
              /\ Cardinality(Sendable') = Cardinality(Sendable) + 1
              /\ \A i \in Sendable' \ Sendable :
                   Position(i)' = Cardinality(Sendable) + 1 /\ outbox'[i].event = e
<1>1. /\ Len(outbox) \in Nat /\ DOMAIN outbox = 1 .. Len(outbox)
      /\ DOMAIN outbox' = 1 .. Len(outbox) + 1
  BY LogGrows, LenProperties DEF TypeOK
<1>2. /\ \A i \in DOMAIN outbox : outbox'[i] = outbox[i]
      /\ outbox'[Len(outbox) + 1] = [event |-> e, status |-> "Pending"]
  BY LogGrows
<1>3. /\ e.kind = "created" => Sendable' = Sendable
      /\ e.kind # "created" => Sendable' = Sendable \cup {Len(outbox) + 1}
  BY <1>1, <1>2 DEF Sendable
<1>4. ASSUME NEW i \in Sendable
      PROVE  i \in Sendable' /\ outbox'[i] = outbox[i] /\ Position(i)' = Position(i)
  <2>1. {k \in Sendable' : k <= i} = {k \in Sendable : k <= i}
    BY <1>1, <1>3 DEF Sendable
  <2>2. QED
    BY <1>1, <1>2, <1>3, <2>1 DEF Sendable, Position
<1>5. ASSUME e.kind # "created"
      PROVE  /\ Cardinality(Sendable') = Cardinality(Sendable) + 1
             /\ \A i \in Sendable' \ Sendable :
                  Position(i)' = Cardinality(Sendable) + 1 /\ outbox'[i].event = e
  <2>1. Len(outbox) + 1 \notin Sendable
    BY <1>1 DEF Sendable
  <2>2. Cardinality(Sendable') = Cardinality(Sendable) + 1
    BY <1>3, <1>5, <2>1, SendableFinite, FS_AddElement
  <2>3. ASSUME NEW i \in Sendable' \ Sendable
        PROVE  Position(i)' = Cardinality(Sendable) + 1 /\ outbox'[i].event = e
    <3>1. i = Len(outbox) + 1
      BY <1>3, <1>5
    <3>2. {k \in Sendable' : k <= i} = Sendable'
      BY <1>1, <3>1 DEF Sendable
    <3>3. Position(i)' = Cardinality(Sendable')
      BY <3>2, Zenon DEF Position
    <3>4. outbox'[i].event = e
      BY <1>2, <3>1
    <3>5. QED
      BY <2>2, <3>3, <3>4
  <2>4. QED
    BY <2>2, <2>3
<1>6. QED
  BY <1>2, <1>3, <1>4, <1>5

(* The invariant reads the outbox's events, not the records' status.       *)
LEMMA MarkKeepsEvents ==
  ASSUME TypeOK, NEW i \in DOMAIN outbox,
         outbox' = [outbox EXCEPT ![i].status = "Dispatched"]
  PROVE  /\ Len(outbox') = Len(outbox) /\ DOMAIN outbox' = DOMAIN outbox
         /\ \A k \in DOMAIN outbox : outbox'[k].event = outbox[k].event
         /\ Sendable' = Sendable
         /\ \A k \in Sendable : Position(k)' = Position(k)
         /\ \A o \in Operations, kind \in Kinds : Logged(o, kind)' = Logged(o, kind)
<1>1. /\ Len(outbox') = Len(outbox) /\ DOMAIN outbox' = DOMAIN outbox
      /\ \A k \in DOMAIN outbox : outbox'[k].event = outbox[k].event
  BY LogMarked, LenProperties DEF TypeOK
<1>2. Sendable' = Sendable
  BY <1>1 DEF Sendable
<1>3. QED
  BY <1>1, <1>2 DEF Position, Logged

(* A notice leaves what was heard as it was, and accounts for a failure.   *)
LEMMA NoticeKeepsHeard ==
  ASSUME TypeOK, LoopInv, at # "recv", SentAfterLogged,
         NEW n \in {PersistFailed, CostFailed}, NEW told, SinkMayFail(n, told)
  PROVE  /\ Heard(told) = Heard(sent)
         /\ \A k \in Heard(sent) : Rank(told, k) = Rank(sent, k) /\ told[k] = sent[k]
         /\ \A k \in DOMAIN told : (k \in DOMAIN sent /\ told[k] = sent[k])
                                  \/ (k = Len(told) /\ told[k] = n)
         /\ Cardinality(DOMAIN told \ Heard(told)) = failures'
<1>1. sent \in Seq(Message) /\ n \in Message /\ n.kind \in Notices
  <2>1. n \in Notice /\ n \in Message
    BY SinkAnswers
  <2>2. QED
    BY <2>1 DEF TypeOK, Notice
<1>2. CASE told = sent /\ UNCHANGED failures
  BY <1>2 DEF SentAfterLogged
<1>3. CASE told = Append(sent, n) /\ failures' = failures + 1
  <2>0. Extends(told, sent, n)
    BY <1>1, <1>3, HeardGrows, Zenon
  <2>1. /\ Heard(told) = Heard(sent) /\ Len(told) = Len(sent) + 1 /\ told[Len(told)] = n
        /\ \A k \in DOMAIN sent : told[k] = sent[k]
        /\ \A k \in Heard(sent) : Rank(told, k) = Rank(sent, k)
        /\ Cardinality(DOMAIN told \ Heard(told)) = Cardinality(DOMAIN sent \ Heard(sent)) + 1
        /\ told \in Seq(Message)
    BY <1>1, <2>0 DEF Extends
  <2>2. /\ Len(sent) \in Nat /\ DOMAIN sent = 1 .. Len(sent) /\ DOMAIN told = 1 .. Len(told)
        /\ Heard(sent) \subseteq DOMAIN sent
    BY <1>1, <2>1, HeardFinite DEF Heard
  <2>3. QED
    BY <1>3, <2>1, <2>2 DEF SentAfterLogged
<1>4. QED
  BY <1>2, <1>3 DEF SinkMayFail

(* What is sent next is the event at the next position of the log; if the  *)
(* sink failed, its notice comes directly before it.                       *)
LEMMA SendingKeepsOrder ==
  ASSUME TypeOK, LoopInv, at # "recv", SentAfterLogged,
         NEW e \in Event, e.op = cur, SendNext(e),
         NEW told, SinkMayFail(PersistFailed, told), sent' = Append(told, e)
  PROVE  /\ Cardinality(Heard(sent')) = Cardinality(Heard(sent)) + 1
         /\ \A k \in Heard(sent') : Rank(sent', k) \in 1 .. Cardinality(Heard(sent'))
         /\ \A i \in Sendable, k \in Heard(sent') :
              Position(i) = Rank(sent', k) => sent'[k] = outbox[i].event
         /\ NoticePrecedes(sent')
         /\ Cardinality(DOMAIN sent' \ Heard(sent')) = failures'
<1>. DEFINE n == PersistFailed
            last == Len(sent')
<1>1. told \in Seq(Message) /\ e \in Message /\ e.kind \notin Notices
  <2>1. told \in Seq(Message)
    BY SinkAnswers
  <2>2. QED
    BY <2>1 DEF Message, Event, Kinds, Verdicts, Notices
<1>2. /\ Heard(told) = Heard(sent)
      /\ \A k \in Heard(sent) : Rank(told, k) = Rank(sent, k) /\ told[k] = sent[k]
      /\ \A k \in DOMAIN told : (k \in DOMAIN sent /\ told[k] = sent[k])
                               \/ (k = Len(told) /\ told[k] = n)
      /\ Cardinality(DOMAIN told \ Heard(told)) = failures'
  BY NoticeKeepsHeard
<1>3. /\ sent' \in Seq(Message) /\ last = Len(told) + 1 /\ sent'[last] = e
      /\ \A k \in DOMAIN told : sent'[k] = told[k]
      /\ Heard(sent') = Heard(told) \cup {last}
      /\ \A k \in Heard(told) : Rank(sent', k) = Rank(told, k)
      /\ Cardinality(Heard(sent')) = Cardinality(Heard(told)) + 1
      /\ Rank(sent', last) = Cardinality(Heard(sent'))
      /\ DOMAIN sent' \ Heard(sent') = DOMAIN told \ Heard(told)
  <2>1. Extends(sent', told, e)
    BY <1>1, HeardGrows, Zenon
  <2>2. QED
    BY <1>1, <2>1 DEF Extends
<1>4. /\ Len(told) \in Nat /\ DOMAIN told = 1 .. Len(told) /\ DOMAIN sent' = 1 .. last
      /\ Heard(told) \subseteq DOMAIN told
  BY <1>1, <1>3, HeardFinite DEF Heard
<1>5. \A k \in Heard(sent') : Rank(sent', k) \in 1 .. Cardinality(Heard(sent'))
  BY <1>3, HeardFinite
<1>6. ASSUME NEW i \in Sendable, NEW k \in Heard(sent'), Position(i) = Rank(sent', k)
      PROVE  sent'[k] = outbox[i].event
  <2>1. CASE k = last
    BY <1>2, <1>3, <1>6, <2>1 DEF SendNext
  <2>2. CASE k \in Heard(told)
    <3>1. Rank(sent', k) = Rank(sent, k) /\ sent'[k] = sent[k] /\ k \in Heard(sent)
      BY <1>2, <1>3, <1>4, <2>2
    <3>2. QED
      BY <1>6, <3>1 DEF SentAfterLogged
  <2>3. QED
    BY <1>3, <2>1, <2>2
<1>7. ASSUME NEW k \in DOMAIN sent', sent'[k].kind = "persist_event_failed"
      PROVE  /\ k + 1 \in Heard(sent') /\ sent'[k + 1].op = sent'[k].op
             /\ Rank(sent', k + 1) = sent'[k].sequence
  <2>1. k \in DOMAIN told
    BY <1>1, <1>3, <1>4, <1>7 DEF Notices
  <2>2. CASE k \in DOMAIN sent /\ told[k] = sent[k]
    <3>1. sent[k].kind = "persist_event_failed" /\ sent'[k] = sent[k]
      BY <1>3, <1>7, <2>1, <2>2
    <3>2. k + 1 \in Heard(sent) /\ sent[k + 1].op = sent[k].op /\ Rank(sent, k + 1) = sent[k].sequence
      BY <2>2, <3>1 DEF SentAfterLogged, NoticePrecedes
    <3>3. QED
      BY <1>2, <1>3, <1>4, <3>1, <3>2
  <2>3. CASE k = Len(told) /\ told[k] = n
    <3>1. k + 1 = last /\ sent'[k] = n
      BY <1>3, <2>1, <2>3
    <3>2. n.op = cur /\ n.sequence = Cardinality(Heard(sent)) + 1
      BY DEF PersistFailed, LastNumber, SendNext
    <3>. HIDE DEF n
    <3>3. QED
      BY <1>2, <1>3, <3>1, <3>2
  <2>4. QED
    BY <1>2, <2>1, <2>2, <2>3
<1>8. QED
  BY <1>2, <1>3, <1>5, <1>6, <1>7 DEF NoticePrecedes

(* The outbox is one ahead exactly between an append and its send.         *)
LEMMA NextSend ==
  ASSUME TypeOK, LoopInv, RelayInv, SendInv, [Next]_vars
  PROVE  SendInv'
<1>. USE DEF SendInv, SentAfterLogged
<1>1. /\ Cardinality(Sendable) \in Nat /\ Cardinality(Heard(sent)) \in Nat
      /\ \A k \in Heard(sent) : Rank(sent, k) \in 1 .. Cardinality(Heard(sent))
  BY SendableFinite, HeardFinite DEF TypeOK
<1>2. CASE UserAnnounced
  <2>1. EventOf("created") \in Event /\ EventOf("created").kind = "created"
    BY <1>2, EventsAreEvents DEF UserAnnounced, Kinds, EventOf
  <2>2. Sendable' = Sendable /\ \A i \in Sendable : outbox'[i] = outbox[i] /\ Position(i)' = Position(i)
    BY <1>2, <2>1, SendableGrows DEF UserAnnounced
  <2>3. QED
    BY <1>2, <2>2 DEF UserAnnounced, Polled
<1>3. CASE RegistrationReturns \/ DispatchReturns
  <2>1. /\ LogStarted /\ serve = "running" /\ at \in {"announced", "dispatch"}
        /\ UNCHANGED <<cur, sent, failures>>
    BY <1>3 DEF RegistrationReturns, DispatchReturns, LogStarted, Polled, LoopInv
  <2>2. EventOf("started") \in Event /\ EventOf("started").kind # "created"
    BY <2>1, EventsAreEvents DEF Kinds, EventOf
  <2>3. /\ Cardinality(Sendable') = Cardinality(Sendable) + 1
        /\ \A i \in Sendable : outbox'[i] = outbox[i] /\ Position(i)' = Position(i)
        /\ \A i \in Sendable' \ Sendable :
             Position(i)' = Cardinality(Sendable) + 1 /\ outbox'[i].event = EventOf("started")
    BY <2>1, <2>2, SendableGrows DEF LogStarted
  <2>4. \A i \in Sendable : Position(i) \in 0 .. Cardinality(Sendable)
    BY SendableFinite DEF Sendable
  <2>5. at' = "started" /\ EventOf("started")' = EventOf("started")
    BY <2>1 DEF LogStarted, EventOf
  <2>6. SendNext(EventOf("started"))'
    BY <1>1, <2>1, <2>3, <2>4, <2>5 DEF SendNext
  <2>7. \A i \in Sendable', k \in Heard(sent) :
          Position(i)' = Rank(sent, k) => sent[k] = outbox'[i].event
    BY <1>1, <2>1, <2>3
  <2>8. QED
    BY <1>1, <2>1, <2>3, <2>5, <2>6, <2>7
<1>4. CASE StartedPersisted
  <2>1. /\ EventOf(verdict) \in Event /\ EventOf(verdict).kind # "created"
        /\ EventOf("started") \in Event /\ EventOf("started").op = cur /\ at # "recv"
    BY <1>4, EventsAreEvents DEF StartedPersisted, Kinds, Verdicts, EventOf, TypeOK
  <2>2. /\ Cardinality(Sendable') = Cardinality(Sendable) + 1
        /\ \A i \in Sendable : outbox'[i] = outbox[i] /\ Position(i)' = Position(i)
        /\ \A i \in Sendable' \ Sendable :
             Position(i)' = Cardinality(Sendable) + 1 /\ outbox'[i].event = EventOf(verdict)
    BY <1>4, <2>1, SendableGrows DEF StartedPersisted
  <2>3. SendNext(EventOf("started"))
    BY <1>4 DEF StartedPersisted
  <2>4. /\ Cardinality(Heard(sent')) = Cardinality(Heard(sent)) + 1
        /\ \A k \in Heard(sent') : Rank(sent', k) \in 1 .. Cardinality(Heard(sent'))
        /\ \A i \in Sendable, k \in Heard(sent') :
             Position(i) = Rank(sent', k) => sent'[k] = outbox[i].event
        /\ NoticePrecedes(sent')
        /\ Cardinality(DOMAIN sent' \ Heard(sent')) = failures'
    BY <1>4, <2>1, <2>3, SendingKeepsOrder DEF StartedPersisted
  <2>5. at' = "terminal" /\ EventOf(verdict)' = EventOf(verdict)
    BY <1>4 DEF StartedPersisted, EventOf
  <2>6. \A i \in Sendable : Position(i) \in 0 .. Cardinality(Sendable)
    BY SendableFinite DEF Sendable
  <2>7. Cardinality(Heard(sent')) = Cardinality(Sendable)
    BY <2>3, <2>4 DEF SendNext
  <2>8. \A i \in Sendable', k \in Heard(sent') :
          Position(i)' = Rank(sent', k) => sent'[k] = outbox'[i].event
    BY <1>1, <2>2, <2>4, <2>7
  <2>9. SendNext(EventOf(verdict))'
    BY <1>1, <2>2, <2>5, <2>6, <2>7 DEF SendNext
  <2>10. QED
    BY <1>1, <2>2, <2>4, <2>5, <2>7, <2>8, <2>9
<1>5. CASE TerminalPersisted
  <2>1. EventOf(verdict) \in Event /\ EventOf(verdict).op = cur /\ at # "recv"
    BY <1>5, EventsAreEvents DEF TerminalPersisted, Kinds, EventOf, TypeOK
  <2>2. SendNext(EventOf(verdict))
    BY <1>5 DEF TerminalPersisted
  <2>3. /\ Cardinality(Heard(sent')) = Cardinality(Heard(sent)) + 1
        /\ \A i \in Sendable, k \in Heard(sent') :
             Position(i) = Rank(sent', k) => sent'[k] = outbox[i].event
        /\ NoticePrecedes(sent')
        /\ Cardinality(DOMAIN sent' \ Heard(sent')) = failures'
    BY <1>5, <2>1, <2>2, SendingKeepsOrder DEF TerminalPersisted
  <2>4. UNCHANGED outbox /\ at' = "cost"
    BY <1>5 DEF TerminalPersisted
  <2>5. Sendable' = Sendable /\ \A i \in Sendable : Position(i)' = Position(i)
    BY <2>4 DEF Sendable, Position
  <2>6. QED
    BY <1>1, <2>2, <2>3, <2>4, <2>5 DEF SendNext
<1>6. CASE RelayMark
  <2>1. /\ Sendable' = Sendable
        /\ \A i \in Sendable : Position(i)' = Position(i) /\ outbox'[i].event = outbox[i].event
    BY <1>6, RelayHolds, MarkKeepsEvents DEF RelayMark, Sendable
  <2>2. UNCHANGED <<sent, at, serve, cur, verdict, failures>>
    BY <1>6 DEF RelayMark, loopVars
  <2>3. QED
    BY <2>1, <2>2 DEF EventOf, SendNext
<1>7. ASSUME UNCHANGED <<outbox, sent, failures>>,
             \/ at' \in {"recv", "dispatch"} /\ (serve' = "running" => /\ serve = "running"
                                                        /\ at \notin {"started", "terminal"})
             \/ UNCHANGED <<at, serve, cur, verdict>>
      PROVE  SendInv'
  <2>1. Sendable' = Sendable /\ \A i \in Sendable : Position(i)' = Position(i)
    BY <1>7 DEF Sendable, Position
  <2>2. QED
    BY <1>7, <2>1 DEF EventOf, SendNext
<1>8. CASE CostRecorded
  <2>1. at = "cost" /\ at' = "recv" /\ UNCHANGED outbox /\ serve = "running"
    BY <1>8 DEF CostRecorded, Polled
  <2>2. Sendable' = Sendable /\ \A i \in Sendable : Position(i)' = Position(i)
    BY <2>1 DEF Sendable, Position
  <2>3. SinkMayFail(CostFailed, sent')
    BY <1>8 DEF CostRecorded
  <2>4. /\ Heard(sent') = Heard(sent)
        /\ \A k \in Heard(sent) : Rank(sent', k) = Rank(sent, k) /\ sent'[k] = sent[k]
        /\ \A k \in DOMAIN sent' : (k \in DOMAIN sent /\ sent'[k] = sent[k])
                                  \/ (k = Len(sent') /\ sent'[k] = CostFailed)
        /\ Cardinality(DOMAIN sent' \ Heard(sent')) = failures'
    BY <2>1, <2>3, NoticeKeepsHeard
  <2>5. NoticePrecedes(sent')
    BY <2>4 DEF NoticePrecedes, CostFailed
  <2>6. QED
    BY <2>1, <2>2, <2>4, <2>5
<1>9. CASE Receive \/ Serving
  BY <1>7, <1>9 DEF Receive, Polled, Serving, ServeSeesCancel,
     ServeSeesRelayDead, DropRunOnce, ServeSeesClosed, ServeJoinsRelay, loopVars, LoopInv
<1>10. CASE UNCHANGED <<outbox, sent, failures, at, serve, cur, verdict>>
  BY <1>7, <1>10
<1>11. QED
  BY <1>2, <1>3, <1>4, <1>5, <1>6, <1>8, <1>9, <1>10
  DEF Next, RunOnce, Submit, DropHandles, Signal, UserCommitted, Relaying, RelaySnapshot,
      RelayPublish, RelayWakes, RelayPanics, Stopped, vars, loopVars

-----------------------------------------------------------------------------
(* The log of an operation gains the event appended and nothing else.      *)
LEMMA LoggedGrows ==
  ASSUME TypeOK, NEW e \in Event, outbox' = Appended(e),
         NEW o \in Operations, NEW kind \in Kinds
  PROVE  /\ e # [op |-> o, kind |-> kind] => Logged(o, kind)' = Logged(o, kind)
         /\ e = [op |-> o, kind |-> kind] => Logged(o, kind)' = Logged(o, kind) \cup {Len(outbox) + 1}
<1>1. /\ Len(outbox) \in Nat /\ DOMAIN outbox = 1 .. Len(outbox)
      /\ DOMAIN outbox' = 1 .. Len(outbox) + 1
  BY LogGrows, LenProperties DEF TypeOK
<1>2. /\ \A i \in DOMAIN outbox : outbox'[i] = outbox[i]
      /\ outbox'[Len(outbox) + 1].event = e
  <2>1. outbox'[Len(outbox) + 1] = [event |-> e, status |-> "Pending"]
    BY LogGrows
  <2>2. QED
    BY <2>1, LogGrows
<1>3. QED
  BY <1>1, <1>2 DEF Logged

(* An event of the operation in hand names it.                             *)
LEMMA EventIsWhatItSays ==
  ASSUME NEW k \in Kinds, NEW o \in Operations, NEW kind \in Kinds
  PROVE  EventOf(k) = [op |-> o, kind |-> kind] <=> cur = o /\ k = kind
  BY DEF EventOf

(* A registration's events are appended in its order, and by nobody else.  *)
LEMMA NextAnnounce ==
  ASSUME TypeOK, LoopInv, RelayInv, AnnounceInv, [Next]_vars
  PROVE  AnnounceInv'
<1>. USE DaemonAssumption DEF AnnounceInv, RegistrationIsAnnounced
<1>1. {"created", "started", "completed", "failed"} \subseteq Kinds
  BY DEF Kinds, Verdicts
<1>2. \A o \in Operations, kind \in Kinds : Logged(o, kind) \subseteq 1 .. Len(outbox)
  BY LenProperties DEF Logged, TypeOK
<1>3. CASE UserAnnounced
  <2>1. EventOf("created") \in Event
    BY <1>1, <1>3, EventsAreEvents DEF UserAnnounced
  <2>2. \A o \in Operations, kind \in Kinds :
          /\ Logged(o, kind) \subseteq Logged(o, kind)'
          /\ (o # cur \/ kind # "created") => Logged(o, kind)' = Logged(o, kind)
          /\ o = cur /\ kind = "created" => Logged(o, kind)' # {}
    <3>. TAKE o \in Operations, kind \in Kinds
    <3>1. EventOf("created") = [op |-> o, kind |-> kind] <=> cur = o /\ kind = "created"
      BY <1>1, EventIsWhatItSays
    <3>2. CASE EventOf("created") # [op |-> o, kind |-> kind]
      BY <1>3, <2>1, <3>1, <3>2, LoggedGrows DEF UserAnnounced
    <3>3. CASE EventOf("created") = [op |-> o, kind |-> kind]
      BY <1>3, <2>1, <3>1, <3>3, LoggedGrows DEF UserAnnounced
    <3>4. QED
      BY <3>2, <3>3
  <2>3. cur \in RegisterOps \cap users /\ UNCHANGED <<cur, users>> /\ at' = "announced"
    BY <1>3 DEF UserAnnounced, MayAnnounce
  <2>4. QED
    BY <1>1, <2>2, <2>3
<1>4. CASE RegistrationReturns \/ DispatchReturns
  <2>1. /\ LogStarted /\ at # "recv" /\ UNCHANGED <<cur, users>> /\ at' = "started"
    BY <1>4 DEF RegistrationReturns, DispatchReturns, LogStarted
  <2>2. EventOf("started") \in Event
    BY <1>1, <2>1, EventsAreEvents
  <2>3. \A o \in Operations, kind \in Kinds \ {"started"} : Logged(o, kind)' = Logged(o, kind)
    BY <2>1, <2>2, <1>1, LoggedGrows, EventIsWhatItSays DEF LogStarted
  <2>4. cur \in RegisterOps => Logged(cur, "created") # {} \/ verdict' = "failed"
    BY <1>4 DEF RegistrationReturns, DispatchReturns
  <2>5. QED
    BY <1>1, <2>1, <2>3, <2>4
<1>5. CASE StartedPersisted
  <2>1. /\ EventOf(verdict) \in Event /\ verdict \in Kinds \ {"created"}
    BY <1>5, EventsAreEvents DEF StartedPersisted, Kinds, Verdicts, TypeOK
  <2>2. \A o \in Operations :
          /\ Logged(o, "created")' = Logged(o, "created")
          /\ o # cur \/ verdict # "completed" => Logged(o, "completed")' = Logged(o, "completed")
          /\ o = cur /\ verdict = "completed" =>
               Logged(o, "completed")' = Logged(o, "completed") \cup {Len(outbox) + 1}
    BY <1>1, <1>5, <2>1, LoggedGrows, EventIsWhatItSays DEF StartedPersisted
  <2>3. at = "started" /\ at' = "terminal" /\ UNCHANGED <<cur, users, verdict>>
    BY <1>5 DEF StartedPersisted
  <2>4. \A k \in 1 .. Len(outbox) : k < Len(outbox) + 1
    BY LenProperties DEF TypeOK
  <2>5. cur \in RegisterOps /\ verdict = "completed" => Logged(cur, "created") # {}
    BY <2>3
  <2>6. \A o \in RegisterOps : \A i \in Logged(o, "completed")' :
          \E k \in Logged(o, "created")' : k < i
    BY <1>1, <1>2, <2>2, <2>4, <2>5
  <2>7. QED
    BY <1>1, <2>2, <2>3, <2>6
<1>6. CASE RelayMark
  <2>1. \A o \in Operations, kind \in Kinds : Logged(o, kind)' = Logged(o, kind)
    BY <1>6, RelayHolds, MarkKeepsEvents DEF RelayMark
  <2>2. UNCHANGED <<cur, at, users, verdict>>
    BY <1>6 DEF RelayMark, loopVars
  <2>3. QED
    BY <1>1, <2>1, <2>2
<1>7. ASSUME UNCHANGED outbox, users \subseteq users',
             \/ UNCHANGED <<cur, at, verdict>>
             \/ at' \in {"recv", "dispatch"}
             \/ at = "terminal" /\ at' = "cost" /\ UNCHANGED <<cur, verdict>>
      PROVE  AnnounceInv'
  <2>1. \A o \in Operations, kind \in Kinds : Logged(o, kind)' = Logged(o, kind)
    BY <1>7 DEF Logged
  <2>2. QED
    BY <1>1, <1>7, <2>1
<1>8. CASE Receive \/ TerminalPersisted \/ CostRecorded \/ UserCommitted
  BY <1>7, <1>8 DEF Receive, TerminalPersisted, CostRecorded, UserCommitted
<1>9. CASE Serving
  BY <1>7, <1>9 DEF Serving, ServeSeesCancel, ServeSeesRelayDead, DropRunOnce,
     ServeSeesClosed, ServeJoinsRelay, loopVars
<1>10. CASE UNCHANGED <<outbox, users, cur, at, verdict>>
  BY <1>7, <1>10
<1>11. QED
  BY <1>3, <1>4, <1>5, <1>6, <1>8, <1>9, <1>10
  DEF Next, RunOnce, Submit, DropHandles, Signal, Relaying, RelaySnapshot,
      RelayPublish, RelayWakes, RelayPanics, Stopped, vars, loopVars

-----------------------------------------------------------------------------
(* The channel is the rest of the submissions.                             *)
LEMMA TakenType ==
  ASSUME TypeOK, TakenInv
  PROVE  /\ Len(queue) \in Nat /\ Len(accepted) \in Nat /\ Taken \in 0 .. Len(accepted)
         /\ DOMAIN queue = 1 .. Len(queue) /\ DOMAIN accepted = 1 .. Len(accepted)
         /\ 1 .. Taken \subseteq DOMAIN accepted
         /\ \A i \in DOMAIN accepted : accepted[i] \in Operations
         /\ \A k \in DOMAIN outbox : outbox[k].event.op \in Operations
<1>1. /\ Len(queue) \in Nat /\ Len(accepted) \in Nat /\ Taken \in 0 .. Len(accepted)
      /\ DOMAIN queue = 1 .. Len(queue) /\ DOMAIN accepted = 1 .. Len(accepted)
  BY LenProperties DEF TypeOK, TakenInv, Taken
<1>2. \A i \in DOMAIN accepted : accepted[i] \in Operations
  BY <1>1, ElementOfSeq DEF TypeOK
<1>3. \A k \in DOMAIN outbox : outbox[k] \in Record
  BY LenProperties, ElementOfSeq DEF TypeOK
<1>4. QED
  BY <1>1, <1>2, <1>3 DEF Record, Event

(* A submission goes to the end of the channel.                            *)
LEMMA SubmitTakes ==
  ASSUME TypeOK, TakenInv, NEW o \in Operations, Submit(o)
  PROVE  /\ Len(accepted') = Len(accepted) + 1 /\ Len(queue') = Len(queue) + 1
         /\ \A i \in 1 .. Len(accepted) : accepted'[i] = accepted[i] /\ accepted[i] # o
         /\ accepted'[Len(accepted) + 1] = o
         /\ \A i \in 1 .. Len(queue) : queue'[i] = queue[i]
         /\ queue'[Len(queue) + 1] = o
         /\ Taken' = Taken
         /\ DOMAIN queue' = 1 .. Len(queue) + 1 /\ DOMAIN accepted' = 1 .. Len(accepted) + 1
<1>1. /\ Append(queue, o) \in Seq(Operations) /\ Append(accepted, o) \in Seq(Operations)
      /\ Len(accepted') = Len(accepted) + 1 /\ Len(queue') = Len(queue) + 1
      /\ \A i \in 1 .. Len(accepted) : accepted'[i] = accepted[i]
      /\ accepted'[Len(accepted) + 1] = o
      /\ \A i \in 1 .. Len(queue) : queue'[i] = queue[i]
      /\ queue'[Len(queue) + 1] = o
  BY AppendProperties DEF Submit, TypeOK
<1>2. Taken' = Taken
  BY <1>1, TakenType DEF Taken
<1>3. QED
  BY <1>1, <1>2, TakenType, LenProperties DEF Submit

(* run_once takes the first that was not taken yet.                        *)
LEMMA ReceiveTakes ==
  ASSUME TypeOK, TakenInv, Receive
  PROVE  /\ Taken' = Taken + 1 /\ Taken + 1 \in DOMAIN accepted
         /\ cur' = accepted[Taken + 1] /\ cur' \in Operations
         /\ Len(queue') = Len(queue) - 1 /\ DOMAIN queue' = 1 .. Len(queue) - 1
         /\ \A i \in 1 .. Len(queue) - 1 : queue'[i] = accepted[Taken + 1 + i]
<1>1. /\ queue \in Seq(Operations) /\ queue # <<>> /\ queue' = Tail(queue)
      /\ cur' = Head(queue) /\ UNCHANGED accepted
  BY DEF Receive, AfterReceive, TypeOK
<1>2. /\ queue' \in Seq(Operations) /\ Len(queue') = Len(queue) - 1
      /\ \A i \in 1 .. Len(queue) - 1 : queue'[i] = queue[i + 1]
      /\ Len(queue) > 0 /\ cur' = queue[1] /\ cur' \in Operations
  BY <1>1, HeadTailProperties, LenProperties
<1>3. \A i \in 1 .. Len(queue) : queue[i] = accepted[Taken + i]
  BY TakenType DEF TakenInv
<1>4. Taken' = Taken + 1
  BY <1>1, <1>2, TakenType DEF Taken
<1>5. Taken + 1 \in DOMAIN accepted
  BY <1>2, TakenType DEF TakenInv, Taken
<1>6. \A i \in 1 .. Len(queue) - 1 : queue'[i] = accepted[Taken + 1 + i]
  <2>. TAKE i \in 1 .. Len(queue) - 1
  <2>1. i + 1 \in 1 .. Len(queue) /\ Taken + (i + 1) = Taken + 1 + i
    BY TakenType
  <2>2. queue'[i] = queue[i + 1] /\ queue[i + 1] = accepted[Taken + (i + 1)]
    BY <1>2, <1>3, <2>1
  <2>3. QED
    BY <2>1, <2>2
<1>7. cur' = accepted[Taken + 1]
  <2>1. 1 \in 1 .. Len(queue)
    BY <1>2, TakenType
  <2>2. QED
    BY <1>2, <1>3, <2>1
<1>8. DOMAIN queue' = 1 .. Len(queue) - 1
  BY <1>2, LenProperties
<1>9. QED
  BY <1>2, <1>4, <1>5, <1>6, <1>7, <1>8

(* What has left the channel is finished or in hand.                       *)
LEMMA NextTaken ==
  ASSUME TypeOK, LoopInv, RelayInv, TakenInv, [Next]_vars
  PROVE  TakenInv'
<1>. USE DaemonAssumption, TakenType
<1>1. ASSUME NEW o \in Operations, Submit(o) PROVE TakenInv'
  <2>1. UNCHANGED <<cur, finished, serve, outbox>>
    BY <1>1 DEF Submit
  <2>2. \A x : WasTaken(x) => WasTaken(x)'
    BY <1>1, SubmitTakes DEF WasTaken
  <2>3. \A i, j \in DOMAIN accepted' : accepted'[i] = accepted'[j] => i = j
    BY <1>1, SubmitTakes DEF TakenInv
  <2>4. Len(queue') <= Len(accepted')
    BY <1>1, SubmitTakes DEF TakenInv
  <2>5. \A i \in DOMAIN queue' : queue'[i] = accepted'[Taken' + i]
    <3>1. Taken + Len(queue) + 1 = Len(accepted) + 1
      BY DEF Taken
    <3>2. \A i \in 1 .. Len(queue) : Taken + i \in 1 .. Len(accepted)
      BY <3>1
    <3>3. Taken' = Taken /\ DOMAIN queue' = 1 .. Len(queue) + 1
      BY <1>1, SubmitTakes
    <3>4. ASSUME NEW i \in 1 .. Len(queue) PROVE queue'[i] = accepted'[Taken + i]
      <4>1. queue'[i] = queue[i] /\ accepted'[Taken + i] = accepted[Taken + i]
        BY <1>1, <3>2, SubmitTakes
      <4>2. QED
        BY <4>1 DEF TakenInv
    <3>5. queue'[Len(queue) + 1] = accepted'[Taken + (Len(queue) + 1)]
      BY <1>1, <3>1, SubmitTakes
    <3>6. QED
      BY <3>3, <3>4, <3>5
  <2>6. \A i \in 1 .. Taken : accepted'[i] = accepted[i]
    BY <1>1, SubmitTakes
  <2>7. QED
    BY <1>1, SubmitTakes, <2>1, <2>2, <2>3, <2>4, <2>5, <2>6 DEF TakenInv
<1>2. CASE Receive
  <2>1. UNCHANGED <<accepted, finished, serve, outbox>> /\ cur = NULL /\ serve = "running"
    BY <1>2 DEF Receive, Polled
  <2>2. \A x : WasTaken(x) => WasTaken(x)'
    BY <1>2, <2>1, ReceiveTakes DEF WasTaken
  <2>3. /\ Taken' = Taken + 1 /\ Taken + 1 \in DOMAIN accepted /\ cur' = accepted[Taken + 1]
        /\ cur' \in Operations
    BY <1>2, ReceiveTakes
  <2>4. cur' \notin finished
    <3>1. \A i \in 1 .. Taken : accepted[i] # cur'
      BY <2>3 DEF TakenInv
    <3>2. QED
      BY <3>1 DEF TakenInv, WasTaken
  <2>5. \A i \in 1 .. Taken + 1 : accepted[i] \in finished \cup {cur'}
    <3>1. \A i \in 1 .. Taken : accepted[i] \in finished \/ accepted[i] = NULL
      BY <2>1 DEF TakenInv
    <3>2. QED
      BY <2>3, <3>1
  <2>6. \A i \in DOMAIN queue' : queue'[i] = accepted'[Taken' + i]
    BY <1>2, <2>1, <2>3, ReceiveTakes
  <2>7. Len(queue') <= Len(accepted')
    BY <1>2, <2>1, ReceiveTakes DEF TakenInv
  <2>8. \A o \in finished' : WasTaken(o)'
    BY <2>1, <2>2 DEF TakenInv
  <2>9. (\A k \in DOMAIN outbox : WasTaken(outbox[k].event.op))'
    BY <2>1, <2>2 DEF TakenInv
  <2>10. QED
    BY <2>1, <2>3, <2>4, <2>5, <2>6, <2>7, <2>8, <2>9 DEF TakenInv
<1>3. ASSUME NEW e \in Event, e.op = cur, outbox' = Appended(e), at # "recv",
             UNCHANGED <<queue, accepted, cur, finished, serve>>
      PROVE  TakenInv'
  <2>1. Taken' = Taken /\ \A x : (WasTaken(x)' <=> WasTaken(x))
    BY <1>3 DEF Taken, WasTaken
  <2>2. WasTaken(cur)
    BY <1>3 DEF LoopInv, TakenInv, WasTaken
  <2>3. \A k \in DOMAIN outbox' : \/ k \in DOMAIN outbox /\ outbox'[k] = outbox[k]
                                  \/ outbox'[k].event = e
    <3>1. /\ DOMAIN outbox = 1 .. Len(outbox) /\ Len(outbox) \in Nat
          /\ DOMAIN outbox' = 1 .. Len(outbox) + 1
      BY <1>3, LogGrows, LenProperties DEF TypeOK
    <3>2. outbox'[Len(outbox) + 1] = [event |-> e, status |-> "Pending"]
      BY <1>3, LogGrows
    <3>3. \A k \in DOMAIN outbox : outbox'[k] = outbox[k]
      BY <1>3, LogGrows
    <3>4. QED
      BY <3>1, <3>2, <3>3
  <2>4. \A k \in DOMAIN outbox' : WasTaken(outbox'[k].event.op)
    BY <1>3, <2>2, <2>3 DEF TakenInv
  <2>5. QED
    BY <1>3, <2>1, <2>4 DEF TakenInv
<1>4. CASE UserAnnounced \/ RegistrationReturns \/ DispatchReturns \/ StartedPersisted
  <2>1. /\ at # "recv" /\ UNCHANGED <<queue, accepted, cur, finished, serve>>
        /\ \E kind \in Kinds : outbox' = Appended(EventOf(kind))
    BY <1>4 DEF UserAnnounced, RegistrationReturns, DispatchReturns, LogStarted,
       StartedPersisted, Kinds, TypeOK
  <2>2. PICK kind \in Kinds : outbox' = Appended(EventOf(kind))
    BY <2>1
  <2>3. EventOf(kind) \in Event /\ EventOf(kind).op = cur
    BY <2>1, EventsAreEvents DEF EventOf
  <2>4. QED
    BY <1>3, <2>1, <2>2, <2>3
<1>5. CASE RelayMark
  <2>1. /\ DOMAIN outbox' = DOMAIN outbox
        /\ \A k \in DOMAIN outbox : outbox'[k].event = outbox[k].event
    BY <1>5, RelayHolds, MarkKeepsEvents DEF RelayMark
  <2>2. UNCHANGED <<queue, accepted, cur, finished, serve>>
    BY <1>5 DEF RelayMark, loopVars
  <2>3. Taken' = Taken /\ \A x : (WasTaken(x)' <=> WasTaken(x))
    BY <2>2 DEF Taken, WasTaken
  <2>4. QED
    BY <2>1, <2>2, <2>3 DEF TakenInv
<1>6. ASSUME UNCHANGED <<queue, accepted, outbox>>,
             \/ UNCHANGED <<cur, finished, serve>>
             \/ cur # NULL /\ cur' = NULL /\ finished' = finished \cup {cur}
                /\ (serve' = "running" => serve = "running")
             \/ cur' = NULL /\ finished' = finished /\ serve' # "running"
             \/ cur' = cur /\ finished' = finished /\ serve' # "running"
      PROVE  TakenInv'
  <2>1. Taken' = Taken /\ \A x : (WasTaken(x)' <=> WasTaken(x))
    BY <1>6 DEF Taken, WasTaken
  <2>2. cur # NULL => WasTaken(cur)
    BY DEF TakenInv, WasTaken
  <2>3. \A o \in finished' : WasTaken(o)
    BY <1>6, <2>2 DEF TakenInv
  <2>4. serve' = "running" => \A i \in 1 .. Taken : accepted[i] \in finished' \cup {cur'}
    BY <1>6 DEF TakenInv
  <2>5. QED
    BY <1>6, <2>1, <2>3, <2>4 DEF TakenInv
<1>7. CASE TerminalPersisted \/ CostRecorded
  BY <1>6, <1>7 DEF TerminalPersisted, CostRecorded, Stops, LoopInv
<1>8. CASE Serving
  BY <1>6, <1>8 DEF Serving, ServeSeesCancel, ServeSeesRelayDead, DropRunOnce,
     ServeSeesClosed, ServeJoinsRelay, loopVars
<1>9. CASE UNCHANGED <<queue, accepted, outbox, cur, finished, serve>>
  BY <1>6, <1>9
<1>10. QED
  BY <1>1, <1>2, <1>4, <1>5, <1>7, <1>8, <1>9
  DEF Next, RunOnce, DropHandles, Signal, UserCommitted, Relaying, RelaySnapshot,
      RelayPublish, RelayWakes, RelayPanics, Stopped, vars, loopVars

-----------------------------------------------------------------------------
(* A completed shutdown of an operation that ran to its end has stopped    *)
(* serve(): while serve() runs there is none.                              *)
LEMMA NextStop ==
  ASSUME TypeOK, LoopInv, RelayInv, TakenInv, StopInv, [Next]_vars
  PROVE  StopInv'
<1>. USE DaemonAssumption, TakenType
<1>1. {"created", "started", "completed", "failed"} \subseteq Kinds
  BY DEF Kinds, Verdicts
<1>2. ShutdownOps \subseteq Operations /\ (cur # NULL => cur \in Operations)
  BY DEF TypeOK
<1>3. ASSUME NEW o \in Operations, Submit(o) PROVE StopInv'
  <2>1. UNCHANGED <<cur, at, verdict, finished, serve, outbox>>
    BY <1>3 DEF Submit
  <2>2. \A x : Logged(x, "completed")' = Logged(x, "completed")
    BY <2>1 DEF Logged
  <2>3. Taken' = Taken /\ \A i \in 1 .. Taken : accepted'[i] = accepted[i]
    BY <1>3, SubmitTakes
  <2>4. QED
    BY <2>1, <2>2, <2>3 DEF StopInv
<1>4. CASE Receive
  <2>1. serve = "running" /\ UNCHANGED <<accepted, finished, outbox>>
    BY <1>4 DEF Receive, Polled
  <2>2. \A x : Logged(x, "completed")' = Logged(x, "completed")
    BY <2>1 DEF Logged
  <2>3. ~WasTaken(cur')
    BY <1>4, ReceiveTakes DEF TakenInv, WasTaken
  <2>4. Logged(cur', "completed") = {}
    BY <2>3 DEF Logged, TakenInv
  <2>5. QED
    BY <2>1, <2>2, <2>4 DEF StopInv
<1>5. ASSUME NEW kind \in Kinds, outbox' = Appended(EventOf(kind)),
             at \in {"dispatch", "announced", "started"}, serve = "running",
             UNCHANGED <<cur, finished, serve>>,
             kind = "completed" => at' = "terminal" /\ verdict' = "completed"
      PROVE  StopInv'
  <2>1. EventOf(kind) \in Event
    BY <1>5, EventsAreEvents
  <2>2. \A o \in Operations : o # cur \/ kind # "completed" =>
          Logged(o, "completed")' = Logged(o, "completed")
    BY <1>1, <1>5, <2>1, LoggedGrows, EventIsWhatItSays
  <2>3. cur \in Operations /\ cur \notin finished /\ Logged(cur, "completed") = {}
    BY <1>2, <1>5 DEF StopInv, LoopInv, TakenInv
  <2>4. \A o \in finished \cap ShutdownOps : Logged(o, "completed")' = {}
    BY <1>2, <1>5, <2>2, <2>3 DEF StopInv
  <2>5. Logged(cur, "completed")' # {} => at' = "terminal" /\ verdict' = "completed"
    BY <1>5, <2>2, <2>3
  <2>6. QED
    BY <1>5, <2>4, <2>5 DEF StopInv
<1>6. CASE UserAnnounced \/ RegistrationReturns \/ DispatchReturns
  <2>1. /\ at \in {"dispatch", "announced"} /\ serve = "running"
        /\ UNCHANGED <<cur, finished, serve>>
        /\ \E kind \in {"created", "started"} : outbox' = Appended(EventOf(kind))
    BY <1>6 DEF UserAnnounced, RegistrationReturns, DispatchReturns, LogStarted, LoopInv
  <2>2. QED
    BY <1>1, <1>5, <2>1
<1>7. CASE StartedPersisted
  BY <1>5, <1>7 DEF StartedPersisted, Polled, TypeOK, Kinds
<1>8. CASE TerminalPersisted
  <2>1. UNCHANGED <<queue, accepted, cur, verdict, finished, serve, outbox>> /\ at' = "cost"
    BY <1>8 DEF TerminalPersisted
  <2>2. Taken' = Taken /\ \A x : Logged(x, "completed")' = Logged(x, "completed")
    BY <2>1 DEF Logged, Taken
  <2>3. QED
    BY <2>1, <2>2 DEF StopInv
<1>9. CASE CostRecorded
  <2>1. /\ UNCHANGED <<queue, accepted, outbox>> /\ finished' = finished \cup {cur}
        /\ cur' = NULL /\ cur \in Operations /\ serve = "running"
        /\ Stops => serve' = "draining"
    BY <1>2, <1>9 DEF CostRecorded, Polled, LoopInv
  <2>2. Taken' = Taken /\ \A x : Logged(x, "completed")' = Logged(x, "completed")
    BY <2>1 DEF Logged, Taken
  <2>3. ASSUME NEW o \in finished' \cap ShutdownOps, Logged(o, "completed") # {}
        PROVE  o = cur /\ Stops
    BY <1>2, <2>1, <2>3 DEF StopInv, Stops
  <2>4. \A i \in 1 .. Taken : accepted[i] \in finished'
    BY <2>1 DEF TakenInv
  <2>5. QED
    BY <2>1, <2>2, <2>3, <2>4 DEF StopInv, TakenInv
<1>10. CASE RelayMark
  <2>1. \A o \in Operations : Logged(o, "completed")' = Logged(o, "completed")
    BY <1>1, <1>10, RelayHolds, MarkKeepsEvents DEF RelayMark
  <2>2. UNCHANGED <<queue, accepted, cur, at, verdict, finished, serve>>
    BY <1>10 DEF RelayMark, loopVars
  <2>3. Taken' = Taken
    BY <2>2 DEF Taken
  <2>4. QED
    BY <1>2, <2>1, <2>2, <2>3 DEF StopInv
<1>11. ASSUME UNCHANGED <<queue, accepted, finished, outbox>>,
              serve' # "running" \/ UNCHANGED serve,
              cur' = NULL \/ UNCHANGED <<cur, at, verdict>>
       PROVE  StopInv'
  <2>1. Taken' = Taken /\ \A x : Logged(x, "completed")' = Logged(x, "completed")
    BY <1>11 DEF Logged, Taken
  <2>2. QED
    BY <1>11, <2>1 DEF StopInv
<1>12. CASE Serving
  BY <1>11, <1>12 DEF Serving, ServeSeesCancel, ServeSeesRelayDead, DropRunOnce,
     ServeSeesClosed, ServeJoinsRelay, loopVars
<1>13. CASE UNCHANGED <<queue, accepted, outbox, cur, at, verdict, finished, serve>>
  BY <1>11, <1>13
<1>14. QED
  BY <1>3, <1>4, <1>6, <1>7, <1>8, <1>9, <1>10, <1>12, <1>13
  DEF Next, RunOnce, DropHandles, Signal, UserCommitted, Relaying, RelaySnapshot,
      RelayPublish, RelayWakes, RelayPanics, Stopped, vars, loopVars

-----------------------------------------------------------------------------
(* The relay publishes what follows its cursor, and marks what it          *)
(* published.                                                              *)
LEMMA NextRelay ==
  ASSUME TypeOK, LoopInv, RelayInv, [Next]_vars
  PROVE  RelayInv'
<1>1. /\ lastSeq \in Nat /\ Len(outbox) \in Nat /\ Len(published) \in Nat
      /\ DOMAIN outbox = 1 .. Len(outbox) /\ DOMAIN published = 1 .. Len(published)
  BY LenProperties DEF TypeOK
<1>2. ASSUME NEW e \in Event, outbox' = Appended(e), UNCHANGED relayVars PROVE RelayInv'
  <2>1. /\ Len(outbox') = Len(outbox) + 1
        /\ DOMAIN outbox' = 1 .. Len(outbox) + 1
        /\ \A i \in DOMAIN outbox : outbox'[i] = outbox[i]
        /\ outbox'[Len(outbox) + 1].status = "Pending"
    <3>1. outbox'[Len(outbox) + 1] = [event |-> e, status |-> "Pending"]
      BY <1>2, LogGrows
    <3>2. QED
      BY <1>1, <1>2, <3>1, LogGrows, LenProperties
  <2>2. /\ Len(published) <= Len(outbox) /\ lastSeq <= Len(outbox)
        /\ \A i \in DOMAIN outbox : i > lastSeq => outbox[i].status = "Pending"
    BY DEF RelayInv
  <2>3. \A i \in DOMAIN published : outbox'[i].event = outbox[i].event
    BY <1>1, <2>1, <2>2
  <2>4. \A i \in DOMAIN outbox' : i > lastSeq => outbox'[i].status = "Pending"
    BY <1>1, <2>1, <2>2
  <2>5. /\ lastSeq + 1 .. Len(outbox) \subseteq lastSeq + 1 .. Len(outbox')
        /\ Len(published) <= Len(outbox') /\ lastSeq <= Len(outbox')
    BY <1>1, <2>1, <2>2
  <2>6. QED
    BY <1>2, <2>3, <2>4, <2>5 DEF RelayInv, relayVars
<1>3. CASE UserAnnounced \/ RegistrationReturns \/ DispatchReturns \/ StartedPersisted
  <2>1. /\ at # "recv" /\ UNCHANGED relayVars
        /\ \E kind \in Kinds : outbox' = Appended(EventOf(kind))
    BY <1>3 DEF UserAnnounced, RegistrationReturns, DispatchReturns, LogStarted,
       StartedPersisted, Kinds, TypeOK
  <2>2. QED
    BY <1>2, <2>1, EventsAreEvents
<1>4. CASE RelaySnapshot
  <2>1. UNCHANGED <<outbox, lastSeq, published>> /\ relay = "snapshot"
    BY <1>4 DEF RelaySnapshot
  <2>2. pending' = lastSeq + 1 .. Len(outbox)
    BY <1>1, <1>4 DEF RelaySnapshot, PendingAfter, RelayInv
  <2>3. pending' # {} => Len(outbox) \in lastSeq + 1 .. Len(outbox)
    BY <1>1, <2>2
  <2>4. relay' = IF pending' = {} THEN "wait" ELSE "publish"
    BY <1>4 DEF RelaySnapshot
  <2>5. QED
    BY <2>1, <2>2, <2>3, <2>4 DEF RelayInv
<1>5. CASE RelayPublish
  <2>1. /\ relay = "publish" /\ relay' = "mark" /\ UNCHANGED <<outbox, lastSeq, pending>>
        /\ First(pending) = lastSeq + 1 /\ lastSeq + 1 \in DOMAIN outbox
    BY <1>5, RelayHolds DEF RelayPublish
  <2>2. Len(published) = lastSeq
    BY <2>1 DEF RelayInv
  <2>3. outbox[lastSeq + 1].event \in Event
    <3>1. outbox[lastSeq + 1] \in Record
      BY <1>1, <2>1, ElementOfSeq DEF TypeOK
    <3>2. QED
      BY <3>1 DEF Record
  <2>4. published' = Append(published, outbox[lastSeq + 1].event)
    BY <1>5, <2>1 DEF RelayPublish
  <2>5. /\ published' \in Seq(Event)
        /\ Len(published') = lastSeq + 1
        /\ \A i \in 1 .. lastSeq : published'[i] = published[i]
        /\ published'[lastSeq + 1] = outbox[lastSeq + 1].event
    BY <2>2, <2>3, <2>4, AppendProperties DEF TypeOK
  <2>6. \A i \in DOMAIN published' : published'[i] = outbox[i].event
    BY <1>1, <2>2, <2>5, LenProperties DEF RelayInv
  <2>7. QED
    BY <1>1, <2>1, <2>5, <2>6 DEF RelayInv
<1>6. CASE RelayMark
  <2>1. /\ First(pending) = lastSeq + 1 /\ lastSeq + 1 \in DOMAIN outbox
        /\ relay = "mark" /\ UNCHANGED published
        /\ outbox' = [outbox EXCEPT ![lastSeq + 1].status = "Dispatched"]
        /\ lastSeq' = lastSeq + 1 /\ pending' = pending \ {lastSeq + 1}
        /\ relay' = IF pending' = {} THEN "wait" ELSE "publish"
    BY <1>6, RelayHolds DEF RelayMark
  <2>2. /\ Len(outbox') = Len(outbox) /\ DOMAIN outbox' = DOMAIN outbox
        /\ \A k \in DOMAIN outbox : /\ outbox'[k].event = outbox[k].event
                                    /\ k # lastSeq + 1 => outbox'[k] = outbox[k]
    BY <2>1, LogMarked, MarkKeepsEvents
  <2>3. \A i \in DOMAIN outbox' : i > lastSeq' => outbox'[i].status = "Pending"
    BY <1>1, <2>1, <2>2 DEF RelayInv
  <2>4. \A i \in DOMAIN published : published[i] = outbox'[i].event
    <3>1. /\ Len(published) <= Len(outbox)
          /\ \A i \in DOMAIN published : published[i] = outbox[i].event
      BY DEF RelayInv
    <3>2. DOMAIN published \subseteq DOMAIN outbox
      BY <1>1, <3>1
    <3>3. QED
      BY <2>2, <3>1, <3>2
  <2>5. PICK m \in lastSeq + 1 .. Len(outbox) : pending' = lastSeq + 2 .. m
    BY <2>1, RelayHolds
  <2>6. pending' # {} => m \in lastSeq' + 1 .. Len(outbox')
    BY <1>1, <2>1, <2>2, <2>5
  <2>7. Len(published) = lastSeq' /\ lastSeq' <= Len(outbox')
    BY <1>1, <2>1, <2>2 DEF RelayInv
  <2>8. pending' # {} =>
          m \in lastSeq' + 1 .. Len(outbox') /\ pending' = lastSeq' + 1 .. m
    BY <1>1, <2>1, <2>5, <2>6
  <2>9. Len(published') <= Len(outbox') /\ published' = published
    BY <1>1, <2>1, <2>7
  <2>10. QED
    <3>1. relay' \in {"publish", "wait"} /\ (relay' = "publish" => pending' # {})
      BY <2>1
    <3>2. \A i \in DOMAIN published' : published'[i] = outbox'[i].event
      BY <2>4, <2>9
    <3>3. relay' = "publish" => \E k \in lastSeq' + 1 .. Len(outbox') : pending' = lastSeq' + 1 .. k
      BY <2>8, <3>1
    <3>4. QED
      BY <2>3, <2>7, <2>9, <3>1, <3>2, <3>3 DEF RelayInv
<1>7. ASSUME UNCHANGED <<outbox, published, lastSeq, pending>>,
             \/ UNCHANGED relay
             \/ relay' = "dead"
             \/ relay = "wait" /\ relay' \in {"done", "snapshot"}
      PROVE  RelayInv'
  BY <1>7 DEF RelayInv
<1>8. CASE RelayWakes \/ RelayPanics
  BY <1>7, <1>8 DEF RelayWakes, RelayPanics, AfterTick
<1>9. CASE UNCHANGED <<outbox, relay, published, lastSeq, pending>>
  BY <1>7, <1>9
<1>10. QED
  BY <1>3, <1>4, <1>5, <1>6, <1>8, <1>9
  DEF Next, RunOnce, Receive, TerminalPersisted, CostRecorded, Serving, ServeSeesCancel,
      ServeSeesRelayDead, ServeSeesClosed, ServeJoinsRelay, Submit, DropHandles, Signal,
      UserCommitted, Relaying, Stopped, vars, relayVars

-----------------------------------------------------------------------------
(* The ring: publishing shifts what is retained by one entry at most.      *)
LEMMA NextBus ==
  ASSUME TypeOK, LoopInv, RelayInv, BusRetainsNewest, [Next]_vars
  PROVE  BusRetainsNewest'
<1>. USE DaemonAssumption
<1>1. CASE UNCHANGED <<bus, published>>
  BY <1>1 DEF BusRetainsNewest
<1>2. CASE RelayPublish
  <2>. DEFINE Entry == [sequence : Nat, event : Event]
              e == outbox[First(pending)].event
              entry == [sequence |-> bus.next, event |-> e]
              longer == Append(bus.retained, entry)
              n == Len(published)
              kept == Len(bus.retained)
  <2>1. /\ bus.next = n + 1 /\ kept = IF n < BusCapacity THEN n ELSE BusCapacity
        /\ \A i \in 1 .. kept :
             bus.retained[i] = [sequence |-> n - kept + i, event |-> published[n - kept + i]]
    BY DEF BusRetainsNewest
  <2>2. n \in Nat /\ kept \in Nat /\ bus.retained \in Seq(Entry)
    BY LenProperties DEF TypeOK
  <2>3. First(pending) \in DOMAIN outbox
    BY <1>2, RelayHolds DEF RelayPublish
  <2>4. outbox[First(pending)] \in Record
    BY <2>3, ElementOfSeq, LenProperties DEF TypeOK
  <2>5. e \in Event
    BY <2>4 DEF Record
  <2>6. entry \in Entry
    BY <2>1, <2>2, <2>5
  <2>7. bus' = Published(e) /\ published' = Append(published, e)
    BY <1>2 DEF RelayPublish
  <2>8. /\ Len(published') = n + 1 /\ published'[n + 1] = e
        /\ \A i \in 1 .. n : published'[i] = published[i]
    BY <2>5, <2>7, AppendProperties DEF TypeOK
  <2>9. /\ longer \in Seq(Entry) /\ longer # <<>> /\ Len(longer) = kept + 1
        /\ \A i \in 1 .. kept : longer[i] = bus.retained[i]
        /\ longer[kept + 1] = [sequence |-> n + 1, event |-> published'[n + 1]]
    BY <2>1, <2>2, <2>6, <2>8, AppendProperties
  <2>10. /\ bus'.next = bus.next + 1
         /\ bus'.retained = IF Len(longer) > BusCapacity THEN Tail(longer) ELSE longer
    BY <2>7 DEF Published
  <2>. HIDE DEF longer, kept, e, n, entry, Entry
  <2>11. \A i \in 1 .. kept + 1 :
           longer[i] = [sequence |-> n - kept + i, event |-> published'[n - kept + i]]
    <3>. TAKE i \in 1 .. kept + 1
    <3>1. CASE i \in 1 .. kept
      <4>1. longer[i] = [sequence |-> n - kept + i, event |-> published[n - kept + i]]
        BY <2>1, <2>9, <3>1
      <4>2. n - kept + i \in 1 .. n
        BY <2>1, <2>2, <3>1
      <4>3. QED
        BY <2>8, <4>1, <4>2
    <3>2. CASE i = kept + 1
      <4>1. n - kept + i = n + 1
        BY <2>2, <3>2
      <4>2. QED
        BY <2>9, <3>2, <4>1
    <3>3. QED
      BY <2>2, <3>1, <3>2
  <2>12. CASE n < BusCapacity
    <3>1. kept = n /\ bus'.retained = longer
      BY <2>1, <2>2, <2>9, <2>10, <2>12
    <3>2. n - kept = n + 1 - (kept + 1)
      BY <2>2
    <3>3. /\ Len(published') = n + 1 /\ Len(bus'.retained) = kept + 1 /\ bus'.next = n + 1 + 1
      BY <2>1, <2>8, <2>9, <2>10, <3>1
    <3>4. kept + 1 = IF n + 1 < BusCapacity THEN n + 1 ELSE BusCapacity
      BY <2>2, <2>12, <3>1
    <3>5. \A i \in 1 .. Len(bus'.retained) : bus'.retained[i] =
            [sequence |-> Len(published') - Len(bus'.retained) + i,
             event |-> published'[Len(published') - Len(bus'.retained) + i]]
      <4>1. Len(published') - Len(bus'.retained) = n - kept
        BY <2>2, <3>2, <3>3
      <4>2. QED
        BY <2>11, <3>1, <3>3, <4>1
    <3>6. /\ bus'.next = Len(published') + 1
          /\ Len(bus'.retained) =
               IF Len(published') < BusCapacity THEN Len(published') ELSE BusCapacity
      BY <3>3, <3>4
    <3>7. QED
      BY <3>5, <3>6 DEF BusRetainsNewest
  <2>13. CASE ~ (n < BusCapacity)
    <3>1. kept = BusCapacity /\ bus'.retained = Tail(longer)
      BY <2>1, <2>2, <2>9, <2>10, <2>13
    <3>2. Len(Tail(longer)) = kept /\ \A i \in 1 .. kept : Tail(longer)[i] = longer[i + 1]
      BY <2>2, <2>9, HeadTailProperties
    <3>3. \A i \in 1 .. kept : i + 1 \in 1 .. kept + 1 /\ n - kept + (i + 1) = n + 1 - kept + i
      BY <2>2
    <3>4. /\ Len(published') = n + 1 /\ Len(bus'.retained) = kept /\ bus'.next = n + 1 + 1
      BY <2>1, <2>8, <2>10, <3>1, <3>2
    <3>5. kept = IF n + 1 < BusCapacity THEN n + 1 ELSE BusCapacity
      BY <2>2, <2>13, <3>1
    <3>6. \A i \in 1 .. kept : bus'.retained[i] =
            [sequence |-> n + 1 - kept + i, event |-> published'[n + 1 - kept + i]]
      BY <2>11, <3>1, <3>2, <3>3
    <3>7. \A i \in 1 .. Len(bus'.retained) : bus'.retained[i] =
            [sequence |-> Len(published') - Len(bus'.retained) + i,
             event |-> published'[Len(published') - Len(bus'.retained) + i]]
      <4>1. Len(published') - Len(bus'.retained) = n + 1 - kept
        BY <2>2, <3>4
      <4>2. QED
        BY <3>4, <3>6, <4>1
    <3>8. /\ bus'.next = Len(published') + 1
          /\ Len(bus'.retained) =
               IF Len(published') < BusCapacity THEN Len(published') ELSE BusCapacity
      BY <3>4, <3>5
    <3>9. QED
      BY <3>7, <3>8 DEF BusRetainsNewest
  <2>14. QED
    BY <2>12, <2>13
<1>3. QED
  BY <1>1, <1>2
  DEF Next, RunOnce, Receive, UserAnnounced, RegistrationReturns, DispatchReturns, LogStarted,
      StartedPersisted, TerminalPersisted, CostRecorded, Serving, ServeSeesCancel,
      ServeSeesRelayDead, ServeSeesClosed, ServeJoinsRelay, Submit, DropHandles, Signal,
      UserCommitted, Relaying, RelaySnapshot, RelayMark, RelayWakes, RelayPanics,
      Stopped, vars, relayVars

-----------------------------------------------------------------------------
(* The invariant holds at the start.                                       *)
LEMMA InitInv == Init => IInv
<1>. SUFFICES ASSUME Init PROVE IInv
  OBVIOUS
<1>1. TypeOK
  BY InitType
<1>2. LoopInv /\ TakenInv /\ StopInv /\ RelayInv
  BY DEF Init, LoopInv, TakenInv, Taken, WasTaken, StopInv, RelayInv
<1>3. Sendable = {} /\ \A o, kind : Logged(o, kind) = {}
  BY DEF Init, Sendable, Logged
<1>4. SendInv
  <2>1. DOMAIN sent = {} /\ Heard(sent) = {} /\ DOMAIN sent \ Heard(sent) = {}
    BY DEF Init, Heard
  <2>2. QED
    BY <1>3, <2>1, FS_EmptySet DEF Init, SendInv, SentAfterLogged, NoticePrecedes
<1>5. AnnounceInv
  BY <1>3 DEF Init, AnnounceInv, RegistrationIsAnnounced
<1>6. BusRetainsNewest
  BY DaemonAssumption DEF Init, BusRetainsNewest
<1>7. QED
  BY <1>1, <1>2, <1>4, <1>5, <1>6 DEF IInv

(* Its parts are inductive together.                                       *)
LEMMA NextInv == IInv /\ [Next]_vars => IInv'
  BY NextType, NextLoop, NextSend, NextAnnounce, NextTaken, NextStop, NextRelay, NextBus DEF IInv

(* The daemon keeps its inductive invariant.                               *)
THEOREM InductiveInvariant == Spec => []IInv
  BY InitInv, NextInv, PTL DEF Spec

(* Every variable of the daemon keeps its type (TypeOK).                   *)
THEOREM TypeCorrect == Spec => []TypeOK
  BY InductiveInvariant, PTL DEF IInv

(* Clients see a prefix of the logged events, whatever cuts run_once short *)
(* (ServiceLoop::run_once).                                                *)
THEOREM ClientsSeeTheLog == Spec => []SentAfterLogged
  BY InductiveInvariant, PTL DEF IInv, SendInv

(* user.created is logged for committed users only, and before the         *)
(* completed event of its registration (dispatch_register_user).           *)
THEOREM RegistrationsAnnounced == Spec => []RegistrationIsAnnounced
  BY InductiveInvariant, PTL DEF IInv, AnnounceInv

(* The bus holds the newest events under their own sequence numbers        *)
(* (EventBus::publish).                                                    *)
THEOREM BusIsNewest == Spec => []BusRetainsNewest
  BY InductiveInvariant, PTL DEF IInv

(* A completed Op::Shutdown comes after everything submitted before it and *)
(* before anything submitted after it (serve).                             *)
THEOREM ShutdownBarrier == Spec => []ShutdownIsBarrier
<1>1. IInv => ShutdownIsBarrier
  <2>. SUFFICES ASSUME IInv, NEW i \in DOMAIN accepted, NEW j \in DOMAIN accepted,
                       accepted[j] \in ShutdownOps \cap finished,
                       Logged(accepted[j], "completed") # {}
                PROVE  IF i < j THEN accepted[i] \in finished
                       ELSE i = j \/ \A k \in DOMAIN outbox : outbox[k].event.op # accepted[i]
    BY DEF ShutdownIsBarrier
  <2>. USE TakenType DEF IInv
  <2>1. Taken > 0 /\ accepted[j] = accepted[Taken] /\ \A k \in 1 .. Taken : accepted[k] \in finished
    BY DEF StopInv
  <2>2. j = Taken
    BY <2>1 DEF TakenInv
  <2>3. CASE i < j
    BY <2>1, <2>2, <2>3
  <2>4. CASE j < i
    BY <2>2, <2>4 DEF TakenInv, WasTaken
  <2>5. QED
    BY <2>3, <2>4
<1>2. QED
  BY <1>1, InductiveInvariant, PTL

-----------------------------------------------------------------------------
(* The refinement: appends log, RelayPublish ships, all else stutters.     *)
EventsOf(log) == [i \in DOMAIN log |-> log[i].event]

(* The events of a log are as many as its records.                         *)
LEMMA EventsOfType ==
  ASSUME NEW log \in Seq(Record)
  PROVE  EventsOf(log) \in Seq(Event) /\ Len(EventsOf(log)) = Len(log)
<1>1. Len(log) \in Nat /\ DOMAIN log = 1 .. Len(log)
  BY LenProperties
<1>2. \A i \in DOMAIN log : log[i] \in Record
  BY <1>1, ElementOfSeq
<1>3. \A i \in DOMAIN log : log[i].event \in Event
  BY <1>2 DEF Record
<1>4. EventsOf(log) \in [1 .. Len(log) -> Event]
  BY <1>1, <1>3 DEF EventsOf
<1>5. QED
  BY <1>1, <1>4

EventLog == EventsOf(outbox)

(* An append logs its event at the end; a mark logs none.                  *)
LEMMA EventLogGrows ==
  ASSUME TypeOK, NEW e \in Event, outbox' = Appended(e)
  PROVE  EventLog' = Append(EventLog, e)
<1>1. /\ Append(EventLog, e) \in Seq(Event) /\ Len(Append(EventLog, e)) = Len(outbox) + 1
      /\ \A i \in 1 .. Len(outbox) : Append(EventLog, e)[i] = EventLog[i]
      /\ Append(EventLog, e)[Len(outbox) + 1] = e
  <2>1. EventLog \in Seq(Event) /\ Len(EventLog) = Len(outbox)
    BY EventsOfType DEF EventLog, TypeOK
  <2>2. QED
    BY <2>1, AppendProperties
<1>2. EventLog' \in Seq(Event) /\ Len(EventLog') = Len(outbox')
  BY LogGrows, EventsOfType DEF EventLog
<1>3. /\ Len(outbox') = Len(outbox) + 1 /\ \A i \in DOMAIN outbox : outbox'[i] = outbox[i]
      /\ outbox'[Len(outbox) + 1] = [event |-> e, status |-> "Pending"]
  BY LogGrows
<1>4. /\ Len(outbox) \in Nat /\ DOMAIN outbox = 1 .. Len(outbox)
      /\ DOMAIN outbox' = 1 .. Len(outbox) + 1
  BY <1>3, LenProperties DEF TypeOK
<1>5. \A i \in 1 .. Len(outbox) + 1 : EventLog'[i] = Append(EventLog, e)[i]
  <2>. TAKE i \in 1 .. Len(outbox) + 1
  <2>1. EventLog'[i] = outbox'[i].event
    BY <1>4 DEF EventLog, EventsOf
  <2>2. CASE i \in 1 .. Len(outbox)
    BY <1>1, <1>3, <1>4, <2>1, <2>2 DEF EventLog, EventsOf
  <2>3. CASE i = Len(outbox) + 1
    BY <1>1, <1>3, <2>1, <2>3
  <2>4. i \in 1 .. Len(outbox) \/ i = Len(outbox) + 1
    BY <1>4
  <2>5. QED
    BY <2>2, <2>3, <2>4
<1>6. QED
  BY <1>1, <1>2, <1>3, <1>5, SeqEqual

(* Every step logs one event, ships the next one, or does neither.         *)
LEMMA StepLogsOrShips ==
  ASSUME IInv, IInv', [Next]_vars
  PROVE  [Delivery!Next]_<<EventLog, published>>
<1>. USE DEF IInv
<1>1. ASSUME NEW e \in Event, outbox' = Appended(e), UNCHANGED relayVars
      PROVE  Delivery!Next
  <2>1. EventLog' = Append(EventLog, e)
    BY <1>1, EventLogGrows
  <2>2. QED
    BY <1>1, <2>1 DEF Delivery!Next, Delivery!Log, EventLog, EventsOf, relayVars
<1>2. CASE UserAnnounced \/ RegistrationReturns \/ DispatchReturns \/ StartedPersisted
  <2>1. /\ at # "recv" /\ UNCHANGED relayVars
        /\ \E kind \in Kinds : outbox' = Appended(EventOf(kind))
    BY <1>2 DEF UserAnnounced, RegistrationReturns, DispatchReturns, LogStarted,
       StartedPersisted, Kinds, TypeOK
  <2>2. QED
    BY <1>1, <2>1, EventsAreEvents
<1>3. CASE RelayPublish
  <2>1. /\ First(pending) = lastSeq + 1 /\ lastSeq + 1 \in DOMAIN outbox
        /\ relay = "publish" /\ UNCHANGED outbox
    BY <1>3, RelayHolds DEF RelayPublish
  <2>2. Len(published) = lastSeq
    BY <2>1 DEF RelayInv
  <2>3. lastSeq < Len(outbox)
    <3>1. lastSeq \in Nat /\ Len(outbox) \in Nat /\ DOMAIN outbox = 1 .. Len(outbox)
      BY LenProperties DEF TypeOK
    <3>2. QED
      BY <2>1, <3>1
  <2>4. published' = Append(published, outbox[lastSeq + 1].event)
    BY <1>3, <2>1 DEF RelayPublish
  <2>5. EventLog' = EventLog /\ EventLog[lastSeq + 1] = outbox[lastSeq + 1].event
    BY <2>1 DEF EventLog, EventsOf
  <2>6. Len(EventLog) = Len(outbox)
    BY EventsOfType DEF EventLog, TypeOK
  <2>7. QED
    BY <2>2, <2>3, <2>4, <2>5, <2>6 DEF Delivery!Next, Delivery!Ship, EventLog, EventsOf
<1>4. CASE RelayMark
  <2>1. /\ DOMAIN outbox' = DOMAIN outbox /\ UNCHANGED published
        /\ \A k \in DOMAIN outbox : outbox'[k].event = outbox[k].event
    BY <1>4, RelayHolds, MarkKeepsEvents DEF RelayMark
  <2>2. QED
    BY <2>1 DEF EventLog, EventsOf
<1>5. CASE UNCHANGED <<outbox, published>>
  BY <1>5 DEF EventLog, EventsOf
<1>6. QED
  BY <1>2, <1>3, <1>4, <1>5
  DEF Next, RunOnce, Receive, TerminalPersisted, CostRecorded, Serving, ServeSeesCancel,
      ServeSeesRelayDead, ServeSeesClosed, ServeJoinsRelay, Submit, DropHandles, Signal,
      UserCommitted, Relaying, RelaySnapshot, RelayWakes, RelayPanics, Stopped, vars, relayVars

(* The outbox and its relay implement at-most-once, in-order delivery      *)
(* (spawn_inmemory_relay, InMemoryOutbox).                                 *)
THEOREM RelayImplementsDelivery == Spec => ImplementsDelivery
<1>1. Init => Delivery!Init
  BY DEF Init, Delivery!Init
<1>2. IInv /\ IInv' /\ [Next]_vars => [Delivery!Next]_<<EventLog, published>>
  BY StepLogsOrShips
<1>3. QED
  BY <1>1, <1>2, InductiveInvariant, PTL DEF Spec, ImplementsDelivery, Delivery!Spec, EventLog, EventsOf

-----------------------------------------------------------------------------
(* Where the claim that the run daemon_drain refutes does hold.  Without   *)
(* signals the token is cancelled by serve() alone, as it stops.           *)
DrainInv ==
  /\ serve = "running" => ~cancelled
  /\ serve # "error" => cut = {}

LEMMA DrainStep ==
  ASSUME TypeOK, LoopInv, DrainInv, [Next]_vars, [~Signal]_vars
  PROVE  DrainInv'
<1>1. CASE RunOnce
  <2>1. cut' = cut
    BY <1>1 DEF RunOnce, Receive, UserAnnounced, RegistrationReturns, LogStarted,
       StartedPersisted, TerminalPersisted, CostRecorded
  <2>2. (serve' = serve /\ cancelled' = cancelled) \/ CostRecorded
    BY <1>1 DEF RunOnce, Receive, UserAnnounced, RegistrationReturns, LogStarted,
       StartedPersisted, TerminalPersisted
  <2>3. CASE CostRecorded
    BY <2>1, <2>3 DEF CostRecorded, Polled, DrainInv
  <2>4. QED
    BY <2>1, <2>2, <2>3 DEF DrainInv
<1>2. CASE Serving
  BY <1>2 DEF Serving, ServeSeesCancel, ServeSeesRelayDead, ServeSeesClosed, ServeJoinsRelay,
     Polled, loopVars, DrainInv
<1>3. CASE Relaying \/ RelayPanics
  BY <1>3 DEF Relaying, RelaySnapshot, RelayPublish, RelayMark, RelayWakes, RelayPanics,
     loopVars, DrainInv
<1>4. CASE Signal
  <2>1. UNCHANGED vars
    BY <1>4
  <2>2. QED
    BY <2>1 DEF vars, loopVars, DrainInv
<1>5. CASE \/ \E o \in Operations : Submit(o)
           \/ DropHandles \/ UserCommitted \/ DispatchReturns \/ Stopped
           \/ UNCHANGED vars
  BY <1>5 DEF Submit, DropHandles, UserCommitted, DispatchReturns, LogStarted, Stopped,
     vars, loopVars, DrainInv
<1>6. QED
  BY <1>1, <1>2, <1>3, <1>4, <1>5 DEF Next

(* Stopped by a Shutdown or by the last handle's drop, and not by a        *)
(* signal, serve() returns Ok with every dispatch it began drained, as     *)
(* service-operability.md says: only a signal drops one (serve).           *)
THEOREM ShutdownDrains ==
  Spec /\ [][~Signal]_vars => []InFlightDispatchesDrain
<1>1. Init => DrainInv
  BY DEF Init, DrainInv
<1>2. DrainInv => InFlightDispatchesDrain
  BY DEF DrainInv, InFlightDispatchesDrain
<1>3. IInv => TypeOK /\ LoopInv
  BY DEF IInv
<1>4. QED
  BY <1>1, <1>2, <1>3, DrainStep, InductiveInvariant, PTL DEF Spec
=============================================================================
