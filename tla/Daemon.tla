------------------------------- MODULE Daemon -------------------------------
(***************************************************************************)
(* The daemon of crates/tdw-app-server: serve() drives ServiceLoop, which  *)
(* takes one submitted operation at a time, dispatches it, and persists    *)
(* and sends its events; the in-memory relay (spawn_inmemory_relay) ships  *)
(* the outbox to the event bus.                                            *)
(*                                                                         *)
(* serve() holds run_once() in a biased select!: at every await of         *)
(* run_once the cancellation token and the relay's end are looked at       *)
(* first, and if either is there, the run_once future is dropped where it  *)
(* stands.  An action of the loop here is what run_once does from one      *)
(* await to the next.  The relay takes the outbox and bus locks one at a   *)
(* time; each critical section is an action.                               *)
(***************************************************************************)
EXTENDS Naturals, Sequences, FiniteSets

CONSTANTS
  Operations,   (* operation envelopes that may be submitted *)
  ShutdownOps,  (* those whose op is Op::Shutdown *)
  RegisterOps,  (* those whose op registers a user *)
  BusCapacity,  (* capacity of the in-memory EventBus *)
  MaxFailures,  (* bound: sink errors while the daemon runs *)
  NULL

ASSUME DaemonAssumption ==
  /\ ShutdownOps \subseteq Operations
  /\ RegisterOps \subseteq Operations \ ShutdownOps
  /\ BusCapacity \in Nat \ {0}
  /\ MaxFailures \in Nat
  /\ NULL \notin Operations

VARIABLES
  queue,      (* the submission channel *)
  open,       (* some SubmissionHandle is left *)
  accepted,   (* operations whose submit returned Ok, in order *)
  cur,        (* the operation run_once is working on, or NULL *)
  at,         (* the await run_once is suspended at *)
  verdict,    (* the terminal event of the current dispatch *)
  finished,   (* operations run_once returned for *)
  cut,        (* operations whose run_once was dropped *)
  users,      (* registrations the user store has committed *)
  outbox,     (* the records of InMemoryOutbox; sequence numbers 1, 2, ... *)
  sent,       (* messages sent on the event channel *)
  failures,   (* sink errors so far (persist_failures, cost_failures) *)
  relay,      (* where the relay is *)
  pending,    (* the batch of record numbers it is shipping *)
  lastSeq,    (* its last_seq *)
  bus,        (* EventBus: next_sequence and the retained entries *)
  published,  (* history: the events published on the bus *)
  cancelled,  (* the cancellation token *)
  serve       (* where serve() is *)

loopVars == <<queue, open, accepted, cur, at, verdict, finished, cut,
              users, failures>>
relayVars == <<relay, pending, lastSeq, bus, published>>
vars == <<loopVars, outbox, sent, relayVars, cancelled, serve>>

-----------------------------------------------------------------------------
Verdicts == {"completed", "failed"}

Kinds == {"started", "created"} \cup Verdicts

Event == [op : Operations, kind : Kinds]

Record == [event : Event, status : {"Pending", "Dispatched"}]

(* service.persist_event_failed and service.record_cost_failed: sent to    *)
(* the clients, never logged.  The payload of the first is the sequence    *)
(* number of the event; the second has none, here 0.                       *)
Notices == {"persist_event_failed", "record_cost_failed"}

Notice == [op : Operations, kind : Notices, sequence : Nat]

Message == Event \cup Notice

(* The awaits of run_once, and "announced", a point within a poll.         *)
Awaits == {"recv", "dispatch", "announced", "started", "terminal", "cost"}

EventOf(kind) == [op |-> cur, kind |-> kind]

(* Mutant of Appended: the record is lost.                                 *)
NotAppended(event) == outbox

(* InMemoryOutbox::append.                                                 *)
Appended(event) == Append(outbox, [event |-> event, status |-> "Pending"])

(* Mutants of PendingAfter: the last sequence is read again, whatever its  *)
(* status; the record after the last sequence is skipped; the range runs   *)
(* one past the end.                                                       *)
PendingFrom(seq) == {i \in DOMAIN outbox : i >= seq}
PendingFromTwo(seq) == {i \in DOMAIN outbox : i > seq + 1 /\ outbox[i].status = "Pending"}
PendingToNext(seq) == seq + 1 .. Len(outbox) + 1

(* InMemoryOutbox::pending_after.                                          *)
PendingAfter(seq) == {i \in DOMAIN outbox : i > seq /\ outbox[i].status = "Pending"}

(* The records of the events run_once persists: user.created is not its.   *)
Sendable == {i \in DOMAIN outbox : outbox[i].event.kind # "created"}

(* The number next_sequence has given to the newest of them.               *)
LastNumber == Cardinality(Sendable)

First(S) == CHOOSE i \in S : \A k \in S : i <= k

(* Mutant of Published: the newest entry is evicted.                       *)
EvictsNewest(event) ==
  [next     |-> bus.next + 1,
   retained |-> IF Len(bus.retained) < BusCapacity
                THEN Append(bus.retained, [sequence |-> bus.next, event |-> event])
                ELSE bus.retained]

(* EventBus::publish: push at the back, evict from the front.              *)
Published(event) ==
  LET longer == Append(bus.retained, [sequence |-> bus.next, event |-> event])
  IN [next     |-> bus.next + 1,
      retained |-> IF Len(longer) > BusCapacity THEN Tail(longer) ELSE longer]

-----------------------------------------------------------------------------
Init ==
  /\ queue = <<>> /\ open = TRUE /\ accepted = <<>>
  /\ cur = NULL /\ at = "recv" /\ verdict = "completed"
  /\ finished = {} /\ cut = {} /\ users = {} /\ failures = 0
  /\ outbox = <<>> /\ sent = <<>>
  /\ relay = "snapshot" /\ pending = {} /\ lastSeq = 0
  /\ bus = [next |-> 1, retained |-> <<>>] /\ published = <<>>
  /\ cancelled = FALSE /\ serve = "running"

(* The receiver lives as long as serve(): until it returns, submit is Ok.  *)
Submit(o) ==
  /\ open
  /\ serve \in {"running", "draining"}
  /\ \A i \in DOMAIN accepted : accepted[i] # o
  /\ queue' = Append(queue, o)
  /\ accepted' = Append(accepted, o)
  /\ UNCHANGED <<open, cur, at, verdict, finished, cut, users, failures, outbox,
                 sent, relayVars, cancelled, serve>>

(* The last SubmissionHandle is dropped.                                   *)
DropHandles ==
  /\ open
  /\ open' = FALSE
  /\ UNCHANGED <<queue, accepted, cur, at, verdict, finished, cut, users,
                 failures, outbox, sent, relayVars, cancelled, serve>>

(* SIGTERM, ctrl-c, or Backend::shutdown.                                  *)
Signal ==
  /\ ~cancelled
  /\ cancelled' = TRUE
  /\ UNCHANGED <<loopVars, outbox, sent, relayVars, serve>>

-----------------------------------------------------------------------------
(* ServiceLoop::run_once, inside the select! of serve().                   *)

(* The biased select! polls the token and the relay's handle first.        *)
Polled == serve = "running" /\ ~cancelled /\ relay # "dead"

(* Mutant of AfterReceive: what is queued behind is drained with it.       *)
DrainsQueue == <<>>

AfterReceive == Tail(queue)

Receive ==
  /\ Polled
  /\ cur = NULL /\ queue # <<>>
  /\ cur' = Head(queue)
  /\ queue' = AfterReceive
  /\ at' = "dispatch"
  /\ UNCHANGED <<open, accepted, verdict, finished, cut, users, failures, outbox,
                 sent, relayVars, cancelled, serve>>

(* The user store commits the registration dispatch() is waiting for.      *)
UserCommitted ==
  /\ at = "dispatch" /\ cur \in RegisterOps \ users
  /\ users' = users \cup {cur}
  /\ UNCHANGED <<queue, open, accepted, cur, at, verdict, finished, cut, failures,
                 outbox, sent, relayVars, cancelled, serve>>

(* Mutant of MayAnnounce: the event is logged before the store is awaited. *)
AnnouncesFirst == cur \in RegisterOps

MayAnnounce == cur \in RegisterOps \cap users

(* UserStore::register returned Ok: user.created goes to the outbox.  The  *)
(* function jobs are enqueued and dispatch() returns with no await between *)
(* (RegistrationReturns); only the relay can come in between.              *)
UserAnnounced ==
  /\ Polled
  /\ at = "dispatch" /\ MayAnnounce
  /\ outbox' = Appended(EventOf("created"))
  /\ at' = "announced"
  /\ UNCHANGED <<queue, open, accepted, cur, verdict, finished, cut, users,
                 failures, sent, relayVars, cancelled, serve>>

(* dispatch() yields Started and a terminal event; the first is appended   *)
(* to the outbox before the rollout file is awaited.                       *)
LogStarted ==
  /\ outbox' = Appended(EventOf("started"))
  /\ at' = "started"
  /\ UNCHANGED <<queue, open, accepted, cur, finished, cut, users, failures, sent,
                 relayVars, cancelled, serve>>

RegistrationReturns ==
  /\ at = "announced" /\ verdict' = "completed"
  /\ LogStarted

DispatchReturns ==
  /\ Polled
  /\ \/ at = "dispatch" /\ cur \notin RegisterOps /\ verdict' \in Verdicts
     \/ at = "dispatch" /\ cur \in RegisterOps \ users /\ verdict' = "failed"
  /\ LogStarted

PersistFailed == [op |-> cur, kind |-> "persist_event_failed", sequence |-> LastNumber]

CostFailed == [op |-> cur, kind |-> "record_cost_failed", sequence |-> 0]

(* A sink error is counted, and the clients are told of it by a notice;    *)
(* run_once goes on all the same.                                          *)
SinkMayFail(notice, told) ==
  \/ told = sent /\ UNCHANGED failures
  \/ /\ failures < MaxFailures
     /\ told = Append(sent, notice)
     /\ failures' = failures + 1

(* The rollout append of the first event returned: the event is sent and   *)
(* the second persisted.                                                   *)
StartedPersisted ==
  /\ Polled
  /\ at = "started"
  /\ \E told \in {sent, Append(sent, PersistFailed)} :
       SinkMayFail(PersistFailed, told) /\ sent' = Append(told, EventOf("started"))
  /\ outbox' = Appended(EventOf(verdict))
  /\ at' = "terminal"
  /\ UNCHANGED <<queue, open, accepted, cur, verdict, finished, cut, users,
                 relayVars, cancelled, serve>>

TerminalPersisted ==
  /\ Polled
  /\ at = "terminal"
  /\ \E told \in {sent, Append(sent, PersistFailed)} :
       SinkMayFail(PersistFailed, told) /\ sent' = Append(told, EventOf(verdict))
  /\ at' = "cost"
  /\ UNCHANGED <<queue, open, accepted, cur, verdict, finished, cut, users, outbox,
                 relayVars, cancelled, serve>>

(* Mutant of Stops: serve() never looks for the completed Op::Shutdown.    *)
NeverStops == FALSE

(* serve() stops after a completed Op::Shutdown.                           *)
Stops == cur \in ShutdownOps /\ verdict = "completed"

(* The cost record is written and run_once returns.                        *)
CostRecorded ==
  /\ Polled
  /\ at = "cost"
  /\ sent' \in {sent, Append(sent, CostFailed)} /\ SinkMayFail(CostFailed, sent')
  /\ finished' = finished \cup {cur}
  /\ cur' = NULL
  /\ at' = "recv"
  /\ cancelled' = (cancelled \/ Stops)
  /\ serve' = IF Stops THEN "draining" ELSE serve
  /\ UNCHANGED <<queue, open, accepted, verdict, cut, users, outbox, relayVars>>

(* run_once's future is dropped where it stands.                           *)
DropRunOnce ==
  /\ cut' = IF cur = NULL THEN cut ELSE cut \cup {cur}
  /\ cur' = NULL
  /\ at' = "recv"

ServeSeesCancel ==
  /\ serve = "running" /\ cancelled /\ at # "announced"
  /\ serve' = "draining"
  /\ DropRunOnce
  /\ UNCHANGED <<queue, open, accepted, verdict, finished, users, failures, outbox, sent,
                 relayVars, cancelled>>

(* The relay ended (it panicked) while serving.                            *)
ServeSeesRelayDead ==
  /\ serve = "running" /\ ~cancelled /\ relay = "dead" /\ at # "announced"
  /\ serve' = "error"
  /\ cancelled' = TRUE
  /\ DropRunOnce
  /\ UNCHANGED <<queue, open, accepted, verdict, finished, users, failures, outbox, sent,
                 relayVars>>

(* run_once returned None: no handle is left and the channel is empty.     *)
ServeSeesClosed ==
  /\ Polled
  /\ cur = NULL /\ queue = <<>> /\ ~open
  /\ serve' = "draining"
  /\ cancelled' = TRUE
  /\ UNCHANGED <<loopVars, outbox, sent, relayVars>>

ServeJoinsRelay ==
  /\ serve = "draining" /\ relay \in {"done", "dead"}
  /\ serve' = "done"
  /\ UNCHANGED <<loopVars, outbox, sent, relayVars, cancelled>>

-----------------------------------------------------------------------------
(* The relay.                                                              *)

RelaySnapshot ==
  /\ relay = "snapshot"
  /\ pending' = PendingAfter(lastSeq)
  /\ relay' = IF pending' = {} THEN "wait" ELSE "publish"
  /\ UNCHANGED <<loopVars, outbox, sent, lastSeq, bus, published,
                 cancelled, serve>>

RelayPublish ==
  /\ relay = "publish"
  /\ LET event == outbox[First(pending)].event
     IN bus' = Published(event) /\ published' = Append(published, event)
  /\ relay' = "mark"
  /\ UNCHANGED <<loopVars, outbox, sent, pending, lastSeq,
                 cancelled, serve>>

RelayMark ==
  /\ relay = "mark"
  /\ LET i == First(pending)
     IN /\ outbox' = [outbox EXCEPT ![i].status = "Dispatched"]
        /\ lastSeq' = i
        /\ pending' = pending \ {i}
  /\ relay' = IF pending' = {} THEN "wait" ELSE "publish"
  /\ UNCHANGED <<loopVars, sent, bus, published, cancelled, serve>>

(* Mutant of AfterTick: the relay does not look at the token.              *)
TicksForEver == "snapshot"

AfterTick == IF cancelled THEN "done" ELSE "snapshot"

RelayWakes ==
  /\ relay = "wait"
  /\ relay' = AfterTick
  /\ UNCHANGED <<loopVars, outbox, sent, pending, lastSeq, bus, published,
                 cancelled, serve>>

(* A panic in the relay task.                                              *)
RelayPanics ==
  /\ relay \notin {"done", "dead"}
  /\ relay' = "dead"
  /\ UNCHANGED <<loopVars, outbox, sent, pending, lastSeq, bus,
                 published, cancelled, serve>>

Stopped ==
  /\ serve \in {"done", "error"}
  /\ UNCHANGED vars

-----------------------------------------------------------------------------
RunOnce ==
  \/ Receive
  \/ UserAnnounced \/ RegistrationReturns
  \/ StartedPersisted
  \/ TerminalPersisted
  \/ CostRecorded

Serving == ServeSeesCancel \/ ServeSeesRelayDead \/ ServeSeesClosed \/ ServeJoinsRelay

Relaying == RelaySnapshot \/ RelayPublish \/ RelayMark \/ RelayWakes

Next ==
  \/ \E o \in Operations : Submit(o)
  \/ DropHandles
  \/ Signal
  \/ RunOnce
  \/ UserCommitted
  \/ DispatchReturns
  \/ Serving
  \/ Relaying
  \/ RelayPanics
  \/ Stopped

(* The tasks run; a dispatch (a provider call, a query) may hang for ever. *)
Fairness ==
  /\ WF_vars(RunOnce)
  /\ WF_vars(Serving)
  /\ WF_vars(Relaying)

Spec == Init /\ [][Next]_vars /\ Fairness

-----------------------------------------------------------------------------
TypeOK ==
  /\ queue \in Seq(Operations) /\ accepted \in Seq(Operations)
  /\ open \in BOOLEAN
  /\ cur \in Operations \cup {NULL}
  /\ at \in Awaits
  /\ verdict \in Verdicts
  /\ finished \subseteq Operations /\ cut \subseteq Operations
  /\ users \subseteq RegisterOps
  /\ failures \in 0 .. MaxFailures
  /\ outbox \in Seq(Record)
  /\ sent \in Seq(Message) /\ published \in Seq(Event)
  /\ relay \in {"snapshot", "publish", "mark", "wait", "done", "dead"}
  /\ pending \subseteq DOMAIN outbox
  /\ lastSeq \in Nat
  /\ bus \in [next : Nat, retained : Seq([sequence : Nat, event : Event])]
  /\ cancelled \in BOOLEAN
  /\ serve \in {"running", "draining", "done", "error"}

(* The operation events the clients get are those of the outbox, in its    *)
(* order, and never one it does not hold; the outbox is at most one event  *)
(* ahead, also of an operation that was cut short.  Every counted sink     *)
(* error reaches them as a notice, and one about an event comes directly   *)
(* before the event its sequence number names (run_once).                  *)
Position(i) == Cardinality({k \in Sendable : k <= i})

Heard(messages) == {k \in DOMAIN messages : messages[k].kind \notin Notices}

Rank(messages, k) == Cardinality({h \in Heard(messages) : h <= k})

NoticePrecedes(messages) ==
  \A k \in DOMAIN messages : messages[k].kind = "persist_event_failed" =>
    /\ k + 1 \in Heard(messages)
    /\ messages[k + 1].op = messages[k].op
    /\ Rank(messages, k + 1) = messages[k].sequence

SentAfterLogged ==
  /\ Cardinality(Sendable) \in Cardinality(Heard(sent)) .. Cardinality(Heard(sent)) + 1
  /\ \A i \in Sendable, k \in Heard(sent) :
       Position(i) = Rank(sent, k) => sent[k] = outbox[i].event
  /\ NoticePrecedes(sent)
  /\ Cardinality(DOMAIN sent \ Heard(sent)) = failures

(* user.created is logged for committed registrations only, and a finished *)
(* one has been announced, before its terminal event                       *)
(* (dispatch_register_user).                                               *)
Logged(o, kind) == {i \in DOMAIN outbox : outbox[i].event = [op |-> o, kind |-> kind]}

RegistrationIsAnnounced ==
  \A o \in RegisterOps :
    /\ Logged(o, "created") # {} => o \in users
    /\ \A i \in Logged(o, "completed") : \E k \in Logged(o, "created") : k < i

(* The bus retains the newest BusCapacity events with their sequence       *)
(* numbers, so has_retention_gap tells a late reader the truth.            *)
BusRetainsNewest ==
  LET n == Len(published)
      kept == Len(bus.retained)
  IN /\ bus.next = n + 1
     /\ kept = IF n < BusCapacity THEN n ELSE BusCapacity
     /\ \A i \in 1 .. kept :
          bus.retained[i] = [sequence |-> n - kept + i, event |-> published[n - kept + i]]

(* A completed Op::Shutdown is a barrier: what was submitted before it has *)
(* finished, what was submitted after it leaves no trace in the log        *)
(* (serve, run_once).                                                      *)
ShutdownIsBarrier ==
  \A i, j \in DOMAIN accepted :
    accepted[j] \in ShutdownOps \cap finished /\ Logged(accepted[j], "completed") # {} =>
      IF i < j THEN accepted[i] \in finished
      ELSE i = j \/ \A k \in DOMAIN outbox : outbox[k].event.op # accepted[i]

(* serve() returns once it is cancelled, also while a dispatch hangs.      *)
ServeReturns == cancelled ~> serve \in {"done", "error"}

(* While nobody stops the daemon, every accepted operation finishes and    *)
(* every logged event reaches the bus, if dispatches return.               *)
OperationsFinish ==
  WF_vars(DispatchReturns \/ UserCommitted) =>
    \A o \in Operations :
      (\E i \in DOMAIN accepted : accepted[i] = o) ~> (o \in finished \/ cancelled)

LoggedIsPublished ==
  \A n \in 1 .. 3 * Cardinality(Operations) :
    n <= Len(outbox) ~> (n <= Len(published) \/ cancelled \/ relay = "dead")

Delivery == INSTANCE OutboxDelivery WITH
              log <- [i \in DOMAIN outbox |-> outbox[i].event],
              shipped <- published

(* The relay ships the outbox at most once each, in order.                 *)
ImplementsDelivery == Delivery!Spec

-----------------------------------------------------------------------------
(* service-operability.md: on SIGTERM "in-flight dispatches drain before   *)
(* the daemon returns".  Refuted: serve() drops run_once at its await.     *)
InFlightDispatchesDrain == serve = "done" /\ relay = "done" => cut = {}
=============================================================================
