--------------------------- MODULE OutboxDelivery ---------------------------
(***************************************************************************)
(* What the transactional outbox promises: events are logged, and every    *)
(* logged event is shipped at most once and in the order of the log.       *)
(***************************************************************************)
EXTENDS Naturals, Sequences

CONSTANT Event

VARIABLES
  log,      (* the events logged so far *)
  shipped   (* the events shipped so far *)

Init == log = <<>> /\ shipped = <<>>

Log(e) == log' = Append(log, e) /\ UNCHANGED shipped

Ship ==
  /\ Len(shipped) < Len(log)
  /\ shipped' = Append(shipped, log[Len(shipped) + 1])
  /\ UNCHANGED log

Next == (\E e \in Event : Log(e)) \/ Ship

Spec == Init /\ [][Next]_<<log, shipped>>
=============================================================================
