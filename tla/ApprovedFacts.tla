--------------------------- MODULE ApprovedFacts ---------------------------
(***************************************************************************)
(* Contradiction with a history of what the gate approved last of each     *)
(* subject, to compare the detector with what is promised of it.           *)
(***************************************************************************)
EXTENDS MCContradiction

VARIABLE approved

HistoryInit == Init /\ approved = [s \in Subjects |-> NULL]

Remember ==
  approved' =
    IF gate # NULL /\ gate.kind = "assert" /\ gate' = NULL
    THEN [approved EXCEPT ![gate.edge.subject] = Id(gate.edge)]
    ELSE approved

HistoryNext == Next /\ Remember

HistorySpec == HistoryInit /\ [][HistoryNext]_<<vars, approved>>

(* What crates/tdw-taxonomy/src/functional_predicates.rs says of a new     *)
(* fact of a functional relation: the old fact is superseded, and "the     *)
(* current view returns" the new one.  Here: when a scan is through that   *)
(* nobody wrote into, the last approved fact is current, or forgotten.     *)
NewFactIsCurrent ==
  settled /\ (\A r \in Scans : scan[r] = NULL) =>
    \A s \in Subjects : approved[s] # NULL =>
      \E e \in facts : Id(e) = approved[s] /\ (Active(e, today) \/ e.cold)

=============================================================================
