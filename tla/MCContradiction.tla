-------------------------- MODULE MCContradiction --------------------------
(***************************************************************************)
(* Instances of Contradiction for TLC: two subjects, so that an insertion  *)
(* for the first shifts the pages in which the second is listed; a value   *)
(* of the second is the subject itself.                                    *)
(***************************************************************************)
EXTENDS Contradiction, TLC

CONSTANTS r1, r2

MCInitial == {NewEdge(1, 2, Undated, "gate"), NewEdge(1, 3, 1, "ingest"),
              NewEdge(2, 2, Undated, "gate")}
MCProposed == {<<2, 3>>}
MCArriving == {<<1, 3, "ingest", Undated>>, <<2, 3, "user", 2>>}

Interchangeable == Permutations(Scans)

(* An approved value and a newly approved one, for the counterexample.     *)
MCNewlyProposed == {<<1, 3>>}
MCApproved == {NewEdge(1, 2, Undated, "gate")}

=============================================================================
