---------------------------- MODULE MCKnowledge ----------------------------
(***************************************************************************)
(* An instance of Knowledge for TLC.  Facts l, d and b share a subject and *)
(* a rel, and l is a self-loop.  Rule 1 joins o and b to d, rule 2, a      *)
(* stratum up, takes d to e.                                               *)
(***************************************************************************)
EXTENDS Knowledge, TLC

CONSTANTS l, d, b, o, e, r, q, t, a1

MCFacts == {l, d, b, o, e}
MCRelOf == (l :> q) @@ (d :> q) @@ (b :> q) @@ (o :> r) @@ (e :> t)
MCGroupOf == (l :> q) @@ (d :> q) @@ (b :> q) @@ (o :> r) @@ (e :> t)
MCKeyOf == (l :> 1) @@ (d :> 2) @@ (b :> 3) @@ (o :> 4) @@ (e :> 5)

MCRules == {1, 2}
MCStratumOf == (1 :> 0) @@ (2 :> 1)
MCWhenOf == (1 :> <<r, q>>) @@ (2 :> <<q>>)
MCThenOf == (1 :> q) @@ (2 :> t)
MCGround == {[rule |-> 1, support |-> {o, b}, fact |-> d],
             [rule |-> 2, support |-> {d}, fact |-> e]}

About(type, about) == [type |-> type, about |-> about]

MCKinds == {About("edge", b), About("edge", d), About("forget", d),
            About("note", b), About("define", t)}

MCArriving == {<<l, "user", TRUE>>, <<b, "ingest", FALSE>>}

(* The ids are "p9" and "p10".                                            *)
MCKeyRank == <<2, 1>>

(* Fewer kinds, for the counterexample.                                    *)
MCEdgeKinds == {About("edge", b), About("edge", d)}

=============================================================================
