-------------------------- MODULE MCSnapshotStore --------------------------
(* v1 and its rival w1 extend v0, v2 extends v1, and v3 extends v2: one     *)
(* version more than there are generations.                                 *)
EXTENDS SnapshotStore
CONSTANTS v0, v1, v2, v3, w1

MCExtends == {<<v, v>> : v \in Versions} \cup {<<w1, v0>>}
             \cup {<<v1, v0>>, <<v2, v1>>, <<v2, v0>>, <<v3, v2>>, <<v3, v1>>, <<v3, v0>>}
=============================================================================
