--------------------------- MODULE MCReplicaHome ---------------------------
(* Rival bundles at height 1, two processes of one home. *)
EXTENDS ReplicaHome, TLC
CONSTANTS a1, b1, a2, g, fa, fb, fc

MCPredOf == (a1 :> g) @@ (b1 :> g) @@ (a2 :> fa)
MCNextOf == (a1 :> fa) @@ (b1 :> fb) @@ (a2 :> fc)
MCHeightOf == (a1 :> 1) @@ (b1 :> 1) @@ (a2 :> 2)
Symmetric == Permutations(Procs)
=============================================================================
