-------------------------- MODULE MCJournalReader --------------------------
(* One writer over a chain a1, a2 with a rival b1, and one reader.          *)
EXTENDS JournalReader, TLC
CONSTANTS a1, b1, a2, g, fa, fb, fc

MCPredOf == (a1 :> g) @@ (b1 :> g) @@ (a2 :> fa)
MCNextOf == (a1 :> fa) @@ (b1 :> fb) @@ (a2 :> fc)
MCHeightOf == (a1 :> 1) @@ (b1 :> 1) @@ (a2 :> 2)
MCPageLimits == {<<2, 1>>, <<2, 2>>}
MCSizeOf == (a1 :> 1) @@ (b1 :> 2) @@ (a2 :> 1)
=============================================================================
