-------------------------- MODULE MCRelayDelivery --------------------------
(* One sender with two items, or two senders with one item each; b1 reuses *)
(* the operation of a1, so the mailbox refuses whichever of the two comes  *)
(* second.                                                                 *)
EXTENDS RelayDelivery, TLC

CONSTANTS s1, s2, a1, a2, b1

MCSender == (a1 :> s1) @@ (a2 :> s1) @@ (b1 :> s2)
MCOperation == (a1 :> 1) @@ (a2 :> 2) @@ (b1 :> 1)
MCSequence == (a1 :> 1) @@ (a2 :> 2) @@ (b1 :> 1)
MCOutboxes == {{a1, a2}, {a1, b1}}
MCSize == (a1 :> 1) @@ (a2 :> 2) @@ (b1 :> 1)
=============================================================================
