---------------------------- MODULE MCRoomNode -----------------------------
(* Lives of a node for TLC: a drop that competes with another validator's  *)
(* value while the process dies; a drop, then a complete batch, across a   *)
(* power loss; such a batch that loses its height; two drops, one of them  *)
(* a configuration update; such an update across a death; and a value of   *)
(* another validator across a death and a power loss.                      *)
EXTENDS RoomNode

MCDrops == <<"a", "b">>

Life(e, h, k, l) == [effects |-> e, height |-> h, kills |-> k, losses |-> l]
Contested == Life({"a", "f"}, 2, 1, 0)
Lossy     == Life({"a"}, 1, 0, 1)
Complete  == Life({"d", "f"}, 1, 0, 1)
Late      == Life({"d", "f"}, 2, 0, 0)
Two       == Life({"a", "b"}, 2, 0, 0)
Again     == Life({"b"}, 2, 1, 0)
Both      == Life({"f"}, 1, 1, 1)
MCLives == {Contested, Lossy, Complete, Late, Two, Again, Both}

BothLives == {Both}
=============================================================================
