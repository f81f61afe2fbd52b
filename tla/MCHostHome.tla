----------------------------- MODULE MCHostHome -----------------------------
(* Homes of HostHome for TLC: mutations across a death and a power loss, a  *)
(* transition across deaths or a power loss, and two transitions in a row.  *)
EXTENDS HostHome, TLC

Home(g, m, d, l, i, gr) ==
    [gens |-> g, mutations |-> m, deaths |-> d, losses |-> l, items |-> i, grants |-> gr]
Mutations   == {Home(0, 2, 1, 1, 1, {0})}
Transition  == {Home(1, 1, 2, 0, 1, {0})}
Budget      == {Home(2, 0, 1, 0, 2, {0, 1})}
Interrupted == {Home(1, 0, 1, 1, 1, {0})}
MCHomes == Mutations \cup Transition \cup Budget \cup Interrupted

MCOrders == {<<"config.bak", "conn.bak", "leaf.bak", "token.bak">>,
             <<"token.bak", "leaf.bak", "conn.bak", "config.bak">>,
             <<"conn.bak", "config.bak", "token.bak", "leaf.bak">>}
=============================================================================
