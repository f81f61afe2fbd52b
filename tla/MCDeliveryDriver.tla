------------------------- MODULE MCDeliveryDriver -------------------------
(* An owner and a member: who talk across a control while a driver dies or *)
(* the network fails, where the owner answers a message, where the member  *)
(* joined at control 1, so that the owner's first control predates it,     *)
(* where a position is put off twice, and, on its own, where a second      *)
(* control is issued while a message of the epoch before it still waits.   *)
EXTENDS DeliveryDriver, TLC

CONSTANTS o, m

Room(b, so, sm, e, j, x, f) ==
    [base |-> (o :> 0) @@ (m :> b), script |-> (o :> so) @@ (m :> sm),
     emits |-> e, jobs |-> j, deaths |-> x, faults |-> f]

Talk    == {Room(0, <<"control", "app">>, <<>>, {}, 1, 1, 0),
            Room(0, <<"app", "admit", "app">>, <<>>, {}, 1, 0, 1)}
Answers == {Room(0, <<"control">>, <<"app">>, {o}, 2, 1, 0)}
Guest   == {Room(1, <<"offer", "admit">>, <<>>, {}, 1, 0, 1)}
Delays  == {Room(0, <<"app", "contact", "contact">>, <<>>, {}, 1, 0, 2)}

Twice   == {Room(0, <<"control", "app", "control", "app">>, <<>>, {}, 3, 0, 0)}

MCRooms == Talk \cup Answers \cup Guest \cup Delays
=============================================================================
