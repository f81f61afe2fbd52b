---------------------------- MODULE MCRelayEnds ----------------------------
(***************************************************************************)
(* The scan directory of a member and the service of a relay, for TLC.     *)
(* They share no state, so that a behaviour is one of either: the member   *)
(* rests while the service has clients, and the other way round.           *)
(*                                                                         *)
(* Loads of RelayService: two clients, one of them waiting, while storage  *)
(* fails; two of one credential and one source across a window; two of one *)
(* credential, the first billed in the window that another one's request   *)
(* began, which takes that window to the bounds of its overrun; two held   *)
(* pages and a put, so that the third finds max_connections taken; and     *)
(* QUIC's cancellation.                                                    *)
(***************************************************************************)
EXTENDS RelayScan, RelayService, TLC

CONSTANTS c1, c2, c3, k1, k2, s1, local

Ask(s, op, k) == [src |-> s, op |-> op, key |-> k]
Load(q, r, f, of) == [quic |-> q, rolls |-> r, faults |-> f, of |-> of]

Silent  == Load(FALSE, 0, 0, <<>>)
Failing == {Load(FALSE, 0, 1, (c1 :> Ask(local, "wait", k1)) @@ (c2 :> Ask(s1, op, k2))) : op \in Ops}
           \cup {Load(TRUE, 0, 1, (c1 :> Ask(local, "wait", k1)) @@ (c2 :> Ask(s1, "put", k2)))}
Windows == {Load(FALSE, 1, 1, (c1 :> Ask(s1, "put", k1)) @@ (c2 :> Ask(s1, op, k1))) :
               op \in {"put", "page"}}
Late    == {Load(FALSE, 1, 0, (c1 :> Ask(local, "page", k1)) @@ (c2 :> Ask(local, "page", k2))
                              @@ (c3 :> Ask(local, "page", k1)))}
Crowd   == {Load(FALSE, 0, 0, (c1 :> Ask(local, "wait", k1)) @@ (c2 :> Ask(local, "put", k2))
                              @@ (c3 :> Ask(local, "wait", k2)))}
Cancels == {Load(TRUE, 0, 0, (c1 :> Ask(s, "wait", k1)) @@ (c2 :> Ask(s, "put", k2))) :
               s \in {s1, local}}
MCLoads == {Silent} \cup Failing \cup Windows \cup Late \cup Crowd \cup Cancels

Scans  == load = Silent
Serves == load # Silent

MCInit == ScanInit /\ ServiceInit
MCNext == \/ Scans /\ ScanNext /\ UNCHANGED serviceVars
          \/ Serves /\ ServiceNext /\ UNCHANGED scanVars
          \/ Serves /\ sup = "done" /\ UNCHANGED <<scanVars, serviceVars>>   \* it has ended
MCSpec ==
    /\ MCInit /\ [][MCNext]_<<scanVars, serviceVars>>
    /\ WF_scanVars(Scans /\ (OpenBound \/ OpenFresh \/ OpenLegacy))
    /\ WF_scanVars(Scans /\ (OpenStep \/ ScanStep))
    /\ SF_scanVars(Scans /\ Fetch)
    /\ WF_serviceVars(Serves /\ UNCHANGED load /\ Supervisor)
    /\ \A c \in Conns : WF_serviceVars(Serves /\ UNCHANGED load /\ Worker(c))
=============================================================================
