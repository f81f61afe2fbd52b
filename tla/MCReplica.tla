----------------------------- MODULE MCReplica -----------------------------
(* The two ends of a replica's way from a proposal to a commit, for TLC.    *)
(* They share no state, so that a behaviour is one of either: while there   *)
(* are streams the adapter rests, and the other way round.                  *)
(*                                                                          *)
(* Adapter: a1, a2, a3 are a chain: a post; a batch of games only, which    *)
(* leaves both roots as they are; the reaction to the post and a room paid  *)
(* by its award.  b1 competes with a1: post, reaction and a control record  *)
(* at once.  x2 claims results that are not its own.                        *)
(* ProposalStream: a long and a short stream of one sound proposer; two     *)
(* sound streams beside one with any part at all, more than the table       *)
(* takes of a peer; and more than it takes of all.                          *)
EXTENDS Adapter, ProposalStream, TLC
CONSTANTS a1, a2, a3, b1, x2, post, up, room, ctl

MCParentOf == (a1 :> Genesis) @@ (a2 :> a1) @@ (a3 :> a2) @@ (b1 :> Genesis) @@ (x2 :> a1)
MCHeightOf == (a1 :> 1) @@ (a2 :> 2) @@ (a3 :> 3) @@ (b1 :> 1) @@ (x2 :> 2)
MCEvidenceOf == (a1 :> {post}) @@ (a2 :> {}) @@ (a3 :> {up}) @@ (b1 :> {post, up}) @@ (x2 :> {up})
MCRecordsOf == (a1 :> {}) @@ (a2 :> {}) @@ (a3 :> {room}) @@ (b1 :> {ctl}) @@ (x2 :> {})
MCPostOf == (up :> post)
MCCreditOf == (room :> up)

Stream(p, i, h, c) == [peer |-> p, id |-> i, height |-> h, chunks |-> c]

\* Two full chunks and a rest, and a single short chunk.
Orders == [sound |-> {Stream("p", 1, 1, <<2, 2, 1>>), Stream("p", 2, 2, <<1>>)},
           rogue |-> {}, bytes |-> 5, streams |-> 2, perPeer |-> 2, height |-> 2]
Limits == [sound |-> {Stream("p", 1, 1, <<1>>), Stream("q", 1, 1, <<1>>)},
           rogue |-> {<<"p", 2>>}, bytes |-> 1, streams |-> 2, perPeer |-> 1, height |-> 1]
Narrow == [Limits EXCEPT !.rogue = {}, !.streams = 1]
Silent == [Limits EXCEPT !.rogue = {}, !.sound = {}]
MCTraffics == {Orders, Limits, Narrow, Silent}

MCInit == /\ Init /\ StreamInit
MCNext == \/ traffic = Silent /\ Next /\ UNCHANGED streamVars
          \/ traffic # Silent /\ StreamNext /\ UNCHANGED vars

\* The adapter's fairness: it says nothing of the time in which the adapter rests.
MCSpec == MCInit /\ [][MCNext]_<<vars, streamVars>> /\ Fairness
=============================================================================
