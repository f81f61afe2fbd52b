---------------------------- MODULE ReplicaHome ----------------------------
(***************************************************************************)
(* Two processes opening one replica home (crates/vhalla-rooms-app,        *)
(* Service::open): Adapter::open recovers the journal first and only then  *)
(* asks for the social store's exclusive lock, the one thing that keeps a  *)
(* second replica out.  Nothing fails or dies here.                        *)
(***************************************************************************)
EXTENDS Journal

VARIABLES phase,    \* how far each process is with opening the home
          owner     \* holder of the social store's exclusive lock

homeVars == <<phase, owner>>

HomeInit ==
    /\ Init
    /\ phase = [p \in Procs |-> "out"]
    /\ owner = NoProc

\* Adapter::open begins: journal.recover(), before any lock is taken.
OpenHome(p) ==
    /\ phase[p] = "out"
    /\ EnterRecover(p)
    /\ phase' = [phase EXCEPT ![p] = "recovering"]
    /\ UNCHANGED owner

\* recover runs; its error ends the open.
RecoverHome(p) ==
    /\ phase[p] = "recovering"
    /\ RecoverStep(p)
    /\ phase' = [phase EXCEPT ![p] = IF pc'[p] # "idle" THEN "recovering"
                                     ELSE IF pc[p] = "settleDir" THEN "recovered"
                                     ELSE "out"]
    /\ UNCHANGED owner

\* social Store::open: the exclusive lock, or Busy, which ends the open.
OpenStores(p) ==
    /\ phase[p] = "recovered"
    /\ IF owner = NoProc
       THEN phase' = [phase EXCEPT ![p] = "open"] /\ owner' = p
       ELSE phase' = [phase EXCEPT ![p] = "out"] /\ UNCHANGED owner
    /\ UNCHANGED vars

\* The open replica follows the node: it commits what was decided.
CommitDecided(p) ==
    /\ phase[p] = "open"
    /\ \/ \E b \in Bundles : Lock(p, b)
       \/ CommitStep(p)
    /\ UNCHANGED homeVars

CloseHome(p) ==
    /\ phase[p] = "open" /\ pc[p] = "idle"
    /\ phase' = [phase EXCEPT ![p] = "out"]
    /\ owner' = NoProc
    /\ UNCHANGED vars

HomeNext ==
    \E p \in Procs : OpenHome(p) \/ RecoverHome(p) \/ OpenStores(p)
                     \/ CommitDecided(p) \/ CloseHome(p)

HomeSpec == HomeInit /\ [][HomeNext]_<<vars, homeVars>>

\* Journal::recover's contract, "dropping it strands the height": the height
\* that HEAD publishes always has its marker.  Without it every later open,
\* commit and read of this journal answers Corrupt.
NoHeightLosesItsMarker ==
    Pin \in Bundles => hdir.vis[HeightOf[Pin]] = Pin
=============================================================================
