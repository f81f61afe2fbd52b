------------------------------ MODULE Journal ------------------------------
(***************************************************************************)
(* The durable commit journal (crates/vhalla-journal): content-addressed   *)
(* bundles, one marker per height, and HEAD, the pin that publishes both.  *)
(* A commit runs under an advisory lock and takes one step per call on the *)
(* store, so that a failure, the death of the process or a power loss can  *)
(* fall between any two of them.  Boot recovery takes no lock.             *)
(*                                                                         *)
(* A bundle is its identity; a pin is the identity it names, since Pin     *)
(* repeats the fields of that bundle.  HEAD absent is the genesis pin.     *)
(***************************************************************************)
EXTENDS Integers, DurableDir

CONSTANTS Procs,        \* processes that open the journal directory
          Bundles,      \* bundles they may commit
          Frontiers,    \* frontier commitments
          PredOf,       \* bundle.predecessor()
          NextOf,       \* bundle.next()
          HeightOf,     \* bundle.height()
          GenesisNext,  \* Journal::genesis_next
          MaxHeight,    \* bound: greatest height of a bundle
          MaxFaults,    \* bound: failures, deaths and power losses
          NoProc,       \* the lock is free
          Scratch       \* the reserved name .bundle.tmp

ASSUME BundlesAssumption ==
    /\ MaxHeight \in Nat
    /\ MaxFaults \in Nat
    /\ PredOf \in [Bundles -> Frontiers]
    /\ NextOf \in [Bundles -> Frontiers]
    /\ HeightOf \in [Bundles -> 1..MaxHeight]
    /\ GenesisNext \in Frontiers

ASSUME NamesAssumption ==
    /\ Absent \notin Bundles
    /\ Torn \notin Bundles
    /\ Scratch \notin Bundles
    /\ NoProc \notin Procs

HEAD == "HEAD"
HEADTMP == "HEAD.tmp"

RootNames == {HEAD, HEADTMP}
BundleNames == Bundles \cup {Scratch}
Heights == 1..MaxHeight
Content == Bundles \cup {Absent, Torn}

VARIABLES root,     \* the journal directory: HEAD and HEAD.tmp
          bdir,     \* bundles/
          hdir,     \* heights/
          pc,       \* next store call of each process
          cur,      \* the bundle each process commits, or the pin its recover read
          lock,     \* holder of the advisory file lock
          acked,    \* history: bundles whose commit returned Ok
          corrupt,  \* history: some call returned JournalError::Corrupt
          faults    \* faults so far

vars == <<root, bdir, hdir, pc, cur, lock, acked, corrupt, faults>>

CommitSteps ==
    {"readPin", "createBundle", "syncScratch", "linkBundle", "unlinkScratch",
     "syncBundle", "syncBundlesDir", "writeHeightMarker", "syncHeightMarker",
     "syncHeightsDir", "writePinTmp", "syncPinTmp", "renamePin", "syncDir",
     "resyncBundlesDir", "resyncHeightsDir", "resyncDir"}
RecoverSteps ==
    {"verifyPin", "removePinTmp", "removeMarkers", "settleHeights", "settleDir"}

Pin == root.vis[HEAD]
HeightOfPin(pin)   == IF pin \in Bundles THEN HeightOf[pin] ELSE 0
FrontierOfPin(pin) == IF pin \in Bundles THEN NextOf[pin] ELSE GenesisNext

TypeOK ==
    /\ root \in Dirs(RootNames, Content)
    /\ bdir \in Dirs(BundleNames, Content)
    /\ hdir \in Dirs(Heights, Content)
    /\ pc \in [Procs -> {"idle"} \cup CommitSteps \cup RecoverSteps]
    /\ cur \in [Procs -> Bundles \cup {Absent}]
    /\ lock \in Procs \cup {NoProc}
    /\ acked \subseteq Bundles
    /\ corrupt \in BOOLEAN
    /\ faults \in 0..MaxFaults

Init ==
    /\ root = Stored([n \in RootNames |-> Absent])
    /\ bdir = Stored([n \in BundleNames |-> Absent])
    /\ hdir = Stored([h \in Heights |-> Absent])
    /\ pc = [p \in Procs |-> "idle"]
    /\ cur = [p \in Procs |-> Absent]
    /\ lock = NoProc
    /\ acked = {}
    /\ corrupt = FALSE
    /\ faults = 0

-----------------------------------------------------------------------------
Goto(p, from, to) == pc[p] = from /\ pc' = [pc EXCEPT ![p] = to]

\* Mutant: an early return that leaks the lock file.
ReturnKeepingLock(p) ==
    /\ pc' = [pc EXCEPT ![p] = "idle"]
    /\ cur' = [cur EXCEPT ![p] = Absent]
    /\ lock' = lock

\* The call returns: the lock file is dropped with everything it protects.
Return(p) ==
    /\ pc' = [pc EXCEPT ![p] = "idle"]
    /\ cur' = [cur EXCEPT ![p] = Absent]
    /\ lock' = IF lock = p THEN NoProc ELSE lock

\* Journal::commit takes the lock; when it is held the call is Busy.
Lock(p, b) ==
    /\ Goto(p, "idle", "readPin")
    /\ lock = NoProc
    /\ lock' = p
    /\ cur' = [cur EXCEPT ![p] = b]
    /\ UNCHANGED <<root, bdir, hdir, acked, corrupt, faults>>

\* The caller's side of recover's contract.
RecoveryRunning == \E q \in Procs : pc[q] \in RecoverSteps
CommitRunning   == \E q \in Procs : pc[q] \in CommitSteps

BeginCommit(p, b) == ~RecoveryRunning /\ Lock(p, b)

\* What the pin says about committing b.
PinVerdict(b) ==
    IF Pin = Torn THEN "corrupt"
    ELSE IF Pin = b
    THEN IF bdir.vis[b] = b /\ hdir.vis[HeightOf[b]] = b THEN "retry" ELSE "corrupt"
    ELSE IF FrontierOfPin(Pin) = PredOf[b] /\ HeightOf[b] = HeightOfPin(Pin) + 1
    THEN "extend" ELSE "conflict"

\* Mutant: any bundle of the log, not its tip alone, is answered AlreadyCommitted.
RefuseUnlessLogged(p) ==
    /\ pc[p] = "readPin"
    /\ PinVerdict(cur[p]) \in {"conflict", "corrupt"}
    /\ acked' = IF /\ HeightOf[cur[p]] <= HeightOfPin(Pin)
                   /\ hdir.vis[HeightOf[cur[p]]] = cur[p]
                THEN acked \cup {cur[p]} ELSE acked
    /\ root' = SyncDir(root)
    /\ Return(p)
    /\ UNCHANGED <<bdir, hdir, corrupt, faults>>

\* The bundle is neither the tip nor a successor of it: Conflict, or Corrupt
\* when the tip's own record is damaged.
Refuse(p) ==
    /\ pc[p] = "readPin"
    /\ PinVerdict(cur[p]) \in {"conflict", "corrupt"}
    /\ corrupt' = (corrupt \/ PinVerdict(cur[p]) = "corrupt")
    /\ Return(p)
    /\ UNCHANGED <<root, bdir, hdir, acked, faults>>

\* The bundle extends the tip, or is the tip and only needs its barriers again.
Admit(p) ==
    /\ pc[p] = "readPin"
    /\ \/ PinVerdict(cur[p]) = "extend" /\ Goto(p, "readPin", "createBundle")
       \/ PinVerdict(cur[p]) = "retry"  /\ Goto(p, "readPin", "resyncBundlesDir")
    /\ UNCHANGED <<root, bdir, hdir, cur, lock, acked, corrupt, faults>>

\* create_bundle finds the final name taken: its bytes must be exactly ours.
FindBundle(p) ==
    /\ pc[p] = "createBundle"
    /\ bdir.vis[cur[p]] # Absent
    /\ IF bdir.vis[cur[p]] = cur[p]
       THEN Goto(p, "createBundle", "syncBundle") /\ UNCHANGED <<cur, lock, corrupt>>
       ELSE Return(p) /\ corrupt' = TRUE
    /\ UNCHANGED <<root, bdir, hdir, acked, faults>>

\* Mutant: the leftover scratch is truncated in place, and with it the bundle
\* it is still linked to.
StageBundleInPlace(p) ==
    /\ Goto(p, "createBundle", "syncScratch")
    /\ bdir.vis[cur[p]] = Absent
    /\ LET old == bdir.vis[Scratch]
           d   == IF old \in Bundles /\ bdir.vis[old] = old
                  THEN Write(bdir, old, cur[p]) ELSE bdir
       IN  bdir' = Write(d, Scratch, cur[p])
    /\ UNCHANGED <<root, hdir, cur, lock, acked, corrupt, faults>>

\* A leftover scratch is unlinked, never truncated: it may be one file with a
\* published bundle.  A fresh scratch is created and written.
StageBundle(p) ==
    /\ Goto(p, "createBundle", "syncScratch")
    /\ bdir.vis[cur[p]] = Absent
    /\ bdir' = Write(Delete(bdir, Scratch), Scratch, cur[p])
    /\ UNCHANGED <<root, hdir, cur, lock, acked, corrupt, faults>>

SyncScratch(p) ==
    /\ Goto(p, "syncScratch", "linkBundle")
    /\ bdir' = SyncFile(bdir, Scratch)
    /\ UNCHANGED <<root, hdir, cur, lock, acked, corrupt, faults>>

LinkBundle(p) ==
    /\ Goto(p, "linkBundle", "unlinkScratch")
    /\ bdir' = Link(bdir, Scratch, cur[p])
    /\ UNCHANGED <<root, hdir, cur, lock, acked, corrupt, faults>>

UnlinkScratch(p) ==
    /\ Goto(p, "unlinkScratch", "syncBundlesDir")
    /\ bdir' = Delete(bdir, Scratch)
    /\ UNCHANGED <<root, hdir, cur, lock, acked, corrupt, faults>>

SyncBundle(p) ==
    /\ Goto(p, "syncBundle", "syncBundlesDir")
    /\ bdir' = SyncFile(bdir, cur[p])
    /\ UNCHANGED <<root, hdir, cur, lock, acked, corrupt, faults>>

SyncBundlesDir(p) ==
    /\ Goto(p, "syncBundlesDir", "writeHeightMarker")
    /\ bdir' = SyncDir(bdir)
    /\ UNCHANGED <<root, hdir, cur, lock, acked, corrupt, faults>>

WriteHeightMarker(p) ==
    /\ Goto(p, "writeHeightMarker", "syncHeightMarker")
    /\ hdir' = Write(hdir, HeightOf[cur[p]], cur[p])
    /\ UNCHANGED <<root, bdir, cur, lock, acked, corrupt, faults>>

SyncHeightMarker(p) ==
    /\ Goto(p, "syncHeightMarker", "syncHeightsDir")
    /\ hdir' = SyncFile(hdir, HeightOf[cur[p]])
    /\ UNCHANGED <<root, bdir, cur, lock, acked, corrupt, faults>>

\* Mutant: the barrier on heights/ is left out.
SyncHeightsDirSkipped(p) ==
    /\ Goto(p, "syncHeightsDir", "writePinTmp")
    /\ UNCHANGED <<root, bdir, hdir, cur, lock, acked, corrupt, faults>>

SyncHeightsDir(p) ==
    /\ Goto(p, "syncHeightsDir", "writePinTmp")
    /\ hdir' = SyncDir(hdir)
    /\ UNCHANGED <<root, bdir, cur, lock, acked, corrupt, faults>>

WritePinTmp(p) ==
    /\ Goto(p, "writePinTmp", "syncPinTmp")
    /\ root' = Write(root, HEADTMP, cur[p])
    /\ UNCHANGED <<bdir, hdir, cur, lock, acked, corrupt, faults>>

SyncPinTmp(p) ==
    /\ Goto(p, "syncPinTmp", "renamePin")
    /\ root' = SyncFile(root, HEADTMP)
    /\ UNCHANGED <<bdir, hdir, cur, lock, acked, corrupt, faults>>

\* The commit point: HEAD now names the bundle.
RenamePin(p) ==
    /\ Goto(p, "renamePin", "syncDir")
    /\ root.vis[HEADTMP] # Absent
    /\ root' = Rename(root, HEADTMP, HEAD)
    /\ UNCHANGED <<bdir, hdir, cur, lock, acked, corrupt, faults>>

\* Mutant: the commit is acknowledged without the last barrier.
AckWithoutSync(p) ==
    /\ pc[p] = "syncDir"
    /\ acked' = acked \cup {cur[p]}
    /\ Return(p)
    /\ UNCHANGED <<root, bdir, hdir, corrupt, faults>>

\* The last barrier, then Ok(Committed).
SyncDirAndAck(p) ==
    /\ pc[p] = "syncDir"
    /\ root' = SyncDir(root)
    /\ acked' = acked \cup {cur[p]}
    /\ Return(p)
    /\ UNCHANGED <<bdir, hdir, corrupt, faults>>

ResyncBundlesDir(p) ==
    /\ Goto(p, "resyncBundlesDir", "resyncHeightsDir")
    /\ bdir' = SyncDir(bdir)
    /\ UNCHANGED <<root, hdir, cur, lock, acked, corrupt, faults>>

ResyncHeightsDir(p) ==
    /\ Goto(p, "resyncHeightsDir", "resyncDir")
    /\ hdir' = SyncDir(hdir)
    /\ UNCHANGED <<root, bdir, cur, lock, acked, corrupt, faults>>

\* The retry's last barrier, then Ok(AlreadyCommitted).
ResyncDirAndAck(p) ==
    /\ pc[p] = "resyncDir"
    /\ root' = SyncDir(root)
    /\ acked' = acked \cup {cur[p]}
    /\ Return(p)
    /\ UNCHANGED <<bdir, hdir, corrupt, faults>>

CommitStep(p) ==
    \/ Refuse(p) \/ Admit(p)
    \/ FindBundle(p) \/ StageBundle(p) \/ SyncScratch(p) \/ LinkBundle(p)
    \/ UnlinkScratch(p) \/ SyncBundle(p) \/ SyncBundlesDir(p)
    \/ WriteHeightMarker(p) \/ SyncHeightMarker(p) \/ SyncHeightsDir(p)
    \/ WritePinTmp(p) \/ SyncPinTmp(p) \/ RenamePin(p) \/ SyncDirAndAck(p)
    \/ ResyncBundlesDir(p) \/ ResyncHeightsDir(p) \/ ResyncDirAndAck(p)

-----------------------------------------------------------------------------
\* Journal::recover, which the code runs without the lock.
EnterRecover(p) ==
    /\ Goto(p, "idle", "verifyPin")
    /\ UNCHANGED <<root, bdir, hdir, cur, lock, acked, corrupt, faults>>

BeginRecover(p) == ~CommitRunning /\ EnterRecover(p)

\* The pin's bundle decodes to what the pin says and its marker agrees.
PinIsWhole ==
    \/ Pin = Absent
    \/ Pin \in Bundles /\ bdir.vis[Pin] = Pin /\ hdir.vis[HeightOf[Pin]] = Pin

VerifyPin(p) ==
    /\ pc[p] = "verifyPin"
    /\ IF PinIsWhole
       THEN /\ Goto(p, "verifyPin", "removePinTmp")
            /\ cur' = [cur EXCEPT ![p] = Pin]
            /\ UNCHANGED <<lock, corrupt>>
       ELSE Return(p) /\ corrupt' = TRUE
    /\ UNCHANGED <<root, bdir, hdir, acked, faults>>

RemovePinTmp(p) ==
    /\ Goto(p, "removePinTmp", "removeMarkers")
    /\ root' = Delete(root, HEADTMP)
    /\ UNCHANGED <<bdir, hdir, cur, lock, acked, corrupt, faults>>

\* Markers above the pin that was read, lowest first, one remove_file at a time.
Residue(pin) == {h \in Heights : h > HeightOfPin(pin) /\ hdir.vis[h] # Absent}

RemoveMarker(p) ==
    /\ pc[p] = "removeMarkers"
    /\ \E h \in Residue(cur[p]) :
          /\ \A g \in Residue(cur[p]) : h <= g
          /\ hdir' = Delete(hdir, h)
    /\ UNCHANGED <<root, bdir, pc, cur, lock, acked, corrupt, faults>>

MarkersRemoved(p) ==
    /\ Goto(p, "removeMarkers", "settleHeights")
    /\ Residue(cur[p]) = {}
    /\ UNCHANGED <<root, bdir, hdir, cur, lock, acked, corrupt, faults>>

SettleHeights(p) ==
    /\ Goto(p, "settleHeights", "settleDir")
    /\ hdir' = SyncDir(hdir)
    /\ UNCHANGED <<root, bdir, cur, lock, acked, corrupt, faults>>

SettleDir(p) ==
    /\ pc[p] = "settleDir"
    /\ root' = SyncDir(root)
    /\ Return(p)
    /\ UNCHANGED <<bdir, hdir, acked, corrupt, faults>>

RecoverStep(p) ==
    \/ VerifyPin(p) \/ RemovePinTmp(p) \/ RemoveMarker(p)
    \/ MarkersRemoved(p) \/ SettleHeights(p) \/ SettleDir(p)

-----------------------------------------------------------------------------
Faulty == faults < MaxFaults /\ faults' = faults + 1

\* A store call fails, or the process dies and a new one takes its place,
\* between two steps: the call is abandoned and the lock falls free.
Abandon(p) ==
    /\ Faulty
    /\ pc[p] # "idle"
    /\ Return(p)
    /\ UNCHANGED <<root, bdir, hdir, acked, corrupt>>

\* The same in the middle of a write: part of the file is there.
AbandonWrite(p) ==
    /\ Faulty
    /\ \/ /\ pc[p] = "createBundle" /\ bdir.vis[cur[p]] = Absent
          /\ bdir' = Write(Delete(bdir, Scratch), Scratch, Torn)
          /\ UNCHANGED <<root, hdir>>
       \/ /\ pc[p] = "writeHeightMarker"
          /\ hdir' = Write(hdir, HeightOf[cur[p]], Torn)
          /\ UNCHANGED <<root, bdir>>
       \/ /\ pc[p] = "writePinTmp"
          /\ root' = Write(root, HEADTMP, Torn)
          /\ UNCHANGED <<bdir, hdir>>
    /\ Return(p)
    /\ UNCHANGED <<acked, corrupt>>

\* Every process dies and each directory keeps what its disk holds.
PowerLoss ==
    /\ Faulty
    /\ root' \in PowerLossOutcomes(root)
    /\ bdir' \in PowerLossOutcomes(bdir)
    /\ hdir' \in PowerLossOutcomes(hdir)
    /\ pc' = [p \in Procs |-> "idle"]
    /\ cur' = [p \in Procs |-> Absent]
    /\ lock' = NoProc
    /\ UNCHANGED <<acked, corrupt>>

Step(p) == CommitStep(p) \/ RecoverStep(p)

\* Everything a machine that stays up can do.
LiveNext ==
    \E p \in Procs :
        \/ \E b \in Bundles : BeginCommit(p, b)
        \/ BeginRecover(p)
        \/ Step(p)
        \/ Abandon(p)
        \/ AbandonWrite(p)

Next == LiveNext \/ PowerLoss

Spec == Init /\ [][Next]_vars

-----------------------------------------------------------------------------
\* The log a reader of the journal sees: the markers up to HEAD.
PublishedLog == [h \in 1..HeightOfPin(Pin) |-> hdir.vis[h]]

\* The state of one directory after any power loss.
AnyDisk(d) == {Tear(m, t) : m \in d.disk, t \in SUBSET d.dirty}

\* A pin never outruns its evidence (recover and published_tip call a pin
\* without its bundle or marker Corrupt): whatever map each directory keeps,
\* the bundle and marker of every height up to the pin are there, whole, and
\* each bundle extends the one below it.
EvidenceOf(pin, bm, hm) ==
    pin # Absent =>
    /\ pin \in Bundles
    /\ hm[HeightOf[pin]] = pin
    /\ \A h \in 1..HeightOf[pin] :
          /\ hm[h] \in Bundles
          /\ HeightOf[hm[h]] = h
          /\ bm[hm[h]] = hm[h]
          /\ PredOf[hm[h]] = IF h = 1 THEN GenesisNext ELSE NextOf[hm[h - 1]]

PinHasItsEvidence ==
    \A rm \in AnyDisk(root) \cup {root.vis}, bm \in AnyDisk(bdir) \cup {bdir.vis},
       hm \in AnyDisk(hdir) \cup {hdir.vis} : EvidenceOf(rm[HEAD], bm, hm)

\* An acknowledged commit survives: once commit returned Ok for a bundle, no
\* power loss removes its bundle or marker or moves HEAD below its height.
AckedSurvives ==
    \A b \in acked :
        /\ \A rm \in AnyDisk(root) : HeightOfPin(rm[HEAD]) >= HeightOf[b]
        /\ \A hm \in AnyDisk(hdir) : hm[HeightOf[b]] = b
        /\ \A bm \in AnyDisk(bdir) : bm[b] = b

\* No call ever finds accepted evidence missing or altered: Corrupt is never
\* returned by a journal that only its own code writes.
NeverCorrupt == ~corrupt

\* The journal implements the abstract commit log.
Abstract == INSTANCE CommitLog WITH log <- PublishedLog

ImplementsCommitLog == Abstract!Spec

\* Whoever holds a commit retries it until it returns (the consensus engine
\* delivers a decision again until it is acknowledged), and a call that runs
\* gets to its end.
FairSpec ==
    /\ Spec
    /\ \A p \in Procs : WF_vars(Step(p))
    /\ \A p \in Procs, b \in Bundles : SF_vars(BeginCommit(p, b))

\* Nothing a crash leaves behind (a scratch, an orphan bundle, a marker above
\* the pin, HEAD.tmp, the lock) strands a height: the journal always gets to
\* where no bundle on offer extends it.
NoHeightIsStranded ==
    <>[](\A b \in Bundles : ~(PredOf[b] = FrontierOfPin(Pin)
                              /\ HeightOf[b] = HeightOfPin(Pin) + 1))
=============================================================================
