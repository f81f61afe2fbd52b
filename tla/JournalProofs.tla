--------------------------- MODULE JournalProofs ---------------------------
(***************************************************************************)
(* Proofs about Journal for every set of processes, bundles and heights    *)
(* and every number of faults: its invariant, then what it publishes.      *)
(* Journal implements CommitLog and the lock-free reader of JournalReader  *)
(* is sound; both rest on one fact: while the machine stays up the chain   *)
(* under HEAD only grows at its tip.                                       *)
(***************************************************************************)
EXTENDS JournalReader, TLAPS

\* Each operation on a directory yields a directory over the same names.
LEMMA DirOps ==
    ASSUME NEW N, NEW V, NEW d \in Dirs(N, V), Absent \in V, Torn \in V,
           NEW a \in N, NEW b \in N, NEW v \in V
    PROVE  /\ Write(d, a, v) \in Dirs(N, V)
           /\ Link(d, a, b) \in Dirs(N, V)
           /\ Rename(d, a, b) \in Dirs(N, V)
           /\ Delete(d, a) \in Dirs(N, V)
           /\ SyncFile(d, a) \in Dirs(N, V)
<1>1. d.vis \in [N -> V] /\ d.disk \subseteq [N -> V] /\ d.dirty \subseteq N
  BY DEF Dirs
<1>2. ASSUME NEW m \in [N -> V], NEW u \in SUBSET N PROVE Update(d, m, u) \in Dirs(N, V)
  BY <1>1, <1>2 DEF Update, Dirs
<1>3. Write(d, a, v) \in Dirs(N, V)
  BY <1>1, <1>2 DEF Write
<1>4. Link(d, a, b) \in Dirs(N, V)
  BY <1>1, <1>2 DEF Link
<1>5. Rename(d, a, b) \in Dirs(N, V)
  BY <1>1, <1>2 DEF Rename
<1>6. Delete(d, a) \in Dirs(N, V)
  BY <1>1, <1>2 DEF Delete
<1>7. SyncFile(d, a) \in Dirs(N, V)
  BY <1>1 DEF SyncFile, Dirs
<1> QED BY <1>3, <1>4, <1>5, <1>6, <1>7

\* So does syncing it.
LEMMA DirSync ==
    ASSUME NEW N, NEW V, NEW d \in Dirs(N, V)
    PROVE  SyncDir(d) \in Dirs(N, V)
  BY DEF SyncDir, Dirs

\* A durable map is a directory.
LEMMA DirStored ==
    ASSUME NEW N, NEW V, NEW m \in [N -> V]
    PROVE  Stored(m) \in Dirs(N, V)
  BY DEF Stored, Dirs

\* What a power loss leaves is a directory over the same names.
LEMMA DirLoss ==
    ASSUME NEW N, NEW V, NEW d \in Dirs(N, V), Torn \in V,
           NEW e \in PowerLossOutcomes(d)
    PROVE  e \in Dirs(N, V)
<1>1. PICK m \in d.disk, t \in SUBSET d.dirty : e = Stored(Tear(m, t))
  BY DEF PowerLossOutcomes
<1>2. m \in [N -> V]
  BY DEF Dirs
<1>3. Tear(m, t) \in [N -> V]
  BY <1>2 DEF Tear
<1> QED BY <1>1, <1>3 DEF Stored, Dirs

USE BundlesAssumption, NamesAssumption, AbsentIsNotTorn, ReaderAssumption

\* The processes are well typed, and a commit in progress has a bundle.
Control ==
    /\ pc \in [Procs -> {"idle"} \cup CommitSteps \cup RecoverSteps]
    /\ cur \in [Procs -> Bundles \cup {Absent}]
    /\ lock \in Procs \cup {NoProc}
    /\ \A p \in Procs : pc[p] \in CommitSteps => cur[p] \in Bundles

\* The call's next step keeps the processes well typed.
LEMMA GotoTypes ==
    ASSUME Control, NEW p \in Procs, NEW from,
           NEW to \in {"idle"} \cup CommitSteps \cup RecoverSteps,
           Goto(p, from, to), cur' = cur, lock' = lock,
           to \in CommitSteps => from \in CommitSteps
    PROVE  Control'
  BY DEF Control, Goto

\* The call's return keeps them well typed.
LEMMA ReturnTypes ==
    ASSUME Control, NEW p \in Procs, Return(p)
    PROVE  Control'
  BY DEF Control, Return, CommitSteps

\* The directories of the journal are well typed.
DirTypes ==
    /\ root \in Dirs(RootNames, Content)
    /\ bdir \in Dirs(BundleNames, Content)
    /\ hdir \in Dirs(Heights, Content)

\* The history variables are.
HistoryTypes == acked \subseteq Bundles /\ corrupt \in BOOLEAN /\ faults \in 0..MaxFaults

\* Every step keeps the types.
LEMMA TypeStep ==
    ASSUME Control, DirTypes, HistoryTypes, [Next]_vars
    PROVE  Control' /\ DirTypes' /\ HistoryTypes'
<1> USE DEF HistoryTypes
<1>n. /\ Absent \in Content /\ Torn \in Content /\ Bundles \subseteq Content
      /\ HEAD \in RootNames /\ HEADTMP \in RootNames
      /\ Scratch \in BundleNames /\ Bundles \subseteq BundleNames
      /\ \A x \in Bundles : HeightOf[x] \in Heights
  BY DEF Content, RootNames, BundleNames, Heights
<1>s. ASSUME NEW p \in Procs, pc[p] \in CommitSteps
      PROVE  cur[p] \in Bundles /\ cur[p] \in Content /\ cur[p] \in BundleNames
             /\ HeightOf[cur[p]] \in Heights
  BY <1>s, <1>n DEF Control
<1>1. ASSUME NEW p \in Procs, SyncScratch(p) PROVE Control' /\ DirTypes' /\ HistoryTypes'
  <2>1. Control'
    BY <1>1, GotoTypes DEF SyncScratch, Goto, CommitSteps
  <2>2. pc[p] \in CommitSteps
    BY <1>1 DEF SyncScratch, Goto, CommitSteps
  <2>3. DirTypes'
    BY <1>1, <2>2, <1>n, <1>s, DirOps DEF SyncScratch, DirTypes
  <2> QED BY <1>1, <2>1, <2>3 DEF SyncScratch
<1>2. ASSUME NEW p \in Procs, LinkBundle(p) PROVE Control' /\ DirTypes' /\ HistoryTypes'
  <2>1. Control'
    BY <1>2, GotoTypes DEF LinkBundle, Goto, CommitSteps
  <2>2. pc[p] \in CommitSteps
    BY <1>2 DEF LinkBundle, Goto, CommitSteps
  <2>3. DirTypes'
    BY <1>2, <2>2, <1>n, <1>s, DirOps DEF LinkBundle, DirTypes
  <2> QED BY <1>2, <2>1, <2>3 DEF LinkBundle
<1>3. ASSUME NEW p \in Procs, UnlinkScratch(p) PROVE Control' /\ DirTypes' /\ HistoryTypes'
  <2>1. Control'
    BY <1>3, GotoTypes DEF UnlinkScratch, Goto, CommitSteps
  <2>2. pc[p] \in CommitSteps
    BY <1>3 DEF UnlinkScratch, Goto, CommitSteps
  <2>3. DirTypes'
    BY <1>3, <2>2, <1>n, <1>s, DirOps DEF UnlinkScratch, DirTypes
  <2> QED BY <1>3, <2>1, <2>3 DEF UnlinkScratch
<1>4. ASSUME NEW p \in Procs, SyncBundle(p) PROVE Control' /\ DirTypes' /\ HistoryTypes'
  <2>1. Control'
    BY <1>4, GotoTypes DEF SyncBundle, Goto, CommitSteps
  <2>2. pc[p] \in CommitSteps
    BY <1>4 DEF SyncBundle, Goto, CommitSteps
  <2>3. DirTypes'
    BY <1>4, <2>2, <1>n, <1>s, DirOps DEF SyncBundle, DirTypes
  <2> QED BY <1>4, <2>1, <2>3 DEF SyncBundle
<1>5. ASSUME NEW p \in Procs, SyncBundlesDir(p) PROVE Control' /\ DirTypes' /\ HistoryTypes'
  <2>1. Control'
    BY <1>5, GotoTypes DEF SyncBundlesDir, Goto, CommitSteps
  <2>2. pc[p] \in CommitSteps
    BY <1>5 DEF SyncBundlesDir, Goto, CommitSteps
  <2>3. DirTypes'
    BY <1>5, <2>2, <1>n, <1>s, DirSync DEF SyncBundlesDir, DirTypes
  <2> QED BY <1>5, <2>1, <2>3 DEF SyncBundlesDir
<1>6. ASSUME NEW p \in Procs, StageBundle(p) PROVE Control' /\ DirTypes' /\ HistoryTypes'
  <2>1. Control'
    BY <1>6, GotoTypes DEF StageBundle, Goto, CommitSteps
  <2>2. pc[p] \in CommitSteps
    BY <1>6 DEF StageBundle, Goto, CommitSteps
  <2>3. DirTypes'
    BY <1>6, <2>2, <1>n, <1>s, DirOps DEF StageBundle, DirTypes
  <2> QED BY <1>6, <2>1, <2>3 DEF StageBundle
<1>7. ASSUME NEW p \in Procs, WriteHeightMarker(p) PROVE Control' /\ DirTypes' /\ HistoryTypes'
  <2>1. Control'
    BY <1>7, GotoTypes DEF WriteHeightMarker, Goto, CommitSteps
  <2>2. pc[p] \in CommitSteps
    BY <1>7 DEF WriteHeightMarker, Goto, CommitSteps
  <2>3. DirTypes'
    BY <1>7, <2>2, <1>n, <1>s, DirOps DEF WriteHeightMarker, DirTypes
  <2> QED BY <1>7, <2>1, <2>3 DEF WriteHeightMarker
<1>8. ASSUME NEW p \in Procs, SyncHeightMarker(p) PROVE Control' /\ DirTypes' /\ HistoryTypes'
  <2>1. Control'
    BY <1>8, GotoTypes DEF SyncHeightMarker, Goto, CommitSteps
  <2>2. pc[p] \in CommitSteps
    BY <1>8 DEF SyncHeightMarker, Goto, CommitSteps
  <2>3. DirTypes'
    BY <1>8, <2>2, <1>n, <1>s, DirOps DEF SyncHeightMarker, DirTypes
  <2> QED BY <1>8, <2>1, <2>3 DEF SyncHeightMarker
<1>9. ASSUME NEW p \in Procs, SyncHeightsDir(p) PROVE Control' /\ DirTypes' /\ HistoryTypes'
  <2>1. Control'
    BY <1>9, GotoTypes DEF SyncHeightsDir, Goto, CommitSteps
  <2>2. pc[p] \in CommitSteps
    BY <1>9 DEF SyncHeightsDir, Goto, CommitSteps
  <2>3. DirTypes'
    BY <1>9, <2>2, <1>n, <1>s, DirSync DEF SyncHeightsDir, DirTypes
  <2> QED BY <1>9, <2>1, <2>3 DEF SyncHeightsDir
<1>10. ASSUME NEW p \in Procs, WritePinTmp(p) PROVE Control' /\ DirTypes' /\ HistoryTypes'
  <2>1. Control'
    BY <1>10, GotoTypes DEF WritePinTmp, Goto, CommitSteps
  <2>2. pc[p] \in CommitSteps
    BY <1>10 DEF WritePinTmp, Goto, CommitSteps
  <2>3. DirTypes'
    BY <1>10, <2>2, <1>n, <1>s, DirOps DEF WritePinTmp, DirTypes
  <2> QED BY <1>10, <2>1, <2>3 DEF WritePinTmp
<1>11. ASSUME NEW p \in Procs, SyncPinTmp(p) PROVE Control' /\ DirTypes' /\ HistoryTypes'
  <2>1. Control'
    BY <1>11, GotoTypes DEF SyncPinTmp, Goto, CommitSteps
  <2>2. pc[p] \in CommitSteps
    BY <1>11 DEF SyncPinTmp, Goto, CommitSteps
  <2>3. DirTypes'
    BY <1>11, <2>2, <1>n, <1>s, DirOps DEF SyncPinTmp, DirTypes
  <2> QED BY <1>11, <2>1, <2>3 DEF SyncPinTmp
<1>12. ASSUME NEW p \in Procs, RenamePin(p) PROVE Control' /\ DirTypes' /\ HistoryTypes'
  <2>1. Control'
    BY <1>12, GotoTypes DEF RenamePin, Goto, CommitSteps
  <2>2. pc[p] \in CommitSteps
    BY <1>12 DEF RenamePin, Goto, CommitSteps
  <2>3. DirTypes'
    BY <1>12, <2>2, <1>n, <1>s, DirOps DEF RenamePin, DirTypes
  <2> QED BY <1>12, <2>1, <2>3 DEF RenamePin
<1>13. ASSUME NEW p \in Procs, ResyncBundlesDir(p) PROVE Control' /\ DirTypes' /\ HistoryTypes'
  <2>1. Control'
    BY <1>13, GotoTypes DEF ResyncBundlesDir, Goto, CommitSteps
  <2>2. pc[p] \in CommitSteps
    BY <1>13 DEF ResyncBundlesDir, Goto, CommitSteps
  <2>3. DirTypes'
    BY <1>13, <2>2, <1>n, <1>s, DirSync DEF ResyncBundlesDir, DirTypes
  <2> QED BY <1>13, <2>1, <2>3 DEF ResyncBundlesDir
<1>14. ASSUME NEW p \in Procs, ResyncHeightsDir(p) PROVE Control' /\ DirTypes' /\ HistoryTypes'
  <2>1. Control'
    BY <1>14, GotoTypes DEF ResyncHeightsDir, Goto, CommitSteps
  <2>2. pc[p] \in CommitSteps
    BY <1>14 DEF ResyncHeightsDir, Goto, CommitSteps
  <2>3. DirTypes'
    BY <1>14, <2>2, <1>n, <1>s, DirSync DEF ResyncHeightsDir, DirTypes
  <2> QED BY <1>14, <2>1, <2>3 DEF ResyncHeightsDir
<1>15. ASSUME NEW p \in Procs, NEW b \in Bundles, BeginCommit(p, b) PROVE Control' /\ DirTypes' /\ HistoryTypes'
  BY <1>15 DEF BeginCommit, Lock, Goto, Control, CommitSteps, DirTypes
<1>16. ASSUME NEW p \in Procs, Refuse(p) PROVE Control' /\ DirTypes' /\ HistoryTypes'
  BY <1>16, ReturnTypes DEF Refuse, DirTypes
<1>17. ASSUME NEW p \in Procs, Admit(p) PROVE Control' /\ DirTypes' /\ HistoryTypes'
  <2>1. Control'
    BY <1>17, GotoTypes DEF Admit, CommitSteps
  <2> QED BY <1>17, <2>1 DEF Admit, DirTypes
<1>18. ASSUME NEW p \in Procs, FindBundle(p) PROVE Control' /\ DirTypes' /\ HistoryTypes'
  <2>1. Control'
    BY <1>18, GotoTypes, ReturnTypes DEF FindBundle, CommitSteps
  <2> QED BY <1>18, <2>1 DEF FindBundle, DirTypes
<1>19. ASSUME NEW p \in Procs, SyncDirAndAck(p) PROVE Control' /\ DirTypes' /\ HistoryTypes'
  <2>1. pc[p] \in CommitSteps
    BY <1>19 DEF SyncDirAndAck, CommitSteps
  <2>2. Control'
    BY <1>19, ReturnTypes DEF SyncDirAndAck
  <2>3. DirTypes'
    BY <1>19, <1>n, DirSync DEF SyncDirAndAck, DirTypes
  <2> QED BY <1>19, <2>1, <2>2, <2>3, <1>s DEF SyncDirAndAck
<1>20. ASSUME NEW p \in Procs, ResyncDirAndAck(p) PROVE Control' /\ DirTypes' /\ HistoryTypes'
  <2>1. pc[p] \in CommitSteps
    BY <1>20 DEF ResyncDirAndAck, CommitSteps
  <2>2. Control'
    BY <1>20, ReturnTypes DEF ResyncDirAndAck
  <2>3. DirTypes'
    BY <1>20, <1>n, DirSync DEF ResyncDirAndAck, DirTypes
  <2> QED BY <1>20, <2>1, <2>2, <2>3, <1>s DEF ResyncDirAndAck
<1>21. ASSUME NEW p \in Procs, BeginRecover(p) PROVE Control' /\ DirTypes' /\ HistoryTypes'
  <2>1. Control'
    BY <1>21, GotoTypes DEF BeginRecover, EnterRecover, RecoverSteps, CommitSteps
  <2> QED BY <1>21, <2>1 DEF BeginRecover, EnterRecover, DirTypes
<1>22. ASSUME NEW p \in Procs, VerifyPin(p) PROVE Control' /\ DirTypes' /\ HistoryTypes'
  <2>1. Control'
    <3>1. CASE PinIsWhole
      BY <1>22, <3>1 DEF VerifyPin, PinIsWhole, Control, Goto, RecoverSteps, CommitSteps
    <3>2. CASE ~PinIsWhole
      BY <1>22, <3>2, ReturnTypes DEF VerifyPin
    <3> QED BY <3>1, <3>2
  <2> QED BY <1>22, <2>1 DEF VerifyPin, DirTypes
<1>23. ASSUME NEW p \in Procs, RemovePinTmp(p) PROVE Control' /\ DirTypes' /\ HistoryTypes'
  <2>1. Control'
    BY <1>23, GotoTypes DEF RemovePinTmp, RecoverSteps, CommitSteps
  <2>2. DirTypes'
    BY <1>23, <1>n, DirOps DEF RemovePinTmp, DirTypes
  <2> QED BY <1>23, <2>1, <2>2 DEF RemovePinTmp
<1>24. ASSUME NEW p \in Procs, MarkersRemoved(p) PROVE Control' /\ DirTypes' /\ HistoryTypes'
  <2>1. Control'
    BY <1>24, GotoTypes DEF MarkersRemoved, RecoverSteps, CommitSteps
  <2>2. DirTypes'
    BY <1>24, <1>n, DirOps DEF MarkersRemoved, DirTypes
  <2> QED BY <1>24, <2>1, <2>2 DEF MarkersRemoved
<1>25. ASSUME NEW p \in Procs, SettleHeights(p) PROVE Control' /\ DirTypes' /\ HistoryTypes'
  <2>1. Control'
    BY <1>25, GotoTypes DEF SettleHeights, RecoverSteps, CommitSteps
  <2>2. DirTypes'
    BY <1>25, <1>n, DirSync DEF SettleHeights, DirTypes
  <2> QED BY <1>25, <2>1, <2>2 DEF SettleHeights
<1>26. ASSUME NEW p \in Procs, RemoveMarker(p) PROVE Control' /\ DirTypes' /\ HistoryTypes'
  <2>1. PICK h \in Heights : hdir' = Delete(hdir, h)
    BY <1>26 DEF RemoveMarker, Residue
  <2>2. DirTypes'
    BY <1>26, <1>n, <2>1, DirOps DEF RemoveMarker, DirTypes
  <2> QED BY <1>26, <2>2 DEF RemoveMarker, Control
<1>27. ASSUME NEW p \in Procs, SettleDir(p) PROVE Control' /\ DirTypes' /\ HistoryTypes'
  <2>1. Control'
    BY <1>27, ReturnTypes DEF SettleDir
  <2>2. DirTypes'
    BY <1>27, <1>n, DirSync DEF SettleDir, DirTypes
  <2> QED BY <1>27, <2>1, <2>2 DEF SettleDir
<1>28. ASSUME NEW p \in Procs, Abandon(p) PROVE Control' /\ DirTypes' /\ HistoryTypes'
  BY <1>28, ReturnTypes DEF Abandon, Faulty, DirTypes
<1>29. ASSUME NEW p \in Procs, AbandonWrite(p) PROVE Control' /\ DirTypes' /\ HistoryTypes'
  <2>1. Control'
    BY <1>29, ReturnTypes DEF AbandonWrite
  <2>2. pc[p] \in CommitSteps
    BY <1>29 DEF AbandonWrite, CommitSteps
  <2>3. DirTypes'
    <3>1. CASE bdir' = Write(Delete(bdir, Scratch), Scratch, Torn) /\ UNCHANGED <<root, hdir>>
      BY <3>1, <1>n, DirOps DEF DirTypes
    <3>2. CASE hdir' = Write(hdir, HeightOf[cur[p]], Torn) /\ UNCHANGED <<root, bdir>>
      BY <3>2, <2>2, <1>n, <1>s, DirOps DEF DirTypes
    <3>3. CASE root' = Write(root, HEADTMP, Torn) /\ UNCHANGED <<bdir, hdir>>
      BY <3>3, <1>n, DirOps DEF DirTypes
    <3> QED BY <1>29, <3>1, <3>2, <3>3 DEF AbandonWrite
  <2> QED BY <1>29, <2>1, <2>3 DEF AbandonWrite, Faulty
<1>30. ASSUME PowerLoss PROVE Control' /\ DirTypes' /\ HistoryTypes'
  <2>1. Control'
    BY <1>30 DEF PowerLoss, Control, CommitSteps
  <2>2. DirTypes'
    BY <1>30, <1>n, DirLoss DEF PowerLoss, DirTypes
  <2> QED BY <1>30, <2>1, <2>2 DEF PowerLoss, Faulty
<1>31. ASSUME UNCHANGED vars PROVE Control' /\ DirTypes' /\ HistoryTypes'
  BY <1>31 DEF vars, Control, DirTypes
<1>32. ASSUME NEW p \in Procs, CommitStep(p) PROVE Control' /\ DirTypes' /\ HistoryTypes'
  BY <1>32, <1>1, <1>2, <1>3, <1>4, <1>5, <1>6, <1>7, <1>8, <1>9, <1>10, <1>11, <1>12,
     <1>13, <1>14, <1>16, <1>17, <1>18, <1>19, <1>20 DEF CommitStep
<1>33. ASSUME NEW p \in Procs, RecoverStep(p) PROVE Control' /\ DirTypes' /\ HistoryTypes'
  BY <1>33, <1>22, <1>23, <1>24, <1>25, <1>26, <1>27 DEF RecoverStep
<1> QED
  BY <1>15, <1>21, <1>28, <1>29, <1>30, <1>31, <1>32, <1>33 DEF Next, LiveNext, Step

\* Type correctness of the journal: through every call, failure and power loss
\* its directories hold bundles, markers and pins under their own names, and
\* the lock has at most one holder.
THEOREM TypeCorrect == Spec => []TypeOK
<1>1. Init => Control /\ DirTypes /\ HistoryTypes
  <2>1. \A N : [n \in N |-> Absent] \in [N -> Content]
    BY DEF Content
  <2>2. Init => DirTypes
    BY <2>1, DirStored DEF Init, DirTypes
  <2>3. Init => Control
    <3>1. Init => pc \in [Procs -> {"idle"} \cup CommitSteps \cup RecoverSteps]
                  /\ \A p \in Procs : pc[p] \notin CommitSteps
      BY DEF Init, CommitSteps
    <3>2. Init => cur \in [Procs -> Bundles \cup {Absent}] /\ lock = NoProc
      BY DEF Init
    <3> QED BY <3>1, <3>2 DEF Control
  <2>4. Init => HistoryTypes
    <3>1. Init => corrupt \in BOOLEAN
      BY Zenon DEF Init
    <3>2. Init => acked = {} /\ faults = 0
      BY Zenon DEF Init
    <3> QED BY <3>1, <3>2 DEF HistoryTypes
  <2> QED BY <2>2, <2>3, <2>4
<1>2. Control /\ DirTypes /\ HistoryTypes /\ [Next]_vars
      => (Control /\ DirTypes /\ HistoryTypes)'
  BY TypeStep
<1>3. Control /\ DirTypes /\ HistoryTypes => TypeOK
  BY DEF Control, DirTypes, HistoryTypes, TypeOK
<1> QED BY <1>1, <1>2, <1>3, PTL DEF Spec

-----------------------------------------------------------------------------
(***************************************************************************)
(* The inductive invariant.  The chain under HEAD is settled: nothing a    *)
(* power loss can do changes it; and every step of a commit knows what the *)
(* steps before it have settled.                                           *)
(***************************************************************************)

\* Steps of a commit that is to extend the pin, in order.
StagingSteps   == {"createBundle", "syncScratch", "linkBundle"}
LinkedSteps    == {"unlinkScratch", "syncBundle", "syncBundlesDir"}
MarkingSteps   == {"writeHeightMarker", "syncHeightMarker", "syncHeightsDir"}
PinningSteps   == {"writePinTmp", "syncPinTmp", "renamePin"}
ExtendingSteps == StagingSteps \cup LinkedSteps \cup MarkingSteps \cup PinningSteps
PinnedSteps    == {"syncDir", "resyncBundlesDir", "resyncHeightsDir", "resyncDir"}

\* One commit at a time, and none while a recovery runs.
Exclusive ==
    \A p, q \in Procs : pc[p] \in CommitSteps => lock = p /\ pc[q] \notin RecoverSteps

\* What processes see may be what the disk has.
Visible == root.vis \in root.disk /\ bdir.vis \in bdir.disk /\ hdir.vis \in hdir.disk

\* Every HEAD the disk may have is whole and one of the chain under the pin.
Heads ==
    /\ HEAD \notin root.dirty
    /\ \A rm \in root.disk :
          rm[HEAD] # Absent =>
          /\ rm[HEAD] \in Bundles
          /\ HeightOf[rm[HEAD]] <= HeightOfPin(Pin)
          /\ hdir.vis[HeightOf[rm[HEAD]]] = rm[HEAD]

\* A bundle's name holds that bundle or nothing.
Named ==
    /\ bdir.dirty \subseteq {Scratch}
    /\ \A bm \in bdir.disk, b \in Bundles : bm[b] \in {Absent, b}

\* The marker of height h and its bundle are settled and extend height h - 1.
SettledAt(h) ==
    /\ h \notin hdir.dirty
    /\ \A hm \in hdir.disk : hm[h] = hdir.vis[h]
    /\ hdir.vis[h] \in Bundles
    /\ HeightOf[hdir.vis[h]] = h
    /\ PredOf[hdir.vis[h]] = IF h = 1 THEN GenesisNext ELSE NextOf[hdir.vis[h - 1]]
    /\ \A bm \in bdir.disk : bm[hdir.vis[h]] = hdir.vis[h]

Chain == \A h \in 1..HeightOfPin(Pin) : SettledAt(h)

\* What process p has done so far.
Progress(p) ==
    /\ pc[p] \in ExtendingSteps =>
          HeightOf[cur[p]] = HeightOfPin(Pin) + 1 /\ PredOf[cur[p]] = FrontierOfPin(Pin)
    /\ pc[p] \in {"syncScratch", "linkBundle"} => bdir.vis[Scratch] = cur[p]
    /\ pc[p] = "linkBundle" => Scratch \notin bdir.dirty
    /\ pc[p] \in LinkedSteps => bdir.vis[cur[p]] = cur[p]
    /\ pc[p] \in MarkingSteps \cup PinningSteps => \A bm \in bdir.disk : bm[cur[p]] = cur[p]
    /\ pc[p] \in {"syncHeightMarker", "syncHeightsDir"} => hdir.vis[HeightOf[cur[p]]] = cur[p]
    /\ pc[p] = "syncHeightsDir" => HeightOf[cur[p]] \notin hdir.dirty
    /\ pc[p] \in PinningSteps => /\ HeightOf[cur[p]] \notin hdir.dirty
                                 /\ \A hm \in hdir.disk : hm[HeightOf[cur[p]]] = cur[p]
    /\ pc[p] \in {"syncPinTmp", "renamePin"} => root.vis[HEADTMP] = cur[p]
    /\ pc[p] = "renamePin" => HEADTMP \notin root.dirty
    /\ pc[p] \in PinnedSteps => Pin = cur[p]
    /\ pc[p] \in RecoverSteps \ {"verifyPin"} => cur[p] = Pin

\* An acknowledged bundle is in every chain the disk may have.
Acknowledged ==
    \A b \in acked :
        /\ hdir.vis[HeightOf[b]] = b
        /\ \A rm \in root.disk : HeightOf[b] <= HeightOfPin(rm[HEAD])

Disk == Visible /\ Heads /\ Named /\ Chain /\ Acknowledged

SafeInv == Exclusive /\ Disk /\ (\A p \in Procs : Progress(p)) /\ ~corrupt

Types == Control /\ DirTypes /\ HistoryTypes

\* The fields of the directories are maps of their names.
LEMMA Maps ==
    ASSUME DirTypes
    PROVE  /\ root.vis \in [RootNames -> Content] /\ root.disk \subseteq [RootNames -> Content]
           /\ bdir.vis \in [BundleNames -> Content] /\ bdir.disk \subseteq [BundleNames -> Content]
           /\ hdir.vis \in [Heights -> Content] /\ hdir.disk \subseteq [Heights -> Content]
  BY DEF DirTypes, Dirs

\* The pin is absent or a bundle, at a height there is.
LEMMA PinHeight ==
    ASSUME DirTypes, Disk
    PROVE  /\ Pin = Absent \/ Pin \in Bundles
           /\ HeightOfPin(Pin) \in 0..MaxHeight
           /\ 1..HeightOfPin(Pin) \subseteq Heights
           /\ Pin \in Bundles => hdir.vis[HeightOf[Pin]] = Pin
           /\ Pin # Absent => HeightOfPin(Pin) \in 1..HeightOfPin(Pin)
  BY DEF Disk, Visible, Heads, Pin, HeightOfPin, Heights

\* While a commit runs every other process is idle.
LEMMA CommitAlone ==
    ASSUME Control, Exclusive, NEW p \in Procs, pc[p] \in CommitSteps
    PROVE  \A q \in Procs \ {p} : pc[q] = "idle"
  BY DEF Control, Exclusive

\* A step that leaves the directories alone.
LEMMA DiskSame ==
    ASSUME Disk, root' = root, bdir' = bdir, hdir' = hdir, acked' = acked
    PROVE  Disk'
  BY DEF Disk, Visible, Heads, Named, Chain, SettledAt, Acknowledged, Pin, HeightOfPin

\* A step on bundles/ that takes no bundle away and puts none under another's
\* name.
LEMMA DiskBundles ==
    ASSUME Disk, root' = root, hdir' = hdir, acked' = acked, DirTypes,
           bdir'.vis \in bdir'.disk, bdir'.dirty \subseteq {Scratch},
           \A bm \in bdir'.disk \ bdir.disk, b \in Bundles :
               bm[b] \in {Absent, b} /\ (bdir.vis[b] = b => bm[b] = b)
    PROVE  Disk'
<1>1. Visible' /\ Heads' /\ Acknowledged'
  BY DEF Disk, Visible, Heads, Acknowledged, Pin, HeightOfPin
<1>2. Named'
  BY DEF Disk, Named
<1>3. Chain'
  <2> SUFFICES ASSUME NEW h \in 1..HeightOfPin(Pin) PROVE SettledAt(h)'
    BY DEF Chain, Pin, HeightOfPin
  <2>1. SettledAt(h) /\ bdir.vis \in bdir.disk
    BY DEF Disk, Chain, Visible
  <2> QED BY <2>1 DEF SettledAt
<1> QED BY <1>1, <1>2, <1>3 DEF Disk

\* A step on heights/ that leaves the markers up to the pin as they are.
LEMMA DiskHeights ==
    ASSUME Disk, root' = root, bdir' = bdir, acked' = acked, DirTypes, HistoryTypes,
           hdir'.vis \in hdir'.disk,
           \A h \in 1..HeightOfPin(Pin) :
               /\ h \notin hdir'.dirty
               /\ \A hm \in hdir'.disk : hm[h] = hdir.vis[h]
    PROVE  Disk'
<1>1. \A h \in 1..HeightOfPin(Pin) : hdir'.vis[h] = hdir.vis[h]
  OBVIOUS
<1>2. Visible' /\ Named'
  BY DEF Disk, Visible, Named
<1>3. Heads'
  BY <1>1 DEF Disk, Heads, Pin, HeightOfPin
<1>4. Acknowledged'
  <2> SUFFICES ASSUME NEW b \in acked PROVE hdir'.vis[HeightOf[b]] = b
    BY DEF Disk, Acknowledged, HeightOfPin
  <2>1. b \in Bundles /\ HeightOf[b] \in 1..HeightOfPin(Pin) /\ hdir.vis[HeightOf[b]] = b
    <3>1. HeightOf[b] <= HeightOfPin(Pin) /\ hdir.vis[HeightOf[b]] = b
      BY DEF Disk, Acknowledged, Visible, Pin
    <3> QED BY <3>1, PinHeight DEF HistoryTypes
  <2> QED BY <2>1, <1>1
<1>5. Chain'
  <2> SUFFICES ASSUME NEW h \in 1..HeightOfPin(Pin) PROVE SettledAt(h)'
    BY DEF Chain, Pin, HeightOfPin
  <2>1. SettledAt(h)
    BY DEF Disk, Chain
  <2>2. h # 1 => h - 1 \in 1..HeightOfPin(Pin)
    BY PinHeight
  <2> QED BY <2>1, <2>2, <1>1 DEF SettledAt
<1> QED BY <1>2, <1>3, <1>4, <1>5 DEF Disk

\* A step on the journal's own directory that leaves HEAD as it is.
LEMMA DiskRoot ==
    ASSUME Disk, bdir' = bdir, hdir' = hdir, acked' = acked,
           root'.vis \in root'.disk, HEAD \notin root'.dirty,
           root'.vis[HEAD] = root.vis[HEAD],
           \A rm \in root'.disk : \E old \in root.disk : rm[HEAD] = old[HEAD]
    PROVE  Disk'
<1>1. Pin' = Pin /\ HeightOfPin(Pin)' = HeightOfPin(Pin)
  BY DEF Pin, HeightOfPin
<1>2. Visible' /\ Named'
  BY DEF Disk, Visible, Named
<1>3. Heads'
  BY <1>1 DEF Disk, Heads
<1>4. Acknowledged'
  BY DEF Disk, Acknowledged, HeightOfPin
<1>5. Chain'
  BY <1>1 DEF Disk, Chain, SettledAt
<1> QED BY <1>2, <1>3, <1>4, <1>5 DEF Disk

\* A commit, or a recovery, moves on: it still excludes the other.
LEMMA GotoExclusive ==
    ASSUME Control, Exclusive, NEW p \in Procs, NEW from, NEW to,
           Goto(p, from, to), lock' = lock,
           \/ from \in CommitSteps /\ to \in CommitSteps
           \/ from \in RecoverSteps /\ to \in RecoverSteps
    PROVE  Exclusive'
<1>1. CommitSteps \cap RecoverSteps = {}
  BY DEF CommitSteps, RecoverSteps
<1> QED BY <1>1 DEF Control, Exclusive, Goto

\* A call that returns excludes nobody.
LEMMA ReturnExclusive ==
    ASSUME Control, Exclusive, NEW p \in Procs, Return(p)
    PROVE  Exclusive'
<1>1. "idle" \notin CommitSteps /\ "idle" \notin RecoverSteps
  BY DEF CommitSteps, RecoverSteps
<1> QED BY <1>1 DEF Control, Exclusive, Return

\* Of an idle process there is nothing to say.
LEMMA IdleProgress ==
    ASSUME NEW q \in Procs, pc'[q] = "idle"
    PROVE  Progress(q)'
  BY DEF Progress, ExtendingSteps, StagingSteps, LinkedSteps, MarkingSteps, PinningSteps,
         PinnedSteps, RecoverSteps

\* A commit moves on: the invariant is that of the directories and its own.
LEMMA CommitGoto ==
    ASSUME Types, SafeInv, NEW p \in Procs, NEW from \in CommitSteps, NEW to \in CommitSteps,
           Goto(p, from, to), lock' = lock, corrupt' = corrupt, Disk', Progress(p)'
    PROVE  SafeInv'
<1>1. \A q \in Procs \ {p} : pc[q] = "idle"
  BY CommitAlone DEF Goto, Types, SafeInv
<1>2. \A q \in Procs \ {p} : pc'[q] = "idle"
  BY <1>1 DEF Goto, Types, Control
<1>3. \A q \in Procs : Progress(q)'
  BY <1>2, IdleProgress
<1>4. Exclusive'
  BY GotoExclusive DEF Types, SafeInv
<1> QED BY <1>3, <1>4 DEF SafeInv

\* A commit returns: only the directories matter.
LEMMA CommitReturn ==
    ASSUME Types, SafeInv, NEW p \in Procs, pc[p] \in CommitSteps,
           Return(p), corrupt' = corrupt, Disk'
    PROVE  SafeInv'
<1>1. \A q \in Procs \ {p} : pc[q] = "idle"
  BY CommitAlone DEF Types, SafeInv
<1>2. \A q \in Procs : pc'[q] = "idle"
  BY <1>1 DEF Return, Types, Control
<1>3. \A q \in Procs : Progress(q)'
  BY <1>2, IdleProgress
<1>4. Exclusive'
  BY ReturnExclusive DEF Types, SafeInv
<1> QED BY <1>3, <1>4 DEF SafeInv

\* The definitions of a commit's stages.
USE DEF ExtendingSteps, StagingSteps, LinkedSteps, MarkingSteps, PinningSteps, PinnedSteps

\* While HEAD stays, the bundle that extends it still does.
LEMMA StillExtends ==
    ASSUME Types, SafeInv, NEW p \in Procs, pc[p] \in ExtendingSteps,
           root'.vis[HEAD] = root.vis[HEAD], cur' = cur
    PROVE  /\ cur[p] \in Bundles
           /\ HeightOf[cur'[p]] = HeightOfPin(Pin)' + 1
           /\ PredOf[cur'[p]] = FrontierOfPin(Pin)'
<1>1. cur[p] \in Bundles
  BY DEF Types, Control, CommitSteps
<1>2. HeightOf[cur[p]] = HeightOfPin(Pin) + 1 /\ PredOf[cur[p]] = FrontierOfPin(Pin)
  BY DEF SafeInv, Progress
<1> QED BY <1>1, <1>2 DEF Pin, HeightOfPin, FrontierOfPin

\* bundles/ as the invariant has it.
LEMMA BundlesDir ==
    ASSUME Types, SafeInv
    PROVE  /\ bdir.vis \in [BundleNames -> Content] /\ bdir.disk \subseteq [BundleNames -> Content]
           /\ Scratch \in BundleNames /\ Bundles \subseteq BundleNames
           /\ bdir.vis \in bdir.disk
           /\ bdir.dirty \subseteq {Scratch}
           /\ \A bm \in bdir.disk, b \in Bundles : bm[b] \in {Absent, b}
  BY Maps DEF Types, BundleNames, SafeInv, Disk, Visible, Named

\* A fresh scratch touches no bundle, whatever the old one was linked to.
LEMMA StageBundleStep ==
    ASSUME Types, SafeInv, NEW p \in Procs, StageBundle(p)
    PROVE  SafeInv'
<1>1. Goto(p, "createBundle", "syncScratch") /\ pc[p] = "createBundle" /\ pc'[p] = "syncScratch"
  BY DEF StageBundle, Goto, Types, Control
<1> DEFINE m1 == [bdir.vis EXCEPT ![Scratch] = Absent]
           m2 == [m1 EXCEPT ![Scratch] = cur[p]]
<1>2. bdir'.vis = m2 /\ bdir'.disk = bdir.disk \cup {m1, m2} /\ bdir'.dirty = bdir.dirty \cup {Scratch}
  BY DEF StageBundle, Write, Delete, Update
<1>3. m1[Scratch] = Absent /\ m2[Scratch] = cur[p]
      /\ \A b \in Bundles : m1[b] = bdir.vis[b] /\ m2[b] = bdir.vis[b]
  BY BundlesDir
<1> HIDE DEF m1, m2
<1>4. Disk'
  BY <1>2, <1>3, BundlesDir, DiskBundles DEF StageBundle, SafeInv, Types
<1>5. Progress(p)'
  BY <1>1, <1>2, <1>3, StillExtends DEF StageBundle, Progress, RecoverSteps
<1> QED BY <1>1, <1>4, <1>5, CommitGoto DEF StageBundle, CommitSteps

\* The scratch is forced before it is linked.
LEMMA SyncScratchStep ==
    ASSUME Types, SafeInv, NEW p \in Procs, SyncScratch(p)
    PROVE  SafeInv'
<1>1. Goto(p, "syncScratch", "linkBundle") /\ pc[p] = "syncScratch" /\ pc'[p] = "linkBundle"
  BY DEF SyncScratch, Goto, Types, Control
<1>2. bdir'.vis = bdir.vis /\ bdir'.disk = bdir.disk /\ bdir'.dirty = bdir.dirty \ {Scratch}
  BY DEF SyncScratch, SyncFile, Types, DirTypes, Dirs
<1>3. Disk'
  BY <1>2, BundlesDir, DiskBundles DEF SyncScratch, SafeInv, Types
<1>4. bdir.vis[Scratch] = cur[p]
  BY <1>1 DEF SafeInv, Progress
<1>5. Progress(p)'
  BY <1>1, <1>2, <1>4, StillExtends DEF SyncScratch, Progress, RecoverSteps
<1> QED BY <1>1, <1>3, <1>5, CommitGoto DEF SyncScratch, CommitSteps

\* The link gives the bundle's name a whole file.
LEMMA LinkBundleStep ==
    ASSUME Types, SafeInv, NEW p \in Procs, LinkBundle(p)
    PROVE  SafeInv'
<1>1. Goto(p, "linkBundle", "unlinkScratch") /\ pc[p] = "linkBundle" /\ pc'[p] = "unlinkScratch"
  BY DEF LinkBundle, Goto, Types, Control
<1>2. bdir.vis[Scratch] = cur[p] /\ Scratch \notin bdir.dirty /\ cur[p] \in Bundles
  BY <1>1 DEF SafeInv, Progress, Types, Control, CommitSteps
<1> DEFINE m == [bdir.vis EXCEPT ![cur[p]] = cur[p]]
<1>3. bdir'.vis = m /\ bdir'.disk = bdir.disk \cup {m} /\ bdir'.dirty = bdir.dirty
  BY <1>2 DEF LinkBundle, Link, Update
<1>4. \A b \in Bundles : m[b] = IF b = cur[p] THEN cur[p] ELSE bdir.vis[b]
  BY <1>2, BundlesDir
<1> HIDE DEF m
<1>5. Disk'
  BY <1>3, <1>4, BundlesDir, DiskBundles DEF LinkBundle, SafeInv, Types
<1>6. Progress(p)'
  BY <1>1, <1>2, <1>3, <1>4, StillExtends DEF LinkBundle, Progress, RecoverSteps
<1> QED BY <1>1, <1>5, <1>6, CommitGoto DEF LinkBundle, CommitSteps

\* Unlinking the scratch leaves the bundle.
LEMMA UnlinkScratchStep ==
    ASSUME Types, SafeInv, NEW p \in Procs, UnlinkScratch(p)
    PROVE  SafeInv'
<1>1. Goto(p, "unlinkScratch", "syncBundlesDir") /\ pc[p] = "unlinkScratch" /\ pc'[p] = "syncBundlesDir"
  BY DEF UnlinkScratch, Goto, Types, Control
<1>2. bdir.vis[cur[p]] = cur[p] /\ cur[p] \in Bundles
  BY <1>1 DEF SafeInv, Progress, Types, Control, CommitSteps
<1> DEFINE m == [bdir.vis EXCEPT ![Scratch] = Absent]
<1>3. bdir'.vis = m /\ bdir'.disk = bdir.disk \cup {m} /\ bdir'.dirty = bdir.dirty
  BY DEF UnlinkScratch, Delete, Update
<1>4. \A b \in Bundles : m[b] = bdir.vis[b]
  BY BundlesDir
<1> HIDE DEF m
<1>5. Disk'
  BY <1>3, <1>4, BundlesDir, DiskBundles DEF UnlinkScratch, SafeInv, Types
<1>6. Progress(p)'
  BY <1>1, <1>2, <1>3, <1>4, StillExtends DEF UnlinkScratch, Progress, RecoverSteps
<1> QED BY <1>1, <1>5, <1>6, CommitGoto DEF UnlinkScratch, CommitSteps

\* A bundle found in place is forced.
LEMMA SyncBundleStep ==
    ASSUME Types, SafeInv, NEW p \in Procs, SyncBundle(p)
    PROVE  SafeInv'
<1>1. Goto(p, "syncBundle", "syncBundlesDir") /\ pc[p] = "syncBundle" /\ pc'[p] = "syncBundlesDir"
  BY DEF SyncBundle, Goto, Types, Control
<1>2. bdir'.vis = bdir.vis /\ bdir'.disk = bdir.disk /\ bdir'.dirty \subseteq bdir.dirty
  BY DEF SyncBundle, SyncFile, Types, DirTypes, Dirs
<1>3. Disk'
  BY <1>2, BundlesDir, DiskBundles DEF SyncBundle, SafeInv, Types
<1>4. bdir.vis[cur[p]] = cur[p]
  BY <1>1 DEF SafeInv, Progress
<1>5. Progress(p)'
  BY <1>1, <1>2, <1>4, StillExtends DEF SyncBundle, Progress, RecoverSteps
<1> QED BY <1>1, <1>3, <1>5, CommitGoto DEF SyncBundle, CommitSteps

\* The barrier on bundles/: from here the bundle is in every map of the disk.
LEMMA SyncBundlesDirStep ==
    ASSUME Types, SafeInv, NEW p \in Procs, SyncBundlesDir(p) \/ ResyncBundlesDir(p)
    PROVE  SafeInv'
<1>1. bdir'.vis = bdir.vis /\ bdir'.disk = {bdir.vis} /\ bdir'.dirty \subseteq bdir.dirty
  BY DEF SyncBundlesDir, ResyncBundlesDir, SyncDir
<1>2. Disk'
  BY <1>1, BundlesDir, DiskBundles DEF SyncBundlesDir, ResyncBundlesDir, SafeInv, Types
<1>3. CASE SyncBundlesDir(p)
  <2>1. Goto(p, "syncBundlesDir", "writeHeightMarker") /\ pc[p] = "syncBundlesDir"
        /\ pc'[p] = "writeHeightMarker"
    BY <1>3 DEF SyncBundlesDir, Goto, Types, Control
  <2>2. bdir.vis[cur[p]] = cur[p]
    BY <2>1 DEF SafeInv, Progress
  <2>3. Progress(p)'
    BY <1>1, <1>3, <2>1, <2>2, StillExtends DEF SyncBundlesDir, Progress, RecoverSteps
  <2> QED BY <1>2, <1>3, <2>1, <2>3, CommitGoto DEF SyncBundlesDir, CommitSteps
<1>4. CASE ResyncBundlesDir(p)
  <2>1. Goto(p, "resyncBundlesDir", "resyncHeightsDir") /\ pc[p] = "resyncBundlesDir"
        /\ pc'[p] = "resyncHeightsDir"
    BY <1>4 DEF ResyncBundlesDir, Goto, Types, Control
  <2>2. Pin = cur[p]
    BY <2>1 DEF SafeInv, Progress
  <2>3. Progress(p)'
    BY <1>4, <2>1, <2>2 DEF ResyncBundlesDir, Progress, Pin, RecoverSteps
  <2> QED BY <1>2, <1>4, <2>1, <2>3, CommitGoto DEF ResyncBundlesDir, CommitSteps
<1> QED BY <1>3, <1>4

\* heights/ as the invariant has it.
LEMMA HeightsDir ==
    ASSUME Types, SafeInv
    PROVE  /\ hdir.vis \in [Heights -> Content] /\ hdir.disk \subseteq [Heights -> Content]
           /\ hdir.vis \in hdir.disk
           /\ HeightOfPin(Pin) \in 0..MaxHeight
           /\ \A h \in 1..HeightOfPin(Pin) :
                 h \in Heights /\ h \notin hdir.dirty /\ \A hm \in hdir.disk : hm[h] = hdir.vis[h]
  BY Maps, PinHeight DEF Types, SafeInv, Disk, Visible, Chain, SettledAt

\* Writing the marker above the pin leaves those up to it alone.
LEMMA WriteAbovePin ==
    ASSUME Types, SafeInv, NEW g \in Heights, g > HeightOfPin(Pin), NEW c,
           hdir' = Write(hdir, g, c), root' = root, bdir' = bdir, acked' = acked
    PROVE  Disk' /\ hdir'.vis[g] = c
<1> DEFINE m == [hdir.vis EXCEPT ![g] = c]
<1>1. hdir'.vis = m /\ hdir'.disk = hdir.disk \cup {m} /\ hdir'.dirty = hdir.dirty \cup {g}
  BY DEF Write, Update
<1>2. m[g] = c /\ \A h \in 1..HeightOfPin(Pin) : m[h] = hdir.vis[h] /\ h # g
  BY HeightsDir DEF Heights
<1> HIDE DEF m
<1> QED BY <1>1, <1>2, HeightsDir, DiskHeights DEF SafeInv, Types

\* The marker is written above the pin, over any residue of a crash.
LEMMA WriteHeightMarkerStep ==
    ASSUME Types, SafeInv, NEW p \in Procs, WriteHeightMarker(p)
    PROVE  SafeInv'
<1>1. Goto(p, "writeHeightMarker", "syncHeightMarker") /\ pc[p] = "writeHeightMarker"
      /\ pc'[p] = "syncHeightMarker"
  BY DEF WriteHeightMarker, Goto, Types, Control
<1>2. /\ cur[p] \in Bundles /\ HeightOf[cur[p]] = HeightOfPin(Pin) + 1
      /\ \A bm \in bdir.disk : bm[cur[p]] = cur[p]
  BY <1>1 DEF SafeInv, Progress, Types, Control, CommitSteps
<1>3. Disk' /\ hdir'.vis[HeightOf[cur[p]]] = cur[p]
  <2>1. PICK g : g = HeightOf[cur[p]] OBVIOUS
  <2>2. g \in Heights /\ g > HeightOfPin(Pin) BY <1>2, <2>1, HeightsDir DEF Heights
  <2>3. /\ hdir' = Write(hdir, g, cur[p])
        /\ root' = root /\ bdir' = bdir /\ acked' = acked
    BY <2>1 DEF WriteHeightMarker
  <2>4. Disk' /\ hdir'.vis[g] = cur[p] BY <2>2, <2>3, WriteAbovePin
  <2> QED BY <2>1, <2>4
<1>4. Progress(p)'
  BY <1>1, <1>2, <1>3, StillExtends DEF WriteHeightMarker, Progress, RecoverSteps
<1> QED BY <1>1, <1>3, <1>4, CommitGoto DEF WriteHeightMarker, CommitSteps

\* The marker is forced.
LEMMA SyncHeightMarkerStep ==
    ASSUME Types, SafeInv, NEW p \in Procs, SyncHeightMarker(p)
    PROVE  SafeInv'
<1>1. Goto(p, "syncHeightMarker", "syncHeightsDir") /\ pc[p] = "syncHeightMarker"
      /\ pc'[p] = "syncHeightsDir"
  BY DEF SyncHeightMarker, Goto, Types, Control
<1>2. /\ hdir.vis[HeightOf[cur[p]]] = cur[p]
      /\ \A bm \in bdir.disk : bm[cur[p]] = cur[p]
  BY <1>1 DEF SafeInv, Progress
<1>3. hdir'.vis = hdir.vis /\ hdir'.disk = hdir.disk /\ hdir'.dirty = hdir.dirty \ {HeightOf[cur[p]]}
  BY DEF SyncHeightMarker, SyncFile, Types, DirTypes, Dirs
<1>4. Disk'
  BY <1>3, HeightsDir, DiskHeights DEF SyncHeightMarker, SafeInv, Types
<1>5. Progress(p)'
  BY <1>1, <1>2, <1>3, StillExtends DEF SyncHeightMarker, Progress, RecoverSteps
<1> QED BY <1>1, <1>4, <1>5, CommitGoto DEF SyncHeightMarker, CommitSteps

\* Syncing heights/ leaves the markers as they are.
LEMMA DiskSyncHeights ==
    ASSUME Types, SafeInv, hdir' = SyncDir(hdir), root' = root, bdir' = bdir, acked' = acked
    PROVE  Disk' /\ hdir'.vis = hdir.vis /\ hdir'.disk = {hdir.vis} /\ hdir'.dirty \subseteq hdir.dirty
<1>1. hdir'.vis = hdir.vis /\ hdir'.disk = {hdir.vis} /\ hdir'.dirty \subseteq hdir.dirty
  BY DEF SyncDir
<1> QED BY <1>1, HeightsDir, DiskHeights DEF SafeInv, Types

\* The barrier on heights/: from here the marker is in every map of the disk.
LEMMA SyncHeightsDirStep ==
    ASSUME Types, SafeInv, NEW p \in Procs, SyncHeightsDir(p)
    PROVE  SafeInv'
<1>1. Goto(p, "syncHeightsDir", "writePinTmp") /\ pc[p] = "syncHeightsDir" /\ pc'[p] = "writePinTmp"
  BY DEF SyncHeightsDir, Goto, Types, Control
<1>2. /\ hdir.vis[HeightOf[cur[p]]] = cur[p] /\ HeightOf[cur[p]] \notin hdir.dirty
      /\ \A bm \in bdir.disk : bm[cur[p]] = cur[p]
  BY <1>1 DEF SafeInv, Progress
<1>3. Disk' /\ hdir'.vis = hdir.vis /\ hdir'.disk = {hdir.vis} /\ hdir'.dirty \subseteq hdir.dirty
  BY DiskSyncHeights DEF SyncHeightsDir
<1>4. Progress(p)'
  BY <1>1, <1>2, <1>3, StillExtends DEF SyncHeightsDir, Progress, RecoverSteps
<1> QED BY <1>1, <1>3, <1>4, CommitGoto DEF SyncHeightsDir, CommitSteps

\* A retry repeats the barrier on heights/.
LEMMA ResyncHeightsDirStep ==
    ASSUME Types, SafeInv, NEW p \in Procs, ResyncHeightsDir(p)
    PROVE  SafeInv'
<1>1. Goto(p, "resyncHeightsDir", "resyncDir") /\ pc[p] = "resyncHeightsDir" /\ pc'[p] = "resyncDir"
  BY DEF ResyncHeightsDir, Goto, Types, Control
<1>2. Pin = cur[p]
  BY <1>1 DEF SafeInv, Progress
<1>3. Disk'
  BY DiskSyncHeights DEF ResyncHeightsDir
<1>4. Progress(p)'
  BY <1>1, <1>2 DEF ResyncHeightsDir, Progress, Pin, RecoverSteps
<1> QED BY <1>1, <1>3, <1>4, CommitGoto DEF ResyncHeightsDir, CommitSteps

\* The journal's own directory as the invariant has it.
LEMMA RootDir ==
    ASSUME Types, SafeInv
    PROVE  /\ root.vis \in [RootNames -> Content] /\ root.disk \subseteq [RootNames -> Content]
           /\ HEAD \in RootNames /\ HEADTMP \in RootNames /\ HEAD # HEADTMP
           /\ root.vis \in root.disk /\ HEAD \notin root.dirty
  BY Maps DEF Types, RootNames, HEAD, HEADTMP, SafeInv, Disk, Visible, Heads

\* Writing, syncing or removing HEAD.tmp leaves HEAD alone.
LEMMA DiskPinTmp ==
    ASSUME Types, SafeInv, bdir' = bdir, hdir' = hdir, acked' = acked,
           \/ \E c : root' = Write(root, HEADTMP, c)
           \/ root' = Delete(root, HEADTMP)
           \/ root' = SyncFile(root, HEADTMP)
           \/ root' = SyncDir(root)
    PROVE  Disk' /\ root'.vis[HEAD] = root.vis[HEAD]
<1>1. ASSUME NEW c, root' = Write(root, HEADTMP, c) \/ root' = Delete(root, HEADTMP)
      PROVE  Disk' /\ root'.vis[HEAD] = root.vis[HEAD]
  <2>1. PICK m : /\ root'.vis = m /\ root'.disk = root.disk \cup {m}
                 /\ root'.dirty \subseteq root.dirty \cup {HEADTMP}
                 /\ m[HEAD] = root.vis[HEAD]
    <3>1. CASE root' = Write(root, HEADTMP, c)
      BY <3>1, RootDir DEF Write, Update
    <3>2. CASE root' = Delete(root, HEADTMP)
      BY <3>2, RootDir DEF Delete, Update
    <3> QED BY <1>1, <3>1, <3>2
  <2> QED BY <2>1, RootDir, DiskRoot DEF SafeInv
<1>2. CASE root' = SyncFile(root, HEADTMP)
  <2>1. root'.vis = root.vis /\ root'.disk = root.disk /\ root'.dirty \subseteq root.dirty
    BY <1>2 DEF SyncFile, Types, DirTypes, Dirs
  <2> QED BY <2>1, RootDir, DiskRoot DEF SafeInv
<1>3. CASE root' = SyncDir(root)
  <2>1. root'.vis = root.vis /\ root'.disk = {root.vis} /\ root'.dirty \subseteq root.dirty
    BY <1>3 DEF SyncDir
  <2> QED BY <2>1, RootDir, DiskRoot DEF SafeInv
<1> QED BY <1>1, <1>2, <1>3

\* write_pin_tmp keeps the invariant.
LEMMA WritePinTmpStep ==
    ASSUME Types, SafeInv, NEW p \in Procs, WritePinTmp(p)
    PROVE  SafeInv'
<1>1. Goto(p, "writePinTmp", "syncPinTmp") /\ pc[p] = "writePinTmp" /\ pc'[p] = "syncPinTmp"
  BY DEF WritePinTmp, Goto, Types, Control
<1>2. /\ HeightOf[cur[p]] \notin hdir.dirty
      /\ \A hm \in hdir.disk : hm[HeightOf[cur[p]]] = cur[p]
      /\ \A bm \in bdir.disk : bm[cur[p]] = cur[p]
  BY <1>1 DEF SafeInv, Progress
<1>3. Disk' /\ root'.vis[HEAD] = root.vis[HEAD]
  BY DiskPinTmp DEF WritePinTmp
<1>4. root'.vis[HEADTMP] = cur[p]
  BY RootDir DEF WritePinTmp, Write, Update
<1>5. Progress(p)'
  BY <1>1, <1>2, <1>3, <1>4, StillExtends DEF WritePinTmp, Progress, RecoverSteps
<1> QED BY <1>1, <1>3, <1>5, CommitGoto DEF WritePinTmp, CommitSteps

\* sync_pin_tmp keeps the invariant.
LEMMA SyncPinTmpStep ==
    ASSUME Types, SafeInv, NEW p \in Procs, SyncPinTmp(p)
    PROVE  SafeInv'
<1>1. Goto(p, "syncPinTmp", "renamePin") /\ pc[p] = "syncPinTmp" /\ pc'[p] = "renamePin"
  BY DEF SyncPinTmp, Goto, Types, Control
<1>2. /\ HeightOf[cur[p]] \notin hdir.dirty
      /\ \A hm \in hdir.disk : hm[HeightOf[cur[p]]] = cur[p]
      /\ \A bm \in bdir.disk : bm[cur[p]] = cur[p]
      /\ root.vis[HEADTMP] = cur[p]
  BY <1>1 DEF SafeInv, Progress
<1>3. Disk' /\ root'.vis[HEAD] = root.vis[HEAD]
  BY DiskPinTmp DEF SyncPinTmp
<1>4. root'.vis = root.vis /\ root'.dirty = root.dirty \ {HEADTMP}
  BY DEF SyncPinTmp, SyncFile, Types, DirTypes, Dirs
<1>5. Progress(p)'
  BY <1>1, <1>2, <1>3, <1>4, StillExtends DEF SyncPinTmp, Progress, RecoverSteps
<1> QED BY <1>1, <1>3, <1>5, CommitGoto DEF SyncPinTmp, CommitSteps

\* rename_pin publishes the bundle: the chain grows by a height that the
\* earlier steps have settled.
LEMMA RenamePinStep ==
    ASSUME Types, SafeInv, NEW p \in Procs, RenamePin(p)
    PROVE  SafeInv'
<1>1. Goto(p, "renamePin", "syncDir") /\ pc[p] = "renamePin" /\ pc'[p] = "syncDir"
  BY DEF RenamePin, Goto, Types, Control
<1>2. /\ cur[p] \in Bundles
      /\ HeightOf[cur[p]] = HeightOfPin(Pin) + 1
      /\ PredOf[cur[p]] = FrontierOfPin(Pin)
      /\ HeightOf[cur[p]] \notin hdir.dirty
      /\ \A hm \in hdir.disk : hm[HeightOf[cur[p]]] = cur[p]
      /\ \A bm \in bdir.disk : bm[cur[p]] = cur[p]
      /\ root.vis[HEADTMP] = cur[p] /\ HEADTMP \notin root.dirty
  BY <1>1 DEF SafeInv, Progress, Types, Control, CommitSteps
<1> DEFINE m == [root.vis EXCEPT ![HEAD] = cur[p], ![HEADTMP] = Absent]
<1>3. root'.vis = m /\ root'.disk = root.disk \cup {m} /\ root'.dirty = root.dirty
  BY <1>2 DEF RenamePin, Rename, Update
<1>4. m[HEAD] = cur[p]
  BY RootDir
<1> HIDE DEF m
<1>5. Pin' = cur[p] /\ HeightOfPin(Pin)' = HeightOfPin(Pin) + 1
  BY <1>2, <1>3, <1>4 DEF Pin, HeightOfPin
<1>6. bdir' = bdir /\ hdir' = hdir /\ acked' = acked /\ cur' = cur
  BY DEF RenamePin
<1>7. hdir.vis[HeightOf[cur[p]]] = cur[p]
  BY <1>2, HeightsDir
<1>8. Visible' /\ Named'
  BY <1>3, <1>6 DEF SafeInv, Disk, Visible, Named
<1>9. Heads'
  <2>1. HEAD \notin root'.dirty
    BY <1>3, RootDir
  <2>2. ASSUME NEW rm \in root.disk, rm[HEAD] # Absent
        PROVE  /\ rm[HEAD] \in Bundles /\ HeightOf[rm[HEAD]] <= HeightOfPin(Pin)
               /\ hdir.vis[HeightOf[rm[HEAD]]] = rm[HEAD]
    BY <2>2 DEF SafeInv, Disk, Heads
  <2>3. ASSUME NEW rm \in root'.disk, rm[HEAD] # Absent
        PROVE  /\ rm[HEAD] \in Bundles /\ HeightOf[rm[HEAD]] <= HeightOfPin(Pin) + 1
               /\ hdir.vis[HeightOf[rm[HEAD]]] = rm[HEAD]
    <3>1. CASE rm \in root.disk
      BY <2>2, <2>3, <3>1, HeightsDir
    <3>2. CASE rm = m
      BY <1>2, <1>4, <1>7, <3>2, HeightsDir
    <3> QED BY <1>3, <3>1, <3>2
  <2> QED BY <2>1, <2>3, <1>5, <1>6 DEF Heads
<1>10. Chain'
  <2> SUFFICES ASSUME NEW h \in 1..(HeightOfPin(Pin) + 1) PROVE SettledAt(h)
    BY <1>5, <1>6 DEF Chain, SettledAt
  <2>1. CASE h \in 1..HeightOfPin(Pin)
    BY <2>1 DEF SafeInv, Disk, Chain
  <2>2. CASE h = HeightOfPin(Pin) + 1
    <3>1. Pin # Absent => Pin \in Bundles /\ hdir.vis[HeightOfPin(Pin)] = Pin /\ HeightOfPin(Pin) # 0
      BY PinHeight DEF SafeInv, Types, HeightOfPin
    <3>2. Pin = Absent => HeightOfPin(Pin) = 0 /\ FrontierOfPin(Pin) = GenesisNext
      BY DEF HeightOfPin, FrontierOfPin
    <3>3. PredOf[cur[p]] = IF h = 1 THEN GenesisNext ELSE NextOf[hdir.vis[h - 1]]
      BY <1>2, <2>2, <3>1, <3>2, HeightsDir DEF FrontierOfPin
    <3> QED BY <1>2, <1>7, <2>2, <3>3 DEF SettledAt
  <2> QED BY <2>1, <2>2, HeightsDir
<1>11. Acknowledged'
  <2> SUFFICES ASSUME NEW b \in acked PROVE HeightOf[b] <= HeightOfPin(m[HEAD])
    BY <1>3, <1>6 DEF SafeInv, Disk, Acknowledged, HeightOfPin
  <2>1. HeightOf[b] <= HeightOfPin(Pin) /\ HeightOf[b] \in Int
    BY DEF SafeInv, Disk, Acknowledged, Visible, Pin, Types, HistoryTypes
  <2> QED BY <2>1, <1>2, <1>4, HeightsDir DEF HeightOfPin
<1>12. Progress(p)'
  BY <1>1, <1>5, <1>6 DEF Progress, RecoverSteps
<1> QED BY <1>1, <1>8, <1>9, <1>10, <1>11, <1>12, CommitGoto DEF RenamePin, CommitSteps, Disk

\* The last barrier makes the pin the only HEAD the disk may have, and only
\* then is its bundle acknowledged.
LEMMA AckStep ==
    ASSUME Types, SafeInv, NEW p \in Procs, SyncDirAndAck(p) \/ ResyncDirAndAck(p)
    PROVE  SafeInv'
<1>1. /\ pc[p] \in {"syncDir", "resyncDir"} /\ Return(p) /\ corrupt' = corrupt
      /\ root' = SyncDir(root) /\ bdir' = bdir /\ hdir' = hdir
      /\ acked' = acked \cup {cur[p]}
  BY DEF SyncDirAndAck, ResyncDirAndAck
<1>2. Pin = cur[p] /\ cur[p] \in Bundles
  BY <1>1 DEF SafeInv, Progress, Types, Control, CommitSteps
<1>3. root'.vis = root.vis /\ root'.disk = {root.vis} /\ root'.dirty \subseteq root.dirty
  BY <1>1 DEF SyncDir
<1>4. Pin' = Pin /\ HeightOfPin(Pin)' = HeightOfPin(Pin)
  BY <1>3 DEF Pin, HeightOfPin
<1>5. Visible' /\ Named'
  BY <1>1, <1>3 DEF SafeInv, Disk, Visible, Named
<1>6. Heads'
  BY <1>1, <1>3, <1>4, RootDir DEF SafeInv, Disk, Heads
<1>7. Chain'
  BY <1>1, <1>4 DEF SafeInv, Disk, Chain, SettledAt
<1>8. Acknowledged'
  <2> SUFFICES ASSUME NEW b \in acked \cup {cur[p]}
               PROVE  hdir.vis[HeightOf[b]] = b /\ HeightOf[b] <= HeightOfPin(root.vis[HEAD])
    BY <1>1, <1>3 DEF Acknowledged, HeightOfPin
  <2>1. CASE b \in acked
    BY <2>1, RootDir DEF SafeInv, Disk, Acknowledged
  <2>2. CASE b = cur[p]
    BY <2>2, <1>2, PinHeight DEF SafeInv, Types, Pin, HeightOfPin
  <2> QED BY <2>1, <2>2
<1> QED BY <1>1, <1>5, <1>6, <1>7, <1>8, CommitReturn DEF Disk, CommitSteps

\* commit takes the lock, for which nobody else may be at work.
LEMMA BeginCommitStep ==
    ASSUME Types, SafeInv, NEW p \in Procs, NEW b \in Bundles, BeginCommit(p, b)
    PROVE  SafeInv'
<1>1. \A q \in Procs : pc[q] \notin CommitSteps /\ pc[q] \notin RecoverSteps
  BY DEF BeginCommit, Lock, RecoveryRunning, SafeInv, Exclusive
<1>2. /\ pc' = [pc EXCEPT ![p] = "readPin"] /\ lock' = p /\ corrupt' = corrupt
      /\ root' = root /\ bdir' = bdir /\ hdir' = hdir /\ acked' = acked
  BY DEF BeginCommit, Lock, Goto
<1>3. \A q \in Procs : pc'[q] = IF q = p THEN "readPin" ELSE "idle"
  BY <1>1, <1>2 DEF Types, Control
<1>4. Exclusive'
  BY <1>2, <1>3 DEF Exclusive, CommitSteps, RecoverSteps
<1>5. Disk'
  BY <1>2, DiskSame DEF SafeInv
<1>6. Progress(p)'
  BY <1>3 DEF Progress, RecoverSteps
<1>7. \A q \in Procs : Progress(q)'
  BY <1>3, <1>6, IdleProgress
<1> QED BY <1>2, <1>4, <1>5, <1>7 DEF SafeInv

\* The pin's own record is never damaged, so commit never answers Corrupt.
LEMMA PinIsSound ==
    ASSUME Types, SafeInv
    PROVE  PinIsWhole /\ \A b \in Bundles : PinVerdict(b) # "corrupt"
<1>1. Pin = Absent \/ Pin \in Bundles
  BY PinHeight DEF SafeInv, Types
<1>2. Pin \in Bundles => hdir.vis[HeightOf[Pin]] = Pin /\ bdir.vis[Pin] = Pin
  <2> SUFFICES ASSUME Pin \in Bundles PROVE hdir.vis[HeightOf[Pin]] = Pin /\ bdir.vis[Pin] = Pin
    OBVIOUS
  <2>1. hdir.vis[HeightOf[Pin]] = Pin /\ HeightOf[Pin] \in 1..HeightOfPin(Pin)
    BY PinHeight DEF SafeInv, Types, HeightOfPin
  <2>2. SettledAt(HeightOf[Pin])
    BY <2>1 DEF SafeInv, Disk, Chain
  <2> QED BY <2>1, <2>2, BundlesDir DEF SettledAt
<1>3. PinIsWhole
  BY <1>1, <1>2 DEF PinIsWhole
<1>4. ASSUME NEW b \in Bundles PROVE PinVerdict(b) # "corrupt"
  BY <1>1, <1>2 DEF PinVerdict
<1> QED BY <1>3, <1>4

\* A refused commit changes nothing.
LEMMA RefuseStep ==
    ASSUME Types, SafeInv, NEW p \in Procs, Refuse(p)
    PROVE  SafeInv'
<1>1. pc[p] \in CommitSteps /\ cur[p] \in Bundles
  BY DEF Refuse, CommitSteps, Types, Control
<1>2. PinVerdict(cur[p]) # "corrupt"
  BY <1>1, PinIsSound
<1>3. corrupt' = corrupt
  <2>1. corrupt \in BOOLEAN /\ ~corrupt
    BY Zenon DEF SafeInv, Types, HistoryTypes
  <2>2. corrupt' = (corrupt \/ PinVerdict(cur[p]) = "corrupt")
    BY Zenon DEF Refuse
  <2> QED BY <1>2, <2>1, <2>2, Zenon
<1>4. Disk'
  BY DiskSame DEF Refuse, SafeInv
<1> QED BY <1>1, <1>3, <1>4, CommitReturn DEF Refuse

\* An admitted commit extends the pin or is the pin.
LEMMA AdmitStep ==
    ASSUME Types, SafeInv, NEW p \in Procs, Admit(p)
    PROVE  SafeInv'
<1>1. Disk' /\ cur' = cur /\ lock' = lock /\ corrupt' = corrupt /\ Pin' = Pin
      /\ HeightOfPin(Pin)' = HeightOfPin(Pin) /\ FrontierOfPin(Pin)' = FrontierOfPin(Pin)
  BY DiskSame DEF Admit, SafeInv, Pin, HeightOfPin, FrontierOfPin
<1>2. CASE PinVerdict(cur[p]) = "extend" /\ Goto(p, "readPin", "createBundle")
  <2>1. HeightOf[cur[p]] = HeightOfPin(Pin) + 1 /\ PredOf[cur[p]] = FrontierOfPin(Pin)
    BY <1>2 DEF PinVerdict
  <2>2. pc'[p] = "createBundle"
    BY <1>2 DEF Goto, Types, Control
  <2>3. Progress(p)'
    BY <1>1, <2>1, <2>2 DEF Progress, RecoverSteps
  <2> QED BY <1>1, <1>2, <2>3, CommitGoto DEF CommitSteps
<1>3. CASE PinVerdict(cur[p]) = "retry" /\ Goto(p, "readPin", "resyncBundlesDir")
  <2>1. Pin = cur[p]
    BY <1>3 DEF PinVerdict
  <2>2. pc'[p] = "resyncBundlesDir"
    BY <1>3 DEF Goto, Types, Control
  <2>3. Progress(p)'
    BY <1>1, <2>1, <2>2 DEF Progress, RecoverSteps
  <2> QED BY <1>1, <1>3, <2>3, CommitGoto DEF CommitSteps
<1> QED BY <1>2, <1>3 DEF Admit

\* create_bundle finds exactly its own bytes or nothing.
LEMMA FindBundleStep ==
    ASSUME Types, SafeInv, NEW p \in Procs, FindBundle(p)
    PROVE  SafeInv'
<1>1. pc[p] = "createBundle" /\ cur[p] \in Bundles
  BY DEF FindBundle, Types, Control, CommitSteps
<1>2. bdir.vis[cur[p]] = cur[p]
  BY <1>1, BundlesDir DEF FindBundle
<1>3. Goto(p, "createBundle", "syncBundle") /\ pc'[p] = "syncBundle"
      /\ cur' = cur /\ lock' = lock /\ corrupt' = corrupt
  BY <1>2 DEF FindBundle, Goto, Types, Control
<1>4. Disk'
  BY DiskSame DEF FindBundle, SafeInv
<1>5. Progress(p)'
  BY <1>1, <1>2, <1>3, StillExtends DEF FindBundle, Progress, RecoverSteps
<1> QED BY <1>3, <1>4, <1>5, CommitGoto DEF CommitSteps

\* While a recovery runs, no commit does and every recovery has the pin.
LEMMA RecoverMove ==
    ASSUME Types, SafeInv, NEW p \in Procs, pc[p] \in RecoverSteps,
           NEW to \in RecoverSteps \cup {"idle"}, pc' = [pc EXCEPT ![p] = to],
           NEW c, cur' = [cur EXCEPT ![p] = c],
           to \in RecoverSteps \ {"verifyPin"} => c = Pin,
           Pin' = Pin, Disk', corrupt' = corrupt
    PROVE  SafeInv'
<1>1. \A q \in Procs : pc[q] \in RecoverSteps \cup {"idle"}
  BY DEF SafeInv, Exclusive, Types, Control
<1>2. \A q \in Procs : pc'[q] \in RecoverSteps \cup {"idle"}
  BY <1>1 DEF Types, Control
<1>3. Exclusive'
  BY <1>2 DEF Exclusive, RecoverSteps, CommitSteps
<1>4. ASSUME NEW q \in Procs PROVE Progress(q)'
  <2>1. pc'[q] \in RecoverSteps \ {"verifyPin"} => cur'[q] = Pin'
    BY <1>1 DEF SafeInv, Progress, Types, Control
  <2> QED BY <1>2, <2>1 DEF Progress, RecoverSteps
<1> QED BY <1>3, <1>4 DEF SafeInv

\* recover begins when no commit runs.
LEMMA BeginRecoverStep ==
    ASSUME Types, SafeInv, NEW p \in Procs, BeginRecover(p)
    PROVE  SafeInv'
<1>1. \A q \in Procs : pc[q] \in RecoverSteps \cup {"idle"}
  BY DEF BeginRecover, CommitRunning, Types, Control
<1>2. \A q \in Procs : pc'[q] = IF q = p THEN "verifyPin" ELSE pc[q]
  BY DEF BeginRecover, EnterRecover, Goto, Types, Control
<1>3. Exclusive'
  BY <1>1, <1>2 DEF Exclusive, RecoverSteps, CommitSteps
<1>4. Disk' /\ corrupt' = corrupt /\ cur' = cur /\ Pin' = Pin
  BY DiskSame DEF BeginRecover, EnterRecover, SafeInv, Pin
<1>5. ASSUME NEW q \in Procs PROVE Progress(q)'
  <2>1. pc'[q] \in RecoverSteps \ {"verifyPin"} => cur'[q] = Pin'
    BY <1>2, <1>4 DEF SafeInv, Progress
  <2> QED BY <1>1, <1>2, <2>1 DEF Progress, RecoverSteps
<1> QED BY <1>3, <1>4, <1>5 DEF SafeInv

\* recover finds its pin whole.
LEMMA VerifyPinStep ==
    ASSUME Types, SafeInv, NEW p \in Procs, VerifyPin(p)
    PROVE  SafeInv'
<1>1. pc[p] \in RecoverSteps /\ corrupt' = corrupt
      /\ pc' = [pc EXCEPT ![p] = "removePinTmp"] /\ cur' = [cur EXCEPT ![p] = Pin]
  BY PinIsSound DEF VerifyPin, Goto, RecoverSteps
<1>2. Disk' /\ Pin' = Pin
  BY DiskSame DEF VerifyPin, SafeInv, Pin
<1> QED BY <1>1, <1>2, RecoverMove DEF RecoverSteps

\* recover removes HEAD.tmp, passes the markers and settles both directories.
LEMMA RecoverGotoStep ==
    ASSUME Types, SafeInv, NEW p \in Procs,
           RemovePinTmp(p) \/ MarkersRemoved(p) \/ SettleHeights(p) \/ SettleDir(p)
    PROVE  SafeInv'
<1>1. Disk' /\ corrupt' = corrupt /\ root'.vis[HEAD] = root.vis[HEAD]
  <2>1. CASE RemovePinTmp(p)
    BY <2>1, DiskPinTmp DEF RemovePinTmp
  <2>2. CASE MarkersRemoved(p)
    BY <2>2, DiskSame DEF MarkersRemoved, SafeInv
  <2>3. CASE SettleHeights(p)
    BY <2>3, DiskSyncHeights DEF SettleHeights
  <2>4. CASE SettleDir(p)
    BY <2>4, DiskPinTmp DEF SettleDir
  <2> QED BY <2>1, <2>2, <2>3, <2>4
<1>2. pc[p] \in RecoverSteps \ {"verifyPin"} /\ cur[p] = Pin
  BY DEF RemovePinTmp, MarkersRemoved, SettleHeights, SettleDir, Goto, RecoverSteps,
         SafeInv, Progress
<1>3. CASE ~SettleDir(p)
  <2>1. /\ cur' = [cur EXCEPT ![p] = Pin]
        /\ \E to \in RecoverSteps : pc' = [pc EXCEPT ![p] = to]
    BY <1>2, <1>3 DEF RemovePinTmp, MarkersRemoved, SettleHeights, Goto, RecoverSteps,
                      Types, Control
  <2> QED BY <1>1, <1>2, <2>1, RecoverMove DEF Pin
<1>4. CASE SettleDir(p)
  <2>1. pc' = [pc EXCEPT ![p] = "idle"] /\ cur' = [cur EXCEPT ![p] = Absent] /\ Pin' = Pin
    BY <1>1, <1>4 DEF SettleDir, Return, Pin
  <2>2. "idle" \notin RecoverSteps
    BY DEF RecoverSteps
  <2> QED BY <1>1, <1>2, <2>1, <2>2, RecoverMove
<1> QED BY <1>3, <1>4

\* recover removes only markers above the pin.
LEMMA RemoveMarkerStep ==
    ASSUME Types, SafeInv, NEW p \in Procs, RemoveMarker(p)
    PROVE  SafeInv'
<1>1. pc[p] \in RecoverSteps /\ cur[p] = Pin
  BY DEF RemoveMarker, RecoverSteps, SafeInv, Progress
<1>2. PICK g \in Heights : g > HeightOfPin(Pin) /\ hdir' = Delete(hdir, g)
  <2>1. \E g \in Residue(cur[p]) : hdir' = Delete(hdir, g)
    BY Zenon DEF RemoveMarker
  <2> QED BY <1>1, <2>1 DEF Residue
<1> DEFINE m == [hdir.vis EXCEPT ![g] = Absent]
<1>3. hdir'.vis = m /\ hdir'.disk = hdir.disk \cup {m} /\ hdir'.dirty = hdir.dirty
  BY <1>2 DEF Delete, Update
<1>4. \A h \in 1..HeightOfPin(Pin) : m[h] = hdir.vis[h]
  BY <1>2, HeightsDir DEF Heights
<1> HIDE DEF m
<1>5. Disk' /\ Pin' = Pin
  BY <1>3, <1>4, HeightsDir, DiskHeights DEF RemoveMarker, SafeInv, Types, Pin
<1>6. pc' = [pc EXCEPT ![p] = "removeMarkers"] /\ cur' = [cur EXCEPT ![p] = Pin]
  BY <1>1 DEF RemoveMarker, Types, Control
<1> QED BY <1>1, <1>5, <1>6, RecoverMove DEF RemoveMarker, RecoverSteps

\* A failed call, or a dead process, leaves what it had done.
LEMMA AbandonStep ==
    ASSUME Types, SafeInv, NEW p \in Procs, Abandon(p)
    PROVE  SafeInv'
<1>1. Disk' /\ Pin' = Pin /\ corrupt' = corrupt /\ Return(p)
  BY DiskSame DEF Abandon, SafeInv, Pin
<1>2. CASE pc[p] \in CommitSteps
  BY <1>1, <1>2, CommitReturn
<1>3. CASE pc[p] \in RecoverSteps
  <2>1. pc' = [pc EXCEPT ![p] = "idle"] /\ cur' = [cur EXCEPT ![p] = Absent]
    BY <1>1 DEF Return
  <2>2. "idle" \notin RecoverSteps
    BY DEF RecoverSteps
  <2> QED BY <1>1, <1>3, <2>1, <2>2, RecoverMove
<1> QED BY <1>2, <1>3 DEF Abandon, Types, Control

\* A write cut short leaves its part under a name no chain uses yet.
LEMMA AbandonWriteStep ==
    ASSUME Types, SafeInv, NEW p \in Procs, AbandonWrite(p)
    PROVE  SafeInv'
<1>1. pc[p] \in CommitSteps /\ Return(p) /\ corrupt' = corrupt /\ acked' = acked
  BY DEF AbandonWrite, CommitSteps
<1>2. CASE bdir' = Write(Delete(bdir, Scratch), Scratch, Torn) /\ root' = root /\ hdir' = hdir
  <2> DEFINE m1 == [bdir.vis EXCEPT ![Scratch] = Absent]
             m2 == [m1 EXCEPT ![Scratch] = Torn]
  <2>1. bdir'.vis = m2 /\ bdir'.disk = bdir.disk \cup {m1, m2}
        /\ bdir'.dirty = bdir.dirty \cup {Scratch}
    BY <1>2 DEF Write, Delete, Update
  <2>2. \A b \in Bundles : m1[b] = bdir.vis[b] /\ m2[b] = bdir.vis[b]
    BY BundlesDir
  <2> HIDE DEF m1, m2
  <2>3. Disk'
    BY <1>1, <1>2, <2>1, <2>2, BundlesDir, DiskBundles DEF SafeInv, Types
  <2> QED BY <1>1, <2>3, CommitReturn
<1>3. CASE /\ pc[p] = "writeHeightMarker" /\ hdir' = Write(hdir, HeightOf[cur[p]], Torn)
           /\ root' = root /\ bdir' = bdir
  <2>1. HeightOf[cur[p]] \in Heights /\ HeightOf[cur[p]] > HeightOfPin(Pin)
    <3>1. cur[p] \in Bundles /\ HeightOf[cur[p]] = HeightOfPin(Pin) + 1
      BY <1>3, <1>1 DEF SafeInv, Progress, Types, Control
    <3> QED BY <3>1, HeightsDir DEF Heights
  <2>2. Disk'
    BY <1>1, <1>3, <2>1, WriteAbovePin
  <2> QED BY <1>1, <2>2, CommitReturn
<1>4. CASE root' = Write(root, HEADTMP, Torn) /\ bdir' = bdir /\ hdir' = hdir
  <2>1. Disk'
    BY <1>1, <1>4, DiskPinTmp
  <2> QED BY <1>1, <2>1, CommitReturn
<1> QED BY <1>2, <1>3, <1>4 DEF AbandonWrite

\* A power loss may move HEAD down the chain, but it takes nothing of the
\* chain under any HEAD the disk may have.
LEMMA PowerLossStep ==
    ASSUME Types, SafeInv, PowerLoss
    PROVE  SafeInv'
<1>1. PICK rm \in root.disk, rt \in SUBSET root.dirty : root' = Stored(Tear(rm, rt))
  BY DEF PowerLoss, PowerLossOutcomes
<1>2. PICK bm \in bdir.disk, bt \in SUBSET bdir.dirty : bdir' = Stored(Tear(bm, bt))
  BY DEF PowerLoss, PowerLossOutcomes
<1>3. PICK hm \in hdir.disk, ht \in SUBSET hdir.dirty : hdir' = Stored(Tear(hm, ht))
  BY DEF PowerLoss, PowerLossOutcomes
<1>4. /\ root'.disk = {root'.vis} /\ root'.dirty = {} /\ root'.vis[HEAD] = rm[HEAD]
  BY <1>1, RootDir DEF Stored, Tear
<1>5. /\ bdir'.disk = {bdir'.vis} /\ bdir'.dirty = {}
      /\ \A b \in Bundles : bdir'.vis[b] = bm[b]
  BY <1>2, BundlesDir DEF Stored, Tear
<1>6. /\ hdir'.disk = {hdir'.vis} /\ hdir'.dirty = {}
      /\ \A h \in 1..HeightOfPin(Pin) : hdir'.vis[h] = hdir.vis[h]
  BY <1>3, HeightsDir DEF Stored, Tear
<1>7. /\ acked' = acked /\ corrupt' = corrupt
      /\ \A p \in Procs : pc'[p] = "idle"
  BY DEF PowerLoss
<1>8. Pin' = rm[HEAD] /\ HeightOfPin(Pin)' = HeightOfPin(rm[HEAD])
  BY <1>4 DEF Pin, HeightOfPin
<1>9. HeightOfPin(rm[HEAD]) \in 0..HeightOfPin(Pin)
  BY HeightsDir DEF SafeInv, Disk, Heads, HeightOfPin
<1>10. Visible' /\ Named'
  BY <1>4, <1>5, <1>6, BundlesDir DEF Visible, Named
<1>11. Heads'
  <2> SUFFICES ASSUME rm[HEAD] # Absent
               PROVE  rm[HEAD] \in Bundles /\ HeightOf[rm[HEAD]] <= HeightOfPin(rm[HEAD])
                      /\ hdir'.vis[HeightOf[rm[HEAD]]] = rm[HEAD]
    BY <1>4, <1>8 DEF Heads
  <2>1. rm[HEAD] \in Bundles /\ HeightOf[rm[HEAD]] <= HeightOfPin(Pin)
        /\ hdir.vis[HeightOf[rm[HEAD]]] = rm[HEAD]
    BY DEF SafeInv, Disk, Heads
  <2> QED BY <2>1, <1>6, HeightsDir DEF HeightOfPin
<1>12. Chain'
  <2> SUFFICES ASSUME NEW h \in 1..HeightOfPin(rm[HEAD]) PROVE SettledAt(h)'
    BY <1>8 DEF Chain
  <2>1. h \in 1..HeightOfPin(Pin) /\ (h # 1 => h - 1 \in 1..HeightOfPin(Pin))
    BY <1>9, HeightsDir
  <2>2. SettledAt(h)
    BY <2>1 DEF SafeInv, Disk, Chain
  <2>3. hdir'.vis[h] = hdir.vis[h] /\ (h # 1 => hdir'.vis[h - 1] = hdir.vis[h - 1])
    BY <2>1, <1>6
  <2>4. bdir'.vis[hdir.vis[h]] = hdir.vis[h]
    BY <2>2, <1>5 DEF SettledAt
  <2> QED BY <2>2, <2>3, <2>4, <1>5, <1>6 DEF SettledAt
<1>13. Acknowledged'
  <2> SUFFICES ASSUME NEW b \in acked
               PROVE  hdir'.vis[HeightOf[b]] = b /\ HeightOf[b] <= HeightOfPin(rm[HEAD])
    BY <1>4, <1>7, <1>8 DEF Acknowledged, HeightOfPin
  <2>1. hdir.vis[HeightOf[b]] = b /\ HeightOf[b] <= HeightOfPin(rm[HEAD])
        /\ HeightOf[b] <= HeightOfPin(Pin)
    BY RootDir DEF SafeInv, Disk, Acknowledged, Pin
  <2>2. HeightOf[b] \in 1..HeightOfPin(Pin)
    BY <2>1, HeightsDir DEF Types, HistoryTypes
  <2> QED BY <2>1, <2>2, <1>6
<1>14. Exclusive'
  BY <1>7 DEF Exclusive, CommitSteps
<1>15. \A p \in Procs : Progress(p)'
  BY <1>7, IdleProgress
<1> QED BY <1>7, <1>10, <1>11, <1>12, <1>13, <1>14, <1>15 DEF SafeInv, Disk

\* The inductive invariant is inductive.
LEMMA SafeStep ==
    ASSUME Types, SafeInv, [Next]_vars
    PROVE  SafeInv'
<1>1. ASSUME NEW p \in Procs, CommitStep(p) PROVE SafeInv'
  BY <1>1, RefuseStep, AdmitStep, FindBundleStep, StageBundleStep, SyncScratchStep,
     LinkBundleStep, UnlinkScratchStep, SyncBundleStep, SyncBundlesDirStep,
     WriteHeightMarkerStep, SyncHeightMarkerStep, SyncHeightsDirStep, WritePinTmpStep,
     SyncPinTmpStep, RenamePinStep, AckStep, ResyncHeightsDirStep DEF CommitStep
<1>2. ASSUME NEW p \in Procs, RecoverStep(p) PROVE SafeInv'
  BY <1>2, VerifyPinStep, RecoverGotoStep, RemoveMarkerStep DEF RecoverStep
<1>3. ASSUME UNCHANGED vars PROVE SafeInv'
  <2>1. Disk' /\ corrupt' = corrupt
    BY <1>3, DiskSame DEF vars, SafeInv
  <2>2. Exclusive'
    BY <1>3 DEF vars, SafeInv, Exclusive
  <2>3. ASSUME NEW p \in Procs PROVE Progress(p)'
    BY <1>3 DEF vars, SafeInv, Progress, Pin, HeightOfPin, FrontierOfPin
  <2> QED BY <2>1, <2>2, <2>3 DEF SafeInv
<1> QED BY <1>1, <1>2, <1>3, BeginCommitStep, BeginRecoverStep, AbandonStep,
           AbandonWriteStep, PowerLossStep DEF Next, LiveNext, Step

\* It holds of an empty journal directory.
LEMMA SafeInit ==
    ASSUME Init
    PROVE  Types /\ SafeInv
<1>1. Types
  <2>1. \A N : [n \in N |-> Absent] \in [N -> Content]
    BY DEF Content
  <2>2. DirTypes
    BY <2>1, DirStored DEF Init, DirTypes
  <2>3. Control
    BY DEF Init, Control, CommitSteps
  <2>4. corrupt \in BOOLEAN /\ acked = {} /\ faults = 0
    BY Zenon DEF Init
  <2> QED BY <2>2, <2>3, <2>4 DEF Types, HistoryTypes
<1>2. ~corrupt /\ acked = {}
  BY Zenon DEF Init
<1>3. /\ root.vis = [n \in RootNames |-> Absent] /\ root.disk = {root.vis} /\ root.dirty = {}
      /\ bdir.vis = [n \in BundleNames |-> Absent] /\ bdir.disk = {bdir.vis} /\ bdir.dirty = {}
      /\ hdir.disk = {hdir.vis}
  BY DEF Init, Stored
<1>4. Pin = Absent /\ HeightOfPin(Pin) = 0
  BY <1>3 DEF Pin, HeightOfPin, RootNames
<1>5. Visible /\ Heads /\ Named
  BY <1>3, <1>4 DEF Visible, Heads, Named, Pin, BundleNames
<1>6. Chain /\ Acknowledged
  BY <1>2, <1>4 DEF Chain, Acknowledged
<1>7. \A p \in Procs : pc[p] = "idle"
  BY DEF Init
<1>8. Exclusive /\ \A p \in Procs : Progress(p)
  BY <1>7 DEF Exclusive, Progress, CommitSteps, RecoverSteps
<1> QED BY <1>1, <1>2, <1>5, <1>6, <1>8 DEF SafeInv, Disk

\* Tearing dirty files touches no name that is clean.
LEMMA CleanNames ==
    ASSUME NEW N, NEW V, NEW d \in Dirs(N, V), d.vis \in d.disk,
           NEW m \in AnyDisk(d) \cup {d.vis}
    PROVE  \E k \in d.disk : \A n \in N : n \notin d.dirty => m[n] = k[n]
<1>1. CASE m = d.vis
  BY <1>1
<1>2. CASE m \in AnyDisk(d)
  <2>1. PICK k \in d.disk, t \in SUBSET d.dirty : m = Tear(k, t)
    BY <1>2 DEF AnyDisk
  <2>2. DOMAIN k = N
    BY DEF Dirs
  <2>3. \A n \in N : n \notin d.dirty => m[n] = k[n]
    BY <2>1, <2>2 DEF Tear
  <2> QED BY <2>3
<1> QED BY <1>1, <1>2

\* What every map a directory may keep has in common, under the invariant.
LEMMA AnyMaps ==
    ASSUME Types, SafeInv
    PROVE  /\ \A rm \in AnyDisk(root) \cup {root.vis} : \E k \in root.disk : rm[HEAD] = k[HEAD]
           /\ \A bm \in AnyDisk(bdir) \cup {bdir.vis} :
                 \E k \in bdir.disk : \A b \in Bundles : bm[b] = k[b]
           /\ \A hm \in AnyDisk(hdir) \cup {hdir.vis}, h \in 1..HeightOfPin(Pin) :
                 hm[h] = hdir.vis[h]
<1>0. root \in Dirs(RootNames, Content) /\ bdir \in Dirs(BundleNames, Content)
      /\ hdir \in Dirs(Heights, Content)
  BY DEF Types, DirTypes
<1>1. ASSUME NEW rm \in AnyDisk(root) \cup {root.vis}
      PROVE  \E k \in root.disk : rm[HEAD] = k[HEAD]
  <2>1. PICK k \in root.disk : \A n \in RootNames : n \notin root.dirty => rm[n] = k[n]
    BY <1>0, RootDir, CleanNames
  <2> QED BY <2>1, RootDir
<1>2. ASSUME NEW bm \in AnyDisk(bdir) \cup {bdir.vis}
      PROVE  \E k \in bdir.disk : \A b \in Bundles : bm[b] = k[b]
  <2>1. PICK k \in bdir.disk : \A n \in BundleNames : n \notin bdir.dirty => bm[n] = k[n]
    BY <1>0, BundlesDir, CleanNames
  <2> QED BY <2>1, BundlesDir
<1>3. ASSUME NEW hm \in AnyDisk(hdir) \cup {hdir.vis}, NEW h \in 1..HeightOfPin(Pin)
      PROVE  hm[h] = hdir.vis[h]
  <2>1. PICK k \in hdir.disk : \A n \in Heights : n \notin hdir.dirty => hm[n] = k[n]
    BY <1>0, HeightsDir, CleanNames
  <2> QED BY <2>1, HeightsDir
<1> QED BY <1>1, <1>2, <1>3

\* The chain under any HEAD the disk may keep is whole in every map of the
\* other two directories.
LEMMA EvidenceFromInv ==
    ASSUME Types, SafeInv
    PROVE  PinHasItsEvidence
<1> SUFFICES ASSUME NEW rm \in AnyDisk(root) \cup {root.vis},
                    NEW bm \in AnyDisk(bdir) \cup {bdir.vis},
                    NEW hm \in AnyDisk(hdir) \cup {hdir.vis}
             PROVE  EvidenceOf(rm[HEAD], bm, hm)
  BY Zenon DEF PinHasItsEvidence
<1> SUFFICES ASSUME rm[HEAD] # Absent PROVE EvidenceOf(rm[HEAD], bm, hm)
  BY Zenon DEF EvidenceOf
<1>1. /\ rm[HEAD] \in Bundles /\ HeightOf[rm[HEAD]] \in 1..HeightOfPin(Pin)
      /\ hdir.vis[HeightOf[rm[HEAD]]] = rm[HEAD]
  <2>1. PICK k \in root.disk : rm[HEAD] = k[HEAD]
    BY AnyMaps
  <2>2. rm[HEAD] \in Bundles /\ HeightOf[rm[HEAD]] <= HeightOfPin(Pin)
        /\ hdir.vis[HeightOf[rm[HEAD]]] = rm[HEAD]
    BY <2>1 DEF SafeInv, Disk, Heads
  <2> QED BY <2>2, HeightsDir
<1>2. hm[HeightOf[rm[HEAD]]] = rm[HEAD]
  BY <1>1, AnyMaps
<1>3. ASSUME NEW h \in 1..HeightOf[rm[HEAD]]
      PROVE  /\ hm[h] \in Bundles
             /\ HeightOf[hm[h]] = h
             /\ bm[hm[h]] = hm[h]
             /\ PredOf[hm[h]] = IF h = 1 THEN GenesisNext ELSE NextOf[hm[h - 1]]
  <2>1. h \in 1..HeightOfPin(Pin) /\ (h # 1 => h - 1 \in 1..HeightOfPin(Pin))
    BY <1>1, HeightsDir
  <2>2. hm[h] = hdir.vis[h] /\ (h # 1 => hm[h - 1] = hdir.vis[h - 1])
    BY <2>1, AnyMaps
  <2>3. SettledAt(h)
    BY <2>1 DEF SafeInv, Disk, Chain
  <2>4. bm[hm[h]] = hm[h]
    BY <2>2, <2>3, AnyMaps DEF SettledAt
  <2> QED BY <2>2, <2>3, <2>4 DEF SettledAt
<1> QED BY <1>1, <1>2, <1>3 DEF EvidenceOf

\* Every HEAD the disk may keep is at or above an acknowledged bundle, so that
\* bundle is in the chain.
LEMMA AckedFromInv ==
    ASSUME Types, SafeInv
    PROVE  AckedSurvives
<1> SUFFICES ASSUME NEW b \in acked
             PROVE  /\ \A rm \in AnyDisk(root) : HeightOfPin(rm[HEAD]) >= HeightOf[b]
                    /\ \A hm \in AnyDisk(hdir) : hm[HeightOf[b]] = b
                    /\ \A bm \in AnyDisk(bdir) : bm[b] = b
  BY DEF AckedSurvives
<1>1. b \in Bundles /\ hdir.vis[HeightOf[b]] = b
      /\ \A k \in root.disk : HeightOf[b] <= HeightOfPin(k[HEAD])
  BY DEF Types, HistoryTypes, SafeInv, Disk, Acknowledged
<1>2. HeightOf[b] \in 1..HeightOfPin(Pin)
  BY <1>1, RootDir, HeightsDir DEF Pin
<1>3. ASSUME NEW rm \in AnyDisk(root) PROVE HeightOfPin(rm[HEAD]) >= HeightOf[b]
  <2>1. PICK k \in root.disk : rm[HEAD] = k[HEAD]
    BY AnyMaps
  <2>2. HeightOfPin(rm[HEAD]) = HeightOfPin(k[HEAD]) /\ HeightOfPin(k[HEAD]) \in Int
    BY <2>1 DEF HeightOfPin
  <2> QED BY <1>1, <2>2
<1>4. ASSUME NEW hm \in AnyDisk(hdir) PROVE hm[HeightOf[b]] = b
  BY <1>1, <1>2, AnyMaps
<1>5. ASSUME NEW bm \in AnyDisk(bdir) PROVE bm[b] = b
  <2>1. SettledAt(HeightOf[b])
    BY <1>2 DEF SafeInv, Disk, Chain
  <2> QED BY <1>1, <2>1, AnyMaps DEF SettledAt
<1> QED BY <1>3, <1>4, <1>5

\* The invariant holds in every state.
LEMMA SafeAlways == Spec => [](Types /\ SafeInv)
<1>1. Init => Types /\ SafeInv
  BY SafeInit
<1>2. Types /\ SafeInv /\ [Next]_vars => (Types /\ SafeInv)'
  BY TypeStep, SafeStep DEF Types
<1> QED BY <1>1, <1>2, PTL DEF Spec

\* A pin never outruns its evidence: whichever HEAD, bundles/ and heights/ a
\* power loss leaves, commit's barriers have put the whole chain under that
\* HEAD on the disk.
THEOREM EvidenceHolds == Spec => []PinHasItsEvidence
<1>1. Types /\ SafeInv => PinHasItsEvidence
  BY EvidenceFromInv
<1> QED BY <1>1, SafeAlways, PTL

\* What commit acknowledged, as Committed or as AlreadyCommitted, no failure
\* and no power loss takes back.
THEOREM AcksSurvive == Spec => []AckedSurvives
<1>1. Types /\ SafeInv => AckedSurvives
  BY AckedFromInv
<1> QED BY <1>1, SafeAlways, PTL

\* Neither commit nor recover ever answers Corrupt on a journal that only its
\* own code writes, however often it was cut short.
THEOREM NoCorruption == Spec => []NeverCorrupt
<1>1. Types /\ SafeInv => NeverCorrupt
  BY DEF SafeInv, NeverCorrupt
<1> QED BY <1>1, SafeAlways, PTL

-----------------------------------------------------------------------------
(* Steps of the journal and the chain under HEAD.                          *)

\* The markers up to HEAD stay as they are.
Kept == \A h \in 1..HeightOfPin(Pin) : hdir'.vis[h] = hdir.vis[h]

\* HEAD moves to the next height.
Extended(b) ==
    /\ Pin' = b
    /\ hdir' = hdir /\ acked' = acked
    /\ HeightOf[b] = HeightOfPin(Pin) + 1
    /\ PredOf[b] = FrontierOfPin(Pin)
    /\ hdir.vis[HeightOf[b]] = b

\* A write to a name of heights/ leaves the other names alone, and so does a
\* removal; syncing changes no name.
LEMMA HeightsVisible ==
    ASSUME Types, NEW h \in Heights, NEW v \in Content, NEW k \in Heights, k # h
    PROVE  /\ Write(hdir, h, v).vis[k] = hdir.vis[k]
           /\ Delete(hdir, h).vis[k] = hdir.vis[k]
  BY Maps DEF Types, Write, Delete, Update

\* A change of HEAD.tmp is no change of HEAD.
LEMMA PinTmpVisible ==
    ASSUME Types, NEW v \in Content
    PROVE  /\ Write(root, HEADTMP, v).vis[HEAD] = root.vis[HEAD]
           /\ Delete(root, HEADTMP).vis[HEAD] = root.vis[HEAD]
  BY Maps DEF Types, Write, Delete, Update, HEAD, HEADTMP, RootNames

\* Steps of a commit in progress.
LEMMA CommitKeeps ==
    ASSUME Types, SafeInv, NEW p \in Procs, CommitStep(p)
    PROVE  \/ Kept /\ Pin' = Pin /\ (acked' = acked \/ (Pin \in Bundles /\ acked' = acked \cup {Pin}))
           \/ \E b \in Bundles : Extended(b)
<1>0. /\ Absent \in Content /\ Torn \in Content /\ Bundles \subseteq Content
      /\ HEAD \in RootNames /\ HEADTMP \in RootNames /\ HEAD # HEADTMP
      /\ 1..HeightOfPin(Pin) \subseteq Heights
      /\ HeightOfPin(Pin) \in 0..MaxHeight
      /\ \A x \in Bundles : HeightOf[x] \in Heights
  BY PinHeight DEF Types, SafeInv, Content, RootNames, HEAD, HEADTMP, Heights
<1>c. pc[p] \in CommitSteps => cur[p] \in Bundles
  BY DEF Types, Control
<1>p. Progress(p)
  BY DEF SafeInv
<1>1. ASSUME hdir' = hdir, root' = root, acked' = acked
      PROVE  Kept /\ Pin' = Pin
  BY <1>1 DEF Kept, Pin
<1>2. CASE Refuse(p) \/ Admit(p) \/ FindBundle(p) \/ StageBundle(p) \/ SyncScratch(p)
           \/ LinkBundle(p) \/ UnlinkScratch(p) \/ SyncBundle(p) \/ SyncBundlesDir(p)
           \/ ResyncBundlesDir(p)
  BY <1>1, <1>2 DEF Refuse, Admit, FindBundle, StageBundle, SyncScratch, LinkBundle,
     UnlinkScratch, SyncBundle, SyncBundlesDir, ResyncBundlesDir
<1>3. CASE WriteHeightMarker(p)
  <2>1. pc[p] \in ExtendingSteps /\ cur[p] \in Bundles
    BY <1>3, <1>c DEF WriteHeightMarker, Goto, CommitSteps, ExtendingSteps, MarkingSteps
  <2>2. HeightOf[cur[p]] = HeightOfPin(Pin) + 1
    BY <2>1, <1>p DEF Progress
  <2>3. Kept
    BY <2>1, <2>2, <1>0, <1>3, HeightsVisible DEF Kept, WriteHeightMarker
  <2> QED BY <1>3, <2>3 DEF WriteHeightMarker, Pin
<1>4. CASE SyncHeightMarker(p) \/ SyncHeightsDir(p) \/ ResyncHeightsDir(p)
  <2>1. hdir'.vis = hdir.vis
    BY <1>4, Maps DEF SyncHeightMarker, SyncHeightsDir, ResyncHeightsDir, SyncFile, SyncDir, Types,
       DirTypes, Dirs
  <2> QED BY <1>4, <2>1 DEF SyncHeightMarker, SyncHeightsDir, ResyncHeightsDir, Kept, Pin
<1>5. CASE WritePinTmp(p)
  <2>1. cur[p] \in Bundles
    BY <1>5, <1>c DEF WritePinTmp, Goto, CommitSteps
  <2> QED BY <1>0, <1>5, <2>1, PinTmpVisible DEF WritePinTmp, Kept, Pin
<1>6. CASE SyncPinTmp(p)
  <2>1. root'.vis = root.vis
    BY <1>6 DEF SyncPinTmp, SyncFile, Types, DirTypes, Dirs
  <2> QED BY <1>6, <2>1 DEF SyncPinTmp, Kept, Pin
<1>7. CASE RenamePin(p)
  <2>1. pc[p] = "renamePin" /\ cur[p] \in Bundles
    BY <1>7, <1>c DEF RenamePin, Goto, CommitSteps
  <2>2. /\ HeightOf[cur[p]] = HeightOfPin(Pin) + 1 /\ PredOf[cur[p]] = FrontierOfPin(Pin)
        /\ root.vis[HEADTMP] = cur[p]
        /\ \A hm \in hdir.disk : hm[HeightOf[cur[p]]] = cur[p]
    BY <2>1, <1>p DEF Progress, ExtendingSteps, PinningSteps
  <2>3. root'.vis[HEAD] = root.vis[HEADTMP]
    BY <1>0, <1>7, Maps DEF RenamePin, Rename, Update, Types
  <2>4. hdir.vis \in hdir.disk
    BY DEF SafeInv, Disk, Visible
  <2>5. Extended(cur[p])
    BY <1>7, <2>2, <2>3, <2>4 DEF Extended, RenamePin, Pin
  <2> QED BY <2>1, <2>5
<1>8. CASE SyncDirAndAck(p) \/ ResyncDirAndAck(p)
  <2>1. pc[p] \in PinnedSteps /\ cur[p] \in Bundles
    BY <1>8, <1>c DEF SyncDirAndAck, ResyncDirAndAck, PinnedSteps, CommitSteps
  <2>2. Pin = cur[p]
    BY <2>1, <1>p DEF Progress
  <2>3. root'.vis = root.vis
    BY <1>8 DEF SyncDirAndAck, ResyncDirAndAck, SyncDir
  <2> QED BY <1>8, <2>1, <2>2, <2>3 DEF SyncDirAndAck, ResyncDirAndAck, Kept, Pin
<1> QED BY <1>2, <1>3, <1>4, <1>5, <1>6, <1>7, <1>8 DEF CommitStep

\* Steps of a recovery: only markers above HEAD go.
LEMMA RecoverKeeps ==
    ASSUME Types, SafeInv, NEW p \in Procs, RecoverStep(p)
    PROVE  Kept /\ Pin' = Pin /\ acked' = acked
<1>0. /\ Absent \in Content /\ HEAD \in RootNames /\ HEADTMP \in RootNames /\ HEAD # HEADTMP
      /\ 1..HeightOfPin(Pin) \subseteq Heights
      /\ HeightOfPin(Pin) \in 0..MaxHeight
  BY PinHeight DEF Types, SafeInv, Content, RootNames, HEAD, HEADTMP
<1>1. CASE VerifyPin(p) \/ MarkersRemoved(p)
  BY <1>1 DEF VerifyPin, MarkersRemoved, Kept, Pin
<1>2. CASE RemovePinTmp(p)
  BY <1>0, <1>2, PinTmpVisible DEF RemovePinTmp, Kept, Pin
<1>3. CASE RemoveMarker(p)
  <2>1. cur[p] = Pin
    BY <1>3 DEF RemoveMarker, SafeInv, Progress, RecoverSteps
  <2>2. PICK h \in Heights : h > HeightOfPin(Pin) /\ hdir' = Delete(hdir, h)
    BY <1>3, <2>1 DEF RemoveMarker, Residue
  <2>3. Kept
    BY <1>0, <2>2, HeightsVisible DEF Kept, Heights
  <2> QED BY <1>3, <2>3 DEF RemoveMarker, Pin
<1>4. CASE SettleHeights(p)
  <2>1. hdir'.vis = hdir.vis
    BY <1>4 DEF SettleHeights, SyncDir
  <2> QED BY <1>4, <2>1 DEF SettleHeights, Kept, Pin
<1>5. CASE SettleDir(p)
  <2>1. root'.vis = root.vis
    BY <1>5 DEF SettleDir, SyncDir
  <2> QED BY <1>5, <2>1 DEF SettleDir, Kept, Pin
<1> QED BY <1>1, <1>2, <1>3, <1>4, <1>5 DEF RecoverStep

\* A call that begins or is abandoned, even inside a write.
LEMMA EdgeKeeps ==
    ASSUME Types, SafeInv, NEW p \in Procs,
           (\E b \in Bundles : BeginCommit(p, b)) \/ BeginRecover(p) \/ Abandon(p) \/ AbandonWrite(p)
    PROVE  Kept /\ Pin' = Pin /\ acked' = acked
<1>0. /\ Absent \in Content /\ Torn \in Content /\ HEAD # HEADTMP
      /\ 1..HeightOfPin(Pin) \subseteq Heights
      /\ HeightOfPin(Pin) \in 0..MaxHeight
      /\ \A x \in Bundles : HeightOf[x] \in Heights
  BY PinHeight DEF Types, SafeInv, Content, HEAD, HEADTMP, Heights
<1>1. CASE (\E b \in Bundles : BeginCommit(p, b)) \/ BeginRecover(p) \/ Abandon(p)
  BY <1>1 DEF BeginCommit, Lock, BeginRecover, EnterRecover, Abandon, Kept, Pin
<1>2. CASE AbandonWrite(p)
  <2>1. CASE UNCHANGED <<root, hdir>>
    BY <1>2, <2>1 DEF AbandonWrite, Kept, Pin
  <2>2. CASE pc[p] = "writeHeightMarker" /\ hdir' = Write(hdir, HeightOf[cur[p]], Torn)
             /\ UNCHANGED root
    <3>1. pc[p] \in ExtendingSteps /\ cur[p] \in Bundles
      BY <2>2 DEF Types, Control, CommitSteps, ExtendingSteps, MarkingSteps
    <3>2. HeightOf[cur[p]] = HeightOfPin(Pin) + 1
      BY <3>1 DEF SafeInv, Progress
    <3>3. Kept
      BY <1>0, <2>2, <3>1, <3>2, HeightsVisible DEF Kept
    <3> QED BY <1>2, <2>2, <3>3 DEF AbandonWrite, Pin
  <2>3. CASE root' = Write(root, HEADTMP, Torn) /\ UNCHANGED hdir
    BY <1>0, <1>2, <2>3, PinTmpVisible DEF AbandonWrite, Kept, Pin
  <2> QED BY <1>2, <2>1, <2>2, <2>3 DEF AbandonWrite
<1> QED BY <1>1, <1>2

\* While the machine stays up the chain under HEAD is kept, or grows by the
\* bundle of one commit; what is acknowledged is its tip.
LEMMA LiveKeeps ==
    ASSUME Types, SafeInv, LiveNext
    PROVE  \/ Kept /\ Pin' = Pin /\ (acked' = acked \/ (Pin \in Bundles /\ acked' = acked \cup {Pin}))
           \/ \E b \in Bundles : Extended(b)
  BY CommitKeeps, RecoverKeeps, EdgeKeeps DEF LiveNext, Step

\* A power loss leaves a HEAD of the chain, at or above every acknowledged
\* bundle, and the chain under it.
LEMMA LossKeeps ==
    ASSUME Types, SafeInv, PowerLoss
    PROVE  /\ HeightOfPin(Pin') <= HeightOfPin(Pin)
           /\ \A h \in 1..HeightOfPin(Pin') : hdir'.vis[h] = hdir.vis[h]
           /\ acked' = acked
           /\ \A b \in acked : HeightOf[b] <= HeightOfPin(Pin') /\ hdir.vis[HeightOf[b]] = b
<1>1. /\ root'.vis \in AnyDisk(root) /\ hdir'.vis \in AnyDisk(hdir) /\ acked' = acked
  BY DEF PowerLoss, PowerLossOutcomes, AnyDisk, Stored
<1>2. PICK k \in root.disk : root'.vis[HEAD] = k[HEAD]
  BY <1>1, AnyMaps
<1>3. HeightOfPin(Pin) \in 0..MaxHeight
  BY PinHeight DEF Types, SafeInv
<1>4. HeightOfPin(Pin') \in 0..MaxHeight /\ HeightOfPin(Pin') <= HeightOfPin(Pin)
  <2>1. CASE k[HEAD] = Absent
    BY <1>2, <1>3, <2>1 DEF HeightOfPin, Pin
  <2>2. CASE k[HEAD] # Absent
    BY <1>2, <1>3, <2>2 DEF SafeInv, Disk, Heads, HeightOfPin, Pin
  <2> QED BY <2>1, <2>2
<1>5. \A h \in 1..HeightOfPin(Pin') : hdir'.vis[h] = hdir.vis[h]
  BY <1>1, <1>3, <1>4, AnyMaps
<1>6. ASSUME NEW b \in acked
      PROVE  HeightOf[b] <= HeightOfPin(Pin') /\ hdir.vis[HeightOf[b]] = b
  BY <1>2, <1>6 DEF SafeInv, Disk, Acknowledged, HeightOfPin, Pin
<1> QED BY <1>1, <1>4, <1>5, <1>6

-----------------------------------------------------------------------------
(* Journal implements CommitLog.                                           *)

\* The published log is a sequence of bundles as long as HEAD is high.
LEMMA LogIsSeq ==
    ASSUME Types, SafeInv
    PROVE  /\ HeightOfPin(Pin) \in Nat
           /\ PublishedLog \in Seq(Bundles)
           /\ Len(PublishedLog) = HeightOfPin(Pin)
           /\ \A i \in 1..HeightOfPin(Pin) : PublishedLog[i] = hdir.vis[i]
           /\ Pin = Absent \/ Pin \in Bundles
           /\ Pin \in Bundles => /\ HeightOfPin(Pin) = HeightOf[Pin]
                                 /\ HeightOf[Pin] \in 1..HeightOfPin(Pin)
                                 /\ PublishedLog[HeightOf[Pin]] = Pin
<1>1. HeightOfPin(Pin) \in Nat
  BY PinHeight DEF Types, SafeInv
<1>2. \A h \in 1..HeightOfPin(Pin) : hdir.vis[h] \in Bundles
  BY DEF SafeInv, Disk, Chain, SettledAt
<1>3. PublishedLog \in Seq(Bundles) /\ Len(PublishedLog) = HeightOfPin(Pin)
  BY <1>1, <1>2 DEF PublishedLog
<1>4. \A i \in 1..HeightOfPin(Pin) : PublishedLog[i] = hdir.vis[i]
  BY DEF PublishedLog
<1>5. /\ Pin = Absent \/ Pin \in Bundles
      /\ Pin \in Bundles => hdir.vis[HeightOf[Pin]] = Pin /\ HeightOfPin(Pin) = HeightOf[Pin]
  BY PinHeight DEF Types, SafeInv, HeightOfPin
<1>6. Pin \in Bundles => HeightOf[Pin] \in 1..HeightOfPin(Pin)
  BY <1>5
<1> QED BY <1>1, <1>3, <1>4, <1>5, <1>6

\* The frontier of the published log is the pin's.
LEMMA LogFrontier ==
    ASSUME Types, SafeInv
    PROVE  Abstract!Frontier(PublishedLog) = FrontierOfPin(Pin)
<1>1. CASE Pin \in Bundles
  <2>1. PublishedLog # <<>> /\ PublishedLog[Len(PublishedLog)] = Pin
    BY <1>1, LogIsSeq
  <2> QED BY <1>1, <2>1 DEF Abstract!Frontier, FrontierOfPin
<1>2. CASE Pin \notin Bundles
  <2>1. Len(PublishedLog) = 0
    BY <1>2, LogIsSeq DEF HeightOfPin
  <2>2. PublishedLog = <<>>
    BY <2>1, LogIsSeq
  <2> QED BY <1>2, <2>2 DEF Abstract!Frontier, FrontierOfPin
<1> QED BY <1>1, <1>2

\* The first n elements of a sequence.
LEMMA PrefixIsSubSeq ==
    ASSUME NEW S, NEW s \in Seq(S), NEW n \in 0..Len(s)
    PROVE  [i \in 1..n |-> s[i]] = SubSeq(s, 1, n)
  OBVIOUS

\* A step of the journal is a step of the log or leaves it alone.
LEMMA LogStep ==
    ASSUME Types, SafeInv, Types', SafeInv', [Next]_vars
    PROVE  [Abstract!Next]_(Abstract!vars)
<1>1. ASSUME Kept, Pin' = Pin PROVE PublishedLog' = PublishedLog
  BY <1>1 DEF Kept, PublishedLog
<1>2. ASSUME NEW b \in Bundles, Extended(b) PROVE Abstract!Publish(b)
  <2>1. /\ HeightOfPin(Pin') = HeightOfPin(Pin) + 1
        /\ PublishedLog' = [h \in 1..HeightOfPin(Pin) + 1 |-> hdir.vis[h]]
    BY <1>2, LogIsSeq DEF Extended, HeightOfPin, PublishedLog
  <2>2. PublishedLog' = Append(PublishedLog, b)
    BY <1>2, <2>1, LogIsSeq DEF Extended, PublishedLog
  <2> QED BY <1>2, <2>2, LogIsSeq, LogFrontier DEF Extended, Abstract!Publish
<1>3. ASSUME Kept, Pin' = Pin, Pin \in Bundles, acked' = acked \cup {Pin} PROVE Abstract!Acknowledge
  <2>1. PublishedLog # <<>> /\ PublishedLog[Len(PublishedLog)] = Pin
    BY <1>3, LogIsSeq
  <2> QED BY <1>1, <1>3, <2>1 DEF Abstract!Acknowledge
<1>4. CASE LiveNext
  <2>1. CASE \E b \in Bundles : Extended(b)
    BY <1>2, <2>1 DEF Abstract!Next
  <2>2. CASE Kept /\ Pin' = Pin /\ acked' = acked
    BY <1>1, <2>2 DEF Abstract!vars
  <2>3. CASE Kept /\ Pin' = Pin /\ Pin \in Bundles /\ acked' = acked \cup {Pin}
    BY <1>3, <2>3 DEF Abstract!Next
  <2> QED BY <1>4, <2>1, <2>2, <2>3, LiveKeeps
<1>5. CASE PowerLoss
  <2> DEFINE n == HeightOfPin(Pin')
  <2>1. n \in 0..Len(PublishedLog) /\ HeightOfPin(Pin)' = n
    <3>1. HeightOfPin(Pin') \in Nat
      BY DEF HeightOfPin
    <3>2. HeightOfPin(Pin') = HeightOfPin(Pin)'
      BY DEF HeightOfPin
    <3> QED BY <1>5, <3>1, <3>2, LossKeeps, LogIsSeq
  <2>2. PublishedLog' = [h \in 1..n |-> hdir.vis[h]]
    BY <1>5, <2>1, LossKeeps DEF PublishedLog
  <2>3. PublishedLog' = SubSeq(PublishedLog, 1, n)
    <3>1. PublishedLog' = [h \in 1..n |-> PublishedLog[h]]
      BY <2>1, <2>2, LogIsSeq
    <3> QED BY <2>1, <3>1, LogIsSeq, PrefixIsSubSeq
  <2>4. acked \subseteq {PublishedLog[i] : i \in 1..n}
    <3> SUFFICES ASSUME NEW b \in acked PROVE \E i \in 1..n : PublishedLog[i] = b
      OBVIOUS
    <3>1. b \in Bundles /\ HeightOf[b] \in 1..n
      BY <1>5, <2>1, LossKeeps DEF Types, HistoryTypes
    <3>2. HeightOf[b] \in 1..HeightOfPin(Pin) /\ hdir.vis[HeightOf[b]] = b
      BY <1>5, <2>1, <3>1, LossKeeps, LogIsSeq
    <3> QED BY <3>1, <3>2, LogIsSeq
  <2>5. Abstract!Forget(n)
    BY <1>5, <2>3, <2>4, LossKeeps DEF Abstract!Forget
  <2> QED BY <2>1, <2>5 DEF Abstract!Next
<1>6. CASE UNCHANGED vars
  <2>1. PublishedLog' = PublishedLog /\ acked' = acked
    BY <1>6 DEF vars, PublishedLog, Pin
  <2> QED BY <2>1 DEF Abstract!vars
<1> QED BY <1>4, <1>5, <1>6 DEF Next

\* The journal keeps the promise of CommitLog: a commit adds one bundle at the
\* tip, an acknowledgement is of the tip, and a power loss forgets at most a
\* tail that nobody was told about; no other call and no failure changes the log
\* that readers and retries see.
THEOREM Implements == Spec => ImplementsCommitLog
<1>1. Init => Abstract!Init
  <2>1. Init => Pin = Absent /\ acked = {}
    BY DEF Init, Pin, Stored, HEAD, RootNames
  <2>2. Pin = Absent => HeightOfPin(Pin) = 0
    BY DEF HeightOfPin
  <2>3. HeightOfPin(Pin) = 0 => PublishedLog = <<>>
    BY DEF PublishedLog
  <2> QED BY <2>1, <2>2, <2>3 DEF Abstract!Init
<1>2. Types /\ SafeInv /\ (Types /\ SafeInv)' /\ [Next]_vars => [Abstract!Next]_(Abstract!vars)
  BY LogStep
<1> QED BY <1>1, <1>2, SafeAlways, PTL DEF Spec, ImplementsCommitLog, Abstract!Spec

-----------------------------------------------------------------------------
(* The lock-free reader.                                                   *)

\* Where a read stands: what it has read, and how far its page can go.
ReadProgress ==
    /\ rpc \in {"idle", "pin", "tipMarker", "tip", "height", "bundle"}
    /\ request \in Requests
    /\ head \in Bundles \cup {Absent}
    /\ marker \in Bundles \cup {Absent}
    /\ page \in Seq(Bundles)
    /\ follower \in [height : 0..MaxHeight, frontier : Frontiers]
    /\ fault = FALSE
    /\ rpc \in {"idle", "pin"} => head = Absent /\ page = <<>>
    /\ rpc \in {"tipMarker", "tip"} => head \in Bundles /\ page = <<>>
    /\ rpc \in {"height", "bundle"} => NextAfter <= HeightOfPin(head)
    /\ rpc = "bundle" => marker \in Bundles /\ NextAfter < HeightOfPin(head)

\* What it has read is under the HEAD of now, at its height.
ReadIsCurrent ==
    /\ head \in Bundles => /\ HeightOf[head] <= HeightOfPin(Pin)
                           /\ hdir.vis[HeightOf[head]] = head
    /\ \A i \in 1..Len(page) : /\ request.after + i <= HeightOfPin(Pin)
                               /\ page[i] = hdir.vis[request.after + i]
    /\ rpc = "bundle" => marker = hdir.vis[NextAfter + 1]

ReaderInv == ReadProgress /\ ReadIsCurrent

\* The chain under HEAD grows or stays: what the reader has stays current.
LEMMA WriterStep ==
    ASSUME Types, SafeInv, ReaderInv, LiveNext, UNCHANGED readerVars
    PROVE  ReaderInv'
<1>0. HeightOfPin(Pin) \in 0..MaxHeight /\ HeightOfPin(head) \in Nat
  BY PinHeight DEF Types, SafeInv, HeightOfPin
<1>1. /\ HeightOfPin(Pin') \in Nat /\ HeightOfPin(Pin') >= HeightOfPin(Pin)
      /\ \A h \in 1..HeightOfPin(Pin) : hdir'.vis[h] = hdir.vis[h]
  BY <1>0, LiveKeeps DEF Kept, Extended, HeightOfPin
<1>2. ReadProgress'
  BY DEF ReaderInv, ReadProgress, readerVars, NextAfter
<1>3. head' \in Bundles => HeightOf[head'] <= HeightOfPin(Pin') /\ hdir'.vis[HeightOf[head']] = head'
  BY <1>0, <1>1 DEF ReaderInv, ReadIsCurrent, readerVars
<1>4. ASSUME NEW i \in 1..Len(page')
      PROVE  request'.after + i <= HeightOfPin(Pin') /\ page'[i] = hdir'.vis[request'.after + i]
  <2>1. page' = page /\ request' = request /\ i \in 1..Len(page) /\ Len(page) \in Nat
        /\ request.after \in Nat
    BY <1>4 DEF readerVars, ReaderInv, ReadProgress, Requests
  <2>2. request.after + i <= HeightOfPin(Pin) /\ page[i] = hdir.vis[request.after + i]
    BY <2>1 DEF ReaderInv, ReadIsCurrent
  <2>3. request.after + i \in 1..HeightOfPin(Pin)
    BY <1>0, <2>1, <2>2
  <2> QED BY <1>0, <1>1, <2>1, <2>2, <2>3
<1>5. rpc' = "bundle" => marker' = hdir'.vis[NextAfter' + 1]
  <2> SUFFICES ASSUME rpc = "bundle" PROVE marker = hdir'.vis[NextAfter + 1]
    BY DEF readerVars, NextAfter
  <2>1. NextAfter \in Nat /\ NextAfter < HeightOfPin(head) /\ marker = hdir.vis[NextAfter + 1]
    BY DEF ReaderInv, ReadProgress, ReadIsCurrent, Requests, NextAfter
  <2>2. HeightOfPin(head) <= HeightOfPin(Pin)
    BY <1>0 DEF ReaderInv, ReadProgress, ReadIsCurrent, HeightOfPin
  <2>3. NextAfter + 1 \in 1..HeightOfPin(Pin)
    BY <1>0, <2>1, <2>2
  <2> QED BY <1>1, <2>1, <2>3
<1> QED BY <1>2, <1>3, <1>4, <1>5 DEF ReaderInv, ReadIsCurrent

\* A read that ends without fault leaves nothing behind.
LEMMA StopStep ==
    ASSUME ReaderInv, Stop(FALSE)
    PROVE  ReaderInv'
<1>1. /\ rpc' = "idle" /\ head' = Absent /\ marker' = Absent /\ page' = <<>> /\ fault' = FALSE
      /\ request' = request /\ follower' = follower /\ Len(page') = 0
  BY DEF Stop, ReaderInv, ReadProgress
<1>2. ReadProgress'
  BY <1>1 DEF ReaderInv, ReadProgress
<1> QED BY <1>1, <1>2 DEF ReaderInv, ReadIsCurrent

\* A page that ends before the head leaves the follower at a height there is.
LEMMA DeliverStep ==
    ASSUME Types, SafeInv, ReaderInv, rpc \in {"height", "bundle"}, Deliver
    PROVE  ReaderInv'
<1>1. /\ rpc' = "idle" /\ head' = Absent /\ marker' = Absent /\ page' = <<>> /\ fault' = FALSE
      /\ request' = request /\ Len(page') = 0
  BY DEF Deliver, ReaderInv, ReadProgress
<1>2. follower' \in [height : 0..MaxHeight, frontier : Frontiers]
  <2>1. NextAfter \in 0..MaxHeight
    BY DEF ReaderInv, ReadProgress, NextAfter, HeightOfPin, Requests
  <2>2. page # <<>> => NextOf[page[Len(page)]] \in Frontiers
    BY DEF ReaderInv, ReadProgress
  <2> QED BY <2>1, <2>2 DEF Deliver, ReaderInv, ReadProgress
<1>3. ReadProgress'
  BY <1>1, <1>2 DEF ReaderInv, ReadProgress
<1> QED BY <1>1, <1>3 DEF ReaderInv, ReadIsCurrent

\* The steps of one read: none of them finds the journal in between two states.
LEMMA ReadStep ==
    ASSUME Types, SafeInv, ReaderInv, Read, UNCHANGED vars
    PROVE  ReaderInv'
<1>t. /\ Len(page) \in Nat /\ request.after \in Nat /\ NextAfter \in Nat
      /\ NextAfter = request.after + Len(page)
  BY DEF ReaderInv, ReadProgress, Requests, NextAfter
<1>a. \A a, n \in Nat : a + (n + 1) = (a + n) + 1
  OBVIOUS
<1>p. HeightOfPin(Pin) \in 0..MaxHeight /\ Pin \in Bundles \cup {Absent}
  BY PinHeight DEF Types, SafeInv
<1>0. /\ HeightOfPin(Pin) \in 0..MaxHeight /\ HeightOfPin(head) \in 0..MaxHeight
      /\ HeightOfPin(head) <= HeightOfPin(Pin)
      /\ NextAfter \in Nat /\ Len(page) \in Nat /\ request.after \in Nat /\ Pin \in Bundles \cup {Absent}
      /\ Pin' = Pin /\ hdir' = hdir
  <2>1. Pin' = Pin /\ hdir' = hdir
    BY DEF vars, Pin
  <2>2. HeightOfPin(head) \in 0..MaxHeight /\ HeightOfPin(head) <= HeightOfPin(Pin)
    BY <1>p DEF HeightOfPin, ReaderInv, ReadIsCurrent
  <2> QED BY <1>t, <1>p, <2>1, <2>2
<1>c. \A h \in 1..HeightOfPin(Pin) :
         /\ hdir.vis[h] \in Bundles /\ HeightOf[hdir.vis[h]] = h
         /\ PredOf[hdir.vis[h]] = IF h = 1 THEN GenesisNext ELSE NextOf[hdir.vis[h - 1]]
         /\ bdir.vis[hdir.vis[h]] = hdir.vis[h]
  BY DEF SafeInv, Disk, Visible, Chain, SettledAt
<1>h. head \in Bundles => /\ HeightOf[head] \in 1..HeightOfPin(Pin) /\ HeightOfPin(head) = HeightOf[head]
                          /\ hdir.vis[HeightOf[head]] = head /\ bdir.vis[head] = head
  <2>1. head \in Bundles => HeightOf[head] \in 1..HeightOfPin(Pin) /\ hdir.vis[HeightOf[head]] = head
    BY <1>0 DEF ReaderInv, ReadIsCurrent
  <2> QED BY <1>c, <2>1 DEF HeightOfPin
<1>1. CASE \E e \in {NoFrontier, follower.frontier}, limits \in PageLimits :
              BeginRead(e, limits[1], limits[2])
  <2>1. PICK e \in {NoFrontier, follower.frontier}, limits \in PageLimits :
              BeginRead(e, limits[1], limits[2])
    BY <1>1
  <2>2. request' \in Requests
    BY <2>1 DEF BeginRead, Requests, ReaderInv, ReadProgress
  <2>3. rpc' = "pin" /\ head' = Absent /\ marker' = marker /\ page' = <<>> /\ fault' = FALSE
        /\ follower' = follower /\ Len(page') = 0
    BY <2>1 DEF BeginRead, ReaderInv, ReadProgress
  <2>4. ReadProgress'
    BY <2>2, <2>3 DEF ReaderInv, ReadProgress
  <2> QED BY <2>3, <2>4 DEF ReaderInv, ReadIsCurrent
<1>2. CASE ReadHead
  <2>1. Pin # Torn /\ page = <<>> /\ Len(page) = 0 /\ head = Absent
    BY <1>0, <1>2 DEF ReadHead, ReaderInv, ReadProgress
  <2>2. CASE Stop(FALSE)
    BY <2>2, StopStep
  <2>3. CASE /\ ~(Pin = Absent /\ CursorConflict(Pin)) /\ head' = Pin
             /\ rpc' = IF Pin = Absent THEN "height" ELSE "tipMarker"
             /\ UNCHANGED <<request, marker, page, follower, fault>>
    <3>1. Pin = Absent => request.after <= 0 /\ HeightOfPin(Pin) = 0
      BY <1>0, <2>3 DEF CursorConflict, HeightOfPin
    <3>2. ReadProgress'
      BY <1>0, <2>1, <2>3, <3>1 DEF ReaderInv, ReadProgress, NextAfter, HeightOfPin
    <3>3. Pin \in Bundles => hdir.vis[HeightOf[Pin]] = Pin /\ HeightOf[Pin] = HeightOfPin(Pin)
      BY PinHeight DEF Types, SafeInv, HeightOfPin
    <3>4. ReadIsCurrent'
      BY <1>0, <2>1, <2>3, <3>3 DEF ReadIsCurrent
    <3> QED BY <3>2, <3>4 DEF ReaderInv
  <2> QED BY <1>2, <2>1, <2>2, <2>3 DEF ReadHead
<1>3. CASE ReadTipMarker
  <2>1. head \in Bundles /\ page = <<>>
    BY <1>3 DEF ReadTipMarker, ReaderInv, ReadProgress
  <2>2. rpc' = "tip" /\ UNCHANGED <<request, head, marker, page, follower, fault>>
    BY <1>3, <1>h, <2>1 DEF ReadTipMarker
  <2> QED BY <1>0, <2>1, <2>2 DEF ReaderInv, ReadProgress, ReadIsCurrent
<1>4. CASE ReadTip
  <2>1. head \in Bundles /\ page = <<>> /\ Len(page) = 0
    BY <1>4 DEF ReadTip, ReaderInv, ReadProgress
  <2>2. CASE Stop(FALSE)
    BY <2>2, StopStep
  <2>3. CASE /\ ~CursorConflict(head) /\ rpc' = "height"
             /\ UNCHANGED <<request, head, marker, page, follower, fault>>
    <3>1. NextAfter <= HeightOfPin(head)
      BY <1>0, <2>1, <2>3 DEF CursorConflict, NextAfter
    <3>2. ReadProgress'
      BY <2>3, <3>1 DEF ReaderInv, ReadProgress, NextAfter
    <3>3. ReadIsCurrent'
      BY <1>0, <2>3 DEF ReaderInv, ReadIsCurrent
    <3> QED BY <3>2, <3>3 DEF ReaderInv
  <2> QED BY <1>4, <1>h, <2>1, <2>2, <2>3 DEF ReadTip
<1>5. CASE PageFull
  BY <1>5, DeliverStep DEF PageFull
<1>6. CASE ReadMarker
  <2> DEFINE id == IF NextAfter + 1 = HeightOfPin(head) THEN head ELSE hdir.vis[NextAfter + 1]
  <2>1. NextAfter < HeightOfPin(head) /\ rpc = "height"
    BY <1>6 DEF ReadMarker, PageOpen
  <2>2. head \in Bundles /\ NextAfter + 1 \in 1..HeightOfPin(Pin)
    BY <1>0, <2>1 DEF HeightOfPin
  <2>3. id = hdir.vis[NextAfter + 1] /\ id \in Bundles
    BY <1>c, <1>h, <2>2
  <2>4. marker' = id /\ rpc' = "bundle" /\ UNCHANGED <<request, head, page, follower, fault>>
    BY <1>6, <2>3 DEF ReadMarker
  <2>5. ReadProgress'
    BY <2>1, <2>3, <2>4 DEF ReaderInv, ReadProgress, NextAfter
  <2>6. ReadIsCurrent'
    BY <1>0, <2>3, <2>4 DEF ReaderInv, ReadIsCurrent, NextAfter
  <2> QED BY <2>5, <2>6 DEF ReaderInv
<1>7. CASE ReadBundle
  <2>1. /\ marker \in Bundles /\ NextAfter < HeightOfPin(head) /\ marker = hdir.vis[NextAfter + 1]
        /\ rpc = "bundle" /\ NextAfter + 1 \in 1..HeightOfPin(Pin)
    BY <1>0, <1>7 DEF ReadBundle, ReaderInv, ReadProgress, ReadIsCurrent
  <2>2. bdir.vis[marker] = marker /\ HeightOf[marker] = NextAfter + 1
    BY <1>c, <2>1
  <2>3. page # <<>> => Expected = PredOf[marker]
    <3> SUFFICES ASSUME page # <<>> PROVE NextOf[page[Len(page)]] = PredOf[marker]
      BY DEF Expected
    <3>1. Len(page) \in 1..Len(page)
      BY <1>0 DEF ReaderInv, ReadProgress
    <3>2. page[Len(page)] = hdir.vis[NextAfter] /\ NextAfter + 1 # 1
      BY <1>0, <3>1 DEF ReaderInv, ReadIsCurrent, NextAfter
    <3> QED BY <1>0, <1>c, <2>1, <3>2
  <2>4. CASE Stop(FALSE)
    BY <2>4, StopStep
  <2>5. CASE Deliver
    BY <2>1, <2>5, DeliverStep
  <2>6. CASE /\ page' = Append(page, marker) /\ rpc' = "height" /\ marker' = Absent
             /\ UNCHANGED <<request, head, follower, fault>>
    <3>1. /\ page' \in Seq(Bundles) /\ Len(page') = Len(page) + 1
          /\ \A i \in 1..Len(page) : page'[i] = page[i]
          /\ page'[Len(page) + 1] = marker
      BY <2>1, <2>6 DEF ReaderInv, ReadProgress
    <3>2. NextAfter' = NextAfter + 1
      <4>1. NextAfter' = request.after + (Len(page) + 1)
        BY <2>6, <3>1 DEF NextAfter
      <4> QED BY <1>t, <4>1
    <3>3. ReadProgress'
      BY <1>0, <2>1, <2>6, <3>1, <3>2 DEF ReaderInv, ReadProgress
    <3>4. ASSUME NEW i \in 1..Len(page')
          PROVE  request.after + i <= HeightOfPin(Pin) /\ page'[i] = hdir.vis[request.after + i]
      <4>1. CASE i \in 1..Len(page)
        BY <3>1, <4>1 DEF ReaderInv, ReadIsCurrent
      <4>2. CASE i = Len(page) + 1
        <5>1. request.after + i = NextAfter + 1
          BY <1>t, <1>a, <4>2
        <5> QED BY <2>1, <3>1, <4>2, <5>1
      <4> QED BY <1>0, <3>1, <3>4, <4>1, <4>2
    <3>5. ReadIsCurrent'
      BY <1>0, <2>6, <3>4 DEF ReaderInv, ReadIsCurrent
    <3> QED BY <3>3, <3>5 DEF ReaderInv
  <2> QED BY <1>7, <2>2, <2>3, <2>4, <2>5, <2>6 DEF ReadBundle
<1> QED BY <1>1, <1>2, <1>3, <1>4, <1>5, <1>6, <1>7 DEF Read, ReaderStep

\* The reader adds nothing to what happens to the journal.
LEMMA ReaderObserves == ReaderSpec => Spec
<1>1. ReaderInit => Init
  BY DEF ReaderInit
<1>2. [ReaderNext]_<<vars, readerVars>> => [Next]_vars
  BY DEF ReaderNext, Next
<1> QED BY <1>1, <1>2, PTL DEF ReaderSpec, Spec

\* A reader that takes no lock is sound beside every writer: it never meets a
\* missing marker, a missing bundle, a broken link or a damaged pin, and all it
\* has collected is published at its height although the log may have grown.
THEOREM ReaderIsSound == ReaderSpec => []ReadsAreSound
<1>1. ReaderInit => ReaderInv
  <2> SUFFICES ASSUME ReaderInit PROVE ReaderInv
    OBVIOUS
  <2>1. request \in Requests
    BY DEF ReaderInit, Requests
  <2>2. Len(page) = 0
    BY DEF ReaderInit
  <2> QED BY <2>1, <2>2 DEF ReaderInit, ReaderInv, ReadProgress, ReadIsCurrent
<1>2. Types /\ SafeInv /\ ReaderInv /\ [ReaderNext]_<<vars, readerVars>> => ReaderInv'
  <2> SUFFICES ASSUME Types, SafeInv, ReaderInv, [ReaderNext]_<<vars, readerVars>> PROVE ReaderInv'
    OBVIOUS
  <2>1. CASE UNCHANGED <<vars, readerVars>>
    BY <2>1 DEF vars, readerVars, ReaderInv, ReadProgress, ReadIsCurrent, NextAfter, Pin
  <2> QED BY <2>1, ReadStep, WriterStep, StopStep DEF ReaderNext
<1>3. Types /\ SafeInv /\ ReaderInv => ReadsNeverFault /\ PageIsPublished
  <2> SUFFICES ASSUME Types, SafeInv, ReaderInv PROVE PageIsPublished
    BY DEF ReaderInv, ReadProgress, ReadsNeverFault
  <2>1. /\ Len(PublishedLog) = HeightOfPin(Pin) /\ HeightOfPin(Pin) \in Nat
        /\ \A i \in 1..HeightOfPin(Pin) : PublishedLog[i] = hdir.vis[i]
    BY LogIsSeq
  <2>2. head \in Bundles => HeightOf[head] \in 1..HeightOfPin(Pin) /\ hdir.vis[HeightOf[head]] = head
    BY <2>1 DEF ReaderInv, ReadIsCurrent
  <2>3. ASSUME NEW i \in 1..Len(page)
        PROVE  request.after + i \in 1..HeightOfPin(Pin) /\ page[i] = hdir.vis[request.after + i]
    <3>1. request.after \in Nat /\ Len(page) \in Nat
      BY DEF ReaderInv, ReadProgress, Requests
    <3> QED BY <2>1, <2>3, <3>1 DEF ReaderInv, ReadIsCurrent
  <2>4. head \in Bundles => /\ HeightOf[head] <= Len(PublishedLog)
                            /\ PublishedLog[HeightOf[head]] = head
    BY <2>1, <2>2
  <2>5. ASSUME NEW i \in 1..Len(page)
        PROVE  request.after + i <= Len(PublishedLog) /\ page[i] = PublishedLog[request.after + i]
    <3>1. request.after + i \in 1..HeightOfPin(Pin) /\ page[i] = hdir.vis[request.after + i]
      BY <2>3, <2>5
    <3> QED BY <2>1, <3>1
  <2> QED BY <2>4, <2>5 DEF PageIsPublished
<1>4. TypeOK /\ ReaderInv => ReaderTypeOK
  BY DEF ReaderInv, ReadProgress, ReaderTypeOK, Content
<1>5. ReaderSpec => [](Types /\ SafeInv) /\ []TypeOK
  BY ReaderObserves, SafeAlways, TypeCorrect, PTL
<1>6. ReadsAreSound <=> ReaderTypeOK /\ ReadsNeverFault /\ PageIsPublished
  BY DEF ReadsAreSound
<1> QED BY <1>1, <1>2, <1>3, <1>4, <1>5, <1>6, PTL DEF ReaderSpec
=============================================================================
