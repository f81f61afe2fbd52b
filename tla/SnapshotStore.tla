--------------------------- MODULE SnapshotStore ---------------------------
(***************************************************************************)
(* The snapshot stores of the room registry and of the social archive      *)
(* (crates/vhalla-rooms-store, crates/vhalla-social-store), which run one  *)
(* publication protocol: a checksummed intent decides, then the snapshot   *)
(* and the pin that names it are put in place, then the intent goes.  One  *)
(* process holds the store's exclusive lock from open to close; the store  *)
(* object survives an I/O error and may be asked again.                    *)
(*                                                                         *)
(* A snapshot is a version; is_extension_of is the order on versions,      *)
(* which is transitive (for the registry it is not reflexive).  A pin is a *)
(* generation and a version.  A partly written file is a prefix of what    *)
(* was being written.                                                      *)
(***************************************************************************)
EXTENDS Integers, FiniteSets, DurableDir

CONSTANTS Versions,     \* complete snapshots
          First,        \* the snapshot Store::create pins
          Extends,      \* <<w, v>>: w.is_extension_of(v)
          MaxGen,       \* bound: generations published
          MaxFaults,    \* bound: errors, deaths and power losses
          MAX_FILES,    \* directory entry ceiling
          NoVersion     \* recover: no candidate of the caller's

ASSUME StoreAssumption ==
    /\ First \in Versions
    /\ Extends \subseteq Versions \X Versions
    /\ \A u, v, w \in Versions :
          <<w, v>> \in Extends /\ <<v, u>> \in Extends => <<w, u>> \in Extends
    /\ MaxGen \in Nat
    /\ MaxFaults \in Nat
    /\ MAX_FILES \in Nat /\ MAX_FILES >= 8
    /\ NoVersion \notin Versions

PIN == "pin"
INTENT == "intent"
INTENT_TEMP == "intent.tmp"
BUNDLE_TEMP == "bundle.tmp"
PIN_TEMP == "pin.tmp"

\* A bundle's file is named by its digest: by the version it holds.
Names == {PIN, INTENT, INTENT_TEMP, BUNDLE_TEMP, PIN_TEMP} \cup Versions

Pins    == [gen : 0..MaxGen, ver : Versions]
Intents == [expected : Pins, ver : Versions]
Whole   == Pins \cup Intents \cup Versions
Cuts    == [cut : Whole]
Cut(c)  == IF c \in Cuts THEN c ELSE [cut |-> c]
Content == Whole \cup Cuts \cup {Absent}

ASSUME NamesAssumption ==
    /\ Versions \cap {PIN, INTENT, INTENT_TEMP, BUNDLE_TEMP, PIN_TEMP} = {}
    /\ \A v \in Versions : v \notin Cuts
    /\ Absent \notin Whole \cup Cuts

NextPin(i) == [gen |-> i.expected.gen + 1, ver |-> i.ver]
NoIntent   == [expected |-> [gen |-> 0, ver |-> First], ver |-> First]

VARIABLES dir,      \* the store's directory
          pc,       \* "closed", "open" or the next step of the call
          pin,      \* Store::pin, with Store::registry / Store::archive
          intent,   \* the intent in hand
          after,    \* what follows the clean-up: "ack" or "newIntent"
          acked,    \* history: pins a Publication was returned for
          faults    \* faults so far

vars == <<dir, pc, pin, intent, after, acked, faults>>

Steps == {"promoteSync", "promoteRename", "promoteDir", "discard", "discardDir",
          "decide", "cleanup", "cleanupDir", "writeIntent", "syncIntent",
          "renameIntent", "intentDir", "resyncIntent", "resyncDir", "bundle",
          "syncBundleTemp", "renameBundle", "bundleDir", "pin", "syncPinTemp",
          "renamePin", "pinDir", "readback", "intentGoneDir"}

TypeOK ==
    /\ dir \in Dirs(Names, Content)
    /\ pc \in {"closed", "open"} \cup Steps
    /\ pin \in Pins
    /\ intent \in [expected : Pins, ver : Versions \cup {NoVersion}]
    /\ after \in {"ack", "newIntent"}
    /\ acked \subseteq Pins
    /\ faults \in 0..MaxFaults

\* The directory Store::create leaves once it has returned.
Init ==
    /\ dir = Stored([n \in Names |-> IF n = PIN THEN [gen |-> 0, ver |-> First]
                                     ELSE IF n = First THEN First ELSE Absent])
    /\ pc = "closed"
    /\ pin = [gen |-> 0, ver |-> First]
    /\ intent = NoIntent
    /\ after = "ack"
    /\ acked = {}
    /\ faults = 0

-----------------------------------------------------------------------------
(* What a directory map m says, given the pin p the store object holds.    *)

Has(m, n) == m[n] # Absent

\* inventory: every entry is one of the known names; the lock file counts too.
Inventory(m) == Cardinality({n \in Names : Has(m, n)}) + 1 <= MAX_FILES

\* audit_copies and the first pass of cleanup_obsolete: every other copy is
\* whole and part of the pinned history, or is the one the intent publishes.
CopiesAudit(m, p, next) ==
    \A v \in Versions \ {p.ver, next} :
        Has(m, v) => m[v] = v /\ <<p.ver, v>> \in Extends

\* validate_staged_intent: unpublished scratch before any later effect.  A torn
\* one must begin like an intent on this pin.
StagedIsSound(m, p) ==
    /\ ~Has(m, INTENT) /\ ~Has(m, BUNDLE_TEMP) /\ ~Has(m, PIN_TEMP)
    /\ CopiesAudit(m, p, p.ver)
    /\ m[INTENT_TEMP] \in Intents \cup [cut : Intents]
    /\ LET i == IF m[INTENT_TEMP] \in Cuts THEN m[INTENT_TEMP].cut ELSE m[INTENT_TEMP]
       IN  i.expected = p /\ <<i.ver, p.ver>> \in Extends

\* validate_intent: a complete intent on this pin, or one this pin resolves,
\* that extends the retained predecessor.
IntentIsSound(m, p) ==
    /\ m[INTENT] \in Intents
    /\ p \in {m[INTENT].expected, NextPin(m[INTENT])}
    /\ m[m[INTENT].expected.ver] = m[INTENT].expected.ver
    /\ <<m[INTENT].ver, m[INTENT].expected.ver>> \in Extends

\* Store::open reads the pin and its snapshot and checks what else is there.
Opens(m) ==
    /\ m[PIN] \in Pins
    /\ m[m[PIN].ver] = m[PIN].ver
    /\ Inventory(m)
    /\ Has(m, INTENT_TEMP) => StagedIsSound(m, m[PIN])
    /\ IF Has(m, INTENT)
       THEN IntentIsSound(m, m[PIN]) /\ CopiesAudit(m, m[PIN], m[INTENT].ver)
       ELSE ~Has(m, BUNDLE_TEMP) /\ ~Has(m, PIN_TEMP) /\ CopiesAudit(m, m[PIN], m[PIN].ver)

\* read_archive and read_registry, which only get the lock while no writer has
\* the store open: the pinned snapshot, unless a publication is unresolved.
Reads(m) ==
    /\ m[PIN] \in Pins
    /\ m[m[PIN].ver] = m[PIN].ver
    /\ \A n \in {INTENT, INTENT_TEMP, BUNDLE_TEMP, PIN_TEMP} : ~Has(m, n)

-----------------------------------------------------------------------------
Goto(from, to) == pc = from /\ pc' = to

Open ==
    /\ Goto("closed", "open")
    /\ Opens(dir.vis)
    /\ pin' = dir.vis[PIN]
    /\ UNCHANGED <<dir, intent, after, acked, faults>>

Close ==
    /\ Goto("open", "closed")
    /\ UNCHANGED <<dir, pin, intent, after, acked, faults>>

\* Mutant: a torn staged intent is left for somebody else.
EnterLeavingTorn(e, v) ==
    /\ pc = "open"
    /\ dir.vis[PIN] = pin
    /\ IF Has(dir.vis, INTENT_TEMP)
       THEN /\ dir.vis[INTENT_TEMP] \in Intents
            /\ v = NoVersion \/ dir.vis[INTENT_TEMP] = [expected |-> e, ver |-> v]
            /\ pc' = "promoteSync"
       ELSE pc' = "decide"
    /\ intent' = [expected |-> e, ver |-> v]
    /\ UNCHANGED <<dir, pin, after, acked, faults>>

\* A call begins: the inventory fits, the pin on disk is the one in hand, and
\* a staged intent is taken up: promoted when whole (for a commit, when it is
\* that commit), discarded when torn.
Enter(e, v) ==
    /\ pc = "open"
    /\ Inventory(dir.vis)
    /\ dir.vis[PIN] = pin
    /\ IF Has(dir.vis, INTENT_TEMP)
       THEN LET i == dir.vis[INTENT_TEMP]
            IN  /\ StagedIsSound(dir.vis, pin)
                /\ i \in Intents => v = NoVersion \/ i = [expected |-> e, ver |-> v]
                /\ pc' = IF i \in Intents THEN "promoteSync" ELSE "discard"
       ELSE pc' = "decide"
    /\ intent' = [expected |-> e, ver |-> v]
    /\ UNCHANGED <<dir, pin, after, acked, faults>>

\* The basis is the pin in hand or, on a retry, the one of the last call.
Commit(e, v) == Enter(e, v)
Recover == Enter(pin, NoVersion)

PromoteSync ==
    /\ Goto("promoteSync", "promoteRename")
    /\ dir' = SyncFile(dir, INTENT_TEMP)
    /\ UNCHANGED <<pin, intent, after, acked, faults>>

PromoteRename ==
    /\ Goto("promoteRename", "promoteDir")
    /\ dir' = Rename(dir, INTENT_TEMP, INTENT)
    /\ UNCHANGED <<pin, intent, after, acked, faults>>

PromoteDir ==
    /\ Goto("promoteDir", "decide")
    /\ dir' = SyncDir(dir)
    /\ UNCHANGED <<pin, intent, after, acked, faults>>

Discard ==
    /\ Goto("discard", "discardDir")
    /\ dir' = Delete(dir, INTENT_TEMP)
    /\ UNCHANGED <<pin, intent, after, acked, faults>>

DiscardDir ==
    /\ Goto("discardDir", "decide")
    /\ dir' = SyncDir(dir)
    /\ UNCHANGED <<pin, intent, after, acked, faults>>

\* A retained intent is resumed by recover, or by the same commit again.
CanResume ==
    /\ Has(dir.vis, INTENT)
    /\ IntentIsSound(dir.vis, pin)
    /\ intent.ver = NoVersion \/ intent = dir.vis[INTENT]

\* Without one, recover and the readback of what is pinned only clean up; a
\* candidate that extends the pinned snapshot on its exact pin is published.
CanBegin ==
    /\ ~Has(dir.vis, INTENT) /\ ~Has(dir.vis, BUNDLE_TEMP) /\ ~Has(dir.vis, PIN_TEMP)
    /\ CopiesAudit(dir.vis, pin, pin.ver)
    /\ \/ intent.ver \in {NoVersion, pin.ver}
       \/ /\ intent.expected = pin
          /\ <<intent.ver, pin.ver>> \in Extends
          /\ pin.gen < MaxGen

\* Mutant: recovery withdraws the retained intent.
ResumeAborts ==
    /\ Goto("decide", "open")
    /\ CanResume
    /\ dir' = Delete(dir, INTENT)
    /\ UNCHANGED <<pin, intent, after, acked, faults>>

Resume ==
    /\ Goto("decide", "resyncIntent")
    /\ CanResume
    /\ intent' = dir.vis[INTENT]
    /\ UNCHANGED <<dir, pin, after, acked, faults>>

Begin ==
    /\ Goto("decide", "cleanup")
    /\ CanBegin
    /\ after' = IF intent.ver \in {NoVersion, pin.ver} THEN "ack" ELSE "newIntent"
    /\ UNCHANGED <<dir, pin, intent, acked, faults>>

\* Any other answer is an error that changes nothing.
Reject ==
    /\ Goto("decide", "open")
    /\ ~CanResume /\ ~CanBegin
    /\ UNCHANGED <<dir, pin, intent, after, acked, faults>>

Obsolete == {v \in Versions \ {pin.ver} : Has(dir.vis, v)}

\* cleanup_obsolete, one remove_file at a time, then its barrier.
RemoveObsolete ==
    /\ pc = "cleanup"
    /\ \E v \in Obsolete : dir' = Delete(dir, v)
    /\ UNCHANGED <<pc, pin, intent, after, acked, faults>>

Cleaned ==
    /\ Goto("cleanup", "cleanupDir")
    /\ Obsolete = {}
    /\ UNCHANGED <<dir, pin, intent, after, acked, faults>>

\* Clean: the publication is returned, or the new intent is written.
CleanupDir ==
    /\ pc = "cleanupDir"
    /\ dir' = SyncDir(dir)
    /\ IF after = "ack"
       THEN pc' = "open" /\ acked' = acked \cup {pin}
       ELSE pc' = "writeIntent" /\ UNCHANGED acked
    /\ UNCHANGED <<pin, intent, after, faults>>

WriteIntent ==
    /\ Goto("writeIntent", "syncIntent")
    /\ dir' = Write(dir, INTENT_TEMP, intent)
    /\ UNCHANGED <<pin, intent, after, acked, faults>>

\* Mutant: the scratch is renamed without a barrier on its bytes.
SyncIntentSkipped ==
    /\ Goto("syncIntent", "renameIntent")
    /\ UNCHANGED <<dir, pin, intent, after, acked, faults>>

SyncIntent ==
    /\ Goto("syncIntent", "renameIntent")
    /\ dir' = SyncFile(dir, INTENT_TEMP)
    /\ UNCHANGED <<pin, intent, after, acked, faults>>

\* The intent becomes authoritative.
RenameIntent ==
    /\ Goto("renameIntent", "intentDir")
    /\ dir' = Rename(dir, INTENT_TEMP, INTENT)
    /\ UNCHANGED <<pin, intent, after, acked, faults>>

IntentDir ==
    /\ Goto("intentDir", "resyncIntent")
    /\ dir' = SyncDir(dir)
    /\ UNCHANGED <<pin, intent, after, acked, faults>>

\* finish_intent establishes the intent's durability again.
ResyncIntent ==
    /\ Goto("resyncIntent", "resyncDir")
    /\ dir' = SyncFile(dir, INTENT)
    /\ UNCHANGED <<pin, intent, after, acked, faults>>

ResyncDir ==
    /\ Goto("resyncDir", "bundle")
    /\ dir' = SyncDir(dir)
    /\ UNCHANGED <<pin, intent, after, acked, faults>>

\* write_temp completes a leftover only when it is a prefix of these bytes.
PrefixOf(c, whole) == c \in {Absent, whole, Cut(whole)}

KeepBundle ==
    /\ Goto("bundle", "bundleDir")
    /\ dir.vis[intent.ver] = intent.ver
    /\ PrefixOf(dir.vis[BUNDLE_TEMP], intent.ver)
    /\ dir' = Delete(SyncFile(dir, intent.ver), BUNDLE_TEMP)
    /\ UNCHANGED <<pin, intent, after, acked, faults>>

WriteBundleTemp ==
    /\ Goto("bundle", "syncBundleTemp")
    /\ ~Has(dir.vis, intent.ver)
    /\ PrefixOf(dir.vis[BUNDLE_TEMP], intent.ver)
    /\ dir' = Write(dir, BUNDLE_TEMP, intent.ver)
    /\ UNCHANGED <<pin, intent, after, acked, faults>>

SyncBundleTemp ==
    /\ Goto("syncBundleTemp", "renameBundle")
    /\ dir' = SyncFile(dir, BUNDLE_TEMP)
    /\ UNCHANGED <<pin, intent, after, acked, faults>>

RenameBundle ==
    /\ Goto("renameBundle", "bundleDir")
    /\ dir' = Rename(dir, BUNDLE_TEMP, intent.ver)
    /\ UNCHANGED <<pin, intent, after, acked, faults>>

BundleDir ==
    /\ Goto("bundleDir", "pin")
    /\ dir' = SyncDir(dir)
    /\ UNCHANGED <<pin, intent, after, acked, faults>>

\* The pin is replaced unless this very publication already replaced it.
WritePinTemp ==
    /\ Goto("pin", "syncPinTemp")
    /\ dir.vis[PIN] = pin
    /\ pin = intent.expected
    /\ PrefixOf(dir.vis[PIN_TEMP], NextPin(intent))
    /\ dir' = Write(dir, PIN_TEMP, NextPin(intent))
    /\ UNCHANGED <<pin, intent, after, acked, faults>>

SyncPinTemp ==
    /\ Goto("syncPinTemp", "renamePin")
    /\ dir' = SyncFile(dir, PIN_TEMP)
    /\ UNCHANGED <<pin, intent, after, acked, faults>>

RenamePin ==
    /\ Goto("renamePin", "pinDir")
    /\ dir' = Rename(dir, PIN_TEMP, PIN)
    /\ UNCHANGED <<pin, intent, after, acked, faults>>

PinReplaced ==
    /\ Goto("pin", "pinDir")
    /\ dir.vis[PIN] = pin
    /\ pin = NextPin(intent)
    /\ UNCHANGED <<dir, pin, intent, after, acked, faults>>

\* Mutant: the intent goes before the new pin is durable.
PinDirSkipped ==
    /\ Goto("pinDir", "readback")
    /\ UNCHANGED <<dir, pin, intent, after, acked, faults>>

PinDir ==
    /\ Goto("pinDir", "readback")
    /\ dir' = SyncDir(dir)
    /\ UNCHANGED <<pin, intent, after, acked, faults>>

\* The durable pin is read back; then the leftovers and the intent go.
Readback ==
    /\ Goto("readback", "intentGoneDir")
    /\ dir.vis[PIN] = NextPin(intent)
    /\ pin' = dir.vis[PIN]
    /\ PrefixOf(dir.vis[PIN_TEMP], NextPin(intent))
    /\ dir' = Delete(Delete(dir, PIN_TEMP), INTENT)
    /\ UNCHANGED <<intent, after, acked, faults>>

IntentGoneDir ==
    /\ Goto("intentGoneDir", "cleanup")
    /\ dir' = SyncDir(dir)
    /\ after' = "ack"
    /\ UNCHANGED <<pin, intent, acked, faults>>

Step ==
    \/ PromoteSync \/ PromoteRename \/ PromoteDir \/ Discard \/ DiscardDir
    \/ Resume \/ Begin \/ Reject \/ RemoveObsolete \/ Cleaned \/ CleanupDir
    \/ WriteIntent \/ SyncIntent \/ RenameIntent \/ IntentDir
    \/ ResyncIntent \/ ResyncDir \/ KeepBundle \/ WriteBundleTemp
    \/ SyncBundleTemp \/ RenameBundle \/ BundleDir \/ WritePinTemp
    \/ SyncPinTemp \/ RenamePin \/ PinReplaced \/ PinDir \/ Readback \/ IntentGoneDir

-----------------------------------------------------------------------------
Faulty == faults < MaxFaults /\ faults' = faults + 1

\* An I/O error between two steps: the store object stays with what it holds.
Fail ==
    /\ pc \in Steps
    /\ Faulty
    /\ pc' = "open"
    /\ UNCHANGED <<dir, pin, intent, after, acked>>

\* The same inside a write, which leaves a part of the file.
FailWrite ==
    /\ Faulty
    /\ \/ pc = "writeIntent" /\ dir' = Write(dir, INTENT_TEMP, Cut(intent))
       \/ /\ pc = "bundle" /\ ~Has(dir.vis, intent.ver)
          /\ dir' = Write(dir, BUNDLE_TEMP, Cut(intent.ver))
       \/ /\ pc = "pin" /\ pin = intent.expected
          /\ dir' = Write(dir, PIN_TEMP, Cut(NextPin(intent)))
    /\ pc' = "open"
    /\ UNCHANGED <<pin, intent, after, acked>>

\* The process dies; its lock goes with it.
Die ==
    /\ pc \in Steps
    /\ Faulty
    /\ pc' = "closed"
    /\ UNCHANGED <<dir, pin, intent, after, acked>>

\* Every map a power loss can leave.
AnyDisk == {[n \in Names |-> IF n \in t /\ m[n] # Absent THEN Cut(m[n]) ELSE m[n]] :
                m \in dir.disk, t \in SUBSET dir.dirty}

PowerLoss ==
    /\ Faulty
    /\ \E m \in AnyDisk : dir' = Stored(m)
    /\ pc' = "closed"
    /\ UNCHANGED <<pin, intent, after, acked>>

Next ==
    \/ Open \/ Close
    \/ \E e \in {pin, intent.expected}, v \in Versions : Commit(e, v)
    \/ Recover
    \/ Step
    \/ Fail \/ FailWrite \/ Die \/ PowerLoss

Spec == Init /\ [][Next]_vars

-----------------------------------------------------------------------------
\* No crash and no power loss wedges a store: whatever the disk holds at any
\* moment, Store::open accepts it (it never answers Corrupt, Conflict,
\* Capacity or RecoveryRequired to what the protocol itself left there).
AlwaysOpens == \A m \in AnyDisk \cup {dir.vis} : Opens(m)

\* A publication that was returned survives: no power loss moves the pin to an
\* earlier generation or to another snapshot of that generation, and what it
\* pins extends what was returned.
PublicationSurvives ==
    \A p \in acked, m \in AnyDisk :
        /\ m[PIN].gen >= p.gen
        /\ m[PIN].gen = p.gen => m[PIN] = p
        /\ m[PIN] # p => <<m[PIN].ver, p.ver>> \in Extends

\* What a reader may be given is durable: while no writer holds the store and
\* nothing unresolved is left in it, every power loss leaves the same pin.
ReadableIsDurable ==
    pc = "closed" /\ Reads(dir.vis) => \A m \in AnyDisk : m[PIN] = dir.vis[PIN]

\* A durable intent decides its generation: once no power loss can take the
\* intent away, it stays, through errors, restarts, power losses and calls with
\* other candidates, until the pin moves to the very snapshot it names.
Decided(i) == \A m \in AnyDisk : m[INTENT] = i

IntentDecides ==
    [][ \A i \in Intents :
          dir.vis[PIN] = i.expected /\ Decided(i)
          => \/ dir'.vis[PIN] = NextPin(i)
             \/ dir'.vis[PIN] = i.expected /\ Decided(i)' ]_vars

\* A store that is opened runs its calls to the end, and its owner recovers a
\* publication left unresolved (Adapter::open calls recover whenever
\* recovery_required), reopening after an error as Indeterminate says.
FairSpec ==
    /\ Spec
    /\ WF_vars(Step) /\ WF_vars(Open)
    /\ SF_vars(Recover)
    /\ SF_vars(Close)

\* Every retained intent, staged or authoritative, is eventually resolved: no
\* crash leaves a publication for good that recover cannot finish or discard.
IntentsResolve == []<>(~Has(dir.vis, INTENT) /\ ~Has(dir.vis, INTENT_TEMP))

-----------------------------------------------------------------------------
(* The parts above together, as the run checks them.                       *)

\* Well typed, and no crash or power loss wedges the store.
Openable ==
    /\ TypeOK
    /\ AlwaysOpens

\* What a caller or a reader of the store was given survives every power loss.
PublishedIsKept ==
    /\ PublicationSurvives
    /\ ReadableIsDurable
=============================================================================
