------------------------ MODULE SnapshotStoreProofs ------------------------
(***************************************************************************)
(* Proofs about SnapshotStore for every set of snapshots with a transitive *)
(* order, every number of generations and every number of faults.  The     *)
(* inductive invariant says which shapes a map of the directory can have,  *)
(* for every map the disk may hold, and where a call stands on the one     *)
(* that is visible.                                                        *)
(***************************************************************************)
EXTENDS SnapshotStore, FiniteSetTheorems, TLAPS

USE StoreAssumption, NamesAssumption

-----------------------------------------------------------------------------
(* The inductive invariant.                                                *)

\* The only snapshots in m are whole copies of those of S.
Copies(m, S) == \A v \in Versions : m[v] # Absent => m[v] = v /\ v \in S

\* A publication worth deciding: another snapshot, that extends the pinned one.
Sensible(i) ==
    /\ i \in Intents
    /\ <<i.ver, i.expected.ver>> \in Extends
    /\ i.ver # i.expected.ver
    /\ i.expected.gen < MaxGen

\* Nothing is being published; at most one obsolete copy waits to be removed.
Idle(m) ==
    /\ m[PIN] \in Pins
    /\ m[m[PIN].ver] = m[PIN].ver
    /\ \A n \in {INTENT, INTENT_TEMP, BUNDLE_TEMP, PIN_TEMP} : m[n] = Absent
    /\ \E u \in Versions : /\ u = m[PIN].ver \/ <<m[PIN].ver, u>> \in Extends
                           /\ Copies(m, {m[PIN].ver, u})

\* The intent i is staged, whole or cut: nothing but the pinned snapshot is there.
Staged(m, i) ==
    /\ Sensible(i)
    /\ m[PIN] = i.expected
    /\ m[INTENT_TEMP] \in {i, Cut(i)}
    /\ m[i.expected.ver] = i.expected.ver
    /\ Copies(m, {i.expected.ver})
    /\ \A n \in {INTENT, BUNDLE_TEMP, PIN_TEMP} : m[n] = Absent

\* The intent i decides: the pin is its basis or its outcome, whose snapshot is
\* then in place, and each scratch is a prefix of what i publishes.
Pending(m, i) ==
    /\ Sensible(i)
    /\ m[INTENT] = i
    /\ m[PIN] \in {i.expected, NextPin(i)}
    /\ m[PIN] = NextPin(i) => m[i.ver] = i.ver
    /\ m[i.expected.ver] = i.expected.ver
    /\ Copies(m, {i.expected.ver, i.ver})
    /\ m[INTENT_TEMP] = Absent
    /\ PrefixOf(m[BUNDLE_TEMP], i.ver)
    /\ PrefixOf(m[PIN_TEMP], NextPin(i))

Sound(m) == Idle(m) \/ (\E i \in Intents : Staged(m, i)) \/ Pending(m, m[INTENT])

\* What was returned is below every pin there may be.
Later(q, p) ==
    /\ q.gen >= p.gen
    /\ q.gen = p.gen => q = p
    /\ q # p => <<q.ver, p.ver>> \in Extends

Disk ==
    /\ dir.vis \in dir.disk
    /\ dir.dirty \subseteq {INTENT_TEMP, BUNDLE_TEMP, PIN_TEMP}
    /\ \A m \in dir.disk : Sound(m)
    /\ \A m \in dir.disk, p \in acked : Later(m[PIN], p)
    /\ dir.vis[INTENT] = Absent => \A m \in dir.disk : m[PIN] = dir.vis[PIN]

PlacedSteps == {"bundleDir", "pin", "syncPinTemp", "renamePin", "pinDir", "readback"}
PublishSteps == {"intentDir", "resyncIntent", "resyncDir", "bundle", "syncBundleTemp",
                 "renameBundle"} \cup PlacedSteps

\* Where the pin in hand stands.
PinInHand ==
    /\ pc \in Steps \ {"pinDir", "readback"} => dir.vis[PIN] = pin
    /\ pc \in {"pinDir", "readback"} => dir.vis[PIN] = NextPin(intent)
    /\ pc = "readback" => \A m \in dir.disk : m[PIN] = NextPin(intent)

\* A call up to its decision, and the clean-up before a new intent.
Deciding ==
    /\ pc \in {"promoteSync", "promoteRename"} => dir.vis[INTENT_TEMP] \in Intents
    /\ pc \in {"promoteRename", "renameIntent"} => INTENT_TEMP \notin dir.dirty
    /\ pc = "discard" => dir.vis[INTENT_TEMP] # Absent
    /\ pc \in {"promoteDir", "discardDir", "decide"} => dir.vis[INTENT_TEMP] = Absent
    /\ pc \in {"cleanup", "cleanupDir", "intentGoneDir", "writeIntent"} => Idle(dir.vis)
    /\ pc \in {"cleanupDir", "writeIntent"} => Copies(dir.vis, {pin.ver})
    /\ pc = "writeIntent" \/ (pc \in {"cleanup", "cleanupDir"} /\ after = "newIntent") =>
          Sensible(intent) /\ intent.expected = pin
    /\ pc \in {"syncIntent", "renameIntent"} =>
          intent \in Intents /\ dir.vis[INTENT_TEMP] = intent

\* finish_intent.
Publishing ==
    /\ pc \in PublishSteps => Pending(dir.vis, intent)
    /\ pc \in {"syncBundleTemp", "renameBundle"} => dir.vis[BUNDLE_TEMP] = intent.ver
    /\ pc = "renameBundle" => BUNDLE_TEMP \notin dir.dirty
    /\ pc \in PlacedSteps => dir.vis[intent.ver] = intent.ver /\ dir.vis[BUNDLE_TEMP] = Absent
    /\ pc \in {"syncPinTemp", "renamePin"} => dir.vis[PIN_TEMP] = NextPin(intent)
    /\ pc = "renamePin" => PIN_TEMP \notin dir.dirty

StoreInv == TypeOK /\ Disk /\ PinInHand /\ Deciding /\ Publishing

-----------------------------------------------------------------------------
(* Names, files and maps.                                                  *)

Temps == {INTENT_TEMP, BUNDLE_TEMP, PIN_TEMP}

LEMMA NameFacts ==
    /\ {PIN, INTENT, INTENT_TEMP, BUNDLE_TEMP, PIN_TEMP} \subseteq Names /\ Versions \subseteq Names
    /\ Versions \cap {PIN, INTENT, INTENT_TEMP, BUNDLE_TEMP, PIN_TEMP} = {}
    /\ PIN \notin {INTENT, INTENT_TEMP, BUNDLE_TEMP, PIN_TEMP}
    /\ INTENT \notin {INTENT_TEMP, BUNDLE_TEMP, PIN_TEMP}
    /\ INTENT_TEMP \notin {BUNDLE_TEMP, PIN_TEMP} /\ BUNDLE_TEMP # PIN_TEMP
<1>1. Versions \cap {PIN, INTENT, INTENT_TEMP, BUNDLE_TEMP, PIN_TEMP} = {}
  OBVIOUS
<1>2. {PIN, INTENT, INTENT_TEMP, BUNDLE_TEMP, PIN_TEMP} \subseteq Names /\ Versions \subseteq Names
  BY DEF Names
<1>3. /\ PIN \notin {INTENT, INTENT_TEMP, BUNDLE_TEMP, PIN_TEMP}
      /\ INTENT \notin {INTENT_TEMP, BUNDLE_TEMP, PIN_TEMP}
      /\ INTENT_TEMP \notin {BUNDLE_TEMP, PIN_TEMP} /\ BUNDLE_TEMP # PIN_TEMP
  BY DEF PIN, INTENT, INTENT_TEMP, BUNDLE_TEMP, PIN_TEMP
<1> QED BY <1>1, <1>2, <1>3

\* A cut file is not a whole one, and cutting it again changes nothing more.
LEMMA CutFacts ==
    /\ \A c \in Whole : c \notin Cuts /\ Cut(c) \in Cuts /\ Cut(c).cut = c
    /\ \A c \in Cuts : Cut(c) = c
    /\ \A c \in Whole \cup Cuts : c # Absent /\ c \in Content /\ Cut(c) \in Content /\ Cut(c) # Absent
    /\ Absent \in Content
<1>1. ASSUME NEW c \in Whole PROVE c \notin Cuts
  <2>1. CASE c \in Versions
    BY <2>1
  <2>2. CASE c \in Pins \cup Intents
    <3>1. \A x \in Cuts : DOMAIN x = {"cut"}
      BY DEF Cuts
    <3>2. DOMAIN c \in {{"gen", "ver"}, {"expected", "ver"}}
      BY <2>2 DEF Pins, Intents
    <3> QED BY <3>1, <3>2
  <2> QED BY <2>1, <2>2 DEF Whole
<1>2. ASSUME NEW c \in Whole PROVE Cut(c) \in Cuts /\ Cut(c).cut = c
  BY <1>1, <1>2 DEF Cut, Cuts
<1>3. \A c \in Cuts : Cut(c) = c
  BY DEF Cut
<1>4. \A c \in Whole \cup Cuts : c # Absent /\ c \in Content /\ Absent \in Content
  BY DEF Content
<1>5. \A c \in Whole \cup Cuts : Cut(c) \in Cuts
  BY <1>2, <1>3
<1> QED BY <1>1, <1>2, <1>3, <1>4, <1>5 DEF Content

\* The parts of a sensible intent.
LEMMA IntentFacts ==
    ASSUME NEW i, Sensible(i)
    PROVE  /\ i \in Intents /\ i \in Whole /\ i \in Content /\ i # Absent
           /\ i.expected \in Pins /\ i.ver \in Versions /\ i.expected.ver \in Versions
           /\ i.expected.gen \in 0..MaxGen
           /\ NextPin(i) \in Pins /\ NextPin(i) \in Whole
           /\ NextPin(i).gen = i.expected.gen + 1 /\ NextPin(i).ver = i.ver
           /\ NextPin(i) # i.expected
           /\ i.ver \in Whole
<1>1. i \in Intents /\ i.expected \in Pins /\ i.ver \in Versions /\ i.expected.ver \in Versions
      /\ i.expected.gen \in 0..MaxGen /\ i.expected.gen < MaxGen
  BY DEF Sensible, Intents, Pins
<1>2. /\ NextPin(i) \in Pins /\ NextPin(i).gen = i.expected.gen + 1 /\ NextPin(i).ver = i.ver
  BY <1>1 DEF NextPin, Pins
<1>3. NextPin(i) # i.expected
  BY <1>1, <1>2
<1>4. i \in Whole /\ NextPin(i) \in Whole /\ i.ver \in Whole
  BY <1>1, <1>2 DEF Whole
<1> QED BY <1>1, <1>2, <1>3, <1>4, CutFacts

\* w is m but for the names of S.
Same(w, m, S) == \A n \in Names \ S : w[n] = m[n]

\* Scratch files are no copies.
LEMMA SameCopies ==
    ASSUME NEW w, NEW m, NEW S, NEW C, S \subseteq {PIN, INTENT, INTENT_TEMP, BUNDLE_TEMP, PIN_TEMP},
           Same(w, m, S), Copies(m, C)
    PROVE  Copies(w, C) /\ \A v \in Versions : w[v] = m[v]
<1>1. \A v \in Versions : v \in Names \ S
  BY NameFacts
<1> QED BY <1>1 DEF Same, Copies

LEMMA StageIntent ==
    ASSUME NEW m, NEW w, NEW i, Idle(m), Copies(m, {m[PIN].ver}), Sensible(i), i.expected = m[PIN],
           Same(w, m, {INTENT_TEMP}), w[INTENT_TEMP] \in {i, Cut(i)}
    PROVE  Staged(w, i)
<1>1. w[PIN] = m[PIN] /\ \A n \in {INTENT, BUNDLE_TEMP, PIN_TEMP} : w[n] = Absent
  BY NameFacts DEF Same, Idle
<1>2. Copies(w, {m[PIN].ver}) /\ \A v \in Versions : w[v] = m[v]
  BY SameCopies
<1> QED BY <1>1, <1>2, IntentFacts DEF Staged, Idle

LEMMA UnstageIntent ==
    ASSUME NEW m, NEW w, NEW i, Staged(m, i), Same(w, m, {INTENT_TEMP}), w[INTENT_TEMP] = Absent
    PROVE  Idle(w) /\ w[PIN] = m[PIN] /\ w[INTENT] = Absent
<1>1. w[PIN] = m[PIN] /\ \A n \in {INTENT, BUNDLE_TEMP, PIN_TEMP} : w[n] = Absent
  BY NameFacts DEF Same, Staged
<1>2. Copies(w, {i.expected.ver}) /\ \A v \in Versions : w[v] = m[v]
  BY SameCopies DEF Staged
<1>3. i.expected \in Pins /\ i.expected.ver \in Versions /\ Sensible(i) /\ m[PIN] = i.expected
      /\ m[i.expected.ver] = i.expected.ver
  BY IntentFacts DEF Staged
<1>4. \E u \in Versions : /\ u = w[PIN].ver \/ <<w[PIN].ver, u>> \in Extends
                          /\ Copies(w, {w[PIN].ver, u})
  <2>1. Copies(w, {w[PIN].ver, w[PIN].ver})
    BY <1>1, <1>2, <1>3 DEF Copies
  <2> QED BY <1>1, <1>3, <2>1
<1> QED BY <1>1, <1>2, <1>3, <1>4 DEF Idle

LEMMA DecideIntent ==
    ASSUME NEW m, NEW w, NEW i, Staged(m, i), Same(w, m, {INTENT_TEMP, INTENT}),
           w[INTENT] = i, w[INTENT_TEMP] = Absent
    PROVE  Pending(w, i) /\ w[PIN] = m[PIN]
<1>1. w[PIN] = m[PIN] /\ \A n \in {BUNDLE_TEMP, PIN_TEMP} : w[n] = Absent
  BY NameFacts DEF Same, Staged
<1>2. Copies(w, {i.expected.ver}) /\ \A v \in Versions : w[v] = m[v]
  BY SameCopies DEF Staged
<1>3. Copies(w, {i.expected.ver, i.ver})
  BY <1>2 DEF Copies
<1> QED BY <1>1, <1>2, <1>3, IntentFacts DEF Pending, Staged, PrefixOf

LEMMA ScratchPending ==
    ASSUME NEW m, NEW w, NEW i, Pending(m, i), Same(w, m, {BUNDLE_TEMP, PIN_TEMP}),
           PrefixOf(w[BUNDLE_TEMP], i.ver), PrefixOf(w[PIN_TEMP], NextPin(i))
    PROVE  Pending(w, i) /\ w[PIN] = m[PIN]
<1>1. w[PIN] = m[PIN] /\ w[INTENT] = m[INTENT] /\ w[INTENT_TEMP] = m[INTENT_TEMP]
  BY NameFacts DEF Same
<1>2. Copies(w, {i.expected.ver, i.ver}) /\ \A v \in Versions : w[v] = m[v]
  BY SameCopies DEF Pending
<1> QED BY <1>1, <1>2, IntentFacts DEF Pending

LEMMA PlaceBundle ==
    ASSUME NEW m, NEW w, NEW i, Pending(m, i), Same(w, m, {BUNDLE_TEMP, i.ver}),
           w[BUNDLE_TEMP] = Absent, w[i.ver] = i.ver
    PROVE  Pending(w, i) /\ w[PIN] = m[PIN]
<1>0. i.ver \in Versions /\ i.expected.ver \in Versions /\ i.ver # i.expected.ver
  BY IntentFacts DEF Pending, Sensible
<1>1. w[PIN] = m[PIN] /\ w[INTENT] = m[INTENT] /\ w[INTENT_TEMP] = m[INTENT_TEMP]
      /\ w[PIN_TEMP] = m[PIN_TEMP]
  BY <1>0, NameFacts DEF Same
<1>2. \A v \in Versions \ {i.ver} : w[v] = m[v]
  BY NameFacts DEF Same
<1>3. Copies(w, {i.expected.ver, i.ver})
  BY <1>2 DEF Copies, Pending
<1> QED BY <1>0, <1>1, <1>2, <1>3 DEF Pending, PrefixOf

LEMMA MovePin ==
    ASSUME NEW m, NEW w, NEW i, Pending(m, i), Same(w, m, {PIN, PIN_TEMP}), m[i.ver] = i.ver,
           w[PIN] = NextPin(i), w[PIN_TEMP] = Absent
    PROVE  Pending(w, i)
<1>1. w[BUNDLE_TEMP] = m[BUNDLE_TEMP] /\ w[INTENT] = m[INTENT] /\ w[INTENT_TEMP] = m[INTENT_TEMP]
  BY NameFacts DEF Same
<1>2. Copies(w, {i.expected.ver, i.ver}) /\ \A v \in Versions : w[v] = m[v]
  BY SameCopies DEF Pending
<1> QED BY <1>1, <1>2, IntentFacts DEF Pending, PrefixOf

LEMMA FinishIntent ==
    ASSUME NEW m, NEW w, NEW i, Pending(m, i), Same(w, m, {INTENT, PIN_TEMP}),
           m[PIN] = NextPin(i), m[BUNDLE_TEMP] = Absent, w[INTENT] = Absent, w[PIN_TEMP] = Absent
    PROVE  Idle(w) /\ w[PIN] = m[PIN]
<1>0. i.ver \in Versions /\ i.expected.ver \in Versions /\ NextPin(i) \in Pins /\ NextPin(i).ver = i.ver
      /\ <<i.ver, i.expected.ver>> \in Extends
  BY IntentFacts DEF Pending, Sensible
<1>1. w[PIN] = m[PIN] /\ w[BUNDLE_TEMP] = Absent /\ w[INTENT_TEMP] = Absent
  BY NameFacts DEF Same, Pending
<1>2. Copies(w, {i.expected.ver, i.ver}) /\ \A v \in Versions : w[v] = m[v]
  BY SameCopies DEF Pending
<1>3. Copies(w, {i.ver, i.expected.ver})
  BY <1>2 DEF Copies
<1>4. w[PIN] \in Pins /\ w[PIN].ver = i.ver /\ w[w[PIN].ver] = w[PIN].ver
  BY <1>0, <1>1, <1>2 DEF Pending
<1>5. \E u \in Versions : /\ u = w[PIN].ver \/ <<w[PIN].ver, u>> \in Extends
                          /\ Copies(w, {w[PIN].ver, u})
  BY <1>0, <1>3, <1>4
<1> QED BY <1>1, <1>4, <1>5 DEF Idle

\* cleanup_obsolete takes copies away; the pinned one stays.
LEMMA DropCopy ==
    ASSUME NEW m, NEW w, NEW v \in Versions, Idle(m), v # m[PIN].ver, Same(w, m, {v}), w[v] = Absent
    PROVE  Idle(w) /\ w[PIN] = m[PIN]
<1>0. m[PIN].ver \in Versions
  BY DEF Idle, Pins
<1>1. w[PIN] = m[PIN] /\ \A n \in {INTENT, INTENT_TEMP, BUNDLE_TEMP, PIN_TEMP} : w[n] = Absent
  BY NameFacts DEF Same, Idle
<1>2. \A x \in Versions \ {v} : w[x] = m[x]
  BY NameFacts DEF Same
<1>3. PICK u \in Versions : /\ u = m[PIN].ver \/ <<m[PIN].ver, u>> \in Extends
                            /\ Copies(m, {m[PIN].ver, u})
  BY DEF Idle
<1>4. Copies(w, {m[PIN].ver, u})
  BY <1>2, <1>3 DEF Copies
<1>5. \E x \in Versions : /\ x = w[PIN].ver \/ <<w[PIN].ver, x>> \in Extends
                          /\ Copies(w, {w[PIN].ver, x})
  BY <1>1, <1>3, <1>4
<1>6. w[PIN] \in Pins /\ w[w[PIN].ver] = w[PIN].ver
  BY <1>0, <1>1, <1>2 DEF Idle
<1> QED BY <1>1, <1>5, <1>6 DEF Idle

-----------------------------------------------------------------------------
(* What a power loss leaves.                                               *)

\* w is m with some of its scratch files cut short.
CutOf(w, m) ==
    /\ w \in [Names -> Content]
    /\ \A n \in Names : w[n] = m[n] \/ (n \in Temps /\ m[n] # Absent /\ w[n] = Cut(m[n]))

LEMMA CutKeeps ==
    ASSUME NEW m, NEW w, Sound(m), CutOf(w, m)
    PROVE  /\ Sound(w)
           /\ w[PIN] = m[PIN] /\ w[INTENT] = m[INTENT]
           /\ m[INTENT] = Absent /\ w[INTENT_TEMP] = Absent => Idle(w)
<1>1. Same(w, m, Temps)
  BY DEF CutOf, Same
<1>2. w[PIN] = m[PIN] /\ w[INTENT] = m[INTENT]
  BY <1>1, NameFacts DEF Same, Temps
<1>3. \A n \in Temps : m[n] = Absent => w[n] = Absent
  BY NameFacts DEF CutOf, Temps
<1>3a. \A n \in Temps : w[n] = Absent => m[n] = Absent \/ Cut(m[n]) = Absent
  BY NameFacts DEF CutOf, Temps
<1>4. ASSUME Idle(m) PROVE Idle(w)
  <2>1. \A n \in {INTENT, INTENT_TEMP, BUNDLE_TEMP, PIN_TEMP} : w[n] = Absent
    BY <1>2, <1>3, <1>4 DEF Idle, Temps
  <2>2. \A v \in Versions : w[v] = m[v]
    BY <1>1, NameFacts DEF Same, Temps
  <2>3. m[PIN].ver \in Versions
    BY <1>4 DEF Idle, Pins
  <2>4. \A S : Copies(m, S) => Copies(w, S)
    BY <2>2 DEF Copies
  <2>5. PICK u \in Versions : /\ u = m[PIN].ver \/ <<m[PIN].ver, u>> \in Extends
                              /\ Copies(m, {m[PIN].ver, u})
    BY <1>4 DEF Idle
  <2>6. Copies(w, {m[PIN].ver, u})
    BY <2>4, <2>5
  <2>7. w[PIN] \in Pins /\ w[w[PIN].ver] = w[PIN].ver
    BY <1>2, <1>4, <2>2, <2>3 DEF Idle
  <2>8. \E x \in Versions : /\ x = w[PIN].ver \/ <<w[PIN].ver, x>> \in Extends
                            /\ Copies(w, {w[PIN].ver, x})
    BY <1>2, <2>5, <2>6
  <2> QED BY <2>1, <2>7, <2>8 DEF Idle
<1>5. ASSUME NEW i \in Intents, Staged(m, i) PROVE Staged(w, i) /\ w[INTENT_TEMP] # Absent
  <2>1. \A v \in Versions : w[v] = m[v]
    BY <1>1, NameFacts DEF Same, Temps
  <2>2. Sensible(i) /\ i.expected.ver \in Versions /\ i \in Whole
    BY <1>5, IntentFacts DEF Staged
  <2>3. w[INTENT_TEMP] \in {i, Cut(i)} /\ w[INTENT_TEMP] # Absent
    <3>1. m[INTENT_TEMP] \in {i, Cut(i)} /\ Cut(Cut(i)) = Cut(i) /\ i # Absent /\ Cut(i) # Absent
      BY <1>5, <2>2, CutFacts DEF Staged
    <3>2. w[INTENT_TEMP] \in {m[INTENT_TEMP], Cut(m[INTENT_TEMP])}
      BY NameFacts DEF CutOf
    <3> QED BY <3>1, <3>2
  <2>4. Copies(w, {i.expected.ver})
    BY <1>5, <2>1 DEF Copies, Staged
  <2>5. w[BUNDLE_TEMP] = Absent /\ w[PIN_TEMP] = Absent /\ w[INTENT] = Absent
    BY <1>2, <1>3, <1>5 DEF Staged, Temps
  <2> QED BY <1>2, <1>5, <2>1, <2>2, <2>3, <2>4, <2>5 DEF Staged
<1>6. ASSUME Pending(m, m[INTENT]) PROVE Pending(w, w[INTENT])
  <2> DEFINE i == m[INTENT]
  <2>1. \A v \in Versions : w[v] = m[v]
    BY <1>1, NameFacts DEF Same, Temps
  <2>2. Sensible(i) /\ i.expected.ver \in Versions /\ i.ver \in Versions /\ NextPin(i) \in Whole /\ i.ver \in Whole
    BY <1>6, IntentFacts DEF Pending
  <2>3. PrefixOf(w[BUNDLE_TEMP], i.ver)
    <3>1. Cut(Cut(i.ver)) = Cut(i.ver)
      BY <2>2, CutFacts
    <3>2. m[BUNDLE_TEMP] \in {Absent, i.ver, Cut(i.ver)}
      BY <1>6 DEF Pending, PrefixOf
    <3>3. w[BUNDLE_TEMP] = m[BUNDLE_TEMP] \/ (m[BUNDLE_TEMP] # Absent /\ w[BUNDLE_TEMP] = Cut(m[BUNDLE_TEMP]))
      BY NameFacts DEF CutOf
    <3> QED BY <3>1, <3>2, <3>3 DEF PrefixOf
  <2>4. PrefixOf(w[PIN_TEMP], NextPin(i))
    <3>1. Cut(Cut(NextPin(i))) = Cut(NextPin(i))
      BY <2>2, CutFacts
    <3>2. m[PIN_TEMP] \in {Absent, NextPin(i), Cut(NextPin(i))}
      BY <1>6 DEF Pending, PrefixOf
    <3>3. w[PIN_TEMP] = m[PIN_TEMP] \/ (m[PIN_TEMP] # Absent /\ w[PIN_TEMP] = Cut(m[PIN_TEMP]))
      BY NameFacts DEF CutOf
    <3> QED BY <3>1, <3>2, <3>3 DEF PrefixOf
  <2>5. w[INTENT_TEMP] = Absent
    BY <1>3, <1>6 DEF Pending, Temps
  <2>6. Copies(w, {i.expected.ver, i.ver})
    BY <1>6, <2>1 DEF Copies, Pending
  <2> QED BY <1>2, <1>6, <2>1, <2>2, <2>3, <2>4, <2>5, <2>6 DEF Pending
<1>7. Pending(m, m[INTENT]) => m[INTENT] # Absent
  BY IntentFacts DEF Pending
<1>8. Sound(w)
  BY <1>4, <1>5, <1>6 DEF Sound
<1>9. m[INTENT] = Absent /\ w[INTENT_TEMP] = Absent => Idle(w)
  BY <1>4, <1>5, <1>7 DEF Sound
<1> QED BY <1>2, <1>8, <1>9

\* Every map a power loss can leave is a map of the disk, cut.
LEMMA LossIsCut ==
    ASSUME TypeOK, dir.dirty \subseteq Temps, NEW w \in AnyDisk
    PROVE  \E m \in dir.disk : CutOf(w, m)
<1>1. PICK m \in dir.disk, t \in SUBSET dir.dirty :
         w = [n \in Names |-> IF n \in t /\ m[n] # Absent THEN Cut(m[n]) ELSE m[n]]
  BY DEF AnyDisk
<1>2. m \in [Names -> Content]
  BY DEF TypeOK, Dirs
<1>3. \A n \in Names : m[n] # Absent => Cut(m[n]) \in Content
  BY <1>2, CutFacts DEF Content
<1>4. \A n \in Names : w[n] = IF n \in t /\ m[n] # Absent THEN Cut(m[n]) ELSE m[n]
  BY <1>1
<1>5. w \in [Names -> Content]
  BY <1>1, <1>2, <1>3
<1>6. CutOf(w, m)
  BY <1>4, <1>5 DEF CutOf
<1> QED BY <1>6

\* A power loss may also cut nothing.
LEMMA LossOfNothing ==
    ASSUME TypeOK, NEW m \in dir.disk
    PROVE  m \in AnyDisk
<1>1. ASSUME NEW t \in SUBSET dir.dirty
      PROVE  [n \in Names |-> IF n \in t /\ m[n] # Absent THEN Cut(m[n]) ELSE m[n]] \in AnyDisk
  BY SMT DEF AnyDisk
<1>2. m \in [Names -> Content]
  BY DEF TypeOK, Dirs
<1>3. [n \in Names |-> IF n \in {} /\ m[n] # Absent THEN Cut(m[n]) ELSE m[n]] = m
  BY <1>2
<1>4. {} \in SUBSET dir.dirty
  OBVIOUS
<1>5. [n \in Names |-> IF n \in {} /\ m[n] # Absent THEN Cut(m[n]) ELSE m[n]] \in AnyDisk
  BY <1>1, <1>4
<1> QED BY <1>3, <1>5

AtMost(S, k) == IsFiniteSet(S) /\ Cardinality(S) <= k

LEMMA AddOne ==
    ASSUME NEW S, NEW k \in Nat, AtMost(S, k), NEW x, NEW T, T = S \cup {x}, NEW j, j = k + 1
    PROVE  AtMost(T, j)
<1>1. IsFiniteSet(S \cup {x}) /\ Cardinality(S \cup {x}) = IF x \in S THEN Cardinality(S) ELSE Cardinality(S) + 1
  BY FS_AddElement, Zenon DEF AtMost
<1>2. Cardinality(S) \in Nat
  BY FS_CardinalityType DEF AtMost
<1> QED BY <1>1, <1>2 DEF AtMost

\* A map with the five names and two copies fits the directory's ceiling.
LEMMA FewFiles ==
    ASSUME NEW m, NEW u \in Versions, NEW v \in Versions, Copies(m, {u, v})
    PROVE  Inventory(m)
<1> DEFINE N == {n \in Names : Has(m, n)}
           F == {PIN, INTENT, INTENT_TEMP, BUNDLE_TEMP, PIN_TEMP, u, v}
<1>1. N \subseteq F
  BY DEF Names, Has, Copies
<1>2. AtMost(F, 7)
  <2>0. AtMost({}, 0)
    BY FS_EmptySet DEF AtMost
  <2>1. AtMost({PIN}, 1)
    <3>1. {PIN} = {} \cup {PIN}
      OBVIOUS
    <3>2. 1 = 0 + 1 /\ 0 \in Nat
      OBVIOUS
    <3> QED BY <2>0, <3>1, <3>2, AddOne, Zenon
  <2>2. AtMost({PIN, INTENT}, 2)
    <3>1. {PIN, INTENT} = {PIN} \cup {INTENT}
      OBVIOUS
    <3>2. 2 = 1 + 1 /\ 1 \in Nat
      OBVIOUS
    <3> QED BY <2>1, <3>1, <3>2, AddOne, Zenon
  <2>3. AtMost({PIN, INTENT, INTENT_TEMP}, 3)
    <3>1. {PIN, INTENT, INTENT_TEMP} = {PIN, INTENT} \cup {INTENT_TEMP}
      OBVIOUS
    <3>2. 3 = 2 + 1 /\ 2 \in Nat
      OBVIOUS
    <3> QED BY <2>2, <3>1, <3>2, AddOne, Zenon
  <2>4. AtMost({PIN, INTENT, INTENT_TEMP, BUNDLE_TEMP}, 4)
    <3>1. {PIN, INTENT, INTENT_TEMP, BUNDLE_TEMP} = {PIN, INTENT, INTENT_TEMP} \cup {BUNDLE_TEMP}
      OBVIOUS
    <3>2. 4 = 3 + 1 /\ 3 \in Nat
      OBVIOUS
    <3> QED BY <2>3, <3>1, <3>2, AddOne, Zenon
  <2>5. AtMost({PIN, INTENT, INTENT_TEMP, BUNDLE_TEMP, PIN_TEMP}, 5)
    <3>1. {PIN, INTENT, INTENT_TEMP, BUNDLE_TEMP, PIN_TEMP} = {PIN, INTENT, INTENT_TEMP, BUNDLE_TEMP} \cup {PIN_TEMP}
      OBVIOUS
    <3>2. 5 = 4 + 1 /\ 4 \in Nat
      OBVIOUS
    <3> QED BY <2>4, <3>1, <3>2, AddOne, Zenon
  <2>6. AtMost({PIN, INTENT, INTENT_TEMP, BUNDLE_TEMP, PIN_TEMP, u}, 6)
    <3>1. {PIN, INTENT, INTENT_TEMP, BUNDLE_TEMP, PIN_TEMP, u} = {PIN, INTENT, INTENT_TEMP, BUNDLE_TEMP, PIN_TEMP} \cup {u}
      OBVIOUS
    <3>2. 6 = 5 + 1 /\ 5 \in Nat
      OBVIOUS
    <3> QED BY <2>5, <3>1, <3>2, AddOne, Zenon
  <2>7. AtMost({PIN, INTENT, INTENT_TEMP, BUNDLE_TEMP, PIN_TEMP, u, v}, 7)
    <3>1. {PIN, INTENT, INTENT_TEMP, BUNDLE_TEMP, PIN_TEMP, u, v} = {PIN, INTENT, INTENT_TEMP, BUNDLE_TEMP, PIN_TEMP, u} \cup {v}
      OBVIOUS
    <3>2. 7 = 6 + 1 /\ 6 \in Nat
      OBVIOUS
    <3> QED BY <2>6, <3>1, <3>2, AddOne, Zenon
  <2> QED BY <2>7
<1> HIDE DEF F
<1>3. IsFiniteSet(N) /\ Cardinality(N) <= Cardinality(F)
  BY <1>1, <1>2, FS_Subset DEF AtMost
<1>4. Cardinality(N) \in Nat /\ Cardinality(F) \in Nat
  BY <1>2, <1>3, FS_CardinalityType DEF AtMost
<1> QED BY <1>2, <1>3, <1>4 DEF Inventory, AtMost

\* Store::open accepts every sound map.
LEMMA SoundOpens ==
    ASSUME NEW m, Sound(m)
    PROVE  Opens(m)
<1>1. CASE Idle(m)
  <2>1. PICK u \in Versions : /\ u = m[PIN].ver \/ <<m[PIN].ver, u>> \in Extends
                              /\ Copies(m, {m[PIN].ver, u})
    BY <1>1 DEF Idle
  <2>2. m[PIN] \in Pins /\ m[PIN].ver \in Versions /\ m[m[PIN].ver] = m[PIN].ver
    BY <1>1 DEF Idle, Pins
  <2>3. \A n \in {INTENT, INTENT_TEMP, BUNDLE_TEMP, PIN_TEMP} : ~Has(m, n)
    BY <1>1 DEF Idle, Has
  <2>4. Inventory(m)
    BY <2>1, <2>2, <2>3, FewFiles DEF Has
  <2>5. CopiesAudit(m, m[PIN], m[PIN].ver)
    BY <2>1 DEF CopiesAudit, Copies, Has
  <2> QED BY <2>2, <2>3, <2>4, <2>5 DEF Opens
<1>2. CASE \E i \in Intents : Staged(m, i)
  <2>1. PICK i \in Intents : Staged(m, i)
    BY <1>2
  <2>2. /\ Sensible(i) /\ i.expected.ver \in Versions /\ i.expected \in Pins /\ i \in Whole
        /\ m[PIN] = i.expected /\ m[i.expected.ver] = i.expected.ver
    BY <2>1, IntentFacts DEF Staged
  <2>3. \A n \in {INTENT, BUNDLE_TEMP, PIN_TEMP} : ~Has(m, n)
    BY <2>1 DEF Staged, Has
  <2>4. Inventory(m)
    <3>1. Copies(m, {i.expected.ver, i.expected.ver})
      BY <2>1 DEF Staged, Copies
    <3> QED BY <2>2, <2>3, <3>1, FewFiles DEF Has
  <2>5. CopiesAudit(m, m[PIN], m[PIN].ver)
    BY <2>1, <2>2 DEF CopiesAudit, Copies, Has, Staged
  <2>6. StagedIsSound(m, m[PIN])
    <3>1. m[INTENT_TEMP] \in {i, Cut(i)}
      BY <2>1 DEF Staged
    <3>2. i \notin Cuts /\ Cut(i) \in Cuts /\ Cut(i).cut = i
      BY <2>2, CutFacts
    <3>3. Cut(i) \in [cut : Intents]
      BY <3>2 DEF Cut
    <3>4. (IF m[INTENT_TEMP] \in Cuts THEN m[INTENT_TEMP].cut ELSE m[INTENT_TEMP]) = i
      BY <3>1, <3>2
    <3>5. m[INTENT_TEMP] \in Intents \cup [cut : Intents]
      BY <3>1, <3>3
    <3>6. i.expected = m[PIN] /\ <<i.ver, m[PIN].ver>> \in Extends
      BY <2>2 DEF Sensible
    <3> QED BY <2>3, <2>5, <3>4, <3>5, <3>6 DEF StagedIsSound
  <2> QED BY <2>2, <2>3, <2>4, <2>5, <2>6 DEF Opens
<1>3. CASE Pending(m, m[INTENT])
  <2> DEFINE i == m[INTENT]
  <2>1. /\ Sensible(i) /\ i.expected.ver \in Versions /\ i.ver \in Versions /\ i.expected \in Pins
        /\ i \in Intents /\ i # Absent /\ NextPin(i) \in Pins /\ NextPin(i).ver = i.ver
    BY <1>3, IntentFacts DEF Pending
  <2>2. m[PIN] \in Pins /\ m[m[PIN].ver] = m[PIN].ver
    BY <1>3, <2>1 DEF Pending
  <2>3. Inventory(m)
    BY <1>3, <2>1, FewFiles DEF Pending
  <2>4. ~Has(m, INTENT_TEMP) /\ Has(m, INTENT)
    BY <1>3, <2>1 DEF Pending, Has
  <2>5. IntentIsSound(m, m[PIN])
    BY <1>3, <2>1 DEF IntentIsSound, Pending, Sensible
  <2>6. CopiesAudit(m, m[PIN], i.ver)
    <3>1. \A v \in Versions : Has(m, v) => m[v] = v /\ v \in {i.expected.ver, i.ver}
      BY <1>3 DEF Pending, Copies, Has
    <3>2. m[PIN] = i.expected \/ m[PIN].ver = i.ver
      BY <1>3, <2>1 DEF Pending
    <3>3. <<i.ver, i.expected.ver>> \in Extends
      BY <2>1 DEF Sensible
    <3> QED BY <3>1, <3>2, <3>3 DEF CopiesAudit
  <2> QED BY <2>2, <2>3, <2>4, <2>5, <2>6 DEF Opens
<1> QED BY <1>1, <1>2, <1>3 DEF Sound

-----------------------------------------------------------------------------
(* What a step does to the directory.                                      *)

IsDir(d) == d = [vis |-> d.vis, disk |-> d.disk, dirty |-> d.dirty]

\* A map that may reach the disk beside the ones that were there.
Fits(m) == m \in [Names -> Content] /\ Sound(m) /\ m[PIN] = dir.vis[PIN]

\* A barrier, or no change at all.
LEMMA KeptDir ==
    ASSUME TypeOK, Disk, IsDir(dir'), dir'.vis = dir.vis, dir'.disk \subseteq dir.disk,
           dir'.vis \in dir'.disk, dir'.dirty \subseteq dir.dirty, acked' = acked
    PROVE  Disk' /\ dir' \in Dirs(Names, Content)
<1>1. /\ dir.vis \in [Names -> Content] /\ dir.disk \in SUBSET [Names -> Content]
      /\ dir.dirty \in SUBSET Names
  BY DEF TypeOK, Dirs
<1>2. dir' \in Dirs(Names, Content)
  BY <1>1 DEF Dirs, IsDir
<1>3. Disk'
  BY DEF Disk
<1> QED BY <1>2, <1>3

\* An update that leaves the pin alone.
LEMMA NewMap ==
    ASSUME TypeOK, Disk, IsDir(dir'), dir'.vis \in dir'.disk,
           \A m \in dir'.disk : m \in dir.disk \/ Fits(m),
           dir'.vis[PIN] = dir.vis[PIN],
           dir'.vis[INTENT] = Absent => \A m \in dir.disk : m[PIN] = dir.vis[PIN],
           dir'.dirty \subseteq Temps, acked' = acked
    PROVE  Disk' /\ dir' \in Dirs(Names, Content)
<1>1. /\ dir.vis \in [Names -> Content] /\ dir.disk \in SUBSET [Names -> Content]
      /\ dir.dirty \in SUBSET Names
  BY DEF TypeOK, Dirs
<1>2. \A m \in dir'.disk : m \in [Names -> Content]
  BY <1>1 DEF Fits
<1>3. dir'.dirty \subseteq Names
  BY NameFacts DEF Temps
<1>4. dir' \in Dirs(Names, Content)
  BY <1>2, <1>3 DEF Dirs, IsDir
<1>5. \A m \in dir'.disk : Sound(m)
  BY DEF Disk, Fits
<1>6. \A m \in dir'.disk, p \in acked' : Later(m[PIN], p)
  BY DEF Disk, Fits
<1>7. dir'.vis[INTENT] = Absent => \A m \in dir'.disk : m[PIN] = dir'.vis[PIN]
  BY DEF Disk, Fits
<1> QED BY <1>4, <1>5, <1>6, <1>7 DEF Disk, Temps

\* The maps an update makes visible are well typed.
LEMMA MapType ==
    ASSUME TypeOK
    PROVE  /\ dir.vis \in [Names -> Content]
           /\ IsDir(dir)
           /\ dir.dirty \subseteq Names
  BY DEF TypeOK, Dirs, IsDir

\* At the decision the visible map is idle or an intent decides in it.
LEMMA VisibleShape ==
    ASSUME Disk
    PROVE  /\ dir.vis[INTENT] # Absent => Pending(dir.vis, dir.vis[INTENT])
           /\ dir.vis[INTENT_TEMP] # Absent => \E i \in Intents : Staged(dir.vis, i)
           /\ dir.vis[INTENT] = Absent /\ dir.vis[INTENT_TEMP] = Absent => Idle(dir.vis)
           /\ dir.vis[PIN] \in Pins
<1>1. Sound(dir.vis)
  BY DEF Disk
<1>2. Idle(dir.vis) => dir.vis[INTENT] = Absent /\ dir.vis[INTENT_TEMP] = Absent /\ dir.vis[PIN] \in Pins
  BY DEF Idle
<1>3. ASSUME NEW i \in Intents, Staged(dir.vis, i)
      PROVE  dir.vis[INTENT] = Absent /\ dir.vis[INTENT_TEMP] # Absent /\ dir.vis[PIN] \in Pins
  <2>1. i \in Whole /\ i.expected \in Pins
    BY <1>3, IntentFacts DEF Staged
  <2> QED BY <1>3, <2>1, CutFacts DEF Staged
<1>4. Pending(dir.vis, dir.vis[INTENT]) =>
         dir.vis[INTENT] # Absent /\ dir.vis[INTENT_TEMP] = Absent /\ dir.vis[PIN] \in Pins
  BY IntentFacts DEF Pending
<1> QED BY <1>1, <1>2, <1>3, <1>4 DEF Sound

\* A whole staged intent is the one that is staged.
LEMMA WholeStaged ==
    ASSUME Disk, dir.vis[INTENT_TEMP] \in Intents
    PROVE  Staged(dir.vis, dir.vis[INTENT_TEMP])
<1>1. dir.vis[INTENT_TEMP] \in Whole
  BY DEF Whole
<1>2. dir.vis[INTENT_TEMP] # Absent /\ dir.vis[INTENT_TEMP] \notin Cuts
  BY <1>1, CutFacts
<1>3. PICK i \in Intents : Staged(dir.vis, i)
  BY <1>2, VisibleShape
<1>4. i \in Whole /\ Cut(i) \in Cuts
  BY <1>3, IntentFacts, CutFacts DEF Staged
<1>5. dir.vis[INTENT_TEMP] = i
  BY <1>2, <1>3, <1>4 DEF Staged
<1> QED BY <1>3, <1>5

LEMMA SyncFileStep ==
    ASSUME TypeOK, Disk, acked' = acked, NEW n, dir' = SyncFile(dir, n)
    PROVE  /\ Disk' /\ dir' \in Dirs(Names, Content)
           /\ dir'.vis = dir.vis /\ dir'.disk = dir.disk /\ dir'.dirty = dir.dirty \ {n}
<1>1. /\ IsDir(dir')
      /\ dir'.vis = dir.vis /\ dir'.disk = dir.disk /\ dir'.dirty = dir.dirty \ {n}
  BY MapType DEF SyncFile, IsDir
<1>2. dir.vis \in dir.disk
  BY DEF Disk
<1> QED BY <1>1, <1>2, KeptDir

LEMMA SyncDirStep ==
    ASSUME TypeOK, Disk, acked' = acked, dir' = SyncDir(dir)
    PROVE  /\ Disk' /\ dir' \in Dirs(Names, Content)
           /\ dir'.vis = dir.vis /\ dir'.disk = {dir.vis} /\ dir'.dirty \subseteq dir.dirty
<1>1. /\ IsDir(dir')
      /\ dir'.vis = dir.vis /\ dir'.disk = {dir.vis} /\ dir'.dirty \subseteq dir.dirty
  BY DEF SyncDir, IsDir
<1>2. dir.vis \in dir.disk
  BY DEF Disk
<1> QED BY <1>1, <1>2, KeptDir

LEMMA WriteFacts ==
    ASSUME TypeOK, NEW n \in Names, NEW v \in Content, dir' = Write(dir, n, v)
    PROVE  /\ IsDir(dir')
           /\ dir'.vis \in [Names -> Content] /\ Same(dir'.vis, dir.vis, {n}) /\ dir'.vis[n] = v
           /\ dir'.disk = dir.disk \cup {dir'.vis} /\ dir'.dirty = dir.dirty \cup {n}
  BY MapType DEF Write, Update, IsDir, Same

LEMMA RemoveFacts ==
    ASSUME TypeOK, NEW n \in Names, dir' = Delete(dir, n)
    PROVE  /\ IsDir(dir')
           /\ dir'.vis \in [Names -> Content] /\ Same(dir'.vis, dir.vis, {n}) /\ dir'.vis[n] = Absent
           /\ dir'.disk = dir.disk \cup {dir'.vis} /\ dir'.dirty = dir.dirty
  BY MapType, CutFacts DEF Delete, Update, IsDir, Same

LEMMA RenameFacts ==
    ASSUME TypeOK, NEW a \in Names, NEW b \in Names, a # b, a \notin dir.dirty, dir' = Rename(dir, a, b)
    PROVE  /\ IsDir(dir')
           /\ dir'.vis \in [Names -> Content] /\ Same(dir'.vis, dir.vis, {a, b})
           /\ dir'.vis[b] = dir.vis[a] /\ dir'.vis[a] = Absent
           /\ dir'.disk = dir.disk \cup {dir'.vis} /\ dir'.dirty = dir.dirty
<1>1. dir'.vis = [dir.vis EXCEPT ![b] = dir.vis[a], ![a] = Absent]
  BY DEF Rename, Update
<1>2. IsDir(dir') /\ dir'.disk = dir.disk \cup {dir'.vis} /\ dir'.dirty = dir.dirty
  BY DEF Rename, Update, IsDir
<1>3. /\ dir'.vis \in [Names -> Content] /\ dir'.vis[b] = dir.vis[a] /\ dir'.vis[a] = Absent
      /\ \A n \in Names \ {a, b} : dir'.vis[n] = dir.vis[n]
  BY <1>1, MapType, CutFacts
<1> QED BY <1>2, <1>3 DEF Same

-----------------------------------------------------------------------------
(* One step per action.                                                    *)

\* A call begins and ends; a staged intent is taken up.
LEMMA CallsKeep ==
    ASSUME StoreInv,
           \/ Open \/ Close \/ Recover
           \/ \E e \in {pin, intent.expected}, v \in Versions : Commit(e, v)
    PROVE  StoreInv'
<1>0. TypeOK /\ Disk
  BY DEF StoreInv
<1>1. CASE Open
  <2>1. dir' = dir /\ pc' = "open" /\ pin' \in Pins
    BY <1>1 DEF Open, Goto, Opens
  <2> QED BY <1>0, <1>1, <2>1 DEF Open, StoreInv, TypeOK, Disk, PinInHand, Deciding, Publishing,
            Steps, PublishSteps, PlacedSteps
<1>2. CASE Close
  BY <1>0, <1>2 DEF Close, Goto, StoreInv, TypeOK, Disk, PinInHand, Deciding, Publishing,
     Steps, PublishSteps, PlacedSteps
<1>3. ASSUME NEW e \in Pins, NEW v \in Versions \cup {NoVersion}, Enter(e, v)
      PROVE  StoreInv'
  <2>1. /\ dir' = dir /\ pin' = pin /\ acked' = acked /\ after' = after /\ faults' = faults
        /\ dir.vis[PIN] = pin
        /\ intent' \in [expected : Pins, ver : Versions \cup {NoVersion}]
    BY <1>3 DEF Enter
  <2>2. \/ pc' = "promoteSync" /\ dir.vis[INTENT_TEMP] \in Intents
        \/ pc' = "discard" /\ dir.vis[INTENT_TEMP] # Absent
        \/ pc' = "decide" /\ dir.vis[INTENT_TEMP] = Absent
    BY <1>3 DEF Enter, Has
  <2>3. TypeOK' /\ Disk'
    BY <1>0, <2>1, <2>2 DEF TypeOK, Disk, Steps
  <2>4. PinInHand'
    BY <2>1, <2>2 DEF PinInHand
  <2>5. Deciding'
    BY <2>1, <2>2 DEF Deciding
  <2>6. Publishing'
    BY <2>2 DEF Publishing, PublishSteps, PlacedSteps
  <2> QED BY <2>3, <2>4, <2>5, <2>6 DEF StoreInv
<1>4. pin \in Pins /\ intent.expected \in Pins
  BY <1>0 DEF TypeOK
<1> QED BY <1>1, <1>2, <1>3, <1>4 DEF Commit, Recover

\* Barriers of the promotion and of finish_intent: nothing visible changes.
LEMMA BarriersKeep ==
    ASSUME StoreInv,
           \/ PromoteSync \/ PromoteDir \/ DiscardDir \/ SyncIntent \/ IntentDir \/ ResyncIntent
           \/ ResyncDir \/ SyncBundleTemp \/ BundleDir \/ SyncPinTemp \/ PinDir \/ IntentGoneDir
    PROVE  StoreInv'
<1> USE DEF Goto
<1>0. TypeOK /\ Disk /\ PinInHand /\ Deciding /\ Publishing
  BY DEF StoreInv
<1>1. pin' = pin /\ intent' = intent /\ acked' = acked /\ faults' = faults
  BY DEF PromoteSync, PromoteDir, DiscardDir, SyncIntent, IntentDir, ResyncIntent,
         ResyncDir, SyncBundleTemp, BundleDir, SyncPinTemp, PinDir, IntentGoneDir
<1>2. after' \in {after, "ack"}
  BY DEF PromoteSync, PromoteDir, DiscardDir, SyncIntent, IntentDir, ResyncIntent,
         ResyncDir, SyncBundleTemp, BundleDir, SyncPinTemp, PinDir, IntentGoneDir
<1>3. \/ dir' = SyncDir(dir)
      \/ \E n \in {INTENT, INTENT_TEMP, BUNDLE_TEMP, PIN_TEMP} : dir' = SyncFile(dir, n)
  BY DEF PromoteSync, PromoteDir, DiscardDir, SyncIntent, IntentDir, ResyncIntent,
         ResyncDir, SyncBundleTemp, BundleDir, SyncPinTemp, PinDir, IntentGoneDir
<1>4. /\ Disk' /\ dir' \in Dirs(Names, Content) /\ dir'.vis = dir.vis
      /\ dir'.dirty \subseteq dir.dirty /\ dir'.disk \subseteq dir.disk
  <2>1. CASE dir' = SyncDir(dir)
    BY <1>0, <1>1, <2>1, SyncDirStep DEF Disk
  <2>2. ASSUME NEW n, dir' = SyncFile(dir, n)
        PROVE  /\ Disk' /\ dir' \in Dirs(Names, Content) /\ dir'.vis = dir.vis
               /\ dir'.dirty \subseteq dir.dirty /\ dir'.disk \subseteq dir.disk
    BY <1>0, <1>1, <2>2, SyncFileStep
  <2> QED BY <1>3, <2>1, <2>2
<1>5. pc' \in Steps
  BY DEF PromoteSync, PromoteDir, DiscardDir, SyncIntent, IntentDir, ResyncIntent, Steps,
         ResyncDir, SyncBundleTemp, BundleDir, SyncPinTemp, PinDir, IntentGoneDir
<1>6. TypeOK'
  BY <1>0, <1>1, <1>2, <1>4, <1>5 DEF TypeOK
<1>7. PinInHand'
  <2>1. CASE PinDir
    <3>1. dir'.disk = {dir.vis}
      BY <1>0, <1>1, <2>1, SyncDirStep DEF PinDir
    <3> QED BY <1>0, <1>1, <1>4, <2>1, <3>1 DEF PinDir, PinInHand
  <2>2. CASE ~PinDir
    <3>1. pc' \notin {"pinDir", "readback"} /\ pc \in Steps \ {"pinDir", "readback"}
      BY <2>2 DEF PromoteSync, PromoteDir, DiscardDir, SyncIntent, IntentDir, ResyncIntent,
         ResyncDir, SyncBundleTemp, BundleDir, SyncPinTemp, IntentGoneDir, Steps
    <3> QED BY <1>0, <1>1, <1>4, <3>1 DEF PinInHand
  <2> QED BY <2>1, <2>2
<1>8. CASE PromoteSync
  <2>1. INTENT_TEMP \notin dir'.dirty
    BY <1>0, <1>1, <1>8, SyncFileStep DEF PromoteSync
  <2>2. Deciding' /\ Publishing'
    BY <1>0, <1>1, <1>4, <1>8, <2>1 DEF PromoteSync, Deciding, Publishing, PublishSteps, PlacedSteps
  <2> QED BY <1>4, <1>6, <1>7, <2>2 DEF StoreInv
<1>9. CASE PromoteDir
  <2>1. Deciding' /\ Publishing'
    BY <1>0, <1>1, <1>4, <1>9 DEF PromoteDir, Deciding, Publishing, PublishSteps, PlacedSteps
  <2> QED BY <1>4, <1>6, <1>7, <2>1 DEF StoreInv
<1>10. CASE DiscardDir
  <2>1. Deciding' /\ Publishing'
    BY <1>0, <1>1, <1>4, <1>10 DEF DiscardDir, Deciding, Publishing, PublishSteps, PlacedSteps
  <2> QED BY <1>4, <1>6, <1>7, <2>1 DEF StoreInv
<1>11. CASE SyncIntent
  <2>1. INTENT_TEMP \notin dir'.dirty
    BY <1>0, <1>1, <1>11, SyncFileStep DEF SyncIntent
  <2>2. Deciding' /\ Publishing'
    BY <1>0, <1>1, <1>4, <1>11, <2>1 DEF SyncIntent, Deciding, Publishing, PublishSteps, PlacedSteps
  <2> QED BY <1>4, <1>6, <1>7, <2>2 DEF StoreInv
<1>12. CASE IntentDir
  <2>1. Deciding' /\ Publishing'
    BY <1>0, <1>1, <1>4, <1>12 DEF IntentDir, Deciding, Publishing, PublishSteps, PlacedSteps, Pending
  <2> QED BY <1>4, <1>6, <1>7, <2>1 DEF StoreInv
<1>13. CASE ResyncIntent
  <2>1. Deciding' /\ Publishing'
    BY <1>0, <1>1, <1>4, <1>13 DEF ResyncIntent, Deciding, Publishing, PublishSteps, PlacedSteps, Pending
  <2> QED BY <1>4, <1>6, <1>7, <2>1 DEF StoreInv
<1>14. CASE ResyncDir
  <2>1. Deciding' /\ Publishing'
    BY <1>0, <1>1, <1>4, <1>14 DEF ResyncDir, Deciding, Publishing, PublishSteps, PlacedSteps, Pending
  <2> QED BY <1>4, <1>6, <1>7, <2>1 DEF StoreInv
<1>15. CASE SyncBundleTemp
  <2>1. BUNDLE_TEMP \notin dir'.dirty
    BY <1>0, <1>1, <1>15, SyncFileStep DEF SyncBundleTemp
  <2>2. Deciding' /\ Publishing'
    BY <1>0, <1>1, <1>4, <1>15, <2>1 DEF SyncBundleTemp, Deciding, Publishing, PublishSteps, PlacedSteps, Pending
  <2> QED BY <1>4, <1>6, <1>7, <2>2 DEF StoreInv
<1>16. CASE BundleDir
  <2>1. Deciding' /\ Publishing'
    BY <1>0, <1>1, <1>4, <1>16 DEF BundleDir, Deciding, Publishing, PublishSteps, PlacedSteps, Pending
  <2> QED BY <1>4, <1>6, <1>7, <2>1 DEF StoreInv
<1>17. CASE SyncPinTemp
  <2>1. PIN_TEMP \notin dir'.dirty
    BY <1>0, <1>1, <1>17, SyncFileStep DEF SyncPinTemp
  <2>2. Deciding' /\ Publishing'
    BY <1>0, <1>1, <1>4, <1>17, <2>1 DEF SyncPinTemp, Deciding, Publishing, PublishSteps, PlacedSteps, Pending
  <2> QED BY <1>4, <1>6, <1>7, <2>2 DEF StoreInv
<1>18. CASE PinDir
  <2>1. Deciding' /\ Publishing'
    BY <1>0, <1>1, <1>4, <1>18 DEF PinDir, Deciding, Publishing, PublishSteps, PlacedSteps, Pending
  <2> QED BY <1>4, <1>6, <1>7, <2>1 DEF StoreInv
<1>19. CASE IntentGoneDir
  <2>1. Deciding' /\ Publishing'
    BY <1>0, <1>1, <1>4, <1>19 DEF IntentGoneDir, Deciding, Publishing, PublishSteps, PlacedSteps, Idle
  <2> QED BY <1>4, <1>6, <1>7, <2>1 DEF StoreInv
<1> QED BY <1>8, <1>9, <1>10, <1>11, <1>12, <1>13, <1>14, <1>15, <1>16, <1>17, <1>18, <1>19

\* The decision and the clean-up.
LEMMA DecisionsKeep ==
    ASSUME StoreInv,
           \/ Resume \/ Begin \/ Reject \/ RemoveObsolete \/ Cleaned \/ CleanupDir \/ PinReplaced
    PROVE  StoreInv'
<1> USE DEF Goto
<1>0. TypeOK /\ Disk /\ PinInHand /\ Deciding /\ Publishing
  BY DEF StoreInv
<1>1. CASE Resume
  <2>1. dir' = dir /\ pin' = pin /\ pc = "decide" /\ pc' = "resyncIntent" /\ intent' = dir.vis[INTENT]
        /\ after' = after /\ acked' = acked /\ faults' = faults
    BY <1>1 DEF Resume
  <2>2. Pending(dir.vis, intent') /\ intent' \in Intents
    BY <1>0, <1>1, <2>1, VisibleShape, IntentFacts DEF Resume, CanResume, Has, Pending
  <2>3. TypeOK' /\ Disk'
    BY <1>0, <2>1, <2>2 DEF TypeOK, Disk, Steps, Intents
  <2>4. PinInHand' /\ Deciding'
    BY <1>0, <2>1 DEF PinInHand, Deciding, Steps
  <2>5. Publishing'
    BY <2>1, <2>2 DEF Publishing, PlacedSteps, Pending
  <2> QED BY <2>3, <2>4, <2>5 DEF StoreInv
<1>2. CASE Begin
  <2>1. dir' = dir /\ pin' = pin /\ pc = "decide" /\ pc' = "cleanup" /\ intent' = intent
        /\ acked' = acked /\ faults' = faults /\ CanBegin
        /\ after' = IF intent.ver \in {NoVersion, pin.ver} THEN "ack" ELSE "newIntent"
    BY <1>2 DEF Begin
  <2>2. Idle(dir.vis)
    BY <1>0, <2>1, VisibleShape DEF CanBegin, Has, Deciding
  <2>3. after' = "newIntent" => Sensible(intent) /\ intent.expected = pin
    <3>1. SUFFICES ASSUME after' = "newIntent"
                   PROVE  Sensible(intent) /\ intent.expected = pin
      OBVIOUS
    <3>2. intent.ver \notin {NoVersion, pin.ver}
      BY <2>1, <3>1
    <3>3. /\ intent.expected = pin /\ <<intent.ver, pin.ver>> \in Extends /\ pin.gen < MaxGen
      BY <2>1, <3>2 DEF CanBegin
    <3>4. intent \in Intents
      BY <1>0, <3>2 DEF TypeOK, Intents
    <3> QED BY <3>2, <3>3, <3>4 DEF Sensible
  <2>4. TypeOK' /\ Disk'
    BY <1>0, <2>1 DEF TypeOK, Disk, Steps
  <2>5. PinInHand'
    BY <1>0, <2>1 DEF PinInHand, Steps
  <2>6. Deciding'
    BY <2>1, <2>2, <2>3 DEF Deciding, Sensible, Idle
  <2>7. Publishing'
    BY <2>1 DEF Publishing, PublishSteps, PlacedSteps
  <2> QED BY <2>4, <2>5, <2>6, <2>7 DEF StoreInv
<1>3. CASE Reject
  BY <1>0, <1>3 DEF Reject, StoreInv, TypeOK, Disk, PinInHand, Deciding, Publishing, Steps,
     PublishSteps, PlacedSteps
<1>4. CASE RemoveObsolete
  <2>1. PICK v \in Obsolete : dir' = Delete(dir, v)
    BY <1>4 DEF RemoveObsolete
  <2>2. pin' = pin /\ pc = "cleanup" /\ pc' = "cleanup" /\ intent' = intent
        /\ after' = after /\ acked' = acked /\ faults' = faults
    BY <1>4 DEF RemoveObsolete
  <2>3. dir.vis[PIN] = pin /\ Idle(dir.vis) /\ v \in Versions /\ v \in Names /\ v # dir.vis[PIN].ver
    BY <1>0, <2>1, <2>2, NameFacts DEF PinInHand, Deciding, Obsolete, Steps
  <2>4. /\ IsDir(dir')
        /\ dir'.vis \in [Names -> Content] /\ Same(dir'.vis, dir.vis, {v}) /\ dir'.vis[v] = Absent
        /\ dir'.disk = dir.disk \cup {dir'.vis} /\ dir'.dirty = dir.dirty
    BY <1>0, <2>1, <2>3, RemoveFacts
  <2>5. Idle(dir'.vis) /\ dir'.vis[PIN] = dir.vis[PIN]
    BY <2>3, <2>4, DropCopy
  <2>6. Fits(dir'.vis)
    BY <2>4, <2>5 DEF Fits, Sound
  <2>7. dir.vis[INTENT] = Absent
    BY <2>3 DEF Idle
  <2>8. Disk' /\ dir' \in Dirs(Names, Content)
    BY <1>0, <2>2, <2>4, <2>5, <2>6, <2>7, NewMap DEF Disk, Temps
  <2>9. TypeOK'
    BY <1>0, <2>2, <2>8 DEF TypeOK
  <2>10. PinInHand'
    BY <2>2, <2>3, <2>5 DEF PinInHand
  <2>11. Deciding'
    BY <1>0, <2>2, <2>5 DEF Deciding, Sensible
  <2>12. Publishing'
    BY <2>2 DEF Publishing, PublishSteps, PlacedSteps
  <2> QED BY <2>8, <2>9, <2>10, <2>11, <2>12 DEF StoreInv
<1>5. CASE Cleaned
  <2>1. dir' = dir /\ pin' = pin /\ pc = "cleanup" /\ pc' = "cleanupDir" /\ intent' = intent
        /\ after' = after /\ acked' = acked /\ faults' = faults /\ Obsolete = {}
    BY <1>5 DEF Cleaned
  <2>2. dir.vis[PIN] = pin /\ Idle(dir.vis)
    BY <1>0, <2>1 DEF PinInHand, Deciding, Steps
  <2>3. Copies(dir.vis, {pin.ver})
    <3>1. \A v \in Versions : v # pin.ver => dir.vis[v] = Absent
      BY <2>1 DEF Obsolete, Has
    <3>2. dir.vis[pin.ver] = pin.ver
      BY <2>2 DEF Idle
    <3> QED BY <3>1, <3>2 DEF Copies
  <2>4. TypeOK' /\ Disk'
    BY <1>0, <2>1 DEF TypeOK, Disk, Steps
  <2>5. PinInHand'
    BY <2>1, <2>2 DEF PinInHand
  <2>6. Deciding'
    BY <1>0, <2>1, <2>2, <2>3 DEF Deciding
  <2>7. Publishing'
    BY <2>1 DEF Publishing, PublishSteps, PlacedSteps
  <2> QED BY <2>4, <2>5, <2>6, <2>7 DEF StoreInv
<1>6. CASE CleanupDir
  <2>1. /\ pin' = pin /\ intent' = intent /\ after' = after /\ faults' = faults
        /\ pc = "cleanupDir" /\ dir' = SyncDir(dir)
        /\ \/ pc' = "open" /\ acked' = acked \cup {pin}
           \/ pc' = "writeIntent" /\ acked' = acked /\ after # "ack"
    BY <1>6 DEF CleanupDir
  <2>2. dir.vis[PIN] = pin /\ Idle(dir.vis) /\ Copies(dir.vis, {pin.ver})
    BY <1>0, <2>1 DEF PinInHand, Deciding, Steps
  <2>3. /\ IsDir(dir')
        /\ dir'.vis = dir.vis /\ dir'.disk = {dir.vis} /\ dir'.dirty \subseteq dir.dirty
    BY <2>1 DEF SyncDir, IsDir
  <2>4. dir' \in Dirs(Names, Content)
    BY <1>0, <2>3 DEF TypeOK, Dirs, IsDir
  <2>5. \A p \in acked' : Later(pin, p)
    <3>1. \A p \in acked : Later(pin, p)
      BY <1>0, <2>2 DEF Disk
    <3>2. Later(pin, pin)
      BY <1>0 DEF Later, TypeOK, Pins
    <3> QED BY <2>1, <3>1, <3>2
  <2>6. Disk'
    <3>1. dir.vis \in dir.disk /\ Sound(dir.vis) /\ dir.dirty \subseteq Temps
      BY <1>0 DEF Disk, Temps
    <3> QED BY <2>2, <2>3, <2>5, <3>1 DEF Disk, Temps
  <2>7. TypeOK'
    BY <1>0, <2>1, <2>4 DEF TypeOK, Steps
  <2>8. PinInHand'
    BY <2>1, <2>2, <2>3 DEF PinInHand, Steps
  <2>9. Deciding'
    <3>1. after # "ack" => Sensible(intent) /\ intent.expected = pin
      BY <1>0, <2>1 DEF Deciding, TypeOK
    <3> QED BY <2>1, <2>2, <2>3, <3>1 DEF Deciding
  <2>10. Publishing'
    BY <2>1 DEF Publishing, PublishSteps, PlacedSteps
  <2> QED BY <2>6, <2>7, <2>8, <2>9, <2>10 DEF StoreInv
<1>7. CASE PinReplaced
  <2>1. dir' = dir /\ pin' = pin /\ pc = "pin" /\ pc' = "pinDir" /\ intent' = intent
        /\ after' = after /\ acked' = acked /\ faults' = faults
        /\ dir.vis[PIN] = NextPin(intent)
    BY <1>7 DEF PinReplaced
  <2>2. TypeOK' /\ Disk'
    BY <1>0, <2>1 DEF TypeOK, Disk, Steps
  <2>3. PinInHand' /\ Deciding'
    BY <2>1 DEF PinInHand, Deciding
  <2>4. Publishing'
    BY <1>0, <2>1 DEF Publishing, PublishSteps, PlacedSteps
  <2> QED BY <2>2, <2>3, <2>4 DEF StoreInv
<1> QED BY <1>1, <1>2, <1>3, <1>4, <1>5, <1>6, <1>7

\* The intent is staged, given up or made authoritative.
LEMMA IntentsKeep ==
    ASSUME StoreInv, Discard \/ WriteIntent \/ PromoteRename \/ RenameIntent
    PROVE  StoreInv'
<1> USE DEF Goto
<1>0. TypeOK /\ Disk /\ PinInHand /\ Deciding /\ Publishing
  BY DEF StoreInv
<1>1. /\ pin' = pin /\ intent' = intent /\ after' = after /\ acked' = acked /\ faults' = faults
      /\ dir.vis[PIN] = pin
  BY <1>0 DEF Discard, WriteIntent, PromoteRename, RenameIntent, PinInHand, Steps
<1>2. CASE Discard
  <2>1. pc = "discard" /\ pc' = "discardDir" /\ dir' = Delete(dir, INTENT_TEMP)
    BY <1>2 DEF Discard
  <2>2. PICK i \in Intents : Staged(dir.vis, i)
    BY <1>0, <2>1, VisibleShape DEF Deciding
  <2>3. /\ IsDir(dir') /\ dir'.vis \in [Names -> Content] /\ Same(dir'.vis, dir.vis, {INTENT_TEMP})
        /\ dir'.vis[INTENT_TEMP] = Absent
        /\ dir'.disk = dir.disk \cup {dir'.vis} /\ dir'.dirty = dir.dirty
    BY <1>0, <2>1, NameFacts, RemoveFacts
  <2>4. Idle(dir'.vis) /\ dir'.vis[PIN] = dir.vis[PIN]
    BY <2>2, <2>3, UnstageIntent
  <2>5. Fits(dir'.vis) /\ dir.vis[INTENT] = Absent
    BY <2>2, <2>3, <2>4 DEF Fits, Sound, Staged
  <2>6. Disk' /\ dir' \in Dirs(Names, Content)
    BY <1>0, <1>1, <2>3, <2>4, <2>5, NewMap DEF Disk, Temps
  <2>7. TypeOK'
    BY <1>0, <1>1, <2>1, <2>6 DEF TypeOK, Steps
  <2>8. PinInHand' /\ Deciding'
    BY <1>1, <2>1, <2>3, <2>4 DEF PinInHand, Deciding
  <2>9. Publishing'
    BY <2>1 DEF Publishing, PublishSteps, PlacedSteps
  <2> QED BY <2>6, <2>7, <2>8, <2>9 DEF StoreInv
<1>3. CASE WriteIntent
  <2>1. pc = "writeIntent" /\ pc' = "syncIntent" /\ dir' = Write(dir, INTENT_TEMP, intent)
    BY <1>3 DEF WriteIntent
  <2>2. Idle(dir.vis) /\ Copies(dir.vis, {dir.vis[PIN].ver}) /\ Sensible(intent)
        /\ intent.expected = dir.vis[PIN]
    BY <1>0, <1>1, <2>1 DEF Deciding
  <2>3. /\ IsDir(dir') /\ dir'.vis \in [Names -> Content] /\ Same(dir'.vis, dir.vis, {INTENT_TEMP})
        /\ dir'.vis[INTENT_TEMP] = intent
        /\ dir'.disk = dir.disk \cup {dir'.vis} /\ dir'.dirty = dir.dirty \cup {INTENT_TEMP}
    BY <1>0, <2>1, <2>2, NameFacts, IntentFacts, WriteFacts
  <2>4. Staged(dir'.vis, intent)
    BY <2>2, <2>3, StageIntent
  <2>5. intent \in Intents /\ Fits(dir'.vis) /\ dir'.vis[PIN] = dir.vis[PIN] /\ dir.vis[INTENT] = Absent
    BY <2>2, <2>3, <2>4 DEF Fits, Sound, Staged, Sensible, Idle
  <2>6. Disk' /\ dir' \in Dirs(Names, Content)
    BY <1>0, <1>1, <2>3, <2>5, NewMap DEF Disk, Temps
  <2>7. TypeOK'
    BY <1>0, <1>1, <2>1, <2>6 DEF TypeOK, Steps
  <2>8. PinInHand' /\ Deciding'
    BY <1>1, <2>1, <2>3, <2>5 DEF PinInHand, Deciding
  <2>9. Publishing'
    BY <2>1 DEF Publishing, PublishSteps, PlacedSteps
  <2> QED BY <2>6, <2>7, <2>8, <2>9 DEF StoreInv
<1>4. CASE PromoteRename \/ RenameIntent
  <2> DEFINE i == dir.vis[INTENT_TEMP]
  <2>1. /\ dir' = Rename(dir, INTENT_TEMP, INTENT)
        /\ pc' \in {"promoteDir", "intentDir"} /\ (pc' = "intentDir" => pc = "renameIntent")
        /\ pc \in {"promoteRename", "renameIntent"}
    BY <1>4 DEF PromoteRename, RenameIntent
  <2>2. i \in Intents /\ INTENT_TEMP \notin dir.dirty /\ (pc' = "intentDir" => intent = i)
    BY <1>0, <2>1 DEF Deciding
  <2>3. Staged(dir.vis, i)
    BY <1>0, <2>2, WholeStaged
  <2>4. /\ IsDir(dir') /\ dir'.vis \in [Names -> Content] /\ Same(dir'.vis, dir.vis, {INTENT_TEMP, INTENT})
        /\ dir'.vis[INTENT] = i /\ dir'.vis[INTENT_TEMP] = Absent
        /\ dir'.disk = dir.disk \cup {dir'.vis} /\ dir'.dirty = dir.dirty
    BY <1>0, <2>1, <2>2, NameFacts, RenameFacts
  <2>5. Pending(dir'.vis, i) /\ dir'.vis[PIN] = dir.vis[PIN]
    BY <2>3, <2>4, DecideIntent
  <2>6. Fits(dir'.vis) /\ dir'.vis[INTENT] # Absent
    BY <2>3, <2>4, <2>5, IntentFacts DEF Fits, Sound, Staged
  <2>7. Disk' /\ dir' \in Dirs(Names, Content)
    BY <1>0, <1>1, <2>4, <2>5, <2>6, NewMap DEF Disk, Temps
  <2>8. TypeOK'
    BY <1>0, <1>1, <2>1, <2>7 DEF TypeOK, Steps
  <2>9. PinInHand' /\ Deciding'
    BY <1>1, <2>1, <2>4, <2>5 DEF PinInHand, Deciding
  <2>10. Publishing'
    BY <1>1, <2>1, <2>2, <2>5 DEF Publishing, PublishSteps, PlacedSteps
  <2> QED BY <2>7, <2>8, <2>9, <2>10 DEF StoreInv
<1> QED BY <1>2, <1>3, <1>4

\* What follows from what is below follows from what is above.
LEMMA LaterNext ==
    ASSUME NEW i, Sensible(i), NEW p \in Pins, Later(i.expected, p)
    PROVE  Later(NextPin(i), p)
<1>1. /\ NextPin(i) \in Pins /\ NextPin(i).gen = i.expected.gen + 1 /\ NextPin(i).ver = i.ver
      /\ i.expected.gen \in 0..MaxGen /\ i.ver \in Versions /\ i.expected.ver \in Versions
      /\ i.expected \in Pins
  BY IntentFacts
<1>2. p.gen \in 0..MaxGen /\ p.ver \in Versions
  BY DEF Pins
<1>3. NextPin(i).gen > p.gen
  BY <1>1, <1>2 DEF Later
<1>4. <<i.ver, i.expected.ver>> \in Extends
  BY DEF Sensible
<1>5. <<i.ver, p.ver>> \in Extends
  <2>1. CASE i.expected = p
    BY <1>4, <2>1
  <2>2. CASE i.expected # p
    BY <1>1, <1>2, <1>4, <2>2 DEF Later
  <2> QED BY <2>1, <2>2
<1> QED BY <1>1, <1>2, <1>3, <1>5 DEF Later

\* finish_intent puts the snapshot and the pin in place.
LEMMA PublishesKeep ==
    ASSUME StoreInv,
           KeepBundle \/ WriteBundleTemp \/ RenameBundle \/ WritePinTemp \/ RenamePin \/ Readback
    PROVE  StoreInv'
<1> USE DEF Goto
<1>0. TypeOK /\ Disk /\ PinInHand /\ Deciding /\ Publishing
  BY DEF StoreInv
<1>1. intent' = intent /\ after' = after /\ acked' = acked /\ faults' = faults
  BY DEF KeepBundle, WriteBundleTemp, RenameBundle, WritePinTemp, RenamePin, Readback
<1>2. Pending(dir.vis, intent)
  BY <1>0 DEF KeepBundle, WriteBundleTemp, RenameBundle, WritePinTemp, RenamePin, Readback,
     Publishing, PublishSteps, PlacedSteps
<1>3. /\ Sensible(intent) /\ intent.ver \in Versions /\ intent.ver \in Names /\ intent.ver \in Content
      /\ NextPin(intent) \in Content /\ dir.vis[INTENT] = intent /\ intent # Absent
      /\ dir.vis[INTENT_TEMP] = Absent /\ NextPin(intent) \in Pins
      /\ intent.ver \notin {PIN, INTENT, INTENT_TEMP, BUNDLE_TEMP, PIN_TEMP}
  BY <1>2, IntentFacts, CutFacts, NameFacts DEF Pending
<1>4. CASE KeepBundle
  <2>1. /\ pc = "bundle" /\ pc' = "bundleDir" /\ dir' = Delete(SyncFile(dir, intent.ver), BUNDLE_TEMP)
        /\ dir.vis[intent.ver] = intent.ver /\ pin' = pin
    BY <1>4 DEF KeepBundle
  <2>2. /\ IsDir(dir') /\ dir'.vis \in [Names -> Content] /\ Same(dir'.vis, dir.vis, {BUNDLE_TEMP})
        /\ dir'.vis[BUNDLE_TEMP] = Absent
        /\ dir'.disk = dir.disk \cup {dir'.vis} /\ dir'.dirty \subseteq dir.dirty
    BY <1>0, <2>1, MapType, CutFacts, NameFacts DEF Delete, Update, SyncFile, IsDir, Same
  <2>3. Same(dir'.vis, dir.vis, {BUNDLE_TEMP, PIN_TEMP}) /\ dir'.vis[PIN_TEMP] = dir.vis[PIN_TEMP]
        /\ dir'.vis[INTENT] = dir.vis[INTENT] /\ dir'.vis[INTENT_TEMP] = dir.vis[INTENT_TEMP]
    BY <2>2, NameFacts DEF Same
  <2>4. Pending(dir'.vis, intent) /\ dir'.vis[PIN] = dir.vis[PIN] /\ dir'.vis[intent.ver] = intent.ver
    <3>1. PrefixOf(dir'.vis[BUNDLE_TEMP], intent.ver) /\ PrefixOf(dir'.vis[PIN_TEMP], NextPin(intent))
      BY <1>2, <2>2, <2>3 DEF PrefixOf, Pending
    <3>2. Pending(dir'.vis, intent) /\ dir'.vis[PIN] = dir.vis[PIN]
      BY <1>2, <2>3, <3>1, ScratchPending
    <3>3. dir'.vis[intent.ver] = dir.vis[intent.ver]
      BY <1>3, <2>3 DEF Same
    <3> QED BY <2>1, <3>2, <3>3
  <2>5. Fits(dir'.vis)
    BY <1>3, <2>2, <2>3, <2>4 DEF Fits, Sound
  <2>6. Disk' /\ dir' \in Dirs(Names, Content)
    BY <1>0, <1>1, <1>3, <2>2, <2>3, <2>4, <2>5, NewMap DEF Disk, Temps
  <2>7. TypeOK'
    BY <1>0, <1>1, <2>1, <2>6 DEF TypeOK, Steps
  <2>8. PinInHand' /\ Deciding'
    BY <1>0, <2>1, <2>4 DEF PinInHand, Deciding, Steps
  <2>9. Publishing'
    BY <1>1, <2>1, <2>2, <2>4 DEF Publishing, PublishSteps, PlacedSteps
  <2> QED BY <2>6, <2>7, <2>8, <2>9 DEF StoreInv
<1>5. CASE WriteBundleTemp
  <2>1. /\ pc = "bundle" /\ pc' = "syncBundleTemp" /\ dir' = Write(dir, BUNDLE_TEMP, intent.ver)
        /\ pin' = pin
    BY <1>5 DEF WriteBundleTemp
  <2>2. /\ IsDir(dir') /\ dir'.vis \in [Names -> Content] /\ Same(dir'.vis, dir.vis, {BUNDLE_TEMP})
        /\ dir'.vis[BUNDLE_TEMP] = intent.ver
        /\ dir'.disk = dir.disk \cup {dir'.vis} /\ dir'.dirty = dir.dirty \cup {BUNDLE_TEMP}
    BY <1>0, <1>3, <2>1, NameFacts, WriteFacts
  <2>3. Same(dir'.vis, dir.vis, {BUNDLE_TEMP, PIN_TEMP}) /\ dir'.vis[PIN_TEMP] = dir.vis[PIN_TEMP]
        /\ dir'.vis[INTENT] = dir.vis[INTENT] /\ dir'.vis[INTENT_TEMP] = dir.vis[INTENT_TEMP]
    BY <2>2, NameFacts DEF Same
  <2>4. Pending(dir'.vis, intent) /\ dir'.vis[PIN] = dir.vis[PIN]
    <3>1. PrefixOf(dir'.vis[BUNDLE_TEMP], intent.ver) /\ PrefixOf(dir'.vis[PIN_TEMP], NextPin(intent))
      BY <1>2, <2>2, <2>3 DEF PrefixOf, Pending
    <3> QED BY <1>2, <2>3, <3>1, ScratchPending
  <2>5. Fits(dir'.vis)
    BY <1>3, <2>2, <2>3, <2>4 DEF Fits, Sound
  <2>6. Disk' /\ dir' \in Dirs(Names, Content)
    BY <1>0, <1>1, <1>3, <2>2, <2>3, <2>4, <2>5, NewMap DEF Disk, Temps
  <2>7. TypeOK'
    BY <1>0, <1>1, <2>1, <2>6 DEF TypeOK, Steps
  <2>8. PinInHand' /\ Deciding'
    BY <1>0, <2>1, <2>4 DEF PinInHand, Deciding, Steps
  <2>9. Publishing'
    BY <1>1, <2>1, <2>2, <2>4 DEF Publishing, PublishSteps, PlacedSteps
  <2> QED BY <2>6, <2>7, <2>8, <2>9 DEF StoreInv
<1>6. CASE RenameBundle
  <2>1. /\ pc = "renameBundle" /\ pc' = "bundleDir" /\ dir' = Rename(dir, BUNDLE_TEMP, intent.ver)
        /\ pin' = pin
    BY <1>6 DEF RenameBundle
  <2>2. BUNDLE_TEMP \notin dir.dirty /\ dir.vis[BUNDLE_TEMP] = intent.ver
    BY <1>0, <2>1 DEF Publishing
  <2>3. /\ IsDir(dir') /\ dir'.vis \in [Names -> Content] /\ Same(dir'.vis, dir.vis, {BUNDLE_TEMP, intent.ver})
        /\ dir'.vis[intent.ver] = intent.ver /\ dir'.vis[BUNDLE_TEMP] = Absent
        /\ dir'.disk = dir.disk \cup {dir'.vis} /\ dir'.dirty = dir.dirty
    BY <1>0, <1>3, <2>1, <2>2, NameFacts, RenameFacts
  <2>4. Pending(dir'.vis, intent) /\ dir'.vis[PIN] = dir.vis[PIN]
    BY <1>2, <2>3, PlaceBundle
  <2>5. Fits(dir'.vis) /\ dir'.vis[INTENT] # Absent
    BY <1>3, <2>3, <2>4 DEF Fits, Sound, Pending
  <2>6. Disk' /\ dir' \in Dirs(Names, Content)
    BY <1>0, <1>1, <2>3, <2>4, <2>5, NewMap DEF Disk, Temps
  <2>7. TypeOK'
    BY <1>0, <1>1, <2>1, <2>6 DEF TypeOK, Steps
  <2>8. PinInHand' /\ Deciding'
    BY <1>0, <2>1, <2>4 DEF PinInHand, Deciding, Steps
  <2>9. Publishing'
    BY <1>1, <2>1, <2>3, <2>4 DEF Publishing, PublishSteps, PlacedSteps
  <2> QED BY <2>6, <2>7, <2>8, <2>9 DEF StoreInv
<1>7. CASE WritePinTemp
  <2>1. /\ pc = "pin" /\ pc' = "syncPinTemp" /\ dir' = Write(dir, PIN_TEMP, NextPin(intent))
        /\ pin' = pin
    BY <1>7 DEF WritePinTemp
  <2>2. /\ IsDir(dir') /\ dir'.vis \in [Names -> Content] /\ Same(dir'.vis, dir.vis, {PIN_TEMP})
        /\ dir'.vis[PIN_TEMP] = NextPin(intent)
        /\ dir'.disk = dir.disk \cup {dir'.vis} /\ dir'.dirty = dir.dirty \cup {PIN_TEMP}
    BY <1>0, <1>3, <2>1, NameFacts, WriteFacts
  <2>3. Same(dir'.vis, dir.vis, {BUNDLE_TEMP, PIN_TEMP}) /\ dir'.vis[BUNDLE_TEMP] = dir.vis[BUNDLE_TEMP]
        /\ dir'.vis[INTENT] = dir.vis[INTENT] /\ dir'.vis[INTENT_TEMP] = dir.vis[INTENT_TEMP]
    BY <2>2, NameFacts DEF Same
  <2>4. Pending(dir'.vis, intent) /\ dir'.vis[PIN] = dir.vis[PIN] /\ dir'.vis[intent.ver] = dir.vis[intent.ver]
    <3>1. PrefixOf(dir'.vis[BUNDLE_TEMP], intent.ver) /\ PrefixOf(dir'.vis[PIN_TEMP], NextPin(intent))
      BY <1>2, <2>2, <2>3 DEF PrefixOf, Pending
    <3>2. Pending(dir'.vis, intent) /\ dir'.vis[PIN] = dir.vis[PIN]
      BY <1>2, <2>3, <3>1, ScratchPending
    <3>3. dir'.vis[intent.ver] = dir.vis[intent.ver]
      BY <1>3, <2>3 DEF Same
    <3> QED BY <3>2, <3>3
  <2>5. Fits(dir'.vis)
    BY <1>3, <2>2, <2>3, <2>4 DEF Fits, Sound
  <2>6. Disk' /\ dir' \in Dirs(Names, Content)
    BY <1>0, <1>1, <1>3, <2>2, <2>3, <2>4, <2>5, NewMap DEF Disk, Temps
  <2>7. TypeOK'
    BY <1>0, <1>1, <2>1, <2>6 DEF TypeOK, Steps
  <2>8. PinInHand' /\ Deciding'
    BY <1>0, <2>1, <2>4 DEF PinInHand, Deciding, Steps
  <2>9. Publishing'
    BY <1>0, <1>1, <2>1, <2>2, <2>3, <2>4 DEF Publishing, PublishSteps, PlacedSteps
  <2> QED BY <2>6, <2>7, <2>8, <2>9 DEF StoreInv
<1>8. CASE RenamePin
  <2>1. /\ pc = "renamePin" /\ pc' = "pinDir" /\ dir' = Rename(dir, PIN_TEMP, PIN) /\ pin' = pin
    BY <1>8 DEF RenamePin
  <2>2. /\ PIN_TEMP \notin dir.dirty /\ dir.vis[PIN_TEMP] = NextPin(intent)
        /\ dir.vis[intent.ver] = intent.ver /\ dir.vis[BUNDLE_TEMP] = Absent
    BY <1>0, <2>1 DEF Publishing, PlacedSteps
  <2>3. /\ IsDir(dir') /\ dir'.vis \in [Names -> Content] /\ Same(dir'.vis, dir.vis, {PIN, PIN_TEMP})
        /\ dir'.vis[PIN] = NextPin(intent) /\ dir'.vis[PIN_TEMP] = Absent
        /\ dir'.disk = dir.disk \cup {dir'.vis} /\ dir'.dirty = dir.dirty
    <3>1. /\ IsDir(dir') /\ dir'.vis \in [Names -> Content] /\ Same(dir'.vis, dir.vis, {PIN_TEMP, PIN})
          /\ dir'.vis[PIN] = NextPin(intent) /\ dir'.vis[PIN_TEMP] = Absent
          /\ dir'.disk = dir.disk \cup {dir'.vis} /\ dir'.dirty = dir.dirty
      BY <1>0, <2>1, <2>2, NameFacts, RenameFacts
    <3> QED BY <3>1 DEF Same
  <2>4. Pending(dir'.vis, intent) /\ dir'.vis[intent.ver] = intent.ver
        /\ dir'.vis[INTENT] # Absent /\ dir'.vis[BUNDLE_TEMP] = Absent
    <3>1. Pending(dir'.vis, intent)
      BY <1>2, <2>2, <2>3, MovePin
    <3>2. dir'.vis[BUNDLE_TEMP] = dir.vis[BUNDLE_TEMP] /\ dir'.vis[intent.ver] = dir.vis[intent.ver]
      BY <1>3, <2>3, NameFacts DEF Same
    <3> QED BY <1>3, <2>2, <3>1, <3>2 DEF Pending
  <2>5. dir' \in Dirs(Names, Content)
    <3>1. dir.disk \in SUBSET [Names -> Content] /\ dir.dirty \in SUBSET Names
      BY <1>0 DEF TypeOK, Dirs
    <3>2. dir'.disk \in SUBSET [Names -> Content]
      BY <2>3, <3>1
    <3> QED BY <2>3, <3>1, <3>2 DEF Dirs, IsDir
  <2>6. Sound(dir'.vis)
    BY <2>4 DEF Sound, Pending
  <2>7. \A p \in acked : Later(NextPin(intent), p)
    <3>1. dir.vis \in dir.disk /\ acked \subseteq Pins /\ dir.vis[PIN] \in {intent.expected, NextPin(intent)}
      BY <1>0, <1>2 DEF Disk, TypeOK, Pending
    <3>2. \A p \in acked : Later(dir.vis[PIN], p)
      BY <1>0, <3>1 DEF Disk
    <3> QED BY <1>3, <3>1, <3>2, LaterNext
  <2>8. Disk'
    BY <1>0, <1>1, <2>3, <2>4, <2>6, <2>7 DEF Disk
  <2>9. TypeOK'
    BY <1>0, <1>1, <2>1, <2>5 DEF TypeOK, Steps
  <2>10. PinInHand' /\ Deciding'
    BY <1>1, <2>1, <2>3 DEF PinInHand, Deciding
  <2>11. Publishing'
    BY <1>1, <2>1, <2>4 DEF Publishing, PublishSteps, PlacedSteps
  <2> QED BY <2>8, <2>9, <2>10, <2>11 DEF StoreInv
<1>9. CASE Readback
  <2> DEFINE w == [dir.vis EXCEPT ![PIN_TEMP] = Absent]
             z == [w EXCEPT ![INTENT] = Absent]
  <2>1. /\ pc = "readback" /\ pc' = "intentGoneDir" /\ dir' = Delete(Delete(dir, PIN_TEMP), INTENT)
        /\ pin' = dir.vis[PIN] /\ dir.vis[PIN] = NextPin(intent)
    BY <1>9 DEF Readback
  <2>2. /\ IsDir(dir') /\ dir'.vis = z /\ dir'.disk = dir.disk \cup {w, z} /\ dir'.dirty = dir.dirty
    BY <2>1 DEF Delete, Update, IsDir
  <2>3. /\ w \in [Names -> Content] /\ z \in [Names -> Content]
        /\ w[PIN_TEMP] = Absent /\ z[PIN_TEMP] = Absent /\ z[INTENT] = Absent
        /\ Same(w, dir.vis, {BUNDLE_TEMP, PIN_TEMP}) /\ Same(z, dir.vis, {INTENT, PIN_TEMP})
        /\ w[BUNDLE_TEMP] = dir.vis[BUNDLE_TEMP]
    BY <1>0, MapType, CutFacts, NameFacts DEF Same
  <2> HIDE DEF w, z
  <2>4. dir.vis[BUNDLE_TEMP] = Absent
    BY <1>0, <2>1 DEF Publishing, PlacedSteps
  <2>5. Pending(w, intent) /\ w[PIN] = dir.vis[PIN]
    <3>1. PrefixOf(w[BUNDLE_TEMP], intent.ver) /\ PrefixOf(w[PIN_TEMP], NextPin(intent))
      BY <2>3, <2>4 DEF PrefixOf
    <3> QED BY <1>2, <2>3, <3>1, ScratchPending, Zenon
  <2>6. Idle(z) /\ z[PIN] = dir.vis[PIN]
    BY <1>2, <2>1, <2>3, <2>4, FinishIntent
  <2>7. Fits(w)
    BY <2>3, <2>5 DEF Fits, Sound, Pending
  <2>8. Fits(z)
    BY <2>3, <2>6 DEF Fits, Sound
  <2>9. \A m \in dir.disk : m[PIN] = dir.vis[PIN]
    BY <1>0, <2>1 DEF PinInHand
  <2>10. Disk' /\ dir' \in Dirs(Names, Content)
    BY <1>0, <1>1, <2>2, <2>6, <2>7, <2>8, <2>9, NewMap DEF Disk, Temps
  <2>11. TypeOK'
    BY <1>0, <1>1, <1>3, <2>1, <2>10 DEF TypeOK, Steps
  <2>12. PinInHand' /\ Deciding'
    BY <2>1, <2>2, <2>6 DEF PinInHand, Deciding
  <2>13. Publishing'
    BY <2>1 DEF Publishing, PublishSteps, PlacedSteps
  <2> QED BY <2>10, <2>11, <2>12, <2>13 DEF StoreInv
<1> QED BY <1>4, <1>5, <1>6, <1>7, <1>8, <1>9

\* Errors, deaths and power losses.
LEMMA FaultsKeep ==
    ASSUME StoreInv, Fail \/ FailWrite \/ Die \/ PowerLoss
    PROVE  StoreInv'
<1>0. TypeOK /\ Disk /\ PinInHand /\ Deciding /\ Publishing
  BY DEF StoreInv
<1>1. /\ pin' = pin /\ intent' = intent /\ after' = after /\ acked' = acked
      /\ faults' \in 0..MaxFaults /\ pc' \in {"open", "closed"}
  BY <1>0 DEF Fail, FailWrite, Die, PowerLoss, Faulty, TypeOK
<1>2. PinInHand' /\ Deciding' /\ Publishing'
  BY <1>1 DEF PinInHand, Deciding, Publishing, Steps, PublishSteps, PlacedSteps
<1>3. SUFFICES Disk' /\ dir' \in Dirs(Names, Content)
  BY <1>0, <1>1, <1>2 DEF StoreInv, TypeOK
<1>4. CASE Fail \/ Die
  <2>1. dir' = dir
    BY <1>4 DEF Fail, Die
  <2> QED BY <1>0, <1>1, <2>1 DEF Disk, TypeOK
<1>5. CASE FailWrite
  <2>1. CASE pc = "writeIntent" /\ dir' = Write(dir, INTENT_TEMP, Cut(intent))
    <3>1. Idle(dir.vis) /\ Copies(dir.vis, {dir.vis[PIN].ver}) /\ Sensible(intent)
          /\ intent.expected = dir.vis[PIN]
      BY <1>0, <2>1 DEF Deciding, PinInHand, Steps
    <3>2. Cut(intent) \in Content
      BY <3>1, IntentFacts, CutFacts
    <3>3. /\ IsDir(dir') /\ dir'.vis \in [Names -> Content] /\ Same(dir'.vis, dir.vis, {INTENT_TEMP})
          /\ dir'.vis[INTENT_TEMP] = Cut(intent)
          /\ dir'.disk = dir.disk \cup {dir'.vis} /\ dir'.dirty = dir.dirty \cup {INTENT_TEMP}
      BY <1>0, <2>1, <3>2, NameFacts, WriteFacts
    <3>4. Staged(dir'.vis, intent)
      BY <3>1, <3>3, StageIntent
    <3>5. Fits(dir'.vis) /\ dir'.vis[PIN] = dir.vis[PIN] /\ dir.vis[INTENT] = Absent
      BY <3>1, <3>3, <3>4 DEF Fits, Sound, Staged, Sensible, Idle
    <3> QED BY <1>0, <1>1, <3>3, <3>5, NewMap DEF Disk, Temps
  <2>2. ASSUME pc \in {"bundle", "pin"},
               NEW n \in {BUNDLE_TEMP, PIN_TEMP}, NEW c \in {Cut(intent.ver), Cut(NextPin(intent))},
               n = BUNDLE_TEMP => c = Cut(intent.ver), n = PIN_TEMP => c = Cut(NextPin(intent)),
               dir' = Write(dir, n, c)
        PROVE  Disk' /\ dir' \in Dirs(Names, Content)
    <3>1. Pending(dir.vis, intent)
      BY <1>0, <2>2 DEF Publishing, PublishSteps, PlacedSteps
    <3>2. /\ Sensible(intent) /\ c \in Content /\ n \in Names
          /\ dir.vis[INTENT] = intent /\ intent # Absent
      BY <3>1, IntentFacts, CutFacts, NameFacts DEF Pending
    <3>3. /\ IsDir(dir') /\ dir'.vis \in [Names -> Content] /\ Same(dir'.vis, dir.vis, {n})
          /\ dir'.vis[n] = c
          /\ dir'.disk = dir.disk \cup {dir'.vis} /\ dir'.dirty = dir.dirty \cup {n}
      BY <1>0, <2>2, <3>2, WriteFacts
    <3>4. Same(dir'.vis, dir.vis, {BUNDLE_TEMP, PIN_TEMP})
      BY <3>3 DEF Same
    <3>5. PrefixOf(dir'.vis[BUNDLE_TEMP], intent.ver) /\ PrefixOf(dir'.vis[PIN_TEMP], NextPin(intent))
      <4>1. \A x \in {BUNDLE_TEMP, PIN_TEMP} \ {n} : dir'.vis[x] = dir.vis[x]
        BY <3>3, NameFacts DEF Same
      <4> QED BY <2>2, <3>1, <3>3, <4>1, NameFacts DEF PrefixOf, Pending
    <3>6. Pending(dir'.vis, intent) /\ dir'.vis[PIN] = dir.vis[PIN]
      BY <3>1, <3>4, <3>5, ScratchPending
    <3>7. Fits(dir'.vis) /\ dir'.vis[INTENT] # Absent
      BY <3>2, <3>3, <3>6 DEF Fits, Sound, Pending
    <3> QED BY <1>0, <1>1, <3>3, <3>6, <3>7, NewMap DEF Disk, Temps
  <2>3. \/ pc = "writeIntent" /\ dir' = Write(dir, INTENT_TEMP, Cut(intent))
        \/ pc = "bundle" /\ dir' = Write(dir, BUNDLE_TEMP, Cut(intent.ver))
        \/ pc = "pin" /\ dir' = Write(dir, PIN_TEMP, Cut(NextPin(intent)))
    BY <1>5 DEF FailWrite
  <2> QED BY <2>1, <2>2, <2>3, NameFacts
<1>6. CASE PowerLoss
  <2>1. PICK w \in AnyDisk : dir' = Stored(w)
    BY <1>6 DEF PowerLoss
  <2>2. PICK m \in dir.disk : CutOf(w, m)
    BY <1>0, <2>1, LossIsCut DEF Disk, Temps
  <2>3. Sound(w) /\ w[PIN] = m[PIN] /\ w \in [Names -> Content]
    BY <1>0, <2>2, CutKeeps DEF Disk, CutOf
  <2>4. dir'.vis = w /\ dir'.disk = {w} /\ dir'.dirty = {} /\ dir' \in Dirs(Names, Content)
    BY <2>1, <2>3 DEF Stored, Dirs
  <2>5. \A p \in acked : Later(w[PIN], p)
    BY <1>0, <2>2, <2>3 DEF Disk
  <2> QED BY <1>1, <2>3, <2>4, <2>5 DEF Disk
<1> QED BY <1>4, <1>5, <1>6

LEMMA InitInv ==
    ASSUME Init
    PROVE  StoreInv
<1> DEFINE w == [n \in Names |-> IF n = PIN THEN [gen |-> 0, ver |-> First]
                                 ELSE IF n = First THEN First ELSE Absent]
           p == [gen |-> 0, ver |-> First]
<1>1. p \in Pins /\ p \in Content /\ First \in Content /\ p.ver = First /\ First \in Versions
  BY CutFacts DEF Pins, Content, Whole
<1>2. /\ w \in [Names -> Content] /\ w[PIN] = p /\ w[First] = First
      /\ \A n \in Names \ {PIN, First} : w[n] = Absent
  BY <1>1, NameFacts, CutFacts
<1>3. dir = Stored(w) /\ pc = "closed" /\ pin = p /\ intent = NoIntent /\ after = "ack" /\ acked = {} /\ faults = 0
  BY DEF Init
<1> HIDE DEF w, p
<1>4. dir.vis = w /\ dir.disk = {w} /\ dir.dirty = {} /\ dir \in Dirs(Names, Content)
  BY <1>2, <1>3 DEF Stored, Dirs
<1>5. Idle(w)
  <2>1. \A n \in {INTENT, INTENT_TEMP, BUNDLE_TEMP, PIN_TEMP} : w[n] = Absent
    BY <1>1, <1>2, NameFacts
  <2>2. Copies(w, {First, First})
    BY <1>2, NameFacts DEF Copies
  <2> QED BY <1>1, <1>2, <2>1, <2>2 DEF Idle
<1>6. TypeOK
  BY <1>1, <1>3, <1>4 DEF TypeOK, NoIntent, Pins
<1>7. Disk
  BY <1>3, <1>4, <1>5 DEF Disk, Sound
<1>8. PinInHand /\ Deciding /\ Publishing
  BY <1>3 DEF PinInHand, Deciding, Publishing, Steps, PublishSteps, PlacedSteps
<1> QED BY <1>6, <1>7, <1>8 DEF StoreInv

LEMMA NextInv ==
    ASSUME StoreInv, [Next]_vars
    PROVE  StoreInv'
<1>1. CASE UNCHANGED vars
  BY <1>1 DEF vars, StoreInv, TypeOK, Disk, PinInHand, Deciding, Publishing
<1>2. CASE Next
  BY <1>2, CallsKeep, BarriersKeep, DecisionsKeep, IntentsKeep, PublishesKeep, FaultsKeep
     DEF Next, Step
<1> QED BY <1>1, <1>2

LEMMA StoreInvHolds == Spec => []StoreInv
<1>1. Init => StoreInv
  BY InitInv
<1>2. StoreInv /\ [Next]_vars => StoreInv'
  BY NextInv
<1> QED BY <1>1, <1>2, PTL DEF Spec

-----------------------------------------------------------------------------
(* The theorems.                                                           *)

\* No crash, error or power loss wedges a snapshot store: Store::open accepts
\* every map that the publication protocol can leave, torn scratch included.
THEOREM StoreAlwaysOpens == Spec => []Openable
<1>1. ASSUME StoreInv
      PROVE  Openable
  <2>1. TypeOK /\ Disk
    BY <1>1 DEF StoreInv
  <2>2. Opens(dir.vis)
    BY <2>1, SoundOpens DEF Disk
  <2>3. ASSUME NEW w \in AnyDisk
        PROVE  Opens(w)
    <3>1. PICK m \in dir.disk : CutOf(w, m)
      BY <2>1, LossIsCut DEF Disk, Temps
    <3>2. Sound(w)
      BY <2>1, <3>1, CutKeeps DEF Disk
    <3> QED BY <3>2, SoundOpens
  <2> QED BY <2>1, <2>2, <2>3 DEF Openable, AlwaysOpens
<1> QED BY <1>1, StoreInvHolds, PTL

\* A publication that commit or recover returned, and what a reader was given,
\* survive every power loss.
THEOREM PublicationsSurvive == Spec => []PublishedIsKept
<1>1. ASSUME StoreInv
      PROVE  PublishedIsKept
  <2>1. TypeOK /\ Disk
    BY <1>1 DEF StoreInv
  <2>2. ASSUME NEW w \in AnyDisk
        PROVE  \E m \in dir.disk : w[PIN] = m[PIN]
    <3>1. PICK m \in dir.disk : CutOf(w, m)
      BY <2>1, LossIsCut DEF Disk, Temps
    <3> QED BY <2>1, <3>1, CutKeeps DEF Disk
  <2>3. PublicationSurvives
    BY <2>1, <2>2 DEF PublicationSurvives, Disk, Later
  <2>4. ReadableIsDurable
    BY <2>1, <2>2 DEF ReadableIsDurable, Reads, Has, Disk
  <2> QED BY <2>3, <2>4 DEF PublishedIsKept
<1> QED BY <1>1, StoreInvHolds, PTL

-----------------------------------------------------------------------------
(* A durable intent decides.                                               *)

DecidedOnDisk(i) == \A m \in dir.disk : m[INTENT] = i

\* Intents are never torn: what decides is what every map of the disk holds.
LEMMA DecidedIsOnDisk ==
    ASSUME TypeOK, Disk, NEW i
    PROVE  Decided(i) <=> DecidedOnDisk(i)
<1>1. ASSUME DecidedOnDisk(i), NEW w \in AnyDisk
      PROVE  w[INTENT] = i
  <2>1. PICK m \in dir.disk : CutOf(w, m)
    BY LossIsCut DEF Disk, Temps
  <2> QED BY <1>1, <2>1, CutKeeps DEF Disk, DecidedOnDisk
<1>2. ASSUME Decided(i), NEW m \in dir.disk
      PROVE  m[INTENT] = i
  BY <1>2, LossOfNothing DEF Decided
<1> QED BY <1>1, <1>2 DEF Decided, DecidedOnDisk

LEMMA DecisionStands ==
    ASSUME StoreInv, [Next]_vars, NEW i \in Intents, dir.vis[PIN] = i.expected, DecidedOnDisk(i)
    PROVE  \/ dir'.vis[PIN] = NextPin(i)
           \/ dir'.vis[PIN] = i.expected /\ DecidedOnDisk(i)'
<1> USE DEF Goto
<1>0. TypeOK /\ Disk /\ PinInHand /\ Deciding /\ Publishing
  BY DEF StoreInv
<1>1. dir.vis[INTENT] = i /\ dir.vis \in dir.disk
  BY <1>0 DEF Disk, DecidedOnDisk
<1>2. i # Absent
  BY CutFacts DEF Whole
<1>3. Pending(dir.vis, i) /\ Sensible(i)
  BY <1>0, <1>1, <1>2, VisibleShape DEF Pending
<1>4. ~Idle(dir.vis) /\ dir.vis[INTENT_TEMP] = Absent /\ NextPin(i) # i.expected
  BY <1>1, <1>2, <1>3, IntentFacts DEF Idle, Pending
<1>5. Absent \notin Intents
  BY CutFacts DEF Whole
\* Without an intent only: the steps before a decision and after a publication.
<1>6. ~(Discard \/ WriteIntent \/ PromoteRename \/ RenameIntent \/ RemoveObsolete \/ CleanupDir
        \/ IntentGoneDir)
  BY <1>0, <1>4, <1>5 DEF Deciding, Discard, WriteIntent, PromoteRename, RenameIntent,
     RemoveObsolete, CleanupDir, IntentGoneDir
<1>7. ASSUME dir'.vis = dir.vis, dir'.disk \subseteq dir.disk
      PROVE  dir'.vis[PIN] = i.expected /\ DecidedOnDisk(i)'
  BY <1>7 DEF DecidedOnDisk
\* An update of other files than the pin and the intent.
<1>8. ASSUME NEW S, PIN \notin S, INTENT \notin S, Same(dir'.vis, dir.vis, S),
             dir'.disk = dir.disk \cup {dir'.vis}
      PROVE  dir'.vis[PIN] = i.expected /\ DecidedOnDisk(i)'
  <2>1. dir'.vis[PIN] = dir.vis[PIN] /\ dir'.vis[INTENT] = dir.vis[INTENT]
    BY <1>8, NameFacts DEF Same
  <2> QED BY <1>1, <1>8, <2>1 DEF DecidedOnDisk
<1>9. pc \in PublishSteps => intent = i
  BY <1>0, <1>1 DEF Publishing, Pending
<1>10. CASE \/ UNCHANGED vars \/ Open \/ Close \/ Recover \/ Resume \/ Begin \/ Reject \/ Cleaned
            \/ PinReplaced \/ Fail \/ Die
            \/ \E e \in {pin, intent.expected}, v \in Versions : Commit(e, v)
  <2>1. dir' = dir
    BY <1>10 DEF vars, Open, Close, Recover, Resume, Begin, Reject, Cleaned, PinReplaced, Fail, Die,
       Commit, Enter
  <2> QED BY <1>7, <2>1
<1>11. CASE \/ PromoteDir \/ DiscardDir \/ IntentDir \/ ResyncDir \/ BundleDir \/ PinDir
  <2>1. dir' = SyncDir(dir)
    BY <1>11 DEF PromoteDir, DiscardDir, IntentDir, ResyncDir, BundleDir, PinDir
  <2>2. dir'.vis = dir.vis /\ dir'.disk \subseteq dir.disk
    BY <1>1, <2>1 DEF SyncDir
  <2> QED BY <1>7, <2>2
<1>12. CASE PromoteSync \/ SyncIntent \/ ResyncIntent \/ SyncBundleTemp \/ SyncPinTemp
  <2>1. PICK n \in Names : dir' = SyncFile(dir, n)
    BY <1>12, NameFacts DEF PromoteSync, SyncIntent, ResyncIntent, SyncBundleTemp, SyncPinTemp
  <2>2. dir'.vis = dir.vis /\ dir'.disk \subseteq dir.disk
    BY <1>0, <2>1, MapType DEF SyncFile, IsDir
  <2> QED BY <1>7, <2>2
<1>13. CASE KeepBundle
  <2>1. Same(dir'.vis, dir.vis, {BUNDLE_TEMP}) /\ dir'.disk = dir.disk \cup {dir'.vis}
    BY <1>0, <1>13, MapType, NameFacts DEF KeepBundle, Delete, Update, SyncFile, IsDir, Same
  <2> QED BY <1>8, <2>1, NameFacts
<1>14. CASE WriteBundleTemp
  <2>1. dir' = Write(dir, BUNDLE_TEMP, i.ver) /\ i.ver \in Content
    BY <1>3, <1>9, <1>14, IntentFacts, CutFacts DEF WriteBundleTemp, PublishSteps
  <2>2. Same(dir'.vis, dir.vis, {BUNDLE_TEMP}) /\ dir'.disk = dir.disk \cup {dir'.vis}
    BY <1>0, <2>1, NameFacts, WriteFacts
  <2> QED BY <1>8, <2>2, NameFacts
<1>15. CASE RenameBundle
  <2>1. dir' = Rename(dir, BUNDLE_TEMP, i.ver) /\ BUNDLE_TEMP \notin dir.dirty
    BY <1>0, <1>9, <1>15 DEF RenameBundle, PublishSteps, Publishing
  <2>2. i.ver \in Names /\ i.ver \notin {PIN, INTENT, BUNDLE_TEMP}
    BY <1>3, IntentFacts, NameFacts
  <2>3. Same(dir'.vis, dir.vis, {BUNDLE_TEMP, i.ver}) /\ dir'.disk = dir.disk \cup {dir'.vis}
    BY <1>0, <2>1, <2>2, NameFacts, RenameFacts
  <2> QED BY <1>8, <2>2, <2>3, NameFacts
<1>16. CASE WritePinTemp
  <2>1. dir' = Write(dir, PIN_TEMP, NextPin(i)) /\ NextPin(i) \in Content
    BY <1>3, <1>9, <1>16, IntentFacts, CutFacts DEF WritePinTemp, PublishSteps, PlacedSteps
  <2>2. Same(dir'.vis, dir.vis, {PIN_TEMP}) /\ dir'.disk = dir.disk \cup {dir'.vis}
    BY <1>0, <2>1, NameFacts, WriteFacts
  <2> QED BY <1>8, <2>2, NameFacts
\* The pin moves to what the intent names.
<1>17. CASE RenamePin
  <2>1. dir' = Rename(dir, PIN_TEMP, PIN) /\ PIN_TEMP \notin dir.dirty /\ dir.vis[PIN_TEMP] = NextPin(i)
    BY <1>0, <1>9, <1>17 DEF RenamePin, PublishSteps, PlacedSteps, Publishing
  <2>2. dir'.vis[PIN] = NextPin(i)
    BY <1>0, <2>1, NameFacts, RenameFacts
  <2> QED BY <2>2
\* The intent goes only when the pin has moved.
<1>18. ~Readback
  BY <1>4, <1>9 DEF Readback, PublishSteps, PlacedSteps
<1>19. CASE FailWrite
  <2>1. pc # "writeIntent"
    BY <1>0, <1>4 DEF Deciding
  <2>2. PICK n \in {BUNDLE_TEMP, PIN_TEMP}, c \in {Cut(intent.ver), Cut(NextPin(intent))} :
           dir' = Write(dir, n, c) /\ pc \in {"bundle", "pin"}
    BY <1>19, <2>1 DEF FailWrite
  <2>3. intent = i
    BY <1>9, <2>2 DEF PublishSteps, PlacedSteps
  <2>4. c \in Content /\ n \in Names
    BY <1>3, <2>2, <2>3, IntentFacts, CutFacts, NameFacts
  <2>5. Same(dir'.vis, dir.vis, {n}) /\ dir'.disk = dir.disk \cup {dir'.vis}
    BY <1>0, <2>2, <2>4, WriteFacts
  <2> QED BY <1>8, <2>2, <2>5, NameFacts
<1>20. CASE PowerLoss
  <2>1. PICK w \in AnyDisk : dir' = Stored(w)
    BY <1>20 DEF PowerLoss
  <2>2. PICK m \in dir.disk : CutOf(w, m)
    BY <1>0, <2>1, LossIsCut DEF Disk, Temps
  <2>3. Sound(m) /\ m[INTENT] = i
    BY <1>0, <2>2 DEF Disk, DecidedOnDisk
  <2>4. w[PIN] = m[PIN] /\ w[INTENT] = i
    BY <2>2, <2>3, CutKeeps
  <2>5. Pending(m, i)
    <3>1. ~Idle(m)
      BY <1>2, <2>3 DEF Idle
    <3>2. \A x : ~Staged(m, x)
      BY <1>2, <2>3 DEF Staged
    <3> QED BY <2>3, <3>1, <3>2 DEF Sound
  <2>6. dir'.vis = w /\ dir'.disk = {w}
    BY <2>1 DEF Stored
  <2> QED BY <2>4, <2>5, <2>6 DEF Pending, DecidedOnDisk
<1> QED BY <1>6, <1>10, <1>11, <1>12, <1>13, <1>14, <1>15, <1>16, <1>17, <1>18, <1>19, <1>20
        DEF Next, Step

\* Once no power loss can take an intent away, it stays until the pin moves to
\* the very snapshot it names: errors, restarts, power losses and calls with
\* other candidates never withdraw or replace it.
THEOREM DurableIntentDecides == Spec => IntentDecides
<1>1. TypeOK /\ Disk => \A i : Decided(i) <=> DecidedOnDisk(i)
  BY DecidedIsOnDisk
<1>2. (TypeOK /\ Disk)' => (\A i : Decided(i) <=> DecidedOnDisk(i))'
  BY <1>1, PTL
<1>3. ASSUME StoreInv, StoreInv', [Next]_vars
      PROVE  [ \A i \in Intents :
                 dir.vis[PIN] = i.expected /\ Decided(i)
                 => \/ dir'.vis[PIN] = NextPin(i)
                    \/ dir'.vis[PIN] = i.expected /\ Decided(i)' ]_vars
  <2>1. TypeOK /\ Disk /\ (TypeOK /\ Disk)'
    BY <1>3 DEF StoreInv
  <2>2. \A i : Decided(i) <=> DecidedOnDisk(i)
    BY <1>1, <2>1
  <2>3. \A i : Decided(i)' <=> DecidedOnDisk(i)'
    BY <1>2, <2>1
  <2> QED BY <1>3, <2>2, <2>3, DecisionStands
<1> QED BY <1>3, StoreInvHolds, PTL DEF Spec, IntentDecides
=============================================================================
