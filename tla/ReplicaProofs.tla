--------------------------- MODULE ReplicaProofs ---------------------------
(***************************************************************************)
(* Proofs about the two halves of a room replica, between the proposal it  *)
(* receives and the batch it commits.                                      *)
(*                                                                         *)
(* Adapter, for every tree of batches, every effect they have and every    *)
(* number of faults: the inductive invariant places the three stores and   *)
(* memory on the journal's log; both snapshot stores stand at one height,  *)
(* or on the way to the next, social first.                                *)
(*                                                                         *)
(* ProposalStream, for every set of streams, every chunk size, every limit *)
(* of the table and every order and repetition of parts: the inductive     *)
(* invariant says that the state of a sound stream is a function of the    *)
(* set of its parts that arrived, and nothing else.                        *)
(***************************************************************************)
EXTENDS Adapter, ProposalStream, FiniteSetTheorems, WellFoundedInduction, TLAPS

-----------------------------------------------------------------------------
(* The inductive invariant.                                                *)

FrontierAt(l, k) == IF k = 0 THEN Genesis ELSE l[k]

\* Every batch of l validates on what the batches before it make.
Logged(l) ==
    \A i \in 1..Len(l) :
        /\ l[i] \in Batches
        /\ HeightOf[l[i]] = i
        /\ ParentOf[l[i]] = FrontierAt(l, i - 1)
        /\ Valid(StateAt(l, i - 1), l[i])

\* A state is below another: every store would take the step between them.
Below(a, b) ==
    /\ a.social \subseteq b.social
    /\ a.rooms.facts \subseteq b.rooms.facts
    /\ a.rooms.rev \in Nat /\ b.rooms.rev \in Nat /\ a.rooms.rev <= b.rooms.rev

Grows(l) == \A i, j \in 0..Len(l) : i <= j => Below(StateAt(l, i), StateAt(l, j))

\* The disk holds the log, or the log without its last batch.
OnDisk(l) ==
    \/ l = log
    \/ /\ Len(l) + 1 = Len(log)
       /\ \A i \in 1..Len(l) : l[i] = log[i]

Journalled ==
    /\ Logged(log) /\ Grows(log)
    /\ log \in logDisk
    /\ \A l \in logDisk : OnDisk(l)
    /\ pc \in OpenSteps \cup PublishSteps \cup {"journal"} => logDisk = {log}

\* What a store looks like when it has p, has the intent to go from p to q, or
\* has gone there with the intent still in place.
AtRest(st, p)    == st.pin = p /\ st.intent = NoIntent /\ st.disk \subseteq {<<p, NoIntent>>, <<p, p>>}
Staged(st, p, q) == st.pin = p /\ st.intent = q /\ p # q /\ st.disk \subseteq {<<p, NoIntent>>, <<p, q>>}
Moved(st, p, q)  == st.pin = q /\ st.intent = q /\ st.disk \subseteq {<<p, q>>, <<q, q>>}

Resting(st, p)    == AtRest(st, p) \/ Moved(st, p, p)
Between(st, p, q) == Resting(st, p) \/ Resting(st, q) \/ Staged(st, p, q) \/ Moved(st, p, q)

\* Visible is what some power loss may leave.
Seen(st) == <<st.pin, st.intent>> \in st.disk

SocialAt(k) == StateAt(log, k).social
RoomsAt(k)  == StateAt(log, k).rooms

\* Both stores stand at height k, or between k and k + 1, social first.
StoresAt(k) ==
    /\ k \in 0..Len(log)
    /\ \A l \in logDisk : k <= Len(l)
    /\ \/ Resting(soc, SocialAt(k)) /\ Resting(reg, RoomsAt(k))
       \/ /\ \A l \in logDisk : k < Len(l)
          /\ \/ Between(soc, SocialAt(k), SocialAt(k + 1)) /\ Resting(reg, RoomsAt(k))
             \/ Resting(soc, SocialAt(k + 1)) /\ Between(reg, RoomsAt(k), RoomsAt(k + 1))

AckedAt(k) == \A b \in acked : HeightOf[b] <= k /\ log[HeightOf[b]] = b

Opening == {"closed", "openSocial", "recoverSocial", "openRooms", "recoverRooms", "locate"}
Applied == Height(app.frontier)

Stores ==
    /\ Seen(soc) /\ Seen(reg)
    /\ pc \in Opening => \E k \in 0..Len(log) : StoresAt(k) /\ AckedAt(k)
    /\ pc \notin Opening => StoresAt(Applied) /\ AckedAt(Applied)

\* The store objects: what they hold, and which intents are behind them.
InHand(st) == st.pin = st.intent \/ st.held = st.pin

Objects ==
    /\ pc # "closed" => InHand(soc) /\ InHand(reg)
    /\ pc \in {"openRooms", "recoverRooms", "locate", "replay"} => soc.intent = NoIntent
    /\ pc \in {"locate", "replay"} => reg.intent = NoIntent
    /\ pc = "social" /\ ret = "replay" => soc.intent = NoIntent
    /\ pc \in {"social", "pushSocial", "rooms"} /\ ret = "replay" => reg.intent = NoIntent
    /\ pc \in {"rooms", "pushRooms", "apply"} => AtRest(soc, SocialAt(Applied + 1))
    /\ pc = "apply" => AtRest(reg, RoomsAt(Applied + 1))

\* Memory: the state of its own height; while open replays, the archive may
\* be one batch ahead.
Memory ==
    /\ ~refused
    /\ pc \in Opening \cup {"replay"} => ret = "replay"
    /\ pc \in JournalSteps => ret = "ack"
    /\ pc \notin Opening =>
          /\ app.frontier = FrontierAt(log, Applied)
          /\ app.rooms = RoomsAt(Applied)
          /\ \/ app.social = SocialAt(Applied)
             \/ /\ ret = "replay" /\ pc \in PublishSteps \cup {"replay"}
                /\ Applied < Len(log) /\ app.social = SocialAt(Applied + 1)
    /\ pc = "journal" => /\ cur \in Batches /\ Valid(app, cur) /\ Applied = Len(log)
    /\ pc = "journalSync" => Applied + 1 = Len(log)
    /\ pc \in PublishSteps \cup {"journalSync"} => Applied < Len(log) /\ cur = log[Applied + 1]

AdapterInv == TypeOK /\ Journalled /\ Stores /\ Objects /\ Memory

-----------------------------------------------------------------------------
(* What the batches make: the recursive definition of Made has a value.    *)

USE AdapterAssumption

\* The frontiers up to height n, and what a function says of them.
UpTo(n) == {f \in Frontiers : Height(f) <= n}
MadeBy(g, f) == IF f = Genesis THEN GenesisState ELSE Replay(g[ParentOf[f]], f)
Approx(n, g) == g = [f \in UpTo(n) |-> MadeBy(g, f)]

LEMMA HeightFacts ==
    /\ Height(Genesis) = 0
    /\ \A f \in Frontiers : Height(f) \in Nat
    /\ \A b \in Batches : /\ b \in Frontiers /\ b # Genesis /\ Height(b) = HeightOf[b]
                          /\ Height(b) \in Nat \ {0}
                          /\ ParentOf[b] \in Frontiers /\ Height(b) = Height(ParentOf[b]) + 1
<1>1. /\ Height(Genesis) = 0
      /\ \A f \in Frontiers : Height(f) \in Nat
      /\ \A b \in Batches : b \in Frontiers /\ b # Genesis /\ Height(b) = HeightOf[b]
                            /\ ParentOf[b] \in Frontiers /\ Height(b) \in Nat \ {0}
  BY DEF Height, Frontiers
<1>2. \A b \in Batches : Height(b) = Height(ParentOf[b]) + 1
  BY <1>1 DEF Height, Frontiers
<1> QED BY <1>1, <1>2

\* A non-empty set of numbers has a least one.
LEMMA Least ==
    ASSUME NEW T \in SUBSET Nat, T # {}
    PROVE  \E n \in T : \A m \in T : n <= m
<1>1. IsWellFoundedOn(OpToRel(<, Nat), Nat)
  BY NatLessThanWellFounded, Zenon
<1>2. PICK n \in T : \A m \in T : ~(<<m, n>> \in OpToRel(<, Nat))
  BY <1>1, WFMin, Zenon
<1>3. \A m \in T : ~(m < n)
  BY <1>2 DEF OpToRel
<1> QED BY <1>3

\* Two approximations agree where both say something.
LEMMA ApproxAgree ==
    ASSUME NEW n \in Nat, NEW m \in Nat, NEW g, NEW h, Approx(n, g), Approx(m, h),
           NEW f \in UpTo(n), f \in UpTo(m)
    PROVE  g[f] = h[f]
<1> DEFINE T == {Height(x) : x \in {y \in UpTo(n) \cap UpTo(m) : g[y] # h[y]}}
<1>1. SUFFICES T = {}
  BY DEF T
<1>2. SUFFICES ASSUME T # {} PROVE FALSE
  OBVIOUS
<1>3. T \in SUBSET Nat
  BY HeightFacts DEF UpTo
<1>4. PICK k \in T : \A j \in T : k <= j
  BY <1>2, <1>3, Least
<1>5. PICK x \in UpTo(n) \cap UpTo(m) : g[x] # h[x] /\ Height(x) = k
  BY <1>4
<1>6. g[x] = MadeBy(g, x) /\ h[x] = MadeBy(h, x)
  BY <1>5 DEF Approx
<1>7. x # Genesis /\ x \in Batches
  BY <1>5, <1>6 DEF MadeBy, UpTo, Frontiers
<1>8. /\ ParentOf[x] \in UpTo(n) \cap UpTo(m) /\ Height(ParentOf[x]) < k
      /\ Height(ParentOf[x]) \in Nat /\ k \in Nat
  BY <1>5, <1>7, HeightFacts DEF UpTo
<1>9. g[ParentOf[x]] = h[ParentOf[x]]
  <2>1. Height(ParentOf[x]) \notin T
    BY <1>4, <1>8
  <2> QED BY <1>8, <2>1
<1> QED BY <1>5, <1>6, <1>7, <1>9 DEF MadeBy

\* There is one for every height.
LEMMA ApproxExists == \A n \in Nat : \E g : Approx(n, g)
<1> DEFINE T == {n \in Nat : ~\E g : Approx(n, g)}
<1>1. SUFFICES ASSUME T # {} PROVE FALSE
  OBVIOUS
<1>2. T \in SUBSET Nat
  OBVIOUS
<1>3. PICK n \in T : \A j \in T : n <= j
  BY <1>1, <1>2, Least
<1>4. n \in Nat /\ ~\E g : Approx(n, g)
  BY <1>3
<1>5. CASE n = 0
  <2> DEFINE g == [f \in UpTo(n) |-> GenesisState]
  <2>1. UpTo(n) = {Genesis}
    BY <1>5, HeightFacts DEF UpTo, Frontiers
  <2>2. g = [f \in UpTo(n) |-> MadeBy(g, f)]
    BY <2>1 DEF MadeBy
  <2> QED BY <1>4, <2>2 DEF Approx
<1>6. CASE n # 0
  <2>1. n - 1 \in Nat /\ n - 1 \notin T
    BY <1>3, <1>4, <1>6
  <2>2. PICK h : Approx(n - 1, h)
    BY <2>1
  <2> DEFINE g == [f \in UpTo(n) |-> MadeBy(h, f)]
  <2>3. ASSUME NEW x \in UpTo(n - 1) PROVE x \in UpTo(n) /\ g[x] = h[x]
    <3>1. x \in UpTo(n)
      BY <1>4, HeightFacts DEF UpTo
    <3>2. h[x] = MadeBy(h, x)
      BY <2>2 DEF Approx
    <3> QED BY <3>1, <3>2
  <2>4. ASSUME NEW f \in UpTo(n) PROVE MadeBy(h, f) = MadeBy(g, f)
    <3>1. CASE f = Genesis
      BY <3>1 DEF MadeBy
    <3>2. CASE f # Genesis
      <4>1. ParentOf[f] \in UpTo(n - 1)
        BY <1>4, <3>2, HeightFacts DEF UpTo, Frontiers
      <4>2. g[ParentOf[f]] = h[ParentOf[f]]
        BY <2>3, <4>1
      <4> HIDE DEF g
      <4> QED BY <3>2, <4>2 DEF MadeBy
    <3> QED BY <3>1, <3>2
  <2>5. g = [f \in UpTo(n) |-> MadeBy(g, f)]
    <3> DEFINE r == [f \in UpTo(n) |-> MadeBy(g, f)]
    <3>1. \A f \in UpTo(n) : g[f] = r[f]
      <4>1. \A f \in UpTo(n) : g[f] = MadeBy(h, f)
        OBVIOUS
      <4> HIDE DEF g
      <4> QED BY <2>4, <4>1
    <3> QED BY <3>1
  <2> HIDE DEF g
  <2> QED BY <1>4, <2>5 DEF Approx
<1> QED BY <1>5, <1>6

\* What a batch makes is what it does to what its parent makes.
LEMMA MadeFacts ==
    /\ Made[Genesis] = GenesisState
    /\ \A b \in Batches : Made[b] = Replay(Made[ParentOf[b]], b)
<1> DEFINE A(n) == CHOOSE g : Approx(n, g)
           G == [f \in Frontiers |-> A(Height(f))[f]]
<1>1. \A n \in Nat : Approx(n, A(n))
  BY ApproxExists
<1> HIDE DEF A
<1>2. ASSUME NEW f \in Frontiers PROVE G[f] = MadeBy(G, f)
  <2>1. Height(f) \in Nat /\ f \in UpTo(Height(f)) /\ Approx(Height(f), A(Height(f)))
    BY <1>1, HeightFacts DEF UpTo
  <2>2. G[f] = MadeBy(A(Height(f)), f)
    BY <2>1 DEF Approx
  <2>3. CASE f = Genesis
    BY <2>2, <2>3 DEF MadeBy
  <2>4. CASE f # Genesis
    <3> DEFINE p == ParentOf[f]
    <3>1. p \in Frontiers /\ Height(p) \in Nat /\ p \in UpTo(Height(p)) /\ p \in UpTo(Height(f))
      BY <2>1, <2>4, HeightFacts DEF UpTo, Frontiers
    <3>2. A(Height(p))[p] = A(Height(f))[p]
      BY <1>1, <2>1, <3>1, ApproxAgree
    <3>3. G[p] = A(Height(f))[p]
      BY <3>1, <3>2
    <3> HIDE DEF G
    <3> QED BY <2>2, <2>4, <3>3 DEF MadeBy
  <2> QED BY <2>3, <2>4
<1>3. G = [f \in Frontiers |-> IF f = Genesis THEN GenesisState ELSE Replay(G[ParentOf[f]], f)]
  <2> DEFINE r == [f \in Frontiers |-> IF f = Genesis THEN GenesisState ELSE Replay(G[ParentOf[f]], f)]
  <2>0. G = [f \in Frontiers |-> G[f]]
    OBVIOUS
  <2> HIDE DEF G
  <2>1. \A f \in Frontiers : G[f] = r[f]
    BY <1>2 DEF MadeBy
  <2> QED BY <2>0, <2>1
<1> HIDE DEF G
<1>4. Made = [f \in Frontiers |-> IF f = Genesis THEN GenesisState ELSE Replay(Made[ParentOf[f]], f)]
  BY <1>3 DEF Made
<1>5. Genesis \in Frontiers /\ \A b \in Batches : b \in Frontiers /\ b # Genesis
  BY HeightFacts DEF Frontiers
<1> QED BY <1>4, <1>5

LEMMA MadeShape ==
    \A f \in Frontiers : /\ Made[f].frontier = f
                         /\ Made[f] = [frontier |-> f, social |-> Made[f].social, rooms |-> Made[f].rooms]
                         /\ Made[f].social \in Archives /\ Made[f].rooms \in Registries
<1>1. \A f \in Frontiers : Made[f].social \in Archives /\ Made[f].rooms \in Registries
  BY DEF Archives, Registries
<1>2. ASSUME NEW f \in Frontiers
      PROVE  /\ Made[f].frontier = f
             /\ Made[f] = [frontier |-> f, social |-> Made[f].social, rooms |-> Made[f].rooms]
  <2>1. CASE f = Genesis
    BY <2>1, MadeFacts DEF GenesisState
  <2>2. CASE f \in Batches
    <3>1. Made[f] = Replay(Made[ParentOf[f]], f)
      BY <2>2, MadeFacts
    <3>2. \A a : Replay(a, f) = [frontier |-> f, social |-> Replay(a, f).social, rooms |-> Replay(a, f).rooms]
      BY DEF Replay
    <3> QED BY <3>1, <3>2
  <2> QED BY <2>1, <2>2 DEF Frontiers
<1> QED BY <1>1, <1>2

-----------------------------------------------------------------------------
(* Replay.                                                                 *)

\* New awards are among the finite evidence, so the revision is a number.
LEMMA AwardsFinite ==
    ASSUME NEW a, NEW b \in Batches
    PROVE  Cardinality(NewAwards(a, b)) \in Nat /\ Cardinality(RecordsOf[b]) \in Nat
<1>1. NewAwards(a, b) \subseteq EvidenceOf[b]
  BY DEF NewAwards
<1>2. IsFiniteSet(EvidenceOf[b]) /\ IsFiniteSet(RecordsOf[b])
  OBVIOUS
<1>3. IsFiniteSet(NewAwards(a, b))
  BY <1>1, <1>2, FS_Subset
<1> QED BY <1>2, <1>3, FS_CardinalityType

LEMMA ReplayGrows ==
    ASSUME NEW a, a.rooms.rev \in Nat, NEW b \in Batches
    PROVE  /\ Below(a, a) /\ Below(a, Replay(a, b))
           /\ Replay(a, b).social = a.social \cup EvidenceOf[b]
<1> DEFINE n == Cardinality(NewAwards(a, b)) + Cardinality(RecordsOf[b])
<1>1. Cardinality(NewAwards(a, b)) \in Nat /\ Cardinality(RecordsOf[b]) \in Nat
  BY AwardsFinite
<1>2. /\ Replay(a, b).social = a.social \cup EvidenceOf[b]
      /\ Replay(a, b).rooms.facts = a.rooms.facts \cup NewAwards(a, b) \cup RecordsOf[b]
      /\ Replay(a, b).rooms.rev = a.rooms.rev + Cardinality(NewAwards(a, b)) + Cardinality(RecordsOf[b])
  BY DEF Replay
<1>3. Replay(a, b).rooms.rev \in Nat /\ a.rooms.rev <= Replay(a, b).rooms.rev
  BY <1>1, <1>2
<1> QED BY <1>2, <1>3 DEF Below

\* An archive that already has the batch's evidence changes nothing: open may
\* replay a batch whose evidence the social store has.
LEMMA ReplayAhead ==
    ASSUME NEW a, NEW c, NEW b \in Batches, a.frontier = c.frontier, a.rooms = c.rooms,
           a.social = c.social \/ a.social = c.social \cup EvidenceOf[b]
    PROVE  Replay(a, b) = Replay(c, b) /\ (Valid(a, b) <=> Valid(c, b))
<1>1. a.social \cup EvidenceOf[b] = c.social \cup EvidenceOf[b]
  OBVIOUS
<1>2. NewAwards(a, b) = NewAwards(c, b)
  BY <1>1 DEF NewAwards
<1>3. Replay(a, b) = Replay(c, b)
  BY <1>1, <1>2 DEF Replay
<1>4. RecordsApply(a, b) <=> RecordsApply(c, b)
  BY <1>2 DEF RecordsApply
<1> QED BY <1>3, <1>4 DEF Valid

-----------------------------------------------------------------------------
(* Logs.                                                                   *)

LEMMA LogFacts ==
    ASSUME NEW l \in Logs
    PROVE  l \in Seq(Batches) /\ Len(l) \in Nat /\ DOMAIN l = 1..Len(l)
<1>1. PICK f \in Frontiers : l \in [1..Height(f) -> Batches]
  BY DEF Logs
<1>2. Height(f) \in Nat
  BY HeightFacts
<1>3. l \in Seq(Batches)
  BY <1>1, <1>2
<1> QED BY <1>3

LEMMA StateFacts ==
    ASSUME NEW l \in Seq(Batches), Logged(l), NEW k \in 0..Len(l)
    PROVE  /\ FrontierAt(l, k) \in Frontiers /\ Height(FrontierAt(l, k)) = k
           /\ StateAt(l, k) = Made[FrontierAt(l, k)]
           /\ StateAt(l, k).frontier = FrontierAt(l, k)
           /\ StateAt(l, k) = [frontier |-> FrontierAt(l, k), social |-> StateAt(l, k).social,
                               rooms |-> StateAt(l, k).rooms]
           /\ StateAt(l, k).social \in Archives /\ StateAt(l, k).rooms \in Registries
<1>1. FrontierAt(l, k) \in Frontiers /\ Height(FrontierAt(l, k)) = k
  <2>1. CASE k = 0
    BY <2>1, HeightFacts DEF FrontierAt, Frontiers
  <2>2. CASE k # 0
    <3>1. l[k] \in Batches /\ HeightOf[l[k]] = k
      BY <2>2 DEF Logged
    <3> QED BY <2>2, <3>1, HeightFacts DEF FrontierAt
  <2> QED BY <2>1, <2>2
<1>2. StateAt(l, k) = Made[FrontierAt(l, k)]
  BY MadeFacts DEF StateAt, FrontierAt
<1> QED BY <1>1, <1>2, MadeShape

LEMMA StepFacts ==
    ASSUME NEW l \in Seq(Batches), Logged(l), NEW k \in Nat, k < Len(l)
    PROVE  /\ l[k + 1] \in Batches /\ HeightOf[l[k + 1]] = k + 1 /\ ParentOf[l[k + 1]] = FrontierAt(l, k)
           /\ Valid(StateAt(l, k), l[k + 1])
           /\ StateAt(l, k + 1) = Replay(StateAt(l, k), l[k + 1])
           /\ StateAt(l, k + 1) = Made[l[k + 1]] /\ Claimed(l[k + 1]) = Made[l[k + 1]]
           /\ FrontierAt(l, k + 1) = l[k + 1]
<1>0. k + 1 \in 1..Len(l) /\ (k + 1) - 1 = k /\ k + 1 # 0
  OBVIOUS
<1>1. /\ l[k + 1] \in Batches /\ HeightOf[l[k + 1]] = k + 1 /\ ParentOf[l[k + 1]] = FrontierAt(l, k)
      /\ Valid(StateAt(l, k), l[k + 1])
  BY <1>0 DEF Logged
<1>2. StateAt(l, k) = Made[FrontierAt(l, k)]
  BY MadeFacts DEF StateAt, FrontierAt
<1>3. Made[l[k + 1]] = Replay(StateAt(l, k), l[k + 1])
  BY <1>1, <1>2, MadeFacts
<1>4. StateAt(l, k + 1) = Made[l[k + 1]] /\ FrontierAt(l, k + 1) = l[k + 1]
  BY <1>0 DEF StateAt, FrontierAt
<1>5. Claimed(l[k + 1]) = Replay(StateAt(l, k), l[k + 1])
  BY <1>1 DEF Valid
<1> QED BY <1>1, <1>3, <1>4, <1>5

\* The results the journal records are what its batches make.
LEMMA ResultFacts ==
    ASSUME log \in Seq(Batches), Logged(log), NEW k \in 0..Len(log)
    PROVE  ResultAt(k) = StateAt(log, k)
<1>1. CASE k = 0
  BY <1>1 DEF ResultAt, StateAt
<1>2. CASE k # 0
  <2>1. k - 1 \in Nat /\ k - 1 < Len(log) /\ (k - 1) + 1 = k
    BY <1>2
  <2>2. Claimed(log[(k - 1) + 1]) = Made[log[(k - 1) + 1]]
    BY <2>1, StepFacts
  <2> QED BY <1>2, <2>1, <2>2 DEF ResultAt, StateAt
<1> QED BY <1>1, <1>2

-----------------------------------------------------------------------------
(* One store.                                                              *)

\* A step of a publication of q by a store that stands at p or q, or of the
\* recovery of one.
LEMMA PushFacts ==
    ASSUME NEW V, NoIntent \notin V, NEW st \in StoreOf(V), NEW p \in V, NEW q \in V,
           Between(st, p, q), InHand(st), Seen(st), NEW v \in {st.pin, q}, ~Pushed(st, v),
           NEW w, w = Push(st, v)
    PROVE  /\ w \in StoreOf(V) /\ Between(w, p, q) /\ InHand(w) /\ Seen(w)
           /\ Resting(st, q) => Resting(w, q)
<1> USE DEF Resting, Between, InHand, Seen
<1>0. /\ st = [pin |-> st.pin, intent |-> st.intent, disk |-> st.disk, held |-> st.held]
      /\ st.pin \in V /\ st.intent \in V \cup {NoIntent} /\ st.held \in V
      /\ st.disk \in SUBSET (V \X (V \cup {NoIntent}))
  BY DEF StoreOf
<1>1. CASE ~Settled(st)
  <2>1. w = [pin |-> st.pin, intent |-> st.intent, disk |-> {<<st.pin, st.intent>>}, held |-> st.held]
    BY <1>0, <1>1 DEF Push
  <2>2. w \in StoreOf(V)
    BY <1>0, <2>1 DEF StoreOf
  <2>3. w.disk \subseteq st.disk /\ w.pin = st.pin /\ w.intent = st.intent /\ w.held = st.held
    BY <2>1
  <2> QED BY <2>1, <2>2, <2>3 DEF AtRest, Staged, Moved
<1>2. CASE Settled(st) /\ st.intent = NoIntent
  <2>1. st.held = st.pin /\ v = q /\ st.pin # q
    BY <1>0, <1>2 DEF Pushed
  <2>2. st.pin = p /\ p # q
    BY <1>0, <1>2, <2>1 DEF AtRest, Staged, Moved
  <2>3. w = [pin |-> p, intent |-> q, disk |-> {<<p, NoIntent>>, <<p, q>>}, held |-> p]
    BY <1>0, <1>2, <2>1, <2>2 DEF Push, See, Settled
  <2>4. w \in StoreOf(V)
    BY <1>0, <2>3 DEF StoreOf
  <2>5. Staged(w, p, q)
    BY <2>2, <2>3 DEF Staged
  <2>6. ~Resting(st, q)
    BY <1>0, <1>2, <2>1 DEF AtRest, Moved
  <2> QED BY <2>3, <2>4, <2>5, <2>6
<1>3. CASE Settled(st) /\ st.intent # NoIntent /\ st.pin # st.intent
  <2>1. st.pin = p /\ st.intent = q /\ p # q
    BY <1>3 DEF AtRest, Staged, Moved
  <2>2. w = [pin |-> q, intent |-> q, disk |-> {<<p, q>>, <<q, q>>}, held |-> st.held]
    BY <1>0, <1>3, <2>1 DEF Push, See, Settled
  <2>3. w \in StoreOf(V)
    BY <1>0, <2>2 DEF StoreOf
  <2>4. Moved(w, p, q)
    BY <2>2 DEF Moved
  <2>5. ~Resting(st, q)
    BY <2>1 DEF AtRest, Moved
  <2> QED BY <2>2, <2>3, <2>4, <2>5
<1>4. CASE Settled(st) /\ st.intent # NoIntent /\ st.pin = st.intent
  <2>1. st.pin = p \/ st.pin = q
    BY <1>4 DEF AtRest, Staged, Moved
  <2>2. CASE st.held # st.pin
    <3>1. w = [pin |-> st.pin, intent |-> st.intent, disk |-> st.disk, held |-> st.pin]
      BY <1>0, <1>4, <2>2 DEF Push
    <3>2. w \in StoreOf(V)
      BY <1>0, <3>1 DEF StoreOf
    <3> QED BY <3>1, <3>2 DEF AtRest, Staged, Moved
  <2>3. CASE st.held = st.pin
    <3>1. w = [pin |-> st.pin, intent |-> NoIntent, disk |-> {<<st.pin, st.pin>>, <<st.pin, NoIntent>>},
               held |-> st.pin]
      BY <1>0, <1>4, <2>3 DEF Push, See, Settled
    <3>2. w \in StoreOf(V)
      BY <1>0, <3>1 DEF StoreOf
    <3>3. AtRest(w, st.pin)
      BY <3>1 DEF AtRest
    <3>4. Resting(st, q) => st.pin = q
      BY DEF AtRest, Moved
    <3> QED BY <2>1, <3>1, <3>2, <3>3, <3>4
  <2> QED BY <2>2, <2>3
<1> QED BY <1>1, <1>2, <1>3, <1>4

\* What a power loss leaves of a store is one of the same shapes.
LEMMA LossFacts ==
    ASSUME NEW V, NoIntent \notin V, NEW st \in StoreOf(V), NEW p \in V, NEW q \in V, Between(st, p, q),
           NEW d \in st.disk, NEW w, w = [pin |-> d[1], intent |-> d[2], disk |-> {d}, held |-> d[1]]
    PROVE  /\ w \in StoreOf(V) /\ Between(w, p, q) /\ Seen(w)
           /\ Resting(st, q) => Resting(w, q)
<1>0. d \in V \X (V \cup {NoIntent})
  BY DEF StoreOf
<1>1. w \in StoreOf(V) /\ d = <<d[1], d[2]>>
  BY <1>0 DEF StoreOf
<1>2. w.pin = d[1] /\ w.intent = d[2] /\ w.disk = {d}
  OBVIOUS
<1>3. Resting(st, q) => Resting(w, q)
  BY <1>0, <1>1, <1>2 DEF Resting, AtRest, Moved
<1>4. Resting(st, p) => Resting(w, p)
  BY <1>0, <1>1, <1>2 DEF Resting, AtRest, Moved
<1>5. Staged(st, p, q) => Resting(w, p) \/ Staged(w, p, q)
  BY <1>0, <1>1, <1>2 DEF Resting, AtRest, Staged
<1>6. Moved(st, p, q) => Resting(w, q) \/ Staged(w, p, q)
  BY <1>0, <1>1, <1>2 DEF Resting, Moved, Staged
<1> QED BY <1>1, <1>2, <1>3, <1>4, <1>5, <1>6 DEF Between, Seen

\* What Store::open and recover make of each.
LEMMA RestingRecovers ==
    ASSUME NEW st, NEW p, p # NoIntent, Resting(st, p), NEW d \in st.disk
    PROVE  Recovered(d) = p
  BY DEF Resting, AtRest, Moved, Recovered

LEMMA BetweenRecovers ==
    ASSUME NEW st, NEW p, p # NoIntent, NEW q, q # NoIntent, Between(st, p, q), NEW d \in st.disk
    PROVE  Recovered(d) = p \/ Recovered(d) = q
<1>1. Staged(st, p, q) \/ Moved(st, p, q) => Recovered(d) = p \/ Recovered(d) = q
  BY DEF Staged, Moved, Recovered
<1> QED BY <1>1, RestingRecovers DEF Between

\* A store without an intent stands at one place.
LEMMA IdleFacts ==
    ASSUME NEW st, NEW p, p # NoIntent, NEW q, q # NoIntent, st.intent = NoIntent
    PROVE  /\ Resting(st, p) => AtRest(st, p)
           /\ Between(st, p, q) => AtRest(st, p) \/ AtRest(st, q)
           /\ AtRest(st, p) => st.pin = p
  BY DEF Resting, Between, AtRest, Staged, Moved

-----------------------------------------------------------------------------
(* The invariant, part by part.                                            *)

LEMMA TypeFacts ==
    ASSUME TypeOK
    PROVE  /\ log \in Seq(Batches) /\ Len(log) \in Nat
           /\ \A l \in logDisk : l \in Seq(Batches) /\ Len(l) \in Nat
           /\ NoIntent \notin Archives /\ NoIntent \notin Registries
           /\ app.frontier \in Frontiers /\ Applied \in Nat
<1>1. log \in Logs /\ logDisk \subseteq Logs /\ app.frontier \in Frontiers
  BY DEF TypeOK
<1>2. NoIntent \notin Archives /\ NoIntent \notin Registries
  BY NoIntentIsNoState
<1> QED BY <1>1, <1>2, LogFacts, HeightFacts DEF Applied

\* The places a store may stand at are archives and registries.
LEMMA PlaceFacts ==
    ASSUME TypeOK, Journalled, NEW k \in 0..Len(log)
    PROVE  /\ SocialAt(k) \in Archives /\ RoomsAt(k) \in Registries
           /\ k < Len(log) => SocialAt(k + 1) \in Archives /\ RoomsAt(k + 1) \in Registries
<1>1. log \in Seq(Batches) /\ Len(log) \in Nat /\ Logged(log)
  BY TypeFacts DEF Journalled
<1>2. \A j \in 0..Len(log) : SocialAt(j) \in Archives /\ RoomsAt(j) \in Registries
  BY <1>1, StateFacts DEF SocialAt, RoomsAt
<1>3. k < Len(log) => k + 1 \in 0..Len(log)
  BY <1>1
<1> QED BY <1>2, <1>3

\* Stores that keep their shape stand where they stood.
LEMMA StoresKept ==
    ASSUME TypeOK, Journalled, NEW k, StoresAt(k), log' = log, logDisk' \subseteq logDisk,
           \A p \in Archives : Resting(soc, p) => Resting(soc', p),
           \A p \in Archives, q \in Archives : Between(soc, p, q) => Between(soc', p, q),
           \A p \in Registries : Resting(reg, p) => Resting(reg', p),
           \A p \in Registries, q \in Registries : Between(reg, p, q) => Between(reg', p, q)
    PROVE  StoresAt(k)'
<1>1. k \in 0..Len(log) /\ SocialAt(k) \in Archives /\ RoomsAt(k) \in Registries
      /\ (k < Len(log) => SocialAt(k + 1) \in Archives /\ RoomsAt(k + 1) \in Registries)
  BY PlaceFacts DEF StoresAt
<1>2. \A j : SocialAt(j)' = SocialAt(j) /\ RoomsAt(j)' = RoomsAt(j)
  BY DEF SocialAt, RoomsAt
<1>3. log \in logDisk
  BY DEF Journalled
<1>4. CASE Resting(soc, SocialAt(k)) /\ Resting(reg, RoomsAt(k))
  BY <1>1, <1>2, <1>4 DEF StoresAt
<1>5. CASE /\ \A l \in logDisk : k < Len(l)
           /\ Between(soc, SocialAt(k), SocialAt(k + 1)) /\ Resting(reg, RoomsAt(k))
  <2>1. k < Len(log)
    BY <1>3, <1>5
  <2>2. Between(soc', SocialAt(k), SocialAt(k + 1)) /\ Resting(reg', RoomsAt(k))
    BY <1>1, <1>5, <2>1
  <2> QED BY <1>1, <1>2, <1>5, <2>2 DEF StoresAt
<1>6. CASE /\ \A l \in logDisk : k < Len(l)
           /\ Resting(soc, SocialAt(k + 1)) /\ Between(reg, RoomsAt(k), RoomsAt(k + 1))
  <2>1. k < Len(log)
    BY <1>3, <1>6
  <2>2. Resting(soc', SocialAt(k + 1)) /\ Between(reg', RoomsAt(k), RoomsAt(k + 1))
    BY <1>1, <1>6, <2>1
  <2> QED BY <1>1, <1>2, <1>6, <2>2 DEF StoresAt
<1> QED BY <1>4, <1>5, <1>6 DEF StoresAt

LEMMA SomePlace ==
    ASSUME Stores
    PROVE  \E k \in 0..Len(log) : StoresAt(k) /\ AckedAt(k)
<1>1. pc \notin Opening => Applied \in 0..Len(log)
  BY DEF Stores, StoresAt
<1> QED BY <1>1 DEF Stores

\* The adapter is dropped over unchanged files.
LEMMA DropKeeps ==
    ASSUME AdapterInv, Drop, UNCHANGED <<log, logDisk, soc, reg, acked, refused>>, faults' \in 0..MaxFaults
    PROVE  AdapterInv'
<1>0. TypeOK /\ Journalled /\ Stores /\ Objects /\ Memory
  BY DEF AdapterInv
<1>1. pc' = "closed" /\ cur' = Genesis /\ ret' = "replay" /\ app' = GenesisState /\ pending' = {}
  BY DEF Drop
<1>2. TypeOK'
  <2>1. Genesis \in Frontiers /\ GenesisState = Made[Genesis]
    BY MadeFacts DEF Frontiers
  <2>2. GenesisState \in [frontier : Frontiers, social : Archives, rooms : Registries]
    <3>1. /\ Made[Genesis] = [frontier |-> Genesis, social |-> Made[Genesis].social, rooms |-> Made[Genesis].rooms]
          /\ Made[Genesis].social \in Archives /\ Made[Genesis].rooms \in Registries
      BY <2>1, MadeShape
    <3> QED BY <2>1, <3>1
  <2> QED BY <1>0, <1>1, <2>1, <2>2 DEF TypeOK
<1>3. Journalled'
  BY <1>0, <1>1 DEF Journalled, Logged, Grows, OnDisk, StateAt, FrontierAt, OpenSteps, PublishSteps
<1>4. Stores'
  <2>1. PICK k \in 0..Len(log) : StoresAt(k) /\ AckedAt(k)
    BY <1>0, SomePlace
  <2>2. StoresAt(k)'
    BY <1>0, <2>1, StoresKept
  <2>3. AckedAt(k)'
    BY <2>1 DEF AckedAt
  <2>4. Seen(soc)' /\ Seen(reg)'
    BY <1>0 DEF Stores, Seen
  <2> QED BY <1>1, <2>1, <2>2, <2>3, <2>4 DEF Stores, Opening
<1>5. Objects' /\ Memory'
  BY <1>0, <1>1 DEF Objects, Memory, Opening, PublishSteps, JournalSteps
<1> QED BY <1>2, <1>3, <1>4, <1>5 DEF AdapterInv

\* The journal part, while the log stays as it is.
LEMMA JournalKept ==
    ASSUME Journalled, log' = log, logDisk' \in {logDisk, {log}},
           pc' \in OpenSteps \cup PublishSteps \cup {"journal"} => logDisk' = {log}
    PROVE  Journalled'
<1>1. Logged(log)' /\ Grows(log)'
  BY DEF Journalled, Logged, Grows, StateAt, FrontierAt
<1>2. log' \in logDisk' /\ \A l \in logDisk' : OnDisk(l)'
  BY DEF Journalled, OnDisk
<1> QED BY <1>1, <1>2 DEF Journalled

\* Journal and stores are opened; retained intents are finished.
LEMMA OpeningKeeps ==
    ASSUME AdapterInv, OpenJournal \/ OpenStores \/ RecoverSocial \/ RecoverRooms
    PROVE  AdapterInv'
<1> USE DEF Goto
<1>0. TypeOK /\ Journalled /\ Stores /\ Objects /\ Memory
  BY DEF AdapterInv
<1>1. /\ log' = log /\ app' = app /\ pending' = pending /\ cur' = cur /\ ret' = ret /\ acked' = acked
      /\ refused' = refused /\ faults' = faults
  BY DEF OpenJournal, OpenStores, RecoverSocial, RecoverRooms
<1>2. pc \in Opening /\ pc' \in Opening \ {"closed"} /\ ret = "replay"
  BY <1>0 DEF OpenJournal, OpenStores, RecoverSocial, RecoverRooms, Opening, Memory
<1>3. logDisk' = {log}
  BY <1>0 DEF OpenJournal, OpenStores, RecoverSocial, RecoverRooms, Journalled, OpenSteps
<1>4. Journalled'
  BY <1>0, <1>1, <1>3, JournalKept
<1>5. Memory'
  BY <1>0, <1>1, <1>2 DEF Memory, Opening, PublishSteps, JournalSteps
<1>6. ASSUME soc' \in StoreOf(Archives), Seen(soc)', InHand(soc)',
             reg' \in StoreOf(Registries), Seen(reg)', InHand(reg)',
             \A p \in Archives : Resting(soc, p) => Resting(soc', p),
             \A p \in Archives, q \in Archives : Between(soc, p, q) => Between(soc', p, q),
             \A p \in Registries : Resting(reg, p) => Resting(reg', p),
             \A p \in Registries, q \in Registries : Between(reg, p, q) => Between(reg', p, q),
             Objects'
      PROVE  AdapterInv'
  <2>1. TypeOK'
    <3>1. log \in Logs
      BY <1>0 DEF TypeOK
    <3> QED BY <1>0, <1>1, <1>2, <1>3, <1>6, <3>1 DEF TypeOK, Opening, OpenSteps
  <2>2. Stores'
    <3>1. PICK k \in 0..Len(log) : StoresAt(k) /\ AckedAt(k)
      BY <1>0, SomePlace
    <3>2. logDisk' \subseteq logDisk
      BY <1>0, <1>3 DEF Journalled
    <3>3. StoresAt(k)'
      BY <1>0, <1>1, <1>6, <3>1, <3>2, StoresKept
    <3>4. AckedAt(k)'
      BY <1>1, <3>1 DEF AckedAt
    <3> QED BY <1>1, <1>2, <1>6, <3>1, <3>3, <3>4 DEF Stores
  <2> QED BY <1>4, <1>5, <1>6, <2>1, <2>2 DEF AdapterInv
<1>7. /\ soc \in StoreOf(Archives) /\ Seen(soc) /\ reg \in StoreOf(Registries) /\ Seen(reg)
      /\ NoIntent \notin Archives /\ NoIntent \notin Registries
  BY <1>0, TypeFacts DEF TypeOK, Stores
<1>8. CASE OpenJournal
  <2>1. /\ soc' = [soc EXCEPT !.held = soc.pin] /\ reg' = [reg EXCEPT !.held = reg.pin]
        /\ pc' = "openSocial"
    BY <1>8 DEF OpenJournal
  <2>2. /\ soc'.pin = soc.pin /\ soc'.intent = soc.intent /\ soc'.disk = soc.disk /\ soc'.held = soc.pin
        /\ reg'.pin = reg.pin /\ reg'.intent = reg.intent /\ reg'.disk = reg.disk /\ reg'.held = reg.pin
        /\ soc' \in StoreOf(Archives) /\ reg' \in StoreOf(Registries)
    BY <1>7, <2>1 DEF StoreOf
  <2>3. /\ \A p : Resting(soc, p) => Resting(soc', p)
        /\ \A p, q : Between(soc, p, q) => Between(soc', p, q)
        /\ \A p : Resting(reg, p) => Resting(reg', p)
        /\ \A p, q : Between(reg, p, q) => Between(reg', p, q)
    BY <2>2 DEF Resting, Between, AtRest, Staged, Moved
  <2>4. Seen(soc)' /\ InHand(soc)' /\ Seen(reg)' /\ InHand(reg)'
    BY <1>7, <2>2 DEF Seen, InHand
  <2>5. Objects'
    BY <2>1, <2>4 DEF Objects
  <2> QED BY <1>6, <2>2, <2>3, <2>4, <2>5
<1>9. CASE OpenStores
  <2>1. soc' = soc /\ reg' = reg /\ pc' \in {"openRooms", "recoverSocial", "locate", "recoverRooms"}
        /\ (pc' # "recoverSocial" => soc.intent = NoIntent) /\ (pc' = "locate" => reg.intent = NoIntent)
        /\ pc # "closed"
    BY <1>0, <1>9 DEF OpenStores, Objects
  <2>2. Seen(soc)' /\ InHand(soc)' /\ Seen(reg)' /\ InHand(reg)'
    BY <1>0, <1>7, <2>1 DEF Seen, InHand, Objects
  <2>3. Objects'
    BY <2>1, <2>2 DEF Objects
  <2> QED BY <1>6, <1>7, <2>1, <2>2, <2>3
<1>10. CASE RecoverSocial
  <2>1. reg' = reg /\ pc = "recoverSocial" /\ InHand(soc) /\ InHand(reg)
    BY <1>0, <1>10 DEF RecoverSocial, Objects
  <2>2. CASE Pushed(soc, soc.pin)
    <3>1. soc' = soc /\ pc' = "openRooms" /\ soc.intent = NoIntent
      BY <1>10, <2>2 DEF RecoverSocial, Pushed
    <3>2. Seen(soc)' /\ InHand(soc)' /\ Seen(reg)' /\ InHand(reg)'
      BY <1>7, <2>1, <3>1 DEF Seen, InHand
    <3>3. Objects'
      BY <3>1, <3>2 DEF Objects
    <3> QED BY <1>6, <1>7, <2>1, <3>1, <3>2, <3>3
  <2>3. CASE ~Pushed(soc, soc.pin)
    <3>1. soc' = Push(soc, soc.pin) /\ pc' = "recoverSocial"
      BY <1>10, <2>1, <2>3 DEF RecoverSocial
    <3>2. PICK k \in 0..Len(log) : StoresAt(k)
      BY <1>0, SomePlace
    <3>3. \A p \in Archives, q \in Archives :
             Between(soc, p, q) => /\ soc' \in StoreOf(Archives) /\ Between(soc', p, q)
                                   /\ InHand(soc') /\ Seen(soc')
                                   /\ Resting(soc, q) => Resting(soc', q)
      BY <1>7, <2>1, <2>3, <3>1, PushFacts
    <3>4. \E p \in Archives, q \in Archives : Between(soc, p, q)
      <4>1. /\ SocialAt(k) \in Archives /\ (k < Len(log) => SocialAt(k + 1) \in Archives)
            /\ log \in logDisk
        BY <1>0, <3>2, PlaceFacts DEF Journalled
      <4> QED BY <3>2, <4>1 DEF StoresAt, Between
    <3>5. soc' \in StoreOf(Archives) /\ InHand(soc') /\ Seen(soc')
      BY <3>3, <3>4
    <3>6. \A p \in Archives : Resting(soc, p) => Resting(soc', p)
      BY <3>3 DEF Between
    <3>7. InHand(soc)' /\ Seen(soc)' /\ InHand(reg)' /\ Seen(reg)'
      BY <1>7, <2>1, <3>5 DEF InHand, Seen
    <3>8. Objects'
      BY <3>1, <3>7 DEF Objects
    <3> QED BY <1>6, <1>7, <2>1, <3>3, <3>5, <3>6, <3>7, <3>8
  <2> QED BY <2>2, <2>3
<1>11. CASE RecoverRooms
  <2>1. soc' = soc /\ pc = "recoverRooms" /\ InHand(soc) /\ InHand(reg) /\ soc.intent = NoIntent
    BY <1>0, <1>11 DEF RecoverRooms, Objects
  <2>2. CASE Pushed(reg, reg.pin)
    <3>1. reg' = reg /\ pc' = "locate" /\ reg.intent = NoIntent
      BY <1>11, <2>2 DEF RecoverRooms, Pushed
    <3>2. Seen(soc)' /\ InHand(soc)' /\ Seen(reg)' /\ InHand(reg)'
      BY <1>7, <2>1, <3>1 DEF Seen, InHand
    <3>3. Objects'
      BY <2>1, <3>1, <3>2 DEF Objects
    <3> QED BY <1>6, <1>7, <2>1, <3>1, <3>2, <3>3
  <2>3. CASE ~Pushed(reg, reg.pin)
    <3>1. reg' = Push(reg, reg.pin) /\ pc' = "recoverRooms"
      BY <1>11, <2>1, <2>3 DEF RecoverRooms
    <3>2. PICK k \in 0..Len(log) : StoresAt(k)
      BY <1>0, SomePlace
    <3>3. \A p \in Registries, q \in Registries :
             Between(reg, p, q) => /\ reg' \in StoreOf(Registries) /\ Between(reg', p, q)
                                   /\ InHand(reg') /\ Seen(reg')
                                   /\ Resting(reg, q) => Resting(reg', q)
      BY <1>7, <2>1, <2>3, <3>1, PushFacts
    <3>4. \E p \in Registries, q \in Registries : Between(reg, p, q)
      <4>1. /\ RoomsAt(k) \in Registries /\ (k < Len(log) => RoomsAt(k + 1) \in Registries)
            /\ log \in logDisk
        BY <1>0, <3>2, PlaceFacts DEF Journalled
      <4> QED BY <3>2, <4>1 DEF StoresAt, Between
    <3>5. reg' \in StoreOf(Registries) /\ InHand(reg') /\ Seen(reg')
      BY <3>3, <3>4
    <3>6. \A p \in Registries : Resting(reg, p) => Resting(reg', p)
      BY <3>3 DEF Between
    <3>7. InHand(soc)' /\ Seen(soc)' /\ InHand(reg)' /\ Seen(reg)'
      BY <1>7, <2>1, <3>5 DEF InHand, Seen
    <3>8. Objects'
      BY <2>1, <3>1, <3>7 DEF Objects
    <3> QED BY <1>6, <1>7, <2>1, <3>3, <3>5, <3>6, <3>7, <3>8
  <2> QED BY <2>2, <2>3
<1> QED BY <1>8, <1>9, <1>10, <1>11

\* A non-empty set of numbers below a bound has a greatest one, and Max is it.
LEMMA Greatest ==
    ASSUME NEW n \in Nat, NEW S \in SUBSET (0..n), S # {}
    PROVE  Max(S) \in S /\ \A x \in S : x <= Max(S)
<1>1. \A x \in S : x \in Nat /\ x <= n /\ n - x \in Nat
  OBVIOUS
<1> DEFINE T == {n - x : x \in S}
<1>2. T \in SUBSET Nat
  BY <1>1
<1>3. T # {}
  <2>1. PICK x : x \in S
    OBVIOUS
  <2>2. n - x \in T
    BY <2>1
  <2> QED BY <2>2
<1>4. PICK d \in T : \A e \in T : d <= e
  BY <1>2, <1>3, Least
<1>5. PICK m \in S : d = n - m
  BY <1>4
<1>6. ASSUME NEW x \in S PROVE m >= x
  <2>1. n - x \in T
    OBVIOUS
  <2>2. n - m <= n - x
    BY <1>4, <1>5, <2>1
  <2> QED BY <1>1, <2>2
<1>7. Max(S) \in S /\ \A x \in S : Max(S) >= x
  BY <1>5, <1>6 DEF Max
<1>8. \A x \in S : Max(S) \in Nat /\ x \in Nat
  BY <1>1, <1>7
<1> QED BY <1>7, <1>8

\* The latest compatible prefix, from which open replays.
LEMMA LocateKeeps ==
    ASSUME AdapterInv, Locate
    PROVE  AdapterInv'
<1>0. TypeOK /\ Journalled /\ Stores /\ Objects /\ Memory
  BY DEF AdapterInv
<1>1. /\ pc = "locate" /\ ret = "replay" /\ logDisk = {log} /\ soc.intent = NoIntent /\ reg.intent = NoIntent
      /\ InHand(soc) /\ InHand(reg)
  BY <1>0 DEF Locate, Objects, Memory, Opening, Journalled, OpenSteps
<1>2. /\ log \in Seq(Batches) /\ Len(log) \in Nat /\ Logged(log) /\ Seen(soc) /\ Seen(reg)
      /\ NoIntent \notin Archives /\ NoIntent \notin Registries
      /\ soc.pin \in Archives /\ reg.pin \in Registries
  BY <1>0, TypeFacts DEF Journalled, Stores, TypeOK, StoreOf
<1>3. soc.held = soc.pin /\ reg.held = reg.pin
  BY <1>1, <1>2 DEF InHand
<1>4. \A j \in 0..Len(log) : ResultAt(j) = StateAt(log, j)
  BY <1>2, ResultFacts
<1>5. \A j \in 0..Len(log) :
         Compatible(j) <=> /\ reg.pin = RoomsAt(j)
                           /\ soc.pin = SocialAt(j) \/ (j < Len(log) /\ soc.pin = SocialAt(j + 1))
  <2>1. \A j \in 0..Len(log) : j < Len(log) => j + 1 \in 0..Len(log)
    BY <1>2
  <2> QED BY <1>4, <2>1 DEF Compatible, RoomsAt, SocialAt
<1>6. PICK k \in 0..Len(log) : StoresAt(k) /\ AckedAt(k)
  BY <1>0, SomePlace
<1>7. \E j \in 0..Len(log) : k <= j /\ Compatible(j)
  <2>0. /\ SocialAt(k) \in Archives /\ RoomsAt(k) \in Registries
        /\ (k < Len(log) => SocialAt(k + 1) \in Archives /\ RoomsAt(k + 1) \in Registries)
    BY <1>0, PlaceFacts
  <2>1. CASE Resting(soc, SocialAt(k)) /\ Resting(reg, RoomsAt(k))
    <3>1. soc.pin = SocialAt(k) /\ reg.pin = RoomsAt(k)
      BY <2>1 DEF Resting, AtRest, Moved
    <3> QED BY <1>5, <3>1
  <2>2. CASE k < Len(log) /\ Between(soc, SocialAt(k), SocialAt(k + 1)) /\ Resting(reg, RoomsAt(k))
    <3>1. soc.pin \in {SocialAt(k), SocialAt(k + 1)} /\ reg.pin = RoomsAt(k)
      BY <2>2 DEF Between, Resting, AtRest, Moved, Staged
    <3> QED BY <1>5, <2>2, <3>1
  <2>3. CASE k < Len(log) /\ Resting(soc, SocialAt(k + 1)) /\ Between(reg, RoomsAt(k), RoomsAt(k + 1))
    <3>1. soc.pin = SocialAt(k + 1) /\ reg.pin \in {RoomsAt(k), RoomsAt(k + 1)}
      BY <2>3 DEF Between, Resting, AtRest, Moved, Staged
    <3>2. k + 1 \in 0..Len(log) /\ k <= k + 1
      BY <1>2, <2>3
    <3> QED BY <1>5, <2>3, <3>1, <3>2
  <2> QED BY <1>1, <1>6, <2>1, <2>2, <2>3 DEF StoresAt
<1>8. Prefixes \in SUBSET (0..Len(log)) /\ Prefixes # {}
  BY <1>7 DEF Prefixes
<1>9. PICK m \in 0..Len(log) : m = Max(Prefixes) /\ Compatible(m) /\ k <= m
  <2> DEFINE m == Max(Prefixes)
  <2>1. m \in Prefixes /\ \A x \in Prefixes : x <= m
    BY <1>2, <1>8, Greatest
  <2>2. PICK j \in 0..Len(log) : k <= j /\ Compatible(j)
    BY <1>7
  <2>3. j \in Prefixes
    BY <2>2 DEF Prefixes
  <2>4. m \in 0..Len(log) /\ Compatible(m) /\ j <= m
    BY <2>1, <2>3 DEF Prefixes
  <2>5. k <= m
    BY <1>2, <2>2, <2>4
  <2> HIDE DEF m
  <2> QED BY <2>4, <2>5 DEF m
<1>10. /\ pc' = "replay"
       /\ app' = [frontier |-> ResultAt(m).frontier, social |-> soc.pin, rooms |-> reg.pin]
       /\ UNCHANGED <<log, logDisk, soc, reg, acked, faults, pending, cur, ret, refused>>
  BY <1>3, <1>8, <1>9 DEF Locate
<1>11. /\ FrontierAt(log, m) \in Frontiers /\ Height(FrontierAt(log, m)) = m
       /\ ResultAt(m).frontier = FrontierAt(log, m)
  BY <1>2, <1>4, <1>9, StateFacts
<1>12. app'.frontier = FrontierAt(log, m) /\ Applied' = m /\ app'.social = soc.pin /\ app'.rooms = reg.pin
  BY <1>10, <1>11 DEF Applied
<1>13. TypeOK'
  BY <1>0, <1>2, <1>10, <1>11 DEF TypeOK, OpenSteps
<1>14. Journalled'
  BY <1>0, <1>1, <1>10, JournalKept
<1>15. /\ reg.pin = RoomsAt(m)
       /\ soc.pin = SocialAt(m) \/ (m < Len(log) /\ soc.pin = SocialAt(m + 1))
  BY <1>5, <1>9
<1>16. StoresAt(m)
  <2>1. AtRest(soc, soc.pin) /\ AtRest(reg, reg.pin)
    <3>1. soc.intent = NoIntent /\ \A p \in Archives : Resting(soc, p) => AtRest(soc, soc.pin)
      BY <1>1, <1>2 DEF Resting, AtRest, Moved
    <3>2. reg.intent = NoIntent /\ \A p \in Registries : Resting(reg, p) => AtRest(reg, reg.pin)
      BY <1>1, <1>2 DEF Resting, AtRest, Moved
    <3>3. /\ SocialAt(k) \in Archives /\ RoomsAt(k) \in Registries
          /\ (k < Len(log) => SocialAt(k + 1) \in Archives /\ RoomsAt(k + 1) \in Registries)
      BY <1>0, PlaceFacts
    <3>4. k < Len(log) /\ Between(soc, SocialAt(k), SocialAt(k + 1)) => AtRest(soc, soc.pin)
      BY <1>1, <1>2, <3>1, <3>3 DEF Between, Staged, Moved
    <3>5. k < Len(log) /\ Between(reg, RoomsAt(k), RoomsAt(k + 1)) => AtRest(reg, reg.pin)
      BY <1>1, <1>2, <3>2, <3>3 DEF Between, Staged, Moved
    <3> QED BY <1>1, <1>6, <3>1, <3>2, <3>3, <3>4, <3>5 DEF StoresAt
  <2>2. CASE soc.pin = SocialAt(m)
    BY <1>1, <1>9, <1>15, <2>1, <2>2 DEF StoresAt, Resting
  <2>3. CASE m < Len(log) /\ soc.pin = SocialAt(m + 1)
    BY <1>1, <1>9, <1>15, <2>1, <2>3 DEF StoresAt, Resting, Between
  <2> QED BY <1>15, <2>2, <2>3
<1>17. Stores'
  <2>1. StoresAt(m)'
    BY <1>0, <1>10, <1>16, StoresKept
  <2>2. AckedAt(m)'
    <3>1. \A b \in acked : HeightOf[b] \in Nat
      BY <1>0 DEF TypeOK
    <3> QED BY <1>2, <1>6, <1>9, <1>10, <3>1 DEF AckedAt
  <2>3. Seen(soc)' /\ Seen(reg)'
    BY <1>2, <1>10 DEF Seen
  <2> QED BY <1>10, <1>12, <2>1, <2>2, <2>3 DEF Stores, Opening
<1>18. Objects'
  BY <1>1, <1>10 DEF Objects, InHand
<1>19. Memory'
  <2>1. /\ FrontierAt(log, m)' = FrontierAt(log', m) /\ app'.rooms = RoomsAt(m)'
        /\ \/ app'.social = SocialAt(m)'
           \/ m < Len(log') /\ app'.social = SocialAt(m + 1)'
    BY <1>10, <1>12, <1>15 DEF RoomsAt, SocialAt, FrontierAt
  <2>2. ~refused' /\ ret' = "replay" /\ pc' = "replay" /\ log' = log
    BY <1>0, <1>1, <1>10 DEF Memory
  <2> QED BY <1>12, <2>1, <2>2 DEF Memory, Opening, PublishSteps, JournalSteps, FrontierAt
<1> QED BY <1>13, <1>14, <1>17, <1>18, <1>19 DEF AdapterInv

-----------------------------------------------------------------------------
(* Calls of an open adapter.                                               *)

\* The next batch of the log, seen from memory: it validates, even when the
\* archive already has its evidence, and it makes the next state of the log.
LEMMA NextBatch ==
    ASSUME TypeOK, Journalled, Memory, pc \notin Opening, NEW h, h = Applied, h < Len(log)
    PROVE  /\ h \in Nat /\ log[h + 1] \in Batches /\ HeightOf[log[h + 1]] = h + 1
           /\ Valid(app, log[h + 1])
           /\ Replay(app, log[h + 1]) = StateAt(log, h + 1)
           /\ FrontierAt(log, h + 1) = log[h + 1]
           /\ Below(StateAt(log, h), StateAt(log, h + 1))
           /\ Below(StateAt(log, h + 1), StateAt(log, h + 1))
<1>1. log \in Seq(Batches) /\ Len(log) \in Nat /\ Logged(log) /\ h \in Nat /\ h \in 0..Len(log)
  BY TypeFacts DEF Journalled
<1> DEFINE b == log[h + 1]
           c == StateAt(log, h)
<1>2. /\ b \in Batches /\ HeightOf[b] = h + 1 /\ Valid(c, b)
      /\ StateAt(log, h + 1) = Replay(c, b) /\ FrontierAt(log, h + 1) = b
  BY <1>1, StepFacts
<1>3. /\ c.frontier = FrontierAt(log, h)
      /\ h + 1 \in 0..Len(log) /\ h <= h + 1 /\ h + 1 <= h + 1
  BY <1>1, StateFacts
<1>4. Below(c, c) /\ Below(c, StateAt(log, h + 1)) /\ Below(StateAt(log, h + 1), StateAt(log, h + 1))
  BY <1>1, <1>3 DEF Journalled, Grows
<1>5. StateAt(log, h + 1).social = c.social \cup EvidenceOf[b]
  <2>1. c.rooms.rev \in Nat
    BY <1>4 DEF Below
  <2>2. Replay(c, b).social = c.social \cup EvidenceOf[b]
    BY <1>2, <2>1, ReplayGrows
  <2> QED BY <1>2, <2>2
<1>6. /\ app.frontier = c.frontier /\ app.rooms = c.rooms
      /\ app.social = c.social \/ app.social = c.social \cup EvidenceOf[b]
  BY <1>3, <1>5 DEF Memory, SocialAt, RoomsAt
<1> HIDE DEF b, c
<1>7. Replay(app, b) = Replay(c, b) /\ Valid(app, b)
  BY <1>2, <1>6, ReplayAhead
<1> QED BY <1>1, <1>2, <1>4, <1>7 DEF b, c

\* A step of an open adapter over an unchanged log and memory.
LEMMA RunningKeeps ==
    ASSUME AdapterInv, pc \notin Opening, pc' \notin Opening, log' = log, app' = app,
           soc' \in StoreOf(Archives), Seen(soc'), reg' \in StoreOf(Registries), Seen(reg'),
           StoresAt(Applied)',
           logDisk' \in {logDisk, {log}},
           pc' \in OpenSteps \cup PublishSteps \cup {"journal"} => logDisk' = {log},
           pc' \in {"ready", "replay"} \cup PublishSteps \cup JournalSteps,
           pending' \subseteq Batches, cur' \in Frontiers, ret' \in {"ack", "replay"},
           acked' \subseteq Batches,
           \A b \in acked' : b \in acked \/ (HeightOf[b] <= Applied /\ log[HeightOf[b]] = b),
           refused' = refused, faults' \in 0..MaxFaults,
           Objects', Memory'
    PROVE  AdapterInv'
<1>0. TypeOK /\ Journalled /\ Stores /\ Objects /\ Memory
  BY DEF AdapterInv
<1>1. Journalled'
  BY <1>0, JournalKept
<1>2. TypeOK'
  <2>1. log \in Logs /\ logDisk' \subseteq Logs
    BY <1>0 DEF TypeOK
  <2>2. pc' \in {"closed", "ready"} \cup OpenSteps \cup PublishSteps \cup JournalSteps
    BY DEF OpenSteps
  <2> QED BY <1>0, <2>1, <2>2 DEF TypeOK
<1>3. Stores'
  <2>1. AckedAt(Applied)
    BY <1>0 DEF Stores
  <2>2. AckedAt(Applied)'
    BY <2>1 DEF AckedAt, Applied
  <2>3. Seen(soc)' /\ Seen(reg)'
    BY DEF Seen
  <2> QED BY <2>2, <2>3 DEF Stores
<1> QED BY <1>1, <1>2, <1>3 DEF AdapterInv

\* The stores stay as they are.
LEMMA StoresStay ==
    ASSUME AdapterInv, pc \notin Opening, UNCHANGED <<log, soc, reg, app>>, logDisk' \in {logDisk, {log}}
    PROVE  /\ StoresAt(Applied)' /\ InHand(soc)' /\ InHand(reg)'
           /\ soc' \in StoreOf(Archives) /\ Seen(soc') /\ reg' \in StoreOf(Registries) /\ Seen(reg')
<1>0. TypeOK /\ Journalled /\ Stores /\ Objects /\ Memory
  BY DEF AdapterInv
<1>1. PICK h : h = Applied /\ StoresAt(h)
  BY <1>0 DEF Stores
<1>2. logDisk' \subseteq logDisk
  BY <1>0 DEF Journalled
<1>3. StoresAt(h)'
  BY <1>0, <1>1, <1>2, StoresKept
<1>4. Applied' = h
  BY <1>1 DEF Applied
<1>5. StoresAt(Applied)'
  BY <1>3, <1>4 DEF StoresAt
<1>6. InHand(soc)' /\ InHand(reg)'
  BY <1>0 DEF Objects, InHand, Opening
<1>7. soc' \in StoreOf(Archives) /\ Seen(soc') /\ reg' \in StoreOf(Registries) /\ Seen(reg')
  BY <1>0 DEF TypeOK, Stores
<1> QED BY <1>5, <1>6, <1>7

\* Open replays the next batch, which always validates, or is done, at the
\* journal's last frontier.
LEMMA ReplayKeeps ==
    ASSUME AdapterInv, ReplayNext \/ Opened
    PROVE  AdapterInv'
<1>0. TypeOK /\ Journalled /\ Stores /\ Objects /\ Memory
  BY DEF AdapterInv
<1>1. /\ pc = "replay" /\ pc \notin Opening /\ ret = "replay" /\ logDisk = {log}
      /\ soc.intent = NoIntent /\ reg.intent = NoIntent
      /\ UNCHANGED <<log, logDisk, soc, reg, acked, faults>>
  BY <1>0 DEF ReplayNext, Opened, Opening, Memory, Journalled, OpenSteps, Objects
<1>2. log \in Seq(Batches) /\ Len(log) \in Nat /\ Logged(log) /\ Applied \in 0..Len(log)
  BY <1>0, <1>1, TypeFacts DEF Journalled, Stores, StoresAt
<1>3. CASE ReplayNext
  <2>1. PICK h : h = Applied /\ h < Len(log)
    BY <1>3 DEF ReplayNext, Applied
  <2>2. log[h + 1] \in Batches /\ Valid(app, log[h + 1])
    BY <1>0, <1>1, <2>1, NextBatch
  <2>3. /\ pc' = "social" /\ cur' = log[h + 1] /\ ret' = "replay"
        /\ UNCHANGED <<app, pending, refused>>
    BY <1>3, <2>1, <2>2 DEF ReplayNext, Applied
  <2>4. Applied' = Applied
    BY <2>3 DEF Applied
  <2>5. /\ StoresAt(Applied)' /\ InHand(soc)' /\ InHand(reg)'
        /\ soc' \in StoreOf(Archives) /\ Seen(soc') /\ reg' \in StoreOf(Registries) /\ Seen(reg')
    BY <1>1, <2>3, StoresStay
  <2>6. Objects'
    BY <1>1, <2>3, <2>5 DEF Objects
  <2>7. Memory'
    <3>1. /\ app.frontier = FrontierAt(log, Applied) /\ app.rooms = RoomsAt(Applied)
          /\ app.social = SocialAt(Applied) \/ app.social = SocialAt(Applied + 1)
      BY <1>0, <1>1 DEF Memory
    <3>2. /\ app'.frontier = FrontierAt(log', Applied') /\ app'.rooms = RoomsAt(Applied)'
          /\ app'.social = SocialAt(Applied)' \/ app'.social = SocialAt(Applied + 1)'
      BY <1>1, <2>3, <2>4, <3>1 DEF FrontierAt, RoomsAt, SocialAt
    <3>3. Applied' < Len(log') /\ cur' = log'[Applied' + 1] /\ ~refused'
      BY <1>0, <1>1, <2>1, <2>3, <2>4 DEF Memory
    <3> QED BY <2>3, <3>2, <3>3 DEF Memory, Opening, PublishSteps, JournalSteps
  <2>8. /\ pc' \in PublishSteps /\ pc' \notin Opening /\ cur' \in Frontiers /\ ret' \in {"ack", "replay"}
        /\ pending' \subseteq Batches /\ acked' \subseteq Batches /\ faults' \in 0..MaxFaults
    BY <1>0, <1>1, <2>2, <2>3, HeightFacts DEF PublishSteps, Opening, TypeOK
  <2> QED BY <1>1, <2>3, <2>5, <2>6, <2>7, <2>8, RunningKeeps
<1>4. CASE Opened
  <2>1. Applied = Len(log)
    BY <1>2, <1>4 DEF Opened, Applied
  <2>2. app.frontier = ResultAt(Len(log)).frontier
    <3>1. app.frontier = FrontierAt(log, Len(log))
      BY <1>0, <1>1, <2>1 DEF Memory
    <3>2. Len(log) \in 0..Len(log)
      BY <1>2
    <3>3. ResultAt(Len(log)) = StateAt(log, Len(log)) /\ StateAt(log, Len(log)).frontier = FrontierAt(log, Len(log))
      BY <1>2, <3>2, ResultFacts, StateFacts
    <3> QED BY <3>1, <3>3
  <2>3. pc' = "ready" /\ UNCHANGED <<app, pending, cur, ret, refused>>
    BY <1>4, <2>2 DEF Opened
  <2>4. Applied' = Applied
    BY <2>3 DEF Applied
  <2>5. /\ StoresAt(Applied)' /\ InHand(soc)' /\ InHand(reg)'
        /\ soc' \in StoreOf(Archives) /\ Seen(soc') /\ reg' \in StoreOf(Registries) /\ Seen(reg')
    BY <1>1, <2>3, StoresStay
  <2>6. Objects'
    BY <2>3, <2>5 DEF Objects
  <2>7. Memory'
    <3>1. /\ app.frontier = FrontierAt(log, Applied) /\ app.rooms = RoomsAt(Applied)
          /\ app.social = SocialAt(Applied)
      BY <1>0, <1>1, <1>2, <2>1 DEF Memory
    <3>2. /\ app'.frontier = FrontierAt(log', Applied') /\ app'.rooms = RoomsAt(Applied)'
          /\ app'.social = SocialAt(Applied)'
      BY <1>1, <2>3, <2>4, <3>1 DEF FrontierAt, RoomsAt, SocialAt
    <3>3. ~refused'
      BY <1>0, <2>3 DEF Memory
    <3> QED BY <2>3, <3>2, <3>3 DEF Memory, Opening, PublishSteps, JournalSteps
  <2>8. /\ pc' = "ready" /\ pc' \notin Opening /\ cur' \in Frontiers /\ ret' \in {"ack", "replay"}
        /\ pc' \notin OpenSteps \cup PublishSteps \cup {"journal"}
        /\ pending' \subseteq Batches /\ acked' \subseteq Batches /\ faults' \in 0..MaxFaults
    BY <1>0, <1>1, <2>3 DEF OpenSteps, PublishSteps, Opening, TypeOK
  <2> QED BY <1>1, <2>3, <2>5, <2>6, <2>7, <2>8, RunningKeeps
<1> QED BY <1>3, <1>4

\* The adapter between calls, or back there: memory is exact.
LEMMA ReadyMemory ==
    ASSUME AdapterInv, pc \notin Opening, pc = "ready" \/ ret = "ack", log' = log, app' = app,
           refused' = refused, pc' = "ready"
    PROVE  Memory'
<1>0. TypeOK /\ Journalled /\ Stores /\ Objects /\ Memory
  BY DEF AdapterInv
<1>1. /\ app.frontier = FrontierAt(log, Applied) /\ app.rooms = RoomsAt(Applied)
      /\ app.social = SocialAt(Applied) /\ ~refused
  BY <1>0 DEF Memory, PublishSteps
<1>2. Applied' = Applied
  BY DEF Applied
<1>3. /\ app'.frontier = FrontierAt(log', Applied') /\ app'.rooms = RoomsAt(Applied)'
      /\ app'.social = SocialAt(Applied)' /\ ~refused'
  BY <1>1, <1>2 DEF FrontierAt, RoomsAt, SocialAt
<1> QED BY <1>3 DEF Memory, Opening, PublishSteps, JournalSteps

\* A call comes back with its work undone, or a batch is held.
LEMMA ReadyKeeps ==
    ASSUME AdapterInv, pc \notin Opening, pc = "ready" \/ ret = "ack",
           UNCHANGED <<log, soc, reg, app, cur, ret, refused>>,
           logDisk' \in {logDisk, {log}}, pc' = "ready", pending' \subseteq Batches,
           acked' \subseteq Batches,
           \A b \in acked' : b \in acked \/ (HeightOf[b] <= Applied /\ log[HeightOf[b]] = b),
           faults' \in 0..MaxFaults
    PROVE  AdapterInv'
<1>1. Memory'
  BY ReadyMemory
<1>2. /\ StoresAt(Applied)' /\ InHand(soc)' /\ InHand(reg)'
      /\ soc' \in StoreOf(Archives) /\ Seen(soc') /\ reg' \in StoreOf(Registries) /\ Seen(reg')
  BY StoresStay
<1>3. Objects'
  BY <1>2 DEF Objects
<1>4. /\ pc' \notin Opening /\ cur' \in Frontiers /\ ret' \in {"ack", "replay"}
      /\ pc' \notin OpenSteps \cup PublishSteps \cup {"journal"}
  BY DEF OpenSteps, PublishSteps, Opening, TypeOK, AdapterInv
<1> QED BY <1>1, <1>2, <1>3, <1>4, RunningKeeps

\* A decision up to its first write: a journalled batch that memory has is
\* answered, the next one is published again, a new one goes to the journal.
LEMMA ResolveKeeps ==
    ASSUME AdapterInv, NEW b \in Batches, NEW known, Resolve(b, known), pending' \subseteq Batches
    PROVE  AdapterInv'
<1>0. TypeOK /\ Journalled /\ Stores /\ Objects /\ Memory
  BY DEF AdapterInv
<1>1. /\ pc = "ready" /\ pc \notin Opening /\ logDisk' = {log}
      /\ UNCHANGED <<log, soc, reg, app, refused, faults>>
  BY DEF Resolve, CommittedAt, Opening
<1>2. /\ Len(log) \in Nat /\ Applied \in 0..Len(log) /\ HeightOf[b] \in Nat \ {0} /\ b \in Frontiers
      /\ acked \subseteq Batches /\ faults \in 0..MaxFaults
  BY <1>0, <1>1, TypeFacts, HeightFacts DEF Stores, StoresAt, TypeOK
<1>3. /\ app.frontier = FrontierAt(log, Applied) /\ app.rooms = RoomsAt(Applied)
      /\ app.social = SocialAt(Applied) /\ ~refused
  BY <1>0, <1>1 DEF Memory, PublishSteps
<1>4. Applied' = Applied
  BY <1>1 DEF Applied
<1>5. /\ app'.frontier = FrontierAt(log', Applied') /\ app'.rooms = RoomsAt(Applied)'
      /\ app'.social = SocialAt(Applied)' /\ ~refused'
  BY <1>1, <1>3, <1>4 DEF FrontierAt, RoomsAt, SocialAt
<1>6. /\ StoresAt(Applied)' /\ InHand(soc)' /\ InHand(reg)'
      /\ soc' \in StoreOf(Archives) /\ Seen(soc') /\ reg' \in StoreOf(Registries) /\ Seen(reg')
  BY <1>1, StoresStay
<1>7. Valid(app, b) => HeightOf[b] = Applied + 1
  BY HeightFacts DEF Valid, Applied
<1>8. CASE /\ pc' = "ready" /\ UNCHANGED <<cur, ret>>
           /\ \A c \in acked' : c \in acked \/ (c = b /\ HeightOf[c] <= Applied /\ log[HeightOf[c]] = c)
  BY <1>1, <1>2, <1>8, ReadyKeeps
<1>9. CASE /\ pc' = "social" /\ cur' = b /\ ret' = "ack" /\ acked' = acked
           /\ HeightOf[b] <= Len(log) /\ log[HeightOf[b]] = b /\ Valid(app, b)
  <2>1. Applied < Len(log) /\ b = log[Applied + 1]
    BY <1>2, <1>7, <1>9
  <2>2. Objects'
    BY <1>6, <1>9 DEF Objects
  <2>3. Memory'
    <3>1. Applied' < Len(log') /\ cur' = log'[Applied' + 1]
      BY <1>1, <1>4, <1>9, <2>1
    <3> QED BY <1>5, <1>9, <3>1 DEF Memory, Opening, PublishSteps, JournalSteps
  <2>4. pc' \in PublishSteps /\ pc' \notin Opening
    BY <1>9 DEF PublishSteps, Opening
  <2> QED BY <1>1, <1>2, <1>6, <1>9, <2>2, <2>3, <2>4, RunningKeeps
<1>10. CASE /\ pc' = "journal" /\ cur' = b /\ ret' = "ack" /\ acked' = acked
            /\ Valid(app, b) /\ Extends(b)
  <2>1. Applied = Len(log)
    BY <1>2, <1>7, <1>10 DEF Extends
  <2>2. Objects'
    BY <1>6, <1>10 DEF Objects
  <2>3. Memory'
    <3>1. Applied' = Len(log') /\ cur' \in Batches /\ Valid(app, cur)'
      BY <1>1, <1>4, <1>10, <2>1 DEF Valid, RecordsApply, NewAwards, Replay
    <3> QED BY <1>5, <1>10, <3>1 DEF Memory, Opening, PublishSteps, JournalSteps
  <2>4. pc' \in JournalSteps /\ pc' \notin Opening
    BY <1>10 DEF JournalSteps, Opening
  <2> QED BY <1>1, <1>2, <1>6, <1>10, <2>2, <2>3, <2>4, RunningKeeps
<1>11. CASE HeightOf[b] <= Len(log)
  <2>1. CASE log[HeightOf[b]] = b
    <3>1. Reconcile(b)
      BY <1>11, <2>1 DEF Resolve
    <3>2. CASE HeightOf[b] <= Applied
      <4>1. acked' = acked \cup {b} /\ UNCHANGED <<pc, cur, ret>>
        BY <1>2, <3>1, <3>2 DEF Reconcile, Applied
      <4> QED BY <1>1, <1>8, <2>1, <3>2, <4>1
    <3>3. CASE HeightOf[b] > Applied
      <4>1. /\ acked' = acked
            /\ IF Valid(app, b) THEN pc' = "social" /\ cur' = b /\ ret' = "ack" ELSE UNCHANGED <<pc, cur, ret>>
        BY <1>2, <3>1, <3>3 DEF Reconcile, Applied
      <4> QED BY <1>1, <1>8, <1>9, <1>11, <2>1, <4>1
    <3> QED BY <1>2, <3>2, <3>3
  <2>2. CASE log[HeightOf[b]] # b
    <3>1. UNCHANGED <<pc, cur, ret, acked>>
      BY <1>11, <2>2 DEF Resolve
    <3> QED BY <1>1, <1>8, <3>1
  <2> QED BY <2>1, <2>2
<1>12. CASE ~(HeightOf[b] <= Len(log))
  <2>1. /\ acked' = acked
        /\ IF b \in known /\ Valid(app, b) /\ Extends(b)
           THEN pc' = "journal" /\ cur' = b /\ ret' = "ack" ELSE UNCHANGED <<pc, cur, ret>>
    BY <1>12 DEF Resolve
  <2> QED BY <1>1, <1>8, <1>10, <2>1
<1> QED BY <1>11, <1>12

LEMMA CallKeeps ==
    ASSUME AdapterInv, (\E b \in Batches : Hold(b)) \/ (\E b \in Certified : Decide(b) \/ Absorb(b))
    PROVE  AdapterInv'
<1>0. pending \subseteq Batches /\ acked \subseteq Batches /\ faults \in 0..MaxFaults
  BY DEF AdapterInv, TypeOK
<1>1. ASSUME NEW b \in Batches, Hold(b) PROVE AdapterInv'
  <2>1. /\ pc = "ready" /\ pc \notin Opening /\ pc' = "ready" /\ pending' \subseteq Batches
        /\ UNCHANGED <<log, logDisk, soc, reg, app, cur, ret, acked, refused, faults>>
    BY <1>0, <1>1 DEF Hold, Opening
  <2> QED BY <1>0, <2>1, ReadyKeeps
<1>2. ASSUME NEW b \in Batches, Decide(b) \/ Absorb(b) PROVE AdapterInv'
  <2>1. \E known : Resolve(b, known)
    BY <1>2 DEF Decide, Absorb
  <2>2. pending' \subseteq Batches
    BY <1>0, <1>2 DEF Decide, Absorb
  <2> QED BY <2>1, <2>2, ResolveKeeps
<1> QED BY <1>1, <1>2

-----------------------------------------------------------------------------
(* The journal.                                                            *)

LEMMA BelowTrans ==
    ASSUME NEW a, NEW b, NEW c, Below(a, b), Below(b, c)
    PROVE  Below(a, c)
  BY DEF Below

LEMMA SeqShape ==
    ASSUME NEW S, NEW s \in Seq(S)
    PROVE  s \in [1..Len(s) -> S]
  OBVIOUS

\* A valid batch on top of the log: what the log made before stays, and the
\* batch makes more.
LEMMA AppendFacts ==
    ASSUME NEW l \in Logs, Logged(l), Grows(l), NEW b \in Batches, HeightOf[b] = Len(l) + 1,
           Valid(StateAt(l, Len(l)), b), NEW m, m = Append(l, b)
    PROVE  m \in Logs /\ Logged(m) /\ Grows(m)
<1>1. l \in Seq(Batches) /\ Len(l) \in Nat
  BY LogFacts
<1> DEFINE n == Len(l)
<1>2. /\ m \in Seq(Batches) /\ Len(m) = n + 1 /\ m[n + 1] = b
      /\ \A i \in 1..n : m[i] = l[i]
  BY <1>1
<1>3. n \in 0..n /\ n + 1 \in Nat /\ n + 1 # 0 /\ (n + 1) - 1 = n
  BY <1>1
<1>4. StateAt(l, n).frontier = FrontierAt(l, n) /\ StateAt(l, n) = Made[FrontierAt(l, n)]
  BY <1>1, <1>3, StateFacts
<1>5. ParentOf[b] = FrontierAt(l, n)
  BY <1>4 DEF Valid
<1>6. /\ \A k \in 0..n : StateAt(m, k) = StateAt(l, k) /\ FrontierAt(m, k) = FrontierAt(l, k)
      /\ StateAt(m, n + 1) = Made[b]
  <2>1. \A k \in 0..n : k = 0 \/ k \in 1..n
    BY <1>1
  <2> QED BY <1>2, <1>3, <2>1 DEF StateAt, FrontierAt
<1> HIDE DEF n
<1>7. Logged(m)
  <2> SUFFICES ASSUME NEW i \in 1..Len(m)
               PROVE  /\ m[i] \in Batches /\ HeightOf[m[i]] = i /\ ParentOf[m[i]] = FrontierAt(m, i - 1)
                      /\ Valid(StateAt(m, i - 1), m[i])
    BY DEF Logged
  <2>1. i \in 1..n \/ i = n + 1
    BY <1>2, <1>3
  <2>2. CASE i \in 1..n
    <3>1. i - 1 \in 0..n /\ m[i] = l[i]
      BY <1>2, <1>3, <2>2
    <3>2. /\ l[i] \in Batches /\ HeightOf[l[i]] = i /\ ParentOf[l[i]] = FrontierAt(l, i - 1)
          /\ Valid(StateAt(l, i - 1), l[i])
      BY <2>2 DEF Logged, n
    <3> QED BY <1>6, <3>1, <3>2
  <2>3. CASE i = n + 1
    <3>1. m[i] = b /\ i - 1 = n
      BY <1>2, <1>3, <2>3
    <3> QED BY <1>3, <1>5, <1>6, <2>3, <3>1 DEF n
  <2> QED BY <2>1, <2>2, <2>3
<1>8. Below(StateAt(l, n), Made[b]) /\ Below(Made[b], Made[b])
  <2>1. Below(StateAt(l, n), StateAt(l, n))
    BY <1>3 DEF Grows, n
  <2>2. Made[b] = Replay(StateAt(l, n), b)
    BY <1>4, <1>5, MadeFacts
  <2>3. Below(StateAt(l, n), Made[b])
    BY <2>1, <2>2, ReplayGrows DEF Below
  <2> QED BY <2>3 DEF Below
<1>9. Grows(m)
  <2> SUFFICES ASSUME NEW i \in 0..Len(m), NEW j \in 0..Len(m), i <= j
               PROVE  Below(StateAt(m, i), StateAt(m, j))
    BY DEF Grows
  <2>1. (i \in 0..n /\ j \in 0..n) \/ (i \in 0..n /\ j = n + 1) \/ (i = n + 1 /\ j = n + 1)
    BY <1>2, <1>3
  <2>2. CASE i \in 0..n /\ j \in 0..n
    BY <1>6, <2>2 DEF Grows, n
  <2>3. CASE i \in 0..n /\ j = n + 1
    <3>1. i <= n
      BY <2>3, <1>3
    <3>2. Below(StateAt(l, i), StateAt(l, n))
      BY <1>3, <2>3, <3>1 DEF Grows, n
    <3>3. Below(StateAt(l, i), Made[b])
      BY <1>8, <3>2, BelowTrans
    <3> QED BY <1>6, <2>3, <3>3
  <2>4. CASE i = n + 1 /\ j = n + 1
    BY <1>6, <1>8, <2>4
  <2> QED BY <2>1, <2>2, <2>3, <2>4
<1>10. m \in Logs
  <2>1. b \in Frontiers /\ Height(b) = n + 1
    BY HeightFacts DEF n
  <2>2. m \in [1..(n + 1) -> Batches]
    <3>1. m \in Seq(Batches)
      BY <1>2
    <3>2. m \in [1..Len(m) -> Batches]
      BY <3>1, SeqShape, Zenon
    <3> QED BY <1>2, <3>2
  <2>3. m \in UNION {[1..k -> Batches] : k \in {Height(f) : f \in Frontiers}}
    BY <2>1, <2>2
  <2>4. ASSUME NEW i \in DOMAIN m PROVE ParentOf[m[i]] = IF i = 1 THEN Genesis ELSE m[i - 1]
    <3>1. i \in 1..Len(m)
      BY <1>2, <2>2
    <3>2. ParentOf[m[i]] = FrontierAt(m, i - 1)
      BY <1>7, <3>1 DEF Logged
    <3> QED BY <3>1, <3>2 DEF FrontierAt
  <2> QED BY <2>3, <2>4 DEF Logs
<1> QED BY <1>7, <1>9, <1>10

\* HEAD moves to the new batch, then the barrier makes that durable.
LEMMA JournalKeeps ==
    ASSUME AdapterInv, JournalPublish \/ JournalSync
    PROVE  AdapterInv'
<1> USE DEF Goto
<1>0. TypeOK /\ Journalled /\ Stores /\ Objects /\ Memory
  BY DEF AdapterInv
<1>1. /\ pc \in JournalSteps /\ pc \notin Opening /\ ret = "ack"
      /\ UNCHANGED <<soc, reg, app, pending, cur, ret, acked, refused, faults>>
  BY <1>0 DEF JournalPublish, JournalSync, JournalSteps, Opening, Memory
<1>2. /\ app.frontier = FrontierAt(log, Applied) /\ app.rooms = RoomsAt(Applied)
      /\ app.social = SocialAt(Applied) /\ ~refused /\ Applied' = Applied
  BY <1>0, <1>1 DEF Memory, Applied
<1>3. /\ log \in Logs /\ log \in Seq(Batches) /\ Len(log) \in Nat /\ Logged(log) /\ Grows(log)
      /\ Applied \in 0..Len(log)
      /\ NoIntent \notin Archives /\ NoIntent \notin Registries
  BY <1>0, <1>1, TypeFacts DEF Journalled, Stores, StoresAt, TypeOK
<1>4. CASE JournalSync
  <2>1. pc = "journalSync" /\ pc' = "social" /\ logDisk' = {log} /\ log' = log
    BY <1>4 DEF JournalSync
  <2>2. /\ StoresAt(Applied)' /\ InHand(soc)' /\ InHand(reg)'
        /\ soc' \in StoreOf(Archives) /\ Seen(soc') /\ reg' \in StoreOf(Registries) /\ Seen(reg')
    BY <1>1, <2>1, StoresStay
  <2>3. Objects'
    BY <1>1, <2>1, <2>2 DEF Objects
  <2>4. Memory'
    <3>1. Applied' < Len(log') /\ cur' = log'[Applied' + 1]
      BY <1>0, <1>1, <1>2, <2>1 DEF Memory
    <3>2. /\ app'.frontier = FrontierAt(log', Applied') /\ app'.rooms = RoomsAt(Applied)'
          /\ app'.social = SocialAt(Applied)' /\ ~refused' /\ ret' = "ack"
      BY <1>1, <1>2, <2>1 DEF FrontierAt, RoomsAt, SocialAt
    <3> QED BY <2>1, <3>1, <3>2 DEF Memory, Opening, PublishSteps, JournalSteps
  <2>5. /\ pc' \in PublishSteps /\ pc' \notin Opening /\ cur' \in Frontiers /\ ret' \in {"ack", "replay"}
        /\ pending' \subseteq Batches /\ acked' \subseteq Batches /\ faults' \in 0..MaxFaults
    BY <1>0, <1>1, <2>1 DEF PublishSteps, Opening, TypeOK
  <2> QED BY <1>1, <2>1, <2>2, <2>3, <2>4, <2>5, RunningKeeps
<1>5. CASE JournalPublish
  <2>1. /\ pc = "journal" /\ pc' = "journalSync" /\ log' = Append(log, cur) /\ logDisk = {log}
        /\ logDisk' = {log, log'} /\ cur \in Batches /\ Valid(app, cur) /\ Applied = Len(log)
    BY <1>0, <1>5 DEF JournalPublish, Journalled, Memory
  <2>2. PICK h : h = Applied /\ h = Len(log) /\ h \in 0..Len(log) /\ StoresAt(h) /\ AckedAt(h)
    BY <1>0, <1>1, <1>3, <2>1 DEF Stores
  <2>3. HeightOf[cur] = Len(log) + 1
    BY <1>3, <2>1, HeightFacts DEF Valid, Applied
  <2>4. Valid(StateAt(log, Len(log)), cur)
    <3>1. StateAt(log, h).frontier = FrontierAt(log, h)
      BY <1>3, <2>2, StateFacts
    <3>2. /\ app.frontier = StateAt(log, h).frontier /\ app.rooms = StateAt(log, h).rooms
          /\ app.social = StateAt(log, h).social
      BY <1>2, <2>2, <3>1 DEF RoomsAt, SocialAt
    <3> QED BY <2>1, <2>2, <3>2, ReplayAhead
  <2>5. /\ log' \in Logs /\ Len(log') = Len(log) + 1 /\ log'[Len(log) + 1] = cur
        /\ \A i \in 1..Len(log) : log'[i] = log[i]
        /\ Logged(log') /\ Grows(log')
    <3>1. PICK l : l = log
      OBVIOUS
    <3>2. PICK b : b = cur
      OBVIOUS
    <3>3. PICK m : m = log'
      OBVIOUS
    <3>4. /\ l \in Logs /\ Logged(l) /\ Grows(l) /\ b \in Batches /\ HeightOf[b] = Len(l) + 1
          /\ Valid(StateAt(l, Len(l)), b) /\ m = Append(l, b)
      BY <1>3, <2>1, <2>3, <2>4, <3>1, <3>2, <3>3
    <3>5. m \in Logs /\ Logged(m) /\ Grows(m)
      BY <3>4, AppendFacts
    <3>6. /\ Len(m) = Len(l) + 1 /\ m[Len(l) + 1] = b
          /\ \A i \in 1..Len(l) : m[i] = l[i]
      BY <1>3, <3>1, <3>4
    <3> QED BY <3>1, <3>2, <3>3, <3>5, <3>6
  <2>6. Journalled'
    <3>1. Logged(log)' /\ Grows(log)'
      BY <2>5 DEF Logged, Grows
    <3>2. \A l \in logDisk' : OnDisk(l)'
      BY <2>1, <2>5 DEF OnDisk
    <3> QED BY <2>1, <3>1, <3>2 DEF Journalled, OpenSteps, PublishSteps
  <2>7. TypeOK'
    BY <1>0, <1>1, <2>1, <2>5 DEF TypeOK, JournalSteps
  <2>8. SocialAt(h)' = SocialAt(h) /\ RoomsAt(h)' = RoomsAt(h) /\ FrontierAt(log', h) = FrontierAt(log, h)
    <3>1. h = 0 \/ h \in 1..Len(log)
      BY <1>3, <2>2
    <3> QED BY <2>5, <3>1 DEF SocialAt, RoomsAt, StateAt, FrontierAt
  <2>9. Stores'
    <3>1. Resting(soc, SocialAt(h)) /\ Resting(reg, RoomsAt(h))
      BY <1>3, <2>1, <2>2 DEF StoresAt
    <3>2. h \in 0..Len(log') /\ \A l \in logDisk' : h <= Len(l)
      BY <1>3, <2>1, <2>2, <2>5
    <3>3. StoresAt(h)'
      BY <1>1, <2>8, <3>1, <3>2 DEF StoresAt
    <3>4. AckedAt(h)'
      <4>1. \A b \in acked : b \in Batches /\ HeightOf[b] \in Nat \ {0}
        BY <1>0 DEF TypeOK
      <4>2. \A b \in acked : HeightOf[b] \in 1..Len(log)
        BY <1>3, <2>2, <4>1 DEF AckedAt
      <4> QED BY <1>1, <2>2, <2>5, <4>2 DEF AckedAt
    <3>5. Seen(soc)' /\ Seen(reg)'
      BY <1>0, <1>1 DEF Stores, Seen
    <3>6. Applied' = h /\ pc' \notin Opening
      BY <1>2, <2>1, <2>2 DEF Opening
    <3> QED BY <3>3, <3>4, <3>5, <3>6 DEF Stores
  <2>10. Objects'
    BY <1>0, <1>1, <2>1 DEF Objects, InHand, JournalSteps
  <2>11. Memory'
    <3>1. Applied' = h /\ h + 1 = Len(log') /\ h < Len(log') /\ cur' = log'[h + 1]
      BY <1>1, <1>2, <1>3, <2>2, <2>5
    <3>2. /\ app'.frontier = FrontierAt(log', h) /\ app'.rooms = RoomsAt(h)' /\ app'.social = SocialAt(h)'
          /\ ~refused' /\ ret' = "ack"
      BY <1>1, <1>2, <2>2, <2>8
    <3>3. FrontierAt(log, Applied)' = FrontierAt(log', h) /\ RoomsAt(Applied)' = RoomsAt(h)'
          /\ SocialAt(Applied)' = SocialAt(h)'
      BY <3>1 DEF FrontierAt, RoomsAt, SocialAt
    <3> QED BY <2>1, <3>1, <3>2, <3>3 DEF Memory, Opening, PublishSteps, JournalSteps
  <2> QED BY <2>6, <2>7, <2>9, <2>10, <2>11 DEF AdapterInv
<1> QED BY <1>4, <1>5

-----------------------------------------------------------------------------
(* Publication: the social store, the rooms store, memory.                 *)

\* Where a publication stands: memory at h, the batch to publish next in the
\* log, and both stores between h and h + 1.
LEMMA PublishFacts ==
    ASSUME AdapterInv, pc \in PublishSteps, NEW h, h = Applied
    PROVE  /\ pc \notin Opening /\ logDisk = {log} /\ h \in Nat /\ h < Len(log) /\ Len(log) \in Nat
           /\ h \in 0..Len(log) /\ h + 1 \in 0..Len(log)
           /\ cur = log[h + 1] /\ cur \in Batches /\ HeightOf[cur] = h + 1 /\ FrontierAt(log, h + 1) = cur
           /\ Replay(app, cur) = StateAt(log, h + 1)
           /\ Replay(app, cur).social = SocialAt(h + 1) /\ Replay(app, cur).rooms = RoomsAt(h + 1)
           /\ SocialAt(h) \subseteq SocialAt(h + 1) /\ RoomsAt(h).facts \subseteq RoomsAt(h + 1).facts
           /\ RoomsAt(h).rev \in Nat /\ RoomsAt(h + 1).rev \in Nat /\ RoomsAt(h).rev <= RoomsAt(h + 1).rev
           /\ SocialAt(h) \in Archives /\ SocialAt(h + 1) \in Archives
           /\ RoomsAt(h) \in Registries /\ RoomsAt(h + 1) \in Registries
           /\ StoresAt(h) /\ Between(soc, SocialAt(h), SocialAt(h + 1)) /\ Between(reg, RoomsAt(h), RoomsAt(h + 1))
           /\ InHand(soc) /\ InHand(reg) /\ Seen(soc) /\ Seen(reg)
           /\ soc \in StoreOf(Archives) /\ reg \in StoreOf(Registries)
<1>0. TypeOK /\ Journalled /\ Stores /\ Objects /\ Memory
  BY DEF AdapterInv
<1>1. pc \notin Opening /\ pc # "closed" /\ logDisk = {log}
  BY <1>0 DEF PublishSteps, Opening, Journalled
<1>2. /\ h < Len(log) /\ cur = log[h + 1] /\ StoresAt(h) /\ h \in Nat /\ Len(log) \in Nat
      /\ h \in 0..Len(log) /\ h + 1 \in 0..Len(log)
  BY <1>0, <1>1, TypeFacts DEF Memory, Stores
<1>3. /\ cur \in Batches /\ HeightOf[cur] = h + 1 /\ FrontierAt(log, h + 1) = cur
      /\ Replay(app, cur) = StateAt(log, h + 1) /\ Below(StateAt(log, h), StateAt(log, h + 1))
  BY <1>0, <1>1, <1>2, NextBatch
<1>4. /\ SocialAt(h) \subseteq SocialAt(h + 1) /\ RoomsAt(h).facts \subseteq RoomsAt(h + 1).facts
      /\ RoomsAt(h).rev \in Nat /\ RoomsAt(h + 1).rev \in Nat /\ RoomsAt(h).rev <= RoomsAt(h + 1).rev
      /\ Replay(app, cur).social = SocialAt(h + 1) /\ Replay(app, cur).rooms = RoomsAt(h + 1)
  BY <1>3 DEF Below, SocialAt, RoomsAt
<1>5. /\ SocialAt(h) \in Archives /\ SocialAt(h + 1) \in Archives
      /\ RoomsAt(h) \in Registries /\ RoomsAt(h + 1) \in Registries
  BY <1>0, <1>2, PlaceFacts
<1>6. Between(soc, SocialAt(h), SocialAt(h + 1)) /\ Between(reg, RoomsAt(h), RoomsAt(h + 1))
  BY <1>2 DEF StoresAt, Between
<1>7. /\ InHand(soc) /\ InHand(reg) /\ Seen(soc) /\ Seen(reg)
      /\ soc \in StoreOf(Archives) /\ reg \in StoreOf(Registries)
  BY <1>0, <1>1 DEF Objects, Stores, TypeOK
<1> QED BY <1>1, <1>2, <1>3, <1>4, <1>5, <1>6, <1>7

\* Memory stays as it is while the publication goes on.
LEMMA PublishMemory ==
    ASSUME AdapterInv, pc \in PublishSteps, pc' \in PublishSteps,
           UNCHANGED <<log, app, cur, ret, refused>>
    PROVE  Memory'
<1>0. TypeOK /\ Journalled /\ Stores /\ Objects /\ Memory
  BY DEF AdapterInv
<1>1. /\ app.frontier = FrontierAt(log, Applied) /\ app.rooms = RoomsAt(Applied)
      /\ \/ app.social = SocialAt(Applied)
         \/ ret = "replay" /\ app.social = SocialAt(Applied + 1)
      /\ ~refused /\ Applied < Len(log) /\ cur = log[Applied + 1]
  BY <1>0 DEF Memory, PublishSteps, Opening
<1>2. Applied' = Applied
  BY DEF Applied
<1>3. /\ app'.frontier = FrontierAt(log', Applied') /\ app'.rooms = RoomsAt(Applied)'
      /\ \/ app'.social = SocialAt(Applied)'
         \/ ret' = "replay" /\ app'.social = SocialAt(Applied + 1)'
      /\ ~refused' /\ Applied' < Len(log') /\ cur' = log'[Applied' + 1]
  BY <1>1, <1>2 DEF FrontierAt, RoomsAt, SocialAt
<1> QED BY <1>3 DEF Memory, Opening, PublishSteps, JournalSteps

\* A store takes its commit, or the decision is withheld; a store never
\* refuses a batch that open replays.
LEMMA CommitKeeps ==
    ASSUME AdapterInv, CommitSocial \/ CommitRooms
    PROVE  AdapterInv'
<1>0. TypeOK /\ Journalled /\ Stores /\ Objects /\ Memory
  BY DEF AdapterInv
<1>1. pc \in PublishSteps /\ UNCHANGED <<log, logDisk, soc, reg, acked, faults>>
  BY DEF CommitSocial, CommitRooms, PublishSteps
<1>2. PICK h : h = Applied
  OBVIOUS
<1>3. /\ pc \notin Opening /\ logDisk = {log}
      /\ Replay(app, cur).social = SocialAt(h + 1) /\ Replay(app, cur).rooms = RoomsAt(h + 1)
      /\ SocialAt(h) \subseteq SocialAt(h + 1) /\ RoomsAt(h).facts \subseteq RoomsAt(h + 1).facts
      /\ RoomsAt(h).rev \in Nat /\ RoomsAt(h + 1).rev \in Nat /\ RoomsAt(h).rev <= RoomsAt(h + 1).rev
      /\ SocialAt(h) \in Archives /\ SocialAt(h + 1) \in Archives
      /\ RoomsAt(h) \in Registries /\ RoomsAt(h + 1) \in Registries
      /\ Between(soc, SocialAt(h), SocialAt(h + 1)) /\ Between(reg, RoomsAt(h), RoomsAt(h + 1))
      /\ InHand(soc) /\ InHand(reg) /\ soc \in StoreOf(Archives) /\ reg \in StoreOf(Registries)
  BY <1>1, <1>2, PublishFacts
<1>4. NoIntent \notin Archives /\ NoIntent \notin Registries /\ soc.pin \in Archives /\ reg.pin \in Registries
  BY <1>0, TypeFacts DEF TypeOK, StoreOf
<1>5. faults \in 0..MaxFaults /\ pending \subseteq Batches /\ acked \subseteq Batches /\ cur \in Frontiers
      /\ ret \in {"ack", "replay"}
  BY <1>0 DEF TypeOK
<1>6. ASSUME pc' = "ready", ret = "ack", UNCHANGED <<app, pending, cur, ret, refused>>
      PROVE  AdapterInv'
  BY <1>1, <1>3, <1>5, <1>6, ReadyKeeps
<1>7. ASSUME pc' \in PublishSteps, UNCHANGED <<app, pending, cur, ret, refused>>, Objects'
      PROVE  AdapterInv'
  <2>1. Memory'
    BY <1>1, <1>7, PublishMemory
  <2>2. /\ StoresAt(Applied)'
        /\ soc' \in StoreOf(Archives) /\ Seen(soc') /\ reg' \in StoreOf(Registries) /\ Seen(reg')
    BY <1>1, <1>3, <1>7, StoresStay
  <2>3. pc' \notin Opening
    BY <1>7 DEF PublishSteps, Opening
  <2> QED BY <1>1, <1>3, <1>5, <1>7, <2>1, <2>2, <2>3, RunningKeeps
<1>8. CASE CommitSocial
  <2>1. pc = "social"
    BY <1>8 DEF CommitSocial
  <2>2. CASE Accepts(soc, SocialAt(h + 1)) /\ soc.held \subseteq SocialAt(h + 1)
    <3>1. pc' = "pushSocial" /\ UNCHANGED <<app, pending, cur, ret, refused>>
      BY <1>3, <1>8, <2>2 DEF CommitSocial
    <3>2. Objects'
      BY <1>0, <1>1, <1>3, <2>1, <3>1 DEF Objects, InHand
    <3> QED BY <1>7, <3>1, <3>2 DEF PublishSteps
  <2>3. CASE ~(Accepts(soc, SocialAt(h + 1)) /\ soc.held \subseteq SocialAt(h + 1))
    <3>1. Withhold
      BY <1>3, <1>8, <2>3 DEF CommitSocial
    <3>2. ret # "replay"
      <4> SUFFICES ASSUME ret = "replay" PROVE FALSE
        OBVIOUS
      <4>1. soc.intent = NoIntent
        BY <1>0, <2>1 DEF Objects
      <4>2. soc.held = soc.pin
        BY <1>3, <1>4, <4>1 DEF InHand
      <4>3. soc.pin = SocialAt(h) \/ soc.pin = SocialAt(h + 1)
        BY <1>3, <1>4, <4>1, IdleFacts
      <4> QED BY <1>3, <2>3, <4>1, <4>2, <4>3 DEF Accepts
    <3> QED BY <1>5, <1>6, <3>1, <3>2 DEF Withhold
  <2> QED BY <2>2, <2>3
<1>9. CASE CommitRooms
  <2>1. pc = "rooms"
    BY <1>9 DEF CommitRooms
  <2> DEFINE Taken == /\ Accepts(reg, RoomsAt(h + 1)) /\ reg.held.rev <= RoomsAt(h + 1).rev
                      /\ reg.held.facts \subseteq RoomsAt(h + 1).facts
  <2>2. CASE Taken
    <3>1. pc' = "pushRooms" /\ UNCHANGED <<app, pending, cur, ret, refused>>
      BY <1>3, <1>9, <2>2 DEF CommitRooms
    <3>2. AtRest(soc, SocialAt(Applied + 1))'
      BY <1>0, <1>1, <2>1, <3>1 DEF Objects, AtRest, SocialAt, Applied
    <3>3. Objects'
      BY <1>0, <1>1, <1>3, <2>1, <3>1, <3>2 DEF Objects, InHand
    <3> QED BY <1>7, <3>1, <3>3 DEF PublishSteps
  <2>3. CASE ~Taken
    <3>1. Withhold
      BY <1>3, <1>9, <2>3 DEF CommitRooms
    <3>2. ret # "replay"
      <4> SUFFICES ASSUME ret = "replay" PROVE FALSE
        OBVIOUS
      <4>1. reg.intent = NoIntent
        BY <1>0, <2>1 DEF Objects
      <4>2. reg.held = reg.pin
        BY <1>3, <1>4, <4>1 DEF InHand
      <4>3. reg.pin = RoomsAt(h) \/ reg.pin = RoomsAt(h + 1)
        BY <1>3, <1>4, <4>1, IdleFacts
      <4>4. RoomsAt(h + 1).rev <= RoomsAt(h + 1).rev
        BY <1>3
      <4> QED BY <1>3, <2>3, <4>1, <4>2, <4>3, <4>4 DEF Accepts
    <3> QED BY <1>5, <1>6, <3>1, <3>2 DEF Withhold
  <2> QED BY <2>2, <2>3
<1> QED BY <1>8, <1>9

\* A store's publication takes a step, or is complete.
LEMMA PushKeeps ==
    ASSUME AdapterInv, PushSocial \/ PushRooms
    PROVE  AdapterInv'
<1>0. TypeOK /\ Journalled /\ Stores /\ Objects /\ Memory
  BY DEF AdapterInv
<1>1. pc \in PublishSteps /\ UNCHANGED <<log, logDisk, app, pending, cur, ret, acked, refused, faults>>
  BY DEF PushSocial, PushRooms, PublishSteps
<1>2. PICK h : h = Applied
  OBVIOUS
<1>3. /\ pc \notin Opening /\ logDisk = {log} /\ h \in 0..Len(log) /\ h < Len(log)
      /\ Replay(app, cur).social = SocialAt(h + 1) /\ Replay(app, cur).rooms = RoomsAt(h + 1)
      /\ SocialAt(h) \in Archives /\ SocialAt(h + 1) \in Archives
      /\ RoomsAt(h) \in Registries /\ RoomsAt(h + 1) \in Registries
      /\ Between(soc, SocialAt(h), SocialAt(h + 1)) /\ Between(reg, RoomsAt(h), RoomsAt(h + 1))
      /\ InHand(soc) /\ InHand(reg) /\ soc \in StoreOf(Archives) /\ reg \in StoreOf(Registries)
      /\ Seen(soc) /\ Seen(reg) /\ StoresAt(h)
  BY <1>1, <1>2, PublishFacts
<1>4. NoIntent \notin Archives /\ NoIntent \notin Registries
  BY <1>0, TypeFacts
<1>5. faults \in 0..MaxFaults /\ pending \subseteq Batches /\ acked \subseteq Batches /\ cur \in Frontiers
      /\ ret \in {"ack", "replay"}
  BY <1>0 DEF TypeOK
<1>6. /\ Applied' = h
      /\ SocialAt(h)' = SocialAt(h) /\ SocialAt(h + 1)' = SocialAt(h + 1)
      /\ RoomsAt(h)' = RoomsAt(h) /\ RoomsAt(h + 1)' = RoomsAt(h + 1)
  BY <1>1, <1>2 DEF Applied, SocialAt, RoomsAt
<1>7. ASSUME pc' \in PublishSteps, Objects', StoresAt(h)',
             soc' \in StoreOf(Archives), Seen(soc'), reg' \in StoreOf(Registries), Seen(reg')
      PROVE  AdapterInv'
  <2>1. Memory'
    BY <1>1, <1>7, PublishMemory
  <2>2. pc' \notin Opening
    BY <1>7 DEF PublishSteps, Opening
  <2>3. StoresAt(Applied)'
    BY <1>6, <1>7 DEF StoresAt
  <2> QED BY <1>1, <1>3, <1>5, <1>7, <2>1, <2>2, <2>3, RunningKeeps
<1>8. CASE PushSocial
  <2>1. pc = "pushSocial" /\ reg' = reg
    BY <1>8 DEF PushSocial
  <2>2. CASE Pushed(soc, SocialAt(h + 1))
    <3>1. pc' = "rooms" /\ soc' = soc
      BY <1>3, <1>8, <2>2 DEF PushSocial
    <3>2. StoresAt(h)'
      BY <1>0, <1>1, <1>3, <2>1, <3>1, StoresKept
    <3>3. AtRest(soc, SocialAt(h + 1))
      BY <2>2 DEF Pushed, Settled, AtRest
    <3>4. AtRest(soc, SocialAt(Applied + 1))'
      BY <1>1, <1>2, <3>1, <3>3 DEF AtRest, SocialAt, Applied
    <3>5. Objects'
      BY <1>0, <1>1, <1>3, <2>1, <3>1, <3>4 DEF Objects, InHand
    <3> QED BY <1>3, <1>7, <2>1, <3>1, <3>2, <3>5 DEF PublishSteps
  <2>3. CASE ~Pushed(soc, SocialAt(h + 1))
    <3>1. soc' = Push(soc, SocialAt(h + 1)) /\ pc' = "pushSocial"
      BY <1>3, <1>8, <2>1, <2>3 DEF PushSocial
    <3>2. /\ soc' \in StoreOf(Archives) /\ Between(soc', SocialAt(h), SocialAt(h + 1)) /\ InHand(soc') /\ Seen(soc')
          /\ Resting(soc, SocialAt(h + 1)) => Resting(soc', SocialAt(h + 1))
      BY <1>3, <1>4, <2>3, <3>1, PushFacts
    <3>3. StoresAt(h)'
      <4>1. /\ h \in 0..Len(log') /\ \A l \in logDisk' : h <= Len(l) /\ h < Len(l)
        BY <1>1, <1>3
      <4>2. \/ Resting(reg, RoomsAt(h))
            \/ Resting(soc, SocialAt(h + 1)) /\ Between(reg, RoomsAt(h), RoomsAt(h + 1))
        BY <1>3 DEF StoresAt
      <4> QED BY <1>6, <2>1, <3>2, <4>1, <4>2 DEF StoresAt
    <3>4. InHand(soc)' /\ InHand(reg)'
      BY <1>3, <2>1, <3>2 DEF InHand
    <3>5. Objects'
      BY <1>0, <1>1, <2>1, <3>1, <3>4 DEF Objects
    <3> QED BY <1>3, <1>7, <2>1, <3>1, <3>2, <3>3, <3>5 DEF PublishSteps
  <2> QED BY <2>2, <2>3
<1>9. CASE PushRooms
  <2>1. pc = "pushRooms" /\ soc' = soc
    BY <1>9 DEF PushRooms
  <2>2. AtRest(soc, SocialAt(h + 1))
    BY <1>0, <1>2, <2>1 DEF Objects
  <2>3. AtRest(soc, SocialAt(Applied + 1))'
    BY <1>1, <1>2, <2>1, <2>2 DEF AtRest, SocialAt, Applied
  <2>4. CASE Pushed(reg, RoomsAt(h + 1))
    <3>1. pc' = "apply" /\ reg' = reg
      BY <1>3, <1>9, <2>4 DEF PushRooms
    <3>2. StoresAt(h)'
      BY <1>0, <1>1, <1>3, <2>1, <3>1, StoresKept
    <3>3. AtRest(reg, RoomsAt(h + 1))
      BY <2>4 DEF Pushed, Settled, AtRest
    <3>4. AtRest(reg, RoomsAt(Applied + 1))'
      BY <1>1, <1>2, <3>1, <3>3 DEF AtRest, RoomsAt, Applied
    <3>5. Objects'
      BY <1>0, <1>1, <1>3, <2>1, <2>3, <3>1, <3>4 DEF Objects, InHand
    <3> QED BY <1>3, <1>7, <2>1, <3>1, <3>2, <3>5 DEF PublishSteps
  <2>5. CASE ~Pushed(reg, RoomsAt(h + 1))
    <3>1. reg' = Push(reg, RoomsAt(h + 1)) /\ pc' = "pushRooms"
      BY <1>3, <1>9, <2>1, <2>5 DEF PushRooms
    <3>2. /\ reg' \in StoreOf(Registries) /\ Between(reg', RoomsAt(h), RoomsAt(h + 1)) /\ InHand(reg') /\ Seen(reg')
      BY <1>3, <1>4, <2>5, <3>1, PushFacts
    <3>3. StoresAt(h)'
      <4>1. /\ h \in 0..Len(log') /\ \A l \in logDisk' : h <= Len(l) /\ h < Len(l)
        BY <1>1, <1>3
      <4> QED BY <1>6, <2>1, <2>2, <3>2, <4>1 DEF StoresAt, Resting
    <3>4. InHand(soc)' /\ InHand(reg)'
      BY <1>3, <2>1, <3>2 DEF InHand
    <3>5. Objects'
      BY <1>0, <1>1, <2>1, <2>3, <3>1, <3>4 DEF Objects
    <3> QED BY <1>3, <1>7, <2>1, <3>1, <3>2, <3>3, <3>5 DEF PublishSteps
  <2> QED BY <2>4, <2>5
<1> QED BY <1>8, <1>9

\* Memory takes the batch and the decision is answered, or open goes on.
LEMMA ApplyKeeps ==
    ASSUME AdapterInv, Apply
    PROVE  AdapterInv'
<1>0. TypeOK /\ Journalled /\ Stores /\ Objects /\ Memory
  BY DEF AdapterInv
<1>1. /\ pc = "apply" /\ pc \in PublishSteps /\ UNCHANGED <<log, logDisk, soc, reg, cur, ret, refused, faults>>
      /\ app' = Replay(app, cur) /\ pending' \subseteq pending
      /\ pc' = (IF ret = "ack" THEN "ready" ELSE "replay")
      /\ acked' = (IF ret = "ack" THEN acked \cup {cur} ELSE acked)
  BY DEF Apply, PublishSteps
<1>2. PICK h : h = Applied
  OBVIOUS
<1>3. /\ pc \notin Opening /\ logDisk = {log} /\ h \in Nat /\ h < Len(log) /\ Len(log) \in Nat
      /\ h + 1 \in 0..Len(log) /\ cur = log[h + 1] /\ cur \in Batches /\ HeightOf[cur] = h + 1
      /\ FrontierAt(log, h + 1) = cur /\ Replay(app, cur) = StateAt(log, h + 1)
      /\ InHand(soc) /\ InHand(reg) /\ Seen(soc) /\ Seen(reg)
  BY <1>1, <1>2, PublishFacts
<1>4. AtRest(soc, SocialAt(h + 1)) /\ AtRest(reg, RoomsAt(h + 1)) /\ AckedAt(h)
  BY <1>0, <1>1, <1>2, <1>3 DEF Objects, Stores
<1>5. ret \in {"ack", "replay"} /\ acked \subseteq Batches /\ \A b \in acked : HeightOf[b] \in Nat
  BY <1>0 DEF TypeOK
<1>6. /\ log \in Seq(Batches) /\ Logged(log)
  BY <1>0, TypeFacts DEF Journalled
<1>7. /\ StateAt(log, h + 1) = [frontier |-> cur, social |-> SocialAt(h + 1), rooms |-> RoomsAt(h + 1)]
      /\ SocialAt(h + 1) \in Archives /\ RoomsAt(h + 1) \in Registries /\ Height(cur) = h + 1 /\ cur \in Frontiers
  BY <1>3, <1>6, StateFacts DEF SocialAt, RoomsAt
<1>8. Applied' = h + 1 /\ app'.frontier = cur /\ app'.social = SocialAt(h + 1) /\ app'.rooms = RoomsAt(h + 1)
  BY <1>1, <1>3, <1>7 DEF Applied
<1>9. SocialAt(h + 1)' = SocialAt(h + 1) /\ RoomsAt(h + 1)' = RoomsAt(h + 1)
  BY <1>1 DEF SocialAt, RoomsAt
<1>10. TypeOK'
  BY <1>0, <1>1, <1>3, <1>5, <1>7 DEF TypeOK, OpenSteps
<1>11. Journalled'
  BY <1>0, <1>1, <1>3, JournalKept
<1>12. Stores'
  <2>1. StoresAt(h + 1)'
    <3>1. Resting(soc', SocialAt(h + 1)') /\ Resting(reg', RoomsAt(h + 1)')
      BY <1>1, <1>4, <1>9 DEF Resting
    <3>2. h + 1 \in 0..Len(log') /\ \A l \in logDisk' : h + 1 <= Len(l)
      BY <1>1, <1>3
    <3> QED BY <3>1, <3>2 DEF StoresAt
  <2>2. AckedAt(h + 1)'
    BY <1>1, <1>3, <1>4, <1>5 DEF AckedAt
  <2>3. Seen(soc)' /\ Seen(reg)'
    BY <1>1, <1>3 DEF Seen
  <2>4. StoresAt(Applied)' /\ AckedAt(Applied)'
    BY <1>8, <2>1, <2>2 DEF StoresAt, AckedAt
  <2>5. pc' \notin Opening
    BY <1>1 DEF Opening
  <2> QED BY <2>3, <2>4, <2>5 DEF Stores
<1>13. Objects'
  BY <1>1, <1>3, <1>4 DEF Objects, InHand, AtRest
<1>14. Memory'
  <2>1. /\ app'.frontier = FrontierAt(log', Applied') /\ app'.rooms = RoomsAt(Applied)'
        /\ app'.social = SocialAt(Applied)' /\ ~refused'
    BY <1>0, <1>1, <1>3, <1>8, <1>9 DEF RoomsAt, SocialAt, Memory
  <2>2. (pc' = "ready" /\ ret' = "ack") \/ (pc' = "replay" /\ ret' = "replay")
    BY <1>1, <1>5
  <2> QED BY <2>1, <2>2 DEF Memory, Opening, PublishSteps, JournalSteps
<1> QED BY <1>10, <1>11, <1>12, <1>13, <1>14 DEF AdapterInv

-----------------------------------------------------------------------------
(* Faults.                                                                 *)

LEMMA FaultKeeps ==
    ASSUME AdapterInv, Fail \/ Die \/ Restart
    PROVE  AdapterInv'
<1>0. TypeOK /\ Journalled /\ Stores /\ Objects /\ Memory
  BY DEF AdapterInv
<1>1. /\ UNCHANGED <<log, logDisk, soc, reg, acked, refused>>
      /\ faults' \in 0..MaxFaults
  BY <1>0 DEF Fail, Die, Restart, Faulty, TypeOK
<1>2. CASE Drop
  BY <1>1, <1>2, DropKeeps
<1>3. CASE ~Drop
  <2>1. Fail /\ ret = "ack" /\ pc' = "ready" /\ UNCHANGED <<app, pending, cur, ret>>
    BY <1>3 DEF Fail, Die, Restart
  <2>2. pc \notin Opening
    BY <1>0, <2>1 DEF Memory
  <2>3. pending \subseteq Batches /\ acked \subseteq Batches
    BY <1>0 DEF TypeOK
  <2> QED BY <1>1, <2>1, <2>2, <2>3, ReadyKeeps
<1> QED BY <1>2, <1>3

\* A power loss leaves the log or the log without its last batch, and of each
\* store one of its shapes at the same place.
LEMMA PowerLossKeeps ==
    ASSUME AdapterInv, PowerLoss
    PROVE  AdapterInv'
<1>0. TypeOK /\ Journalled /\ Stores /\ Objects /\ Memory
  BY DEF AdapterInv
<1>1. /\ log' \in logDisk /\ logDisk' = {log'} /\ acked' = acked /\ refused' = refused
      /\ pc' = "closed" /\ cur' = Genesis /\ ret' = "replay" /\ app' = GenesisState /\ pending' = {}
      /\ faults' \in 0..MaxFaults
  BY <1>0 DEF PowerLoss, Drop, Faulty, TypeOK
<1>2. /\ log \in Seq(Batches) /\ Len(log) \in Nat /\ Logged(log) /\ Grows(log)
      /\ log' \in Seq(Batches) /\ Len(log') \in Nat /\ log' \in Logs
      /\ NoIntent \notin Archives /\ NoIntent \notin Registries
      /\ soc \in StoreOf(Archives) /\ reg \in StoreOf(Registries)
  BY <1>0, <1>1, TypeFacts DEF Journalled, TypeOK
<1>3. Len(log') <= Len(log) /\ \A i \in 1..Len(log') : i \in 1..Len(log) /\ log'[i] = log[i]
  <2>1. OnDisk(log')
    BY <1>0, <1>1 DEF Journalled
  <2> QED BY <1>2, <2>1 DEF OnDisk
<1>4. ASSUME NEW j \in 0..Len(log')
      PROVE  j \in 0..Len(log) /\ StateAt(log', j) = StateAt(log, j) /\ FrontierAt(log', j) = FrontierAt(log, j)
  <2>1. j = 0 \/ j \in 1..Len(log')
    BY <1>2
  <2> QED BY <1>2, <1>3, <2>1 DEF StateAt, FrontierAt
<1>5. Logged(log')
  <2> SUFFICES ASSUME NEW i \in 1..Len(log')
               PROVE  /\ log'[i] \in Batches /\ HeightOf[log'[i]] = i
                      /\ ParentOf[log'[i]] = FrontierAt(log', i - 1) /\ Valid(StateAt(log', i - 1), log'[i])
    BY DEF Logged
  <2>1. i - 1 \in 0..Len(log') /\ i \in 1..Len(log) /\ log'[i] = log[i]
    BY <1>2, <1>3
  <2>2. /\ log[i] \in Batches /\ HeightOf[log[i]] = i
        /\ ParentOf[log[i]] = FrontierAt(log, i - 1) /\ Valid(StateAt(log, i - 1), log[i])
    BY <1>2, <2>1 DEF Logged
  <2> QED BY <1>4, <2>1, <2>2
<1>6. Grows(log')
  BY <1>2, <1>4 DEF Grows
<1>7. Journalled'
  <2>1. Logged(log)' /\ Grows(log)'
    BY <1>5, <1>6 DEF Logged, Grows
  <2>2. log' \in logDisk' /\ \A l \in logDisk' : OnDisk(l)'
    BY <1>1 DEF OnDisk
  <2> QED BY <1>1, <2>1, <2>2 DEF Journalled, OpenSteps, PublishSteps
<1>8. PICK k \in 0..Len(log) : StoresAt(k) /\ AckedAt(k)
  BY <1>0, SomePlace
<1>9. k \in 0..Len(log')
  BY <1>1, <1>2, <1>8 DEF StoresAt
<1>10. PICK d \in soc.disk : soc' = [pin |-> d[1], intent |-> d[2], disk |-> {d}, held |-> d[1]]
  BY DEF PowerLoss
<1>11. PICK e \in reg.disk : reg' = [pin |-> e[1], intent |-> e[2], disk |-> {e}, held |-> e[1]]
  BY DEF PowerLoss
<1>12. \A p \in Archives, q \in Archives :
          Between(soc, p, q) => /\ soc' \in StoreOf(Archives) /\ Between(soc', p, q) /\ Seen(soc')
                                /\ Resting(soc, q) => Resting(soc', q)
  BY <1>2, <1>10, LossFacts
<1>13. \A p \in Registries, q \in Registries :
          Between(reg, p, q) => /\ reg' \in StoreOf(Registries) /\ Between(reg', p, q) /\ Seen(reg')
                                /\ Resting(reg, q) => Resting(reg', q)
  BY <1>2, <1>11, LossFacts
<1>14. /\ SocialAt(k) \in Archives /\ RoomsAt(k) \in Registries
       /\ (k < Len(log) => SocialAt(k + 1) \in Archives /\ RoomsAt(k + 1) \in Registries)
       /\ log \in logDisk
  BY <1>0, <1>8, PlaceFacts DEF Journalled
<1>15. /\ \E p \in Archives, q \in Archives : Between(soc, p, q)
       /\ \E p \in Registries, q \in Registries : Between(reg, p, q)
  BY <1>8, <1>14 DEF StoresAt, Between
<1>16. soc' \in StoreOf(Archives) /\ Seen(soc') /\ reg' \in StoreOf(Registries) /\ Seen(reg')
  BY <1>12, <1>13, <1>15
<1>17. /\ \A p \in Archives : Resting(soc, p) => Resting(soc', p)
       /\ \A p \in Registries : Resting(reg, p) => Resting(reg', p)
  BY <1>12, <1>13 DEF Between
<1>18. StoresAt(k)'
  <2>1. /\ SocialAt(k)' = SocialAt(k) /\ RoomsAt(k)' = RoomsAt(k)
        /\ (k < Len(log') => SocialAt(k + 1)' = SocialAt(k + 1) /\ RoomsAt(k + 1)' = RoomsAt(k + 1))
    <3>1. k < Len(log') => k + 1 \in 0..Len(log')
      BY <1>2, <1>8
    <3> QED BY <1>4, <1>9, <3>1 DEF SocialAt, RoomsAt
  <2>2. \A l \in logDisk' : k <= Len(l)
    BY <1>1, <1>2, <1>9
  <2>3. CASE Resting(soc, SocialAt(k)) /\ Resting(reg, RoomsAt(k))
    <3>1. Resting(soc', SocialAt(k)) /\ Resting(reg', RoomsAt(k))
      BY <1>14, <1>17, <2>3
    <3> QED BY <1>9, <2>1, <2>2, <3>1 DEF StoresAt
  <2>4. CASE \A l \in logDisk : k < Len(l)
    <3>1. k < Len(log') /\ k < Len(log) /\ \A l \in logDisk' : k < Len(l)
      BY <1>1, <1>14, <2>4
    <3>2. CASE Resting(soc, SocialAt(k)) /\ Resting(reg, RoomsAt(k))
      BY <2>3, <3>2
    <3>3. CASE Between(soc, SocialAt(k), SocialAt(k + 1)) /\ Resting(reg, RoomsAt(k))
      <4>1. Between(soc', SocialAt(k), SocialAt(k + 1)) /\ Resting(reg', RoomsAt(k))
        BY <1>12, <1>14, <1>17, <3>1, <3>3
      <4> QED BY <1>9, <2>1, <2>2, <3>1, <4>1 DEF StoresAt
    <3>4. CASE Resting(soc, SocialAt(k + 1)) /\ Between(reg, RoomsAt(k), RoomsAt(k + 1))
      <4>1. Resting(soc', SocialAt(k + 1)) /\ Between(reg', RoomsAt(k), RoomsAt(k + 1))
        BY <1>13, <1>14, <1>17, <3>1, <3>4
      <4> QED BY <1>9, <2>1, <2>2, <3>1, <4>1 DEF StoresAt
    <3> QED BY <1>8, <3>2, <3>3, <3>4 DEF StoresAt
  <2> QED BY <1>8, <2>3, <2>4 DEF StoresAt
<1>19. AckedAt(k)'
  <2>1. \A b \in acked : b \in Batches /\ HeightOf[b] \in Nat \ {0}
    BY <1>0 DEF TypeOK
  <2>2. \A b \in acked : HeightOf[b] \in 1..Len(log')
    BY <1>2, <1>8, <1>9, <2>1 DEF AckedAt
  <2> QED BY <1>1, <1>3, <1>8, <2>2 DEF AckedAt
<1>20. Stores'
  <2>1. Seen(soc)' /\ Seen(reg)'
    BY <1>16 DEF Seen
  <2> QED BY <1>1, <1>9, <1>18, <1>19, <2>1 DEF Stores, Opening
<1>21. Objects' /\ Memory'
  BY <1>0, <1>1 DEF Objects, Memory, Opening, PublishSteps, JournalSteps
<1>22. TypeOK'
  <2>1. Genesis \in Frontiers /\ GenesisState = Made[Genesis]
    BY MadeFacts DEF Frontiers
  <2>2. GenesisState \in [frontier : Frontiers, social : Archives, rooms : Registries]
    <3>1. /\ Made[Genesis] = [frontier |-> Genesis, social |-> Made[Genesis].social, rooms |-> Made[Genesis].rooms]
          /\ Made[Genesis].social \in Archives /\ Made[Genesis].rooms \in Registries
      BY <2>1, MadeShape
    <3> QED BY <2>1, <3>1
  <2> QED BY <1>0, <1>1, <1>2, <1>16, <2>1, <2>2 DEF TypeOK
<1> QED BY <1>7, <1>20, <1>21, <1>22 DEF AdapterInv

-----------------------------------------------------------------------------
(* The theorems.                                                           *)

LEMMA InitHolds == Init => AdapterInv
<1> SUFFICES ASSUME Init PROVE AdapterInv
  OBVIOUS
<1> USE DEF Init
<1>1. /\ Genesis \in Frontiers /\ GenesisState = Made[Genesis] /\ Height(Genesis) = 0
      /\ Made[Genesis] = [frontier |-> Genesis, social |-> Made[Genesis].social, rooms |-> Made[Genesis].rooms]
      /\ Made[Genesis].social \in Archives /\ Made[Genesis].rooms \in Registries
  BY MadeFacts, MadeShape, HeightFacts DEF Frontiers
<1>2. << >> \in Logs
  <2>1. << >> \in [1..0 -> Batches]
    OBVIOUS
  <2>2. << >> \in UNION {[1..n -> Batches] : n \in {Height(f) : f \in Frontiers}}
    BY <1>1, <2>1
  <2>3. \A i \in DOMAIN << >> : FALSE
    BY <2>1
  <2>4. \A i \in DOMAIN << >> : ParentOf[<< >>[i]] = IF i = 1 THEN Genesis ELSE << >>[i - 1]
    BY <2>3, Zenon
  <2> HIDE DEF Init
  <2> QED BY <2>2, <2>4, Zenon DEF Logs
<1>3. TypeOK
  <2>1. Holding(GenesisState.social) \in StoreOf(Archives) /\ Holding(GenesisState.rooms) \in StoreOf(Registries)
    BY <1>1 DEF Holding, StoreOf
  <2>2. GenesisState \in [frontier : Frontiers, social : Archives, rooms : Registries]
    BY <1>1
  <2>3. log \in Logs /\ logDisk \subseteq Logs
    BY <1>2
  <2>4. faults \in 0..MaxFaults /\ cur \in Frontiers /\ ret \in {"ack", "replay"}
    BY <1>1
  <2>5. refused \in BOOLEAN
    BY Zenon
  <2>6. pending \subseteq Batches /\ acked \subseteq Batches /\ pc = "closed"
    OBVIOUS
  <2>7. soc \in StoreOf(Archives) /\ reg \in StoreOf(Registries)
        /\ app \in [frontier : Frontiers, social : Archives, rooms : Registries]
    BY <2>1, <2>2
  <2> HIDE DEF Init
  <2> QED BY <2>3, <2>4, <2>6, <2>7, <2>5 DEF TypeOK
<1>4. Len(log) = 0 /\ log \in Seq(Batches)
  OBVIOUS
<1>5. Journalled
  <2>1. Logged(log)
    BY <1>4 DEF Logged
  <2>2. Below(GenesisState, GenesisState)
    BY DEF Below, GenesisState
  <2>3. Grows(log)
    BY <1>4, <2>2 DEF Grows, StateAt
  <2> QED BY <2>1, <2>3 DEF Journalled, OnDisk, OpenSteps, PublishSteps
<1>6. Stores
  <2>1. Seen(soc) /\ Seen(reg) /\ Resting(soc, SocialAt(0)) /\ Resting(reg, RoomsAt(0))
    BY DEF Seen, Holding, Resting, AtRest, SocialAt, RoomsAt, StateAt
  <2>2. StoresAt(0) /\ AckedAt(0)
    BY <1>4, <2>1 DEF StoresAt, AckedAt
  <2> QED BY <1>4, <2>1, <2>2 DEF Stores, Opening
<1>7. Objects /\ Memory
  BY DEF Objects, Memory, Opening, PublishSteps, JournalSteps
<1> QED BY <1>3, <1>5, <1>6, <1>7 DEF AdapterInv

LEMMA NextHolds == AdapterInv /\ [Next]_vars => AdapterInv'
<1> SUFFICES ASSUME AdapterInv, [Next]_vars PROVE AdapterInv'
  OBVIOUS
<1>1. CASE UNCHANGED vars
  BY <1>1 DEF vars, AdapterInv, TypeOK, Journalled, Logged, Grows, OnDisk, Stores, StoresAt, AckedAt, Seen,
              Objects, InHand, Memory, Applied, SocialAt, RoomsAt
<1>2. CASE Step
  <2>1. CASE OpenStores \/ RecoverSocial \/ RecoverRooms
    BY <2>1, OpeningKeeps
  <2>2. CASE Locate
    BY <2>2, LocateKeeps
  <2>3. CASE ReplayNext \/ Opened
    BY <2>3, ReplayKeeps
  <2>4. CASE JournalPublish \/ JournalSync
    BY <2>4, JournalKeeps
  <2>5. CASE CommitSocial \/ CommitRooms
    BY <2>5, CommitKeeps
  <2>6. CASE PushSocial \/ PushRooms
    BY <2>6, PushKeeps
  <2>7. CASE Apply
    BY <2>7, ApplyKeeps
  <2> QED BY <1>2, <2>1, <2>2, <2>3, <2>4, <2>5, <2>6, <2>7 DEF Step
<1>3. CASE OpenJournal
  BY <1>3, OpeningKeeps
<1>4. CASE Restart \/ Fail \/ Die
  BY <1>4, FaultKeeps
<1>5. CASE PowerLoss
  BY <1>5, PowerLossKeeps
<1>6. CASE (\E b \in Batches : Hold(b)) \/ (\E b \in Certified : Decide(b) \/ Absorb(b))
  BY <1>6, CallKeeps
<1> QED BY <1>1, <1>2, <1>3, <1>4, <1>5, <1>6 DEF Next

LEMMA AlwaysHolds == Spec => []AdapterInv
  BY InitHolds, NextHolds, PTL DEF Spec

\* A log on the disk and the visible one make the same states.
LEMMA DiskFacts ==
    ASSUME TypeOK, Journalled, NEW l \in logDisk, NEW j \in 0..Len(l)
    PROVE  /\ j \in 0..Len(log) /\ StateAt(l, j) = StateAt(log, j)
           /\ j # 0 => l[j] = log[j]
<1>1. Len(log) \in Nat /\ Len(l) \in Nat /\ OnDisk(l)
  BY TypeFacts DEF Journalled
<1>2. j = 0 \/ j \in 1..Len(l)
  BY <1>1
<1>3. j \in 0..Len(log) /\ (j # 0 => l[j] = log[j])
  BY <1>1, <1>2 DEF OnDisk
<1> QED BY <1>3 DEF StateAt

LEMMA FollowsJournal ==
    ASSUME AdapterInv
    PROVE  StoresFollowJournal
<1>0. TypeOK /\ Journalled /\ Stores /\ Objects /\ Memory
  BY DEF AdapterInv
<1> SUFFICES ASSUME NEW l \in logDisk, NEW s \in soc.disk, NEW r \in reg.disk
             PROVE  \E k \in 0..Len(l) :
                        /\ Recovered(r) = StateAt(l, k).rooms
                        /\ \/ Recovered(s) = StateAt(l, k).social
                           \/ k < Len(l) /\ Recovered(s) = StateAt(l, k + 1).social
  BY DEF StoresFollowJournal
<1>1. PICK k \in 0..Len(log) : StoresAt(k)
  BY <1>0, SomePlace
<1>2. /\ Len(log) \in Nat /\ Len(l) \in Nat /\ k \in 0..Len(l)
      /\ NoIntent \notin Archives /\ NoIntent \notin Registries
  BY <1>0, <1>1, TypeFacts DEF StoresAt
<1>3. /\ StateAt(l, k).social = SocialAt(k) /\ StateAt(l, k).rooms = RoomsAt(k)
      /\ SocialAt(k) \in Archives /\ RoomsAt(k) \in Registries
  BY <1>0, <1>2, DiskFacts, PlaceFacts DEF SocialAt, RoomsAt
<1>4. ASSUME k < Len(l)
      PROVE  /\ k + 1 \in 0..Len(l)
             /\ StateAt(l, k + 1).social = SocialAt(k + 1) /\ StateAt(l, k + 1).rooms = RoomsAt(k + 1)
             /\ SocialAt(k + 1) \in Archives /\ RoomsAt(k + 1) \in Registries
  <2>1. k + 1 \in 0..Len(l)
    BY <1>2, <1>4
  <2>2. k + 1 \in 0..Len(log) /\ StateAt(l, k + 1) = StateAt(log, k + 1)
    BY <1>0, <2>1, DiskFacts
  <2> QED BY <1>0, <2>1, <2>2, PlaceFacts DEF SocialAt, RoomsAt
<1>5. SocialAt(k) # NoIntent /\ RoomsAt(k) # NoIntent
  BY <1>2, <1>3
<1>6. k < Len(l) => SocialAt(k + 1) # NoIntent /\ RoomsAt(k + 1) # NoIntent
  BY <1>2, <1>4
<1>7. Resting(soc, SocialAt(k)) => Recovered(s) = SocialAt(k)
  BY <1>5, RestingRecovers
<1>8. Resting(reg, RoomsAt(k)) => Recovered(r) = RoomsAt(k)
  BY <1>5, RestingRecovers
<1>9. CASE Resting(soc, SocialAt(k)) /\ Resting(reg, RoomsAt(k))
  BY <1>2, <1>3, <1>7, <1>8, <1>9
<1>10. CASE k < Len(l) /\ Between(soc, SocialAt(k), SocialAt(k + 1)) /\ Resting(reg, RoomsAt(k))
  <2>1. Recovered(s) = SocialAt(k) \/ Recovered(s) = SocialAt(k + 1)
    BY <1>5, <1>6, <1>10, BetweenRecovers
  <2> QED BY <1>2, <1>3, <1>4, <1>8, <1>10, <2>1
<1>11. CASE k < Len(l) /\ Resting(soc, SocialAt(k + 1)) /\ Between(reg, RoomsAt(k), RoomsAt(k + 1))
  <2>1. Recovered(s) = SocialAt(k + 1)
    BY <1>6, <1>11, RestingRecovers
  <2>2. Recovered(r) = RoomsAt(k) \/ Recovered(r) = RoomsAt(k + 1)
    BY <1>5, <1>6, <1>11, BetweenRecovers
  <2> QED BY <1>2, <1>3, <1>4, <1>11, <2>1, <2>2
<1> QED BY <1>1, <1>9, <1>10, <1>11 DEF StoresAt

LEMMA JournalledMemory ==
    ASSUME AdapterInv
    PROVE  MemoryIsJournalled
<1>0. TypeOK /\ Journalled /\ Stores /\ Objects /\ Memory
  BY DEF AdapterInv
<1> SUFFICES ASSUME pc = "ready", NEW l \in logDisk
             PROVE  Applied <= Len(l) /\ app = StateAt(l, Applied)
  BY DEF MemoryIsJournalled, Applied
<1>1. StoresAt(Applied) /\ Applied \in Nat /\ Len(l) \in Nat /\ Len(log) \in Nat /\ log \in Seq(Batches)
      /\ Logged(log)
  BY <1>0, TypeFacts DEF Stores, Opening, Journalled
<1>2. Applied \in 0..Len(l)
  BY <1>1 DEF StoresAt
<1>3. Applied \in 0..Len(log) /\ StateAt(l, Applied) = StateAt(log, Applied)
  BY <1>0, <1>2, DiskFacts
<1>4. /\ app.frontier = FrontierAt(log, Applied) /\ app.rooms = RoomsAt(Applied) /\ app.social = SocialAt(Applied)
      /\ app = [frontier |-> app.frontier, social |-> app.social, rooms |-> app.rooms]
  BY <1>0 DEF Memory, Opening, PublishSteps, TypeOK
<1>5. StateAt(log, Applied) = [frontier |-> FrontierAt(log, Applied), social |-> SocialAt(Applied),
                               rooms |-> RoomsAt(Applied)]
  BY <1>1, <1>3, StateFacts DEF SocialAt, RoomsAt
<1> QED BY <1>2, <1>3, <1>4, <1>5

LEMMA AnswersAreDurable ==
    ASSUME AdapterInv
    PROVE  AckedIsDurable
<1>0. TypeOK /\ Journalled /\ Stores /\ Objects /\ Memory
  BY DEF AdapterInv
<1> SUFFICES ASSUME NEW b \in acked
             PROVE  /\ \A l \in logDisk : HeightOf[b] <= Len(l) /\ l[HeightOf[b]] = b
                    /\ \A d \in soc.disk : Made[b].social \subseteq Recovered(d)
                    /\ \A d \in reg.disk : Made[b].rooms.rev <= Recovered(d).rev
                                           /\ Made[b].rooms.facts \subseteq Recovered(d).facts
                    /\ pc = "ready" => HeightOf[b] <= Height(app.frontier)
  BY DEF AckedIsDurable
<1>1. PICK k \in 0..Len(log) : StoresAt(k) /\ AckedAt(k)
  BY <1>0, SomePlace
<1>2. PICK n : n = HeightOf[b] /\ n \in Nat \ {0} /\ n <= k /\ log[n] = b
  BY <1>0, <1>1 DEF AckedAt, TypeOK
<1>3. Len(log) \in Nat /\ n \in 0..Len(log) /\ log \in logDisk /\ NoIntent \notin Archives /\ NoIntent \notin Registries
  BY <1>0, <1>1, <1>2, TypeFacts DEF Journalled
<1>4. ASSUME NEW l \in logDisk PROVE n <= Len(l) /\ l[n] = b
  <2>1. Len(l) \in Nat /\ k <= Len(l)
    BY <1>0, <1>1, TypeFacts DEF StoresAt
  <2>2. n \in 0..Len(l) /\ n <= Len(l)
    BY <1>2, <2>1
  <2> QED BY <1>0, <1>2, <2>2, DiskFacts
<1>5. Made[b] = StateAt(log, n)
  BY <1>2 DEF StateAt
<1>6. ASSUME NEW j \in 0..Len(log), n <= j
      PROVE  /\ Made[b].social \subseteq SocialAt(j)
             /\ Made[b].rooms.rev <= RoomsAt(j).rev /\ Made[b].rooms.facts \subseteq RoomsAt(j).facts
  <2>1. Below(StateAt(log, n), StateAt(log, j))
    BY <1>0, <1>3, <1>6 DEF Journalled, Grows
  <2> QED BY <1>5, <2>1 DEF Below, SocialAt, RoomsAt
<1>7. /\ SocialAt(k) \in Archives /\ RoomsAt(k) \in Registries
      /\ (k < Len(log) => SocialAt(k + 1) \in Archives /\ RoomsAt(k + 1) \in Registries)
      /\ (k < Len(log) => k + 1 \in 0..Len(log) /\ n <= k + 1)
  BY <1>0, <1>1, <1>2, <1>3, PlaceFacts
<1>8. /\ SocialAt(k) # NoIntent /\ RoomsAt(k) # NoIntent
       /\ (k < Len(log) => SocialAt(k + 1) # NoIntent /\ RoomsAt(k + 1) # NoIntent)
  BY <1>3, <1>7
<1>9. ASSUME NEW d \in soc.disk PROVE Made[b].social \subseteq Recovered(d)
  <2>1. \/ Recovered(d) = SocialAt(k)
        \/ k < Len(log) /\ Recovered(d) = SocialAt(k + 1)
    <3>1. CASE Resting(soc, SocialAt(k))
      BY <1>8, <3>1, RestingRecovers
    <3>2. CASE k < Len(log) /\ Resting(soc, SocialAt(k + 1))
      BY <1>8, <3>2, RestingRecovers
    <3>3. CASE k < Len(log) /\ Between(soc, SocialAt(k), SocialAt(k + 1))
      BY <1>8, <3>3, BetweenRecovers
    <3> QED BY <1>1, <1>3, <3>1, <3>2, <3>3 DEF StoresAt
  <2> QED BY <1>2, <1>6, <1>7, <2>1
<1>10. ASSUME NEW d \in reg.disk
      PROVE  Made[b].rooms.rev <= Recovered(d).rev /\ Made[b].rooms.facts \subseteq Recovered(d).facts
  <2>1. \/ Recovered(d) = RoomsAt(k)
        \/ k < Len(log) /\ Recovered(d) = RoomsAt(k + 1)
    <3>1. CASE Resting(reg, RoomsAt(k))
      BY <1>8, <3>1, RestingRecovers
    <3>2. CASE k < Len(log) /\ Resting(reg, RoomsAt(k + 1))
      BY <1>8, <3>2, RestingRecovers
    <3>3. CASE k < Len(log) /\ Between(reg, RoomsAt(k), RoomsAt(k + 1))
      BY <1>8, <3>3, BetweenRecovers
    <3> QED BY <1>1, <1>3, <3>1, <3>2, <3>3 DEF StoresAt
  <2> QED BY <1>2, <1>6, <1>7, <2>1
<1>11. pc = "ready" => HeightOf[b] <= Height(app.frontier)
  BY <1>0 DEF Stores, Opening, AckedAt, Applied
<1> QED BY <1>2, <1>4, <1>9, <1>10, <1>11

\* Journal, social store, rooms store and memory never disagree: whatever each
\* of them keeps of a power loss, the stores are a prefix of the journal, with
\* at most the social store one batch further, and between calls memory is the
\* state of its own height (Adapter::decide, Adapter::publish).
THEOREM PartsAlwaysAgree == Spec => []PartsAgree
<1>1. AdapterInv => PartsAgree
  BY FollowsJournal, JournalledMemory DEF PartsAgree, AdapterInv
<1> QED BY <1>1, AlwaysHolds, PTL

\* A decision that was answered Acked is in the journal, in both stores and in
\* an open adapter's memory for good: no error, death or power loss takes it
\* back (DecidedOutcome::Acked).
THEOREM AnswersStay == Spec => []AckedIsDurable
<1>1. AdapterInv => AckedIsDurable
  BY AnswersAreDurable
<1> QED BY <1>1, AlwaysHolds, PTL

\* Adapter::open rebuilds memory from whatever a crash left of the three: it
\* always finds a prefix, every replayed batch validates, no store refuses.
THEOREM OpenAlwaysRebuilds == Spec => []OpenRebuilds
<1>1. AdapterInv => OpenRebuilds
  BY DEF AdapterInv, Memory, OpenRebuilds
<1> QED BY <1>1, AlwaysHolds, PTL

-----------------------------------------------------------------------------
(* The streams of proposal parts.                                          *)

HIDE AdapterAssumption

-----------------------------------------------------------------------------
(* Sums over finite functions: the order of summation does not matter.     *)

Pick(s) == CHOOSE x \in s : TRUE
Tally(f, g, s) == IF s = {} THEN 0 ELSE f[Pick(s)] + g[s \ {Pick(s)}]
Tallies(f, S, g) == g = [s \in SUBSET S |-> Tally(f, g, s)]

LEMMA SumIsTally ==
    ASSUME NEW f
    PROVE  SumFunction(f) = (CHOOSE g : Tallies(f, DOMAIN f, g))[DOMAIN f]
  BY DEF SumFunction, SumFunctionOnSet, FoldFunctionOnSet, MapThenFoldSet, Tallies, Tally, Pick

\* The subsets of a finite set, by their size.
Small(S, n) == {s \in SUBSET S : Cardinality(s) <= n}

LEMMA SubsetFacts ==
    ASSUME NEW S, IsFiniteSet(S), NEW s \in SUBSET S
    PROVE  /\ IsFiniteSet(s) /\ Cardinality(s) \in Nat /\ Cardinality(s) <= Cardinality(S)
           /\ s # {} => Pick(s) \in s
           /\ \A x \in s : s \ {x} \in SUBSET S /\ Cardinality(s \ {x}) = Cardinality(s) - 1
                           /\ Cardinality(s) # 0
<1>1. IsFiniteSet(s) /\ Cardinality(s) \in Nat /\ Cardinality(s) <= Cardinality(S)
  BY FS_Subset, FS_CardinalityType
<1>2. s # {} => Pick(s) \in s
  BY DEF Pick
<1>3. \A x \in s : Cardinality(s \ {x}) = Cardinality(s) - 1
  BY <1>1, FS_RemoveElement
<1>4. \A x \in s : Cardinality(s) # 0
  BY <1>1, FS_EmptySet
<1> QED BY <1>1, <1>2, <1>3, <1>4

LEMMA TalliesSmall ==
    ASSUME NEW S, IsFiniteSet(S), NEW f
    PROVE  \A n \in Nat : \E g : g = [s \in Small(S, n) |-> Tally(f, g, s)]
<1> DEFINE P(n, g) == g = [s \in Small(S, n) |-> Tally(f, g, s)]
           T == {n \in Nat : ~\E g : P(n, g)}
<1>1. SUFFICES ASSUME T # {} PROVE FALSE
  OBVIOUS
<1>2. T \in SUBSET Nat
  OBVIOUS
<1>3. PICK n \in T : \A j \in T : n <= j
  BY <1>1, <1>2, Least
<1>4. n \in Nat /\ ~\E g : P(n, g)
  BY <1>3
<1>5. \A s \in SUBSET S : Cardinality(s) \in Nat
  BY SubsetFacts
<1>6. CASE n = 0
  <2> DEFINE g == [s \in Small(S, n) |-> 0]
  <2>1. \A s \in Small(S, n) : s = {}
    <3>1. \A s \in Small(S, n) : s \in SUBSET S /\ Cardinality(s) = 0
      BY <1>5, <1>6 DEF Small
    <3> QED BY <3>1, SubsetFacts
  <2>2. \A s \in Small(S, n) : Tally(f, g, s) = 0
    BY <2>1 DEF Tally
  <2>3. P(n, g)
    BY <2>2
  <2> QED BY <1>4, <2>3
<1>7. CASE n # 0
  <2>1. n - 1 \in Nat /\ n - 1 \notin T
    BY <1>3, <1>4, <1>7
  <2>2. PICK h : P(n - 1, h)
    BY <2>1
  <2> DEFINE g == [s \in Small(S, n) |-> Tally(f, h, s)]
  <2>3. ASSUME NEW s \in Small(S, n - 1) PROVE s \in Small(S, n) /\ g[s] = h[s]
    <3>1. s \in Small(S, n)
      BY <1>4, <1>5 DEF Small
    <3>2. h[s] = Tally(f, h, s)
      BY <2>2
    <3> QED BY <3>1, <3>2
  <2>4. \A s \in Small(S, n) : g[s] = Tally(f, h, s)
    OBVIOUS
  <2>5. g = [s \in Small(S, n) |-> g[s]]
    OBVIOUS
  <2> HIDE DEF g
  <2>6. ASSUME NEW s \in Small(S, n) PROVE Tally(f, h, s) = Tally(f, g, s)
    <3>1. CASE s = {}
      BY <3>1 DEF Tally
    <3>2. CASE s # {}
      <4>1. s \in SUBSET S /\ Cardinality(s) <= n /\ Cardinality(s) \in Nat
        BY <1>5 DEF Small
      <4>2. Pick(s) \in s /\ s \ {Pick(s)} \in SUBSET S /\ Cardinality(s \ {Pick(s)}) = Cardinality(s) - 1
        BY <3>2, <4>1, SubsetFacts
      <4>3. s \ {Pick(s)} \in Small(S, n - 1)
        BY <1>4, <4>1, <4>2 DEF Small
      <4> QED BY <2>3, <3>2, <4>3 DEF Tally
    <3> QED BY <3>1, <3>2
  <2>7. g = [s \in Small(S, n) |-> Tally(f, g, s)]
    BY <2>4, <2>5, <2>6
  <2> QED BY <1>4, <2>7
<1> QED BY <1>6, <1>7

LEMMA TalliesExist ==
    ASSUME NEW S, IsFiniteSet(S), NEW f
    PROVE  \E g : Tallies(f, S, g)
<1>1. Cardinality(S) \in Nat
  BY FS_CardinalityType
<1>2. SUBSET S = Small(S, Cardinality(S))
  BY SubsetFacts DEF Small
<1>3. PICK g : g = [s \in Small(S, Cardinality(S)) |-> Tally(f, g, s)]
  BY <1>1, TalliesSmall
<1> QED BY <1>2, <1>3 DEF Tallies

\* Any element may be taken first.
NatOn(f, S) == \A x \in S : f[x] \in Nat

LEMMA TallyAny ==
    ASSUME NEW S, IsFiniteSet(S), NEW f, NatOn(f, S), NEW g, Tallies(f, S, g)
    PROVE  \A s \in SUBSET S : g[s] \in Nat /\ \A x \in s : g[s] = f[x] + g[s \ {x}]
<1> USE DEF NatOn
<1> DEFINE Good(s) == g[s] \in Nat /\ \A x \in s : g[s] = f[x] + g[s \ {x}]
           T == {Cardinality(s) : s \in {t \in SUBSET S : ~Good(t)}}
<1>1. SUFFICES ASSUME T # {} PROVE FALSE
  OBVIOUS
<1>2. T \in SUBSET Nat
  BY SubsetFacts
<1>3. PICK n \in T : \A j \in T : n <= j
  BY <1>1, <1>2, Least
<1>4. PICK s \in SUBSET S : ~Good(s) /\ Cardinality(s) = n
  BY <1>3
<1>0. n \in Nat /\ \A m \in Nat : m < n => m \notin T
  <2> HIDE DEF T
  <2> QED BY <1>2, <1>3
<1>5. g[s] = Tally(f, g, s)
  BY DEF Tallies
<1>6. s # {}
  BY <1>4, <1>5 DEF Tally
<1>7. ASSUME NEW x \in s PROVE s \ {x} \in SUBSET S /\ Good(s \ {x})
  <2>1. s \ {x} \in SUBSET S /\ Cardinality(s \ {x}) = Cardinality(s) - 1 /\ Cardinality(s) \in Nat
    BY SubsetFacts
  <2>2. Cardinality(s \ {x}) \in Nat /\ Cardinality(s \ {x}) < n
    <3>1. Cardinality(s) # 0
      BY SubsetFacts
    <3> QED BY <1>0, <1>4, <2>1, <3>1
  <2>3. Cardinality(s \ {x}) \notin T
    <3> HIDE DEF T
    <3> QED BY <1>0, <2>2
  <2> QED BY <2>1, <2>3
<1> DEFINE c == Pick(s)
<1>8. c \in s /\ g[s] = f[c] + g[s \ {c}]
  BY <1>5, <1>6, SubsetFacts DEF Tally
<1> HIDE DEF c
<1>9. f[c] \in Nat /\ g[s \ {c}] \in Nat
  BY <1>7, <1>8
<1>10. ASSUME NEW x \in s PROVE g[s] = f[x] + g[s \ {x}]
  <2>1. CASE x = c
    BY <1>8, <2>1
  <2>2. CASE x # c
    <3>1. x \in s \ {c} /\ c \in s \ {x} /\ (s \ {c}) \ {x} = (s \ {x}) \ {c}
      BY <1>8, <2>2
    <3> DEFINE r == (s \ {c}) \ {x}
    <3>2. g[s \ {c}] = f[x] + g[r]
      BY <1>7, <1>8, <3>1
    <3>3. g[s \ {x}] = f[c] + g[r]
      BY <1>7, <1>8, <3>1
    <3>4. f[x] \in Nat /\ g[r] \in Nat
      <4>1. s \ {c} \in SUBSET S
        BY <1>7, <1>8
      <4>2. r \in SUBSET S /\ Cardinality(s \ {c}) \in Nat /\ Cardinality(r) = Cardinality(s \ {c}) - 1
        BY <3>1, <4>1, SubsetFacts
      <4>3. Cardinality(s \ {c}) = Cardinality(s) - 1 /\ Cardinality(s) \in Nat
        BY <1>8, SubsetFacts
      <4>4. Cardinality(r) \in Nat /\ Cardinality(r) < n
        <5>1. Cardinality(r) \in Nat
          BY <4>2, SubsetFacts
        <5> QED BY <1>0, <1>4, <4>2, <4>3, <5>1
      <4>5. Cardinality(r) \notin T
        <5> HIDE DEF T
        <5> QED BY <1>0, <4>4
      <4> QED BY <1>7, <3>1, <4>2, <4>5
    <3> HIDE DEF r
    <3> QED BY <1>8, <1>9, <3>2, <3>3, <3>4
  <2> QED BY <2>1, <2>2
<1>11. g[s] \in Nat
  BY <1>8, <1>9
<1> QED BY <1>4, <1>10, <1>11

\* Functions that agree on S have the same sums there.
Agreeing(f, e, S) == \A x \in S : f[x] = e[x]

LEMMA TallyAgrees ==
    ASSUME NEW S, IsFiniteSet(S), NEW f, NEW e, Agreeing(f, e, S),
           NEW R, S \subseteq R, NEW g, NEW h, Tallies(f, S, g), Tallies(e, R, h)
    PROVE  g[S] = h[S]
<1> DEFINE T == {Cardinality(s) : s \in {t \in SUBSET S : g[t] # h[t]}}
<1>1. SUFFICES ASSUME T # {} PROVE FALSE
  OBVIOUS
<1>2. T \in SUBSET Nat
  BY SubsetFacts
<1>3. PICK n \in T : \A j \in T : n <= j
  BY <1>1, <1>2, Least
<1>4. PICK s \in SUBSET S : g[s] # h[s] /\ Cardinality(s) = n
  BY <1>3
<1>5. g[s] = Tally(f, g, s) /\ h[s] = Tally(e, h, s)
  BY DEF Tallies
<1>6. s # {}
  BY <1>4, <1>5 DEF Tally
<1>7. Pick(s) \in s
  BY <1>6, SubsetFacts
<1>8. /\ s \ {Pick(s)} \in SUBSET S /\ Cardinality(s \ {Pick(s)}) = Cardinality(s) - 1
      /\ Cardinality(s) \in Nat
  BY <1>7, SubsetFacts
<1>9. g[s \ {Pick(s)}] = h[s \ {Pick(s)}]
  <2>1. Cardinality(s \ {Pick(s)}) \notin T
    BY <1>3, <1>4, <1>8
  <2> QED BY <1>8, <2>1
<1> QED BY <1>4, <1>5, <1>6, <1>7, <1>9 DEF Tally, Agreeing

\* The sum of a function with one more value.
Extended(e, f, q, v) == e = [x \in DOMAIN f \cup {q} |-> IF x = q THEN v ELSE f[x]]

LEMMA SumAdd ==
    ASSUME NEW f, IsFiniteSet(DOMAIN f), NatOn(f, DOMAIN f), NEW q, q \notin DOMAIN f,
           NEW v \in Nat, NEW e, Extended(e, f, q, v)
    PROVE  SumFunction(e) = SumFunction(f) + v /\ SumFunction(f) \in Nat
<1> DEFINE S == DOMAIN f
           R == S \cup {q}
<1>1. DOMAIN e = R /\ IsFiniteSet(R) /\ (\A x \in S : f[x] = e[x]) /\ e[q] = v
      /\ NatOn(e, R)
  BY FS_AddElement DEF Extended, NatOn
<1>2. PICK g : g = (CHOOSE j : Tallies(f, S, j))
  OBVIOUS
<1>3. PICK h : h = (CHOOSE j : Tallies(e, R, j))
  OBVIOUS
<1>4. Tallies(f, S, g)
  BY <1>2, TalliesExist
<1>5. Tallies(e, R, h)
  BY <1>1, <1>3, TalliesExist
<1>6. SumFunction(f) = g[S]
  BY <1>2, SumIsTally
<1>7. SumFunction(e) = h[R]
  BY <1>1, <1>3, SumIsTally
<1> HIDE DEF S, R
<1>8. R \in SUBSET R /\ q \in R /\ R \ {q} = S /\ S \in SUBSET S /\ S \subseteq R /\ IsFiniteSet(S)
      /\ NatOn(f, S)
  BY DEF R, S
<1>9. h[R] = e[q] + h[S]
  BY <1>1, <1>5, <1>8, TallyAny
<1>10. g[S] = h[S]
  <2>1. Agreeing(f, e, S)
    BY <1>1 DEF Agreeing, S
  <2> QED BY <1>4, <1>5, <1>8, <2>1, TallyAgrees
<1>11. g[S] \in Nat
  BY <1>4, <1>8, TallyAny
<1> QED BY <1>1, <1>6, <1>7, <1>9, <1>10, <1>11

LEMMA SumEmpty ==
    ASSUME NEW f, DOMAIN f = {}
    PROVE  SumFunction(f) = 0
<1>1. IsFiniteSet(DOMAIN f)
  BY FS_EmptySet
<1>2. PICK g : g = (CHOOSE j : Tallies(f, DOMAIN f, j))
  OBVIOUS
<1>3. Tallies(f, DOMAIN f, g)
  BY <1>1, <1>2, TalliesExist
<1>4. SumFunction(f) = g[DOMAIN f]
  BY <1>2, SumIsTally
<1>5. g[{}] = Tally(f, g, {})
  BY <1>3 DEF Tallies
<1> QED BY <1>4, <1>5 DEF Tally

-----------------------------------------------------------------------------
(* The inductive invariant.                                                *)

Fields(s) == s = [init |-> s.init, data |-> s.data, len |-> s.len,
                  fin |-> s.fin, finSeq |-> s.finSeq, end |-> s.end]

\* One stream within the limits: the streams' part of StreamTypeOK.
Bounded(s) ==
    /\ s.init \in 0..MaxHeight /\ s.fin \in Signatures \cup {0}
    /\ s.finSeq \in {0} \cup 2..MaxChunks + 1 /\ s.end \in {0} \cup 3..MaxChunks + 2
    /\ DOMAIN s.data \subseteq 1..MaxChunks
    /\ s.len = SumFunction(s.data) /\ s.len <= MaxBytes

Numbers(s) == \A i \in DOMAIN s.data : s.data[i] \in Nat

InitPart(S)    == Part("init", 0, S.height)
DataPart(S, i) == Part("data", i, S.chunks[i])
FinPart(S)     == Part("fin", Len(S.chunks) + 1, 1)
EndPart(S)     == Part("end", Len(S.chunks) + 2, 0)

\* The bytes of the chunks whose slots are in D.
Bytes(S, D) == LET n == Len(S.chunks) IN
    ChunkBytes * Cardinality(D \ {n}) + (IF n \in D THEN S.chunks[n] ELSE 0)

\* What the table holds of the stream S when the parts of G have arrived, in
\* whatever order.
Exact(s, S, G) ==
    /\ G \subseteq Parts(S)
    /\ s.init   = IF InitPart(S) \in G THEN S.height ELSE 0
    /\ s.fin    = IF FinPart(S) \in G THEN 1 ELSE 0
    /\ s.finSeq = IF FinPart(S) \in G THEN Len(S.chunks) + 1 ELSE 0
    /\ s.end    = IF EndPart(S) \in G THEN Len(S.chunks) + 2 ELSE 0
    /\ DOMAIN s.data = {i \in 1..Len(S.chunks) : DataPart(S, i) \in G}
    /\ \A i \in DOMAIN s.data : s.data[i] = S.chunks[i]
    /\ s.len = Bytes(S, DOMAIN s.data)

\* The table within its limits: the rest of StreamTypeOK.
TableOk ==
    /\ Live \subseteq Keys /\ stale \subseteq Live /\ decided \in 0..MaxHeight
    /\ DOMAIN got = Live \cap SoundKeys
    /\ IsFiniteSet(Live) /\ Cardinality(Live) <= MaxStreams
    /\ \A peer \in {k[1] : k \in Keys} : Cardinality({k \in Live : k[1] = peer}) <= MaxPerPeer

\* One stream of the table: a record, within the limits.
Held(s) == Fields(s) /\ Numbers(s) /\ Bounded(s)

\* A sound stream holds what its parts made it, and some part is missing.
Waiting(s, S, G) == Exact(s, S, G) /\ G # Parts(S)

StreamInv ==
    /\ traffic \in Traffics
    /\ TableOk
    /\ \A k \in Live : Held(streams[k])
    /\ \A k \in DOMAIN got : Waiting(streams[k], StreamOf(k), got[k])
    /\ judged = {}
    /\ AssembledExact

-----------------------------------------------------------------------------
(* Sound streams: chunks and limits.                                       *)

USE StreamAssumption

\* A stream as data_parts cuts it, within the limits.
Sendable(S) == S.height \in 1..MaxHeight /\ S.chunks \in Seq(Nat) /\ Cut(S.chunks, MaxBytes)

LEMMA TrafficFacts ==
    ASSUME traffic \in Traffics
    PROVE  /\ MaxBytes \in Nat \ {0} /\ MaxStreams \in Nat \ {0} /\ MaxPerPeer \in Nat \ {0}
           /\ MaxHeight \in Nat \ {0} /\ ChunkBytes \in Nat \ {0}
           /\ \A k \in SoundKeys : k \notin Rogue /\ Key(StreamOf(k)) = k /\ Sendable(StreamOf(k))
<1>1. /\ MaxBytes \in Nat \ {0} /\ MaxStreams \in Nat \ {0} /\ MaxPerPeer \in Nat \ {0}
      /\ MaxHeight \in Nat \ {0} /\ ChunkBytes \in Nat \ {0}
  BY DEF MaxBytes, MaxStreams, MaxPerPeer, MaxHeight
<1>2. \A s \in Sound : Key(s) \notin Rogue /\ Sendable(s)
  BY DEF Sound, Rogue, Sendable, MaxHeight, MaxBytes
<1>3. ASSUME NEW k \in SoundKeys PROVE StreamOf(k) \in Sound /\ Key(StreamOf(k)) = k
  <2>1. \E s \in Sound : Key(s) = k
    BY DEF SoundKeys
  <2> QED BY <2>1 DEF StreamOf
<1> QED BY <1>1, <1>2, <1>3

LEMMA DivFacts ==
    ASSUME NEW a \in Nat, NEW b \in Nat, NEW c \in Nat \ {0}, a * c <= b
    PROVE  b \div c \in Nat /\ a <= b \div c
<1>1. b \div c \in Nat /\ b < c * (b \div c) + c
  OBVIOUS
<1>2. SUFFICES ASSUME a >= (b \div c) + 1 PROVE FALSE
  BY <1>1
<1>3. \A x, y, z \in Nat : x >= y => x * z >= y * z
  OBVIOUS
<1>4. a * c >= ((b \div c) + 1) * c
  BY <1>1, <1>2, <1>3
<1>5. ((b \div c) + 1) * c = c * (b \div c) + c
  BY <1>1
<1> QED BY <1>1, <1>4, <1>5

\* A sound value has no more chunks than MAX_PROPOSAL_CHUNKS.
LEMMA ChunkCount ==
    ASSUME traffic \in Traffics, NEW S, Sendable(S)
    PROVE  /\ Len(S.chunks) \in Nat \ {0} /\ MaxChunks \in Nat /\ Len(S.chunks) <= MaxChunks
           /\ \A i \in 1..Len(S.chunks) : S.chunks[i] \in 1..ChunkBytes
           /\ \A i \in 1..Len(S.chunks) : i # Len(S.chunks) => S.chunks[i] = ChunkBytes
           /\ (Len(S.chunks) - 1) * ChunkBytes + S.chunks[Len(S.chunks)] <= MaxBytes
<1> DEFINE n == Len(S.chunks)
           C == ChunkBytes
           last == S.chunks[n]
<1>1. MaxBytes \in Nat \ {0} /\ C \in Nat \ {0}
  BY TrafficFacts
<1>2. n \in Nat \ {0}
  BY DEF Sendable, Cut
<1>3. /\ \A i \in 1..n - 1 : S.chunks[i] = C
      /\ last \in 1..C /\ (n - 1) * C + last <= MaxBytes
  BY DEF Sendable, Cut
<1>4. \A i \in 1..n : i # n => i \in 1..n - 1
  BY <1>2
<1>5. ASSUME NEW i \in 1..n PROVE S.chunks[i] \in 1..C
  <2>1. CASE i = n
    BY <1>3, <2>1
  <2>2. CASE i # n
    <3>1. S.chunks[i] = C
      BY <1>3, <1>4, <2>2
    <3> QED BY <1>1, <3>1
  <2> QED BY <2>1, <2>2
<1> HIDE DEF n, C, last
<1>6. n * C <= MaxBytes + C - 1 /\ MaxBytes + C - 1 \in Nat
  <2>1. (n - 1) * C = n * C - C /\ n * C \in Nat
    BY <1>1, <1>2
  <2> QED BY <1>1, <1>3, <2>1
<1>7. MaxChunks \in Nat /\ n <= MaxChunks
  BY <1>1, <1>2, <1>6, DivFacts DEF MaxChunks, C
<1> QED BY <1>2, <1>3, <1>4, <1>5, <1>7 DEF n, C, last

LEMMA UpToFacts ==
    ASSUME NEW n \in Nat
    PROVE  IsFiniteSet(1..n) /\ Cardinality(1..n) = n
<1>1. 1 \in Int /\ n \in Int
  OBVIOUS
<1>2. IsFiniteSet(1..n) /\ Cardinality(1..n) = IF 1 > n THEN 0 ELSE n - 1 + 1
  BY <1>1, FS_Interval, Zenon
<1> QED BY <1>2

\* The bytes of some of the chunks, and of one more.
LEMMA BytesFacts ==
    ASSUME traffic \in Traffics, NEW S, Sendable(S), NEW D \in SUBSET (1..Len(S.chunks))
    PROVE  /\ Bytes(S, D) \in Nat /\ Bytes(S, D) <= MaxBytes
           /\ IsFiniteSet(D) /\ Cardinality(D) \in Nat /\ Cardinality(D) <= Len(S.chunks)
<1> DEFINE n == Len(S.chunks)
           C == ChunkBytes
           m == Cardinality(D \ {n})
           r == IF n \in D THEN S.chunks[n] ELSE 0
<1>1. /\ n \in Nat \ {0} /\ S.chunks[n] \in 1..C /\ (n - 1) * C + S.chunks[n] <= MaxBytes
      /\ C \in Nat \ {0} /\ MaxBytes \in Nat
  BY ChunkCount, TrafficFacts
<1>2. IsFiniteSet(1..n) /\ Cardinality(1..n) = n
  BY <1>1, UpToFacts
<1>3. IsFiniteSet(D) /\ Cardinality(D) \in Nat /\ Cardinality(D) <= n
  BY <1>2, FS_Subset, FS_CardinalityType
<1>4. m \in Nat /\ m <= n - 1
  <2>1. IsFiniteSet(1..(n - 1)) /\ Cardinality(1..(n - 1)) = n - 1
    BY <1>1, UpToFacts
  <2>2. D \ {n} \subseteq 1..(n - 1)
    <3>1. \A x \in 1..n : x # n => x \in 1..(n - 1)
      BY <1>1
    <3> HIDE DEF n
    <3> QED BY <3>1 DEF n
  <2> QED BY <2>1, <2>2, FS_Subset, FS_CardinalityType
<1>5. r \in Nat /\ r <= S.chunks[n] /\ S.chunks[n] \in Nat
  BY <1>1
<1>6. Bytes(S, D) = C * m + r
  BY DEF Bytes
<1> HIDE DEF n, C, m, r
<1>7. \A x, y, z \in Nat : x <= y => z * x <= y * z
  OBVIOUS
<1>8. C * m \in Nat /\ C * m <= (n - 1) * C /\ (n - 1) * C \in Nat
  BY <1>1, <1>4, <1>7
<1>9. Bytes(S, D) \in Nat /\ Bytes(S, D) <= MaxBytes
  <2>1. S.chunks[n] \in Nat
    BY <1>5
  <2> QED BY <1>1, <1>5, <1>6, <1>8
<1> QED BY <1>3, <1>9 DEF n

LEMMA BytesAdd ==
    ASSUME traffic \in Traffics, NEW S, Sendable(S), NEW D \in SUBSET (1..Len(S.chunks)),
           NEW i \in 1..Len(S.chunks), i \notin D
    PROVE  Bytes(S, D \cup {i}) = Bytes(S, D) + S.chunks[i]
<1> DEFINE n == Len(S.chunks)
           C == ChunkBytes
<1>1. /\ n \in Nat \ {0} /\ S.chunks[i] \in 1..C /\ C \in Nat \ {0}
      /\ S.chunks[n] \in 1..C /\ (i # n => S.chunks[i] = C)
  BY ChunkCount, TrafficFacts
<1>2. IsFiniteSet(D \ {n}) /\ Cardinality(D \ {n}) \in Nat
  <2>1. D \ {n} \in SUBSET (1..Len(S.chunks))
    OBVIOUS
  <2> QED BY <2>1, BytesFacts
<1>3. CASE i = n
  <2>1. (D \cup {i}) \ {n} = D \ {n} /\ n \in D \cup {i} /\ n \notin D
    BY <1>3
  <2>2. C * Cardinality(D \ {n}) \in Nat
    BY <1>1, <1>2
  <2> HIDE DEF C
  <2>3. /\ Bytes(S, D) = C * Cardinality(D \ {n}) + (IF n \in D THEN S.chunks[n] ELSE 0)
        /\ Bytes(S, D \cup {i}) = C * Cardinality((D \cup {i}) \ {n}) + (IF n \in D \cup {i} THEN S.chunks[n] ELSE 0)
    BY DEF Bytes, C
  <2>4. Bytes(S, D) = C * Cardinality(D \ {n}) + 0
    BY <2>1, <2>3
  <2>5. Bytes(S, D \cup {i}) = C * Cardinality(D \ {n}) + S.chunks[i]
    BY <1>3, <2>1, <2>3
  <2> QED BY <2>2, <2>4, <2>5
<1>4. CASE i # n
  <2>1. (D \cup {i}) \ {n} = (D \ {n}) \cup {i} /\ (n \in D \cup {i} <=> n \in D)
    BY <1>4
  <2>2. Cardinality((D \cup {i}) \ {n}) = Cardinality(D \ {n}) + 1
    BY <1>2, <2>1, FS_AddElement
  <2>3. \A m \in Nat : C * (m + 1) = C * m + C /\ C * m \in Nat
    BY <1>1
  <2>4. C * Cardinality((D \cup {i}) \ {n}) = C * Cardinality(D \ {n}) + C /\ C * Cardinality(D \ {n}) \in Nat
    BY <1>2, <2>2, <2>3
  <2> HIDE DEF C
  <2>5. /\ Bytes(S, D) = C * Cardinality(D \ {n}) + (IF n \in D THEN S.chunks[n] ELSE 0)
        /\ Bytes(S, D \cup {i}) = C * Cardinality((D \cup {i}) \ {n}) + (IF n \in D \cup {i} THEN S.chunks[n] ELSE 0)
    BY DEF Bytes, C
  <2> QED BY <1>1, <1>4, <2>1, <2>4, <2>5
<1> QED BY <1>3, <1>4

-----------------------------------------------------------------------------
(* A part of a sound stream.                                               *)

LEMMA PartsFacts ==
    ASSUME NEW S, NEW p
    PROVE  p \in Parts(S) <=> \/ p = InitPart(S) \/ p = FinPart(S) \/ p = EndPart(S)
                              \/ \E i \in 1..Len(S.chunks) : p = DataPart(S, i)
  BY DEF Parts, InitPart, FinPart, EndPart, DataPart

\* Parts of different kinds, and of different slots, are different.
LEMMA PartsDiffer ==
    ASSUME NEW S
    PROVE  /\ InitPart(S) # FinPart(S) /\ InitPart(S) # EndPart(S) /\ FinPart(S) # EndPart(S)
           /\ \A i : DataPart(S, i) # InitPart(S) /\ DataPart(S, i) # FinPart(S) /\ DataPart(S, i) # EndPart(S)
           /\ \A i, j : DataPart(S, i) = DataPart(S, j) => i = j
  BY DEF InitPart, FinPart, EndPart, DataPart, Part

\* The part fits, and afterwards the stream is what the parts with it make.
Takes(s, S, G, p) ==
    /\ ShapeOk(p) /\ Agrees(s, p)
    /\ Fields(Put(s, p)) /\ Exact(Put(s, p), S, G \cup {p})

LEMMA TakesHeader ==
    ASSUME traffic \in Traffics, NEW S, Sendable(S), NEW s, Fields(s), NEW G, Exact(s, S, G)
    PROVE  Takes(s, S, G, InitPart(S))
<1> DEFINE p == InitPart(S)
<1>1. p.kind = "init" /\ p.seq = 0 /\ p.body = S.height /\ p \in Parts(S)
  BY PartsFacts DEF InitPart, Part
<1>2. S.height \in Nat /\ S.height > 0
  BY TrafficFacts DEF Sendable
<1> HIDE DEF p
<1>3. ShapeOk(p)
  BY <1>1, <1>2 DEF ShapeOk
<1>4. Agrees(s, p)
  BY <1>1 DEF Agrees, Exact
<1>5. PICK t : t = [init |-> S.height, data |-> s.data, len |-> s.len, fin |-> s.fin, finSeq |-> s.finSeq, end |-> s.end]
  OBVIOUS
<1>6. Put(s, p) = t
  BY <1>1, <1>5 DEF Put, Fields
<1>7. Fields(t)
  BY <1>5 DEF Fields
<1>8. \A i : DataPart(S, i) \in G \cup {p} <=> DataPart(S, i) \in G
  BY PartsDiffer DEF p
<1>9. (FinPart(S) \in G \cup {p} <=> FinPart(S) \in G) /\ (EndPart(S) \in G \cup {p} <=> EndPart(S) \in G)
      /\ InitPart(S) \in G \cup {p}
  BY PartsDiffer DEF p
<1>10. Exact(t, S, G \cup {p})
  BY <1>1, <1>5, <1>8, <1>9 DEF Exact
<1> QED BY <1>3, <1>4, <1>6, <1>7, <1>10 DEF Takes, p

LEMMA TakesSignature ==
    ASSUME traffic \in Traffics, NEW S, Sendable(S), NEW s, Fields(s), NEW G, Exact(s, S, G)
    PROVE  Takes(s, S, G, FinPart(S))
<1> DEFINE p == FinPart(S)
           n == Len(S.chunks)
<1>1. p.kind = "fin" /\ p.seq = n + 1 /\ p.body = 1 /\ p \in Parts(S)
  BY PartsFacts DEF FinPart, Part
<1>2. n \in Nat \ {0} /\ MaxChunks \in Nat /\ n <= MaxChunks
  BY ChunkCount
<1>3. /\ s.finSeq \in {0, n + 1} /\ s.fin \in {0, 1} /\ s.end \in {0, n + 2}
      /\ \A i \in DOMAIN s.data : i \in 1..n
  BY DEF Exact
<1>5. PICK t : t = [init |-> s.init, data |-> s.data, len |-> s.len, fin |-> 1, finSeq |-> n + 1, end |-> s.end]
  OBVIOUS
<1>8. \A i : DataPart(S, i) \in G \cup {p} <=> DataPart(S, i) \in G
  BY PartsDiffer DEF p
<1>9. (InitPart(S) \in G \cup {p} <=> InitPart(S) \in G) /\ (EndPart(S) \in G \cup {p} <=> EndPart(S) \in G)
      /\ FinPart(S) \in G \cup {p}
  BY PartsDiffer DEF p
<1>10. Exact(t, S, G \cup {p})
  BY <1>1, <1>5, <1>8, <1>9 DEF Exact
<1> HIDE DEF p, n
<1>11. ShapeOk(p)
  BY <1>1, <1>2 DEF ShapeOk
<1>12. Agrees(s, p)
  BY <1>1, <1>2, <1>3 DEF Agrees
<1>13. Put(s, p) = t
  BY <1>1, <1>5 DEF Put, Fields
<1>14. Fields(t)
  BY <1>5 DEF Fields
<1> QED BY <1>10, <1>11, <1>12, <1>13, <1>14 DEF Takes, p

LEMMA TakesMarker ==
    ASSUME traffic \in Traffics, NEW S, Sendable(S), NEW s, Fields(s), NEW G, Exact(s, S, G)
    PROVE  Takes(s, S, G, EndPart(S))
<1> DEFINE p == EndPart(S)
           n == Len(S.chunks)
<1>1. p.kind = "end" /\ p.seq = n + 2 /\ p \in Parts(S)
  BY PartsFacts DEF EndPart, Part
<1>2. n \in Nat \ {0} /\ MaxChunks \in Nat /\ n <= MaxChunks
  BY ChunkCount
<1>3. /\ s.finSeq \in {0, n + 1} /\ s.end \in {0, n + 2}
      /\ \A i \in DOMAIN s.data : i \in 1..n
  BY DEF Exact
<1>5. PICK t : t = [init |-> s.init, data |-> s.data, len |-> s.len, fin |-> s.fin, finSeq |-> s.finSeq, end |-> n + 2]
  OBVIOUS
<1>8. \A i : DataPart(S, i) \in G \cup {p} <=> DataPart(S, i) \in G
  BY PartsDiffer DEF p
<1>9. (InitPart(S) \in G \cup {p} <=> InitPart(S) \in G) /\ (FinPart(S) \in G \cup {p} <=> FinPart(S) \in G)
      /\ EndPart(S) \in G \cup {p}
  BY PartsDiffer DEF p
<1>10. Exact(t, S, G \cup {p})
  BY <1>1, <1>5, <1>8, <1>9 DEF Exact
<1> HIDE DEF p, n
<1>11. ShapeOk(p)
  BY <1>1, <1>2 DEF ShapeOk
<1>12. Agrees(s, p)
  BY <1>1, <1>2, <1>3 DEF Agrees
<1>13. Put(s, p) = t
  BY <1>1, <1>5 DEF Put, Fields
<1>14. Fields(t)
  BY <1>5 DEF Fields
<1> QED BY <1>10, <1>11, <1>12, <1>13, <1>14 DEF Takes, p

LEMMA TakesChunk ==
    ASSUME traffic \in Traffics, NEW S, Sendable(S), NEW s, Fields(s), NEW G, Exact(s, S, G),
           NEW i \in 1..Len(S.chunks)
    PROVE  Takes(s, S, G, DataPart(S, i))
<1> DEFINE p == DataPart(S, i)
           n == Len(S.chunks)
           D == DOMAIN s.data
<1>1. p.kind = "data" /\ p.seq = i /\ p.body = S.chunks[i] /\ p \in Parts(S)
  BY PartsFacts DEF DataPart, Part
<1>2. /\ n \in Nat \ {0} /\ MaxChunks \in Nat /\ n <= MaxChunks
      /\ S.chunks[i] \in 1..ChunkBytes
  BY ChunkCount
<1>3. /\ s.finSeq \in {0, n + 1} /\ s.end \in {0, n + 2}
      /\ D \in SUBSET (1..n) /\ D = {j \in 1..n : DataPart(S, j) \in G}
      /\ \A j \in D : s.data[j] = S.chunks[j]
      /\ s.len = Bytes(S, D) /\ G \subseteq Parts(S)
  BY DEF Exact
<1>4. (InitPart(S) \in G \cup {p} <=> InitPart(S) \in G) /\ (FinPart(S) \in G \cup {p} <=> FinPart(S) \in G)
      /\ (EndPart(S) \in G \cup {p} <=> EndPart(S) \in G)
  BY PartsDiffer DEF p
<1>5. \A j \in 1..n : DataPart(S, j) \in G \cup {p} <=> j = i \/ DataPart(S, j) \in G
  BY PartsDiffer DEF p
<1>6. ShapeOk(p)
  <2> HIDE DEF p, n
  <2>1. i \in 1..MaxChunks
    BY <1>2 DEF n
  <2> QED BY <1>1, <1>2, <2>1 DEF ShapeOk
<1>7. i \in Nat /\ i < n + 1
  BY <1>2
<1>8. CASE i \in D
  <2>1. Put(s, p) = s
    BY <1>1, <1>8 DEF Put
  <2>2. G \cup {p} = G
    BY <1>3, <1>8
  <2>3. Agrees(s, p)
    <3> HIDE DEF p, n
    <3> QED BY <1>1, <1>2, <1>3, <1>7, <1>8 DEF Agrees
  <2> QED BY <1>6, <2>1, <2>2, <2>3 DEF Takes
<1>9. CASE i \notin D
  <2> DEFINE e == [j \in D \cup {i} |-> IF j = i THEN S.chunks[i] ELSE s.data[j]]
  <2>1. /\ Bytes(S, D \cup {i}) = s.len + S.chunks[i] /\ Bytes(S, D \cup {i}) <= MaxBytes
        /\ s.len \in Nat
    <3>1. D \cup {i} \in SUBSET (1..n)
      BY <1>3
    <3>2. Bytes(S, D \cup {i}) = Bytes(S, D) + S.chunks[i]
      BY <1>3, <1>9, BytesAdd
    <3>3. Bytes(S, D \cup {i}) <= MaxBytes
      BY <3>1, BytesFacts
    <3>4. Bytes(S, D) \in Nat
      BY <1>3, BytesFacts
    <3> HIDE DEF D
    <3> QED BY <1>3, <3>2, <3>3, <3>4
  <2>2. Cardinality(D) < n /\ Cardinality(D) \in Nat
    <3>1. D \cup {i} \in SUBSET (1..n)
      BY <1>3
    <3>2. IsFiniteSet(D) /\ Cardinality(D) \in Nat /\ Cardinality(D \cup {i}) <= n
      BY <1>3, <3>1, BytesFacts
    <3>3. Cardinality(D \cup {i}) = Cardinality(D) + 1
      BY <1>9, <3>2, FS_AddElement
    <3> QED BY <1>2, <3>2, <3>3
  <2>3. PICK t : t = [init |-> s.init, data |-> e, len |-> s.len + S.chunks[i],
                      fin |-> s.fin, finSeq |-> s.finSeq, end |-> s.end]
    OBVIOUS
  <2>4. Put(s, p) = t
    <3>0. Put(s, p) = [s EXCEPT !.len = @ + p.body,
                     !.data = [j \in DOMAIN @ \cup {p.seq} |-> IF j = p.seq THEN p.body ELSE @[j]]]
      <4> HIDE DEF p
      <4> QED BY <1>1, <1>9 DEF Put
    <3>1. PICK d, l : d = s.data /\ l = s.len
      OBVIOUS
    <3>2. Put(s, p) = [s EXCEPT !.len = l + S.chunks[i], !.data = e]
      BY <1>1, <3>0, <3>1
    <3> HIDE DEF p, e
    <3> QED BY <2>3, <3>2, <3>1 DEF Fields
  <2>5. Fields(t)
    BY <2>3 DEF Fields
  <2>6. DOMAIN e = {j \in 1..n : DataPart(S, j) \in G \cup {p}}
    BY <1>3, <1>5
  <2>7. \A j \in DOMAIN e : e[j] = S.chunks[j]
    BY <1>3
  <2>8. t.data = e /\ t.len = Bytes(S, DOMAIN e)
    BY <2>1, <2>3
  <2>9. Exact(t, S, G \cup {p})
    <3>1. G \cup {p} \subseteq Parts(S)
      BY <1>1, <1>3
    <3>2. t.init = s.init /\ t.fin = s.fin /\ t.finSeq = s.finSeq /\ t.end = s.end
      BY <2>3
    <3> HIDE DEF p, e
    <3> QED BY <1>4, <2>6, <2>7, <2>8, <3>1, <3>2 DEF Exact
  <2>10. Agrees(s, p)
    <3> HIDE DEF p, n
    <3> QED BY <1>1, <1>2, <1>3, <1>7, <1>9, <2>1, <2>2 DEF Agrees
  <2> QED BY <1>6, <2>4, <2>5, <2>9, <2>10 DEF Takes
<1> QED BY <1>8, <1>9

\* Every part of a sound stream is taken, whatever arrived before it.
LEMMA TakesPart ==
    ASSUME traffic \in Traffics, NEW S, Sendable(S), NEW s, Fields(s), NEW G, Exact(s, S, G),
           NEW p \in Parts(S)
    PROVE  Takes(s, S, G, p)
  BY PartsFacts, TakesHeader, TakesSignature, TakesMarker, TakesChunk

LEMMA FreshHeld ==
    ASSUME traffic \in Traffics
    PROVE  Held(Fresh)
<1>1. Fresh.data = <<>> /\ DOMAIN Fresh.data = {} /\ Fresh.len = 0 /\ Fresh.init = 0
      /\ Fresh.fin = 0 /\ Fresh.finSeq = 0 /\ Fresh.end = 0
  BY DEF Fresh
<1>2. Fields(Fresh) /\ Numbers(Fresh)
  BY <1>1 DEF Fields, Fresh, Numbers
<1>3. SumFunction(Fresh.data) = 0
  BY <1>1, SumEmpty
<1>4. Bounded(Fresh)
  BY <1>1, <1>3, TrafficFacts DEF Bounded, Signatures
<1> QED BY <1>2, <1>4 DEF Held

LEMMA FreshExact ==
    ASSUME NEW S
    PROVE  Exact(Fresh, S, {})
<1>1. DOMAIN Fresh.data = {} /\ Fresh.len = 0 /\ Fresh.init = 0
      /\ Fresh.fin = 0 /\ Fresh.finSeq = 0 /\ Fresh.end = 0
  BY DEF Fresh
<1>2. {} \ {Len(S.chunks)} = {} /\ Cardinality({}) = 0
  BY FS_EmptySet
<1>3. Bytes(S, {}) = 0
  BY <1>2 DEF Bytes
<1> QED BY <1>1, <1>3 DEF Exact

\* A stream is complete exactly when all its parts arrived.
LEMMA CompleteFacts ==
    ASSUME traffic \in Traffics, NEW S, Sendable(S), NEW t, NEW G, Exact(t, S, G)
    PROVE  /\ Complete(t) <=> G = Parts(S)
           /\ Complete(t) => Assemble(t) = [height |-> S.height, chunks |-> S.chunks, fin |-> 1]
<1> DEFINE n == Len(S.chunks)
           D == DOMAIN t.data
<1>1. n \in Nat \ {0} /\ S.height \in Nat /\ S.height # 0
  BY ChunkCount, TrafficFacts DEF Sendable
<1>2. /\ t.init = IF InitPart(S) \in G THEN S.height ELSE 0
      /\ t.fin = IF FinPart(S) \in G THEN 1 ELSE 0
      /\ t.finSeq = IF FinPart(S) \in G THEN n + 1 ELSE 0
      /\ t.end = IF EndPart(S) \in G THEN n + 2 ELSE 0
      /\ D = {i \in 1..n : DataPart(S, i) \in G}
      /\ \A i \in D : t.data[i] = S.chunks[i]
      /\ G \subseteq Parts(S)
  BY DEF Exact
<1> HIDE DEF n
<1>3. Complete(t) <=> /\ InitPart(S) \in G /\ FinPart(S) \in G /\ EndPart(S) \in G
                      /\ D = 1..n
  BY <1>1, <1>2 DEF Complete
<1>4. D = 1..n <=> \A i \in 1..n : DataPart(S, i) \in G
  BY <1>2
<1>5. G = Parts(S) <=> Parts(S) \subseteq G
  BY <1>2
<1>6. Parts(S) \subseteq G <=> /\ InitPart(S) \in G /\ FinPart(S) \in G /\ EndPart(S) \in G
                               /\ \A i \in 1..n : DataPart(S, i) \in G
  BY PartsFacts DEF n
<1>7. ASSUME Complete(t) PROVE Assemble(t) = [height |-> S.height, chunks |-> S.chunks, fin |-> 1]
  <2>1. D = 1..n /\ Cardinality(D) = n
    BY <1>1, <1>3, <1>7, UpToFacts
  <2>2. S.chunks = [i \in 1..n |-> S.chunks[i]]
    BY DEF Sendable, n
  <2>3. [i \in 1..n |-> t.data[i]] = [i \in 1..n |-> S.chunks[i]]
    BY <1>2, <2>1
  <2> QED BY <1>2, <1>3, <1>7, <2>1, <2>2, <2>3 DEF Assemble
<1> QED BY <1>3, <1>4, <1>5, <1>6, <1>7

-----------------------------------------------------------------------------
(* Any part that fits, of whichever stream.                                *)

\* The content of a part has the type of its kind.
Typed(p) == \/ p.kind = "init" /\ p.body \in 0..MaxHeight
            \/ p.kind = "data" /\ p.body \in Nat
            \/ p.kind = "fin" /\ p.body \in Signatures
            \/ p.kind = "end"

LEMMA RogueTyped ==
    ASSUME traffic \in Traffics, NEW p \in RogueParts
    PROVE  Typed(p)
<1> DEFINE slots == 0..MaxChunks + 3
<1>1. \/ \E q \in 0..1, h \in 0..MaxHeight : p = Part("init", q, h)
      \/ \E q \in slots, c \in {0, 1, ChunkBytes, ChunkBytes + 1} : p = Part("data", q, c)
      \/ \E q \in slots, g \in Signatures : p = Part("fin", q, g)
      \/ \E q \in slots : p = Part("end", q, 0)
  BY DEF RogueParts
<1>2. ChunkBytes \in Nat
  OBVIOUS
<1> HIDE DEF slots
<1> QED BY <1>1, <1>2 DEF Part, Typed

LEMMA SoundTyped ==
    ASSUME traffic \in Traffics, NEW S, Sendable(S), NEW p \in Parts(S)
    PROVE  Typed(p)
<1>1. S.height \in 0..MaxHeight
  BY TrafficFacts DEF Sendable
<1>2. \A i \in 1..Len(S.chunks) : S.chunks[i] \in Nat
  BY ChunkCount, TrafficFacts
<1>3. CASE p = InitPart(S)
  BY <1>1, <1>3 DEF InitPart, Part, Typed
<1>4. CASE p = FinPart(S)
  BY <1>4 DEF FinPart, Part, Typed, Signatures
<1>5. CASE p = EndPart(S)
  BY <1>5 DEF EndPart, Part, Typed
<1>6. CASE \E i \in 1..Len(S.chunks) : p = DataPart(S, i)
  BY <1>2, <1>6 DEF DataPart, Part, Typed
<1> QED BY <1>3, <1>4, <1>5, <1>6, PartsFacts

LEMMA PutHeld ==
    ASSUME traffic \in Traffics, NEW s, Held(s), NEW p, Typed(p), ShapeOk(p), Agrees(s, p)
    PROVE  Held(Put(s, p))
<1>1. MaxHeight \in Nat /\ MaxBytes \in Nat /\ MaxChunks \in Nat
  <2>1. MaxHeight \in Nat /\ MaxBytes \in Nat \ {0} /\ ChunkBytes \in Nat \ {0}
    BY TrafficFacts
  <2>2. MaxBytes + ChunkBytes - 1 \in Nat /\ 0 * ChunkBytes <= MaxBytes + ChunkBytes - 1
    BY <2>1
  <2> QED BY <2>1, <2>2, DivFacts DEF MaxChunks
<1>2. Fields(s) /\ Numbers(s) /\ Bounded(s)
  BY DEF Held
<1>3. CASE p.kind = "init"
  <2>1. PICK t : t = [init |-> p.body, data |-> s.data, len |-> s.len, fin |-> s.fin, finSeq |-> s.finSeq, end |-> s.end]
    OBVIOUS
  <2>2. Put(s, p) = t /\ p.body \in 0..MaxHeight
    BY <1>2, <1>3, <2>1 DEF Put, Fields, Typed
  <2> QED BY <1>2, <2>1, <2>2 DEF Held, Fields, Numbers, Bounded
<1>4. CASE p.kind = "fin"
  <2>1. PICK t : t = [init |-> s.init, data |-> s.data, len |-> s.len, fin |-> p.body, finSeq |-> p.seq, end |-> s.end]
    OBVIOUS
  <2>2. Put(s, p) = t /\ p.body \in Signatures /\ p.seq \in 2..MaxChunks + 1
    BY <1>2, <1>4, <2>1 DEF Put, Fields, Typed, ShapeOk
  <2> QED BY <1>2, <2>1, <2>2 DEF Held, Fields, Numbers, Bounded
<1>5. CASE p.kind = "end"
  <2>1. PICK t : t = [init |-> s.init, data |-> s.data, len |-> s.len, fin |-> s.fin, finSeq |-> s.finSeq, end |-> p.seq]
    OBVIOUS
  <2>2. Put(s, p) = t /\ p.seq \in 3..MaxChunks + 2
    BY <1>2, <1>5, <2>1 DEF Put, Fields, Typed, ShapeOk
  <2> QED BY <1>2, <2>1, <2>2 DEF Held, Fields, Numbers, Bounded
<1>6. CASE p.kind = "data" /\ p.seq \in DOMAIN s.data
  <2>1. Put(s, p) = s
    BY <1>6 DEF Put
  <2> QED BY <2>1
<1>7. CASE p.kind = "data" /\ p.seq \notin DOMAIN s.data
  <2> DEFINE e == [i \in DOMAIN s.data \cup {p.seq} |-> IF i = p.seq THEN p.body ELSE s.data[i]]
  <2>1. p.body \in Nat /\ p.seq \in 1..MaxChunks /\ s.len + p.body <= MaxBytes
    BY <1>7 DEF Typed, ShapeOk, Agrees
  <2>2. PICK t : t = [init |-> s.init, data |-> e, len |-> s.len + p.body, fin |-> s.fin, finSeq |-> s.finSeq, end |-> s.end]
    OBVIOUS
  <2>3. Put(s, p) = t
    <3>1. Put(s, p) = [s EXCEPT !.len = s.len + p.body, !.data = e]
      BY <1>7 DEF Put
    <3> HIDE DEF e
    <3> QED BY <1>2, <2>2, <3>1 DEF Fields
  <2>4. DOMAIN e \subseteq 1..MaxChunks /\ \A i \in DOMAIN e : e[i] \in Nat
    BY <1>2, <2>1 DEF Numbers, Bounded
  <2>5. SumFunction(e) = s.len + p.body
    <3>1. IsFiniteSet(DOMAIN s.data)
      BY <1>1, <1>2, UpToFacts, FS_Subset DEF Bounded
    <3>2. PICK d, q, v : d = s.data /\ q = p.seq /\ v = p.body
      OBVIOUS
    <3>3. Extended(e, d, q, v)
      BY <3>2 DEF Extended
    <3>4. NatOn(d, DOMAIN d) /\ q \notin DOMAIN d /\ v \in Nat /\ IsFiniteSet(DOMAIN d)
      BY <1>2, <1>7, <2>1, <3>1, <3>2 DEF Numbers, NatOn
    <3> HIDE DEF e
    <3>5. SumFunction(e) = SumFunction(d) + v
      BY <3>3, <3>4, SumAdd
    <3> QED BY <1>2, <3>2, <3>5 DEF Bounded
  <2> HIDE DEF e
  <2>6. Fields(t) /\ Numbers(t)
    BY <2>2, <2>4 DEF Fields, Numbers
  <2>7. t.data = e /\ t.len = s.len + p.body /\ t.init = s.init /\ t.fin = s.fin
        /\ t.finSeq = s.finSeq /\ t.end = s.end
    BY <2>2
  <2>8. Bounded(t)
    BY <1>2, <2>1, <2>4, <2>5, <2>7 DEF Bounded
  <2> QED BY <2>3, <2>6, <2>8 DEF Held
<1> QED BY <1>3, <1>4, <1>5, <1>6, <1>7 DEF Typed

-----------------------------------------------------------------------------
(* The table.                                                              *)

LEMMA Unchanging ==
    ASSUME traffic' = traffic
    PROVE  /\ MaxBytes' = MaxBytes /\ MaxStreams' = MaxStreams /\ MaxPerPeer' = MaxPerPeer
           /\ MaxHeight' = MaxHeight /\ MaxChunks' = MaxChunks
           /\ SoundKeys' = SoundKeys /\ Keys' = Keys
  BY DEF MaxBytes, MaxStreams, MaxPerPeer, MaxHeight, MaxChunks, SoundKeys, Keys, Sound, Rogue

\* What a step must keep of the history and of each stream.
LEMMA StreamInvNext ==
    ASSUME traffic \in Traffics, traffic' = traffic, TableOk',
           \A k \in Live' : Held(streams'[k]),
           \A k \in DOMAIN got' : Waiting(streams'[k], StreamOf(k), got'[k]),
           judged' = {},
           \A o \in out' : o \in out \/ o[2] = [height |-> StreamOf(o[1]).height,
                                              chunks |-> StreamOf(o[1]).chunks, fin |-> 1],
           AssembledExact
    PROVE  StreamInv'
<1>1. ASSUME NEW k \in Live' PROVE Held(streams[k])'
  <2>1. Held(streams'[k])
    OBVIOUS
  <2>2. MaxHeight' = MaxHeight /\ MaxChunks' = MaxChunks /\ MaxBytes' = MaxBytes
    BY Unchanging
  <2> QED BY <2>1, <2>2 DEF Held, Fields, Numbers, Bounded
<1>2. ASSUME NEW k \in DOMAIN got' PROVE Waiting(streams[k], StreamOf(k), got[k])'
  <2>1. Waiting(streams'[k], StreamOf(k), got'[k])
    OBVIOUS
  <2>2. StreamOf(k)' = StreamOf(k)
    BY DEF StreamOf, Sound
  <2> QED BY <2>1, <2>2
<1>3. AssembledExact'
  BY DEF AssembledExact, StreamOf, Sound
<1> QED BY <1>1, <1>2, <1>3 DEF StreamInv

\* Fewer streams fit as well.
LEMMA FewerFit ==
    ASSUME NEW L, IsFiniteSet(L), NEW M \in SUBSET L, NEW b \in Nat, Cardinality(L) <= b
    PROVE  IsFiniteSet(M) /\ Cardinality(M) <= b
<1>1. IsFiniteSet(M) /\ Cardinality(M) <= Cardinality(L) /\ Cardinality(L) \in Nat /\ Cardinality(M) \in Nat
  BY FS_Subset, FS_CardinalityType
<1> QED BY <1>1

\* One more stream fits where there was room.
LEMMA OneMoreFits ==
    ASSUME NEW L, IsFiniteSet(L), NEW k, NEW b \in Nat, Cardinality(L) < b
    PROVE  IsFiniteSet(L \cup {k}) /\ Cardinality(L \cup {k}) <= b
<1>1. Cardinality(L) \in Nat /\ IsFiniteSet(L \cup {k})
      /\ (Cardinality(L \cup {k}) = Cardinality(L) \/ Cardinality(L \cup {k}) = Cardinality(L) + 1)
  BY FS_AddElement, FS_CardinalityType
<1> QED BY <1>1

\* Dropping streams, for whatever reason, keeps the table in order.
LEMMA ForgetKeeps ==
    ASSUME StreamInv, traffic' = traffic, NEW K, Forget(K), decided' \in 0..MaxHeight
    PROVE  /\ TableOk'
           /\ DOMAIN got' = DOMAIN got \ K
           /\ \A k \in Live' : Held(streams'[k])
           /\ \A k \in DOMAIN got' : Waiting(streams'[k], StreamOf(k), got'[k])
<1>1. /\ Live' = Live \ K /\ stale' = stale \ K /\ DOMAIN got' = DOMAIN got \ K
      /\ \A k \in Live \ K : streams'[k] = streams[k]
      /\ \A k \in DOMAIN got \ K : got'[k] = got[k]
  BY DEF Forget, Restrict, Live
<1>2. TableOk /\ MaxStreams \in Nat /\ MaxPerPeer \in Nat
  BY TrafficFacts DEF StreamInv
<1>3. /\ Live' \subseteq Keys /\ stale' \subseteq Live' /\ DOMAIN got' = Live' \cap SoundKeys
      /\ DOMAIN got \subseteq Live
  BY <1>1, <1>2 DEF TableOk
<1>4. IsFiniteSet(Live') /\ Cardinality(Live') <= MaxStreams
  BY <1>1, <1>2, FewerFit DEF TableOk
<1>5. ASSUME NEW peer \in {k[1] : k \in Keys}
      PROVE  Cardinality({k \in Live' : k[1] = peer}) <= MaxPerPeer
  <2> DEFINE A == {k \in Live : k[1] = peer}
             B == {k \in Live' : k[1] = peer}
  <2>1. B \in SUBSET A /\ A \in SUBSET Live
    BY <1>1
  <2>2. Cardinality(A) <= MaxPerPeer /\ IsFiniteSet(Live)
    BY <1>2 DEF TableOk
  <2>3. IsFiniteSet(A)
    BY <2>1, <2>2, FS_Subset
  <2> HIDE DEF A, B
  <2>4. Cardinality(B) <= MaxPerPeer
    BY <1>2, <2>1, <2>2, <2>3, FewerFit
  <2> QED BY <2>4 DEF B
<1>6. TableOk'
  BY <1>3, <1>4, <1>5, Unchanging DEF TableOk
<1>7. \A k \in Live' : Held(streams'[k])
  BY <1>1 DEF StreamInv
<1>8. \A k \in DOMAIN got' : Waiting(streams'[k], StreamOf(k), got'[k])
  BY <1>1, <1>3 DEF StreamInv
<1> QED BY <1>1, <1>6, <1>7, <1>8

\* A stream that is admitted, or goes on, keeps the table in order.
LEMMA AdmitKeeps ==
    ASSUME StreamInv, traffic' = traffic, NEW k \in Keys, Admits(k), NEW t,
           streams' = [l \in Live \cup {k} |-> IF l = k THEN t ELSE streams[l]],
           DOMAIN got' = DOMAIN got \cup ({k} \cap SoundKeys),
           stale' = stale, decided' = decided
    PROVE  TableOk'
<1>1. Live' = Live \cup {k}
  BY DEF Live
<1>2. TableOk /\ MaxStreams \in Nat /\ MaxPerPeer \in Nat
  BY TrafficFacts DEF StreamInv
<1>3. /\ Live' \subseteq Keys /\ stale' \subseteq Live' /\ decided' \in 0..MaxHeight
      /\ DOMAIN got' = Live' \cap SoundKeys
  BY <1>1, <1>2 DEF TableOk
<1>4. IsFiniteSet(Live') /\ Cardinality(Live') <= MaxStreams
  <2>1. CASE k \in Live
    <3>1. Live' = Live
      BY <1>1, <2>1
    <3> QED BY <1>2, <3>1 DEF TableOk
  <2>2. CASE k \notin Live
    BY <1>1, <1>2, <2>2, OneMoreFits DEF TableOk, Admits
  <2> QED BY <2>1, <2>2
<1>5. ASSUME NEW peer \in {l[1] : l \in Keys}
      PROVE  Cardinality({l \in Live' : l[1] = peer}) <= MaxPerPeer
  <2> DEFINE A == {l \in Live : l[1] = peer}
             B == {l \in Live' : l[1] = peer}
  <2>1. Cardinality(A) <= MaxPerPeer /\ IsFiniteSet(Live) /\ A \in SUBSET Live
    BY <1>2 DEF TableOk
  <2>2. IsFiniteSet(A)
    BY <2>1, FS_Subset
  <2>3. CASE k \in Live \/ k[1] # peer
    <3>1. B = A
      BY <1>1, <2>3
    <3> QED BY <2>1, <3>1
  <2>4. CASE k \notin Live /\ k[1] = peer
    <3>1. B = A \cup {k}
      BY <1>1, <2>4
    <3>2. Cardinality(A) < MaxPerPeer
      BY <2>4 DEF Admits
    <3> HIDE DEF A, B
    <3>3. Cardinality(B) <= MaxPerPeer
      BY <1>2, <2>2, <3>1, <3>2, OneMoreFits
    <3> QED BY <3>3 DEF B
  <2> QED BY <2>3, <2>4
<1> QED BY <1>3, <1>4, <1>5, Unchanging DEF TableOk

-----------------------------------------------------------------------------
(* The steps.                                                              *)

\* What a stream that leaves the table with a step has behind it: NotEvicted,
\* of one step.
LeavesInOrder == \A k \in DOMAIN got \ DOMAIN got' :
                    \/ Cardinality(Parts(StreamOf(k)) \ got[k]) = 1
                    \/ k \in stale
                    \/ streams[k].init \in 1..decided'

\* The sound streams among K are too old or decided.
Outlived(K) == \A k \in DOMAIN got \cap K : k \in stale \/ streams[k].init \in 1..decided'

Kept == StreamInv' /\ LeavesInOrder

\* What handle_part finds under a key.
Found(k) == IF k \in Live THEN streams[k] ELSE Fresh

LEMMA StreamDropKeeps ==
    ASSUME StreamInv, traffic' = traffic, NEW K, Forget(K), decided' \in 0..MaxHeight,
           judged' = judged, out' = out, Outlived(K)
    PROVE  Kept
<1>1. /\ TableOk' /\ DOMAIN got' = DOMAIN got \ K
      /\ \A k \in Live' : Held(streams'[k])
      /\ \A k \in DOMAIN got' : Waiting(streams'[k], StreamOf(k), got'[k])
  BY ForgetKeeps
<1>2. traffic \in Traffics /\ judged' = {} /\ AssembledExact
  BY DEF StreamInv
<1>3. \A o \in out' : o \in out \/ o[2] = [height |-> StreamOf(o[1]).height,
                                           chunks |-> StreamOf(o[1]).chunks, fin |-> 1]
  OBVIOUS
<1>4. StreamInv'
  BY <1>1, <1>2, <1>3, StreamInvNext
<1>5. LeavesInOrder
  BY <1>1 DEF LeavesInOrder, Outlived
<1> QED BY <1>4, <1>5 DEF Kept

LEMMA FoundHeld ==
    ASSUME StreamInv, NEW k
    PROVE  Held(Found(k))
  BY FreshHeld DEF StreamInv, Found

\* A part that is taken and leaves others to come.
LEMMA KeepKeeps ==
    ASSUME StreamInv, traffic' = traffic, NEW k \in Keys, Admits(k), NEW t, Held(t),
           streams' = [l \in Live \cup {k} |-> IF l = k THEN t ELSE streams[l]],
           DOMAIN got' = DOMAIN got \cup ({k} \cap SoundKeys),
           \A l \in DOMAIN got : l # k => got'[l] = got[l],
           k \in SoundKeys => Waiting(t, StreamOf(k), got'[k]),
           UNCHANGED <<stale, decided, out, judged>>
    PROVE  Kept
<1>1. TableOk'
  BY AdmitKeeps
<1>2. Live' = Live \cup {k} /\ streams'[k] = t /\ \A l \in Live : l # k => streams'[l] = streams[l]
  BY DEF Live
<1>3. \A l \in Live' : Held(streams'[l])
  BY <1>2 DEF StreamInv
<1>4. DOMAIN got \subseteq Live
  BY DEF StreamInv, TableOk
<1>5. ASSUME NEW l \in DOMAIN got' PROVE Waiting(streams'[l], StreamOf(l), got'[l])
  <2>1. CASE l = k
    <3>1. k \in SoundKeys
      BY <2>1 DEF StreamInv, TableOk
    <3> QED BY <1>2, <2>1, <3>1
  <2>2. CASE l # k
    <3>1. l \in DOMAIN got
      BY <2>2
    <3> QED BY <1>2, <1>4, <2>2, <3>1 DEF StreamInv
  <2> QED BY <2>1, <2>2
<1>6. traffic \in Traffics /\ judged' = {} /\ AssembledExact
  BY DEF StreamInv
<1>7. \A o \in out' : o \in out \/ o[2] = [height |-> StreamOf(o[1]).height,
                                           chunks |-> StreamOf(o[1]).chunks, fin |-> 1]
  OBVIOUS
<1>8. StreamInv'
  BY <1>1, <1>3, <1>5, <1>6, <1>7, StreamInvNext
<1>9. LeavesInOrder
  BY DEF LeavesInOrder
<1> QED BY <1>8, <1>9 DEF Kept

LEMMA StaysKept ==
    ASSUME StreamInv, traffic' = traffic, UNCHANGED <<streams, got, out, judged>>,
           stale' \subseteq Live, decided' = decided
    PROVE  Kept
<1>1. TableOk'
  BY Unchanging DEF StreamInv, TableOk, Live
<1>2. /\ \A k \in Live' : Held(streams'[k])
      /\ \A k \in DOMAIN got' : Waiting(streams'[k], StreamOf(k), got'[k])
  BY DEF StreamInv, Live
<1>3. traffic \in Traffics /\ judged' = {} /\ AssembledExact
  BY DEF StreamInv
<1>4. \A o \in out' : o \in out \/ o[2] = [height |-> StreamOf(o[1]).height,
                                           chunks |-> StreamOf(o[1]).chunks, fin |-> 1]
  OBVIOUS
<1>5. StreamInv'
  BY <1>1, <1>2, <1>3, <1>4, StreamInvNext
<1>6. LeavesInOrder
  BY DEF LeavesInOrder
<1> QED BY <1>5, <1>6 DEF Kept

\* A part of a sound stream: it is refused for want of room, taken, or the last.
LEMMA HandleSound ==
    ASSUME StreamInv, traffic' = traffic, NEW k \in SoundKeys, NEW p \in Parts(StreamOf(k)),
           HandlePart(k, p)
    PROVE  Kept
<1>1. PICK S : S = StreamOf(k)
  OBVIOUS
<1>2. traffic \in Traffics /\ Sendable(S) /\ k \in Keys /\ AssembledExact /\ judged = {}
  BY <1>1, TrafficFacts DEF StreamInv, Keys
<1>3. PICK G : G = IF k \in DOMAIN got THEN got[k] ELSE {}
  OBVIOUS
<1>4. k \in DOMAIN got <=> k \in Live
  BY DEF StreamInv, TableOk
<1>5. PICK s : s = Found(k)
  OBVIOUS
<1>6. Held(s) /\ Fields(s)
  BY <1>5, FoundHeld DEF Held
<1>7. Exact(s, S, G) /\ (k \in DOMAIN got => G # Parts(S))
  <2>1. CASE k \in Live
    BY <1>1, <1>3, <1>4, <1>5, <2>1 DEF StreamInv, Waiting, Found
  <2>2. CASE k \notin Live
    BY <1>2, <1>3, <1>4, <1>5, <2>2, FreshExact DEF Found
  <2> QED BY <2>1, <2>2
<1>8. PICK t : t = Put(s, p)
  OBVIOUS
<1>9. p \in Parts(S) /\ Takes(s, S, G, p)
  BY <1>1, <1>2, <1>6, <1>7, TakesPart
<1>10. ShapeOk(p) /\ Agrees(s, p) /\ Exact(t, S, G \cup {p})
  BY <1>8, <1>9 DEF Takes
<1>11. Held(t)
  BY <1>2, <1>6, <1>8, <1>9, <1>10, SoundTyped, PutHeld
<1>12. Complete(t) <=> G \cup {p} = Parts(S)
  BY <1>2, <1>10, CompleteFacts
<1>13. decided' = decided /\ decided \in 0..MaxHeight
  BY DEF HandlePart, StreamInv, TableOk
<1>14. CASE ~Admits(k)
  <2>1. Refuse(k)
    BY <1>5, <1>8, <1>10, <1>14 DEF HandlePart, Found
  <2>2. stale' \subseteq Live
    BY <2>1 DEF Refuse, StreamInv, TableOk
  <2> QED BY <1>13, <2>1, <2>2, StaysKept DEF Refuse
<1>15. CASE Admits(k) /\ Complete(t)
  <2>1. Forget({k}) /\ out' = out \cup {<<k, Assemble(t)>>} /\ judged' = judged
    BY <1>5, <1>8, <1>10, <1>15 DEF HandlePart, Found
  <2>2. /\ TableOk' /\ DOMAIN got' = DOMAIN got \ {k}
        /\ \A l \in Live' : Held(streams'[l])
        /\ \A l \in DOMAIN got' : Waiting(streams'[l], StreamOf(l), got'[l])
    BY <1>13, <2>1, ForgetKeeps
  <2>3. Assemble(t) = [height |-> S.height, chunks |-> S.chunks, fin |-> 1]
    BY <1>2, <1>10, <1>15, CompleteFacts
  <2>4. \A o \in out' : o \in out \/ o[2] = [height |-> StreamOf(o[1]).height,
                                             chunks |-> StreamOf(o[1]).chunks, fin |-> 1]
    BY <1>1, <2>1, <2>3
  <2>5. StreamInv'
    BY <1>2, <2>1, <2>2, <2>4, StreamInvNext
  <2>6. ASSUME k \in DOMAIN got PROVE Cardinality(Parts(S) \ got[k]) = 1
    <3>1. G = got[k] /\ G # Parts(S) /\ G \cup {p} = Parts(S)
      BY <1>3, <1>7, <1>12, <1>15, <2>6
    <3>2. Parts(S) \ G = {p}
      BY <3>1
    <3> QED BY <3>1, <3>2, FS_Singleton
  <2>7. LeavesInOrder
    BY <1>1, <2>2, <2>6 DEF LeavesInOrder
  <2> QED BY <2>5, <2>7 DEF Kept
<1>16. CASE Admits(k) /\ ~Complete(t)
  <2>1. /\ streams' = [l \in Live \cup {k} |-> IF l = k THEN t ELSE streams[l]]
        /\ got' = [l \in DOMAIN got \cup {k} |-> IF l # k THEN got[l]
                                                ELSE {p} \cup (IF k \in DOMAIN got THEN got[k] ELSE {})]
        /\ UNCHANGED <<stale, out, judged>>
    BY <1>5, <1>8, <1>10, <1>16 DEF HandlePart, Found
  <2>2. /\ DOMAIN got' = DOMAIN got \cup ({k} \cap SoundKeys)
        /\ \A l \in DOMAIN got : l # k => got'[l] = got[l]
        /\ got'[k] = G \cup {p}
    BY <1>3, <2>1
  <2>3. Waiting(t, StreamOf(k), got'[k])
    BY <1>1, <1>10, <1>12, <1>16, <2>2 DEF Waiting
  <2> QED BY <1>2, <1>11, <1>13, <1>16, <2>1, <2>2, <2>3, KeepKeeps
<1> QED BY <1>14, <1>15, <1>16

\* Any part under a key of a peer that breaks the format: no sound stream notices.
LEMMA HandleRogue ==
    ASSUME StreamInv, traffic' = traffic, NEW k \in Rogue, NEW p \in RogueParts, HandlePart(k, p)
    PROVE  Kept
<1>1. traffic \in Traffics /\ k \in Keys /\ k \notin SoundKeys
  BY TrafficFacts DEF StreamInv, Keys
<1>2. PICK s : s = Found(k)
  OBVIOUS
<1>3. PICK t : t = Put(s, p)
  OBVIOUS
<1>4. Held(s) /\ Typed(p)
  BY <1>1, <1>2, FoundHeld, RogueTyped
<1>5. decided' = decided /\ decided \in 0..MaxHeight /\ k \notin DOMAIN got
  BY <1>1 DEF HandlePart, StreamInv, TableOk
<1>6. ASSUME Forget({k}), out' = out, judged' = judged PROVE Kept
  <2>1. Outlived({k})
    BY <1>5 DEF Outlived
  <2> QED BY <1>5, <1>6, <2>1, StreamDropKeeps
<1>7. CASE Judge(k)
  BY <1>1, <1>6, <1>7 DEF Judge
<1>8. CASE Refuse(k)
  <2>1. stale' \subseteq Live
    BY <1>8 DEF Refuse, StreamInv, TableOk
  <2> QED BY <1>5, <1>8, <2>1, StaysKept DEF Refuse
<1>9. CASE ShapeOk(p) /\ Admits(k) /\ Agrees(s, p) /\ Complete(t)
  <2>1. Forget({k}) /\ out' = out /\ judged' = judged
    BY <1>1, <1>2, <1>3, <1>9 DEF HandlePart, Found
  <2> QED BY <1>6, <2>1
<1>10. CASE ShapeOk(p) /\ Admits(k) /\ Agrees(s, p) /\ ~Complete(t)
  <2>1. /\ streams' = [l \in Live \cup {k} |-> IF l = k THEN t ELSE streams[l]]
        /\ got' = got
        /\ UNCHANGED <<stale, out, judged>>
    BY <1>1, <1>2, <1>3, <1>10 DEF HandlePart, Found
  <2>2. Held(t)
    BY <1>1, <1>3, <1>4, <1>10, PutHeld
  <2>3. /\ DOMAIN got' = DOMAIN got \cup ({k} \cap SoundKeys)
        /\ \A l \in DOMAIN got : l # k => got'[l] = got[l]
    BY <1>1, <2>1
  <2> QED BY <1>1, <1>5, <1>10, <2>1, <2>2, <2>3, KeepKeeps
<1>11. \/ Judge(k) \/ Refuse(k)
       \/ ShapeOk(p) /\ Admits(k) /\ Agrees(s, p)
  BY <1>2, <1>3 DEF HandlePart, Found
<1> QED BY <1>7, <1>8, <1>9, <1>10, <1>11

LEMMA NextKeeps ==
    ASSUME StreamInv, [StreamNext]_streamVars
    PROVE  StreamInv' /\ (UNCHANGED streamVars \/ LeavesInOrder)
<1>1. CASE UNCHANGED streamVars
  <2>1. stale' \subseteq Live /\ traffic' = traffic
    BY <1>1 DEF streamVars, StreamInv, TableOk
  <2>2. Kept
    BY <1>1, <2>1, StaysKept DEF streamVars
  <2> QED BY <1>1, <2>2 DEF Kept
<1>2. CASE StreamNext
  <2> SUFFICES Kept
    BY DEF Kept
  <2>1. traffic' = traffic /\ traffic \in Traffics
    BY <1>2 DEF StreamNext, StreamInv
  <2>2. ASSUME NEW k \in SoundKeys, Deliver(k) PROVE Kept
    BY <2>1, <2>2, HandleSound DEF Deliver
  <2>3. ASSUME NEW k \in Rogue, DeliverRogue(k) PROVE Kept
    BY <2>1, <2>3, HandleRogue DEF DeliverRogue
  <2>4. ASSUME NEW k \in Keys, Age(k) PROVE Kept
    <3>1. stale' \subseteq Live
      BY <2>4 DEF Age, StreamInv, TableOk
    <3> QED BY <2>1, <2>4, <3>1, StaysKept DEF Age
  <2>5. CASE ExpireStreams
    <3>1. Forget(stale) /\ decided' \in 0..MaxHeight /\ judged' = judged /\ out' = out
      BY <2>5 DEF ExpireStreams, StreamInv, TableOk
    <3>2. Outlived(stale)
      BY DEF Outlived
    <3> QED BY <2>1, <3>1, <3>2, StreamDropKeeps
  <2>6. CASE SweepDecided
    <3>1. PICK K : K = {k \in Live : streams[k].init \in 1..decided + 1}
      OBVIOUS
    <3>2. Forget(K) /\ decided' = decided + 1 /\ decided < MaxHeight /\ judged' = judged /\ out' = out
      BY <2>6, <3>1 DEF SweepDecided
    <3>3. decided' \in 0..MaxHeight
      BY <2>1, <3>2, TrafficFacts DEF StreamInv, TableOk
    <3>4. Outlived(K)
      BY <3>1, <3>2 DEF Outlived
    <3> QED BY <2>1, <3>2, <3>3, <3>4, StreamDropKeeps
  <2>7. CASE \E k \in SoundKeys : Deliver(k)
    BY <2>2, <2>7
  <2>8. CASE \E k \in Rogue : DeliverRogue(k)
    BY <2>3, <2>8
  <2>9. CASE \E k \in Keys : Age(k)
    BY <2>4, <2>9
  <2> QED BY <1>2, <2>5, <2>6, <2>7, <2>8, <2>9 DEF StreamNext
<1> QED BY <1>1, <1>2

LEMMA StreamInitHolds ==
    ASSUME StreamInit
    PROVE  StreamInv
<1>1. traffic \in Traffics /\ Live = {} /\ DOMAIN got = {} /\ stale = {} /\ decided = 0
      /\ out = {} /\ judged = {}
  BY DEF StreamInit, Live
<1>2. MaxStreams \in Nat /\ MaxPerPeer \in Nat /\ MaxHeight \in Nat
  BY <1>1, TrafficFacts
<1>3. IsFiniteSet({}) /\ Cardinality({}) = 0
  BY FS_EmptySet
<1>4. \A peer : {k \in Live : k[1] = peer} = {}
  BY <1>1
<1>5. TableOk
  BY <1>1, <1>2, <1>3, <1>4 DEF TableOk
<1> QED BY <1>1, <1>5 DEF StreamInv, AssembledExact

LEMMA StreamInvariant == StreamSpec => []StreamInv
<1>1. StreamInit => StreamInv
  BY StreamInitHolds
<1>2. StreamInv /\ [StreamNext]_streamVars => StreamInv'
  BY NextKeeps
<1> QED BY <1>1, <1>2, PTL DEF StreamSpec

-----------------------------------------------------------------------------
(* What follows.                                                           *)

\* The assembly table of handle_part stays within MAX_PROPOSAL_STREAMS,
\* MAX_PROPOSAL_STREAMS_PER_PEER, MAX_PROPOSAL_CHUNKS and MAX_VALUE_BYTES
\* whatever is sent, and no order and no repetition of the parts of a sound
\* stream has it found invalid: for any number of streams and any limits.
THEOREM TableTakesSound == StreamSpec => []SoundIsTaken
<1>1. StreamInv => SoundIsTaken
  BY DEF StreamInv, TableOk, Held, Bounded, SoundIsTaken, StreamTypeOK, SoundNeverRejected
<1> QED BY <1>1, StreamInvariant, PTL

\* No sound stream waits in the table with all of its parts there, and what
\* handle_part assembles under a sound key is the value its proposer cut:
\* header, chunks in order, signature.
THEOREM AssemblesExactly == StreamSpec => []AssemblyIsExact
<1>1. StreamInv => AssemblyIsExact
  BY DEF StreamInv, Waiting, AssemblyIsExact, AllPartsComplete
<1> QED BY <1>1, StreamInvariant, PTL

\* An admitted sound stream leaves the table with its last part, after
\* STREAM_STALE or when its height is decided, and in no other way: neither
\* another peer's parts nor a full table costs it its place.
THEOREM NeverEvicted == StreamSpec => NotEvicted
<1>1. StreamInv /\ [StreamNext]_streamVars => [LeavesInOrder]_streamVars
  BY NextKeeps
<1>2. [LeavesInOrder]_streamVars <=>
        [\A k \in DOMAIN got \ DOMAIN got' :
                    \/ Cardinality(Parts(StreamOf(k)) \ got[k]) = 1
                    \/ k \in stale
                    \/ streams[k].init \in 1..decided']_streamVars
  BY DEF LeavesInOrder
<1> QED BY <1>1, <1>2, StreamInvariant, PTL DEF StreamSpec, NotEvicted
=============================================================================
