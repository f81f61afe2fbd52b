-------------------------- MODULE DirectRoomProofs --------------------------
(***************************************************************************)
(* Proofs about DirectRoom for every room: whatever frames are offered, in *)
(* whatever order, and however many calls and deaths there are.            *)
(***************************************************************************)
EXTENDS DirectRoom, FiniteSetTheorems, WellFoundedInduction, TLAPS

-----------------------------------------------------------------------------
(* The indices and the seals, as functions of the log L and of the closed  *)
(* policies C.                                                             *)

FirstOf(L, hits) == IF hits = {} THEN Zero ELSE L[Min(hits)]

EventHits(L, a, n) ==
    {i \in DOMAIN L : L[i].kind = "event" /\ L[i].author = a /\ L[i].sequence = n}
PolicyHits(L, r) == {i \in DOMAIN L : L[i].kind = "policy" /\ L[i].revision = r}

EventAt(L, a, n) == FirstOf(L, EventHits(L, a, n))
PolicyAt(L, r)   == FirstOf(L, PolicyHits(L, r))

\* The chain of an author is retained and linked up to sequence n.
LinkedAt(L, a, n) ==
    \A k \in 1..n : EventAt(L, a, k) # Zero /\ EventAt(L, a, k).previous = EventAt(L, a, k - 1)

Names(p, a)  == \E s \in p.seals : s.author = a
SealIn(p, a) == CHOOSE s \in p.seals : s.author = a
SealUnder(C, n, a) ==
    LET named == {i \in 1..n : Names(C[i], a)}
    IN  IF named = {} THEN Zero ELSE SealIn(C[Max(named)], a)

-----------------------------------------------------------------------------
(* The inductive invariant.                                                *)

Ops == room.texts \cup DOMAIN room.lists
Pending == DOMAIN reserved \ completed

\* The chain of an author is retained and linked up to sequence n.
Linked(a, n) ==
    \A k \in 1..n : /\ indexed_event(a, k) # Zero
                    /\ indexed_event(a, k).previous = indexed_event(a, k - 1)

\* s closes policy p after the author's last seal, with all of its ancestry.
Sealed(s, p, prior) ==
    /\ s.author \in p.writers
    /\ prior.sequence < s.sequence
    /\ Linked(s.author, s.sequence)
    /\ indexed_event(s.author, s.sequence) = s
    /\ s.policy = p

Shapes ==
    /\ room \in Rooms
    /\ pc \in {"idle", "closed", "finish", "policies", "authors"}
    /\ log \in Seq(Range(log))
    /\ committed \in Seq(Range(committed))
    /\ \A f \in Range(log) \cup witnessed : WellFormed(f)
    /\ image = [event |-> image.event, policy |-> image.policy,
                authorLost |-> image.authorLost, ownerLost |-> image.ownerLost,
                blocked |-> image.blocked]
    /\ image.authorLost \in BOOLEAN /\ image.ownerLost \in BOOLEAN
    /\ image.blocked = Zero \/ WellFormed(image.blocked)

\* What is reserved, what of it is finished, and what the image still holds.
Reservations ==
    /\ DOMAIN reserved \subseteq Ops
    /\ reserved = [op \in DOMAIN reserved |-> reserved[op]]
    /\ \A op \in DOMAIN reserved :
          /\ WellFormed(reserved[op])
          /\ IF op \in room.texts THEN reserved[op].kind = "event" /\ reserved[op].author = Me
             ELSE reserved[op].kind = "policy"
    /\ image.event \in (Pending \cap room.texts) \cup {None}
    /\ image.policy \in (Pending \cap DOMAIN room.lists) \cup {None}
    /\ Pending \subseteq {image.event, image.policy}
    /\ completed \subseteq DOMAIN reserved
    /\ \A op \in completed : reserved[op] \in Range(log)
    /\ signed \subseteq Range(reserved)

Todo ==
    pc = "finish" =>
        \/ todo = <<>>
        \/ \E op \in Pending : todo = <<op>>
        \/ /\ image.event # None /\ image.policy # None
           /\ todo = <<image.event, image.policy>>

\* No two reservations for one sequence or one revision.
ReservesOnce ==
    \A f, g \in Range(reserved) :
        f.kind = g.kind /\ f # g =>
            IF f.kind = "event" THEN f.sequence # g.sequence ELSE f.revision # g.revision

\* What is under the session's own keys is its own, or custody was lost.
Custody ==
    /\ \A e \in Events : e.author = Me => image.authorLost \/ e \in Range(reserved)
    /\ room.created => \A p \in Policies : image.ownerLost \/ p \in Range(reserved)

Closed ==
    \A i \in DOMAIN committed :
        /\ committed[i] = indexed_policy(i) /\ committed[i] # Zero
        /\ committed[i].previous = IF i = 1 THEN Genesis ELSE committed[i - 1]
        /\ \A s \in committed[i].seals :
              Sealed(s, committed[i].previous, SealedUnder(i - 1, s.author))

Replaying ==
    \/ replay = NoReplay
    \/ /\ replay = [update |-> replay.update, at |-> replay.at, invalid |-> replay.invalid]
       /\ replay.at = [a \in {s.author : s \in replay.update.seals} |-> replay.at[a]]
       /\ replay.update = Next1 /\ replay.update # Zero /\ replay.update.previous = head
       /\ \A s \in replay.update.seals :
             /\ s.author \in head.writers
             /\ sealed_head(s.author).sequence < s.sequence
             /\ replay.at[s.author] \in sealed_head(s.author).sequence..s.sequence
             /\ Linked(s.author, replay.at[s.author])
             /\ replay.at[s.author] = s.sequence =>
                   indexed_event(s.author, s.sequence) = s /\ s.policy = head

\* The row of an author in the cache, for records L, closed policies C and head h.
EventsOf(L, a) == {Zero} \cup {e \in Range(L) : e.kind = "event" /\ e.author = a}
Rows(L, a) == [head : EventsOf(L, a), checked : EventsOf(L, a), anchor : Nat \cup {NoSeq},
               more : BOOLEAN, failure : BOOLEAN, latest : EventsOf(L, a), scan : Nat \cup {NoSeq}]

\* The records show that the author forked, or that its chain does not go on.
ForkAt(L, a) == AuthorFork({e \in Range(L) : e.kind = "event"}, a)
BrokenAt(L, a) ==
    \/ ForkAt(L, a)
    \/ \E n \in Nat : /\ LinkedAt(L, a, n) /\ EventAt(L, a, n + 1) # Zero
                      /\ EventAt(L, a, n + 1).previous # EventAt(L, a, n)

\* The latest event of policy h after sequence low, or how far back it was sought.
NoneOf(L, a, h, low, top) == \A n \in low + 1..top : EventAt(L, a, n).policy # h
LatestAt(L, a, h, low, c) ==
    IF c.scan # NoSeq
    THEN /\ c.latest = Zero /\ c.scan \in low..c.head.sequence
         /\ NoneOf(L, a, h, c.scan, c.head.sequence)
    ELSE IF c.latest = Zero THEN NoneOf(L, a, h, low, c.head.sequence)
    ELSE /\ c.latest.sequence \in low + 1..c.head.sequence
         /\ EventAt(L, a, c.latest.sequence) = c.latest /\ c.latest.policy = h
         /\ NoneOf(L, a, h, c.latest.sequence, c.head.sequence)

FollowsAt(L, a, h, low, c) ==
    /\ LinkedAt(L, a, c.head.sequence) /\ EventAt(L, a, c.head.sequence) = c.head
    /\ ~c.more => EventAt(L, a, c.head.sequence + 1) = Zero
    /\ LatestAt(L, a, h, low, c)

RowAt(L, a, h, low, c) ==
    /\ c \in Rows(L, a)
    /\ c.failure => BrokenAt(L, a)
    /\ ForkAt(L, a) => c.failure
    /\ ~c.failure => FollowsAt(L, a, h, low, c)

\* Where the seals of the closed policies end.
LastSeal(C, a) == SealUnder(C, Len(C), a).sequence

Cached ==
    pc # "closed" =>
        /\ cache = [a \in head.writers \cup {Me} |-> cache[a]]
        /\ \A a \in DOMAIN cache : RowAt(log, a, head, LastSeal(committed, a), cache[a])

\* What a call may still spend, and what the store may still hold.
Spending ==
    /\ used \in Nat /\ used <= limit /\ limit \in room.limit..room.grown
    /\ pass = [budget |-> pass.budget, quota |-> pass.quota, left |-> pass.left,
               commits |-> pass.commits, at |-> pass.at]
    /\ pass.budget \in 0..room.frames /\ pass.quota \in 0..room.page
    /\ pass.quota <= pass.budget
    /\ pc = "policies" => pass.quota = 0

SeenRebuilt == pc # "closed" => seen = RebuiltSeen

\* Of what is retained, only a policy that met a full store is also in the
\* emergency slot.
Slot == image.blocked \notin Events

RoomInv ==
    /\ Shapes /\ Reservations /\ Todo /\ ReservesOnce /\ Custody
    /\ Closed /\ Replaying /\ Cached /\ Spending /\ SeenRebuilt /\ Slot /\ NothingForgotten

-----------------------------------------------------------------------------
(* The records and their indices.                                          *)

\* Frames have one of two kinds, so none of them is Zero.
Framed(L) == L \in Seq(Range(L)) /\ \A f \in Range(L) : f.kind \in {"event", "policy"}

\* The indices are functions of the log.
LEMMA Indices ==
    /\ \A a, n : indexed_event(a, n) = EventAt(log, a, n)
    /\ \A r : indexed_policy(r) = PolicyAt(log, r)
    /\ \A a, n : indexed_event(a, n)' = EventAt(log', a, n)
    /\ \A r : indexed_policy(r)' = PolicyAt(log', r)
BY DEF indexed_event, indexed_policy, First, EventAt, PolicyAt, FirstOf, EventHits, PolicyHits

\* A non-empty set of numbers has a least one.
LEMMA Least ==
    ASSUME NEW T \in SUBSET Nat, T # {}
    PROVE  \E n \in T : \A m \in T : n <= m
<1>1. IsWellFoundedOn(OpToRel(<, Nat), Nat)
  BY NatLessThanWellFounded, Zenon
<1>2. PICK n \in T : \A m \in T : ~(<<m, n>> \in OpToRel(<, Nat))
  BY <1>1, WFMin, Zenon
<1>3. \A m \in T : ~(m < n)
  BY <1>2 DEF OpToRel
<1> QED BY <1>3

\* Min of a set of numbers is the least of them.
LEMMA MinFacts ==
    ASSUME NEW H \in SUBSET Nat, H # {}
    PROVE  Min(H) \in H /\ \A h \in H : Min(H) <= h
<1>1. \E x \in H : \A y \in H : x <= y
  BY Least
<1> QED BY <1>1 DEF Min

\* The first hit is one of the hits.
LEMMA FirstOfFacts ==
    ASSUME NEW L, Framed(L), NEW H \in SUBSET DOMAIN L
    PROVE  IF H = {} THEN FirstOf(L, H) = Zero
           ELSE /\ \E i \in H : FirstOf(L, H) = L[i]
                /\ FirstOf(L, H) \in Range(L) /\ FirstOf(L, H) # Zero
<1>1. DOMAIN L = 1..Len(L) /\ Len(L) \in Nat
  BY DEF Framed
<1>2. CASE H = {}
  BY <1>2 DEF FirstOf
<1>3. CASE H # {}
  <2>1. Min(H) \in H
    BY <1>1, <1>3, MinFacts
  <2>2. FirstOf(L, H) = L[Min(H)]
    BY <1>3 DEF FirstOf
  <2>3. L[Min(H)] \in Range(L)
    BY <2>1 DEF Range
  <2>4. L[Min(H)] # Zero
    BY <2>3 DEF Framed, Zero
  <2> QED BY <1>3, <2>1, <2>2, <2>3, <2>4
<1> QED BY <1>2, <1>3

\* A frame at the end of the log does not displace an earlier hit.
LEMMA FirstOfAppend ==
    ASSUME NEW L, Framed(L), NEW f, NEW H \in SUBSET DOMAIN L, NEW G,
           G = H \/ G = H \cup {Len(L) + 1}
    PROVE  FirstOf(Append(L, f), G) = IF H # {} THEN FirstOf(L, H)
                                      ELSE IF G # {} THEN f ELSE Zero
<1>1. /\ DOMAIN L = 1..Len(L) /\ Len(L) \in Nat
      /\ \A i \in 1..Len(L) : Append(L, f)[i] = L[i]
      /\ Append(L, f)[Len(L) + 1] = f
  BY DEF Framed
<1>2. CASE H # {}
  <2>1. G \in SUBSET Nat /\ G # {} /\ H \in SUBSET Nat
    BY <1>1, <1>2
  <2>2. Min(G) \in G /\ \A h \in G : Min(G) <= h
    BY <2>1, MinFacts
  <2>3. Min(H) \in H /\ \A h \in H : Min(H) <= h
    BY <2>1, <1>2, MinFacts
  <2>4. Min(G) = Min(H)
    BY <1>1, <1>2, <2>1, <2>2, <2>3
  <2> QED BY <1>1, <1>2, <2>1, <2>3, <2>4 DEF FirstOf
<1>3. CASE H = {} /\ G # {}
  <2>1. G = {Len(L) + 1}
    BY <1>3
  <2>2. Min(G) \in G
    BY <2>1, <1>1, MinFacts
  <2> QED BY <1>1, <1>3, <2>1, <2>2 DEF FirstOf
<1>4. CASE H = {} /\ G = {}
  BY <1>4 DEF FirstOf
<1> QED BY <1>2, <1>3, <1>4

\* What an index holds.
LEMMA EventAtFacts ==
    ASSUME NEW L, Framed(L), NEW a, NEW n
    PROVE  LET e == EventAt(L, a, n)
           IN  /\ e # Zero => e \in Range(L) /\ e.kind = "event" /\ e.author = a /\ e.sequence = n
               /\ e = Zero => \A f \in Range(L) :
                                 ~(f.kind = "event" /\ f.author = a /\ f.sequence = n)
<1>1. EventHits(L, a, n) \in SUBSET DOMAIN L
  BY DEF EventHits
<1>2. CASE EventHits(L, a, n) = {}
  <2>1. EventAt(L, a, n) = Zero
    BY <1>2 DEF EventAt, FirstOf
  <2> QED BY <2>1, <1>2 DEF EventHits, Range
<1>3. CASE EventHits(L, a, n) # {}
  <2>1. /\ \E i \in EventHits(L, a, n) : EventAt(L, a, n) = L[i]
        /\ EventAt(L, a, n) \in Range(L) /\ EventAt(L, a, n) # Zero
    BY <1>1, <1>3, FirstOfFacts DEF EventAt
  <2> QED BY <2>1 DEF EventHits
<1> QED BY <1>2, <1>3

\* What the index of the policies holds.
LEMMA PolicyAtFacts ==
    ASSUME NEW L, Framed(L), NEW r
    PROVE  LET p == PolicyAt(L, r)
           IN  /\ p # Zero => p \in Range(L) /\ p.kind = "policy" /\ p.revision = r
               /\ p = Zero => \A f \in Range(L) : ~(f.kind = "policy" /\ f.revision = r)
<1>1. PolicyHits(L, r) \in SUBSET DOMAIN L
  BY DEF PolicyHits
<1>2. CASE PolicyHits(L, r) = {}
  <2>1. PolicyAt(L, r) = Zero
    BY <1>2 DEF PolicyAt, FirstOf
  <2> QED BY <2>1, <1>2 DEF PolicyHits, Range
<1>3. CASE PolicyHits(L, r) # {}
  <2>1. /\ \E i \in PolicyHits(L, r) : PolicyAt(L, r) = L[i]
        /\ PolicyAt(L, r) \in Range(L) /\ PolicyAt(L, r) # Zero
    BY <1>1, <1>3, FirstOfFacts DEF PolicyAt
  <2> QED BY <2>1 DEF PolicyHits
<1> QED BY <1>2, <1>3

\* A sequence and one more element.
LEMMA AppendFacts ==
    ASSUME NEW C, C \in Seq(Range(C)), NEW p
    PROVE  /\ Append(C, p) \in Seq(Range(Append(C, p)))
           /\ Range(Append(C, p)) = Range(C) \cup {p}
           /\ Len(C) \in Nat /\ DOMAIN C = 1..Len(C)
           /\ Len(Append(C, p)) = Len(C) + 1 /\ DOMAIN Append(C, p) = 1..Len(C) + 1
           /\ \A i \in 1..Len(C) : Append(C, p)[i] = C[i]
           /\ Append(C, p)[Len(C) + 1] = p
<1>1. /\ DOMAIN C = 1..Len(C) /\ Len(C) \in Nat
      /\ DOMAIN Append(C, p) = 1..Len(C) + 1 /\ Len(Append(C, p)) = Len(C) + 1
      /\ \A i \in 1..Len(C) : Append(C, p)[i] = C[i]
      /\ Append(C, p)[Len(C) + 1] = p
  OBVIOUS
<1>2. Range(Append(C, p)) = Range(C) \cup {p}
  <2>1. \A i \in DOMAIN Append(C, p) : i \in DOMAIN C \/ i = Len(C) + 1
    BY <1>1
  <2>2. DOMAIN C \subseteq DOMAIN Append(C, p) /\ Len(C) + 1 \in DOMAIN Append(C, p)
    BY <1>1
  <2> QED BY <1>1, <2>1, <2>2 DEF Range
<1>3. Append(C, p) \in Seq(Range(C) \cup {p})
  <2>1. C \in Seq(Range(C) \cup {p})
    BY <1>1 DEF Range
  <2> QED BY <2>1
<1> QED BY <1>1, <1>2, <1>3

\* The log grows by one frame.
LEMMA FramedAppend ==
    ASSUME NEW L, Framed(L), NEW f, f.kind \in {"event", "policy"}
    PROVE  /\ Framed(Append(L, f)) /\ Range(Append(L, f)) = Range(L) \cup {f}
           /\ Len(Append(L, f)) = Len(L) + 1 /\ Len(L) \in Nat
           /\ \A i \in 1..Len(L) : Append(L, f)[i] = L[i]
           /\ Append(L, f)[Len(L) + 1] = f
BY AppendFacts DEF Framed

\* A frame at the end of the log fills its own index only, and only if it is free.
LEMMA EventAtAppend ==
    ASSUME NEW L, Framed(L), NEW f, NEW a, NEW n
    PROVE  EventAt(Append(L, f), a, n) =
              IF EventAt(L, a, n) # Zero THEN EventAt(L, a, n)
              ELSE IF f.kind = "event" /\ f.author = a /\ f.sequence = n THEN f ELSE Zero
<1> DEFINE H == EventHits(L, a, n)
           G == EventHits(Append(L, f), a, n)
           fits == f.kind = "event" /\ f.author = a /\ f.sequence = n
<1>1. H \in SUBSET DOMAIN L
  BY DEF EventHits
<1>2. /\ DOMAIN L = 1..Len(L) /\ Len(L) \in Nat /\ DOMAIN Append(L, f) = 1..Len(L) + 1
      /\ \A i \in 1..Len(L) : Append(L, f)[i] = L[i]
      /\ Append(L, f)[Len(L) + 1] = f
  BY DEF Framed
<1>3. G = IF fits THEN H \cup {Len(L) + 1} ELSE H
  <2>1. \A i \in G : i \in H \/ (i = Len(L) + 1 /\ fits)
    BY <1>2 DEF EventHits
  <2>2. \A i \in H : i \in G
    BY <1>2 DEF EventHits
  <2>3. fits <=> Len(L) + 1 \in G
    BY <1>2 DEF EventHits
  <2> HIDE DEF H, G
  <2> QED BY <2>1, <2>2, <2>3
<1>4. FirstOf(Append(L, f), G) = IF H # {} THEN FirstOf(L, H) ELSE IF G # {} THEN f ELSE Zero
  <2>1. PICK h, g : h = H /\ g = G
    OBVIOUS
  <2>2. h \in SUBSET DOMAIN L /\ (g = h \/ g = h \cup {Len(L) + 1})
    BY <1>1, <1>3, <2>1, Zenon
  <2>3. FirstOf(Append(L, f), g) = IF h # {} THEN FirstOf(L, h) ELSE IF g # {} THEN f ELSE Zero
    BY ONLY <2>2, Framed(L), FirstOfAppend
  <2> QED BY <2>1, <2>3
<1>5. IF H = {} THEN FirstOf(L, H) = Zero ELSE FirstOf(L, H) # Zero
  BY <1>1, FirstOfFacts
<1>6. EventAt(L, a, n) = FirstOf(L, H) /\ EventAt(Append(L, f), a, n) = FirstOf(Append(L, f), G)
  BY DEF EventAt
<1> HIDE DEF H, G
<1> QED BY <1>3, <1>4, <1>5, <1>6

\* The same for the index of the policies.
LEMMA PolicyAtAppend ==
    ASSUME NEW L, Framed(L), NEW f, NEW r
    PROVE  PolicyAt(Append(L, f), r) =
              IF PolicyAt(L, r) # Zero THEN PolicyAt(L, r)
              ELSE IF f.kind = "policy" /\ f.revision = r THEN f ELSE Zero
<1> DEFINE H == PolicyHits(L, r)
           G == PolicyHits(Append(L, f), r)
           fits == f.kind = "policy" /\ f.revision = r
<1>1. H \in SUBSET DOMAIN L
  BY DEF PolicyHits
<1>2. /\ DOMAIN L = 1..Len(L) /\ Len(L) \in Nat /\ DOMAIN Append(L, f) = 1..Len(L) + 1
      /\ \A i \in 1..Len(L) : Append(L, f)[i] = L[i]
      /\ Append(L, f)[Len(L) + 1] = f
  BY DEF Framed
<1>3. G = IF fits THEN H \cup {Len(L) + 1} ELSE H
  <2>1. \A i \in G : i \in H \/ (i = Len(L) + 1 /\ fits)
    BY <1>2 DEF PolicyHits
  <2>2. \A i \in H : i \in G
    BY <1>2 DEF PolicyHits
  <2>3. fits <=> Len(L) + 1 \in G
    BY <1>2 DEF PolicyHits
  <2> HIDE DEF H, G
  <2> QED BY <2>1, <2>2, <2>3
<1>4. FirstOf(Append(L, f), G) = IF H # {} THEN FirstOf(L, H) ELSE IF G # {} THEN f ELSE Zero
  <2>1. PICK h, g : h = H /\ g = G
    OBVIOUS
  <2>2. h \in SUBSET DOMAIN L /\ (g = h \/ g = h \cup {Len(L) + 1})
    BY <1>1, <1>3, <2>1, Zenon
  <2>3. FirstOf(Append(L, f), g) = IF h # {} THEN FirstOf(L, h) ELSE IF g # {} THEN f ELSE Zero
    BY ONLY <2>2, Framed(L), FirstOfAppend
  <2> QED BY <2>1, <2>3
<1>5. IF H = {} THEN FirstOf(L, H) = Zero ELSE FirstOf(L, H) # Zero
  BY <1>1, FirstOfFacts
<1>6. PolicyAt(L, r) = FirstOf(L, H) /\ PolicyAt(Append(L, f), r) = FirstOf(Append(L, f), G)
  BY DEF PolicyAt
<1> HIDE DEF H, G
<1> QED BY <1>3, <1>4, <1>5, <1>6

-----------------------------------------------------------------------------
(* The observations: what replaying a log leaves.                          *)

Observe(C, m, s, first, p) ==
    IF first \notin {Zero, p} \/ (p.revision \in 1..Len(C) /\ C[p.revision] # p)
        THEN [s EXCEPT !.forked = TRUE]
    ELSE IF p.revision <= Len(C) THEN s
    ELSE IF \E q \in s.observed : q.revision = p.revision
        THEN [s EXCEPT !.forked = @ \/ p \notin s.observed]
    ELSE IF Cardinality(s.observed) = m THEN [s EXCEPT !.overflow = TRUE]
    ELSE [s EXCEPT !.observed = @ \cup {p}]

\* Record n of the log, on what g says of those before it.
Polled(L, C, m, g, n) ==
    IF n = 0 THEN Unseen
    ELSE IF L[n].kind = "policy"
         THEN Observe(C, m, g[n - 1], PolicyAt(L, L[n].revision), L[n])
    ELSE g[n - 1]

Run(L, C, m, N, g)    == g = [n \in 0..N |-> Polled(L, C, m, g, n)]
ReplayTo(L, C, m)     == CHOOSE g : Run(L, C, m, Len(L), g)
After(L, C, m, n)     == ReplayTo(L, C, m)[n]
SeenOf(L, C, m, b)    ==
    IF b.kind # "policy" THEN After(L, C, m, Len(L))
    ELSE Observe(C, m, After(L, C, m, Len(L)), PolicyAt(L, b.revision), b)

\* replay_observation and RebuiltSeen are functions of the records.
LEMMA Observations ==
    /\ \A s, first, p :
          replay_observation(s, first, p) = Observe(committed, room.observed, s, first, p)
    /\ RebuiltSeen = SeenOf(log, committed, room.observed, image.blocked)
<1>1. ASSUME NEW s, NEW first, NEW p
      PROVE  replay_observation(s, first, p) = Observe(committed, room.observed, s, first, p)
  BY DEF replay_observation, Observe
<1>2. ASSUME NEW g, NEW n
      PROVE  (IF n = 0 THEN Unseen
              ELSE IF log[n].kind = "policy"
                   THEN replay_observation(g[n - 1], indexed_policy(log[n].revision), log[n])
              ELSE g[n - 1]) = Polled(log, committed, room.observed, g, n)
  BY <1>1, Indices DEF Polled
<1>3. Replayed = ReplayTo(log, committed, room.observed)
  BY <1>2 DEF Replayed, ReplayTo, Run
<1> QED BY <1>1, <1>3, Indices DEF RebuiltSeen, SeenOf, After

\* Induction over the numbers up to N.
LEMMA Climb ==
    ASSUME NEW N \in Nat, NEW S, 0 \in S, \A n \in 0..N : n + 1 \in 0..N /\ n \in S => n + 1 \in S
    PROVE  0..N \subseteq S
<1> DEFINE T == (0..N) \ S
<1>1. SUFFICES ASSUME T # {} PROVE FALSE
  OBVIOUS
<1>2. T \in SUBSET Nat
  OBVIOUS
<1>3. PICK n \in T : \A k \in T : n <= k
  BY <1>1, <1>2, Least
<1>4. n # 0 /\ n \in 0..N
  BY <1>3
<1>5. n - 1 \in 0..N /\ n - 1 \notin T /\ (n - 1) + 1 = n
  BY <1>3, <1>4
<1>6. n - 1 \in S
  BY <1>5
<1> QED BY <1>3, <1>4, <1>5, <1>6

\* The recursive definition has a value.
LEMMA RunExists ==
    ASSUME NEW L, NEW C, NEW m, NEW N \in Nat
    PROVE  \E g : Run(L, C, m, N, g)
<1> DEFINE S == {n \in 0..N : \E g : Run(L, C, m, n, g)}
<1>1. 0 \in S
  <2> DEFINE g == [n \in 0..0 |-> Unseen]
  <2>1. g = [n \in 0..0 |-> Polled(L, C, m, g, n)]
    BY DEF Polled
  <2> QED BY <2>1 DEF Run
<1>2. ASSUME NEW n \in 0..N, n + 1 \in 0..N, n \in S PROVE n + 1 \in S
  <2>1. PICK h : h = [k \in 0..n |-> Polled(L, C, m, h, k)]
    BY <1>2 DEF Run
  <2> DEFINE g == [k \in 0..(n + 1) |-> Polled(L, C, m, h, k)]
  <2>2. \A k \in 0..n : g[k] = h[k]
    <3> TAKE k \in 0..n
    <3>1. h[k] = Polled(L, C, m, h, k)
      BY <2>1
    <3> QED BY <3>1
  <2>3. \A k \in 0..(n + 1) : Polled(L, C, m, g, k) = Polled(L, C, m, h, k)
    <3> TAKE k \in 0..(n + 1)
    <3>1. CASE k = 0
      BY <3>1 DEF Polled
    <3>2. CASE k # 0
      <4>1. k - 1 \in 0..n
        BY <3>2
      <4>2. g[k - 1] = h[k - 1]
        BY <4>1, <2>2
      <4> HIDE DEF g
      <4> QED BY <4>2, <3>2 DEF Polled
    <3> QED BY <3>1, <3>2
  <2>4. g = [k \in 0..(n + 1) |-> Polled(L, C, m, g, k)]
    <3> DEFINE r == [k \in 0..(n + 1) |-> Polled(L, C, m, g, k)]
    <3>1. \A k \in 0..(n + 1) : g[k] = r[k]
      <4>1. \A k \in 0..(n + 1) : g[k] = Polled(L, C, m, h, k)
        OBVIOUS
      <4> HIDE DEF g
      <4> QED BY <2>3, <4>1
    <3> QED BY <3>1
  <2> HIDE DEF g
  <2>5. Run(L, C, m, n + 1, g)
    BY <2>4 DEF Run
  <2>6. \E x : Run(L, C, m, n + 1, x)
    BY <2>5
  <2> QED BY <1>2, <2>6
<1> HIDE DEF S
<1>3. 0..N \subseteq S
  BY <1>1, <1>2, Climb
<1> QED BY <1>3 DEF S

\* One record after the other.
LEMMA AfterFacts ==
    ASSUME NEW L, Len(L) \in Nat, NEW C, NEW m
    PROVE  /\ After(L, C, m, 0) = Unseen
           /\ \A n \in 1..Len(L) :
                 After(L, C, m, n) =
                    IF L[n].kind = "policy"
                    THEN Observe(C, m, After(L, C, m, n - 1), PolicyAt(L, L[n].revision), L[n])
                    ELSE After(L, C, m, n - 1)
<1>1. PICK g : g = ReplayTo(L, C, m)
  OBVIOUS
<1>2. Run(L, C, m, Len(L), g)
  BY <1>1, RunExists DEF ReplayTo
<1>3. \A n \in 0..Len(L) : g[n] = Polled(L, C, m, g, n)
  <2> HIDE <1>1
  <2> QED BY <1>2 DEF Run
<1>4. g[0] = Unseen
  BY <1>3 DEF Polled
<1>5. \A n \in 1..Len(L) : n \in 0..Len(L) /\ n # 0
  OBVIOUS
<1> QED BY <1>1, <1>3, <1>4, <1>5 DEF After, Polled

\* What the replay keeps of the observations.
Sound(C, m, s) ==
    /\ s = [observed |-> s.observed, overflow |-> s.overflow, forked |-> s.forked]
    /\ s.overflow \in BOOLEAN /\ s.forked \in BOOLEAN
    /\ IsFiniteSet(s.observed) /\ Cardinality(s.observed) <= m
    /\ s.overflow => Cardinality(s.observed) = m
    /\ \A q \in s.observed : q.revision \in Nat /\ q.revision > Len(C)

\* One more observation: the state stays sound and forgets nothing.
LEMMA ObserveSound ==
    ASSUME NEW C, Len(C) \in Nat, NEW m \in Nat, NEW s, Sound(C, m, s), NEW first,
           NEW p, p.revision \in Nat, NEW t, t = Observe(C, m, s, first, p)
    PROVE  /\ Sound(C, m, t)
           /\ s.forked => t.forked
           /\ s.overflow => t.overflow
           /\ s.observed \subseteq t.observed /\ t.observed \subseteq s.observed \cup {p}
<1>0. PICK o, v, k : s = [observed |-> o, overflow |-> v, forked |-> k]
  BY DEF Sound
<1>1. \/ t = [observed |-> s.observed, overflow |-> s.overflow, forked |-> TRUE]
      \/ t = s
      \/ t = [observed |-> s.observed, overflow |-> s.overflow,
              forked |-> s.forked \/ p \notin s.observed]
      \/ /\ Cardinality(s.observed) = m
         /\ t = [observed |-> s.observed, overflow |-> TRUE, forked |-> s.forked]
      \/ /\ Cardinality(s.observed) # m /\ p.revision > Len(C)
         /\ \A q \in s.observed : q.revision # p.revision
         /\ t = [observed |-> s.observed \cup {p}, overflow |-> s.overflow, forked |-> s.forked]
  <2>0. PICK yes : yes = TRUE
    OBVIOUS
  <2>1. [s EXCEPT !.forked = TRUE] = [observed |-> s.observed, overflow |-> s.overflow, forked |-> TRUE]
    <3>1. [s EXCEPT !.forked = yes] = [observed |-> s.observed, overflow |-> s.overflow, forked |-> yes]
      BY ONLY <1>0
    <3> QED BY <2>0, <3>1, Zenon
  <2>2. [s EXCEPT !.forked = @ \/ p \notin s.observed]
           = [observed |-> s.observed, overflow |-> s.overflow, forked |-> s.forked \/ p \notin s.observed]
    BY ONLY <1>0
  <2>3. [s EXCEPT !.overflow = TRUE] = [observed |-> s.observed, overflow |-> TRUE, forked |-> s.forked]
    <3>1. [s EXCEPT !.overflow = yes] = [observed |-> s.observed, overflow |-> yes, forked |-> s.forked]
      BY ONLY <1>0
    <3> QED BY <2>0, <3>1, Zenon
  <2>4. [s EXCEPT !.observed = @ \cup {p}]
           = [observed |-> s.observed \cup {p}, overflow |-> s.overflow, forked |-> s.forked]
    BY ONLY <1>0
  <2>5. p.revision <= Len(C) \/ p.revision > Len(C)
    OBVIOUS
  <2>6. \/ t = [s EXCEPT !.forked = TRUE]
        \/ t = s
        \/ t = [s EXCEPT !.forked = @ \/ p \notin s.observed]
        \/ Cardinality(s.observed) = m /\ t = [s EXCEPT !.overflow = TRUE]
        \/ /\ Cardinality(s.observed) # m /\ ~(p.revision <= Len(C))
           /\ ~\E q \in s.observed : q.revision = p.revision
           /\ t = [s EXCEPT !.observed = @ \cup {p}]
    BY Zenon DEF Observe
  <2> QED BY <2>1, <2>2, <2>3, <2>4, <2>5, <2>6, Zenon
<1>4. s.forked \in BOOLEAN /\ s.overflow \in BOOLEAN
  BY DEF Sound
<1>2. CASE \/ t = [observed |-> s.observed, overflow |-> s.overflow, forked |-> TRUE]
           \/ t = s
           \/ t = [observed |-> s.observed, overflow |-> s.overflow,
                   forked |-> s.forked \/ p \notin s.observed]
           \/ /\ Cardinality(s.observed) = m
              /\ t = [observed |-> s.observed, overflow |-> TRUE, forked |-> s.forked]
  <2>1. /\ t = [observed |-> t.observed, overflow |-> t.overflow, forked |-> t.forked]
        /\ t.observed = s.observed /\ t.overflow \in BOOLEAN /\ t.forked \in BOOLEAN
        /\ s.forked => t.forked
        /\ s.overflow => t.overflow
        /\ t.overflow => s.overflow \/ Cardinality(s.observed) = m
    <3>1. PICK y, z : /\ t = [observed |-> s.observed, overflow |-> z, forked |-> y]
                      /\ y \in BOOLEAN /\ z \in BOOLEAN
                      /\ s.forked => y
                      /\ s.overflow => z
                      /\ z => s.overflow \/ Cardinality(s.observed) = m
      <4>1. PICK fk : fk = (s.forked \/ p \notin s.observed)
        OBVIOUS
      <4>2. fk \in BOOLEAN /\ (s.forked => fk)
        BY <4>1
      <4>3. s = [observed |-> s.observed, overflow |-> s.overflow, forked |-> s.forked]
        BY DEF Sound
      <4> QED BY <1>2, <1>4, <4>1, <4>2, <4>3, Zenon
    <3> QED BY ONLY <3>1
  <2> QED BY <2>1 DEF Sound
<1>3. CASE t = [observed |-> s.observed \cup {p}, overflow |-> s.overflow, forked |-> s.forked]
            /\ Cardinality(s.observed) # m /\ p.revision > Len(C) /\ p \notin s.observed
  <2>1. IsFiniteSet(s.observed \cup {p}) /\ Cardinality(s.observed \cup {p}) = Cardinality(s.observed) + 1
    BY <1>3, FS_AddElement DEF Sound
  <2>2. Cardinality(s.observed) \in Nat
    BY FS_CardinalityType DEF Sound
  <2> QED BY <1>3, <2>1, <2>2 DEF Sound
<1> QED BY <1>1, <1>2, <1>3

\* What was observed once may be observed again: nothing changes.
LEMMA ObserveTwice ==
    ASSUME NEW C, Len(C) \in Nat, NEW m \in Nat, NEW s, Sound(C, m, s), NEW first,
           NEW p, p.revision \in Nat, NEW t, t = Observe(C, m, s, first, p)
    PROVE  Observe(C, m, t, first, p) = t
<1>1. Sound(C, m, t)
  BY ObserveSound
<1>2. t = [observed |-> t.observed, overflow |-> t.overflow, forked |-> t.forked]
  BY <1>1 DEF Sound
<1>3. s = [observed |-> s.observed, overflow |-> s.overflow, forked |-> s.forked]
  BY DEF Sound
<1>4. CASE first \notin {Zero, p} \/ (p.revision \in 1..Len(C) /\ C[p.revision] # p)
  <2>1. t = [s EXCEPT !.forked = TRUE] /\ Observe(C, m, t, first, p) = [t EXCEPT !.forked = TRUE]
    BY <1>4, Zenon DEF Observe
  <2>2. t.forked = TRUE
    BY <2>1, <1>3
  <2> QED BY <2>1, <2>2, <1>2
<1>5. CASE ~(first \notin {Zero, p} \/ (p.revision \in 1..Len(C) /\ C[p.revision] # p))
  <2>1. CASE p.revision <= Len(C)
    BY <1>5, <2>1 DEF Observe
  <2>2. CASE ~(p.revision <= Len(C)) /\ \E q \in s.observed : q.revision = p.revision
    <3>1. t = [s EXCEPT !.forked = @ \/ p \notin s.observed]
      BY <1>5, <2>2, Zenon DEF Observe
    <3>2. t.observed = s.observed /\ t.forked = (s.forked \/ p \notin s.observed)
      BY <3>1, <1>3
    <3>3. Observe(C, m, t, first, p) = [t EXCEPT !.forked = @ \/ p \notin t.observed]
      BY <1>5, <2>2, <3>2, Zenon DEF Observe
    <3>4. (t.forked \/ p \notin t.observed) = t.forked
      BY <3>2
    <3> QED BY <3>3, <3>4, <1>2
  <2>3. CASE /\ ~(p.revision <= Len(C)) /\ ~\E q \in s.observed : q.revision = p.revision
             /\ Cardinality(s.observed) = m
    <3>1. t = [s EXCEPT !.overflow = TRUE]
      BY <1>5, <2>3, Zenon DEF Observe
    <3>2. t.observed = s.observed /\ t.overflow = TRUE
      BY <3>1, <1>3
    <3>3. Observe(C, m, t, first, p) = [t EXCEPT !.overflow = TRUE]
      BY <1>5, <2>3, <3>2, Zenon DEF Observe
    <3> QED BY <3>2, <3>3, <1>2
  <2>4. CASE /\ ~(p.revision <= Len(C)) /\ ~\E q \in s.observed : q.revision = p.revision
             /\ Cardinality(s.observed) # m
    <3>1. t = [s EXCEPT !.observed = @ \cup {p}]
      BY <1>5, <2>4, Zenon DEF Observe
    <3>2. p \in t.observed
      BY <3>1, <1>3
    <3>3. Observe(C, m, t, first, p) = [t EXCEPT !.forked = @ \/ p \notin t.observed]
      BY <1>5, <2>4, <3>2, Zenon DEF Observe
    <3>4. (t.forked \/ p \notin t.observed) = t.forked
      BY <3>2, <1>1 DEF Sound
    <3> QED BY <3>3, <3>4, <1>2
  <2> QED BY <2>1, <2>2, <2>3, <2>4
<1> QED BY <1>4, <1>5

\* What is stable stays stable when something else is observed.
LEMMA ObserveStable ==
    ASSUME NEW C, Len(C) \in Nat, NEW m \in Nat, NEW s, Sound(C, m, s), NEW first, NEW p,
           p.revision \in Nat, Observe(C, m, s, first, p) = s,
           NEW other, NEW q, q.revision \in Nat, NEW t, t = Observe(C, m, s, other, q)
    PROVE  Observe(C, m, t, first, p) = t
<1>1. /\ Sound(C, m, t)
      /\ s.forked => t.forked
      /\ s.overflow => t.overflow
      /\ s.observed \subseteq t.observed /\ t.observed \subseteq s.observed \cup {q}
  BY ObserveSound
<1>2. t = [observed |-> t.observed, overflow |-> t.overflow, forked |-> t.forked]
      /\ t.forked \in BOOLEAN /\ t.overflow \in BOOLEAN
  BY <1>1 DEF Sound
<1>3. s = [observed |-> s.observed, overflow |-> s.overflow, forked |-> s.forked]
      /\ s.forked \in BOOLEAN /\ s.overflow \in BOOLEAN
  BY DEF Sound
<1>4. CASE first \notin {Zero, p} \/ (p.revision \in 1..Len(C) /\ C[p.revision] # p)
  <2>1. s = [s EXCEPT !.forked = TRUE] /\ Observe(C, m, t, first, p) = [t EXCEPT !.forked = TRUE]
    BY <1>4, Zenon DEF Observe
  <2>2. s.forked = TRUE
    BY <2>1, <1>3
  <2>3. t.forked = TRUE
    BY <2>2, <1>1, <1>2
  <2> QED BY <2>1, <2>3, <1>2
<1>5. CASE ~(first \notin {Zero, p} \/ (p.revision \in 1..Len(C) /\ C[p.revision] # p))
  <2>1. CASE p.revision <= Len(C)
    BY <1>5, <2>1 DEF Observe
  <2>2. CASE ~(p.revision <= Len(C)) /\ \E x \in s.observed : x.revision = p.revision
    <3>1. s = [s EXCEPT !.forked = @ \/ p \notin s.observed]
      BY <1>5, <2>2, Zenon DEF Observe
    <3>2. s.forked = (s.forked \/ p \notin s.observed)
      BY <3>1, <1>3
    <3>3. \E x \in t.observed : x.revision = p.revision
      BY <2>2, <1>1
    <3>4. Observe(C, m, t, first, p) = [t EXCEPT !.forked = @ \/ p \notin t.observed]
      BY <1>5, <2>2, <3>3, Zenon DEF Observe
    <3>5. (t.forked \/ p \notin t.observed) = t.forked
      BY <3>2, <1>1, <1>2, <1>3
    <3> QED BY <3>4, <3>5, <1>2
  <2>3. CASE /\ ~(p.revision <= Len(C)) /\ ~\E x \in s.observed : x.revision = p.revision
             /\ Cardinality(s.observed) = m
    <3>1. s = [s EXCEPT !.overflow = TRUE]
      BY <1>5, <2>3, Zenon DEF Observe
    <3>2. s.overflow = TRUE
      BY <3>1, <1>3
    <3>3. t.observed = s.observed
      <4>1. CASE other \notin {Zero, q} \/ (q.revision \in 1..Len(C) /\ C[q.revision] # q)
        BY <4>1, <1>3 DEF Observe
      <4>2. CASE ~(other \notin {Zero, q} \/ (q.revision \in 1..Len(C) /\ C[q.revision] # q))
        <5>1. t = s \/ t = [s EXCEPT !.forked = @ \/ q \notin s.observed] \/ t = [s EXCEPT !.overflow = TRUE]
          BY <4>2, <2>3, Zenon DEF Observe
        <5> QED BY <5>1, <1>3
      <4> QED BY <4>1, <4>2
    <3>4. Observe(C, m, t, first, p) = [t EXCEPT !.overflow = TRUE]
      BY <1>5, <2>3, <3>3, Zenon DEF Observe
    <3>5. t.overflow = TRUE
      BY <3>2, <1>1, <1>2
    <3> QED BY <3>4, <3>5, <1>2
  <2>4. CASE /\ ~(p.revision <= Len(C)) /\ ~\E x \in s.observed : x.revision = p.revision
             /\ Cardinality(s.observed) # m
    <3>1. s = [s EXCEPT !.observed = @ \cup {p}]
      BY <1>5, <2>4, Zenon DEF Observe
    <3>2. p \in s.observed
      BY <3>1, <1>3
    <3> QED BY <2>4, <3>2
  <2> QED BY <2>1, <2>2, <2>3, <2>4
<1> QED BY <1>4, <1>5

\* What a stable observation says.
LEMMA ObservedFacts ==
    ASSUME NEW C, Len(C) \in Nat, NEW m \in Nat, NEW s, Sound(C, m, s), NEW first, NEW p,
           p.revision \in Nat \ {0}, Observe(C, m, s, first, p) = s
    PROVE  \/ s.forked
           \/ s.overflow
           \/ p \in s.observed
           \/ p.revision \in 1..Len(C) /\ C[p.revision] = p
<1>3. s = [observed |-> s.observed, overflow |-> s.overflow, forked |-> s.forked]
      /\ s.forked \in BOOLEAN /\ s.overflow \in BOOLEAN
  BY DEF Sound
<1>4. CASE first \notin {Zero, p} \/ (p.revision \in 1..Len(C) /\ C[p.revision] # p)
  <2>1. s = [s EXCEPT !.forked = TRUE]
    BY <1>4, Zenon DEF Observe
  <2> QED BY <2>1, <1>3
<1>5. CASE ~(first \notin {Zero, p} \/ (p.revision \in 1..Len(C) /\ C[p.revision] # p))
  <2>1. CASE p.revision <= Len(C)
    BY <1>5, <2>1
  <2>2. CASE ~(p.revision <= Len(C))
    <3>1. \/ s = [s EXCEPT !.forked = @ \/ p \notin s.observed]
          \/ s = [s EXCEPT !.overflow = TRUE] \/ s = [s EXCEPT !.observed = @ \cup {p}]
      BY <1>5, <2>2, Zenon DEF Observe
    <3> QED BY <3>1, <1>3
  <2> QED BY <2>1, <2>2
<1> QED BY <1>4, <1>5

\* A second policy of a revision is a fork.
LEMMA ConflictForks ==
    ASSUME NEW C, NEW m, NEW s, Sound(C, m, s), NEW first, NEW p,
           Observe(C, m, s, first, p) = s, first # Zero, first # p
    PROVE  s.forked
<1>1. s = [s EXCEPT !.forked = TRUE]
  BY Zenon DEF Observe
<1> QED BY <1>1 DEF Sound

\* Whether nothing was retained for the revision, or the policy itself.
LEMMA ObserveFirst ==
    ASSUME NEW C, NEW m, NEW s, NEW p
    PROVE  Observe(C, m, s, Zero, p) = Observe(C, m, s, p, p)
BY DEF Observe

PolicyLog(L) ==
    Framed(L) /\ \A f \in Range(L) : f.kind = "policy" => f.revision \in Nat \ {0}

\* Every policy of the log has left its mark: to observe it again changes nothing.
Marks(L, C, m, s, n) ==
    \A j \in 1..n : L[j].kind = "policy" =>
        Observe(C, m, s, PolicyAt(L, L[j].revision), L[j]) = s

\* What is observed of a log is sound at every record of it, comes from its
\* policies, and every policy before that record has left its mark.
LEMMA AfterSound ==
    ASSUME NEW L, PolicyLog(L), NEW C, Len(C) \in Nat, NEW m \in Nat
    PROVE  \A n \in 0..Len(L) :
              /\ Sound(C, m, After(L, C, m, n))
              /\ Marks(L, C, m, After(L, C, m, n), n)
              /\ After(L, C, m, n).observed \subseteq {f \in Range(L) : f.kind = "policy"}
<1> DEFINE A(n) == After(L, C, m, n)
           S == {n \in 0..Len(L) : /\ Sound(C, m, A(n)) /\ Marks(L, C, m, A(n), n)
                                   /\ A(n).observed \subseteq {f \in Range(L) : f.kind = "policy"}}
<1>0. Len(L) \in Nat /\ DOMAIN L = 1..Len(L)
  BY DEF PolicyLog, Framed
<1>1. /\ A(0) = Unseen
      /\ \A n \in 1..Len(L) : A(n) = IF L[n].kind = "policy"
                                     THEN Observe(C, m, A(n - 1), PolicyAt(L, L[n].revision), L[n])
                                     ELSE A(n - 1)
  BY <1>0, AfterFacts
<1> HIDE DEF A
<1>2. 0 \in S
  <2>1. Sound(C, m, Unseen)
    <3>1. Unseen.observed = {} /\ Unseen.overflow = FALSE /\ Unseen.forked = FALSE
      BY DEF Unseen
    <3>2. IsFiniteSet({}) /\ Cardinality({}) = 0
      BY FS_EmptySet
    <3> QED BY <3>1, <3>2 DEF Sound, Unseen
  <2>2. Marks(L, C, m, A(0), 0) /\ 0 \in 0..Len(L)
    BY <1>0 DEF Marks
  <2>3. A(0).observed = {}
    BY <1>1 DEF Unseen
  <2> QED BY <1>1, <2>1, <2>2, <2>3
<1>3. ASSUME NEW n \in 0..Len(L), n + 1 \in 0..Len(L), n \in S PROVE n + 1 \in S
  <2>0. n + 1 \in 1..Len(L) /\ (n + 1) - 1 = n
    BY <1>0, <1>3
  <2>1. PICK s, t : s = A(n) /\ t = A(n + 1)
    OBVIOUS
  <2>2. Sound(C, m, s) /\ Marks(L, C, m, s, n) /\ s.observed \subseteq {f \in Range(L) : f.kind = "policy"}
    BY <1>3, <2>1
  <2>3. CASE L[n + 1].kind # "policy"
    <3>1. t = s
      BY <1>1, <2>0, <2>1, <2>3
    <3>2. Marks(L, C, m, t, n + 1)
      <4>1. \A j \in 1..(n + 1) : j = n + 1 \/ j \in 1..n
        BY <2>0
      <4> QED BY <4>1, <3>1, <2>2, <2>3 DEF Marks
    <3> QED BY <3>1, <3>2, <2>1, <2>2, <2>0
  <2>4. CASE L[n + 1].kind = "policy"
    <3>1. PICK p, first : p = L[n + 1] /\ first = PolicyAt(L, L[n + 1].revision)
      OBVIOUS
    <3>2. t = Observe(C, m, s, first, p)
      BY <1>1, <2>0, <2>1, <2>4, <3>1
    <3>3. p \in Range(L) /\ p.kind = "policy" /\ p.revision \in Nat
      <4>1. p \in Range(L)
        BY <1>0, <2>0, <3>1 DEF Range
      <4> QED BY <4>1, <3>1, <2>4 DEF PolicyLog
    <3>4. Sound(C, m, t) /\ t.observed \subseteq s.observed \cup {p}
      BY <2>2, <3>2, <3>3, ObserveSound
    <3>5. Observe(C, m, t, first, p) = t
      BY <2>2, <3>2, <3>3, ObserveTwice
    <3>6. Marks(L, C, m, t, n + 1)
      <4> SUFFICES ASSUME NEW j \in 1..(n + 1), L[j].kind = "policy"
                   PROVE  Observe(C, m, t, PolicyAt(L, L[j].revision), L[j]) = t
        BY DEF Marks
      <4>1. CASE j = n + 1
        BY <4>1, <3>5, <3>1
      <4>2. CASE j # n + 1
        <5>1. j \in 1..n /\ j \in 1..Len(L)
          BY <4>2, <2>0
        <5>2. PICK q, other : q = L[j] /\ other = PolicyAt(L, L[j].revision)
          OBVIOUS
        <5>3. Observe(C, m, s, other, q) = s
          BY <5>1, <5>2, <2>2 DEF Marks
        <5>4. q.revision \in Nat
          BY <5>1, <5>2, <1>0 DEF PolicyLog, Range
        <5>5. Observe(C, m, t, other, q) = t
          BY ONLY <5>3, <5>4, <2>2, <3>2, <3>3, ObserveStable, Len(C) \in Nat, m \in Nat
        <5> QED BY <5>2, <5>5
      <4> QED BY <4>1, <4>2
    <3> QED BY <3>3, <3>4, <3>6, <2>0, <2>1, <2>2
  <2> QED BY <2>3, <2>4
<1> HIDE DEF S
<1>4. 0..Len(L) \subseteq S
  BY <1>0, <1>2, <1>3, Climb
<1> QED BY <1>4 DEF S, A

\* What the rebuilt observations are and say, with the emergency slot.
LEMMA SeenFacts ==
    ASSUME NEW L, PolicyLog(L), NEW C, Len(C) \in Nat, NEW m \in Nat,
           NEW b, b.kind = "policy" => b.revision \in Nat
    PROVE  LET s == SeenOf(L, C, m, b)
           IN  /\ Sound(C, m, s)
               /\ \A p \in Range(L) : p.kind = "policy" =>
                     Observe(C, m, s, PolicyAt(L, p.revision), p) = s
<1>0. Len(L) \in Nat /\ DOMAIN L = 1..Len(L)
  BY DEF PolicyLog, Framed
<1>1. PICK s, t : s = After(L, C, m, Len(L)) /\ t = SeenOf(L, C, m, b)
  OBVIOUS
<1>2. Sound(C, m, s) /\ Marks(L, C, m, s, Len(L))
  BY <1>0, <1>1, AfterSound
<1>3. ASSUME NEW p \in Range(L), p.kind = "policy"
      PROVE  Observe(C, m, s, PolicyAt(L, p.revision), p) = s /\ p.revision \in Nat
  BY <1>0, <1>2, <1>3 DEF Marks, PolicyLog, Range
<1>4. CASE b.kind # "policy"
  BY <1>1, <1>2, <1>3, <1>4 DEF SeenOf
<1>5. CASE b.kind = "policy"
  <2>1. PICK first : first = PolicyAt(L, b.revision)
    OBVIOUS
  <2>2. t = Observe(C, m, s, first, b)
    BY <1>1, <1>5, <2>1 DEF SeenOf
  <2>3. Sound(C, m, t)
    BY <1>2, <1>5, <2>2, ObserveSound
  <2>4. ASSUME NEW p \in Range(L), p.kind = "policy"
        PROVE  Observe(C, m, t, PolicyAt(L, p.revision), p) = t
    <3>1. PICK other : other = PolicyAt(L, p.revision)
      OBVIOUS
    <3>2. Observe(C, m, s, other, p) = s /\ p.revision \in Nat
      BY <1>3, <2>4, <3>1
    <3>3. b.revision \in Nat
      BY <1>5
    <3>4. Observe(C, m, t, other, p) = t
      BY ONLY <3>2, <3>3, <1>2, <2>2, ObserveStable, Len(C) \in Nat, m \in Nat
    <3> QED BY <3>1, <3>4
  <2> QED BY <1>1, <2>3, <2>4
<1> QED BY <1>4, <1>5

\* Every retained policy is committed, observed or fenced; two of one revision
\* are a fork.
LEMMA SeenSays ==
    ASSUME NEW L, PolicyLog(L), NEW C, Len(C) \in Nat, NEW m \in Nat,
           NEW b, b.kind = "policy" => b.revision \in Nat
    PROVE  LET s == SeenOf(L, C, m, b)
           IN  /\ \A p \in Range(L) : p.kind = "policy" =>
                     \/ s.forked
                     \/ s.overflow
                     \/ p \in s.observed
                     \/ p.revision \in 1..Len(C) /\ C[p.revision] = p
               /\ \A p, q \in Range(L) :
                     p.kind = "policy" /\ q.kind = "policy" /\ p.revision = q.revision /\ p # q
                        => s.forked
<1>1. PICK s : s = SeenOf(L, C, m, b)
  OBVIOUS
<1>2. /\ Sound(C, m, s)
      /\ \A p \in Range(L) : p.kind = "policy" => Observe(C, m, s, PolicyAt(L, p.revision), p) = s
  BY <1>1, SeenFacts
<1>3. ASSUME NEW p \in Range(L), p.kind = "policy"
      PROVE  \/ s.forked
             \/ s.overflow
             \/ p \in s.observed
             \/ p.revision \in 1..Len(C) /\ C[p.revision] = p
  <2>1. PICK first : first = PolicyAt(L, p.revision)
    OBVIOUS
  <2>2. Observe(C, m, s, first, p) = s /\ p.revision \in Nat \ {0}
    BY <1>2, <1>3, <2>1 DEF PolicyLog
  <2> QED BY ONLY <2>2, <1>2, ObservedFacts, Len(C) \in Nat, m \in Nat
<1>4. ASSUME NEW p \in Range(L), NEW q \in Range(L), p.kind = "policy", q.kind = "policy",
             p.revision = q.revision, p # q
      PROVE  s.forked
  <2>1. PICK first : first = PolicyAt(L, p.revision)
    OBVIOUS
  <2>2. first # Zero
    BY <1>4, <2>1, PolicyAtFacts DEF PolicyLog
  <2>3. Observe(C, m, s, first, p) = s /\ Observe(C, m, s, first, q) = s
    BY <1>2, <1>4, <2>1
  <2>4. first # p \/ first # q
    BY <1>4
  <2> QED BY ONLY <2>2, <2>3, <2>4, <1>2, ConflictForks
<1> QED BY <1>1, <1>3, <1>4

\* What was replayed of a log is what is replayed of it when it has grown.
LEMMA AfterAppend ==
    ASSUME NEW L, PolicyLog(L), NEW C, NEW m, NEW f, NEW n \in 0..Len(L)
    PROVE  After(Append(L, f), C, m, n) = After(L, C, m, n)
<1>m. PICK M : M = Append(L, f)
  OBVIOUS
<1> DEFINE A(k) == After(L, C, m, k)
           B(k) == After(M, C, m, k)
           S == {k \in 0..Len(L) : A(k) = B(k)}
<1>0. /\ Len(L) \in Nat /\ DOMAIN L = 1..Len(L) /\ Len(M) = Len(L) + 1
      /\ \A i \in 1..Len(L) : M[i] = L[i]
  BY <1>m DEF PolicyLog, Framed
<1>1. /\ A(0) = Unseen
      /\ \A k \in 1..Len(L) : A(k) = IF L[k].kind = "policy"
                                     THEN Observe(C, m, A(k - 1), PolicyAt(L, L[k].revision), L[k])
                                     ELSE A(k - 1)
  BY <1>0, AfterFacts
<1>2. /\ B(0) = Unseen
      /\ \A k \in 1..Len(M) : B(k) = IF M[k].kind = "policy"
                                     THEN Observe(C, m, B(k - 1), PolicyAt(M, M[k].revision), M[k])
                                     ELSE B(k - 1)
  <2>1. Len(M) \in Nat
    BY <1>0
  <2> QED BY ONLY <2>1, AfterFacts
<1> HIDE DEF A, B
<1>3. 0 \in S
  BY <1>0, <1>1, <1>2
<1>4. ASSUME NEW k \in 0..Len(L), k + 1 \in 0..Len(L), k \in S PROVE k + 1 \in S
  <2>0. k + 1 \in 1..Len(L) /\ k + 1 \in 1..Len(M) /\ (k + 1) - 1 = k /\ M[k + 1] = L[k + 1]
    BY <1>0, <1>4
  <2>1. A(k) = B(k)
    BY <1>4
  <2>2. L[k + 1].kind = "policy" =>
           PolicyAt(M, L[k + 1].revision) = PolicyAt(L, L[k + 1].revision)
    <3> SUFFICES ASSUME L[k + 1].kind = "policy"
                 PROVE  PolicyAt(M, L[k + 1].revision) = PolicyAt(L, L[k + 1].revision)
      OBVIOUS
    <3>1. L[k + 1] \in Range(L)
      BY <1>0, <2>0 DEF Range
    <3>2. PICK r : r = L[k + 1].revision
      OBVIOUS
    <3>3. PolicyAt(L, r) # Zero
      BY <3>1, <3>2, PolicyAtFacts DEF PolicyLog
    <3>4. PolicyAt(M, r) = PolicyAt(L, r)
      BY <1>m, <3>3, PolicyAtAppend DEF PolicyLog
    <3> QED BY <3>2, <3>4
  <2>3. A(k + 1) = B(k + 1)
    BY <1>1, <1>2, <2>0, <2>1, <2>2
  <2> QED BY <2>0, <2>3, <1>4
<1> HIDE DEF S
<1>5. 0..Len(L) \subseteq S
  BY <1>0, <1>3, <1>4, Climb
<1> QED BY <1>5, <1>m DEF S, A, B

\* A frame is retained while nothing waits in the emergency slot.
LEMMA SeenAppend ==
    ASSUME NEW L, PolicyLog(L), NEW C, NEW m, NEW f, NEW b, b.kind # "policy"
    PROVE  SeenOf(Append(L, f), C, m, b) =
              IF f.kind = "policy"
              THEN Observe(C, m, SeenOf(L, C, m, b), PolicyAt(Append(L, f), f.revision), f)
              ELSE SeenOf(L, C, m, b)
<1>1. PICK M : M = Append(L, f)
  OBVIOUS
<1>2. /\ Len(L) \in Nat /\ Len(M) = Len(L) + 1 /\ M[Len(L) + 1] = f
  BY <1>1 DEF PolicyLog, Framed
<1>3. After(M, C, m, Len(L)) = After(L, C, m, Len(L))
  <2>1. Len(L) \in 0..Len(L)
    BY <1>2
  <2> QED BY <1>1, <2>1, AfterAppend
<1>4. After(M, C, m, Len(L) + 1) =
         IF f.kind = "policy"
         THEN Observe(C, m, After(M, C, m, Len(L)), PolicyAt(M, f.revision), f)
         ELSE After(M, C, m, Len(L))
  <2>1. PICK n : n = Len(L) + 1 /\ n \in 1..Len(M) /\ n - 1 = Len(L)
    BY <1>2
  <2>2. After(M, C, m, n) = IF M[n].kind = "policy"
                            THEN Observe(C, m, After(M, C, m, n - 1), PolicyAt(M, M[n].revision), M[n])
                            ELSE After(M, C, m, n - 1)
    <3>1. Len(M) \in Nat
      BY <1>2
    <3> QED BY ONLY <3>1, <2>1, AfterFacts
  <2> QED BY <1>2, <2>1, <2>2
<1> QED BY <1>1, <1>2, <1>3, <1>4 DEF SeenOf

\* A policy that is retained again, or comes back from the emergency slot.
LEMMA SeenAgain ==
    ASSUME NEW L, PolicyLog(L), NEW C, Len(C) \in Nat, NEW m \in Nat,
           NEW p \in Range(L), p.kind = "policy", NEW b, b.kind # "policy"
    PROVE  /\ SeenOf(L, C, m, p) = SeenOf(L, C, m, b)
           /\ Observe(C, m, SeenOf(L, C, m, p), PolicyAt(L, p.revision), p) = SeenOf(L, C, m, b)
<1>1. PICK s, first : s = SeenOf(L, C, m, b) /\ first = PolicyAt(L, p.revision)
  OBVIOUS
<1>2. Observe(C, m, s, first, p) = s
  BY <1>1, SeenFacts
<1>3. SeenOf(L, C, m, p) = Observe(C, m, s, first, p)
  BY <1>1 DEF SeenOf
<1> QED BY <1>1, <1>2, <1>3

Without(s, p) == [s EXCEPT !.observed = @ \ {p}]

\* The next policy is committed: it is all that leaves the observations.
LEMMA CommitOne ==
    ASSUME NEW C, C \in Seq(Range(C)), NEW m \in Nat, NEW p, p.revision = Len(C) + 1,
           NEW s, Sound(C, m, s), NEW first, NEW q, q.revision \in Nat \ {0},
           q.revision = p.revision => first = p, first # Zero,
           NEW t, t = Observe(C, m, s, first, q), ~t.forked, ~t.overflow,
           NEW u, u = Without(s, p)
    PROVE  Observe(Append(C, p), m, u, first, q) = Without(t, p)
<1> USE DEF Without
<1>0. /\ Len(C) \in Nat /\ Len(Append(C, p)) = Len(C) + 1
      /\ \A i \in 1..Len(C) : Append(C, p)[i] = C[i]
      /\ Append(C, p)[Len(C) + 1] = p
  OBVIOUS
<1>1. s = [observed |-> s.observed, overflow |-> s.overflow, forked |-> s.forked]
      /\ s.forked \in BOOLEAN /\ s.overflow \in BOOLEAN
  BY DEF Sound
<1>2. Sound(C, m, t) /\ s.observed \subseteq t.observed
  BY <1>0, ObserveSound
<1>3. ~(first \notin {Zero, q} \/ (q.revision \in 1..Len(C) /\ C[q.revision] # q))
  <2> SUFFICES ASSUME first \notin {Zero, q} \/ (q.revision \in 1..Len(C) /\ C[q.revision] # q)
               PROVE  FALSE
    OBVIOUS
  <2>1. t = [s EXCEPT !.forked = TRUE]
    BY Zenon DEF Observe
  <2>2. t.forked = TRUE
    BY <2>1, <1>1
  <2> QED BY <2>2
<1>4. first = q
  BY <1>3
<1>5. PICK D : D = Append(C, p)
  OBVIOUS
<1>6. ~(first \notin {Zero, q} \/ (q.revision \in 1..Len(D) /\ D[q.revision] # q))
  <2>1. CASE q.revision = Len(C) + 1
    BY <1>0, <1>4, <1>5, <2>1
  <2>2. CASE q.revision # Len(C) + 1
    BY <1>0, <1>3, <1>5, <2>2
  <2> QED BY <2>1, <2>2
<1>7. PICK o, v, k : s = [observed |-> o, overflow |-> v, forked |-> k]
  BY <1>1
<1>8. u = [observed |-> o \ {p}, overflow |-> v, forked |-> k]
  BY ONLY <1>7, u = Without(s, p) DEF Without
<1>9. CASE q.revision <= Len(C)
  <2>1. t = s
    BY <1>3, <1>9 DEF Observe
  <2>2. q.revision <= Len(D)
    BY <1>0, <1>5, <1>9
  <2>3. Observe(D, m, u, first, q) = u
    BY <1>6, <2>2, Zenon DEF Observe
  <2> QED BY <2>1, <2>3, <1>5
<1>10. CASE ~(q.revision <= Len(C)) /\ q.revision = Len(C) + 1
  <2>1. q = p
    BY <1>4, <1>10
  <2>2. q.revision <= Len(D)
    BY <1>0, <1>5, <1>10
  <2>3. Observe(D, m, u, first, q) = u
    BY <1>6, <2>2, Zenon DEF Observe
  <2>4. \/ t = [s EXCEPT !.forked = @ \/ q \notin s.observed]
        \/ t = [s EXCEPT !.overflow = TRUE]
        \/ t = [s EXCEPT !.observed = @ \cup {q}]
    BY <1>3, <1>10, Zenon DEF Observe
  <2>5. CASE t = [s EXCEPT !.forked = @ \/ q \notin s.observed]
    <3>1. t = [observed |-> o, overflow |-> v, forked |-> k \/ q \notin o]
      BY ONLY <2>5, <1>7
    <3>2. (k \/ q \notin o) = k
      <4>1. PICK z : z = (k \/ q \notin o)
        OBVIOUS
      <4>2. t = [observed |-> o, overflow |-> v, forked |-> z]
        BY <3>1, <4>1, Zenon
      <4>3. t.forked = z
        BY ONLY <4>2
      <4>4. k \in BOOLEAN
        BY <1>1, <1>7
      <4> QED BY <4>1, <4>3, <4>4
    <3>3. t = s
      BY <3>1, <3>2, <1>7, Zenon
    <3> QED BY <2>3, <3>3, <1>5
  <2>6. CASE t = [s EXCEPT !.overflow = TRUE]
    <3>1. t.overflow = TRUE
      BY ONLY <2>6, <1>7
    <3> QED BY <3>1
  <2>7. CASE t = [s EXCEPT !.observed = @ \cup {q}]
    <3>1. t = [observed |-> o \cup {q}, overflow |-> v, forked |-> k]
      BY ONLY <2>7, <1>7
    <3>2. [t EXCEPT !.observed = @ \ {p}] = [observed |-> (o \cup {q}) \ {p}, overflow |-> v, forked |-> k]
      BY ONLY <3>1
    <3>3. (o \cup {q}) \ {p} = o \ {p}
      BY <2>1
    <3> QED BY <2>3, <3>2, <3>3, <1>8, <1>5
  <2> QED BY <2>4, <2>5, <2>6, <2>7
<1>11. CASE q.revision > Len(C) + 1
  <2>1. ~(q.revision <= Len(C)) /\ ~(q.revision <= Len(D)) /\ q # p /\ q.revision # p.revision
    BY <1>0, <1>5, <1>11
  <2>2. CASE \E x \in o : x.revision = q.revision
    <3>1. \E x \in o \ {p} : x.revision = q.revision
      BY <2>1, <2>2
    <3>2. t = [s EXCEPT !.forked = @ \/ q \notin s.observed]
      BY <1>3, <1>7, <2>1, <2>2, Zenon DEF Observe
    <3>3. t = [observed |-> o, overflow |-> v, forked |-> k \/ q \notin o]
      BY ONLY <3>2, <1>7
    <3>4. u.observed = o \ {p}
      BY <1>8
    <3>5. Observe(D, m, u, first, q) = [u EXCEPT !.forked = @ \/ q \notin u.observed]
      BY <1>6, <2>1, <3>1, <3>4, Zenon DEF Observe
    <3>6. Observe(D, m, u, first, q) =
             [observed |-> o \ {p}, overflow |-> v, forked |-> k \/ q \notin o \ {p}]
      BY ONLY <1>8, <3>4, <3>5
    <3>7. (k \/ q \notin o \ {p}) = (k \/ q \notin o)
      BY <2>1
    <3>8. [t EXCEPT !.observed = @ \ {p}]
             = [observed |-> o \ {p}, overflow |-> v, forked |-> k \/ q \notin o]
      <4>1. PICK z : z = (k \/ q \notin o)
        OBVIOUS
      <4>2. t = [observed |-> o, overflow |-> v, forked |-> z]
        BY <3>3, <4>1, Zenon
      <4>3. [t EXCEPT !.observed = @ \ {p}] = [observed |-> o \ {p}, overflow |-> v, forked |-> z]
        BY ONLY <4>2
      <4> QED BY <4>1, <4>3, Zenon
    <3> QED BY <3>6, <3>7, <3>8, <1>5, Zenon
  <2>3. CASE ~\E x \in o : x.revision = q.revision
    <3>1. Cardinality(o) # m
      <4> SUFFICES ASSUME Cardinality(o) = m PROVE FALSE
        OBVIOUS
      <4>1. t = [s EXCEPT !.overflow = TRUE]
        BY <1>3, <1>7, <2>1, <2>3, Zenon DEF Observe
      <4>2. t.overflow = TRUE
        BY ONLY <4>1, <1>7
      <4> QED BY <4>2
    <3>2. t = [s EXCEPT !.observed = @ \cup {q}]
      BY <1>3, <1>7, <2>1, <2>3, <3>1, Zenon DEF Observe
    <3>3. t = [observed |-> o \cup {q}, overflow |-> v, forked |-> k]
      BY ONLY <3>2, <1>7
    <3>4. Cardinality(o \ {p}) # m
      <4>1. IsFiniteSet(o) /\ Cardinality(o) <= m /\ Cardinality(o) \in Nat
        BY <1>7, FS_CardinalityType DEF Sound
      <4>2. Cardinality(o \ {p}) \in Nat /\ Cardinality(o \ {p}) <= Cardinality(o)
        BY <4>1, FS_Subset, FS_CardinalityType
      <4> QED BY <3>1, <4>1, <4>2
    <3>5. u.observed = o \ {p} /\ ~\E x \in u.observed : x.revision = q.revision
      BY <1>8, <2>3
    <3>6. Observe(D, m, u, first, q) = [u EXCEPT !.observed = @ \cup {q}]
      BY <1>6, <2>1, <3>4, <3>5, Zenon DEF Observe
    <3>7. Observe(D, m, u, first, q) = [observed |-> (o \ {p}) \cup {q}, overflow |-> v, forked |-> k]
      BY ONLY <1>8, <3>6
    <3>8. [t EXCEPT !.observed = @ \ {p}] = [observed |-> (o \cup {q}) \ {p}, overflow |-> v, forked |-> k]
      BY ONLY <3>3
    <3>9. (o \ {p}) \cup {q} = (o \cup {q}) \ {p}
      BY <2>1
    <3> QED BY <3>7, <3>8, <3>9, <1>5
  <2> QED BY <2>2, <2>3
<1> QED BY <1>0, <1>9, <1>10, <1>11

\* What is rebuilt after the next policy was closed is what was rebuilt before,
\* without that policy.
LEMMA SeenCommit ==
    ASSUME NEW L, PolicyLog(L), NEW C, C \in Seq(Range(C)), NEW m \in Nat,
           NEW p, p = PolicyAt(L, Len(C) + 1), p # Zero, NEW b, b.kind # "policy",
           ~SeenOf(L, C, m, b).forked, ~SeenOf(L, C, m, b).overflow
    PROVE  SeenOf(L, Append(C, p), m, b) = Without(SeenOf(L, C, m, b), p)
<1>1. PICK D : D = Append(C, p)
  OBVIOUS
<1> DEFINE A(k) == After(L, C, m, k)
           B(k) == After(L, D, m, k)
           S == {k \in 0..Len(L) : \/ A(k).forked \/ A(k).overflow
                                   \/ B(k) = Without(A(k), p)}
<1>2. Len(L) \in Nat /\ DOMAIN L = 1..Len(L) /\ Len(C) \in Nat
  BY DEF PolicyLog, Framed
<1>3. /\ A(0) = Unseen
      /\ \A n \in 1..Len(L) : A(n) = IF L[n].kind = "policy"
                                     THEN Observe(C, m, A(n - 1), PolicyAt(L, L[n].revision), L[n])
                                     ELSE A(n - 1)
  BY <1>2, AfterFacts
<1>4. /\ B(0) = Unseen
      /\ \A n \in 1..Len(L) : B(n) = IF L[n].kind = "policy"
                                     THEN Observe(D, m, B(n - 1), PolicyAt(L, L[n].revision), L[n])
                                     ELSE B(n - 1)
  BY <1>2, AfterFacts
<1>5. \A n \in 0..Len(L) : Sound(C, m, A(n))
  BY <1>2, AfterSound
<1> HIDE DEF A, B
<1>6. p.revision = Len(C) + 1
  BY PolicyAtFacts DEF PolicyLog
<1>7. 0 \in S
  <2>1. Without(Unseen, p) = Unseen
    <3>1. PICK o, v, k : /\ Unseen = [observed |-> o, overflow |-> v, forked |-> k]
                         /\ o = {}
      BY DEF Unseen
    <3>2. Without(Unseen, p) = [observed |-> o \ {p}, overflow |-> v, forked |-> k]
      BY ONLY <3>1 DEF Without
    <3>3. o \ {p} = o
      BY <3>1
    <3> QED BY <3>1, <3>2, <3>3
  <2> QED BY <1>2, <1>3, <1>4, <2>1
<1>8. ASSUME NEW k \in 0..Len(L), k + 1 \in 0..Len(L), k \in S PROVE k + 1 \in S
  <2>0. k + 1 \in 1..Len(L) /\ (k + 1) - 1 = k
    BY <1>2, <1>8
  <2>1. PICK s, t, u : s = A(k) /\ t = A(k + 1) /\ u = B(k)
    OBVIOUS
  <2>2. Sound(C, m, s)
    BY <1>5, <2>1
  <2>3. CASE L[k + 1].kind # "policy"
    <3>1. A(k + 1) = A(k) /\ B(k + 1) = B(k)
      BY <1>3, <1>4, <2>0, <2>3
    <3> QED BY <1>8, <3>1
  <2>4. CASE L[k + 1].kind = "policy"
    <3>1. PICK q, first : q = L[k + 1] /\ first = PolicyAt(L, q.revision)
      OBVIOUS
    <3>2. q \in Range(L) /\ q.kind = "policy" /\ q.revision \in Nat \ {0}
      <4>1. q \in Range(L)
        BY <1>2, <2>0, <3>1 DEF Range
      <4> QED BY <4>1, <2>4, <3>1 DEF PolicyLog
    <3>3. t = Observe(C, m, s, first, q) /\ B(k + 1) = Observe(D, m, u, first, q)
      BY <1>3, <1>4, <2>0, <2>1, <2>4, <3>1
    <3>4. s.forked => t.forked
      BY <1>2, <2>2, <3>2, <3>3, ObserveSound
    <3>5. s.overflow => t.overflow
      BY <1>2, <2>2, <3>2, <3>3, ObserveSound
    <3>6. CASE t.forked \/ t.overflow
      BY <3>6, <1>8, <2>1
    <3>7. CASE ~t.forked /\ ~t.overflow
      <4>1. u = Without(s, p)
        BY <1>8, <2>1, <3>4, <3>5, <3>7
      <4>2. first # Zero
        BY <3>1, <3>2, PolicyAtFacts DEF PolicyLog
      <4>3. q.revision = p.revision => first = p
        BY <1>6, <3>1
      <4>4. Observe(Append(C, p), m, u, first, q) = Without(t, p)
        BY ONLY <1>6, <2>2, <3>2, <3>3, <3>7, <4>1, <4>2, <4>3, CommitOne, m \in Nat, C \in Seq(Range(C))
      <4> QED BY <1>1, <1>8, <2>1, <3>3, <4>4
    <3> QED BY <3>6, <3>7
  <2> QED BY <2>3, <2>4
<1> HIDE DEF S
<1>9. 0..Len(L) \subseteq S
  BY <1>2, <1>7, <1>8, Climb
<1>10. SeenOf(L, C, m, b) = A(Len(L)) /\ SeenOf(L, D, m, b) = B(Len(L))
  BY DEF SeenOf, A, B
<1>11. Len(L) \in S
  BY <1>2, <1>9
<1> QED BY <1>1, <1>10, <1>11 DEF S

-----------------------------------------------------------------------------
(* What every state that satisfies the invariant says, and what a step may *)
(* do to the records.                                                      *)

\* The records, the limits and the closed policies have their types, and closed
\* policy i is the first retained policy of revision i.
LEMMA Basics ==
    ASSUME RoomInv
    PROVE  /\ PolicyLog(log) /\ room.observed \in Nat /\ room.created \in BOOLEAN
           /\ \A f \in room.offers : WellFormed(f)
           /\ committed \in Seq(Range(committed))
           /\ Len(committed) \in Nat /\ DOMAIN committed = 1..Len(committed)
           /\ \A i \in 1..Len(committed) :
                 /\ committed[i] = PolicyAt(log, i) /\ committed[i] # Zero
                 /\ committed[i] \in Range(log) /\ committed[i].kind = "policy"
                 /\ committed[i].revision = i
           /\ head.revision = Len(committed) /\ head.kind = "policy"
<1>1. PolicyLog(log)
  BY DEF RoomInv, Shapes, PolicyLog, Framed, WellFormed
<1>2. room \in Rooms
  BY DEF RoomInv, Shapes
<1>3. /\ room.observed \in Nat /\ room.created \in BOOLEAN
      /\ \A f \in room.offers : WellFormed(f)
  BY <1>2, RoomAssumption
<1>4. /\ committed \in Seq(Range(committed)) /\ Len(committed) \in Nat
      /\ DOMAIN committed = 1..Len(committed)
  BY DEF RoomInv, Shapes
<1>5. ASSUME NEW i \in 1..Len(committed)
      PROVE  /\ committed[i] = PolicyAt(log, i) /\ committed[i] # Zero
             /\ committed[i] \in Range(log) /\ committed[i].kind = "policy"
             /\ committed[i].revision = i
  <2>1. committed[i] = PolicyAt(log, i) /\ committed[i] # Zero
    BY <1>4, Indices DEF RoomInv, Closed
  <2> QED BY <2>1, <1>1, PolicyAtFacts DEF PolicyLog
<1>6. head.revision = Len(committed) /\ head.kind = "policy"
  <2>1. CASE committed = <<>>
    BY <2>1 DEF head, Genesis
  <2>2. CASE committed # <<>>
    <3>1. Len(committed) \in 1..Len(committed)
      BY <1>4, <2>2
    <3>2. committed[Len(committed)].revision = Len(committed)
          /\ committed[Len(committed)].kind = "policy"
      BY <1>5, <3>1
    <3> QED BY <3>2, <2>2 DEF head
  <2> QED BY <2>1, <2>2
<1> QED BY <1>1, <1>3, <1>4, <1>5, <1>6

IsImage(i) == i = [event |-> i.event, policy |-> i.policy, authorLost |-> i.authorLost,
                   ownerLost |-> i.ownerLost, blocked |-> i.blocked]

GoodImage(i) == /\ IsImage(i) /\ i.authorLost \in BOOLEAN /\ i.ownerLost \in BOOLEAN
                /\ i.blocked = Zero \/ WellFormed(i.blocked)

\* One field of the image at a time.
LEMMA ImageExcept ==
    ASSUME NEW i, IsImage(i), NEW x
    PROVE  /\ [i EXCEPT !.event = x] =
                 [event |-> x, policy |-> i.policy, authorLost |-> i.authorLost,
                  ownerLost |-> i.ownerLost, blocked |-> i.blocked]
           /\ [i EXCEPT !.policy = x] =
                 [event |-> i.event, policy |-> x, authorLost |-> i.authorLost,
                  ownerLost |-> i.ownerLost, blocked |-> i.blocked]
           /\ [i EXCEPT !.authorLost = x] =
                 [event |-> i.event, policy |-> i.policy, authorLost |-> x,
                  ownerLost |-> i.ownerLost, blocked |-> i.blocked]
           /\ [i EXCEPT !.ownerLost = x] =
                 [event |-> i.event, policy |-> i.policy, authorLost |-> i.authorLost,
                  ownerLost |-> x, blocked |-> i.blocked]
           /\ [i EXCEPT !.blocked = x] =
                 [event |-> i.event, policy |-> i.policy, authorLost |-> i.authorLost,
                  ownerLost |-> i.ownerLost, blocked |-> x]
<1>1. PICK e, p, a, o, b : i = [event |-> e, policy |-> p, authorLost |-> a, ownerLost |-> o, blocked |-> b]
  BY DEF IsImage
<1> QED BY ONLY <1>1

\* The marks of lost custody are all that Retain changes in the image.
LEMMA MarkedFacts ==
    ASSUME RoomInv, NEW f
    PROVE  /\ IsImage(Marked(f))
           /\ Marked(f).event = image.event /\ Marked(f).policy = image.policy
           /\ Marked(f).blocked = image.blocked
           /\ Marked(f).authorLost \in BOOLEAN /\ Marked(f).ownerLost \in BOOLEAN
           /\ Marked(f).authorLost <=> image.authorLost \/ (f.kind = "event" /\ Lost(f))
           /\ Marked(f).ownerLost <=> image.ownerLost \/ (f.kind # "event" /\ Lost(f))
<1>1. IsImage(image) /\ image.authorLost \in BOOLEAN /\ image.ownerLost \in BOOLEAN
  BY DEF RoomInv, Shapes, IsImage
<1>2. PICK yes : yes = TRUE
  OBVIOUS
<1>3. CASE ~Lost(f)
  BY <1>1, <1>3 DEF Marked
<1>4. CASE Lost(f) /\ f.kind = "event"
  <2>1. Marked(f) = [image EXCEPT !.authorLost = yes]
    BY <1>2, <1>4 DEF Marked
  <2>2. Marked(f) = [event |-> image.event, policy |-> image.policy, authorLost |-> yes,
                     ownerLost |-> image.ownerLost, blocked |-> image.blocked]
    BY <2>1, <1>1, ImageExcept
  <2>3. /\ IsImage(Marked(f))
        /\ Marked(f).event = image.event /\ Marked(f).policy = image.policy
        /\ Marked(f).blocked = image.blocked
        /\ Marked(f).authorLost = yes /\ Marked(f).ownerLost = image.ownerLost
    BY ONLY <2>2 DEF IsImage
  <2> QED BY <2>3, <1>1, <1>2, <1>4
<1>5. CASE Lost(f) /\ f.kind # "event"
  <2>1. Marked(f) = [image EXCEPT !.ownerLost = yes]
    BY <1>2, <1>5 DEF Marked
  <2>2. Marked(f) = [event |-> image.event, policy |-> image.policy, authorLost |-> image.authorLost,
                     ownerLost |-> yes, blocked |-> image.blocked]
    BY <2>1, <1>1, ImageExcept
  <2>3. /\ IsImage(Marked(f))
        /\ Marked(f).event = image.event /\ Marked(f).policy = image.policy
        /\ Marked(f).blocked = image.blocked
        /\ Marked(f).authorLost = image.authorLost /\ Marked(f).ownerLost = yes
    BY ONLY <2>2 DEF IsImage
  <2> QED BY <2>3, <1>1, <1>2, <1>5
<1> QED BY <1>3, <1>4, <1>5

\* What the session is about to sign is reserved and not finished.
LEMMA TodoFacts ==
    ASSUME RoomInv, pc = "finish", todo # <<>>
    PROVE  /\ Head(todo) \in Pending /\ Head(todo) \in DOMAIN reserved
           /\ \/ Tail(todo) = <<>>
              \/ /\ Head(todo) = image.event /\ Tail(todo) = <<image.policy>>
                 /\ image.policy \in Pending /\ image.policy # image.event
           /\ reserved[Head(todo)] \in Range(reserved)
           /\ WellFormed(reserved[Head(todo)])
           /\ IF reserved[Head(todo)].kind = "event"
              THEN /\ Head(todo) = image.event /\ Head(todo) \in room.texts
                   /\ reserved[Head(todo)].author = Me
              ELSE /\ Head(todo) = image.policy /\ Head(todo) \notin room.texts
                   /\ reserved[Head(todo)].kind = "policy"
<1>1. room \in Rooms
  BY DEF RoomInv, Shapes
<1>2. room.texts \cap DOMAIN room.lists = {} /\ None \notin room.texts \cup DOMAIN room.lists
  BY <1>1, RoomAssumption
<1>3. /\ image.event \in (Pending \cap room.texts) \cup {None}
      /\ image.policy \in (Pending \cap DOMAIN room.lists) \cup {None}
      /\ Pending \subseteq {image.event, image.policy}
      /\ DOMAIN reserved \subseteq Ops
      /\ \A op \in DOMAIN reserved :
            /\ WellFormed(reserved[op])
            /\ IF op \in room.texts THEN reserved[op].kind = "event" /\ reserved[op].author = Me
               ELSE reserved[op].kind = "policy"
  BY DEF RoomInv, Reservations
<1>4. \/ \E op \in Pending : todo = <<op>>
      \/ /\ image.event # None /\ image.policy # None
         /\ todo = <<image.event, image.policy>>
  BY DEF RoomInv, Todo
<1>5. /\ Head(todo) \in Pending
      /\ \/ Tail(todo) = <<>>
         \/ /\ Head(todo) = image.event /\ Tail(todo) = <<image.policy>>
            /\ image.policy \in Pending /\ image.policy # image.event
  <2>1. CASE \E op \in Pending : todo = <<op>>
    BY <2>1
  <2>2. CASE image.event # None /\ image.policy # None /\ todo = <<image.event, image.policy>>
    <3>1. Head(todo) = image.event /\ Tail(todo) = <<image.policy>>
      BY <2>2
    <3> QED BY <3>1, <2>2, <1>2, <1>3
  <2> QED BY <1>4, <2>1, <2>2
<1>6. PICK op : op = Head(todo)
  OBVIOUS
<1>7. op \in Pending /\ op \in DOMAIN reserved
  BY <1>5, <1>6 DEF Pending
<1>8. reserved[op] \in Range(reserved)
  BY <1>7 DEF Range
<1>9. IF reserved[op].kind = "event"
      THEN op = image.event /\ op \in room.texts /\ reserved[op].author = Me
      ELSE op = image.policy /\ op \notin room.texts /\ reserved[op].kind = "policy"
  <2>1. op \in Ops /\ op \in {image.event, image.policy}
    BY <1>3, <1>7
  <2>2. CASE op \in room.texts
    <3>1. op # image.policy
      BY <1>2, <1>3, <2>2
    <3> QED BY <1>3, <1>7, <2>1, <2>2, <3>1
  <2>3. CASE op \notin room.texts
    <3>1. op # image.event
      BY <1>2, <1>3, <2>1, <2>3 DEF Ops
    <3>2. reserved[op].kind = "policy"
      BY <1>3, <1>7, <2>3
    <3> QED BY <2>1, <2>3, <3>1, <3>2
  <2> QED BY <2>2, <2>3
<1> QED BY <1>3, <1>5, <1>6, <1>7, <1>8, <1>9

\* The log changes only in that one new frame is appended.
LEMMA LogStep ==
    ASSUME RoomInv, [Next]_vars
    PROVE  /\ room' = room
           /\ \/ log' = log
              \/ \E f : WellFormed(f) /\ f \notin Range(log) /\ log' = Append(log, f)
<1> DEFINE P == /\ room' = room
                /\ \/ log' = log
                   \/ \E f : WellFormed(f) /\ f \notin Range(log) /\ log' = Append(log, f)
<1>1. ASSUME NEW op, send(op) PROVE P
  BY <1>1 DEF send, Reserve, disk
<1>2. ASSUME NEW op, set_writers(op) PROVE P
  BY <1>2 DEF set_writers, Reserve, disk
<1>3. ASSUME NEW f \in room.offers, receive(f) PROVE P
  <2>1. WellFormed(f)
    BY Basics
  <2> QED BY <1>3, <2>1 DEF receive, Retain, capacity_fence
<1>4. ASSUME reconcile PROVE P
  BY <1>4 DEF reconcile, disk
<1>5. ASSUME expand_limits PROVE P
  <2>1. image.blocked = Zero \/ WellFormed(image.blocked)
    BY DEF RoomInv, Shapes
  <2>2. room' = room
    BY <1>5 DEF expand_limits
  <2>3. \/ log' = log
        \/ image.blocked # Zero /\ image.blocked \notin Range(log) /\ Retain(image.blocked)
    BY <1>5, Zenon DEF expand_limits
  <2> QED BY <2>1, <2>2, <2>3 DEF Retain
<1>6. ASSUME finish_reserved PROVE P
  <2>1. pc = "finish" /\ todo # <<>> /\ room' = room
    BY <1>6 DEF finish_reserved
  <2>2. WellFormed(reserved[Head(todo)])
    BY <2>1, TodoFacts
  <2>3. log' = IF reserved[Head(todo)] \in Range(log) THEN log ELSE Append(log, reserved[Head(todo)])
    BY <1>6, Zenon DEF finish_reserved
  <2> QED BY <2>1, <2>2, <2>3
<1>7. ASSUME finish_refused \/ finished \/ prepare_replay \/ advance_policy PROVE P
  BY <1>7, Zenon DEF finish_refused, finished, prepare_replay, advance_policy, disk
<1>8. ASSUME commit_policy \/ policies_done \/ next_author \/ authors_done PROVE P
  BY <1>8, Zenon DEF commit_policy, policies_done, next_author, authors_done, disk
<1>9. ASSUME anchor_ready \/ anchor_frame \/ chain_frame \/ scan_frame \/ author_done PROVE P
  BY <1>9, Zenon DEF anchor_ready, anchor_frame, chain_frame, scan_frame, author_done, Becomes, disk
<1>10. ASSUME open \/ Crash \/ sign_and_die PROVE P
  BY <1>10, Zenon DEF open, Crash, sign_and_die, disk
<1>11. ASSUME UNCHANGED vars PROVE P
  BY <1>11 DEF vars, disk
<1> HIDE DEF P
<1>12. P
  BY <1>1, <1>2, <1>3, <1>4, <1>5, <1>6, <1>7, <1>8, <1>9, <1>10, <1>11, Zenon DEF Next, Step
<1> QED BY <1>12 DEF P

\* No event has sequence zero.
LEMMA NoFirst ==
    ASSUME NEW L, Framed(L), \A f \in Range(L) : WellFormed(f), NEW a
    PROVE  EventAt(L, a, 0) = Zero
<1>1. \A f \in Range(L) : ~(f.kind = "event" /\ f.sequence = 0)
  BY DEF WellFormed
<1> QED BY <1>1, EventAtFacts

\* What the log says once it says for ever.
LEMMA Growth ==
    ASSUME RoomInv, [Next]_vars
    PROVE  /\ PolicyLog(log') /\ \A f \in Range(log') : WellFormed(f)
           /\ Range(log) \subseteq Range(log')
           /\ \A a, n : EventAt(log, a, n) # Zero => EventAt(log', a, n) = EventAt(log, a, n)
           /\ \A r : PolicyAt(log, r) # Zero => PolicyAt(log', r) = PolicyAt(log, r)
           /\ \A a : EventAt(log, a, 0) = Zero /\ EventAt(log', a, 0) = Zero
<1>1. PolicyLog(log) /\ \A f \in Range(log) : WellFormed(f)
  BY Basics DEF RoomInv, Shapes
<1>2. CASE log' = log
  <2>1. \A a : EventAt(log, a, 0) = Zero
    BY <1>1, NoFirst DEF PolicyLog
  <2> QED BY <1>1, <1>2, <2>1
<1>3. ASSUME NEW f, WellFormed(f), log' = Append(log, f)
      PROVE  /\ PolicyLog(log') /\ \A g \in Range(log') : WellFormed(g)
             /\ Range(log) \subseteq Range(log')
             /\ \A a, n : EventAt(log, a, n) # Zero => EventAt(log', a, n) = EventAt(log, a, n)
             /\ \A r : PolicyAt(log, r) # Zero => PolicyAt(log', r) = PolicyAt(log, r)
             /\ \A a : EventAt(log, a, 0) = Zero /\ EventAt(log', a, 0) = Zero
  <2>1. PICK L, M : L = log /\ M = Append(L, f) /\ M = log'
    BY <1>3
  <2>2. Framed(L) /\ f.kind \in {"event", "policy"}
    BY <1>1, <1>3, <2>1 DEF PolicyLog, WellFormed
  <2>3. Framed(M) /\ Range(M) = Range(L) \cup {f}
    <3>1. Framed(Append(L, f)) /\ Range(Append(L, f)) = Range(L) \cup {f}
      BY ONLY <2>2, FramedAppend
    <3> QED BY <2>1, <3>1
  <2>4. \A g \in Range(M) : WellFormed(g)
    BY <1>1, <1>3, <2>1, <2>3
  <2>5. PolicyLog(M)
    BY <2>3, <2>4 DEF PolicyLog, WellFormed
  <2>6. ASSUME NEW a, NEW n, EventAt(L, a, n) # Zero PROVE EventAt(M, a, n) = EventAt(L, a, n)
    BY <2>1, <2>2, <2>6, EventAtAppend
  <2>7. ASSUME NEW r, PolicyAt(L, r) # Zero PROVE PolicyAt(M, r) = PolicyAt(L, r)
    BY <2>1, <2>2, <2>7, PolicyAtAppend
  <2>8. \A a : EventAt(L, a, 0) = Zero /\ EventAt(M, a, 0) = Zero
    BY <1>1, <2>1, <2>2, <2>3, <2>4, NoFirst
  <2> QED BY <2>1, <2>3, <2>4, <2>5, <2>6, <2>7, <2>8
<1> QED BY <1>2, <1>3, LogStep

\* A linked chain stays linked.
LEMMA LinkedStays ==
    ASSUME RoomInv, [Next]_vars, NEW a, NEW n \in Nat, Linked(a, n)
    PROVE  /\ Linked(a, n)'
           /\ \A k \in 0..n : indexed_event(a, k)' = indexed_event(a, k)
<1>1. \A k \in 1..n : EventAt(log, a, k) # Zero /\ EventAt(log, a, k).previous = EventAt(log, a, k - 1)
  BY Indices DEF Linked
<1>2. ASSUME NEW k \in 0..n PROVE EventAt(log', a, k) = EventAt(log, a, k)
  <2>1. CASE k = 0
    BY <2>1, Growth
  <2>2. CASE k # 0
    BY <1>1, <2>2, Growth
  <2> QED BY <2>1, <2>2
<1>3. \A k : indexed_event(a, k) = EventAt(log, a, k)
  BY Indices
<1>4. \A k : indexed_event(a, k)' = EventAt(log', a, k)
  BY Indices
<1>5. \A k \in 1..n : EventAt(log', a, k) # Zero /\ EventAt(log', a, k).previous = EventAt(log', a, k - 1)
  BY <1>1, <1>2
<1>6. Linked(a, n)'
  BY <1>4, <1>5 DEF Linked
<1> QED BY <1>2, <1>3, <1>4, <1>6

\* RebuiltSeen after a step.
LEMMA RebuiltNext ==
    RebuiltSeen' = SeenOf(log', committed', room'.observed, image'.blocked)
<1>1. RebuiltSeen = SeenOf(log, committed, room.observed, image.blocked)
  BY Observations
<1>2. (RebuiltSeen = SeenOf(log, committed, room.observed, image.blocked))'
  BY <1>1, PTL
<1> QED BY <1>2

\* The committed policies change only in that the replayed one is appended.
LEMMA CommitStep ==
    ASSUME [Next]_vars
    PROVE  \/ committed' = committed
           \/ /\ commit_policy /\ Fits(2, TRUE)
              /\ committed' = Append(committed, replay.update)
<1> DEFINE P == \/ committed' = committed
                \/ /\ commit_policy /\ Fits(2, TRUE)
                   /\ committed' = Append(committed, replay.update)
<1>1. ASSUME NEW op, send(op) \/ set_writers(op) PROVE P
  BY <1>1 DEF send, set_writers, Reserve, disk
<1>2. ASSUME NEW f, receive(f) PROVE P
  BY <1>2 DEF receive
<1>3. ASSUME reconcile \/ expand_limits \/ finish_reserved PROVE P
  BY <1>3, Zenon DEF reconcile, expand_limits, finish_reserved, disk
<1>4. ASSUME finish_refused \/ finished \/ prepare_replay \/ advance_policy PROVE P
  BY <1>4, Zenon DEF finish_refused, finished, prepare_replay, advance_policy, disk
<1>5. ASSUME policies_done \/ next_author \/ authors_done PROVE P
  BY <1>5, Zenon DEF policies_done, next_author, authors_done, disk
<1>6. ASSUME anchor_ready \/ anchor_frame \/ chain_frame \/ scan_frame \/ author_done PROVE P
  BY <1>6, Zenon DEF anchor_ready, anchor_frame, chain_frame, scan_frame, author_done, Becomes, disk
<1>7. ASSUME open \/ Crash \/ sign_and_die PROVE P
  BY <1>7, Zenon DEF open, Crash, sign_and_die, disk
<1>8. ASSUME UNCHANGED vars PROVE P
  BY <1>8 DEF vars, disk
<1>9. ASSUME commit_policy PROVE P
  BY <1>9, Zenon DEF commit_policy
<1> HIDE DEF P
<1>10. P
  BY <1>1, <1>2, <1>3, <1>4, <1>5, <1>6, <1>7, <1>8, <1>9, Zenon DEF Next, Step
<1> QED BY <1>10 DEF P

\* What may happen to the image.
ImageMoves ==
    \/ image' = image
    \/ \E op : image' = [image EXCEPT !.event = op]
    \/ \E op : image' = [image EXCEPT !.policy = op]
    \/ \E f : image' = Marked(f)
    \/ \E f : image' = [Marked(f) EXCEPT !.blocked = Zero]
    \/ \E f : (f = Zero \/ WellFormed(f)) /\ image' = [image EXCEPT !.blocked = f]

\* The image changes in one of these ways.
LEMMA ImageStep ==
    ASSUME RoomInv, [Next]_vars
    PROVE  ImageMoves
<1>1. ASSUME NEW op, send(op) \/ set_writers(op) PROVE ImageMoves
  BY <1>1 DEF send, set_writers, Reserve, disk, ImageMoves
<1>2. ASSUME NEW f \in room.offers, receive(f) PROVE ImageMoves
  BY <1>2, Basics DEF receive, capacity_fence, ImageMoves
<1>3. ASSUME expand_limits PROVE ImageMoves
  <2>1. \/ image' = image
        \/ image' = [image EXCEPT !.blocked = Zero]
        \/ image' = [Marked(image.blocked) EXCEPT !.blocked = Zero]
    BY <1>3, Zenon DEF expand_limits
  <2> QED BY <2>1 DEF ImageMoves
<1>4. ASSUME finish_reserved PROVE ImageMoves
  <2>1. image' = [image EXCEPT !.event = None] \/ image' = [image EXCEPT !.policy = None]
    BY <1>4, Zenon DEF finish_reserved
  <2> QED BY <2>1 DEF ImageMoves
<1>5. ASSUME commit_policy PROVE ImageMoves
  <2>1. replay # NoReplay
    BY <1>5 DEF commit_policy, Blockless
  <2>2. replay.update = PolicyAt(log, head.revision + 1) /\ replay.update # Zero
    BY <2>1, Indices DEF RoomInv, Replaying, Next1
  <2>3. replay.update \in Range(log)
    BY <2>2, Basics, PolicyAtFacts DEF PolicyLog
  <2>4. WellFormed(replay.update)
    BY <2>3 DEF RoomInv, Shapes
  <2>5. image' = image \/ image' = [image EXCEPT !.blocked = replay.update]
    BY <1>5, Zenon DEF commit_policy, capacity_fence
  <2> QED BY <2>4, <2>5 DEF ImageMoves
<1>6. ASSUME reconcile \/ finish_refused \/ finished \/ prepare_replay \/ advance_policy
      PROVE  ImageMoves
  <2>1. image' = image
    BY <1>6, Zenon DEF reconcile, finish_refused, finished, prepare_replay, advance_policy, disk
  <2> QED BY <2>1 DEF ImageMoves
<1>7. ASSUME policies_done \/ next_author \/ authors_done PROVE ImageMoves
  <2>1. image' = image
    BY <1>7, Zenon DEF policies_done, next_author, authors_done, disk
  <2> QED BY <2>1 DEF ImageMoves
<1>8. ASSUME anchor_ready \/ anchor_frame \/ chain_frame \/ scan_frame \/ author_done
      PROVE  ImageMoves
  <2>1. image' = image
    BY <1>8, Zenon DEF anchor_ready, anchor_frame, chain_frame, scan_frame, author_done, Becomes, disk
  <2> QED BY <2>1 DEF ImageMoves
<1>9. ASSUME open \/ Crash \/ sign_and_die \/ UNCHANGED vars PROVE ImageMoves
  <2>1. image' = image
    BY <1>9, Zenon DEF open, Crash, sign_and_die, disk, vars
  <2> QED BY <2>1 DEF ImageMoves
<1> QED BY <1>1, <1>2, <1>3, <1>4, <1>5, <1>6, <1>7, <1>8, <1>9, Zenon DEF Next, Step

\* Only receive_event and observe_policy witness a frame.
LEMMA WitnessStep ==
    ASSUME [Next]_vars
    PROVE  \/ witnessed' = witnessed
           \/ \E f \in room.offers : receive(f) /\ witnessed' = witnessed \cup {f}
<1> DEFINE P == \/ witnessed' = witnessed
                \/ \E f \in room.offers : receive(f) /\ witnessed' = witnessed \cup {f}
<1>1. ASSUME NEW op, send(op) \/ set_writers(op) PROVE P
  BY <1>1 DEF send, set_writers, Reserve, ghosts
<1>2. ASSUME NEW f \in room.offers, receive(f) PROVE P
  BY <1>2 DEF receive
<1>3. ASSUME reconcile \/ expand_limits \/ finish_reserved PROVE P
  BY <1>3, Zenon DEF reconcile, expand_limits, finish_reserved, ghosts
<1>4. ASSUME finish_refused \/ finished \/ prepare_replay \/ advance_policy PROVE P
  BY <1>4, Zenon DEF finish_refused, finished, prepare_replay, advance_policy, ghosts
<1>5. ASSUME policies_done \/ next_author \/ authors_done \/ commit_policy PROVE P
  BY <1>5, Zenon DEF policies_done, next_author, authors_done, commit_policy, ghosts
<1>6. ASSUME anchor_ready \/ anchor_frame \/ chain_frame \/ scan_frame \/ author_done PROVE P
  BY <1>6, Zenon DEF anchor_ready, anchor_frame, chain_frame, scan_frame, author_done, Becomes, ghosts
<1>7. ASSUME open \/ Crash \/ sign_and_die PROVE P
  BY <1>7, Zenon DEF open, Crash, sign_and_die, ghosts
<1>8. ASSUME UNCHANGED vars PROVE P
  BY <1>8 DEF vars, ghosts
<1> HIDE DEF P
<1>9. P
  BY <1>1, <1>2, <1>3, <1>4, <1>5, <1>6, <1>7, <1>8, Zenon DEF Next, Step
<1> QED BY <1>9 DEF P

\* The invariant's shapes are kept.
LEMMA ShapesStep ==
    ASSUME RoomInv, [Next]_vars
    PROVE  Shapes'
<1>1. room' \in Rooms /\ room' = room
  BY LogStep DEF RoomInv, Shapes
<1>2. pc' \in {"idle", "closed", "finish", "policies", "authors"}
  <2> DEFINE P == pc' \in {"idle", "closed", "finish", "policies", "authors"}
  <2>0. pc \in {"idle", "closed", "finish", "policies", "authors"}
    BY DEF RoomInv, Shapes
  <2>1. ASSUME NEW op, send(op) \/ set_writers(op) PROVE P
    BY <2>1 DEF send, set_writers, Reserve
  <2>2. ASSUME NEW f, receive(f) PROVE P
    BY <2>2 DEF receive, GoApply, Return
  <2>3. ASSUME reconcile \/ expand_limits \/ finish_reserved PROVE P
    BY <2>0, <2>3, Zenon DEF reconcile, expand_limits, finish_reserved, GoApply, Return
  <2>4. ASSUME finish_refused \/ finished \/ prepare_replay \/ advance_policy PROVE P
    BY <2>0, <2>4, Zenon DEF finish_refused, finished, prepare_replay, advance_policy, GoApply, Return
  <2>5. ASSUME commit_policy \/ policies_done \/ next_author \/ authors_done PROVE P
    BY <2>0, <2>5, Zenon DEF commit_policy, policies_done, next_author, authors_done, Return
  <2>6. ASSUME anchor_ready \/ anchor_frame \/ chain_frame \/ scan_frame \/ author_done PROVE P
    BY <2>0, <2>6, Zenon DEF anchor_ready, anchor_frame, chain_frame, scan_frame, author_done, Becomes
  <2>7. ASSUME open \/ Crash \/ sign_and_die PROVE P
    BY <2>7 DEF open, Crash, sign_and_die, Die
  <2>8. ASSUME UNCHANGED vars PROVE P
    BY <2>0, <2>8 DEF vars
  <2> HIDE DEF P
  <2>9. P
    BY <2>1, <2>2, <2>3, <2>4, <2>5, <2>6, <2>7, <2>8, Zenon DEF Next, Step
  <2> QED BY <2>9 DEF P
<1>3. log' \in Seq(Range(log')) /\ \A f \in Range(log') : WellFormed(f)
  BY Growth DEF PolicyLog, Framed
<1>4. committed' \in Seq(Range(committed'))
  <2>1. CASE committed' = committed
    BY <2>1 DEF RoomInv, Shapes
  <2>2. CASE committed' = Append(committed, replay.update)
    <3>1. PICK C, p : C = committed /\ p = replay.update
      OBVIOUS
    <3>2. C \in Seq(Range(C)) /\ Len(C) \in Nat /\ DOMAIN C = 1..Len(C)
      BY <3>1, Basics
    <3>3. Append(C, p) \in Seq(Range(Append(C, p)))
      BY <3>2, AppendFacts
    <3> QED BY <2>2, <3>1, <3>3
  <2> QED BY <2>1, <2>2, CommitStep
<1>5. GoodImage(image')
  <2>0. GoodImage(image) /\ IsImage(image)
    BY DEF RoomInv, Shapes, IsImage, GoodImage
  <2>1. CASE image' = image
    BY <2>0, <2>1
  <2>2. ASSUME NEW op, image' = [image EXCEPT !.event = op] \/ image' = [image EXCEPT !.policy = op]
        PROVE  GoodImage(image')
    BY <2>0, <2>2, ImageExcept DEF IsImage, GoodImage
  <2>3. ASSUME NEW f, image' = Marked(f) PROVE GoodImage(image')
    BY <2>0, <2>3, MarkedFacts DEF GoodImage
  <2>4. ASSUME NEW f, image' = [Marked(f) EXCEPT !.blocked = Zero] PROVE GoodImage(image')
    <3>1. PICK i : i = Marked(f)
      OBVIOUS
    <3>2. GoodImage(i) /\ IsImage(i)
      BY <2>0, <3>1, MarkedFacts DEF GoodImage
    <3>3. image' = [i EXCEPT !.blocked = Zero]
      BY <2>4, <3>1
    <3> QED BY <3>2, <3>3, ImageExcept DEF IsImage, GoodImage
  <2>5. ASSUME NEW f, f = Zero \/ WellFormed(f), image' = [image EXCEPT !.blocked = f]
        PROVE  GoodImage(image')
    BY <2>0, <2>5, ImageExcept DEF IsImage, GoodImage
  <2> QED BY <2>1, <2>2, <2>3, <2>4, <2>5, ImageStep DEF ImageMoves
<1>6. \A f \in witnessed' : WellFormed(f)
  <2>1. \A f \in witnessed : WellFormed(f)
    BY DEF RoomInv, Shapes
  <2> QED BY <2>1, Basics, WitnessStep
<1> QED BY <1>1, <1>2, <1>3, <1>4, <1>5, <1>6 DEF Shapes, IsImage, GoodImage

-----------------------------------------------------------------------------
(* Reservations, signatures and custody.                                   *)

NewEvent(op) ==
    [kind |-> "event", author |-> Me, sequence |-> cache[Me].head.sequence + 1,
     previous |-> cache[Me].head, policy |-> head, text |-> op]
NewPolicy(op) ==
    [kind |-> "policy", revision |-> head.revision + 1, previous |-> head,
     writers |-> room.lists[op], seals |-> current_seals]

\* A new reservation, by send and by set_writers.
Sends(op) ==
    /\ op \in room.texts /\ op \notin DOMAIN reserved /\ op \notin completed
    /\ pc = "idle" /\ writable(FALSE) /\ image.event = None /\ MayAuthor
    /\ cache[Me].head.sequence < MaxSeq
    /\ Reserve(op, NewEvent(op), FALSE)
Changes(op) ==
    /\ op \in DOMAIN room.lists /\ op \notin DOMAIN reserved /\ op \notin completed
    /\ pc = "idle" /\ room.created /\ writable(TRUE) /\ image.policy = None
    /\ seen.observed = {}
    /\ \A a \in head.writers : Settled(cache[a])
    /\ Reserve(op, NewPolicy(op), TRUE)

\* Nothing happens to the reservations, but what is reserved may be signed.
Quiet ==
    /\ reserved' = reserved /\ completed' = completed
    /\ image'.event = image.event /\ image'.policy = image.policy
    /\ signed' \subseteq Range(reserved)

\* Reservations are made by send and set_writers, finished by finish_reserved,
\* and left alone by everything else.
LEMMA ReservedStep ==
    ASSUME RoomInv, [Next]_vars
    PROVE  \/ \E op \in room.texts : Sends(op)
           \/ \E op \in DOMAIN room.lists : Changes(op)
           \/ finish_reserved
           \/ Quiet
<1> DEFINE P == \/ \E op \in room.texts : Sends(op)
                \/ \E op \in DOMAIN room.lists : Changes(op)
                \/ finish_reserved
                \/ Quiet
<1>0. /\ signed \subseteq Range(reserved) /\ IsImage(image)
  BY DEF RoomInv, Reservations, Shapes, IsImage
<1>1. ASSUME NEW op \in room.texts, send(op) PROVE P
  <2>1. CASE op \in DOMAIN reserved
    <3>1. UNCHANGED <<disk, ghosts>>
      BY <1>1, <2>1 DEF send
    <3> QED BY <1>0, <3>1 DEF disk, ghosts, Quiet
  <2>2. CASE op \notin DOMAIN reserved
    <3>1. Sends(op)
      BY <1>1, <2>2 DEF send, Sends, NewEvent
    <3> QED BY <3>1
  <2> QED BY <2>1, <2>2
<1>2. ASSUME NEW op \in DOMAIN room.lists, set_writers(op) PROVE P
  <2>1. CASE op \in DOMAIN reserved
    <3>1. UNCHANGED <<disk, ghosts>>
      BY <1>2, <2>1 DEF set_writers
    <3> QED BY <1>0, <3>1 DEF disk, ghosts, Quiet
  <2>2. CASE op \notin DOMAIN reserved
    <3>1. Changes(op)
      BY <1>2, <2>2 DEF set_writers, Changes, NewPolicy
    <3> QED BY <3>1
  <2> QED BY <2>1, <2>2
<1>3. ASSUME NEW f, receive(f) PROVE P
  <2>1. reserved' = reserved /\ completed' = completed /\ signed' = signed
    BY <1>3, Zenon DEF receive
  <2>2. image' = Marked(f) \/ image' = [image EXCEPT !.blocked = f]
    BY <1>3, Zenon DEF receive, capacity_fence
  <2>3. image'.event = image.event /\ image'.policy = image.policy
    <3>1. CASE image' = Marked(f)
      BY <3>1, MarkedFacts
    <3>2. CASE image' = [image EXCEPT !.blocked = f]
      BY ONLY <1>0, <3>2, ImageExcept
    <3> QED BY <2>2, <3>1, <3>2
  <2> QED BY <1>0, <2>1, <2>3 DEF Quiet
<1>4. ASSUME expand_limits PROVE P
  <2>1. reserved' = reserved /\ completed' = completed /\ signed' = signed
    BY <1>4, Zenon DEF expand_limits, ghosts
  <2>2. \/ image' = image
        \/ image' = [image EXCEPT !.blocked = Zero]
        \/ image' = [Marked(image.blocked) EXCEPT !.blocked = Zero]
    BY <1>4, Zenon DEF expand_limits
  <2>3. image'.event = image.event /\ image'.policy = image.policy
    <3>1. PICK i : i = Marked(image.blocked)
      OBVIOUS
    <3>2. IsImage(i) /\ i.event = image.event /\ i.policy = image.policy
      BY <3>1, MarkedFacts
    <3>3. CASE image' = [i EXCEPT !.blocked = Zero]
      BY <3>2, <3>3, ImageExcept
    <3>4. CASE image' = [image EXCEPT !.blocked = Zero]
      BY ONLY <1>0, <3>4, ImageExcept
    <3> QED BY <2>2, <3>1, <3>3, <3>4
  <2> QED BY <1>0, <2>1, <2>3 DEF Quiet
<1>5. ASSUME commit_policy PROVE P
  <2>1. reserved' = reserved /\ completed' = completed /\ signed' = signed
    BY <1>5, Zenon DEF commit_policy, ghosts
  <2>2. image' = image \/ image' = [image EXCEPT !.blocked = replay.update]
    BY <1>5, Zenon DEF commit_policy, capacity_fence
  <2>3. image'.event = image.event /\ image'.policy = image.policy
    BY <1>0, <2>2, ImageExcept
  <2> QED BY <1>0, <2>1, <2>3 DEF Quiet
<1>6. ASSUME finish_refused PROVE P
  <2>1. reserved' = reserved /\ completed' = completed /\ image' = image
    BY <1>6, Zenon DEF finish_refused, disk
  <2>2. pc = "finish" /\ todo # <<>>
        /\ (signed' = signed \/ signed' = signed \cup {} \/ signed' = signed \cup {reserved[Head(todo)]})
    BY <1>6, Zenon DEF finish_refused
  <2>3. reserved[Head(todo)] \in Range(reserved)
    BY <2>2, TodoFacts
  <2>4. signed' \subseteq Range(reserved)
    BY <1>0, <2>2, <2>3
  <2> QED BY <2>1, <2>4 DEF Quiet
<1>7. ASSUME sign_and_die PROVE P
  <2>1. reserved' = reserved /\ completed' = completed /\ image' = image
    BY <1>7, Zenon DEF sign_and_die, disk
  <2>2. pc = "finish" /\ todo # <<>> /\ signed' = signed \cup {reserved[Head(todo)]}
    BY <1>7, Zenon DEF sign_and_die
  <2>3. reserved[Head(todo)] \in Range(reserved)
    BY <2>2, TodoFacts
  <2> QED BY <1>0, <2>1, <2>2, <2>3 DEF Quiet
<1>8. ASSUME reconcile \/ finished \/ prepare_replay \/ advance_policy PROVE P
  <2>1. UNCHANGED <<disk, ghosts>>
    BY <1>8, Zenon DEF reconcile, finished, prepare_replay, advance_policy
  <2> QED BY <1>0, <2>1 DEF disk, ghosts, Quiet
<1>9. ASSUME policies_done \/ next_author \/ authors_done PROVE P
  <2>1. UNCHANGED <<disk, ghosts>>
    BY <1>9, Zenon DEF policies_done, next_author, authors_done
  <2> QED BY <1>0, <2>1 DEF disk, ghosts, Quiet
<1>10. ASSUME anchor_ready \/ anchor_frame \/ chain_frame \/ scan_frame \/ author_done PROVE P
  <2>1. UNCHANGED <<disk, ghosts>>
    BY <1>10, Zenon DEF anchor_ready, anchor_frame, chain_frame, scan_frame, author_done, Becomes
  <2> QED BY <1>0, <2>1 DEF disk, ghosts, Quiet
<1>11. ASSUME open \/ Crash \/ UNCHANGED vars PROVE P
  <2>1. UNCHANGED <<disk, ghosts>>
    BY <1>11, Zenon DEF open, Crash, vars
  <2> QED BY <1>0, <2>1 DEF disk, ghosts, Quiet
<1>12. ASSUME finish_reserved PROVE P
  BY <1>12
<1> HIDE DEF P
<1>13. P
  BY <1>1, <1>2, <1>3, <1>4, <1>5, <1>6, <1>7, <1>8, <1>9, <1>10, <1>11, <1>12, Zenon DEF Next, Step
<1> QED BY <1>13 DEF P

\* An event of the records, or none: its sequence is within bounds.
LEMMA EventsOfFacts ==
    ASSUME NEW L, \A f \in Range(L) : WellFormed(f), NEW a, NEW e \in EventsOf(L, a)
    PROVE  /\ e.sequence \in 0..MaxSeq
           /\ e # Zero => /\ e \in Range(L) /\ e.kind = "event" /\ e.author = a
                          /\ e.sequence \in 1..MaxSeq
<1>1. CASE e = Zero
  BY <1>1, RoomAssumption DEF Zero
<1>2. CASE e # Zero
  <2>1. e \in Range(L) /\ e.kind = "event" /\ e.author = a
    BY <1>2 DEF EventsOf
  <2>2. WellFormed(e)
    BY <2>1
  <2> QED BY <1>2, <2>1, <2>2, RoomAssumption DEF WellFormed
<1> QED BY <1>1, <1>2

\* The row of a cached author.
LEMMA RowFacts ==
    ASSUME RoomInv, pc # "closed", NEW a \in head.writers \cup {Me}
    PROVE  /\ a \in DOMAIN cache
           /\ RowAt(log, a, head, LastSeal(committed, a), cache[a])
           /\ cache[a] \in Rows(log, a)
           /\ cache[a].head \in EventsOf(log, a) /\ cache[a].latest \in EventsOf(log, a)
           /\ cache[a].head.sequence \in 0..MaxSeq
<1>1. cache = [b \in head.writers \cup {Me} |-> cache[b]]
  BY DEF RoomInv, Cached
<1>2. a \in DOMAIN cache
  BY <1>1
<1>3. RowAt(log, a, head, LastSeal(committed, a), cache[a])
  BY <1>2 DEF RoomInv, Cached
<1>4. cache[a] \in Rows(log, a)
  BY <1>3 DEF RowAt
<1>5. cache[a].head \in EventsOf(log, a) /\ cache[a].latest \in EventsOf(log, a)
  BY <1>4 DEF Rows
<1>6. \A f \in Range(log) : WellFormed(f)
  BY DEF RoomInv, Shapes
<1> QED BY <1>2, <1>3, <1>4, <1>5, <1>6, EventsOfFacts

\* What is reserved is a frame that can be decoded.
LEMMA NewEventFacts ==
    ASSUME RoomInv, pc # "closed", cache[Me].head.sequence < MaxSeq, NEW op
    PROVE  /\ WellFormed(NewEvent(op)) /\ NewEvent(op).kind = "event" /\ NewEvent(op).author = Me
           /\ NewEvent(op).sequence = cache[Me].head.sequence + 1
           /\ cache[Me].head.sequence \in Nat
<1>3. cache[Me].head.sequence \in Nat
  BY RowFacts
<1> QED BY <1>3, RoomAssumption DEF NewEvent, WellFormed

\* So is a policy, with the latest events of its writers as seals.
LEMMA NewPolicyFacts ==
    ASSUME RoomInv, pc # "closed", NEW op \in DOMAIN room.lists
    PROVE  /\ WellFormed(NewPolicy(op)) /\ NewPolicy(op).kind = "policy"
           /\ NewPolicy(op).revision = Len(committed) + 1
<1>1. head.revision = Len(committed) /\ Len(committed) \in Nat
  BY Basics
<1>2. ASSUME NEW s \in current_seals
      PROVE  /\ s.kind = "event" /\ s.sequence \in 1..MaxSeq
             /\ \E a \in head.writers : s = cache[a].latest /\ s.author = a
  <2>1. PICK a \in head.writers : s = cache[a].latest /\ cache[a].latest # Zero
    BY <1>2 DEF current_seals
  <2>2. s \in EventsOf(log, a) /\ s # Zero
    BY <2>1, RowFacts
  <2>3. \A f \in Range(log) : WellFormed(f)
    BY DEF RoomInv, Shapes
  <2>4. s.kind = "event" /\ s.author = a /\ s.sequence \in 1..MaxSeq
    BY <2>2, <2>3, EventsOfFacts
  <2> QED BY <2>1, <2>4
<1>3. \A s, t \in current_seals : s.author = t.author => s = t
  BY <1>2
<1>4. room.lists[op] \subseteq Range(Order)
  BY RoomAssumption DEF RoomInv, Shapes
<1> HIDE DEF current_seals
<1> QED BY <1>1, <1>2, <1>3, <1>4 DEF NewPolicy, WellFormed

\* A function with one more value.
LEMMA OneMore ==
    ASSUME NEW r, NEW op, op \notin DOMAIN r, NEW f,
           NEW g, g = [x \in DOMAIN r \cup {op} |-> IF x = op THEN f ELSE r[x]]
    PROVE  /\ DOMAIN g = DOMAIN r \cup {op} /\ g = [x \in DOMAIN g |-> g[x]]
           /\ \A x \in DOMAIN r : g[x] = r[x]
           /\ g[op] = f /\ Range(g) = Range(r) \cup {f}
<1>1. DOMAIN g = DOMAIN r \cup {op} /\ (\A x \in DOMAIN r : g[x] = r[x]) /\ g[op] = f
  OBVIOUS
<1>2. Range(g) = Range(r) \cup {f}
  BY <1>1 DEF Range
<1> QED BY <1>1, <1>2

\* A reservation is signed, published and finished.
Finishing(op, f) ==
    /\ op = Head(todo) /\ f = reserved[op] /\ op \in Pending /\ op \in DOMAIN reserved
    /\ f \in Range(reserved) /\ WellFormed(f) /\ MayFinish(f)
    /\ pc = "finish" /\ pc' = "finish" /\ todo # <<>> /\ todo' = Tail(todo)
    /\ reserved' = reserved /\ completed' = completed \cup {op}
    /\ signed' = signed \cup {f} /\ witnessed' = witnessed /\ committed' = committed
    /\ replay' = replay /\ room' = room
    /\ log' = (IF f \in Range(log) THEN log ELSE Append(log, f))
    /\ f \in Range(log') /\ Range(log') = Range(log) \cup {f}
    /\ image'.blocked = image.blocked
    /\ image'.authorLost = image.authorLost /\ image'.ownerLost = image.ownerLost
    /\ \/ /\ f.kind = "event" /\ f.author = Me /\ op = image.event /\ op \in room.texts
          /\ image'.event = None /\ image'.policy = image.policy
          /\ cache' = event_persisted(cache, Events \cup {f}, f) /\ seen' = seen
       \/ /\ f.kind = "policy" /\ op = image.policy /\ op \notin room.texts
          /\ image'.policy = None /\ image'.event = image.event
          /\ cache' = cache /\ seen' = replay_observation(seen, f, f)

\* finish_reserved does this.
LEMMA FinishFacts ==
    ASSUME RoomInv, finish_reserved
    PROVE  \E op, f : Finishing(op, f)
<1>1. PICK op, f : op = Head(todo) /\ f = reserved[op]
  OBVIOUS
<1>2. pc = "finish" /\ todo # <<>>
  BY Zenon DEF finish_reserved
<1>3. /\ op \in Pending /\ op \in DOMAIN reserved /\ f \in Range(reserved) /\ WellFormed(f)
      /\ IF f.kind = "event" THEN op = image.event /\ op \in room.texts /\ f.author = Me
         ELSE op = image.policy /\ op \notin room.texts /\ f.kind = "policy"
  BY <1>1, <1>2, TodoFacts
<1>4. /\ MayFinish(f) /\ pc' = pc /\ todo' = Tail(todo)
      /\ reserved' = reserved /\ completed' = completed \cup {op}
      /\ signed' = signed \cup {f} /\ witnessed' = witnessed /\ committed' = committed
      /\ replay' = replay /\ room' = room
      /\ log' = IF f \in Range(log) THEN log ELSE Append(log, f)
      /\ IF f.kind = "event"
         THEN /\ image' = [image EXCEPT !.event = None]
              /\ cache' = event_persisted(cache, Events \cup {f}, f)
              /\ UNCHANGED seen
         ELSE /\ image' = [image EXCEPT !.policy = None]
              /\ seen' = replay_observation(seen, f, f)
              /\ UNCHANGED cache
  BY <1>1, Zenon DEF finish_reserved
<1>5. Range(log') = Range(log) \cup {f}
  <2>1. CASE f \in Range(log)
    BY <1>4, <2>1
  <2>2. CASE f \notin Range(log)
    <3>1. log \in Seq(Range(log))
      BY Basics DEF PolicyLog, Framed
    <3>2. Range(Append(log, f)) = Range(log) \cup {f}
      BY <3>1, AppendFacts
    <3> QED BY <1>4, <2>2, <3>2
  <2> QED BY <2>1, <2>2
<1>6. IsImage(image)
  BY DEF RoomInv, Shapes, IsImage
<1>7. CASE f.kind = "event"
  <2>1. image' = [image EXCEPT !.event = None]
    BY <1>4, <1>7
  <2>2. /\ image'.event = None /\ image'.policy = image.policy /\ image'.blocked = image.blocked
        /\ image'.authorLost = image.authorLost /\ image'.ownerLost = image.ownerLost
    BY ONLY <1>6, <2>1, ImageExcept
  <2> QED BY <1>1, <1>2, <1>3, <1>4, <1>5, <1>7, <2>2, Zenon DEF Finishing
<1>8. CASE f.kind # "event"
  <2>1. image' = [image EXCEPT !.policy = None]
    BY <1>4, <1>8
  <2>2. /\ image'.policy = None /\ image'.event = image.event /\ image'.blocked = image.blocked
        /\ image'.authorLost = image.authorLost /\ image'.ownerLost = image.ownerLost
    BY ONLY <1>6, <2>1, ImageExcept
  <2> QED BY <1>1, <1>2, <1>3, <1>4, <1>5, <1>8, <2>2, Zenon DEF Finishing
<1> QED BY <1>7, <1>8

\* What a new reservation changes.
Reserving(op, f) ==
    /\ op \in Ops /\ op # None /\ op \notin DOMAIN reserved /\ op \notin completed
    /\ WellFormed(f)
    /\ reserved' = [x \in DOMAIN reserved \cup {op} |-> IF x = op THEN f ELSE reserved[x]]
    /\ completed' = completed /\ log' = log /\ committed' = committed
    /\ signed' = signed /\ witnessed' = witnessed /\ room' = room
    /\ pc = "idle" /\ pc' = "finish" /\ todo' = <<op>>
    /\ seen' = seen /\ cache' = cache /\ replay' = replay
    /\ image'.blocked = image.blocked
    /\ image'.authorLost = image.authorLost /\ image'.ownerLost = image.ownerLost
    /\ \/ /\ Sends(op) /\ f = NewEvent(op) /\ op \in room.texts
          /\ f.kind = "event" /\ f.author = Me
          /\ image.event = None /\ image'.event = op /\ image'.policy = image.policy
       \/ /\ Changes(op) /\ f = NewPolicy(op)
          /\ op \in DOMAIN room.lists /\ op \notin room.texts
          /\ f.kind = "policy"
          /\ image.policy = None /\ image'.policy = op /\ image'.event = image.event

\* Each of the two actions that reserve does this.
LEMMA SendFacts ==
    ASSUME RoomInv, NEW op, Sends(op) \/ Changes(op)
    PROVE  \E f : Reserving(op, f)
<1>1. room \in Rooms /\ IsImage(image)
  BY DEF RoomInv, Shapes, IsImage
<1>2. room.texts \cap DOMAIN room.lists = {} /\ None \notin room.texts \cup DOMAIN room.lists
  BY <1>1, RoomAssumption
<1>3. CASE Sends(op)
  <2>1. PICK f : f = NewEvent(op)
    OBVIOUS
  <2>2. WellFormed(f) /\ f.kind = "event" /\ f.author = Me
    BY <1>3, <2>1, NewEventFacts DEF Sends
  <2>3. /\ op \in room.texts /\ op \notin DOMAIN reserved /\ op \notin completed
        /\ pc = "idle" /\ image.event = None /\ Reserve(op, f, FALSE)
    BY <1>3, <2>1 DEF Sends
  <2>4. image' = [image EXCEPT !.event = op]
    BY <2>3 DEF Reserve
  <2>5. /\ image'.event = op /\ image'.policy = image.policy /\ image'.blocked = image.blocked
        /\ image'.authorLost = image.authorLost /\ image'.ownerLost = image.ownerLost
    BY ONLY <1>1, <2>4, ImageExcept
  <2>6. op \in Ops /\ op # None
    BY <1>2, <2>3 DEF Ops
  <2>7. /\ reserved' = [x \in DOMAIN reserved \cup {op} |-> IF x = op THEN f ELSE reserved[x]]
        /\ completed' = completed /\ log' = log /\ committed' = committed
        /\ signed' = signed /\ witnessed' = witnessed /\ room' = room
        /\ pc' = "finish" /\ todo' = <<op>>
        /\ seen' = seen /\ cache' = cache /\ replay' = replay
    BY <2>3, Zenon DEF Reserve, ghosts
  <2> QED BY <1>3, <2>1, <2>2, <2>3, <2>5, <2>6, <2>7, Zenon DEF Reserving
<1>4. CASE Changes(op)
  <2>1. PICK f : f = NewPolicy(op)
    OBVIOUS
  <2>2. WellFormed(f) /\ f.kind = "policy"
    BY <1>4, <2>1, NewPolicyFacts DEF Changes
  <2>3. /\ op \in DOMAIN room.lists /\ op \notin DOMAIN reserved /\ op \notin completed
        /\ pc = "idle" /\ image.policy = None /\ Reserve(op, f, TRUE)
    BY <1>4, <2>1 DEF Changes
  <2>4. image' = [image EXCEPT !.policy = op]
    BY <2>3 DEF Reserve
  <2>5. /\ image'.policy = op /\ image'.event = image.event /\ image'.blocked = image.blocked
        /\ image'.authorLost = image.authorLost /\ image'.ownerLost = image.ownerLost
    BY ONLY <1>1, <2>4, ImageExcept
  <2>6. op \in Ops /\ op # None /\ op \notin room.texts
    BY <1>2, <2>3 DEF Ops
  <2>7. /\ reserved' = [x \in DOMAIN reserved \cup {op} |-> IF x = op THEN f ELSE reserved[x]]
        /\ completed' = completed /\ log' = log /\ committed' = committed
        /\ signed' = signed /\ witnessed' = witnessed /\ room' = room
        /\ pc' = "finish" /\ todo' = <<op>>
        /\ seen' = seen /\ cache' = cache /\ replay' = replay
    BY <2>3, Zenon DEF Reserve, ghosts
  <2> QED BY <1>4, <2>1, <2>2, <2>3, <2>5, <2>6, <2>7, Zenon DEF Reserving
<1> QED BY <1>3, <1>4

\* Reservations stay what they are, and what is finished is retained.
LEMMA ReservationsStep ==
    ASSUME RoomInv, [Next]_vars
    PROVE  Reservations'
<1>0. /\ DOMAIN reserved \subseteq Ops
      /\ reserved = [op \in DOMAIN reserved |-> reserved[op]]
      /\ \A op \in DOMAIN reserved :
            /\ WellFormed(reserved[op])
            /\ IF op \in room.texts THEN reserved[op].kind = "event" /\ reserved[op].author = Me
               ELSE reserved[op].kind = "policy"
      /\ image.event \in (Pending \cap room.texts) \cup {None}
      /\ image.policy \in (Pending \cap DOMAIN room.lists) \cup {None}
      /\ Pending \subseteq {image.event, image.policy}
      /\ completed \subseteq DOMAIN reserved
      /\ \A op \in completed : reserved[op] \in Range(log)
      /\ signed \subseteq Range(reserved)
  BY DEF RoomInv, Reservations
<1>1. room' = room /\ Range(log) \subseteq Range(log') /\ Ops' = Ops
  <2>1. room' = room
    BY LogStep
  <2> QED BY <2>1, Growth DEF Ops
<1>2. room.texts \cap DOMAIN room.lists = {} /\ None \notin room.texts \cup DOMAIN room.lists
  BY RoomAssumption DEF RoomInv, Shapes
<1>3. Pending = DOMAIN reserved \ completed /\ Pending' = DOMAIN reserved' \ completed'
  BY DEF Pending
<1>10. None \notin Pending
  BY <1>0, <1>2, <1>3 DEF Ops
<1>4. CASE Quiet
  <2>1. Pending' = Pending
    BY <1>3, <1>4 DEF Quiet
  <2> QED BY <1>0, <1>1, <1>4, <2>1 DEF Quiet, Reservations
<1>5. ASSUME NEW op, Sends(op) \/ Changes(op) PROVE Reservations'
  <2>0. PICK f : Reserving(op, f)
    BY <1>5, SendFacts
  <2>1. /\ op \in Ops /\ op # None /\ op \notin DOMAIN reserved /\ op \notin completed
        /\ WellFormed(f)
        /\ reserved' = [x \in DOMAIN reserved \cup {op} |-> IF x = op THEN f ELSE reserved[x]]
        /\ completed' = completed /\ log' = log /\ signed' = signed
        /\ \/ /\ op \in room.texts /\ f.kind = "event" /\ f.author = Me
              /\ image.event = None /\ image'.event = op /\ image'.policy = image.policy
           \/ /\ op \in DOMAIN room.lists /\ op \notin room.texts /\ f.kind = "policy"
              /\ image.policy = None /\ image'.policy = op /\ image'.event = image.event
    BY <2>0, Zenon DEF Reserving
  <2>2. PICK r, g : r = reserved /\ g = reserved'
    OBVIOUS
  <2>3. op \notin DOMAIN r /\ g = [x \in DOMAIN r \cup {op} |-> IF x = op THEN f ELSE r[x]]
    BY <2>1, <2>2
  <2>4. /\ DOMAIN g = DOMAIN r \cup {op} /\ g = [x \in DOMAIN g |-> g[x]]
        /\ \A x \in DOMAIN r : g[x] = r[x]
        /\ g[op] = f /\ Range(g) = Range(r) \cup {f}
    BY ONLY <2>3, OneMore
  <2>5. /\ DOMAIN g \subseteq Ops
        /\ g = [x \in DOMAIN g |-> g[x]]
        /\ \A x \in DOMAIN g :
              /\ WellFormed(g[x])
              /\ IF x \in room.texts THEN g[x].kind = "event" /\ g[x].author = Me
                 ELSE g[x].kind = "policy"
        /\ completed' \subseteq DOMAIN g
        /\ \A x \in completed' : g[x] \in Range(log')
        /\ signed' \subseteq Range(g)
    BY <1>0, <2>1, <2>2, <2>4
  <2>6. Pending' = Pending \cup {op}
    BY <1>3, <2>1, <2>2, <2>4
  <2>7. /\ image'.event \in (Pending' \cap room.texts) \cup {None}
        /\ image'.policy \in (Pending' \cap DOMAIN room.lists) \cup {None}
        /\ Pending' \subseteq {image'.event, image'.policy}
    <3>1. CASE image.event = None /\ image'.event = op /\ image'.policy = image.policy /\ op \in room.texts
      BY <1>0, <1>2, <1>10, <2>6, <3>1
    <3>2. CASE /\ image.policy = None /\ image'.policy = op /\ image'.event = image.event
               /\ op \in DOMAIN room.lists
      BY <1>0, <1>2, <1>10, <2>6, <3>2
    <3> QED BY <2>1, <3>1, <3>2
  <2> QED BY <1>1, <2>2, <2>5, <2>7 DEF Reservations
<1>6. CASE finish_reserved
  <2>0. PICK op, f : Finishing(op, f)
    BY <1>6, FinishFacts
  <2>1. /\ f = reserved[op] /\ op \in Pending /\ op \in DOMAIN reserved
        /\ f \in Range(reserved)
        /\ reserved' = reserved /\ completed' = completed \cup {op}
        /\ signed' = signed \cup {f} /\ f \in Range(log')
        /\ \/ /\ op = image.event /\ op \in room.texts
              /\ image'.event = None /\ image'.policy = image.policy
           \/ /\ op = image.policy /\ op \notin room.texts
              /\ image'.policy = None /\ image'.event = image.event
    BY <2>0, Zenon DEF Finishing
  <2>2. Pending' = Pending \ {op}
    BY <1>3, <2>1
  <2>3. /\ image'.event \in (Pending' \cap room.texts) \cup {None}
        /\ image'.policy \in (Pending' \cap DOMAIN room.lists) \cup {None}
        /\ Pending' \subseteq {image'.event, image'.policy}
    <3>1. CASE op = image.event /\ op \in room.texts /\ image'.event = None /\ image'.policy = image.policy
      BY <1>0, <1>2, <1>10, <2>2, <3>1
    <3>2. CASE /\ op = image.policy /\ op \notin room.texts
               /\ image'.policy = None /\ image'.event = image.event
      BY <1>0, <1>2, <1>10, <2>2, <3>2
    <3> QED BY <2>1, <3>1, <3>2
  <2>4. /\ completed' \subseteq DOMAIN reserved /\ signed' \subseteq Range(reserved)
        /\ \A x \in completed' : reserved[x] \in Range(log')
    BY <1>0, <1>1, <2>1
  <2> QED BY <1>0, <1>1, <2>1, <2>3, <2>4 DEF Reservations
<1> QED BY <1>4, <1>5, <1>6, ReservedStep

\* Every call that signs was given reservations that are not finished.
LEMMA TodoStep ==
    ASSUME RoomInv, [Next]_vars
    PROVE  Todo'
<1>0. /\ image.event \in (Pending \cap room.texts) \cup {None}
      /\ image.policy \in (Pending \cap DOMAIN room.lists) \cup {None}
      /\ Pending = DOMAIN reserved \ completed /\ Pending' = DOMAIN reserved' \ completed'
  BY DEF RoomInv, Reservations, Pending
<1> DEFINE P == pc' = "finish" =>
                   \/ todo' = <<>>
                   \/ \E op \in Pending' : todo' = <<op>>
                   \/ /\ image'.event # None /\ image'.policy # None
                      /\ todo' = <<image'.event, image'.policy>>
<1>1. ASSUME NEW op, Sends(op) \/ Changes(op) PROVE P
  <2>0. PICK f : Reserving(op, f)
    BY <1>1, SendFacts
  <2>1. /\ op \notin completed /\ completed' = completed /\ todo' = <<op>>
        /\ reserved' = [x \in DOMAIN reserved \cup {op} |-> IF x = op THEN f ELSE reserved[x]]
    BY <2>0, Zenon DEF Reserving
  <2>2. op \in Pending'
    BY <1>0, <2>1
  <2> QED BY <2>1, <2>2
<1>2. ASSUME NEW op, op \in DOMAIN reserved, send(op) \/ set_writers(op) PROVE P
  <2>1. op \notin completed /\ todo' = <<op>> /\ reserved' = reserved /\ completed' = completed
    BY <1>2, Zenon DEF send, set_writers, disk
  <2> QED BY <1>0, <1>2, <2>1
<1>3. ASSUME NEW op, op \notin DOMAIN reserved, send(op), op \in room.texts PROVE P
  <2>1. Sends(op)
    BY <1>3 DEF send, Sends, NewEvent
  <2> QED BY <1>1, <2>1
<1>4. ASSUME NEW op, op \notin DOMAIN reserved, set_writers(op), op \in DOMAIN room.lists PROVE P
  <2>1. Changes(op)
    BY <1>4 DEF set_writers, Changes, NewPolicy
  <2> QED BY <1>1, <2>1
<1>5. ASSUME finish_reserved PROVE P
  <2>0. PICK op, f : Finishing(op, f)
    BY <1>5, FinishFacts
  <2>1. /\ op = Head(todo) /\ op \in Pending /\ todo # <<>> /\ todo' = Tail(todo)
        /\ reserved' = reserved /\ completed' = completed \cup {op} /\ pc = "finish"
    BY <2>0, Zenon DEF Finishing
  <2>2. CASE Tail(todo) = <<>>
    BY <2>1, <2>2
  <2>3. CASE /\ Head(todo) = image.event /\ Tail(todo) = <<image.policy>>
             /\ image.policy \in Pending /\ image.policy # image.event
    <3>1. image.policy \in Pending'
      BY <1>0, <2>1, <2>3
    <3> QED BY <2>1, <2>3, <3>1
  <2> QED BY <2>1, <2>2, <2>3, TodoFacts
<1>6. ASSUME reconcile PROVE P
  <2>1. /\ todo' = (IF image.event = None THEN <<>> ELSE <<image.event>>)
                      \o (IF image.policy = None THEN <<>> ELSE <<image.policy>>)
        /\ reserved' = reserved /\ completed' = completed /\ image' = image
    BY <1>6, Zenon DEF reconcile, disk
  <2>2. Pending' = Pending
    BY <1>0, <2>1
  <2>3. CASE image.event = None /\ image.policy = None
    BY <2>1, <2>3
  <2>4. CASE image.event = None /\ image.policy # None
    <3>1. todo' = <<image.policy>> /\ image.policy \in Pending
      BY <1>0, <2>1, <2>4
    <3> QED BY <2>2, <3>1
  <2>5. CASE image.event # None /\ image.policy = None
    <3>1. todo' = <<image.event>> /\ image.event \in Pending
      BY <1>0, <2>1, <2>5
    <3> QED BY <2>2, <3>1
  <2>6. CASE image.event # None /\ image.policy # None
    <3>1. PICK e, p : e = image.event /\ p = image.policy
      OBVIOUS
    <3>2. todo' = <<e>> \o <<p>>
      BY <2>1, <2>6, <3>1
    <3>3. <<e>> \o <<p>> = <<e, p>>
      <4>1. PICK c : c = <<e>> \o <<p>>
        OBVIOUS
      <4>2. <<e>> \o <<p>> \in Seq({e, p}) /\ Len(<<e>> \o <<p>>) = 2
        OBVIOUS
      <4>3. (<<e>> \o <<p>>)[1] = e /\ (<<e>> \o <<p>>)[2] = p
        OBVIOUS
      <4>4. c \in Seq({e, p}) /\ Len(c) = 2 /\ c[1] = e /\ c[2] = p
        BY <4>1, <4>2, <4>3
      <4>5. c = <<e, p>>
        BY ONLY <4>4
      <4> QED BY <4>1, <4>5
    <3> QED BY <2>1, <2>6, <3>1, <3>2, <3>3
  <2> QED BY <2>3, <2>4, <2>5, <2>6
<1>7. ASSUME NEW f, receive(f) PROVE P
  BY <1>7, Zenon DEF receive, GoApply, Return
<1>8. ASSUME expand_limits \/ finish_refused \/ finished \/ authors_done PROVE P
  BY <1>8, Zenon DEF expand_limits, finish_refused, finished, authors_done, GoApply, Return
<1>9. ASSUME prepare_replay \/ advance_policy \/ commit_policy \/ policies_done \/ next_author
      PROVE P
  <2>1. pc' # "finish"
    BY <1>9 DEF prepare_replay, advance_policy, commit_policy, policies_done, next_author, Return
  <2> QED BY <2>1
<1>10. ASSUME anchor_ready \/ anchor_frame \/ chain_frame \/ scan_frame \/ author_done PROVE P
  <2>1. pc' # "finish"
    <3>1. pc = "authors" /\ pc' = pc
      BY <1>10, Zenon DEF anchor_ready, anchor_frame, chain_frame, scan_frame, author_done, Becomes, Working
    <3> QED BY <3>1
  <2> QED BY <2>1
<1>11. ASSUME open \/ Crash \/ sign_and_die PROVE P
  <2>1. pc' # "finish"
    BY <1>11 DEF open, Crash, sign_and_die, Die
  <2> QED BY <2>1
<1>12. ASSUME UNCHANGED vars PROVE P
  <2>1. pc' = pc /\ todo' = todo /\ image' = image /\ Pending' = Pending
    BY <1>12, <1>0, Zenon DEF vars, disk, memory
  <2> QED BY <2>1 DEF RoomInv, Todo
<1> HIDE DEF P
<1>13. P
  BY <1>2, <1>3, <1>4, <1>5, <1>6, <1>7, <1>8, <1>9, <1>10, <1>11, <1>12, Zenon DEF Next, Step
<1> QED BY <1>13 DEF P, Todo

\* Once the reservations of a kind are finished, all of them are retained.
LEMMA ReservedRetained ==
    ASSUME RoomInv, NEW g \in Range(reserved)
    PROVE  /\ g.kind = "event" /\ image.event = None => g \in Range(log)
           /\ g.kind = "policy" /\ image.policy = None => g \in Range(log)
           /\ g.kind \in {"event", "policy"} /\ WellFormed(g)
           /\ g.kind = "event" => g.author = Me
<1>1. PICK x \in DOMAIN reserved : g = reserved[x]
  BY DEF Range
<1>2. /\ DOMAIN reserved \subseteq Ops /\ WellFormed(g)
      /\ IF x \in room.texts THEN g.kind = "event" /\ g.author = Me ELSE g.kind = "policy"
      /\ image.event \in (Pending \cap room.texts) \cup {None}
      /\ image.policy \in (Pending \cap DOMAIN room.lists) \cup {None}
      /\ Pending \subseteq {image.event, image.policy}
      /\ x \in completed => g \in Range(log)
  BY <1>1 DEF RoomInv, Reservations
<1>3. room.texts \cap DOMAIN room.lists = {} /\ None \notin room.texts \cup DOMAIN room.lists
  BY RoomAssumption DEF RoomInv, Shapes
<1>4. x \in completed \/ x \in Pending
  BY DEF Pending
<1>5. x \in Ops /\ x # None
  BY <1>1, <1>2, <1>3 DEF Ops
<1> QED BY <1>2, <1>3, <1>4, <1>5 DEF Ops

\* A sequence or a revision is reserved once: the author's chain is followed to
\* its end before the next event, and a policy that is not closed yet forbids one.
LEMMA ReservesOnceStep ==
    ASSUME RoomInv, [Next]_vars
    PROVE  ReservesOnce'
<1> DEFINE Differ(f, g) ==
              f.kind = g.kind /\ f # g =>
                 IF f.kind = "event" THEN f.sequence # g.sequence ELSE f.revision # g.revision
<1>1. CASE reserved' = reserved
  BY <1>1 DEF RoomInv, ReservesOnce
<1>2. ASSUME NEW op, Sends(op) \/ Changes(op) PROVE ReservesOnce'
  <2>1. PICK f : Reserving(op, f)
    BY <1>2, SendFacts
  <2>2. /\ op \notin DOMAIN reserved
        /\ reserved' = [x \in DOMAIN reserved \cup {op} |-> IF x = op THEN f ELSE reserved[x]]
        /\ \/ Sends(op) /\ f = NewEvent(op) /\ image.event = None
           \/ Changes(op) /\ f = NewPolicy(op) /\ image.policy = None
    BY <2>1, Zenon DEF Reserving
  <2>3. Range(reserved') = Range(reserved) \cup {f}
    <3>1. PICK r, g : r = reserved /\ g = reserved'
      OBVIOUS
    <3>2. op \notin DOMAIN r /\ g = [x \in DOMAIN r \cup {op} |-> IF x = op THEN f ELSE r[x]]
      BY <2>2, <3>1
    <3>3. Range(g) = Range(r) \cup {f}
      BY ONLY <3>2, OneMore
    <3> QED BY <3>1, <3>3
  <2>4. ASSUME NEW g \in Range(reserved) PROVE Differ(f, g)
    <3>1. CASE Sends(op) /\ f = NewEvent(op) /\ image.event = None
      <4>1. /\ f.kind = "event" /\ f.sequence = cache[Me].head.sequence + 1
        BY <3>1 DEF NewEvent
      <4>2. pc # "closed" /\ ~cache[Me].more /\ ~cache[Me].failure
        BY <3>1 DEF Sends, MayAuthor
      <4>3. RowAt(log, Me, head, LastSeal(committed, Me), cache[Me])
        BY <4>2, RowFacts
      <4>4. EventAt(log, Me, f.sequence) = Zero
        BY <4>1, <4>2, <4>3 DEF RowAt, FollowsAt
      <4>5. \A h \in Range(log) : ~(h.kind = "event" /\ h.author = Me /\ h.sequence = f.sequence)
        BY <4>4, Basics, EventAtFacts DEF PolicyLog
      <4>6. g.kind = "event" => g \in Range(log) /\ g.author = Me
        BY <3>1, ReservedRetained
      <4> QED BY <4>1, <4>5, <4>6
    <3>2. CASE Changes(op) /\ f = NewPolicy(op) /\ image.policy = None
      <4>1. f.kind = "policy" /\ f.revision = Len(committed) + 1 /\ Len(committed) \in Nat
        BY <3>2, NewPolicyFacts, Basics DEF Changes
      <4>2. /\ pc # "closed" /\ ~seen.forked /\ ~seen.overflow /\ seen.observed = {}
            /\ image.blocked = Zero
        BY <3>2 DEF Changes, writable
      <4>3. seen = SeenOf(log, committed, room.observed, image.blocked)
        BY <4>2, Observations DEF RoomInv, SeenRebuilt
      <4>4. image.blocked.kind # "policy"
        BY <4>2 DEF Zero
      <4>5. \A p \in Range(log) : p.kind = "policy" => p.revision \in 1..Len(committed)
        BY <4>2, <4>3, <4>4, Basics, SeenSays
      <4>6. g.kind = "policy" => g \in Range(log)
        BY <3>2, ReservedRetained
      <4> QED BY <4>1, <4>5, <4>6
    <3> QED BY <2>2, <3>1, <3>2
  <2>5. \A g, h \in Range(reserved) : Differ(g, h)
    BY DEF RoomInv, ReservesOnce
  <2>6. \A g \in Range(reserved) : Differ(g, f)
    BY <2>4
  <2>7. \A g, h \in Range(reserved') : Differ(g, h)
    <3> HIDE DEF Differ
    <3>1. Differ(f, f)
      BY DEF Differ
    <3> QED BY <2>3, <2>4, <2>5, <2>6, <3>1
  <2> QED BY <2>7 DEF ReservesOnce
<1>3. CASE finish_reserved
  <2>1. PICK op, f : Finishing(op, f)
    BY <1>3, FinishFacts
  <2> QED BY <1>1, <2>1, Zenon DEF Finishing
<1> QED BY <1>1, <1>2, <1>3, ReservedStep DEF Quiet

\* A frame from elsewhere is retained together with the mark of lost custody.
Arrives(f) ==
    /\ f \notin Range(log) /\ WellFormed(f) /\ log' = Append(log, f)
    /\ image'.authorLost = Marked(f).authorLost /\ image'.ownerLost = Marked(f).ownerLost

\* Frames come from elsewhere or are the session's own.
LEMMA ArrivalStep ==
    ASSUME RoomInv, [Next]_vars
    PROVE  log' = log \/ finish_reserved \/ \E f : Arrives(f)
<1> DEFINE P == log' = log \/ finish_reserved \/ \E f : Arrives(f)
<1>1. ASSUME NEW op, send(op) PROVE P
  BY <1>1 DEF send, Reserve, disk
<1>2. ASSUME NEW op, set_writers(op) PROVE P
  BY <1>2 DEF set_writers, Reserve, disk
<1>3. ASSUME NEW f \in room.offers, receive(f) PROVE P
  <2>1. WellFormed(f) /\ f \notin Range(log)
    BY <1>3, Basics DEF receive
  <2>2. log' = log \/ (log' = Append(log, f) /\ image' = Marked(f))
    BY <1>3, Zenon DEF receive, Retain
  <2> QED BY <2>1, <2>2 DEF Arrives
<1>4. ASSUME expand_limits PROVE P
  <2>1. PICK f : f = image.blocked
    OBVIOUS
  <2>2. f = Zero \/ WellFormed(f)
    BY <2>1 DEF RoomInv, Shapes
  <2>3. \/ log' = log
        \/ /\ f # Zero /\ f \notin Range(log) /\ log' = Append(log, f)
           /\ image' = [Marked(f) EXCEPT !.blocked = Zero]
    BY <1>4, <2>1, Zenon DEF expand_limits, Retain
  <2>4. CASE image' = [Marked(f) EXCEPT !.blocked = Zero]
    <3>1. PICK i : i = Marked(f)
      OBVIOUS
    <3>2. IsImage(i) /\ image' = [i EXCEPT !.blocked = Zero]
      BY <2>4, <3>1, MarkedFacts
    <3>3. image'.authorLost = i.authorLost /\ image'.ownerLost = i.ownerLost
      BY ONLY <3>2, ImageExcept
    <3> QED BY <2>2, <2>3, <3>1, <3>3 DEF Arrives
  <2> QED BY <2>3, <2>4
<1>5. ASSUME finish_refused \/ finished \/ prepare_replay \/ advance_policy \/ reconcile PROVE P
  BY <1>5, Zenon DEF finish_refused, finished, prepare_replay, advance_policy, reconcile, disk
<1>6. ASSUME commit_policy \/ policies_done \/ next_author \/ authors_done PROVE P
  BY <1>6, Zenon DEF commit_policy, policies_done, next_author, authors_done, disk
<1>7. ASSUME anchor_ready \/ anchor_frame \/ chain_frame \/ scan_frame \/ author_done PROVE P
  BY <1>7, Zenon DEF anchor_ready, anchor_frame, chain_frame, scan_frame, author_done, Becomes, disk
<1>8. ASSUME open \/ Crash \/ sign_and_die PROVE P
  BY <1>8, Zenon DEF open, Crash, sign_and_die, disk
<1>9. ASSUME UNCHANGED vars PROVE P
  BY <1>9 DEF vars, disk
<1>10. ASSUME finish_reserved PROVE P
  BY <1>10
<1> HIDE DEF P
<1>11. P
  BY <1>1, <1>2, <1>3, <1>4, <1>5, <1>6, <1>7, <1>8, <1>9, <1>10, Zenon DEF Next, Step
<1> QED BY <1>11 DEF P

\* The marks of lost custody stay, and so do the reservations.
LEMMA MarksStay ==
    ASSUME RoomInv, [Next]_vars
    PROVE  /\ image.authorLost => image'.authorLost
           /\ image.ownerLost => image'.ownerLost
           /\ Range(reserved) \subseteq Range(reserved')
<1>0. IsImage(image)
  BY DEF RoomInv, Shapes, IsImage
<1> DEFINE P == /\ image.authorLost => image'.authorLost
                /\ image.ownerLost => image'.ownerLost
<1>1. ASSUME image' = image PROVE P
  BY <1>1, Zenon
<1>2. ASSUME NEW x, \/ image' = [image EXCEPT !.event = x]
                    \/ image' = [image EXCEPT !.policy = x]
                    \/ image' = [image EXCEPT !.blocked = x]
      PROVE  P
  <2>1. image'.authorLost = image.authorLost /\ image'.ownerLost = image.ownerLost
    BY ONLY <1>0, <1>2, ImageExcept
  <2> QED BY <2>1
<1>3. ASSUME NEW f, \/ image' = Marked(f)
                    \/ image' = [Marked(f) EXCEPT !.blocked = Zero]
      PROVE  P
  <2>1. PICK i : i = Marked(f)
    OBVIOUS
  <2>2. IsImage(i) /\ (image.authorLost => i.authorLost) /\ (image.ownerLost => i.ownerLost)
    BY <2>1, MarkedFacts
  <2>3. image' = i \/ image' = [i EXCEPT !.blocked = Zero]
    BY <1>3, <2>1
  <2>4. image'.authorLost = i.authorLost /\ image'.ownerLost = i.ownerLost
    BY ONLY <2>2, <2>3, ImageExcept
  <2> QED BY <2>2, <2>4
<1> HIDE DEF P
<1>4. P
  BY <1>2, <1>3, <1>1, ImageStep DEF ImageMoves, P
<1>5. Range(reserved) \subseteq Range(reserved')
  <2>1. CASE reserved' = reserved
    BY <2>1
  <2>2. ASSUME NEW op, Sends(op) \/ Changes(op) PROVE Range(reserved) \subseteq Range(reserved')
    <3>1. PICK f : Reserving(op, f)
      BY <2>2, SendFacts
    <3>2. PICK r, g : r = reserved /\ g = reserved'
      OBVIOUS
    <3>3. op \notin DOMAIN r /\ g = [x \in DOMAIN r \cup {op} |-> IF x = op THEN f ELSE r[x]]
      BY <3>1, <3>2, Zenon DEF Reserving
    <3>4. Range(g) = Range(r) \cup {f}
      BY ONLY <3>3, OneMore
    <3> QED BY <3>2, <3>4
  <2>3. CASE finish_reserved
    <3>1. PICK op, f : Finishing(op, f)
      BY <2>3, FinishFacts
    <3> QED BY <3>1, Zenon DEF Finishing
  <2> QED BY <2>1, <2>2, <2>3, ReservedStep DEF Quiet
<1> QED BY <1>4, <1>5, Zenon DEF P

\* A frame that is pending is reserved.
LEMMA PendingReserved ==
    ASSUME RoomInv, NEW f, pending_matches(f)
    PROVE  f \in Range(reserved)
<1>1. /\ image.event \in Pending \cup {None} /\ image.policy \in Pending \cup {None}
      /\ Pending \subseteq DOMAIN reserved
  BY DEF RoomInv, Reservations, Pending
<1>2. \E op \in DOMAIN reserved : reserved[op] = f
  BY <1>1 DEF pending_matches
<1> QED BY <1>2 DEF Range

\* What is retained under the session's own keys is reserved, or is marked.
LEMMA CustodyStep ==
    ASSUME RoomInv, [Next]_vars
    PROVE  Custody'
<1>1. /\ \A e \in Range(log) : e.kind = "event" /\ e.author = Me
                                  => image'.authorLost \/ e \in Range(reserved')
      /\ room.created => \A p \in Range(log) : p.kind = "policy"
                                  => image'.ownerLost \/ p \in Range(reserved')
  BY MarksStay DEF RoomInv, Custody, Events, Policies
<1>2. room' = room
  BY LogStep
<1>3. ASSUME NEW f, Range(log') = Range(log) \cup {f},
             f.kind = "event" /\ f.author = Me => image'.authorLost \/ f \in Range(reserved'),
             room.created /\ f.kind = "policy" => image'.ownerLost \/ f \in Range(reserved')
      PROVE  Custody'
  BY <1>1, <1>2, <1>3 DEF Custody, Events, Policies
<1>4. CASE log' = log
  BY <1>1, <1>2, <1>4 DEF Custody, Events, Policies
<1>5. CASE finish_reserved
  <2>1. PICK op, f : Finishing(op, f)
    BY <1>5, FinishFacts
  <2>2. f \in Range(reserved') /\ Range(log') = Range(log) \cup {f}
    BY <2>1, Zenon DEF Finishing
  <2> QED BY <1>3, <2>2
<1>6. ASSUME NEW f, Arrives(f) PROVE Custody'
  <2>1. log' = Append(log, f) /\ log \in Seq(Range(log)) /\ WellFormed(f)
        /\ image'.authorLost = Marked(f).authorLost /\ image'.ownerLost = Marked(f).ownerLost
    BY <1>6, Basics DEF Arrives, PolicyLog, Framed
  <2>2. Range(log') = Range(log) \cup {f}
    BY <2>1, AppendFacts
  <2>3. /\ Marked(f).authorLost <=> image.authorLost \/ (f.kind = "event" /\ Lost(f))
        /\ Marked(f).ownerLost <=> image.ownerLost \/ (f.kind # "event" /\ Lost(f))
    BY MarkedFacts
  <2>4. pending_matches(f) => f \in Range(reserved')
    BY MarksStay, PendingReserved
  <2>5. f.kind = "event" /\ f.author = Me => Lost(f) \/ pending_matches(f)
    BY DEF Lost
  <2>6. room.created /\ f.kind = "policy" => Lost(f) \/ pending_matches(f)
    BY DEF Lost
  <2>7. f.kind = "event" /\ f.author = Me => image'.authorLost \/ f \in Range(reserved')
    BY <2>1, <2>3, <2>4, <2>5
  <2>8. room.created /\ f.kind = "policy" => image'.ownerLost \/ f \in Range(reserved')
    BY <2>1, <2>3, <2>4, <2>6
  <2> QED BY <1>3, <2>2, <2>7, <2>8
<1> QED BY <1>4, <1>5, <1>6, ArrivalStep

\* The emergency slot is emptied only into the log, and filled only when empty.
LEMMA BlockedStep ==
    ASSUME RoomInv, [Next]_vars
    PROVE  \/ image'.blocked = image.blocked
           \/ image.blocked = Zero
           \/ image.blocked \in Range(log')
<1> DEFINE P == \/ image'.blocked = image.blocked
                \/ image.blocked = Zero
                \/ image.blocked \in Range(log')
<1>0. IsImage(image)
  BY DEF RoomInv, Shapes, IsImage
<1>1. CASE image' = image
  BY <1>1
<1>2. ASSUME NEW op, send(op) \/ set_writers(op) PROVE P
  <2>1. \/ image' = image
        \/ image' = [image EXCEPT !.policy = op]
        \/ image' = [image EXCEPT !.event = op]
    BY <1>2 DEF send, set_writers, Reserve, disk
  <2>2. image'.blocked = image.blocked
    BY ONLY <1>0, <2>1, ImageExcept
  <2> QED BY <2>2
<1>3. ASSUME NEW f \in room.offers, receive(f) PROVE P
  BY <1>3, Zenon DEF receive
<1>4. ASSUME expand_limits PROVE P
  <2>1. PICK f : f = image.blocked
    OBVIOUS
  <2>2. \/ image' = image
        \/ f \in Range(log)
        \/ log' = Append(log, f)
    BY <1>4, <2>1, Zenon DEF expand_limits, Retain
  <2>3. log' = Append(log, f) => f \in Range(log')
    <3>1. log \in Seq(Range(log))
      BY Basics DEF PolicyLog, Framed
    <3>2. Range(Append(log, f)) = Range(log) \cup {f}
      BY <3>1, AppendFacts
    <3> QED BY <3>2
  <2>4. Range(log) \subseteq Range(log')
    BY Growth
  <2> QED BY <2>1, <2>2, <2>3, <2>4
<1>5. ASSUME finish_reserved PROVE P
  <2>1. PICK op, f : Finishing(op, f)
    BY <1>5, FinishFacts
  <2> QED BY <2>1, Zenon DEF Finishing
<1>6. ASSUME commit_policy PROVE P
  BY <1>6, Zenon DEF commit_policy, Blockless, Fenced
<1>7. ASSUME \/ finish_refused \/ finished \/ prepare_replay \/ advance_policy \/ reconcile
             \/ policies_done \/ next_author \/ authors_done
      PROVE  P
  <2>1. image' = image
    BY <1>7, Zenon DEF finish_refused, finished, prepare_replay, advance_policy, reconcile,
                       policies_done, next_author, authors_done, disk
  <2> QED BY <2>1
<1>8. ASSUME anchor_ready \/ anchor_frame \/ chain_frame \/ scan_frame \/ author_done PROVE P
  <2>1. image' = image
    BY <1>8, Zenon DEF anchor_ready, anchor_frame, chain_frame, scan_frame, author_done, Becomes, disk
  <2> QED BY <2>1
<1>9. ASSUME open \/ Crash \/ sign_and_die \/ UNCHANGED vars PROVE P
  <2>1. image' = image
    BY <1>9, Zenon DEF open, Crash, sign_and_die, disk, vars
  <2> QED BY <2>1
<1> HIDE DEF P
<1>10. P
  BY <1>2, <1>3, <1>4, <1>5, <1>6, <1>7, <1>8, <1>9, Zenon DEF Next, Step
<1> QED BY <1>10 DEF P

\* A frame that a call accepted is not forgotten.
LEMMA ForgottenStep ==
    ASSUME RoomInv, [Next]_vars
    PROVE  NothingForgotten'
<1>1. witnessed \subseteq Range(log) \cup {image.blocked} /\ \A f \in witnessed : f # Zero
  <2>1. \A f \in witnessed : f # Zero
    BY DEF RoomInv, Shapes, WellFormed, Zero
  <2> QED BY <2>1 DEF RoomInv, NothingForgotten
<1>2. witnessed \subseteq Range(log') \cup {image'.blocked}
  <2>1. Range(log) \subseteq Range(log')
    BY Growth
  <2> QED BY <1>1, <2>1, BlockedStep
<1>3. CASE witnessed' = witnessed
  BY <1>2, <1>3 DEF NothingForgotten
<1>4. ASSUME NEW f \in room.offers, receive(f), witnessed' = witnessed \cup {f}
      PROVE  NothingForgotten'
  <2>1. log' = Append(log, f) \/ image' = [image EXCEPT !.blocked = f]
    BY <1>4, Zenon DEF receive, Retain, capacity_fence
  <2>2. log' = Append(log, f) => f \in Range(log')
    <3>1. log \in Seq(Range(log))
      BY Basics DEF PolicyLog, Framed
    <3>2. Range(Append(log, f)) = Range(log) \cup {f}
      BY <3>1, AppendFacts
    <3> QED BY <3>2
  <2>3. image' = [image EXCEPT !.blocked = f] => image'.blocked = f
    BY ImageExcept DEF RoomInv, Shapes, IsImage
  <2> QED BY <1>2, <1>4, <2>1, <2>2, <2>3 DEF NothingForgotten
<1> QED BY <1>3, <1>4, WitnessStep

-----------------------------------------------------------------------------
(* The seals of the closed policies.                                       *)

\* SealedUnder and sealed_head are functions of the closed policies.
LEMMA SealsOf ==
    /\ \A n, a : SealedUnder(n, a) = SealUnder(committed, n, a)
    /\ \A n, a : SealedUnder(n, a)' = SealUnder(committed', n, a)
    /\ \A a : sealed_head(a) = SealUnder(committed, Len(committed), a)
    /\ \A a : sealed_head(a)' = SealUnder(committed', Len(committed'), a)
BY DEF SealedUnder, sealed_head, SealUnder, Names, SealIn

\* The last policy that names an author decides.
LEMMA SealNext ==
    ASSUME NEW C, NEW a
    PROVE  /\ SealUnder(C, 0, a) = Zero
           /\ \A n \in Nat : SealUnder(C, n + 1, a) =
                 IF Names(C[n + 1], a) THEN SealIn(C[n + 1], a) ELSE SealUnder(C, n, a)
<1> DEFINE named(n) == {i \in 1..n : Names(C[i], a)}
<1>1. SealUnder(C, 0, a) = Zero
  <2>1. named(0) = {}
    OBVIOUS
  <2> QED BY <2>1 DEF SealUnder
<1>2. ASSUME NEW n \in Nat
      PROVE  SealUnder(C, n + 1, a) =
                IF Names(C[n + 1], a) THEN SealIn(C[n + 1], a) ELSE SealUnder(C, n, a)
  <2>0. /\ SealUnder(C, n + 1, a) = IF named(n + 1) = {} THEN Zero
                                    ELSE SealIn(C[Max(named(n + 1))], a)
        /\ SealUnder(C, n, a) = IF named(n) = {} THEN Zero ELSE SealIn(C[Max(named(n))], a)
    BY DEF SealUnder
  <2>1. CASE Names(C[n + 1], a)
    <3>1. n + 1 \in named(n + 1) /\ \A i \in named(n + 1) : n + 1 >= i
      BY <2>1
    <3>2. Max(named(n + 1)) = n + 1
      <4>1. PICK T : T = named(n + 1)
        OBVIOUS
      <4>2. n + 1 \in T /\ T \subseteq Int /\ \A i \in T : n + 1 >= i
        BY <3>1, <4>1
      <4>3. Max(T) \in T /\ \A i \in T : Max(T) >= i
        BY ONLY <4>2 DEF Max
      <4>4. PICK m, k : m = Max(T) /\ k = n + 1
        OBVIOUS
      <4>5. m \in Int /\ k \in Int /\ m >= k /\ k >= m
        BY <4>2, <4>3, <4>4
      <4>6. m = k
        BY ONLY <4>5
      <4> QED BY <4>1, <4>4, <4>6
    <3> HIDE DEF named
    <3> QED BY <2>0, <2>1, <3>1, <3>2
  <2>2. CASE ~Names(C[n + 1], a)
    <3>1. named(n + 1) = named(n)
      <4>1. \A i \in 1..(n + 1) : i \in 1..n \/ i = n + 1
        OBVIOUS
      <4>2. 1..n \subseteq 1..(n + 1)
        OBVIOUS
      <4> QED BY <4>1, <4>2, <2>2
    <3> HIDE DEF named
    <3> QED BY <2>0, <2>2, <3>1
  <2> QED BY <2>1, <2>2
<1> QED BY <1>1, <1>2

\* One more policy does not change what the earlier ones sealed.
LEMMA SealAppend ==
    ASSUME NEW C, C \in Seq(Range(C)), NEW p, NEW a, NEW n \in 0..Len(C)
    PROVE  SealUnder(Append(C, p), n, a) = SealUnder(C, n, a)
<1>1. PICK D : D = Append(C, p)
  OBVIOUS
<1>2. Len(C) \in Nat /\ \A i \in 1..Len(C) : D[i] = C[i]
  BY <1>1, AppendFacts
<1> DEFINE S == {k \in 0..Len(C) : SealUnder(D, k, a) = SealUnder(C, k, a)}
<1>3. 0 \in S
  BY <1>2, SealNext
<1>4. ASSUME NEW k \in 0..Len(C), k + 1 \in 0..Len(C), k \in S PROVE k + 1 \in S
  <2>1. k \in Nat /\ k + 1 \in 1..Len(C)
    BY <1>2, <1>4
  <2>2. D[k + 1] = C[k + 1]
    BY <1>2, <2>1
  <2>3. SealUnder(D, k + 1, a) = SealUnder(C, k + 1, a)
    BY <1>4, <2>1, <2>2, SealNext
  <2> QED BY <1>4, <2>3
<1> HIDE DEF S
<1>5. 0..Len(C) \subseteq S
  BY <1>2, <1>3, <1>4, Climb
<1> QED BY <1>1, <1>5 DEF S

\* A seal is a retained event with its whole chain behind it.
LEMMA SealedFacts ==
    ASSUME RoomInv, NEW a, NEW n \in 0..Len(committed)
    PROVE  /\ SealedUnder(n, a) = Zero \/ SealedUnder(n, a).sequence > 0
           /\ SealedUnder(n, a) \in EventsOf(log, a) /\ SealedUnder(n, a).sequence \in 0..MaxSeq
           /\ Linked(a, SealedUnder(n, a).sequence)
           /\ indexed_event(a, SealedUnder(n, a).sequence) = SealedUnder(n, a)
<1> DEFINE Good(t) == /\ t = Zero \/ t.sequence > 0
                      /\ t \in EventsOf(log, a) /\ t.sequence \in 0..MaxSeq
                      /\ Linked(a, t.sequence)
                      /\ indexed_event(a, t.sequence) = t
           S == {k \in 0..Len(committed) : Good(SealedUnder(k, a))}
<1>1. Len(committed) \in Nat /\ DOMAIN committed = 1..Len(committed)
  BY Basics
<1>2. 0 \in S
  <2>1. SealedUnder(0, a) = Zero
    BY SealsOf, SealNext
  <2>2. indexed_event(a, 0) = Zero
    BY Growth, Indices, Basics, NoFirst DEF RoomInv, Shapes, PolicyLog
  <2>3. Linked(a, 0)
    BY DEF Linked
  <2>4. Zero.sequence = 0 /\ Zero \in EventsOf(log, a) /\ 0 \in 0..MaxSeq
    BY RoomAssumption DEF Zero, EventsOf
  <2>5. Good(Zero)
    BY <2>2, <2>3, <2>4
  <2> QED BY <1>1, <2>1, <2>5
<1>3. ASSUME NEW k \in 0..Len(committed), k + 1 \in 0..Len(committed), k \in S PROVE k + 1 \in S
  <2>1. k \in Nat /\ k + 1 \in 1..Len(committed)
    BY <1>1, <1>3
  <2>2. CASE ~Names(committed[k + 1], a)
    <3>1. SealedUnder(k + 1, a) = SealedUnder(k, a)
      BY <2>1, <2>2, SealsOf, SealNext
    <3> QED BY <1>3, <3>1
  <2>3. CASE Names(committed[k + 1], a)
    <3>1. PICK t : t = SealIn(committed[k + 1], a)
      OBVIOUS
    <3>2. SealedUnder(k + 1, a) = t
      BY <2>1, <2>3, <3>1, SealsOf, SealNext
    <3>3. t \in committed[k + 1].seals /\ t.author = a
      BY <2>3, <3>1 DEF Names, SealIn
    <3>4. Sealed(t, committed[k + 1].previous, SealedUnder((k + 1) - 1, a))
      BY <1>1, <2>1, <3>3 DEF RoomInv, Closed
    <3>5. Linked(a, t.sequence) /\ indexed_event(a, t.sequence) = t
      BY <3>3, <3>4 DEF Sealed
    <3>6. t.kind = "event" /\ t.sequence \in 1..MaxSeq
      <4>1. committed[k + 1] \in Range(log) /\ committed[k + 1].kind = "policy"
        BY <2>1, Basics
      <4>2. WellFormed(committed[k + 1])
        BY <4>1 DEF RoomInv, Shapes
      <4> QED BY <3>3, <4>1, <4>2 DEF WellFormed
    <3>7. t # Zero
      BY <3>6 DEF Zero
    <3>8. t \in Range(log)
      BY <3>5, <3>7, Indices, Basics, EventAtFacts DEF PolicyLog
    <3>9. t \in EventsOf(log, a) /\ t.sequence \in 0..MaxSeq /\ t.sequence > 0
      BY <3>3, <3>6, <3>8, RoomAssumption DEF EventsOf, Events
    <3>10. Good(t)
      BY <3>5, <3>9
    <3> HIDE DEF Good
    <3> QED BY <1>3, <3>2, <3>10
  <2> QED BY <2>2, <2>3
<1>4. n \in S
  <2> HIDE DEF S
  <2> QED BY <1>1, <1>2, <1>3, Climb
<1> QED BY <1>4

\* Closed as a property of the records.
SealedAt(L, s, p, prior) ==
    /\ s.author \in p.writers
    /\ prior.sequence < s.sequence
    /\ LinkedAt(L, s.author, s.sequence)
    /\ EventAt(L, s.author, s.sequence) = s
    /\ s.policy = p
ClosesAt(L, C, g, i) ==
    /\ C[i] = PolicyAt(L, i) /\ C[i] # Zero
    /\ C[i].previous = IF i = 1 THEN g ELSE C[i - 1]
    /\ \A s \in C[i].seals : SealedAt(L, s, C[i].previous, SealUnder(C, i - 1, s.author))

\* The two definitions agree, before and after a step.
LEMMA ClosedAt ==
    /\ \A a, n : Linked(a, n) = LinkedAt(log, a, n)
    /\ \A s, p, prior : Sealed(s, p, prior) = SealedAt(log, s, p, prior)
    /\ Closed = \A i \in DOMAIN committed : ClosesAt(log, committed, Genesis, i)
    /\ Closed' = \A i \in DOMAIN committed' : ClosesAt(log', committed', Genesis', i)
<1>1. ASSUME NEW a, NEW n PROVE Linked(a, n) = LinkedAt(log, a, n)
  BY Indices DEF Linked, LinkedAt
<1>2. ASSUME NEW s, NEW p, NEW prior PROVE Sealed(s, p, prior) = SealedAt(log, s, p, prior)
  BY <1>1, Indices, Zenon DEF Sealed, SealedAt
<1>3. Closed = \A i \in DOMAIN committed : ClosesAt(log, committed, Genesis, i)
  <2>1. ASSUME NEW i
        PROVE (/\ committed[i] = indexed_policy(i) /\ committed[i] # Zero
               /\ committed[i].previous = (IF i = 1 THEN Genesis ELSE committed[i - 1])
               /\ \A s \in committed[i].seals :
                     Sealed(s, committed[i].previous, SealedUnder(i - 1, s.author)))
              = ClosesAt(log, committed, Genesis, i)
    BY <1>2, Indices, SealsOf DEF ClosesAt
  <2> QED BY <2>1 DEF Closed
<1>4. (Closed = \A i \in DOMAIN committed : ClosesAt(log, committed, Genesis, i))'
  BY <1>3, PTL
<1> QED BY <1>1, <1>2, <1>3, <1>4

\* A seal that was proved stays proved.
LEMMA SealedStays ==
    ASSUME RoomInv, [Next]_vars, NEW s, NEW p, NEW prior, s # Zero, s.sequence \in Nat,
           SealedAt(log, s, p, prior)
    PROVE  SealedAt(log', s, p, prior)
<1>1. PICK a, n : a = s.author /\ n = s.sequence
  OBVIOUS
<1>2. LinkedAt(log, a, n) /\ EventAt(log, a, n) = s /\ n \in Nat
  BY <1>1 DEF SealedAt
<1>3. ASSUME NEW k \in 0..n PROVE EventAt(log', a, k) = EventAt(log, a, k)
  <2>1. CASE k = 0
    BY <2>1, Growth
  <2>2. CASE k # 0
    BY <1>2, <2>2, Growth DEF LinkedAt
  <2> QED BY <2>1, <2>2
<1>4. LinkedAt(log', a, n)
  <2>1. ASSUME NEW k \in 1..n
        PROVE  EventAt(log', a, k) # Zero /\ EventAt(log', a, k).previous = EventAt(log', a, k - 1)
    <3>1. k \in 0..n /\ k - 1 \in 0..n
      BY <1>2
    <3> QED BY <1>2, <1>3, <3>1 DEF LinkedAt
  <2> QED BY <2>1 DEF LinkedAt
<1>5. EventAt(log', a, n) = s
  BY <1>2, <1>3
<1> QED BY <1>1, <1>4, <1>5 DEF SealedAt

\* A policy that is being proved, and one whose proof is complete.
LEMMA ReplayFacts ==
    ASSUME RoomInv, replay # NoReplay
    PROVE  /\ replay.update = PolicyAt(log, Len(committed) + 1) /\ replay.update # Zero
           /\ replay.update.previous = head
           /\ replay.update \in Range(log) /\ WellFormed(replay.update)
           /\ replay.update.kind = "policy" /\ replay.update.revision = Len(committed) + 1
           /\ DOMAIN replay.at = {s.author : s \in replay.update.seals}
           /\ \A s \in replay.update.seals :
                 /\ s.kind = "event" /\ s.sequence \in 1..MaxSeq /\ s # Zero
                 /\ Target(s.author) = s
                 /\ s.author \in head.writers
                 /\ sealed_head(s.author).sequence < s.sequence
                 /\ replay.at[s.author] \in sealed_head(s.author).sequence..s.sequence
                 /\ Linked(s.author, replay.at[s.author])
                 /\ replay.at[s.author] = s.sequence =>
                       indexed_event(s.author, s.sequence) = s /\ s.policy = head
<1>1. /\ replay.at = [a \in {s.author : s \in replay.update.seals} |-> replay.at[a]]
      /\ replay.update = Next1 /\ replay.update # Zero /\ replay.update.previous = head
      /\ \A s \in replay.update.seals :
            /\ s.author \in head.writers
            /\ sealed_head(s.author).sequence < s.sequence
            /\ replay.at[s.author] \in sealed_head(s.author).sequence..s.sequence
            /\ Linked(s.author, replay.at[s.author])
            /\ replay.at[s.author] = s.sequence =>
                  indexed_event(s.author, s.sequence) = s /\ s.policy = head
  BY DEF RoomInv, Replaying
<1>2. PICK p : p = replay.update
  OBVIOUS
<1>3. p = PolicyAt(log, Len(committed) + 1) /\ p # Zero
  BY <1>1, <1>2, Indices, Basics DEF Next1
<1>4. p \in Range(log) /\ p.kind = "policy" /\ p.revision = Len(committed) + 1
  BY <1>3, Basics, PolicyAtFacts DEF PolicyLog
<1>5. WellFormed(p)
  BY <1>4 DEF RoomInv, Shapes
<1>6. ASSUME NEW s \in p.seals
      PROVE  s.kind = "event" /\ s.sequence \in 1..MaxSeq /\ s # Zero /\ Target(s.author) = s
  <2>1. s.kind = "event" /\ s.sequence \in 1..MaxSeq
    BY <1>4, <1>5 DEF WellFormed
  <2>2. Target(s.author) \in p.seals /\ Target(s.author).author = s.author
    BY <1>2 DEF Target
  <2>3. Target(s.author) = s
    BY <1>4, <1>5, <2>2 DEF WellFormed
  <2> QED BY <2>1, <2>3 DEF Zero
<1>7. DOMAIN replay.at = {s.author : s \in replay.update.seals}
  BY <1>1
<1> QED BY <1>1, <1>2, <1>3, <1>4, <1>5, <1>6, <1>7, Zenon

\* What commit_policy closes.
LEMMA CommitFacts ==
    ASSUME RoomInv, commit_policy
    PROVE  /\ replay # NoReplay /\ log' = log /\ replay' = NoReplay /\ room' = room
           /\ pc = "policies" /\ ~seen.forked /\ ~seen.overflow /\ image.blocked = Zero
           /\ \A s \in replay.update.seals :
                 SealedAt(log, s, head, SealUnder(committed, Len(committed), s.author))
<1>1. /\ replay # NoReplay /\ log' = log /\ replay' = NoReplay /\ room' = room
      /\ pc = "policies" /\ ~seen.forked /\ ~seen.overflow /\ image.blocked = Zero
      /\ Unproved = {}
  BY Zenon DEF commit_policy, Blockless, Fenced
<1>2. ASSUME NEW s \in replay.update.seals
      PROVE  SealedAt(log, s, head, SealUnder(committed, Len(committed), s.author))
  <2>1. PICK a, seal, n : a = s.author /\ seal = sealed_head(a) /\ n = replay.at[a]
    OBVIOUS
  <2>2. /\ a \in DOMAIN replay.at /\ Target(a) = s /\ s.sequence \in 1..MaxSeq
        /\ a \in head.writers /\ seal.sequence < s.sequence /\ n \in seal.sequence..s.sequence
        /\ Linked(a, n)
        /\ n = s.sequence => indexed_event(a, s.sequence) = s /\ s.policy = head
    BY <1>1, <2>1, ReplayFacts
  <2>3. ~(n < s.sequence)
    BY <1>1, <2>1, <2>2 DEF Unproved
  <2>4. seal.sequence \in 0..MaxSeq
    BY <2>1, SealedFacts, Basics DEF sealed_head
  <2>5. n = s.sequence
    BY <2>2, <2>3, <2>4, RoomAssumption
  <2>6. seal = SealUnder(committed, Len(committed), a)
    BY <2>1, SealsOf
  <2>7. Sealed(s, head, seal)
    BY <2>1, <2>2, <2>5 DEF Sealed
  <2> QED BY <2>1, <2>6, <2>7, ClosedAt
<1> QED BY <1>1, <1>2

\* A policy is closed with the ancestry of its seals retained.
LEMMA ClosedStep ==
    ASSUME RoomInv, [Next]_vars
    PROVE  Closed'
<1>0. /\ Len(committed) \in Nat /\ DOMAIN committed = 1..Len(committed)
      /\ committed \in Seq(Range(committed)) /\ Genesis' = Genesis
  BY Basics, LogStep DEF Genesis
<1>1. \A i \in DOMAIN committed : ClosesAt(log, committed, Genesis, i)
  BY ClosedAt DEF RoomInv
<1>2. ASSUME NEW i \in 1..Len(committed), NEW D, D[i] = committed[i],
             \A a : SealUnder(D, i - 1, a) = SealUnder(committed, i - 1, a),
             i # 1 => D[i - 1] = committed[i - 1]
      PROVE  ClosesAt(log', D, Genesis', i)
  <2>1. PICK p : p = committed[i]
    OBVIOUS
  <2>2. /\ p = PolicyAt(log, i) /\ p # Zero
        /\ p.previous = IF i = 1 THEN Genesis ELSE committed[i - 1]
        /\ \A s \in p.seals : SealedAt(log, s, p.previous, SealUnder(committed, i - 1, s.author))
    BY <1>0, <1>1, <2>1 DEF ClosesAt
  <2>3. WellFormed(p) /\ p.kind = "policy"
    BY <2>1, Basics DEF RoomInv, Shapes
  <2>4. ASSUME NEW s \in p.seals
        PROVE  SealedAt(log', s, p.previous, SealUnder(D, i - 1, s.author))
    <3>1. s # Zero /\ s.sequence \in Nat
      BY <2>3, RoomAssumption DEF WellFormed, Zero
    <3>2. PICK q, prior : q = p.previous /\ prior = SealUnder(committed, i - 1, s.author)
      OBVIOUS
    <3>3. SealedAt(log, s, q, prior)
      BY <2>2, <3>2
    <3>4. SealedAt(log', s, q, prior)
      BY <3>1, <3>3, SealedStays
    <3> QED BY <1>2, <3>2, <3>4
  <2>5. p = PolicyAt(log', i)
    BY <2>2, Growth
  <2>6. p.previous = IF i = 1 THEN Genesis' ELSE D[i - 1]
    BY <1>0, <1>2, <2>2
  <2> QED BY <1>2, <2>1, <2>2, <2>4, <2>5, <2>6 DEF ClosesAt
<1>3. CASE committed' = committed
  <2>1. \A i \in 1..Len(committed) : ClosesAt(log', committed, Genesis', i)
    BY <1>2
  <2> QED BY <1>0, <1>3, <2>1, ClosedAt
<1>4. CASE commit_policy /\ committed' = Append(committed, replay.update)
  <2>1. PICK C, p, D : C = committed /\ p = replay.update /\ D = Append(C, p) /\ D = committed'
    BY <1>4
  <2>2. /\ C \in Seq(Range(C)) /\ Len(C) \in Nat
        /\ DOMAIN D = 1..Len(C) + 1 /\ D[Len(C) + 1] = p /\ \A i \in 1..Len(C) : D[i] = C[i]
    <3>1. C \in Seq(Range(C)) /\ Len(C) \in Nat
      BY <1>0, <2>1
    <3>2. /\ DOMAIN Append(C, p) = 1..Len(C) + 1 /\ Append(C, p)[Len(C) + 1] = p
          /\ \A i \in 1..Len(C) : Append(C, p)[i] = C[i]
      BY ONLY <3>1, AppendFacts
    <3> QED BY <2>1, <3>1, <3>2
  <2>3. \A a : \A n \in 0..Len(C) : SealUnder(D, n, a) = SealUnder(C, n, a)
    <3>1. \A a : \A n \in 0..Len(C) : SealUnder(Append(C, p), n, a) = SealUnder(C, n, a)
      BY ONLY <2>2, SealAppend
    <3> QED BY <2>1, <3>1
  <2>4. ASSUME NEW i \in 1..Len(C) PROVE ClosesAt(log', D, Genesis', i)
    <3>1. D[i] = committed[i] /\ (i # 1 => D[i - 1] = committed[i - 1])
      BY <2>1, <2>2
    <3>2. \A a : SealUnder(D, i - 1, a) = SealUnder(committed, i - 1, a)
      BY <2>1, <2>2, <2>3
    <3> QED BY <1>2, <2>1, <3>1, <3>2
  <2>5. ClosesAt(log', D, Genesis', Len(C) + 1)
    <3>1. /\ p = PolicyAt(log, Len(C) + 1) /\ p # Zero /\ p.previous = head /\ log' = log
          /\ \A s \in p.seals : SealedAt(log, s, head, SealUnder(C, Len(C), s.author))
      BY <1>4, <2>1, ReplayFacts, CommitFacts
    <3>2. head = IF Len(C) + 1 = 1 THEN Genesis' ELSE D[Len(C)]
      <4>1. CASE C = <<>>
        BY <1>0, <2>1, <4>1 DEF head
      <4>2. CASE C # <<>>
        <5>1. Len(C) \in 1..Len(C) /\ head = C[Len(C)]
          BY <2>1, <2>2, <4>2 DEF head
        <5> QED BY <2>2, <5>1
      <4> QED BY <4>1, <4>2
    <3>3. \A a : SealUnder(D, (Len(C) + 1) - 1, a) = SealUnder(C, Len(C), a)
      BY <2>2, <2>3
    <3>4. (Len(C) + 1) - 1 = Len(C)
      BY <2>2
    <3> QED BY <2>2, <3>1, <3>2, <3>3, <3>4 DEF ClosesAt
  <2>6. \A i \in DOMAIN D : ClosesAt(log', D, Genesis', i)
    <3>1. \A i \in DOMAIN D : i \in 1..Len(C) \/ i = Len(C) + 1
      BY <2>2
    <3> QED BY <2>4, <2>5, <3>1
  <2> QED BY <2>1, <2>6, ClosedAt
<1> QED BY <1>3, <1>4, CommitStep

\* Replaying as a property of the records.
ProvesAt(L, C, h, r, s) ==
    /\ s.author \in h.writers
    /\ SealUnder(C, Len(C), s.author).sequence < s.sequence
    /\ r.at[s.author] \in SealUnder(C, Len(C), s.author).sequence..s.sequence
    /\ LinkedAt(L, s.author, r.at[s.author])
    /\ r.at[s.author] = s.sequence => EventAt(L, s.author, s.sequence) = s /\ s.policy = h
ReplaysAt(L, C, h, r) ==
    \/ r = NoReplay
    \/ /\ r = [update |-> r.update, at |-> r.at, invalid |-> r.invalid]
       /\ r.at = [a \in {s.author : s \in r.update.seals} |-> r.at[a]]
       /\ r.update = PolicyAt(L, h.revision + 1) /\ r.update # Zero /\ r.update.previous = h
       /\ \A s \in r.update.seals : ProvesAt(L, C, h, r, s)

\* The two definitions agree, before and after a step.
LEMMA ReplayingAt ==
    /\ Replaying <=> ReplaysAt(log, committed, head, replay)
    /\ Replaying' <=> ReplaysAt(log', committed', head', replay')
<1>1. Replaying <=> ReplaysAt(log, committed, head, replay)
  <2>1. ASSUME NEW s
        PROVE (/\ s.author \in head.writers
               /\ sealed_head(s.author).sequence < s.sequence
               /\ replay.at[s.author] \in sealed_head(s.author).sequence..s.sequence
               /\ Linked(s.author, replay.at[s.author])
               /\ replay.at[s.author] = s.sequence =>
                     indexed_event(s.author, s.sequence) = s /\ s.policy = head)
              <=> ProvesAt(log, committed, head, replay, s)
    BY ClosedAt, Indices, SealsOf, Zenon DEF ProvesAt
  <2>2. Next1 = PolicyAt(log, head.revision + 1)
    BY Indices DEF Next1
  <2> QED BY <2>1, <2>2 DEF Replaying, ReplaysAt
<1>2. (Replaying <=> ReplaysAt(log, committed, head, replay))'
  BY <1>1, PTL
<1> QED BY <1>1, <1>2

\* The seals of a policy are proved in the order of their authors' keys.
LEMMA ProvingFacts ==
    ASSUME RoomInv, replay # NoReplay, Unproved # {}
    PROVE  /\ Proving \in Unproved
           /\ \E s \in replay.update.seals : s.author = Proving /\ Target(Proving) = s
<1> DEFINE rank(a) == CHOOSE i \in DOMAIN Order : Order[i] = a
           T == {rank(a) : a \in Unproved}
<1>1. ASSUME NEW a \in Unproved
      PROVE  \E s \in replay.update.seals : s.author = a /\ Target(a) = s /\ a \in head.writers
  BY ReplayFacts DEF Unproved
<1>2. head.writers \subseteq Range(Order)
  <2>1. CASE committed = <<>>
    BY <2>1, RoomAssumption DEF head, Genesis, RoomInv, Shapes
  <2>2. CASE committed # <<>>
    <3>1. Len(committed) \in 1..Len(committed)
      BY <2>2, Basics
    <3>2. head = committed[Len(committed)]
      BY <2>2 DEF head
    <3>3. WellFormed(head) /\ head.kind = "policy"
      BY <3>1, <3>2, Basics DEF RoomInv, Shapes
    <3> QED BY <3>3 DEF WellFormed
  <2> QED BY <2>1, <2>2
<1>3. ASSUME NEW a \in Range(Order) PROVE rank(a) \in Nat
  <2>1. DOMAIN Order = 1..Len(Order)
    BY RoomAssumption
  <2>2. \E i \in DOMAIN Order : Order[i] = a
    BY DEF Range
  <2>3. rank(a) \in DOMAIN Order
    BY <2>2
  <2> QED BY <2>1, <2>3
<1>4. T \in SUBSET Nat /\ T # {}
  BY <1>1, <1>2, <1>3
<1>5. PICK n \in T : \A m \in T : n <= m
  BY <1>4, Least
<1>6. PICK a \in Unproved : n = rank(a)
  BY <1>5
<1>7. \A b \in Unproved : rank(a) <= rank(b)
  BY <1>5, <1>6
<1>8. Proving \in Unproved
  BY <1>6, <1>7 DEF Proving
<1> QED BY <1>1, <1>8

\* One frame of the ancestry is proved.
LEMMA AdvanceFacts ==
    ASSUME RoomInv, advance_policy
    PROVE  ReplaysAt(log, committed, head, replay')
<1>1. PICK a, e, n, t : /\ a = Proving /\ n = replay.at[a] /\ e = indexed_event(a, n + 1)
                        /\ t = Target(a)
  OBVIOUS
<1>2. /\ replay # NoReplay /\ Unproved # {} /\ e # Zero
      /\ \/ /\ e.previous = indexed_event(a, n)
            /\ e.sequence = t.sequence => e = t /\ e.policy = head
            /\ replay' = [replay EXCEPT !.at[a] = @ + 1]
         \/ replay' = [replay EXCEPT !.invalid = TRUE]
  <2>1. /\ replay # NoReplay /\ Unproved # {} /\ indexed_event(Proving, replay.at[Proving] + 1) # Zero
        /\ replay' = IF /\ indexed_event(Proving, replay.at[Proving] + 1).previous
                              = indexed_event(Proving, replay.at[Proving])
                        /\ indexed_event(Proving, replay.at[Proving] + 1).sequence = Target(Proving).sequence
                              => /\ indexed_event(Proving, replay.at[Proving] + 1) = Target(Proving)
                                 /\ indexed_event(Proving, replay.at[Proving] + 1).policy = head
                     THEN [replay EXCEPT !.at[Proving] = @ + 1]
                     ELSE [replay EXCEPT !.invalid = TRUE]
    BY Zenon DEF advance_policy, Blockless
  <2> QED BY <1>1, <2>1
<1>3. PICK u, at, v : /\ replay = [update |-> u, at |-> at, invalid |-> v]
                      /\ at = [x \in {s.author : s \in u.seals} |-> at[x]]
                      /\ u = PolicyAt(log, head.revision + 1) /\ u # Zero /\ u.previous = head
                      /\ \A s \in u.seals : ProvesAt(log, committed, head, replay, s)
  <2>1. ReplaysAt(log, committed, head, replay)
    BY ReplayingAt DEF RoomInv
  <2> QED BY <1>2, <2>1 DEF ReplaysAt
<1>4. /\ a \in Unproved /\ t \in u.seals /\ t.author = a /\ t.sequence \in 1..MaxSeq
      /\ \A s \in u.seals : s.author = a => s = t
      /\ \A s \in u.seals : s.sequence \in 1..MaxSeq
  <2>1. a \in Unproved /\ t \in u.seals /\ t.author = a
    BY <1>1, <1>2, <1>3, ProvingFacts
  <2>2. \A s \in u.seals : s.sequence \in 1..MaxSeq /\ Target(s.author) = s
    BY <1>2, <1>3, ReplayFacts
  <2> QED BY <1>1, <2>1, <2>2
<1>5. PICK b : b = SealUnder(committed, Len(committed), a).sequence /\ b \in Nat
  <2>1. Len(committed) \in 0..Len(committed)
    BY Basics
  <2> QED BY <2>1, SealedFacts, SealsOf
<1>6. n = at[a] /\ n \in b..t.sequence /\ n < t.sequence /\ LinkedAt(log, a, n) /\ n \in Nat
  <2>1. n = at[a] /\ n < t.sequence
    BY <1>1, <1>3, <1>4 DEF Unproved
  <2>2. n \in b..t.sequence /\ LinkedAt(log, a, n)
    BY <1>3, <1>4, <1>5, <2>1 DEF ProvesAt
  <2> QED BY <1>5, <2>1, <2>2
<1>7. CASE replay' = [replay EXCEPT !.invalid = TRUE]
  <2>1. PICK yes : yes = TRUE
    OBVIOUS
  <2>2. replay' = [replay EXCEPT !.invalid = yes]
    BY <1>7, <2>1
  <2>3. replay' = [update |-> u, at |-> at, invalid |-> yes]
    BY ONLY <2>2, <1>3
  <2>4. PICK r : r = replay'
    OBVIOUS
  <2>5. r = [update |-> u, at |-> at, invalid |-> yes] /\ r.update = u /\ r.at = at
        /\ r = [update |-> r.update, at |-> r.at, invalid |-> r.invalid]
    BY <2>3, <2>4
  <2>6. ASSUME NEW s \in u.seals PROVE ProvesAt(log, committed, head, r, s)
    <3>1. ProvesAt(log, committed, head, replay, s) /\ replay.at = at
      BY <1>3
    <3> QED BY <2>5, <3>1 DEF ProvesAt
  <2> QED BY <1>3, <2>4, <2>5, <2>6 DEF ReplaysAt
<1>8. CASE /\ e.previous = indexed_event(a, n)
           /\ e.sequence = t.sequence => e = t /\ e.policy = head
           /\ replay' = [replay EXCEPT !.at[a] = @ + 1]
  <2>1. PICK r, bt : r = replay' /\ bt = [at EXCEPT ![a] = n + 1]
    OBVIOUS
  <2>2. r = [update |-> u, at |-> bt, invalid |-> v]
    <3>1. r = [replay EXCEPT !.at[a] = n + 1]
      BY <1>1, <1>8, <2>1
    <3>2. bt = [at EXCEPT ![a] = n + 1] /\ replay = [update |-> u, at |-> at, invalid |-> v]
      BY <1>3, <2>1
    <3> QED BY ONLY <3>1, <3>2
  <2>3. r.update = u /\ r.at = bt /\ r = [update |-> r.update, at |-> r.at, invalid |-> r.invalid]
    BY ONLY <2>2
  <2>4. /\ bt = [x \in {s.author : s \in u.seals} |-> bt[x]]
        /\ bt[a] = n + 1
        /\ \A x \in {s.author : s \in u.seals} : x # a => bt[x] = at[x]
    <3>1. a \in DOMAIN at
      BY <1>3, <1>4
    <3> QED BY ONLY <1>3, <2>1, <3>1
  <2>5. e = EventAt(log, a, n + 1) /\ e.previous = EventAt(log, a, n) /\ e.sequence = n + 1
    <3>1. e = EventAt(log, a, n + 1) /\ e.previous = EventAt(log, a, n)
      BY <1>1, <1>8, Indices
    <3> QED BY <3>1, <1>2, Basics, EventAtFacts DEF PolicyLog
  <2>6. LinkedAt(log, a, n + 1)
    <3>1. \A k \in 1..(n + 1) : k \in 1..n \/ (k = n + 1 /\ k - 1 = n)
      BY <1>6
    <3> QED BY <1>2, <1>6, <2>5, <3>1 DEF LinkedAt
  <2>7. ASSUME NEW s \in u.seals PROVE ProvesAt(log, committed, head, r, s)
    <3>1. ProvesAt(log, committed, head, replay, s) /\ replay.at = at
      BY <1>3
    <3>2. CASE s.author = a
      <4>1. s = t
        BY <1>4, <3>2
      <4>2. n + 1 \in b..t.sequence
        BY <1>4, <1>5, <1>6
      <4>3. n + 1 = t.sequence => EventAt(log, a, t.sequence) = t /\ t.policy = head
        BY <1>8, <2>5
      <4> QED BY <1>4, <1>5, <2>3, <2>4, <2>6, <3>1, <4>1, <4>2, <4>3 DEF ProvesAt
    <3>3. CASE s.author # a
      <4>1. r.at[s.author] = at[s.author]
        BY <2>3, <2>4, <3>3
      <4> QED BY <3>1, <4>1 DEF ProvesAt
    <3> QED BY <3>2, <3>3
  <2> QED BY <1>3, <2>1, <2>3, <2>4, <2>7 DEF ReplaysAt
<1> QED BY <1>2, <1>7, <1>8

\* What may happen to the replay.
LEMMA ReplayStep ==
    ASSUME [Next]_vars
    PROVE  \/ replay' = NoReplay
           \/ replay' = replay /\ committed' = committed
           \/ prepare_replay
           \/ advance_policy
<1> DEFINE P == \/ replay' = NoReplay
                \/ replay' = replay /\ committed' = committed
                \/ prepare_replay
                \/ advance_policy
<1>1. ASSUME NEW op, send(op) \/ set_writers(op) PROVE P
  BY <1>1 DEF send, set_writers, Reserve, disk
<1>2. ASSUME NEW f, receive(f) PROVE P
  BY <1>2 DEF receive
<1>3. ASSUME reconcile \/ expand_limits \/ finish_reserved PROVE P
  BY <1>3, Zenon DEF reconcile, expand_limits, finish_reserved, disk
<1>4. ASSUME finish_refused \/ finished PROVE P
  BY <1>4, Zenon DEF finish_refused, finished, disk
<1>5. ASSUME policies_done \/ next_author \/ authors_done \/ commit_policy PROVE P
  BY <1>5, Zenon DEF policies_done, next_author, authors_done, commit_policy, disk
<1>6. ASSUME anchor_ready \/ anchor_frame \/ chain_frame \/ scan_frame \/ author_done PROVE P
  BY <1>6, Zenon DEF anchor_ready, anchor_frame, chain_frame, scan_frame, author_done, Becomes, disk
<1>7. ASSUME open \/ Crash \/ sign_and_die PROVE P
  BY <1>7, Zenon DEF open, Crash, sign_and_die, Die, disk
<1>8. ASSUME UNCHANGED vars PROVE P
  BY <1>8 DEF vars, disk, memory
<1>9. ASSUME prepare_replay \/ advance_policy PROVE P
  BY <1>9
<1> HIDE DEF P
<1>10. P
  BY <1>1, <1>2, <1>3, <1>4, <1>5, <1>6, <1>7, <1>8, <1>9, Zenon DEF Next, Step
<1> QED BY <1>10 DEF P

\* What a replay has proved stays proved until its policy is closed.
LEMMA ReplayingStep ==
    ASSUME RoomInv, [Next]_vars
    PROVE  Replaying'
<1>0. room' = room
  BY LogStep
<1>1. CASE replay' = NoReplay
  BY <1>1, ReplayingAt DEF ReplaysAt
<1>2. CASE replay' = replay /\ committed' = committed
  <2>1. head' = head
    BY <1>0, <1>2 DEF head, Genesis
  <2>2. PICK r, C, h : r = replay /\ C = committed /\ h = head
    OBVIOUS
  <2>3. ReplaysAt(log, C, h, r)
    BY <2>2, ReplayingAt DEF RoomInv
  <2>4. CASE r = NoReplay
    BY <1>1, <1>2, <2>2, <2>4
  <2>5. CASE r # NoReplay
    <3>1. PolicyAt(log', h.revision + 1) = PolicyAt(log, h.revision + 1)
      BY <2>3, <2>5, Growth DEF ReplaysAt
    <3>2. ASSUME NEW s \in r.update.seals PROVE ProvesAt(log', C, h, r, s)
      <4>1. PICK a, n : a = s.author /\ n = r.at[s.author]
        OBVIOUS
      <4>2. ProvesAt(log, C, h, r, s)
        BY <2>3, <2>5 DEF ReplaysAt
      <4>3. s # Zero /\ s.sequence \in 1..MaxSeq
        BY <2>2, <2>5, ReplayFacts
      <4>4. n \in Nat
        <5>1. SealUnder(C, Len(C), a).sequence \in 0..MaxSeq
          BY <2>2, Basics, SealedFacts, SealsOf
        <5> QED BY <4>1, <4>2, <4>3, <5>1, RoomAssumption DEF ProvesAt
      <4>5. LinkedAt(log, a, n)
        BY <4>1, <4>2 DEF ProvesAt
      <4>6. ASSUME NEW k \in 0..n PROVE EventAt(log', a, k) = EventAt(log, a, k)
        <5>1. CASE k = 0
          BY <5>1, Growth
        <5>2. CASE k # 0
          BY <4>4, <4>5, <5>2, Growth DEF LinkedAt
        <5> QED BY <5>1, <5>2
      <4>7. LinkedAt(log', a, n)
        <5>1. \A k \in 1..n : k \in 0..n /\ k - 1 \in 0..n
          BY <4>4
        <5> QED BY <4>5, <4>6, <5>1 DEF LinkedAt
      <4>8. EventAt(log, a, s.sequence) = s => EventAt(log', a, s.sequence) = s
        BY <4>3, Growth
      <4> QED BY <4>1, <4>2, <4>7, <4>8 DEF ProvesAt
    <3>3. ReplaysAt(log', C, h, r)
      BY <2>3, <2>5, <3>1, <3>2 DEF ReplaysAt
    <3> QED BY <1>2, <2>1, <2>2, <3>3, ReplayingAt
  <2> QED BY <2>4, <2>5
<1>3. CASE prepare_replay
  <2>1. PICK p, C : p = Next1 /\ C = committed
    OBVIOUS
  <2>2. /\ p # Zero /\ Prepares(p) /\ UNCHANGED <<room, disk>>
        /\ replay' = [update |-> p, invalid |-> FALSE,
                      at |-> [a \in {s.author : s \in p.seals} |-> sealed_head(a).sequence]]
    BY <1>3, <2>1 DEF prepare_replay, MayReplay
  <2>3. log' = log /\ committed' = committed /\ head' = head
    BY <2>2 DEF disk, head, Genesis
  <2>4. PICK r, at : /\ r = replay' /\ at = [a \in {s.author : s \in p.seals} |-> sealed_head(a).sequence]
                     /\ r = [update |-> p, invalid |-> FALSE, at |-> at]
    BY <2>2
  <2>5. /\ r = [update |-> r.update, at |-> r.at, invalid |-> r.invalid]
        /\ r.at = [a \in {s.author : s \in r.update.seals} |-> r.at[a]]
        /\ r.update = p /\ r.at = at
        /\ \A s \in p.seals : at[s.author] = sealed_head(s.author).sequence
    BY <2>4
  <2>6. p = PolicyAt(log, head.revision + 1) /\ p.previous = head
    BY <2>1, <2>2, Indices DEF Next1, Prepares
  <2>7. p.kind = "policy" /\ WellFormed(p)
    <3>1. p \in Range(log) /\ p.kind = "policy"
      BY <2>2, <2>6, Basics, PolicyAtFacts DEF PolicyLog
    <3> QED BY <3>1 DEF RoomInv, Shapes
  <2>8. ASSUME NEW s \in p.seals PROVE ProvesAt(log, C, head, r, s)
    <3>1. PICK a, seal : a = s.author /\ seal = sealed_head(a)
      OBVIOUS
    <3>2. a \in head.writers /\ s.sequence > seal.sequence
      BY <2>2, <3>1 DEF Prepares
    <3>3. /\ seal = SealUnder(C, Len(C), a) /\ Linked(a, seal.sequence)
          /\ seal.sequence \in 0..MaxSeq
      BY <2>1, <3>1, Basics, SealedFacts, SealsOf DEF sealed_head
    <3>4. s.sequence \in 1..MaxSeq
      BY <2>7 DEF WellFormed
    <3>5. /\ seal.sequence < s.sequence /\ seal.sequence \in seal.sequence..s.sequence
          /\ seal.sequence # s.sequence
      BY <3>2, <3>3, <3>4, RoomAssumption
    <3>6. LinkedAt(log, a, seal.sequence)
      BY <3>3, ClosedAt
    <3>7. r.at[a] = seal.sequence
      BY <2>5, <3>1
    <3> QED BY <3>1, <3>2, <3>3, <3>5, <3>6, <3>7 DEF ProvesAt
  <2>9. ReplaysAt(log, C, head, r)
    BY <2>2, <2>5, <2>6, <2>8 DEF ReplaysAt
  <2> QED BY <2>1, <2>3, <2>4, <2>9, ReplayingAt
<1>4. CASE advance_policy
  <2>1. log' = log /\ committed' = committed
    BY <1>4, Zenon DEF advance_policy, disk
  <2>2. head' = head
    BY <1>0, <2>1 DEF head, Genesis
  <2> QED BY <1>4, <2>1, <2>2, AdvanceFacts, ReplayingAt
<1> QED BY <1>1, <1>2, <1>3, <1>4, ReplayStep

-----------------------------------------------------------------------------
(* A live session has observed what a reopened one would.                  *)

\* A frame is retained, from outside or from the emergency slot.
LEMMA RetainSeen ==
    ASSUME RoomInv, pc # "closed", NEW f, WellFormed(f), f \notin Range(log),
           image.blocked \in {Zero, f},
           NEW t, t = IF f.kind = "event" THEN seen
                      ELSE replay_observation(seen,
                              IF Conflicts(f) THEN indexed_policy(f.revision) ELSE f, f)
    PROVE  t = SeenOf(Append(log, f), committed, room.observed, Zero)
<1>1. PICK L, C, m, s : L = log /\ C = committed /\ m = room.observed /\ s = SeenOf(L, C, m, Zero)
  OBVIOUS
<1>2. PolicyLog(L) /\ Len(C) \in Nat /\ m \in Nat /\ Zero.kind # "policy"
  BY <1>1, Basics DEF Zero
<1>3. seen = SeenOf(L, C, m, image.blocked)
  BY <1>1, Observations DEF RoomInv, SeenRebuilt
<1>4. CASE f.kind = "event"
  <2>1. SeenOf(Append(L, f), C, m, Zero) = s
    BY <1>1, <1>2, <1>4, SeenAppend
  <2>2. SeenOf(L, C, m, image.blocked) = s
    BY <1>1, <1>2, <1>4 DEF SeenOf
  <2> QED BY <1>1, <1>3, <1>4, <2>1, <2>2
<1>5. CASE f.kind # "event"
  <2>1. f.kind = "policy" /\ f.revision \in Nat
    BY <1>5 DEF WellFormed
  <2>2. PICK first : first = PolicyAt(Append(L, f), f.revision)
    OBVIOUS
  <2>3. Framed(L)
    BY <1>2 DEF PolicyLog
  <2>4. first = IF PolicyAt(L, f.revision) # Zero THEN PolicyAt(L, f.revision) ELSE f
    BY <2>1, <2>2, <2>3, PolicyAtAppend
  <2>5. PolicyAt(L, f.revision) # f
    BY <1>1, <2>3, PolicyAtFacts DEF WellFormed, Zero
  <2>6. first = IF Conflicts(f) THEN indexed_policy(f.revision) ELSE f
    BY <1>1, <2>1, <2>4, <2>5, Indices DEF Conflicts
  <2>7. t = Observe(C, m, seen, first, f)
    BY <1>1, <1>5, <2>6, Observations
  <2>8. SeenOf(Append(L, f), C, m, Zero) = Observe(C, m, s, first, f)
    BY <1>1, <1>2, <2>1, <2>2, SeenAppend
  <2>9. CASE image.blocked = Zero
    BY <1>1, <1>3, <2>7, <2>8, <2>9
  <2>10. CASE image.blocked = f
    <3>1. seen = Observe(C, m, s, PolicyAt(L, f.revision), f)
      BY <1>1, <1>2, <1>3, <2>1, <2>10 DEF SeenOf
    <3>2. seen = Observe(C, m, s, first, f)
      <4>1. CASE PolicyAt(L, f.revision) = Zero
        <5>1. Observe(C, m, s, Zero, f) = Observe(C, m, s, f, f)
          BY ObserveFirst
        <5> QED BY <2>4, <3>1, <4>1, <5>1
      <4>2. CASE PolicyAt(L, f.revision) # Zero
        BY <2>4, <3>1, <4>2
      <4> QED BY <4>1, <4>2
    <3>3. Sound(C, m, s)
      <4>1. Zero.kind = "policy" => Zero.revision \in Nat
        BY <1>2
      <4> QED BY <1>1, <1>2, <4>1, SeenFacts
    <3>4. Observe(C, m, seen, first, f) = seen
      BY <1>2, <2>1, <3>2, <3>3, ObserveTwice
    <3> QED BY <1>1, <2>7, <2>8, <3>2, <3>4
  <2> QED BY <2>9, <2>10
<1> QED BY <1>4, <1>5

\* A policy of the emergency slot that is retained too leaves it.
LEMMA UnblockSeen ==
    ASSUME RoomInv, pc # "closed", image.blocked \in Range(log),
           NEW t, t = replay_observation(seen, indexed_policy(image.blocked.revision), image.blocked)
    PROVE  t = SeenOf(log, committed, room.observed, Zero)
<1>1. PICK L, C, m, p : L = log /\ C = committed /\ m = room.observed /\ p = image.blocked
  OBVIOUS
<1>2. PolicyLog(L) /\ Len(C) \in Nat /\ m \in Nat /\ Zero.kind # "policy" /\ p \in Range(L)
  BY <1>1, Basics DEF Zero
<1>3. p.kind = "policy"
  BY <1>1, <1>2 DEF RoomInv, Slot, Events, PolicyLog, Framed
<1>4. seen = SeenOf(L, C, m, p)
  BY <1>1, Observations DEF RoomInv, SeenRebuilt
<1>5. t = Observe(C, m, seen, PolicyAt(L, p.revision), p)
  BY <1>1, Observations, Indices
<1>6. Observe(C, m, SeenOf(L, C, m, p), PolicyAt(L, p.revision), p) = SeenOf(L, C, m, Zero)
  BY <1>2, <1>3, SeenAgain
<1> QED BY <1>1, <1>4, <1>5, <1>6

\* A frame goes to the empty emergency slot.
LEMMA FenceSeen ==
    ASSUME RoomInv, pc # "closed", image.blocked = Zero, NEW f, WellFormed(f),
           NEW t, t = IF f.kind = "policy"
                      THEN replay_observation(seen, indexed_policy(f.revision), f) ELSE seen
    PROVE  t = SeenOf(log, committed, room.observed, f)
<1>1. PICK L, C, m : L = log /\ C = committed /\ m = room.observed
  OBVIOUS
<1>2. seen = SeenOf(L, C, m, Zero) /\ Zero.kind # "policy"
  BY <1>1, Observations DEF RoomInv, SeenRebuilt, Zero
<1>3. seen = After(L, C, m, Len(L))
  BY <1>2 DEF SeenOf
<1>4. \A first : replay_observation(seen, first, f) = Observe(C, m, seen, first, f)
  BY <1>1, Observations
<1> QED BY <1>1, <1>3, <1>4, Indices DEF SeenOf

\* The session signs and retains what it reserved.
LEMMA FinishSeen ==
    ASSUME RoomInv, NEW op, NEW f, Finishing(op, f)
    PROVE  seen' = SeenOf(log', committed, room.observed, Zero)
<1>1. /\ pc = "finish" /\ WellFormed(f) /\ MayFinish(f)
      /\ log' = (IF f \in Range(log) THEN log ELSE Append(log, f))
      /\ \/ f.kind = "event" /\ seen' = seen
         \/ f.kind = "policy" /\ seen' = replay_observation(seen, f, f)
  BY Zenon DEF Finishing
<1>2. image.blocked = Zero
  BY <1>1 DEF MayFinish, writable
<1>3. PICK L, C, m : L = log /\ C = committed /\ m = room.observed
  OBVIOUS
<1>4. PolicyLog(L) /\ Framed(L) /\ Len(C) \in Nat /\ m \in Nat /\ Zero.kind # "policy"
  BY <1>3, Basics DEF Zero, PolicyLog
<1>5. seen = SeenOf(L, C, m, Zero)
  BY <1>1, <1>2, <1>3, Observations DEF RoomInv, SeenRebuilt
<1>6. f.kind = "policy" => PolicyAt(L, f.revision) \in {Zero, f}
  BY <1>1, <1>3, Indices DEF MayFinish
<1>7. CASE f \in Range(log)
  <2>1. CASE f.kind = "event"
    BY <1>1, <1>3, <1>5, <1>7, <2>1
  <2>2. CASE f.kind = "policy"
    <3>1. PolicyAt(L, f.revision) = f
      BY <1>3, <1>4, <1>6, <1>7, <2>2, PolicyAtFacts
    <3>2. \A p \in Range(L) : p.kind = "policy" =>
             Observe(C, m, seen, PolicyAt(L, p.revision), p) = seen
      BY <1>4, <1>5, SeenFacts
    <3>3. Observe(C, m, seen, f, f) = seen
      BY <1>3, <1>7, <2>2, <3>1, <3>2
    <3>4. seen' = seen
      BY <1>1, <1>3, <2>2, <3>3, Observations
    <3> QED BY <1>1, <1>3, <1>5, <1>7, <3>4
  <2> QED BY <1>1, <2>1, <2>2
<1>8. CASE f \notin Range(log)
  <2>1. f.kind = "policy" => ~Conflicts(f)
    BY <1>3, <1>6, Indices DEF Conflicts
  <2>2. seen' = IF f.kind = "event" THEN seen
                ELSE replay_observation(seen, IF Conflicts(f) THEN indexed_policy(f.revision) ELSE f, f)
    BY <1>1, <2>1
  <2>3. pc # "closed" /\ image.blocked \in {Zero, f} /\ WellFormed(f)
    BY <1>1, <1>2
  <2>4. seen' = SeenOf(Append(log, f), committed, room.observed, Zero)
    BY <1>8, <2>2, <2>3, RetainSeen
  <2> QED BY <1>1, <1>8, <2>4
<1> QED BY <1>7, <1>8

\* The emergency slot never holds an event that is retained.
LEMMA SlotStep ==
    ASSUME RoomInv, [Next]_vars
    PROVE  Slot'
<1> DEFINE P == /\ image'.blocked # Zero => log' = log
                /\ \/ image'.blocked = image.blocked
                   \/ image'.blocked = Zero
                   \/ image'.blocked.kind = "policy"
                   \/ image'.blocked \notin Range(log)
<1>0. IsImage(image)
  BY DEF RoomInv, Shapes, IsImage
<1>1. ASSUME log' = log, image' = image PROVE P
  BY <1>1
<1>2. ASSUME NEW op, send(op) \/ set_writers(op) PROVE P
  <2>1. \/ image' = image
        \/ image' = [image EXCEPT !.policy = op]
        \/ image' = [image EXCEPT !.event = op]
    BY <1>2 DEF send, set_writers, Reserve, disk
  <2>2. image'.blocked = image.blocked
    BY ONLY <1>0, <2>1, ImageExcept
  <2>3. log' = log
    BY <1>2 DEF send, set_writers, Reserve, disk
  <2> QED BY <2>2, <2>3
<1>3. ASSUME NEW f \in room.offers, receive(f) PROVE P
  <2>1. /\ f \notin Range(log) /\ image.blocked = Zero
        /\ \/ image' = Marked(f)
           \/ log' = log /\ image' = [image EXCEPT !.blocked = f]
    BY <1>3, Zenon DEF receive, Retain, capacity_fence
  <2>2. CASE image' = Marked(f)
    BY <2>1, <2>2, MarkedFacts
  <2>3. CASE log' = log /\ image' = [image EXCEPT !.blocked = f]
    <3>1. image'.blocked = f
      BY ONLY <1>0, <2>3, ImageExcept
    <3> QED BY <2>1, <2>3, <3>1
  <2> QED BY <2>1, <2>2, <2>3
<1>4. ASSUME expand_limits PROVE P
  <2>1. PICK f : f = image.blocked
    OBVIOUS
  <2>2. \/ log' = log /\ image' = image
        \/ image' = [image EXCEPT !.blocked = Zero]
        \/ image' = [Marked(f) EXCEPT !.blocked = Zero]
    BY <1>4, <2>1, Zenon DEF expand_limits
  <2>3. CASE image' = [image EXCEPT !.blocked = Zero]
    <3>1. image'.blocked = Zero
      BY ONLY <1>0, <2>3, ImageExcept
    <3> QED BY <3>1
  <2>4. CASE image' = [Marked(f) EXCEPT !.blocked = Zero]
    <3>1. PICK i : i = Marked(f)
      OBVIOUS
    <3>2. IsImage(i) /\ image' = [i EXCEPT !.blocked = Zero]
      BY <2>4, <3>1, MarkedFacts
    <3>3. image'.blocked = Zero
      BY ONLY <3>2, ImageExcept
    <3> QED BY <3>3
  <2> QED BY <1>1, <2>2, <2>3, <2>4
<1>5. ASSUME finish_reserved PROVE P
  <2>1. PICK op, f : Finishing(op, f)
    BY <1>5, FinishFacts
  <2>2. image'.blocked = image.blocked /\ MayFinish(f)
    BY <2>1, Zenon DEF Finishing
  <2> QED BY <2>2 DEF MayFinish, writable
<1>6. ASSUME commit_policy PROVE P
  <2>1. replay # NoReplay /\ log' = log
    BY <1>6, CommitFacts
  <2>2. replay.update.kind = "policy"
    BY <2>1, ReplayFacts
  <2>3. image' = image \/ image' = [image EXCEPT !.blocked = replay.update]
    BY <1>6, Zenon DEF commit_policy, capacity_fence
  <2>4. CASE image' = [image EXCEPT !.blocked = replay.update]
    <3>1. image'.blocked = replay.update
      BY ONLY <1>0, <2>4, ImageExcept
    <3> QED BY <2>1, <2>2, <3>1
  <2> QED BY <2>1, <2>3, <2>4
<1>7. ASSUME \/ finish_refused \/ finished \/ prepare_replay \/ advance_policy \/ reconcile
             \/ policies_done \/ next_author \/ authors_done
      PROVE  P
  <2>1. image' = image /\ log' = log
    BY <1>7, Zenon DEF finish_refused, finished, prepare_replay, advance_policy, reconcile,
                       policies_done, next_author, authors_done, disk
  <2> QED BY <1>1, <2>1
<1>8. ASSUME anchor_ready \/ anchor_frame \/ chain_frame \/ scan_frame \/ author_done PROVE P
  <2>1. image' = image /\ log' = log
    BY <1>8, Zenon DEF anchor_ready, anchor_frame, chain_frame, scan_frame, author_done, Becomes, disk
  <2> QED BY <1>1, <2>1
<1>9. ASSUME open \/ Crash \/ sign_and_die \/ UNCHANGED vars PROVE P
  <2>1. image' = image /\ log' = log
    BY <1>9, Zenon DEF open, Crash, sign_and_die, disk, vars
  <2> QED BY <1>1, <2>1
<1> HIDE DEF P
<1>10. P
  BY <1>2, <1>3, <1>4, <1>5, <1>6, <1>7, <1>8, <1>9, Zenon DEF Next, Step
<1> QED BY <1>10 DEF P, RoomInv, Slot, Events, Zero

\* What a session observed is at every moment what a replay would find.
LEMMA SeenStep ==
    ASSUME RoomInv, [Next]_vars
    PROVE  SeenRebuilt'
<1> DEFINE P == pc' # "closed" => seen' = SeenOf(log', committed', room.observed, image'.blocked)
<1>0. /\ IsImage(image)
      /\ pc # "closed" => seen = SeenOf(log, committed, room.observed, image.blocked)
  BY Observations DEF RoomInv, Shapes, IsImage, SeenRebuilt
<1>1. ASSUME log' = log, committed' = committed, image'.blocked = image.blocked, seen' = seen,
             pc # "closed"
      PROVE  P
  BY <1>0, <1>1
<1>2. ASSUME NEW op, send(op) \/ set_writers(op) PROVE P
  <2>1. \/ image' = image
        \/ image' = [image EXCEPT !.policy = op]
        \/ image' = [image EXCEPT !.event = op]
    BY <1>2 DEF send, set_writers, Reserve, disk
  <2>2. image'.blocked = image.blocked
    BY ONLY <1>0, <2>1, ImageExcept
  <2>3. log' = log /\ committed' = committed /\ seen' = seen /\ pc # "closed"
    BY <1>2 DEF send, set_writers, Reserve, disk
  <2> QED BY <1>1, <2>2, <2>3
<1>3. ASSUME NEW f \in room.offers, receive(f) PROVE P
  <2>1. /\ f \notin Range(log) /\ image.blocked = Zero /\ pc = "idle" /\ committed' = committed
        /\ \/ Retain(f) /\ image' = Marked(f)
           \/ log' = log /\ capacity_fence(f)
    BY <1>3, Zenon DEF receive
  <2>2. WellFormed(f) /\ pc # "closed"
    BY <2>1, Basics
  <2>3. CASE Retain(f) /\ image' = Marked(f)
    <3>1. image'.blocked = Zero
      BY <2>1, <2>3, MarkedFacts
    <3>2. /\ log' = Append(log, f)
          /\ seen' = IF f.kind = "event" THEN seen
                     ELSE replay_observation(seen,
                             IF Conflicts(f) THEN indexed_policy(f.revision) ELSE f, f)
      BY <2>3, Zenon DEF Retain
    <3>3. seen' = SeenOf(Append(log, f), committed, room.observed, Zero)
      BY <2>1, <2>2, <3>2, RetainSeen
    <3> QED BY <2>1, <3>1, <3>2, <3>3
  <2>4. CASE log' = log /\ capacity_fence(f)
    <3>1. /\ image' = [image EXCEPT !.blocked = f]
          /\ seen' = IF f.kind = "policy"
                     THEN replay_observation(seen, indexed_policy(f.revision), f) ELSE seen
      BY <2>4, Zenon DEF capacity_fence
    <3>2. image'.blocked = f
      BY ONLY <1>0, <3>1, ImageExcept
    <3>3. seen' = SeenOf(log, committed, room.observed, f)
      BY <2>1, <2>2, <3>1, FenceSeen
    <3> QED BY <2>1, <2>4, <3>2, <3>3
  <2> QED BY <2>1, <2>3, <2>4
<1>4. ASSUME expand_limits PROVE P
  <2>1. PICK f : f = image.blocked
    OBVIOUS
  <2>2. pc = "idle" /\ committed' = committed
    BY <1>4, Zenon DEF expand_limits
  <2>3. \/ log' = log /\ image' = image /\ seen' = seen
        \/ /\ f \in Range(log) /\ log' = log /\ image' = [image EXCEPT !.blocked = Zero]
           /\ seen' = replay_observation(seen, indexed_policy(f.revision), f)
        \/ f # Zero /\ f \notin Range(log) /\ Retain(f) /\ image' = [Marked(f) EXCEPT !.blocked = Zero]
    BY <1>4, <2>1, Zenon DEF expand_limits
  <2>4. CASE log' = log /\ image' = image /\ seen' = seen
    BY <1>1, <2>2, <2>4
  <2>5. CASE /\ f \in Range(log) /\ log' = log /\ image' = [image EXCEPT !.blocked = Zero]
             /\ seen' = replay_observation(seen, indexed_policy(f.revision), f)
    <3>1. image' = [image EXCEPT !.blocked = Zero]
      BY <2>5
    <3>2. image'.blocked = Zero
      BY ONLY <1>0, <3>1, ImageExcept
    <3>3. seen' = SeenOf(log, committed, room.observed, Zero)
      BY <2>1, <2>2, <2>5, UnblockSeen
    <3> QED BY <2>2, <2>5, <3>2, <3>3
  <2>6. CASE f # Zero /\ f \notin Range(log) /\ Retain(f) /\ image' = [Marked(f) EXCEPT !.blocked = Zero]
    <3>1. PICK i : i = Marked(f)
      OBVIOUS
    <3>2. IsImage(i) /\ image' = [i EXCEPT !.blocked = Zero]
      BY <2>6, <3>1, MarkedFacts
    <3>3. image'.blocked = Zero
      BY ONLY <3>2, ImageExcept
    <3>4. /\ log' = Append(log, f)
          /\ seen' = IF f.kind = "event" THEN seen
                     ELSE replay_observation(seen,
                             IF Conflicts(f) THEN indexed_policy(f.revision) ELSE f, f)
      BY <2>6, Zenon DEF Retain
    <3>5. WellFormed(f)
      BY <2>1, <2>6 DEF RoomInv, Shapes
    <3>6. seen' = SeenOf(Append(log, f), committed, room.observed, Zero)
      BY <2>1, <2>2, <2>6, <3>4, <3>5, RetainSeen
    <3> QED BY <2>2, <3>3, <3>4, <3>6
  <2> QED BY <2>3, <2>4, <2>5, <2>6
<1>5. ASSUME finish_reserved PROVE P
  <2>1. PICK op, f : Finishing(op, f)
    BY <1>5, FinishFacts
  <2>2. image'.blocked = image.blocked /\ MayFinish(f) /\ committed' = committed
    BY <2>1, Zenon DEF Finishing
  <2>3. image.blocked = Zero
    BY <2>2 DEF MayFinish, writable
  <2>4. seen' = SeenOf(log', committed, room.observed, Zero)
    BY <2>1, FinishSeen
  <2> QED BY <2>2, <2>3, <2>4
<1>6. ASSUME commit_policy PROVE P
  <2>1. PICK p : p = replay.update
    OBVIOUS
  <2>2. /\ replay # NoReplay /\ log' = log /\ pc = "policies"
        /\ ~seen.forked /\ ~seen.overflow /\ image.blocked = Zero
    BY <1>6, CommitFacts
  <2>3. /\ p = PolicyAt(log, Len(committed) + 1) /\ p # Zero /\ WellFormed(p) /\ p.kind = "policy"
    BY <2>1, <2>2, ReplayFacts
  <2>4. \/ /\ committed' = Append(committed, p) /\ image' = image
           /\ seen' = [seen EXCEPT !.observed = @ \ {p}]
        \/ committed' = committed /\ capacity_fence(p)
    BY <1>6, <2>1, Zenon DEF commit_policy
  <2>5. CASE /\ committed' = Append(committed, p) /\ image' = image
             /\ seen' = [seen EXCEPT !.observed = @ \ {p}]
    <3>1. PICK L, C, m, b : L = log /\ C = committed /\ m = room.observed /\ b = image.blocked
      OBVIOUS
    <3>2. /\ PolicyLog(L) /\ C \in Seq(Range(C)) /\ m \in Nat /\ b.kind # "policy"
          /\ p = PolicyAt(L, Len(C) + 1) /\ p # Zero
      BY <2>2, <2>3, <3>1, Basics DEF Zero
    <3>3. seen = SeenOf(L, C, m, b) /\ ~SeenOf(L, C, m, b).forked /\ ~SeenOf(L, C, m, b).overflow
      BY <1>0, <2>2, <3>1
    <3>4. SeenOf(L, Append(C, p), m, b) = Without(SeenOf(L, C, m, b), p)
      BY ONLY <3>2, <3>3, SeenCommit
    <3>5. seen' = Without(seen, p)
      BY <2>5 DEF Without
    <3> QED BY <2>2, <2>5, <3>1, <3>3, <3>4, <3>5
  <2>6. CASE committed' = committed /\ capacity_fence(p)
    <3>1. /\ image' = [image EXCEPT !.blocked = p]
          /\ seen' = IF p.kind = "policy"
                     THEN replay_observation(seen, indexed_policy(p.revision), p) ELSE seen
      BY <2>6, Zenon DEF capacity_fence
    <3>2. image'.blocked = p
      BY ONLY <1>0, <3>1, ImageExcept
    <3>3. seen' = SeenOf(log, committed, room.observed, p)
      BY <2>2, <2>3, <3>1, FenceSeen
    <3> QED BY <2>2, <2>6, <3>2, <3>3
  <2> QED BY <2>4, <2>5, <2>6
<1>7. ASSUME \/ finish_refused \/ finished \/ prepare_replay \/ advance_policy \/ reconcile
             \/ policies_done \/ next_author \/ authors_done
      PROVE  P
  <2>1. image' = image /\ log' = log /\ committed' = committed /\ seen' = seen /\ pc # "closed"
    BY <1>7, Zenon DEF finish_refused, finished, prepare_replay, advance_policy, reconcile,
                       policies_done, next_author, authors_done, disk
  <2> QED BY <1>1, <2>1
<1>8. ASSUME anchor_ready \/ anchor_frame \/ chain_frame \/ scan_frame \/ author_done PROVE P
  <2>1. image' = image /\ log' = log /\ committed' = committed /\ seen' = seen /\ pc # "closed"
    BY <1>8, Zenon DEF anchor_ready, anchor_frame, chain_frame, scan_frame, author_done, Becomes,
                       Working, disk
  <2> QED BY <1>1, <2>1
<1>9. ASSUME open PROVE P
  <2>1. seen' = RebuiltSeen /\ image' = image /\ log' = log /\ committed' = committed
    BY <1>9, Zenon DEF open, disk
  <2> QED BY <2>1, Observations
<1>10. ASSUME Crash \/ sign_and_die PROVE P
  BY <1>10, Zenon DEF Crash, sign_and_die, Die
<1>11. ASSUME UNCHANGED vars PROVE P
  <2>1. image' = image /\ log' = log /\ committed' = committed /\ seen' = seen /\ pc' = pc
    BY <1>11, Zenon DEF vars, disk, memory
  <2> QED BY <1>0, <2>1
<1> HIDE DEF P
<1>12. P
  BY <1>2, <1>3, <1>4, <1>5, <1>6, <1>7, <1>8, <1>9, <1>10, <1>11, Zenon DEF Next, Step
<1>13. room' = room
  BY LogStep
<1> QED BY <1>12, <1>13, RebuiltNext DEF P, SeenRebuilt

-----------------------------------------------------------------------------
(* The cached chain of an author.                                          *)

\* A chain that goes on by one frame.
LEMMA LinkedNext ==
    ASSUME NEW L, NEW a, NEW n \in Nat, LinkedAt(L, a, n),
           EventAt(L, a, n + 1) # Zero, EventAt(L, a, n + 1).previous = EventAt(L, a, n)
    PROVE  LinkedAt(L, a, n + 1)
<1>1. ASSUME NEW k \in 1..n + 1
      PROVE  EventAt(L, a, k) # Zero /\ EventAt(L, a, k).previous = EventAt(L, a, k - 1)
  <2>1. CASE k = n + 1
    <3>1. k - 1 = n
      BY <2>1
    <3> QED BY <2>1, <3>1
  <2>2. CASE k # n + 1
    <3>1. k \in 1..n
      BY <2>2
    <3> QED BY <3>1 DEF LinkedAt
  <2> QED BY <2>1, <2>2
<1> QED BY <1>1 DEF LinkedAt

\* The records L of an author are found in M.
Extends(L, M, a) ==
    /\ \A e \in Range(L) : WellFormed(e)
    /\ Range(L) \subseteq Range(M)
    /\ \A n : EventAt(L, a, n) # Zero => EventAt(M, a, n) = EventAt(L, a, n)
    /\ EventAt(L, a, 0) = Zero /\ EventAt(M, a, 0) = Zero

\* What is linked in L is linked in M.
LEMMA LinkedExtends ==
    ASSUME NEW L, NEW M, NEW a, Extends(L, M, a), NEW n \in Nat, LinkedAt(L, a, n)
    PROVE  LinkedAt(M, a, n) /\ \A k \in 0..n : EventAt(M, a, k) = EventAt(L, a, k)
<1>1. ASSUME NEW k \in 0..n PROVE EventAt(M, a, k) = EventAt(L, a, k)
  <2>1. CASE k = 0
    BY <2>1 DEF Extends
  <2>2. CASE k # 0
    <3>1. k \in 1..n
      BY <2>2
    <3> QED BY <3>1 DEF Extends, LinkedAt
  <2> QED BY <2>1, <2>2
<1>2. ASSUME NEW k \in 1..n
      PROVE  EventAt(M, a, k) # Zero /\ EventAt(M, a, k).previous = EventAt(M, a, k - 1)
  <2>1. k \in 0..n /\ k - 1 \in 0..n
    OBVIOUS
  <2> QED BY <1>1, <2>1 DEF LinkedAt
<1> QED BY <1>1, <1>2 DEF LinkedAt

\* What is broken in L is broken in M.
LEMMA BrokenExtends ==
    ASSUME NEW L, NEW M, NEW a, Extends(L, M, a), BrokenAt(L, a)
    PROVE  BrokenAt(M, a)
<1>1. CASE ForkAt(L, a)
  <2>1. ForkAt(M, a)
    BY <1>1 DEF ForkAt, AuthorFork, Extends
  <2> QED BY <2>1 DEF BrokenAt
<1>2. ASSUME NEW n \in Nat, LinkedAt(L, a, n), EventAt(L, a, n + 1) # Zero,
             EventAt(L, a, n + 1).previous # EventAt(L, a, n)
      PROVE  BrokenAt(M, a)
  <2>1. LinkedAt(M, a, n) /\ EventAt(M, a, n) = EventAt(L, a, n)
    BY <1>2, LinkedExtends
  <2>2. EventAt(M, a, n + 1) = EventAt(L, a, n + 1)
    BY <1>2 DEF Extends
  <2> QED BY <1>2, <2>1, <2>2 DEF BrokenAt
<1> QED BY <1>1, <1>2 DEF BrokenAt

\* A row stays true while the log grows, when a fork and a frame behind its
\* head are noted.
LEMMA RowGrows ==
    ASSUME NEW L, NEW M, NEW a, Extends(L, M, a), NEW h, NEW low \in Nat, NEW c, NEW d,
           RowAt(L, a, h, low, c),
           d \in Rows(M, a), d.head = c.head, d.latest = c.latest, d.scan = c.scan,
           c.failure => d.failure, d.failure => c.failure \/ ForkAt(M, a),
           ForkAt(M, a) => d.failure,
           ~d.failure /\ ~d.more => EventAt(M, a, c.head.sequence + 1) = Zero
    PROVE  RowAt(M, a, h, low, d)
<1> DEFINE top == c.head.sequence
<1>1. top \in Nat
  <2>1. c.head \in EventsOf(L, a)
    BY DEF RowAt, Rows
  <2>2. \A e \in Range(L) : WellFormed(e)
    BY DEF Extends
  <2>3. c.head.sequence \in 0..MaxSeq
    BY <2>1, <2>2, EventsOfFacts
  <2> QED BY <2>3, RoomAssumption
<1>2. d.failure => BrokenAt(M, a)
  BY BrokenExtends DEF RowAt, BrokenAt
<1>3. ASSUME ~d.failure PROVE FollowsAt(M, a, h, low, d)
  <2>1. FollowsAt(L, a, h, low, c)
    BY <1>3 DEF RowAt
  <2>2. LinkedAt(L, a, top) /\ EventAt(L, a, top) = c.head
    BY <2>1 DEF FollowsAt
  <2>3. LinkedAt(M, a, top) /\ \A k \in 0..top : EventAt(M, a, k) = EventAt(L, a, k)
    BY <1>1, <2>2, LinkedExtends
  <2>4. EventAt(M, a, top) = c.head
    BY <1>1, <2>2, <2>3
  <2>5. ASSUME NEW x \in Nat, NoneOf(L, a, h, x, top) PROVE NoneOf(M, a, h, x, top)
    <3>1. \A n \in x + 1..top : n \in 0..top
      BY <1>1
    <3> QED BY <2>3, <2>5, <3>1 DEF NoneOf
  <2>6. LatestAt(M, a, h, low, d)
    <3>1. LatestAt(L, a, h, low, c)
      BY <2>1 DEF FollowsAt
    <3> HIDE DEF top
    <3>2. CASE c.scan # NoSeq
      <4>1. c.latest = Zero /\ c.scan \in low..top /\ NoneOf(L, a, h, c.scan, top)
        BY <3>1, <3>2 DEF LatestAt, top
      <4>2. c.scan \in Nat
        BY <4>1, <1>1
      <4>3. NoneOf(M, a, h, c.scan, top)
        BY <4>1, <4>2, <2>5
      <4> QED BY <3>2, <4>1, <4>3 DEF LatestAt, top
    <3>3. CASE c.scan = NoSeq /\ c.latest = Zero
      <4>1. NoneOf(L, a, h, low, top)
        BY <3>1, <3>3 DEF LatestAt, top
      <4>2. NoneOf(M, a, h, low, top)
        BY <4>1, <2>5
      <4> QED BY <3>3, <4>2 DEF LatestAt, top
    <3>4. CASE c.scan = NoSeq /\ c.latest # Zero
      <4>1. /\ c.latest.sequence \in low + 1..top
            /\ EventAt(L, a, c.latest.sequence) = c.latest /\ c.latest.policy = h
            /\ NoneOf(L, a, h, c.latest.sequence, top)
        BY <3>1, <3>4 DEF LatestAt, top
      <4>2. c.latest.sequence \in 0..top /\ c.latest.sequence \in Nat
        BY <4>1, <1>1
      <4>3. NoneOf(M, a, h, c.latest.sequence, top)
        BY <4>1, <4>2, <2>5
      <4>4. EventAt(M, a, c.latest.sequence) = c.latest
        BY <4>1, <4>2, <2>3
      <4> QED BY <3>4, <4>1, <4>3, <4>4 DEF LatestAt, top
    <3> QED BY <3>2, <3>3, <3>4
  <2> QED BY <1>3, <2>3, <2>4, <2>6 DEF FollowsAt
<1> QED BY <1>2, <1>3 DEF RowAt

\* The head and the last seals move only when a policy is closed.
LEMMA HeadStays ==
    ASSUME committed' = committed, room' = room
    PROVE  head' = head /\ Genesis' = Genesis
BY DEF head, Genesis

\* Every step extends the records of every author.
LEMMA ExtendsStep ==
    ASSUME RoomInv, [Next]_vars
    PROVE  /\ \A a : Extends(log, log', a)
           /\ \A a : EventsOf(log, a) \subseteq EventsOf(log', a)
<1>1. \A f \in Range(log) : WellFormed(f)
  BY DEF RoomInv, Shapes
<1>2. Range(log) \subseteq Range(log')
  BY Growth
<1> QED BY <1>1, <1>2, Growth DEF Extends, EventsOf

\* The last seal of an author, with the chain behind it.
LEMMA LastSealFacts ==
    ASSUME RoomInv, NEW a
    PROVE  /\ LastSeal(committed, a) = sealed_head(a).sequence
           /\ LastSeal(committed, a) \in 0..MaxSeq /\ LastSeal(committed, a) \in Nat
           /\ sealed_head(a) \in EventsOf(log, a)
           /\ sealed_head(a) = Zero \/ sealed_head(a).sequence > 0
           /\ LinkedAt(log, a, sealed_head(a).sequence)
           /\ EventAt(log, a, sealed_head(a).sequence) = sealed_head(a)
<1>1. Len(committed) \in 0..Len(committed)
  BY Basics
<1>2. sealed_head(a) = SealedUnder(Len(committed), a)
  BY DEF sealed_head
<1>3. LastSeal(committed, a) = sealed_head(a).sequence
  BY SealsOf DEF LastSeal
<1>4. /\ sealed_head(a).sequence \in 0..MaxSeq
      /\ sealed_head(a) \in EventsOf(log, a)
      /\ sealed_head(a) = Zero \/ sealed_head(a).sequence > 0
      /\ Linked(a, sealed_head(a).sequence)
      /\ indexed_event(a, sealed_head(a).sequence) = sealed_head(a)
  BY <1>1, <1>2, SealedFacts
<1> QED BY <1>3, <1>4, Indices, ClosedAt, RoomAssumption

\* A row after event_persisted.
Touched(c, x, y) == [c EXCEPT !.failure = x, !.more = y]

\* The cache while the log grows: a row is either left alone or touched.
LEMMA CachedGrows ==
    ASSUME RoomInv, [Next]_vars, pc # "closed", committed' = committed,
           cache' = [a \in DOMAIN cache |-> cache'[a]],
           \A a \in DOMAIN cache :
              \/ /\ cache'[a] = cache[a]
                 /\ ForkAt(log', a) => ForkAt(log, a)
                 /\ \A n : EventAt(log', a, n) = EventAt(log, a, n)
              \/ \E x, y \in BOOLEAN :
                    /\ cache'[a] = Touched(cache[a], x, y)
                    /\ x <=> cache[a].failure \/ ForkAt(log', a)
                    /\ cache[a].more => y
                    /\ ~x /\ ~y => EventAt(log', a, cache[a].head.sequence + 1) = Zero
    PROVE  Cached'
<1>1. room' = room
  BY LogStep
<1>2. head' = head
  BY <1>1, HeadStays
<1>3. DOMAIN cache = head.writers \cup {Me}
  <2>1. cache = [a \in head.writers \cup {Me} |-> cache[a]]
    BY DEF RoomInv, Cached
  <2> QED BY <2>1
<1>4. ASSUME NEW a \in DOMAIN cache
      PROVE  RowAt(log', a, head, LastSeal(committed, a), cache'[a])
  <2>1. PICK c, d, low, M : c = cache[a] /\ d = cache'[a] /\ low = LastSeal(committed, a) /\ M = log'
    OBVIOUS
  <2>2. /\ RowAt(log, a, head, low, c) /\ c \in Rows(log, a) /\ low \in Nat
        /\ Extends(log, M, a) /\ EventsOf(log, a) \subseteq EventsOf(M, a)
    BY <1>3, <2>1, RowFacts, LastSealFacts, ExtendsStep
  <2>3. c.failure \in BOOLEAN /\ c.more \in BOOLEAN
    BY <2>2 DEF Rows
  <2>4. ForkAt(log, a) => c.failure
    BY <2>2 DEF RowAt
  <2>5. ~c.failure /\ ~c.more => EventAt(log, a, c.head.sequence + 1) = Zero
    BY <2>2 DEF RowAt, FollowsAt
  <2>6. CASE /\ d = c
             /\ ForkAt(M, a) => ForkAt(log, a)
             /\ \A n : EventAt(M, a, n) = EventAt(log, a, n)
    <3>1. c \in Rows(M, a)
      BY <2>2 DEF Rows
    <3>2. ForkAt(M, a) => c.failure
      BY <2>4, <2>6
    <3>3. ~c.failure /\ ~c.more => EventAt(M, a, c.head.sequence + 1) = Zero
      BY <2>5, <2>6
    <3>4. RowAt(M, a, head, low, c)
      BY ONLY <2>2, <3>1, <3>2, <3>3, RowGrows
    <3> QED BY <2>1, <2>6, <3>4
  <2>7. ASSUME NEW x \in BOOLEAN, NEW y \in BOOLEAN, d = Touched(c, x, y),
               x <=> c.failure \/ ForkAt(M, a), c.more => y,
               ~x /\ ~y => EventAt(M, a, c.head.sequence + 1) = Zero
        PROVE  RowAt(M, a, head, low, d)
    <3>0. x \in BOOLEAN /\ y \in BOOLEAN /\ d = Touched(c, x, y)
      BY <2>7
    <3>1. /\ d \in Rows(M, a) /\ d.head = c.head /\ d.latest = c.latest /\ d.scan = c.scan
          /\ d.failure = x /\ d.more = y
      BY ONLY <2>2, <3>0 DEF Touched, Rows
    <3>2. /\ c.failure => d.failure
          /\ d.failure => c.failure \/ ForkAt(M, a)
          /\ ForkAt(M, a) => d.failure
          /\ ~d.failure /\ ~d.more => EventAt(M, a, c.head.sequence + 1) = Zero
      BY <2>7, <3>1
    <3> QED BY ONLY <2>2, <3>1, <3>2, RowGrows
  <2> QED BY <2>1, <2>6, <2>7
<1>5. DOMAIN cache' = DOMAIN cache
  OBVIOUS
<1>6. \A a \in DOMAIN cache' : RowAt(log', a, head', LastSeal(committed', a), cache'[a])
  BY <1>2, <1>4, <1>5
<1>7. cache' = [a \in head'.writers \cup {Me} |-> cache'[a]]
  BY <1>2, <1>3
<1> QED BY <1>6, <1>7 DEF Cached

\* A policy or nothing is retained, and the cache is left alone.
LEMMA CachedQuiet ==
    ASSUME RoomInv, [Next]_vars, pc # "closed", committed' = committed, cache' = cache,
           log' = log \/ \E p : p.kind = "policy" /\ log' = Append(log, p)
    PROVE  Cached'
<1>1. PICK L, M : L = log /\ M = log'
  OBVIOUS
<1>2. Framed(L)
  BY <1>1, Basics DEF PolicyLog
<1>3. /\ \A a, n : EventAt(M, a, n) = EventAt(L, a, n)
      /\ {e \in Range(M) : e.kind = "event"} = {e \in Range(L) : e.kind = "event"}
  <2>1. CASE M = L
    BY <2>1
  <2>2. ASSUME NEW p, p.kind = "policy", M = Append(L, p)
        PROVE  /\ \A a, n : EventAt(M, a, n) = EventAt(L, a, n)
               /\ {e \in Range(M) : e.kind = "event"} = {e \in Range(L) : e.kind = "event"}
    <3>1. Range(M) = Range(L) \cup {p}
      BY <1>2, <2>2, FramedAppend
    <3>2. ASSUME NEW a, NEW n PROVE EventAt(M, a, n) = EventAt(L, a, n)
      <4>1. EventAt(M, a, n) = IF EventAt(L, a, n) # Zero THEN EventAt(L, a, n) ELSE Zero
        BY <1>2, <2>2, EventAtAppend
      <4> QED BY <4>1
    <3> QED BY <2>2, <3>1, <3>2
  <2> QED BY <1>1, <2>1, <2>2
<1>4. \A a : ForkAt(M, a) = ForkAt(L, a)
  BY <1>3 DEF ForkAt
<1>5. cache' = [a \in DOMAIN cache |-> cache'[a]]
  <2>1. cache = [a \in head.writers \cup {Me} |-> cache[a]]
    BY DEF RoomInv, Cached
  <2> QED BY <2>1
<1>6. \A a \in DOMAIN cache :
          /\ cache'[a] = cache[a]
          /\ ForkAt(log', a) => ForkAt(log, a)
          /\ \A n : EventAt(log', a, n) = EventAt(log, a, n)
  BY <1>1, <1>3, <1>4
<1> QED BY <1>5, <1>6, CachedGrows

\* event_persisted, for one author.
LEMMA EventPersisted ==
    ASSUME NEW old, old = [a \in DOMAIN old |-> old[a]], NEW events, NEW e, NEW t,
           t = event_persisted(old, events, e)
    PROVE  /\ t = [a \in DOMAIN old |-> t[a]]
           /\ \A a \in DOMAIN old : a # e.author => t[a] = old[a]
           /\ e.author \in DOMAIN old => \E x, y \in BOOLEAN :
                 /\ t[e.author] = Touched(old[e.author], x, y)
                 /\ x <=> old[e.author].failure \/ AuthorFork(events, e.author)
                 /\ y <=> old[e.author].more \/ e.sequence > old[e.author].head.sequence
<1>1. CASE e.author \notin DOMAIN old
  BY <1>1 DEF event_persisted
<1>2. CASE e.author \in DOMAIN old
  <2>1. PICK a, c, x, y :
            /\ a = e.author /\ c = old[a]
            /\ x = (c.failure \/ AuthorFork(events, a))
            /\ y = (c.more \/ e.sequence > c.head.sequence)
    OBVIOUS
  <2>2. t = [old EXCEPT ![a].failure = x, ![a].more = y]
    BY <1>2, <2>1 DEF event_persisted
  <2>3. x \in BOOLEAN /\ y \in BOOLEAN
    BY <2>1
  <2>4. t = [old EXCEPT ![a] = Touched(c, x, y)]
    BY <1>2, <2>1, <2>2 DEF Touched
  <2>5. /\ t = [b \in DOMAIN old |-> t[b]] /\ t[a] = Touched(c, x, y)
        /\ \A b \in DOMAIN old : b # a => t[b] = old[b]
    BY <1>2, <2>1, <2>4
  <2> QED BY <2>1, <2>3, <2>5
<1> QED BY <1>1, <1>2

\* An event is retained, or was there.
LEMMA CachedEvent ==
    ASSUME RoomInv, [Next]_vars, pc # "closed", committed' = committed,
           NEW e, WellFormed(e), e.kind = "event", log' = log \/ log' = Append(log, e),
           Range(log') = Range(log) \cup {e},
           cache' = event_persisted(cache, Events \cup {e}, e)
    PROVE  Cached'
<1>1. PICK L, M, old : L = log /\ M = log' /\ old = cache
  OBVIOUS
<1>2. Framed(L) /\ (M = L \/ M = Append(L, e)) /\ Range(M) = Range(L) \cup {e}
  BY <1>1, Basics DEF PolicyLog
<1>3. old = [a \in head.writers \cup {Me} |-> old[a]]
  BY <1>1 DEF RoomInv, Cached
<1>4. {x \in Range(M) : x.kind = "event"} = Events \cup {e}
  BY <1>1, <1>2 DEF Events
<1>5. \A a : ForkAt(M, a) = AuthorFork(Events \cup {e}, a)
  BY <1>4 DEF ForkAt
<1>6. /\ cache' = [a \in DOMAIN old |-> cache'[a]]
      /\ \A a \in DOMAIN old : a # e.author => cache'[a] = old[a]
      /\ e.author \in DOMAIN old => \E x, y \in BOOLEAN :
            /\ cache'[e.author] = Touched(old[e.author], x, y)
            /\ x <=> old[e.author].failure \/ AuthorFork(Events \cup {e}, e.author)
            /\ y <=> old[e.author].more \/ e.sequence > old[e.author].head.sequence
  <2>1. old = [a \in DOMAIN old |-> old[a]]
    BY <1>3
  <2>2. PICK events, t : events = Events \cup {e} /\ t = cache'
    OBVIOUS
  <2>3. t = event_persisted(old, events, e)
    BY <1>1, <2>2
  <2>4. /\ t = [a \in DOMAIN old |-> t[a]]
        /\ \A a \in DOMAIN old : a # e.author => t[a] = old[a]
        /\ e.author \in DOMAIN old => \E x, y \in BOOLEAN :
              /\ t[e.author] = Touched(old[e.author], x, y)
              /\ x <=> old[e.author].failure \/ AuthorFork(events, e.author)
              /\ y <=> old[e.author].more \/ e.sequence > old[e.author].head.sequence
    BY ONLY <2>1, <2>3, EventPersisted
  <2> QED BY <2>2, <2>4
<1>7. ASSUME NEW a \in DOMAIN cache, a # e.author
      PROVE  /\ cache'[a] = cache[a]
             /\ ForkAt(log', a) => ForkAt(log, a)
             /\ \A n : EventAt(log', a, n) = EventAt(log, a, n)
  <2>1. cache'[a] = cache[a]
    BY <1>1, <1>6, <1>7
  <2>2. ForkAt(M, a) => ForkAt(L, a)
    BY <1>2, <1>7 DEF ForkAt, AuthorFork
  <2>3. ASSUME NEW n PROVE EventAt(M, a, n) = EventAt(L, a, n)
    <3>1. EventAt(Append(L, e), a, n) = IF EventAt(L, a, n) # Zero THEN EventAt(L, a, n) ELSE Zero
      BY <1>2, <1>7, EventAtAppend
    <3> QED BY <1>2, <3>1
  <2> QED BY <1>1, <2>1, <2>2, <2>3
<1>8. ASSUME NEW a \in DOMAIN cache, a = e.author
      PROVE  \E x, y \in BOOLEAN :
                /\ cache'[a] = Touched(cache[a], x, y)
                /\ x <=> cache[a].failure \/ ForkAt(log', a)
                /\ cache[a].more => y
                /\ ~x /\ ~y => EventAt(log', a, cache[a].head.sequence + 1) = Zero
  <2>1. PICK c : c = old[a]
    OBVIOUS
  <2>2. PICK x, y \in BOOLEAN :
            /\ cache'[a] = Touched(c, x, y)
            /\ x <=> c.failure \/ AuthorFork(Events \cup {e}, a)
            /\ y <=> c.more \/ e.sequence > c.head.sequence
    BY <1>1, <1>6, <1>8, <2>1
  <2>3. /\ RowAt(L, a, head, LastSeal(committed, a), c) /\ c.head.sequence \in 0..MaxSeq
    BY <1>1, <1>3, <2>1, RowFacts
  <2>4. ASSUME ~x, ~y PROVE EventAt(M, a, c.head.sequence + 1) = Zero
    <3>1. ~c.failure /\ ~c.more /\ ~(e.sequence > c.head.sequence)
      BY <2>2, <2>4
    <3>2. EventAt(L, a, c.head.sequence + 1) = Zero
      BY <2>3, <3>1 DEF RowAt, FollowsAt
    <3>3. e.sequence \in 1..MaxSeq
      BY DEF WellFormed
    <3>4. e.sequence # c.head.sequence + 1
      BY <2>3, <3>1, <3>3, RoomAssumption
    <3>5. EventAt(Append(L, e), a, c.head.sequence + 1) = Zero
      BY <1>2, <3>2, <3>4, EventAtAppend
    <3> QED BY <1>2, <3>2, <3>5
  <2> QED BY <1>1, <1>5, <2>1, <2>2, <2>4
<1>9. cache' = [a \in DOMAIN cache |-> cache'[a]]
  BY <1>1, <1>6
<1>10. ASSUME NEW a \in DOMAIN cache
       PROVE  \/ /\ cache'[a] = cache[a]
                 /\ ForkAt(log', a) => ForkAt(log, a)
                 /\ \A n : EventAt(log', a, n) = EventAt(log, a, n)
              \/ \E x, y \in BOOLEAN :
                    /\ cache'[a] = Touched(cache[a], x, y)
                    /\ x <=> cache[a].failure \/ ForkAt(log', a)
                    /\ cache[a].more => y
                    /\ ~x /\ ~y => EventAt(log', a, cache[a].head.sequence + 1) = Zero
  <2>1. CASE a # e.author
    BY <2>1, <1>7
  <2>2. CASE a = e.author
    BY <2>2, <1>8
  <2> QED BY <2>1, <2>2
<1> QED BY <1>9, <1>10, CachedGrows

\* The row of a writer that was not cached.
LEMMA FreshRow ==
    ASSUME NEW L, NEW a, NEW h, NEW low \in Nat, EventAt(L, a, 0) = Zero,
           NEW events, events = {e \in Range(L) : e.kind = "event"}
    PROVE  RowAt(L, a, h, low, Fresh(events, a))
<1>1. PICK yes, x : yes = TRUE /\ x = AuthorFork(events, a)
  OBVIOUS
<1>2. x \in BOOLEAN /\ yes \in BOOLEAN /\ x = ForkAt(L, a)
  BY <1>1 DEF ForkAt, AuthorFork
<1>3. PICK c : c = Fresh(events, a)
  OBVIOUS
<1>4. c = [head |-> Zero, checked |-> Zero, anchor |-> NoSeq, more |-> yes,
           failure |-> x, latest |-> Zero, scan |-> NoSeq]
  BY <1>1, <1>3 DEF Fresh
<1>5. Zero \in EventsOf(L, a)
  BY DEF EventsOf
<1>6. c \in Rows(L, a)
  BY ONLY <1>2, <1>4, <1>5 DEF Rows
<1>7. LinkedAt(L, a, 0)
  BY DEF LinkedAt
<1>8. NoneOf(L, a, h, low, 0)
  BY DEF NoneOf
<1>9. c.head = Zero /\ c.scan = NoSeq /\ c.latest = Zero /\ c.failure = x /\ c.more
  BY <1>1, <1>4
<1>10. c.head.sequence = 0
  BY <1>9 DEF Zero
<1>11. FollowsAt(L, a, h, low, c)
  BY <1>7, <1>8, <1>9, <1>10 DEF FollowsAt, LatestAt
<1> QED BY <1>1, <1>2, <1>3, <1>6, <1>9, <1>11 DEF RowAt, BrokenAt

\* A row after sync_author_cache.
Resumed(c, low) ==
    [c EXCEPT !.anchor = NoSeq, !.latest = Zero,
              !.scan = IF c.head.sequence > low THEN c.head.sequence ELSE NoSeq]
Synced(events, old, low, a) ==
    IF a \notin DOMAIN old THEN Fresh(events, a) ELSE Resumed(old[a], low)

\* A policy change looks for the latest event anew, back from the head.
LEMMA SyncRow ==
    ASSUME NEW L, \A f \in Range(L) : WellFormed(f), NEW a, NEW h, NEW low \in Nat,
           NEW g, NEW bound \in Nat, NEW c, RowAt(L, a, g, bound, c)
    PROVE  RowAt(L, a, h, low, Resumed(c, low))
<1>0. PICK d, z : d = Resumed(c, low) /\ z = IF c.head.sequence > low THEN c.head.sequence ELSE NoSeq
  OBVIOUS
<1>1. c \in Rows(L, a)
  BY DEF RowAt
<1>2. d = [head |-> c.head, checked |-> c.checked, anchor |-> NoSeq, more |-> c.more,
           failure |-> c.failure, latest |-> Zero, scan |-> z]
  <2>1. d = [c EXCEPT !.anchor = NoSeq, !.latest = Zero, !.scan = z]
    BY <1>0 DEF Resumed
  <2> QED BY ONLY <1>1, <2>1 DEF Rows
<1>3. c.head \in EventsOf(L, a) /\ c.head.sequence \in Nat
  <2>1. c.head \in EventsOf(L, a)
    BY <1>1 DEF Rows
  <2> QED BY <2>1, EventsOfFacts, RoomAssumption
<1>4. z \in Nat \cup {NoSeq}
  BY <1>0, <1>3
<1>5. Zero \in EventsOf(L, a)
  BY DEF EventsOf
<1>6. d \in Rows(L, a)
  BY <1>1, <1>2, <1>4, <1>5 DEF Rows
<1>7. d.head = c.head /\ d.more = c.more /\ d.failure = c.failure /\ d.latest = Zero /\ d.scan = z
  BY <1>2
<1>8. LatestAt(L, a, h, low, d)
  <2>1. CASE c.head.sequence > low
    <3>1. z = c.head.sequence /\ z # NoSeq /\ z \in low..c.head.sequence
      BY <1>0, <1>3, <2>1 DEF NoSeq
    <3>2. NoneOf(L, a, h, z, c.head.sequence)
      BY <1>3, <3>1 DEF NoneOf
    <3> QED BY <1>7, <3>1, <3>2 DEF LatestAt
  <2>2. CASE ~(c.head.sequence > low)
    <3>1. NoneOf(L, a, h, low, c.head.sequence)
      BY <1>3, <2>2 DEF NoneOf
    <3> QED BY <1>0, <1>7, <2>2, <3>1 DEF LatestAt
  <2> QED BY <2>1, <2>2
<1>9. ~c.failure => FollowsAt(L, a, g, bound, c)
  BY DEF RowAt
<1>10. ~c.failure => FollowsAt(L, a, h, low, d)
  BY <1>7, <1>8, <1>9 DEF FollowsAt
<1> QED BY <1>0, <1>6, <1>7, <1>10 DEF RowAt

\* The seals of the policy that is closed are the last ones.
LEMMA CommitSeals ==
    ASSUME RoomInv, commit_policy, NEW D, D = Append(committed, replay.update), NEW a
    PROVE  /\ LastSeal(D, a) = (IF a \in DOMAIN replay.at THEN Target(a) ELSE sealed_head(a)).sequence
           /\ LastSeal(D, a) \in Nat
<1>1. PICK C, p : C = committed /\ p = replay.update
  OBVIOUS
<1>2. C \in Seq(Range(C)) /\ Len(C) \in Nat /\ D = Append(C, p)
  BY <1>1, Basics
<1>3. Len(D) = Len(C) + 1 /\ D[Len(C) + 1] = p
  BY ONLY <1>2, AppendFacts
<1>4. SealUnder(D, Len(C) + 1, a) = IF Names(p, a) THEN SealIn(p, a) ELSE SealUnder(D, Len(C), a)
  BY <1>2, <1>3, SealNext
<1>5. SealUnder(D, Len(C), a) = SealUnder(C, Len(C), a)
  <2>1. Len(C) \in 0..Len(C)
    BY <1>2
  <2>2. SealUnder(Append(C, p), Len(C), a) = SealUnder(C, Len(C), a)
    BY ONLY <1>2, <2>1, SealAppend
  <2> QED BY <1>2, <2>2
<1>6. SealUnder(C, Len(C), a) = sealed_head(a)
  BY <1>1, SealsOf
<1>7. replay # NoReplay
  BY CommitFacts
<1>8. Names(p, a) <=> a \in DOMAIN replay.at
  BY <1>1, <1>7, ReplayFacts DEF Names
<1>9. SealIn(p, a) = Target(a)
  BY <1>1 DEF SealIn, Target
<1>10. a \in DOMAIN replay.at => Target(a).sequence \in 1..MaxSeq
  BY <1>7, ReplayFacts
<1>11. sealed_head(a).sequence \in Nat
  BY LastSealFacts
<1>12. LastSeal(D, a) = SealUnder(D, Len(C) + 1, a).sequence
  BY <1>3 DEF LastSeal
<1>13. LastSeal(D, a) = (IF a \in DOMAIN replay.at THEN Target(a) ELSE sealed_head(a)).sequence
  BY <1>4, <1>5, <1>6, <1>8, <1>9, <1>12
<1> QED BY <1>10, <1>11, <1>13, RoomAssumption

\* The cache after a policy was closed.
LEMMA CachedCommit ==
    ASSUME RoomInv, [Next]_vars, commit_policy, committed' = Append(committed, replay.update)
    PROVE  Cached'
<1>1. PICK p, L, D, old : p = replay.update /\ L = log /\ D = committed' /\ old = cache
  OBVIOUS
<1>2. PICK seal : seal = [a \in Range(Order) |->
                             IF a \in DOMAIN replay.at THEN Target(a) ELSE sealed_head(a)]
  OBVIOUS
<1>3. cache' = sync_author_cache(old, p.writers, seal)
  <2>1. committed # committed'
    <3>1. PICK C : C = committed
      OBVIOUS
    <3>2. C \in Seq(Range(C))
      BY <3>1, Basics
    <3>3. Len(Append(C, p)) = Len(C) + 1 /\ Len(C) \in Nat
      BY ONLY <3>2, AppendFacts
    <3> QED BY <1>1, <3>1, <3>3
  <2> QED BY <1>1, <1>2, <2>1, Zenon DEF commit_policy
<1>4. log' = L /\ pc # "closed" /\ replay # NoReplay
  BY <1>1, CommitFacts
<1>5. head' = p
  <2>1. PICK C : C = committed
    OBVIOUS
  <2>2. C \in Seq(Range(C)) /\ D = Append(C, p)
    BY <1>1, <2>1, Basics
  <2>3. Len(Append(C, p)) = Len(C) + 1 /\ Append(C, p)[Len(C) + 1] = p /\ Len(C) \in Nat
    BY ONLY <2>2, AppendFacts
  <2>4. D # <<>> /\ D[Len(D)] = p
    BY <2>2, <2>3
  <2> QED BY <1>1, <2>4 DEF head
<1>6. p.writers \cup {Me} \subseteq Range(Order)
  BY <1>1, <1>4, ReplayFacts, RoomAssumption DEF WellFormed
<1>7. /\ \A f \in Range(L) : WellFormed(f)
      /\ \A a : EventAt(L, a, 0) = Zero
      /\ Events = {e \in Range(L) : e.kind = "event"}
  BY <1>1, Growth DEF RoomInv, Shapes, Events
<1>8. old = [a \in head.writers \cup {Me} |-> old[a]]
  BY <1>1, <1>4 DEF RoomInv, Cached
<1>9. cache' = [a \in p.writers \cup {Me} |-> Synced(Events, old, seal[a].sequence, a)]
  <2>1. sync_author_cache(old, p.writers, seal)
           = [a \in p.writers \cup {Me} |-> Synced(Events, old, seal[a].sequence, a)]
    BY Zenon DEF sync_author_cache, Synced, Resumed
  <2> QED BY <1>3, <2>1
<1>10. ASSUME NEW a \in p.writers \cup {Me}
       PROVE  RowAt(L, a, p, LastSeal(D, a), cache'[a])
  <2>1. PICK low, d : low = LastSeal(D, a) /\ d = cache'[a]
    OBVIOUS
  <2>2. low \in Nat /\ low = seal[a].sequence
    BY <1>1, <1>2, <1>6, <2>1, CommitSeals
  <2>3. CASE a \notin DOMAIN old
    <3>1. d = Fresh(Events, a)
      BY <1>9, <2>1, <2>3 DEF Synced
    <3>2. RowAt(L, a, p, low, Fresh(Events, a))
      BY ONLY <1>7, <2>2, FreshRow
    <3> QED BY <2>1, <3>1, <3>2
  <2>4. CASE a \in DOMAIN old
    <3>1. PICK c, bound : c = old[a] /\ bound = LastSeal(committed, a)
      OBVIOUS
    <3>2. d = Resumed(c, low)
      BY <1>9, <2>1, <2>2, <2>4, <3>1 DEF Synced
    <3>3. RowAt(L, a, head, bound, c) /\ bound \in Nat
      BY <1>1, <1>4, <1>8, <2>4, <3>1, RowFacts, LastSealFacts
    <3>4. RowAt(L, a, p, low, Resumed(c, low))
      BY ONLY <1>7, <2>2, <3>3, SyncRow
    <3> QED BY <2>1, <3>2, <3>4
  <2> QED BY <2>3, <2>4
<1>11. DOMAIN cache' = p.writers \cup {Me}
  BY <1>9
<1>12. \A a \in DOMAIN cache' : RowAt(log', a, head', LastSeal(committed', a), cache'[a])
  BY <1>1, <1>4, <1>5, <1>10, <1>11
<1>13. cache' = [a \in head'.writers \cup {Me} |-> cache'[a]]
  <2>1. PICK t : t = cache'
    OBVIOUS
  <2>2. t = [a \in DOMAIN t |-> t[a]]
    BY <1>9, <2>1
  <2> QED BY <1>5, <1>11, <2>1, <2>2
<1> QED BY <1>12, <1>13 DEF Cached

\* The row of an author that is followed, with its last seal.
Follows(L, a, h, seal, c) ==
    /\ Framed(L) /\ \A f \in Range(L) : WellFormed(f)
    /\ EventAt(L, a, 0) = Zero
    /\ seal.sequence \in Nat /\ seal \in EventsOf(L, a)
    /\ LinkedAt(L, a, seal.sequence) /\ EventAt(L, a, seal.sequence) = seal
    /\ RowAt(L, a, h, seal.sequence, c) /\ ~c.failure

\* What a row that is followed says.
LEMMA FollowsFacts ==
    ASSUME NEW L, NEW a, NEW h, NEW seal, NEW c, Follows(L, a, h, seal, c)
    PROVE  /\ c \in Rows(L, a) /\ c.head.sequence \in Nat
           /\ c.head \in EventsOf(L, a) /\ c.anchor \in Nat \cup {NoSeq}
           /\ c.scan \in Nat \cup {NoSeq} /\ c.more \in BOOLEAN
           /\ LinkedAt(L, a, c.head.sequence) /\ EventAt(L, a, c.head.sequence) = c.head
           /\ ~c.more => EventAt(L, a, c.head.sequence + 1) = Zero
           /\ LatestAt(L, a, h, seal.sequence, c)
           /\ ~ForkAt(L, a)
<1>1. c \in Rows(L, a)
  BY DEF Follows, RowAt
<1>2. c.head \in EventsOf(L, a) /\ c.anchor \in Nat \cup {NoSeq} /\ c.scan \in Nat \cup {NoSeq}
      /\ c.more \in BOOLEAN
  BY <1>1 DEF Rows
<1>3. c.head.sequence \in Nat
  BY <1>2, EventsOfFacts, RoomAssumption DEF Follows
<1> QED BY <1>1, <1>2, <1>3 DEF Follows, RowAt, FollowsAt

\* What it takes to follow on with row d.
LEMMA FollowsOn ==
    ASSUME NEW L, NEW a, NEW h, NEW seal, NEW c, Follows(L, a, h, seal, c),
           NEW d \in Rows(L, a), ~d.failure,
           LinkedAt(L, a, d.head.sequence), EventAt(L, a, d.head.sequence) = d.head,
           ~d.more => EventAt(L, a, d.head.sequence + 1) = Zero,
           LatestAt(L, a, h, seal.sequence, d)
    PROVE  RowAt(L, a, h, seal.sequence, d)
BY DEF RowAt, FollowsAt, Follows

\* The progress of the anchor, and whether there is more, say nothing of the chain.
LEMMA AnchorRow ==
    ASSUME NEW L, NEW a, NEW h, NEW seal, NEW c, Follows(L, a, h, seal, c),
           NEW d \in Rows(L, a), d.head = c.head, d.more = c.more, d.failure = c.failure,
           d.latest = c.latest, d.scan = c.scan
    PROVE  RowAt(L, a, h, seal.sequence, d)
<1>1. LatestAt(L, a, h, seal.sequence, d)
  BY FollowsFacts DEF LatestAt
<1>2. ~d.failure
  BY DEF Follows
<1> QED BY <1>1, <1>2, FollowsFacts, FollowsOn

\* The chain ends here.
LEMMA EndRow ==
    ASSUME NEW L, NEW a, NEW h, NEW seal, NEW c, Follows(L, a, h, seal, c),
           EventAt(L, a, c.head.sequence + 1) = Zero
    PROVE  RowAt(L, a, h, seal.sequence, [c EXCEPT !.more = FALSE])
<1>1. PICK no, d : no = FALSE /\ d = [c EXCEPT !.more = no]
  OBVIOUS
<1>2. c \in Rows(L, a) /\ no \in BOOLEAN /\ d = [c EXCEPT !.more = no]
  BY <1>1, FollowsFacts
<1>3. /\ d \in Rows(L, a) /\ d.head = c.head /\ d.failure = c.failure
      /\ d.latest = c.latest /\ d.scan = c.scan /\ d.more = no
  BY ONLY <1>2 DEF Rows
<1>4. LatestAt(L, a, h, seal.sequence, d)
  BY <1>3, FollowsFacts DEF LatestAt
<1>5. ~d.failure
  BY <1>3 DEF Follows
<1>6. RowAt(L, a, h, seal.sequence, d)
  BY <1>3, <1>4, <1>5, FollowsFacts, FollowsOn
<1> QED BY <1>1, <1>6

\* The chain does not go on.
LEMMA FailRow ==
    ASSUME NEW L, NEW a, NEW h, NEW seal, NEW c, Follows(L, a, h, seal, c),
           EventAt(L, a, c.head.sequence + 1) # Zero,
           EventAt(L, a, c.head.sequence + 1).previous # c.head
    PROVE  RowAt(L, a, h, seal.sequence, [c EXCEPT !.failure = TRUE])
<1>1. PICK yes, d : yes = TRUE /\ d = [c EXCEPT !.failure = yes]
  OBVIOUS
<1>2. c \in Rows(L, a) /\ yes \in BOOLEAN /\ d = [c EXCEPT !.failure = yes]
  BY <1>1, FollowsFacts
<1>3. d \in Rows(L, a) /\ d.failure = yes
  BY ONLY <1>2 DEF Rows
<1>4. BrokenAt(L, a)
  BY FollowsFacts DEF BrokenAt
<1> QED BY <1>1, <1>3, <1>4 DEF RowAt

\* The row with the next frame as its head.
Advanced(c, e, k, h, low) ==
    [c EXCEPT !.head = e, !.checked = k,
              !.latest = IF e.policy = h /\ e.sequence > low THEN e ELSE c.latest,
              !.scan = IF e.policy = h /\ e.sequence > low THEN NoSeq ELSE c.scan]

\* The chain goes on with the next frame.
LEMMA NextRow ==
    ASSUME NEW L, NEW a, NEW h, NEW seal, NEW c, Follows(L, a, h, seal, c), c.more,
           NEW e, e = EventAt(L, a, c.head.sequence + 1), e # Zero, e.previous = c.head,
           NEW k \in EventsOf(L, a)
    PROVE  RowAt(L, a, h, seal.sequence, Advanced(c, e, k, h, seal.sequence))
<1> DEFINE hit == e.policy = h /\ e.sequence > seal.sequence
<1>0. PICK d, l, x : /\ l = IF hit THEN e ELSE c.latest
                     /\ x = IF hit THEN NoSeq ELSE c.scan
                     /\ d = Advanced(c, e, k, h, seal.sequence)
  OBVIOUS
<1>1. PICK top, low : top = c.head.sequence /\ low = seal.sequence
  OBVIOUS
<1>2. /\ top \in Nat /\ low \in Nat /\ LinkedAt(L, a, top) /\ EventAt(L, a, top) = c.head
      /\ c \in Rows(L, a) /\ LatestAt(L, a, h, low, c)
  BY <1>1, FollowsFacts DEF Follows
<1>3. e \in Range(L) /\ e.kind = "event" /\ e.author = a /\ e.sequence = top + 1
  BY <1>1, EventAtFacts DEF Follows
<1>4. LinkedAt(L, a, top + 1)
  BY <1>1, <1>2, LinkedNext
<1>5. e \in EventsOf(L, a) /\ c.latest \in EventsOf(L, a) /\ c.scan \in Nat \cup {NoSeq}
  BY <1>2, <1>3 DEF EventsOf, Rows
<1>6. l \in EventsOf(L, a) /\ x \in Nat \cup {NoSeq}
  BY <1>0, <1>5
<1>7. d = [c EXCEPT !.head = e, !.checked = k, !.latest = l, !.scan = x] /\ k \in EventsOf(L, a)
  BY <1>0 DEF Advanced
<1>8. /\ d \in Rows(L, a) /\ d.head = e /\ d.failure = c.failure /\ d.more = c.more
      /\ d.latest = l /\ d.scan = x
  BY ONLY <1>2, <1>5, <1>6, <1>7 DEF Rows
<1>9. LatestAt(L, a, h, low, d)
  <2>1. d.head.sequence = top + 1
    BY <1>3, <1>8
  <2>2. CASE hit
    <3>1. l = e /\ x = NoSeq /\ e.policy = h /\ e.sequence > low
      BY <1>0, <1>1, <2>2
    <3>2. NoneOf(L, a, h, top + 1, top + 1)
      BY <1>2 DEF NoneOf
    <3>3. top + 1 \in low + 1..top + 1
      BY <1>2, <1>3, <3>1
    <3> QED BY <1>1, <1>3, <1>8, <2>1, <3>1, <3>2, <3>3 DEF LatestAt
  <2>3. ASSUME ~hit, NEW n \in Nat, n >= low, NoneOf(L, a, h, n, top)
        PROVE  NoneOf(L, a, h, n, top + 1)
    <3>1. ASSUME NEW m \in n + 1..top + 1 PROVE EventAt(L, a, m).policy # h
      <4>1. CASE m \in n + 1..top
        BY <2>3, <4>1 DEF NoneOf
      <4>2. CASE m = top + 1
        <5>1. e.sequence > low
          BY <1>2, <1>3, <2>3, <4>2
        <5> QED BY <1>1, <2>3, <4>2, <5>1
      <4> QED BY <1>2, <4>1, <4>2
    <3> QED BY <3>1 DEF NoneOf
  <2>4. CASE ~hit
    <3>1. l = c.latest /\ x = c.scan
      BY <1>0, <2>4
    <3>2. CASE c.scan # NoSeq
      <4>1. c.latest = Zero /\ c.scan \in low..top /\ NoneOf(L, a, h, c.scan, top)
        BY <1>1, <1>2, <3>2 DEF LatestAt
      <4>2. c.scan \in Nat /\ c.scan >= low /\ c.scan \in low..top + 1
        BY <1>2, <4>1
      <4>3. NoneOf(L, a, h, c.scan, top + 1)
        BY <2>3, <2>4, <4>1, <4>2
      <4> QED BY <1>8, <2>1, <3>1, <3>2, <4>1, <4>2, <4>3 DEF LatestAt
    <3>3. CASE c.scan = NoSeq /\ c.latest = Zero
      <4>1. NoneOf(L, a, h, low, top)
        BY <1>1, <1>2, <3>3 DEF LatestAt
      <4>2. NoneOf(L, a, h, low, top + 1)
        BY <1>2, <2>3, <2>4, <4>1
      <4> QED BY <1>8, <2>1, <3>1, <3>3, <4>2 DEF LatestAt
    <3>4. CASE c.scan = NoSeq /\ c.latest # Zero
      <4>1. PICK n : n = c.latest.sequence
        OBVIOUS
      <4>2. /\ n \in low + 1..top /\ EventAt(L, a, n) = c.latest /\ c.latest.policy = h
            /\ NoneOf(L, a, h, n, top)
        BY <1>1, <1>2, <3>4, <4>1 DEF LatestAt
      <4>3. n \in Nat /\ n >= low /\ n \in low + 1..top + 1
        BY <1>2, <4>2
      <4>4. NoneOf(L, a, h, n, top + 1)
        BY <2>3, <2>4, <4>2, <4>3
      <4> QED BY <1>8, <2>1, <3>1, <3>4, <4>1, <4>2, <4>3, <4>4 DEF LatestAt
    <3> QED BY <3>2, <3>3, <3>4
  <2> QED BY <2>2, <2>4
<1>10. /\ ~d.failure /\ d.more
  BY <1>8 DEF Follows
<1>11. LinkedAt(L, a, d.head.sequence) /\ EventAt(L, a, d.head.sequence) = d.head
  BY <1>1, <1>3, <1>4, <1>8
<1> QED BY <1>0, <1>1, <1>8, <1>9, <1>10, <1>11, FollowsOn

\* The row after a look at the event where the scan is.
Scanned(c, e, h, low) ==
    IF c.scan <= low THEN [c EXCEPT !.scan = NoSeq]
    ELSE IF e.policy = h THEN [c EXCEPT !.latest = e, !.scan = NoSeq]
    ELSE [c EXCEPT !.scan = c.scan - 1]

\* The scan ends at the seal, at an event of the policy, or goes one back.
LEMMA ScanRow ==
    ASSUME NEW L, NEW a, NEW h, NEW seal, NEW c, Follows(L, a, h, seal, c), c.scan # NoSeq,
           NEW e, e = EventAt(L, a, c.scan)
    PROVE  RowAt(L, a, h, seal.sequence, Scanned(c, e, h, seal.sequence))
<1>0. PICK d : d = Scanned(c, e, h, seal.sequence)
  OBVIOUS
<1>1. PICK top, low, n : top = c.head.sequence /\ low = seal.sequence /\ n = c.scan
  OBVIOUS
<1>2. /\ top \in Nat /\ low \in Nat /\ n \in Nat /\ c \in Rows(L, a)
      /\ c.latest = Zero /\ n \in low..top /\ NoneOf(L, a, h, n, top)
      /\ LinkedAt(L, a, top)
  BY <1>1, FollowsFacts DEF Follows, LatestAt
<1>3. ASSUME NEW l, NEW x, d = [head |-> c.head, checked |-> c.checked, anchor |-> c.anchor,
                                more |-> c.more, failure |-> c.failure, latest |-> l, scan |-> x],
             l \in EventsOf(L, a), x \in Nat \cup {NoSeq}, LatestAt(L, a, h, low, d)
      PROVE  RowAt(L, a, h, low, d)
  <2>1. d \in Rows(L, a)
    BY <1>2, <1>3 DEF Rows
  <2>2. d.head = c.head /\ d.failure = c.failure /\ d.more = c.more
    BY <1>3
  <2>3. ~d.failure
    BY <2>2 DEF Follows
  <2> QED BY <1>1, <1>3, <2>1, <2>2, <2>3, FollowsFacts, FollowsOn
<1>4. Zero \in EventsOf(L, a) /\ NoSeq \in Nat \cup {NoSeq}
  BY DEF EventsOf
<1>5. CASE n <= low /\ d = [c EXCEPT !.scan = NoSeq]
  <2>1. d = [c EXCEPT !.scan = NoSeq]
    BY <1>5
  <2>2. d = [head |-> c.head, checked |-> c.checked, anchor |-> c.anchor,
             more |-> c.more, failure |-> c.failure, latest |-> c.latest, scan |-> NoSeq]
    BY ONLY <1>2, <2>1 DEF Rows
  <2>3. n = low
    BY <1>2, <1>5
  <2>4. d.head.sequence = top /\ d.scan = NoSeq /\ d.latest = Zero
    BY <1>1, <1>2, <2>2
  <2>5. LatestAt(L, a, h, low, d)
    BY <1>2, <2>3, <2>4 DEF LatestAt
  <2> QED BY <1>0, <1>1, <1>2, <1>3, <1>4, <2>2, <2>5
<1>6. CASE ~(n <= low) /\ e.policy = h /\ d = [c EXCEPT !.latest = e, !.scan = NoSeq]
  <2>1. d = [c EXCEPT !.latest = e, !.scan = NoSeq]
    BY <1>6
  <2>2. d = [head |-> c.head, checked |-> c.checked, anchor |-> c.anchor,
             more |-> c.more, failure |-> c.failure, latest |-> e, scan |-> NoSeq]
    BY ONLY <1>2, <2>1 DEF Rows
  <2>3. n \in 1..top /\ n \in low + 1..top
    BY <1>2, <1>6
  <2>4. e # Zero
    BY <1>1, <1>2, <2>3 DEF LinkedAt
  <2>5. e \in Range(L) /\ e.kind = "event" /\ e.author = a /\ e.sequence = n
    BY <1>1, <2>4, EventAtFacts DEF Follows
  <2>6. e \in EventsOf(L, a)
    BY <2>5 DEF EventsOf
  <2>7. d.head.sequence = top /\ d.scan = NoSeq /\ d.latest = e
    BY <1>1, <2>2
  <2>8. LatestAt(L, a, h, low, d)
    BY <1>1, <1>2, <1>6, <2>3, <2>4, <2>5, <2>7 DEF LatestAt
  <2> QED BY <1>0, <1>1, <1>3, <1>4, <2>2, <2>6, <2>8
<1>7. CASE ~(n <= low) /\ e.policy # h /\ d = [c EXCEPT !.scan = n - 1]
  <2>1. PICK x : x = n - 1
    OBVIOUS
  <2>2. x \in Nat /\ x \in low..top /\ x # NoSeq /\ x + 1 = n
    BY <1>2, <1>7, <2>1 DEF NoSeq
  <2>3. d = [c EXCEPT !.scan = x]
    BY <1>7, <2>1
  <2>4. d = [head |-> c.head, checked |-> c.checked, anchor |-> c.anchor,
             more |-> c.more, failure |-> c.failure, latest |-> c.latest, scan |-> x]
    BY ONLY <1>2, <2>3 DEF Rows
  <2>5. d.head.sequence = top /\ d.scan = x /\ d.latest = Zero
    BY <1>1, <1>2, <2>4
  <2>6. NoneOf(L, a, h, x, top)
    <3>1. ASSUME NEW m \in x + 1..top PROVE EventAt(L, a, m).policy # h
      <4>1. m = n \/ m \in n + 1..top
        BY <1>2, <2>2
      <4> QED BY <1>1, <1>2, <1>7, <4>1 DEF NoneOf
    <3> QED BY <3>1 DEF NoneOf
  <2>7. LatestAt(L, a, h, low, d)
    BY <2>2, <2>5, <2>6 DEF LatestAt
  <2> QED BY <1>0, <1>1, <1>2, <1>3, <1>4, <2>2, <2>4, <2>7
<1> QED BY <1>0, <1>1, <1>5, <1>6, <1>7 DEF Scanned

\* One row of the cache changes.
LEMMA CachedMoves ==
    ASSUME RoomInv, [Next]_vars, pc # "closed", log' = log, committed' = committed,
           NEW c, cache' = [cache EXCEPT ![pass.at] = c],
           pass.at \in DOMAIN cache =>
              RowAt(log, pass.at, head, sealed_head(pass.at).sequence, c)
    PROVE  Cached'
<1>1. head' = head
  BY LogStep, HeadStays
<1>2. PICK old, b : old = cache /\ b = pass.at
  OBVIOUS
<1>3. old = [a \in head.writers \cup {Me} |-> old[a]]
  BY <1>2 DEF RoomInv, Cached
<1>4. /\ DOMAIN cache' = head.writers \cup {Me} /\ cache' = [a \in DOMAIN cache' |-> cache'[a]]
      /\ \A a \in DOMAIN cache' : cache'[a] = IF a = b THEN c ELSE old[a]
  <2>1. PICK t : t = cache'
    OBVIOUS
  <2>2. t = [old EXCEPT ![b] = c]
    BY <1>2, <2>1
  <2>3. /\ DOMAIN t = head.writers \cup {Me} /\ t = [a \in DOMAIN t |-> t[a]]
        /\ \A a \in DOMAIN t : t[a] = IF a = b THEN c ELSE old[a]
    BY ONLY <1>3, <2>2
  <2> QED BY <2>1, <2>3
<1>5. ASSUME NEW a \in head.writers \cup {Me}
      PROVE  RowAt(log, a, head, LastSeal(committed, a), cache'[a])
  <2>1. CASE a = b
    <3>1. a \in DOMAIN cache /\ cache'[a] = c
      BY <1>2, <1>3, <1>4, <2>1
    <3> QED BY <1>2, <2>1, <3>1, LastSealFacts
  <2>2. CASE a # b
    <3>1. cache'[a] = cache[a]
      BY <1>2, <1>4, <2>2
    <3> QED BY <3>1, RowFacts
  <2> QED BY <2>1, <2>2
<1> QED BY <1>1, <1>4, <1>5 DEF Cached

\* The author that is followed at this moment.
LEMMA WorkingFacts ==
    ASSUME RoomInv, pc # "closed", pass.at \in DOMAIN cache, ~This.failure
    PROVE  /\ Follows(log, pass.at, head, Seal, This)
           /\ \A n : Frame(n) = EventAt(log, pass.at, n)
           /\ Progress \in Nat
<1>1. cache = [a \in head.writers \cup {Me} |-> cache[a]]
  BY DEF RoomInv, Cached
<1>2. pass.at \in head.writers \cup {Me}
  BY <1>1
<1>3. RowAt(log, pass.at, head, Seal.sequence, This)
  BY <1>2, RowFacts, LastSealFacts DEF Seal, This
<1>4. Follows(log, pass.at, head, Seal, This)
  <2>1. Framed(log) /\ \A f \in Range(log) : WellFormed(f)
    BY Basics DEF PolicyLog, RoomInv, Shapes
  <2>2. EventAt(log, pass.at, 0) = Zero
    BY <2>1, NoFirst
  <2>3. /\ Seal.sequence \in Nat /\ Seal \in EventsOf(log, pass.at)
        /\ LinkedAt(log, pass.at, Seal.sequence) /\ EventAt(log, pass.at, Seal.sequence) = Seal
    BY LastSealFacts DEF Seal
  <2> QED BY <1>3, <2>1, <2>2, <2>3 DEF Follows
<1>5. \A n : Frame(n) = EventAt(log, pass.at, n)
  BY Indices DEF Frame
<1>6. Progress \in Nat
  BY <1>4, FollowsFacts DEF Progress, Follows
<1> QED BY <1>4, <1>5, <1>6

\* A frame of the author's chain is walked, from the seal or past the head.
LEMMA CachedWork ==
    ASSUME RoomInv, [Next]_vars,
           anchor_ready \/ anchor_frame \/ chain_frame \/ scan_frame \/ author_done
    PROVE  Cached'
<1>1. pc = "authors" /\ pc # "closed" /\ log' = log /\ committed' = committed
  BY Zenon DEF anchor_ready, anchor_frame, chain_frame, scan_frame, author_done, Working,
               Becomes, disk
<1>2. PICK L, a, h, seal, c :
          L = log /\ a = pass.at /\ h = head /\ seal = Seal /\ c = This
  OBVIOUS
<1> DEFINE Good(d) == RowAt(log, pass.at, head, sealed_head(pass.at).sequence, d)
<1>3. ASSUME NEW d, cache' = [cache EXCEPT ![pass.at] = d],
             pass.at \in DOMAIN cache => Good(d)
      PROVE  Cached'
  BY <1>1, <1>3, CachedMoves
<1>4. ASSUME pass.at \in DOMAIN cache, ~This.failure
      PROVE  /\ Follows(L, a, h, seal, c) /\ \A n : Frame(n) = EventAt(L, a, n)
             /\ Progress \in Nat
             /\ c \in Rows(L, a) /\ c.head.sequence \in Nat /\ seal.sequence \in Nat
             /\ LinkedAt(L, a, c.head.sequence) /\ EventAt(L, a, c.head.sequence) = c.head
             /\ EventAt(L, a, seal.sequence) = seal /\ seal \in EventsOf(L, a)
             /\ Framed(L)
  <2>1. /\ Follows(L, a, h, seal, c) /\ \A n : Frame(n) = EventAt(L, a, n)
        /\ Progress \in Nat
    BY <1>1, <1>2, <1>4, WorkingFacts
  <2> QED BY <2>1, FollowsFacts DEF Follows
<1>5. \A d : RowAt(L, a, h, seal.sequence, d) => Good(d)
  BY <1>2 DEF Seal
<1> HIDE DEF Good
<1>6. CASE anchor_ready
  <2>1. PICK d : d = IF This.head.sequence = Seal.sequence /\ This.head # Seal
                     THEN [This EXCEPT !.failure = TRUE]
                     ELSE [This EXCEPT !.checked = Seal, !.anchor = NoSeq]
    OBVIOUS
  <2>2. Working /\ cache' = [cache EXCEPT ![pass.at] = d]
    BY <1>6, <2>1, Zenon DEF anchor_ready, Becomes
  <2>3. ASSUME pass.at \in DOMAIN cache PROVE Good(d)
    <3>1. ~This.failure
      BY <2>2 DEF Working
    <3>2. ~(This.head.sequence = Seal.sequence /\ This.head # Seal)
      BY <1>2, <1>4, <2>3, <3>1
    <3>3. d = [c EXCEPT !.checked = seal, !.anchor = NoSeq]
      BY <1>2, <2>1, <3>2
    <3>4. c \in Rows(L, a) /\ seal \in EventsOf(L, a) /\ NoSeq \in Nat \cup {NoSeq}
      BY <1>4, <2>3, <3>1
    <3>5. /\ d \in Rows(L, a) /\ d.head = c.head /\ d.more = c.more /\ d.failure = c.failure
          /\ d.latest = c.latest /\ d.scan = c.scan
      BY ONLY <3>3, <3>4 DEF Rows
    <3> QED BY <1>4, <1>5, <2>3, <3>1, <3>5, AnchorRow
  <2> QED BY <1>3, <2>2, <2>3
<1>7. CASE anchor_frame
  <2>1. PICK e, d, n :
            /\ n = Progress + 1 /\ e = Frame(n)
            /\ d = IF /\ e.previous = Frame(Progress)
                      /\ e.sequence = This.head.sequence => e = This.head
                   THEN [This EXCEPT !.anchor = n] ELSE [This EXCEPT !.failure = TRUE]
    OBVIOUS
  <2>2. Working /\ Progress < This.head.sequence /\ cache' = [cache EXCEPT ![pass.at] = d]
    BY <1>7, <2>1, Zenon DEF anchor_frame, Becomes
  <2>3. ASSUME pass.at \in DOMAIN cache PROVE Good(d)
    <3>1. ~This.failure
      BY <2>2 DEF Working
    <3>2. n \in 1..c.head.sequence /\ n - 1 = Progress /\ n \in Nat
      BY <1>2, <1>4, <2>1, <2>2, <2>3, <3>1
    <3>3. e = EventAt(L, a, n) /\ e # Zero /\ e.previous = Frame(Progress)
      BY <1>4, <2>1, <2>3, <3>1, <3>2 DEF LinkedAt
    <3>4. e.sequence = n
      BY <1>4, <2>3, <3>1, <3>3, EventAtFacts
    <3>5. e.sequence = This.head.sequence => e = This.head
      BY <1>2, <1>4, <2>3, <3>1, <3>3, <3>4
    <3>6. d = [c EXCEPT !.anchor = n]
      BY <1>2, <2>1, <3>3, <3>5
    <3>7. c \in Rows(L, a) /\ n \in Nat \cup {NoSeq}
      BY <1>4, <2>3, <3>1, <3>2
    <3>8. /\ d \in Rows(L, a) /\ d.head = c.head /\ d.more = c.more /\ d.failure = c.failure
          /\ d.latest = c.latest /\ d.scan = c.scan
      BY ONLY <3>6, <3>7 DEF Rows
    <3> QED BY <1>4, <1>5, <2>3, <3>1, <3>8, AnchorRow
  <2> QED BY <1>3, <2>2, <2>3
<1>8. CASE chain_frame
  <2>1. PICK e, n : n = This.head.sequence + 1 /\ e = Frame(n)
    OBVIOUS
  <2>2. PICK d : d = IF e = Zero THEN [This EXCEPT !.more = FALSE]
                     ELSE IF /\ e.previous = This.head
                             /\ e.sequence = Seal.sequence => e = Seal
                          THEN NewHead(e) ELSE [This EXCEPT !.failure = TRUE]
    OBVIOUS
  <2>3. Working /\ This.more /\ cache' = [cache EXCEPT ![pass.at] = d]
    BY <1>8, <2>1, <2>2, Zenon DEF chain_frame, Becomes
  <2>4. ASSUME pass.at \in DOMAIN cache PROVE Good(d)
    <3>1. ~This.failure
      BY <2>3 DEF Working
    <3>2. Follows(L, a, h, seal, c) /\ e = EventAt(L, a, c.head.sequence + 1)
      BY <1>2, <1>4, <2>1, <2>4, <3>1
    <3>3. CASE e = Zero
      <4>1. d = [c EXCEPT !.more = FALSE]
        BY <1>2, <2>2, <3>3
      <4> QED BY <1>5, <3>2, <3>3, <4>1, EndRow
    <3>4. CASE e # Zero /\ e.previous # c.head
      <4>1. d = [c EXCEPT !.failure = TRUE]
        BY <1>2, <2>2, <3>4
      <4> QED BY <1>5, <3>2, <3>4, <4>1, FailRow
    <3>5. CASE e # Zero /\ e.previous = c.head
      <4>1. e.sequence = Seal.sequence => e = Seal
        <5>1. e = EventAt(L, a, e.sequence)
          BY <1>4, <2>4, <3>1, <3>2, <3>5, EventAtFacts
        <5> QED BY <1>2, <1>4, <2>4, <3>1, <5>1
      <4>2. d = NewHead(e)
        BY <1>2, <2>2, <3>5, <4>1
      <4>3. PICK k : k = IF e.sequence >= seal.sequence THEN seal ELSE c.checked
        OBVIOUS
      <4>4. d = Advanced(c, e, k, h, seal.sequence)
        <5>1. NewHead(e) = Advanced(c, e, k, h, seal.sequence)
          BY <1>2, <4>3 DEF NewHead, Advanced
        <5> QED BY <4>2, <5>1
      <4>5. k \in EventsOf(L, a)
        BY <1>4, <2>4, <3>1, <4>3 DEF Rows
      <4>6. c.more /\ e # Zero /\ e.previous = c.head
        BY <1>2, <2>3, <3>5
      <4>7. RowAt(L, a, h, seal.sequence, Advanced(c, e, k, h, seal.sequence))
        BY ONLY <3>2, <4>5, <4>6, NextRow
      <4> QED BY <1>5, <4>4, <4>7
    <3> QED BY <3>3, <3>4, <3>5
  <2> QED BY <1>3, <2>3, <2>4
<1>9. CASE scan_frame
  <2>1. PICK e, n : n = This.scan /\ e = Frame(n)
    OBVIOUS
  <2>2. PICK d : d = IF n <= Seal.sequence THEN [This EXCEPT !.scan = NoSeq]
                     ELSE IF e.policy = head THEN [This EXCEPT !.latest = e, !.scan = NoSeq]
                     ELSE [This EXCEPT !.scan = n - 1]
    OBVIOUS
  <2>3. Working /\ n # NoSeq /\ cache' = [cache EXCEPT ![pass.at] = d]
    BY <1>9, <2>1, <2>2, Zenon DEF scan_frame, Becomes
  <2>4. ASSUME pass.at \in DOMAIN cache PROVE Good(d)
    <3>1. ~This.failure
      BY <2>3 DEF Working
    <3>2. Follows(L, a, h, seal, c) /\ e = EventAt(L, a, c.scan) /\ c.scan # NoSeq
      BY <1>2, <1>4, <2>1, <2>3, <2>4, <3>1
    <3>3. d = Scanned(c, e, h, seal.sequence)
      BY <1>2, <2>1, <2>2 DEF Scanned
    <3>4. RowAt(L, a, h, seal.sequence, Scanned(c, e, h, seal.sequence))
      BY ONLY <3>2, ScanRow
    <3> QED BY <1>5, <3>3, <3>4
  <2> QED BY <1>3, <2>3, <2>4
<1>10. CASE author_done
  <2>1. PICK x, d : /\ x = IF ~This.failure /\ Unanchored THEN Progress ELSE This.anchor
                    /\ d = [This EXCEPT !.anchor = x]
    OBVIOUS
  <2>2. cache' = [cache EXCEPT ![pass.at] = d]
    <3>1. cache' = [cache EXCEPT ![pass.at].anchor =
                       IF ~This.failure /\ Unanchored THEN Progress ELSE This.anchor]
      BY <1>10 DEF author_done, This
    <3> QED BY <2>1, <3>1 DEF This
  <2>3. ASSUME pass.at \in DOMAIN cache PROVE Good(d)
    <3>1. RowAt(L, a, h, seal.sequence, c)
      <4>1. cache = [b \in head.writers \cup {Me} |-> cache[b]]
        BY <1>1 DEF RoomInv, Cached
      <4>2. pass.at \in head.writers \cup {Me}
        BY <2>3, <4>1
      <4> QED BY <1>1, <1>2, <4>2, RowFacts, LastSealFacts DEF This, Seal
    <3>2. c \in Rows(L, a)
      BY <3>1 DEF RowAt
    <3>3. x \in Nat \cup {NoSeq}
      BY <1>2, <1>4, <2>1, <2>3, <3>2 DEF Rows
    <3>4. d = [c EXCEPT !.anchor = x]
      BY <1>2, <2>1
    <3>5. /\ d \in Rows(L, a) /\ d.head = c.head /\ d.more = c.more /\ d.failure = c.failure
          /\ d.latest = c.latest /\ d.scan = c.scan
      BY ONLY <3>2, <3>3, <3>4 DEF Rows
    <3>6. RowAt(L, a, h, seal.sequence, d)
      BY <3>1, <3>5 DEF RowAt, FollowsAt, LatestAt
    <3> QED BY <1>5, <3>6
  <2> QED BY <1>3, <2>2, <2>3
<1> QED BY <1>6, <1>7, <1>8, <1>9, <1>10

\* A non-empty set of numbers that is bounded has a greatest one.
LEMMA MaxFacts ==
    ASSUME NEW m \in Nat, NEW H \in SUBSET (0..m), H # {}
    PROVE  Max(H) \in H /\ \A h \in H : h <= Max(H)
<1>0. \A h \in H : h \in 0..m /\ m - h \in Nat /\ h \in Int
  OBVIOUS
<1>1. {m - h : h \in H} \in SUBSET Nat /\ {m - h : h \in H} # {}
  BY <1>0
<1>2. PICK t \in {m - h : h \in H} : \A u \in {m - h : h \in H} : t <= u
  BY <1>1, Least, Zenon
<1>3. PICK x \in H : t = m - x
  BY <1>2
<1>4. ASSUME NEW y \in H PROVE x >= y
  <2>1. t <= m - y
    BY <1>2
  <2>2. x \in 0..m /\ y \in 0..m
    BY <1>0
  <2> QED BY <1>3, <2>1, <2>2
<1>5. Max(H) \in H /\ \A y \in H : Max(H) >= y
  BY <1>4 DEF Max
<1>6. PICK k : k = Max(H)
  OBVIOUS
<1>7. k \in H /\ \A y \in H : k >= y
  BY <1>5, <1>6
<1>8. \A y \in H : y <= k
  BY <1>0, <1>7
<1> QED BY <1>5, <1>6, <1>8

\* What a rebuilt row holds when the records show no fork.
RebuiltAt(L, a, h, seal, last, broken, l, r) ==
    /\ last \in Nat /\ LinkedAt(L, a, last)
    /\ broken \in BOOLEAN /\ l \in EventsOf(L, a)
    /\ r = [head |-> EventAt(L, a, last),
            checked |-> IF last >= seal.sequence THEN seal ELSE Zero,
            anchor |-> NoSeq, more |-> broken, failure |-> broken, latest |-> l, scan |-> NoSeq]
    /\ IF broken THEN /\ EventAt(L, a, last + 1) # Zero
                      /\ EventAt(L, a, last + 1).previous # EventAt(L, a, last)
       ELSE EventAt(L, a, last + 1) = Zero
    /\ IF l = Zero THEN NoneOf(L, a, h, seal.sequence, last)
       ELSE /\ l.sequence \in seal.sequence + 1..last /\ EventAt(L, a, l.sequence) = l
            /\ l.policy = h /\ NoneOf(L, a, h, l.sequence, last)

\* rebuild_author_cache finds it.
LEMMA RebuiltFacts ==
    ASSUME RoomInv, NEW a, ~ForkAt(log, a)
    PROVE  \E last, broken, l :
              RebuiltAt(log, a, head, sealed_head(a), last, broken, l, Rebuilt(a))
<1> DEFINE seal == sealed_head(a)
           sound(n) == LET e == indexed_event(a, n)
                       IN  /\ e # Zero /\ e.previous = indexed_event(a, n - 1)
                           /\ n = seal.sequence => e = seal
           T == {n \in 0..MaxSeq : \A i \in 1..n : sound(i)}
           top == Max(T)
           more == indexed_event(a, top + 1) # Zero
           current == {n \in seal.sequence + 1..top : indexed_event(a, n).policy = head}
           newest == IF current = {} THEN Zero ELSE indexed_event(a, Max(current))
<1>1. Rebuilt(a) = IF AuthorFork(Events, a) THEN Fresh(Events, a)
                   ELSE [Fresh(Events, a) EXCEPT
                           !.head = indexed_event(a, top),
                           !.checked = IF top >= seal.sequence THEN seal ELSE Zero,
                           !.more = more, !.failure = more, !.latest = newest]
  BY DEF Rebuilt
<1>2. ~AuthorFork(Events, a)
  BY DEF ForkAt, Events
<1>3. PICK L, s, last, broken, l, h, S :
          /\ L = log /\ s = seal /\ last = top /\ l = newest /\ h = head /\ S = T
          /\ broken = more /\ broken \in BOOLEAN
  OBVIOUS
<1>4. Rebuilt(a) = [head |-> EventAt(L, a, last),
                    checked |-> IF last >= s.sequence THEN s ELSE Zero,
                    anchor |-> NoSeq, more |-> broken, failure |-> broken, latest |-> l,
                    scan |-> NoSeq]
  <2>1. PICK f, r, x, k : /\ f = Fresh(Events, a) /\ r = Rebuilt(a) /\ x = indexed_event(a, top)
                          /\ k = IF top >= seal.sequence THEN seal ELSE Zero
    OBVIOUS
  <2>2. r = [f EXCEPT !.head = x, !.checked = k, !.more = broken, !.failure = broken,
                      !.latest = l]
    <3> HIDE DEF top, seal, more, newest
    <3> QED BY <1>1, <1>2, <1>3, <2>1, Zenon
  <2>3. PICK g, yes : g = AuthorFork(Events, a) /\ yes = TRUE
    OBVIOUS
  <2>4. f = [head |-> Zero, checked |-> Zero, anchor |-> NoSeq, more |-> yes,
             failure |-> g, latest |-> Zero, scan |-> NoSeq]
    BY <2>1, <2>3 DEF Fresh
  <2>5. r = [head |-> x, checked |-> k, anchor |-> NoSeq, more |-> broken, failure |-> broken,
             latest |-> l, scan |-> NoSeq]
    BY ONLY <2>2, <2>4
  <2>6. x = EventAt(L, a, last)
    BY <1>3, <2>1, Indices
  <2>7. k = IF last >= s.sequence THEN s ELSE Zero
    BY <1>3, <2>1
  <2> HIDE DEF top, seal, more, newest
  <2> QED BY <2>1, <2>5, <2>6, <2>7
<1>5. /\ Framed(L) /\ \A f \in Range(L) : WellFormed(f)
      /\ s.sequence \in Nat /\ EventAt(L, a, s.sequence) = s
  BY <1>3, Basics, LastSealFacts DEF PolicyLog, RoomInv, Shapes
<1>6. \A n : sound(n) <=> /\ EventAt(L, a, n) # Zero
                          /\ EventAt(L, a, n).previous = EventAt(L, a, n - 1)
  <2>1. \A n : indexed_event(a, n) = EventAt(L, a, n)
    BY <1>3, Indices
  <2> QED BY <1>3, <1>5, <2>1
<1>7. S = {n \in 0..MaxSeq : LinkedAt(L, a, n)}
  <2>1. \A n : (\A i \in 1..n : sound(i)) <=> LinkedAt(L, a, n)
    <3> HIDE DEF sound
    <3> QED BY <1>6 DEF LinkedAt
  <2> HIDE DEF sound
  <2> QED BY <1>3, <2>1
<1>8. last \in S /\ \A n \in S : n <= last
  <2>1. 0 \in S /\ S \in SUBSET (0..MaxSeq) /\ S # {}
    BY <1>7, RoomAssumption DEF LinkedAt
  <2>2. Max(S) \in S /\ \A n \in S : n <= Max(S)
    BY <2>1, RoomAssumption, MaxFacts
  <2>3. last = Max(S)
    BY <1>3
  <2> QED BY <2>2, <2>3
<1>9. last \in 0..MaxSeq /\ last \in Nat /\ LinkedAt(L, a, last)
  BY <1>7, <1>8, RoomAssumption
<1>10. broken <=> EventAt(L, a, last + 1) # Zero
  <2>1. indexed_event(a, top + 1) = EventAt(L, a, last + 1)
    BY <1>3, Indices
  <2> QED BY <1>3, <2>1
<1>11. ASSUME broken PROVE EventAt(L, a, last + 1).previous # EventAt(L, a, last)
  <2>1. EventAt(L, a, last + 1) # Zero
    BY <1>10, <1>11
  <2>2. EventAt(L, a, last + 1) \in EventsOf(L, a) /\ EventAt(L, a, last + 1).sequence = last + 1
    BY <1>5, <2>1, EventAtFacts DEF EventsOf
  <2>3. last + 1 \in 0..MaxSeq
    BY <1>5, <2>2, EventsOfFacts
  <2>4. SUFFICES ASSUME EventAt(L, a, last + 1).previous = EventAt(L, a, last) PROVE FALSE
    OBVIOUS
  <2>5. LinkedAt(L, a, last + 1)
    BY <1>9, <2>1, <2>4, LinkedNext
  <2>6. last + 1 <= last
    BY <1>7, <1>8, <2>3, <2>5
  <2> QED BY <1>9, <2>6
<1>12. PICK C : C = current
  OBVIOUS
<1>13. C = {n \in s.sequence + 1..last : EventAt(L, a, n).policy = h}
  <2>1. \A n : indexed_event(a, n) = EventAt(L, a, n)
    BY <1>3, Indices
  <2> HIDE DEF top, seal
  <2> QED BY <1>3, <1>12, <2>1
<1>14. l = IF C = {} THEN Zero ELSE EventAt(L, a, Max(C))
  <2>1. \A n : indexed_event(a, n) = EventAt(L, a, n)
    BY <1>3, Indices
  <2> HIDE DEF current
  <2> QED BY <1>3, <1>12, <2>1
<1>15. CASE C = {}
  <2>1. l = Zero /\ l \in EventsOf(L, a)
    BY <1>14, <1>15 DEF EventsOf
  <2>2. NoneOf(L, a, h, s.sequence, last)
    BY <1>13, <1>15 DEF NoneOf
  <2>3. RebuiltAt(L, a, h, s, last, broken, l, Rebuilt(a))
    BY <1>3, <1>4, <1>9, <1>10, <1>11, <2>1, <2>2 DEF RebuiltAt
  <2> HIDE DEF seal
  <2> QED BY <1>3, <2>3 DEF seal
<1>16. CASE C # {}
  <2>1. PICK n : n = Max(C)
    OBVIOUS
  <2>2. C \in SUBSET (0..last)
    BY <1>5, <1>9, <1>13
  <2>3. n \in C /\ \A m \in C : m <= n
    BY <1>9, <1>16, <2>1, <2>2, MaxFacts
  <2>4. /\ n \in s.sequence + 1..last /\ EventAt(L, a, n).policy = h /\ l = EventAt(L, a, n)
        /\ n \in 1..last
    BY <1>5, <1>9, <1>13, <1>14, <1>16, <2>1, <2>3
  <2>5. l # Zero
    BY <1>9, <2>4 DEF LinkedAt
  <2>6. l \in EventsOf(L, a) /\ l.sequence = n
    BY <1>5, <2>4, <2>5, EventAtFacts DEF EventsOf
  <2>7. NoneOf(L, a, h, n, last)
    <3>1. ASSUME NEW m \in n + 1..last PROVE EventAt(L, a, m).policy # h
      <4>1. m \in s.sequence + 1..last /\ ~(m <= n)
        BY <1>5, <1>9, <2>4
      <4> QED BY <1>13, <2>3, <4>1
    <3> QED BY <3>1 DEF NoneOf
  <2>8. RebuiltAt(L, a, h, s, last, broken, l, Rebuilt(a))
    BY <1>3, <1>4, <1>9, <1>10, <1>11, <2>4, <2>5, <2>6, <2>7 DEF RebuiltAt
  <2> HIDE DEF seal
  <2> QED BY <1>3, <2>8 DEF seal
<1> QED BY <1>15, <1>16

\* So a session that is opened starts with rows that are right.
LEMMA RebuiltRow ==
    ASSUME RoomInv, NEW a
    PROVE  RowAt(log, a, head, LastSeal(committed, a), Rebuilt(a))
<1>1. PICK L, h, s, low : L = log /\ h = head /\ s = sealed_head(a) /\ low = LastSeal(committed, a)
  OBVIOUS
<1>2. low \in Nat /\ low = s.sequence /\ s \in EventsOf(L, a)
  BY <1>1, LastSealFacts
<1>3. Framed(L) /\ (\A f \in Range(L) : WellFormed(f)) /\ EventAt(L, a, 0) = Zero
  <2>1. Framed(L) /\ \A f \in Range(L) : WellFormed(f)
    BY <1>1, Basics DEF PolicyLog, RoomInv, Shapes
  <2> QED BY <2>1, NoFirst
<1>4. CASE ForkAt(L, a)
  <2>1. Events = {e \in Range(L) : e.kind = "event"}
    BY <1>1 DEF Events
  <2>2. Rebuilt(a) = Fresh(Events, a)
    BY <1>1, <1>4, <2>1 DEF Rebuilt, ForkAt
  <2>3. RowAt(L, a, h, low, Fresh(Events, a))
    BY ONLY <1>2, <1>3, <2>1, FreshRow
  <2> QED BY <1>1, <2>2, <2>3
<1>5. CASE ~ForkAt(L, a)
  <2>1. PICK last, broken, l, r :
            r = Rebuilt(a) /\ RebuiltAt(L, a, h, s, last, broken, l, r)
    BY <1>1, <1>5, RebuiltFacts
  <2>2. PICK e, k : e = EventAt(L, a, last) /\ k = IF last >= s.sequence THEN s ELSE Zero
    OBVIOUS
  <2>3. /\ last \in Nat /\ LinkedAt(L, a, last) /\ broken \in BOOLEAN /\ l \in EventsOf(L, a)
        /\ r = [head |-> e, checked |-> k, anchor |-> NoSeq, more |-> broken,
                failure |-> broken, latest |-> l, scan |-> NoSeq]
    BY <2>1, <2>2 DEF RebuiltAt
  <2>4. e \in EventsOf(L, a) /\ e.sequence = last
    <3>1. CASE last = 0
      BY <1>3, <2>2, <3>1 DEF EventsOf, Zero
    <3>2. CASE last # 0
      <4>1. e # Zero
        BY <2>2, <2>3, <3>2 DEF LinkedAt
      <4> QED BY <1>3, <2>2, <4>1, EventAtFacts DEF EventsOf
    <3> QED BY <3>1, <3>2
  <2>5. k \in EventsOf(L, a) /\ NoSeq \in Nat \cup {NoSeq}
    BY <1>2, <2>2 DEF EventsOf
  <2>6. r \in Rows(L, a)
    BY ONLY <2>3, <2>4, <2>5 DEF Rows
  <2>7. r.head = e /\ r.failure = broken /\ r.more = broken /\ r.latest = l /\ r.scan = NoSeq
    BY <2>3
  <2>8. broken => BrokenAt(L, a)
    BY <2>1 DEF RebuiltAt, BrokenAt
  <2>9. ASSUME ~broken PROVE FollowsAt(L, a, h, low, r)
    <3>1. EventAt(L, a, last + 1) = Zero
      BY <2>1, <2>9 DEF RebuiltAt
    <3>2. LatestAt(L, a, h, low, r)
      BY <1>2, <2>1, <2>4, <2>7 DEF RebuiltAt, LatestAt
    <3> QED BY <2>2, <2>3, <2>4, <2>7, <3>1, <3>2 DEF FollowsAt
  <2>10. RowAt(L, a, h, low, r)
    BY <1>5, <2>6, <2>7, <2>8, <2>9 DEF RowAt
  <2> QED BY <1>1, <2>1, <2>10
<1> QED BY <1>4, <1>5

\* Every row of the cache agrees with the records at every moment.
LEMMA CachedStep ==
    ASSUME RoomInv, [Next]_vars
    PROVE  Cached'
<1>1. ASSUME pc # "closed", log' = log, committed' = committed, cache' = cache PROVE Cached'
  BY <1>1, CachedQuiet
<1>2. ASSUME NEW op, send(op) \/ set_writers(op) PROVE Cached'
  <2>1. log' = log /\ committed' = committed /\ cache' = cache /\ pc # "closed"
    BY <1>2, Zenon DEF send, set_writers, Reserve, disk
  <2> QED BY <1>1, <2>1
<1>3. ASSUME NEW f, WellFormed(f), f \notin Range(log), Retain(f), pc # "closed",
             committed' = committed
      PROVE  Cached'
  <2>1. log' = Append(log, f)
    BY <1>3, Zenon DEF Retain
  <2>2. CASE f.kind = "event"
    <3>1. cache' = event_persisted(cache, Events \cup {f}, f)
      BY <1>3, <2>2, Zenon DEF Retain
    <3>2. Range(log') = Range(log) \cup {f}
      <4>1. PICK L : L = log
        OBVIOUS
      <4>2. Framed(L) /\ f.kind \in {"event", "policy"}
        BY <2>2, <4>1, Basics DEF PolicyLog
      <4>3. Range(Append(L, f)) = Range(L) \cup {f}
        BY ONLY <4>2, FramedAppend
      <4> QED BY <2>1, <4>1, <4>3
    <3> QED BY <1>3, <2>1, <2>2, <3>1, <3>2, CachedEvent
  <2>3. CASE f.kind # "event"
    <3>1. cache' = cache /\ f.kind = "policy"
      BY <1>3, <2>3, Zenon DEF Retain, WellFormed
    <3> QED BY <1>3, <2>1, <3>1, CachedQuiet
  <2> QED BY <2>2, <2>3
<1>4. ASSUME NEW f \in room.offers, receive(f) PROVE Cached'
  <2>1. /\ f \notin Range(log) /\ pc = "idle" /\ committed' = committed
        /\ Retain(f) \/ (log' = log /\ cache' = cache)
    BY <1>4, Zenon DEF receive
  <2>2. WellFormed(f) /\ pc # "closed"
    BY <2>1, Basics
  <2> QED BY <1>1, <1>3, <2>1, <2>2
<1>5. ASSUME expand_limits PROVE Cached'
  <2>1. PICK f : f = image.blocked
    OBVIOUS
  <2>2. /\ pc = "idle" /\ committed' = committed
        /\ \/ log' = log /\ cache' = cache
           \/ f # Zero /\ f \notin Range(log) /\ Retain(f)
    BY <1>5, <2>1, Zenon DEF expand_limits
  <2>3. f # Zero => WellFormed(f)
    BY <2>1 DEF RoomInv, Shapes
  <2>4. pc # "closed"
    BY <2>2
  <2> QED BY <1>1, <1>3, <2>2, <2>3, <2>4
<1>6. ASSUME finish_reserved PROVE Cached'
  <2>1. PICK op, f : Finishing(op, f)
    BY <1>6, FinishFacts
  <2>2. /\ WellFormed(f) /\ pc = "finish" /\ committed' = committed
        /\ log' = log \/ log' = Append(log, f)
        /\ Range(log') = Range(log) \cup {f}
        /\ \/ f.kind = "event" /\ cache' = event_persisted(cache, Events \cup {f}, f)
           \/ f.kind = "policy" /\ cache' = cache
    BY <2>1, Zenon DEF Finishing
  <2>3. pc # "closed"
    BY <2>2
  <2>4. CASE f.kind = "event" /\ cache' = event_persisted(cache, Events \cup {f}, f)
    BY <2>2, <2>3, <2>4, CachedEvent
  <2>5. CASE f.kind = "policy" /\ cache' = cache
    BY <2>2, <2>3, <2>5, CachedQuiet
  <2> QED BY <2>2, <2>4, <2>5
<1>7. ASSUME commit_policy PROVE Cached'
  <2>1. /\ log' = log /\ pc # "closed"
        /\ \/ committed' = committed /\ cache' = cache
           \/ committed' = Append(committed, replay.update)
    BY <1>7, Zenon DEF commit_policy
  <2>2. CASE committed' = committed /\ cache' = cache
    BY <1>1, <2>1, <2>2
  <2>3. CASE committed' = Append(committed, replay.update)
    BY <1>7, <2>3, CachedCommit
  <2> QED BY <2>1, <2>2, <2>3
<1>8. ASSUME \/ finish_refused \/ finished \/ prepare_replay \/ advance_policy \/ reconcile
             \/ policies_done \/ next_author \/ authors_done
      PROVE  Cached'
  <2>1. cache' = cache /\ log' = log /\ committed' = committed /\ pc # "closed"
    BY <1>8, Zenon DEF finish_refused, finished, prepare_replay, advance_policy, reconcile,
                       policies_done, next_author, authors_done, disk
  <2> QED BY <1>1, <2>1
<1>9. ASSUME anchor_ready \/ anchor_frame \/ chain_frame \/ scan_frame \/ author_done
      PROVE  Cached'
  BY <1>9, CachedWork
<1>10. ASSUME open PROVE Cached'
  <2>1. /\ log' = log /\ committed' = committed /\ room' = room
        /\ cache' = [a \in head.writers \cup {Me} |-> Rebuilt(a)]
    BY <1>10, Zenon DEF open, disk
  <2>2. head' = head
    BY <2>1, HeadStays
  <2>3. /\ DOMAIN cache' = head.writers \cup {Me}
        /\ cache' = [a \in DOMAIN cache' |-> cache'[a]]
        /\ \A a \in DOMAIN cache' : cache'[a] = Rebuilt(a)
    BY <2>1
  <2>4. \A a \in DOMAIN cache' : RowAt(log', a, head', LastSeal(committed', a), cache'[a])
    BY <2>1, <2>2, <2>3, RebuiltRow
  <2> QED BY <2>2, <2>3, <2>4 DEF Cached
<1>11. ASSUME Crash \/ sign_and_die PROVE Cached'
  <2>1. pc' = "closed"
    BY <1>11, Zenon DEF Crash, sign_and_die, Die
  <2> QED BY <2>1 DEF Cached
<1>12. ASSUME UNCHANGED vars PROVE Cached'
  <2>1. cache' = cache /\ log' = log /\ committed' = committed /\ pc' = pc
    BY <1>12, Zenon DEF vars, disk, memory
  <2>2. CASE pc = "closed"
    BY <2>1, <2>2 DEF Cached
  <2>3. CASE pc # "closed"
    BY <1>1, <2>1, <2>3
  <2> QED BY <2>2, <2>3
<1> QED BY <1>2, <1>4, <1>5, <1>6, <1>7, <1>8, <1>9, <1>10, <1>11, <1>12, Zenon DEF Next, Step

-----------------------------------------------------------------------------
(* What a call spends.                                                     *)

Stored(u, l) == u \in Nat /\ u <= l /\ l \in room.limit..room.grown
Spends(p) ==
    /\ p = [budget |-> p.budget, quota |-> p.quota, left |-> p.left,
            commits |-> p.commits, at |-> p.at]
    /\ p.budget \in 0..room.frames /\ p.quota \in 0..room.page /\ p.quota <= p.budget

\* The store is never over its limit.
LEMMA StoredStep ==
    ASSUME RoomInv, [Next]_vars
    PROVE  Stored(used', limit')
<1>1. /\ used \in Nat /\ used <= limit /\ limit \in room.limit..room.grown
      /\ room.limit \in Nat /\ room.grown \in Nat /\ room.reserve \in Nat
  <2>1. room \in Rooms
    BY DEF RoomInv, Shapes
  <2> QED BY <2>1, RoomAssumption DEF RoomInv, Spending
<1>2. ASSUME used' = used, limit' = limit PROVE Stored(used', limit')
  BY <1>1, <1>2 DEF Stored
<1>3. \A n \in Nat : \A control : Fits(n, control) => used + n <= limit
  BY <1>1 DEF Fits
<1>4. \A f : Records(f) \in Nat
  BY DEF Records
<1>5. \A f : Missing(f) \in Nat
  BY DEF Missing
<1>6. ASSUME NEW op, send(op) \/ set_writers(op) PROVE Stored(used', limit')
  <2>1. \/ used' = used /\ limit' = limit
        \/ Fits(5, FALSE) /\ used' = used + 1 /\ limit' = limit
        \/ Fits(7, TRUE) /\ used' = used + 1 /\ limit' = limit
    BY <1>6, Zenon DEF send, set_writers, Reserve, disk
  <2>2. CASE used' = used /\ limit' = limit
    BY <1>2, <2>2
  <2>3. CASE Fits(5, FALSE) /\ used' = used + 1 /\ limit' = limit
    <3>1. used + 5 <= limit
      BY <1>3, <2>3
    <3> QED BY <1>1, <2>3, <3>1 DEF Stored
  <2>4. CASE Fits(7, TRUE) /\ used' = used + 1 /\ limit' = limit
    <3>1. used + 7 <= limit
      BY <1>3, <2>4
    <3> QED BY <1>1, <2>4, <3>1 DEF Stored
  <2> QED BY <2>1, <2>2, <2>3, <2>4
<1>7. ASSUME NEW f, receive(f) PROVE Stored(used', limit')
  <2>1. /\ limit' = limit
        /\ \/ Fits(Records(f), Critical(f)) /\ used' = used + Records(f)
           \/ used' = used
    BY <1>7, Zenon DEF receive, Retain
  <2>2. CASE Fits(Records(f), Critical(f)) /\ used' = used + Records(f)
    <3>1. PICK n : n = Records(f)
      OBVIOUS
    <3>2. n \in Nat /\ used + n <= limit
      BY <1>3, <1>4, <2>2, <3>1
    <3> QED BY <1>1, <2>1, <2>2, <3>1, <3>2 DEF Stored
  <2> QED BY <1>2, <2>1, <2>2
<1>8. ASSUME expand_limits PROVE Stored(used', limit')
  <2>1. PICK f, n : /\ f = image.blocked
                    /\ n = IF f \in Range(log) THEN 0 ELSE Records(f)
    OBVIOUS
  <2>2. /\ limit < room.grown /\ limit' = limit + 1
        /\ \/ used' = used
           \/ used + n <= limit + 1 /\ n = Records(f) /\ used' = used + Records(f)
    <3>1. \/ used' = used
          \/ /\ used + (IF f \in Range(log) THEN 0 ELSE Records(f)) <= limit + 1
             /\ f \notin Range(log) /\ used' = used + Records(f)
      BY <1>8, <2>1, Zenon DEF expand_limits, Retain
    <3>2. limit < room.grown /\ limit' = limit + 1
      BY <1>8 DEF expand_limits
    <3> QED BY <2>1, <3>1, <3>2
  <2>3. n \in Nat
    BY <1>4, <2>1
  <2>4. limit' \in room.limit..room.grown
    BY <1>1, <2>2
  <2> QED BY <1>1, <2>2, <2>3, <2>4 DEF Stored
<1>9. ASSUME finish_reserved PROVE Stored(used', limit')
  <2>1. PICK f : Fits(Missing(f), TRUE) /\ used' = used + Missing(f) /\ limit' = limit
    BY <1>9, Zenon DEF finish_reserved
  <2>2. PICK n : n = Missing(f)
    OBVIOUS
  <2>3. n \in Nat /\ used + n <= limit
    BY <1>3, <1>5, <2>1, <2>2
  <2> QED BY <1>1, <2>1, <2>2, <2>3 DEF Stored
<1>10. ASSUME commit_policy PROVE Stored(used', limit')
  <2>1. /\ limit' = limit
        /\ (Fits(2, TRUE) /\ used' = used + 2) \/ used' = used
    BY <1>10, Zenon DEF commit_policy
  <2>2. CASE Fits(2, TRUE) /\ used' = used + 2
    <3>1. used + 2 <= limit
      BY <1>3, <2>2
    <3> QED BY <1>1, <2>1, <2>2, <3>1 DEF Stored
  <2> QED BY <1>2, <2>1, <2>2
<1>11. ASSUME \/ finish_refused \/ finished \/ prepare_replay \/ advance_policy \/ reconcile
              \/ policies_done \/ next_author \/ authors_done \/ open \/ Crash \/ sign_and_die
              \/ anchor_ready \/ anchor_frame \/ chain_frame \/ scan_frame \/ author_done
       PROVE  Stored(used', limit')
  <2>1. used' = used /\ limit' = limit
    BY <1>11, Zenon DEF finish_refused, finished, prepare_replay, advance_policy, reconcile,
                        policies_done, next_author, authors_done, open, Crash, sign_and_die,
                        anchor_ready, anchor_frame, chain_frame, scan_frame, author_done,
                        Becomes, disk
  <2> QED BY <1>2, <2>1
<1>12. ASSUME UNCHANGED vars PROVE Stored(used', limit')
  <2>1. used' = used /\ limit' = limit
    BY <1>12, Zenon DEF vars, disk
  <2> QED BY <1>2, <2>1
<1> QED BY <1>6, <1>7, <1>8, <1>9, <1>10, <1>11, <1>12, Zenon DEF Next, Step

\* A call reads no more frames than its budget, nor than the page of an author.
LEMMA SpendsStep ==
    ASSUME RoomInv, [Next]_vars
    PROVE  Spends(pass') /\ (pc' = "policies" => pass'.quota = 0)
<1> DEFINE P == Spends(pass') /\ (pc' = "policies" => pass'.quota = 0)
<1>1. /\ room.frames \in Nat /\ room.page \in Nat
      /\ Spends(pass) /\ (pc = "policies" => pass.quota = 0)
  <2>1. room \in Rooms
    BY DEF RoomInv, Shapes
  <2> QED BY <2>1, RoomAssumption DEF RoomInv, Spending, Spends
<1>2. ASSUME pass' = pass, pc' = "policies" => pc = "policies" PROVE P
  BY <1>1, <1>2
<1>3. ASSUME GoApply PROVE P
  BY <1>1, <1>3 DEF GoApply, Spends
<1>4. ASSUME Return PROVE P
  BY <1>1, <1>4 DEF Return, NoPass, Spends
<1>5. ASSUME pass' = NoPass PROVE P
  BY <1>1, <1>5 DEF NoPass, Spends
<1>6. ASSUME NEW op, send(op) \/ set_writers(op) PROVE P
  <2>1. pass' = pass /\ pc' = "finish"
    BY <1>6, Zenon DEF send, set_writers, Reserve
  <2> QED BY <1>2, <2>1
<1>7. ASSUME NEW f, receive(f) PROVE P
  BY <1>3, <1>4, <1>7, Zenon DEF receive
<1>8. ASSUME expand_limits \/ finish_refused \/ finished \/ authors_done PROVE P
  BY <1>3, <1>4, <1>8, Zenon DEF expand_limits, finish_refused, finished, authors_done
<1>9. ASSUME finish_reserved \/ reconcile \/ prepare_replay \/ open PROVE P
  <2>1. pass' = pass /\ (pc' = pc \/ pc' = "finish" \/ pc' = "idle")
    BY <1>9, Zenon DEF finish_reserved, reconcile, prepare_replay, open
  <2> QED BY <1>2, <2>1
<1>10. ASSUME Crash \/ sign_and_die PROVE P
  BY <1>5, <1>10, Zenon DEF Crash, sign_and_die, Die
<1>11. ASSUME advance_policy PROVE P
  <2>1. pass.budget > 0 /\ pc = "policies" /\ pc' = pc
        /\ pass' = [pass EXCEPT !.budget = pass.budget - 1]
    BY <1>11 DEF advance_policy
  <2>2. pass' = [budget |-> pass.budget - 1, quota |-> pass.quota, left |-> pass.left,
                 commits |-> pass.commits, at |-> pass.at]
    BY ONLY <1>1, <2>1 DEF Spends
  <2> QED BY <1>1, <2>1, <2>2 DEF Spends
<1>12. ASSUME commit_policy PROVE P
  <2>1. \/ /\ pc' = pc /\ pass' = [pass EXCEPT !.commits = pass.commits - 1]
        \/ Return
    BY <1>12, Zenon DEF commit_policy
  <2>2. CASE pc' = pc /\ pass' = [pass EXCEPT !.commits = pass.commits - 1]
    <3>1. pass' = [budget |-> pass.budget, quota |-> pass.quota, left |-> pass.left,
                   commits |-> pass.commits - 1, at |-> pass.at]
      BY ONLY <1>1, <2>2 DEF Spends
    <3> QED BY <1>1, <2>2, <3>1 DEF Spends
  <2> QED BY <1>4, <2>1, <2>2
<1>13. ASSUME policies_done PROVE P
  <2>1. PICK n : n = Cardinality(DOMAIN cache)
    OBVIOUS
  <2>2. pc' = "authors" /\ pass' = [pass EXCEPT !.left = n]
    BY <1>13, <2>1 DEF policies_done
  <2>3. pass' = [budget |-> pass.budget, quota |-> pass.quota, left |-> n,
                 commits |-> pass.commits, at |-> pass.at]
    BY ONLY <1>1, <2>2 DEF Spends
  <2> QED BY <1>1, <2>2, <2>3 DEF Spends
<1>14. ASSUME next_author PROVE P
  <2>1. PICK b, m, q : b = pass.budget /\ m = room.page /\ q = Min({b, m})
    OBVIOUS
  <2>0. PICK x, n : x = Keys[(rotation % Len(Keys)) + 1] /\ n = pass.left - 1
    OBVIOUS
  <2>2. pass' = [pass EXCEPT !.at = x, !.left = n, !.quota = q]
    BY <1>14, <2>0, <2>1 DEF next_author
  <2>3. pass' = [budget |-> pass.budget, quota |-> q, left |-> n,
                 commits |-> pass.commits, at |-> x]
    BY ONLY <1>1, <2>2 DEF Spends
  <2>4. b \in Nat /\ m \in Nat
    BY <1>1, <2>1 DEF Spends
  <2>5. q \in {b, m} /\ q <= b /\ q <= m
    BY <2>1, <2>4, MinFacts
  <2>6. pc' = "authors"
    BY <1>14 DEF next_author
  <2> QED BY <1>1, <2>1, <2>3, <2>4, <2>5, <2>6 DEF Spends
<1>15. ASSUME NEW n \in {0, 1}, n <= pass.quota, pc' = "authors",
              pass' = [pass EXCEPT !.quota = pass.quota - n, !.budget = pass.budget - n]
       PROVE  P
  <2>1. pass' = [pass EXCEPT !.quota = pass.quota - n, !.budget = pass.budget - n]
    BY <1>15
  <2>2. pass' = [budget |-> pass.budget - n, quota |-> pass.quota - n, left |-> pass.left,
                 commits |-> pass.commits, at |-> pass.at]
    BY ONLY <1>1, <2>1 DEF Spends
  <2>3. PICK b, q : b = pass.budget /\ q = pass.quota
    OBVIOUS
  <2>4. /\ b \in 0..room.frames /\ q \in 0..room.page /\ q <= b /\ n <= q
        /\ room.frames \in Nat /\ room.page \in Nat /\ n \in {0, 1}
    BY <1>1, <1>15, <2>3 DEF Spends
  <2>5. b - n \in 0..room.frames /\ q - n \in 0..room.page /\ q - n <= b - n
    BY ONLY <2>4
  <2> QED BY <1>15, <2>2, <2>3, <2>5 DEF Spends
<1>16. ASSUME anchor_ready \/ anchor_frame \/ chain_frame \/ scan_frame PROVE P
  <2>1. /\ pc' = "authors"
        /\ \/ pass' = [pass EXCEPT !.quota = pass.quota - 0, !.budget = pass.budget - 0]
           \/ /\ pass' = [pass EXCEPT !.quota = pass.quota - 1, !.budget = pass.budget - 1]
              /\ pass.quota > 0
    BY <1>16, Zenon DEF anchor_ready, anchor_frame, chain_frame, scan_frame, Becomes, Working
  <2>2. pass.quota \in Nat
    BY <1>1 DEF Spends
  <2>3. 0 <= pass.quota /\ (pass.quota > 0 => 1 <= pass.quota)
    BY <2>2
  <2> QED BY <1>15, <2>1, <2>3
<1>17. ASSUME author_done PROVE P
  <2>1. pc' = "authors" /\ pass' = [pass EXCEPT !.at = None]
    BY <1>17 DEF author_done
  <2>2. pass' = [budget |-> pass.budget, quota |-> pass.quota, left |-> pass.left,
                 commits |-> pass.commits, at |-> None]
    BY ONLY <1>1, <2>1 DEF Spends
  <2> QED BY <1>1, <2>1, <2>2 DEF Spends
<1>18. ASSUME UNCHANGED vars PROVE P
  <2>1. pass' = pass /\ pc' = pc
    BY <1>18, Zenon DEF vars, memory
  <2> QED BY <1>2, <2>1
<1> HIDE DEF P
<1>19. P
  BY <1>6, <1>7, <1>8, <1>9, <1>10, <1>11, <1>12, <1>13, <1>14, <1>16, <1>17, <1>18, Zenon
     DEF Next, Step
<1> QED BY <1>19 DEF P

\* Both together.
LEMMA SpendingStep ==
    ASSUME RoomInv, [Next]_vars
    PROVE  Spending'
BY StoredStep, SpendsStep, LogStep DEF Stored, Spends, Spending

-----------------------------------------------------------------------------
(* The invariant of the session.                                           *)

\* A new room has no records.
LEMMA InitInv ==
    ASSUME Init
    PROVE  RoomInv
<1>1. /\ room \in Rooms /\ log = <<>> /\ committed = <<>> /\ reserved = <<>> /\ completed = {}
      /\ image = [event |-> None, policy |-> None, authorLost |-> FALSE,
                  ownerLost |-> FALSE, blocked |-> Zero]
      /\ used = 0 /\ limit = room.limit /\ pc = "idle" /\ todo = <<>> /\ seen = Unseen
      /\ replay = NoReplay /\ pass = NoPass /\ signed = {} /\ witnessed = {}
      /\ cache = [a \in room.writers \cup {Me} |-> [Fresh({}, a) EXCEPT !.more = FALSE]]
  BY DEF Init
<1>2. /\ room.limit \in Nat /\ room.grown \in Nat /\ room.limit <= room.grown
      /\ room.frames \in Nat /\ room.page \in Nat
  BY <1>1, RoomAssumption
<1>3. Range(log) = {} /\ Range(committed) = {} /\ Range(reserved) = {}
      /\ DOMAIN log = {} /\ DOMAIN committed = {} /\ DOMAIN reserved = {}
  BY <1>1 DEF Range
<1>4. /\ image.event = None /\ image.policy = None /\ image.blocked = Zero
      /\ image.authorLost \in BOOLEAN /\ image.ownerLost \in BOOLEAN
  BY <1>1
<1>5. Shapes
  BY <1>1, <1>3, <1>4 DEF Shapes
<1>6. Reservations
  BY <1>1, <1>3, <1>4 DEF Reservations, Pending
<1>7. Todo /\ ReservesOnce /\ Custody /\ Closed /\ NothingForgotten /\ Replaying
  BY <1>1, <1>3, <1>4 DEF Todo, ReservesOnce, Custody, Closed, NothingForgotten, Replaying,
                          Events, Policies
<1>8. Slot
  BY <1>3 DEF Slot, Events
<1>9. Spending
  BY <1>1, <1>2 DEF Spending, NoPass
<1>10. SeenRebuilt
  <2>1. RebuiltSeen = SeenOf(log, committed, room.observed, image.blocked)
    BY Observations
  <2>2. SeenOf(log, committed, room.observed, image.blocked)
           = After(log, committed, room.observed, 0)
    BY <1>1, <1>4 DEF SeenOf, Zero
  <2>3. After(log, committed, room.observed, 0) = Unseen
    BY <1>1, AfterFacts
  <2> QED BY <1>1, <2>1, <2>2, <2>3 DEF SeenRebuilt
<1>11. Cached
  <2>1. head.writers = room.writers
    BY <1>1 DEF head, Genesis
  <2>2. \A a, n : EventAt(log, a, n) = Zero
    BY <1>3 DEF EventAt, EventHits, FirstOf
  <2>3. ASSUME NEW a \in room.writers \cup {Me}
        PROVE  RowAt(log, a, head, LastSeal(committed, a), cache[a])
    <3>1. PICK c, no, g : c = cache[a] /\ no = FALSE /\ g = AuthorFork({}, a)
      OBVIOUS
    <3>2. g = no /\ no \in BOOLEAN /\ ~ForkAt(log, a)
      BY <1>3, <3>1 DEF AuthorFork, ForkAt
    <3>3. c = [head |-> Zero, checked |-> Zero, anchor |-> NoSeq, more |-> no,
               failure |-> no, latest |-> Zero, scan |-> NoSeq]
      BY <1>1, <3>1, <3>2 DEF Fresh
    <3>4. Zero \in EventsOf(log, a)
      BY DEF EventsOf
    <3>5. c \in Rows(log, a)
      BY ONLY <3>2, <3>3, <3>4 DEF Rows
    <3>6. c.head = Zero /\ ~c.failure /\ c.latest = Zero /\ c.scan = NoSeq
      BY <3>1, <3>3
    <3>7. c.head.sequence = 0
      BY <3>6 DEF Zero
    <3>8. LastSeal(committed, a) = 0
      <4>1. SealUnder(committed, 0, a) = Zero
        BY SealNext
      <4> QED BY <1>1, <4>1 DEF LastSeal, Zero
    <3>9. FollowsAt(log, a, head, LastSeal(committed, a), c)
      BY <2>2, <3>6, <3>7, <3>8 DEF FollowsAt, LinkedAt, LatestAt, NoneOf
    <3> QED BY <3>1, <3>2, <3>5, <3>6, <3>9 DEF RowAt
  <2>4. DOMAIN cache = room.writers \cup {Me} /\ cache = [a \in DOMAIN cache |-> cache[a]]
    BY <1>1
  <2> QED BY <2>1, <2>3, <2>4 DEF Cached
<1> QED BY <1>5, <1>6, <1>7, <1>8, <1>9, <1>10, <1>11 DEF RoomInv

\* The session keeps the invariant, whatever it does.
LEMMA RoomStep ==
    ASSUME RoomInv, [Next]_vars
    PROVE  RoomInv'
BY ShapesStep, ReservationsStep, TodoStep, ReservesOnceStep, CustodyStep, ClosedStep,
   ReplayingStep, CachedStep, SpendingStep, SeenStep, SlotStep, ForgottenStep DEF RoomInv

\* In every reachable state what the session remembers agrees with its records.
THEOREM RoomInvariant == Spec => []RoomInv
<1>1. Init => RoomInv
  BY InitInv
<1>2. RoomInv /\ [Next]_vars => RoomInv'
  BY RoomStep
<1> QED BY <1>1, <1>2, PTL DEF Spec

-----------------------------------------------------------------------------
(* What is signed.                                                         *)

\* The session signs what it has reserved, while nothing fences that key.
LEMMA SignStep ==
    ASSUME RoomInv, [Next]_vars
    PROVE  /\ signed \subseteq signed'
           /\ \A f \in signed' \ signed :
                 /\ pc = "finish" /\ image.blocked = Zero /\ ~seen.forked
                 /\ f.kind = "event" => ~image.authorLost
                 /\ f.kind = "policy" => ~image.ownerLost
<1> DEFINE May(f) == /\ pc = "finish" /\ MayFinish(f)
           P == signed' = signed \/ \E f : May(f) /\ signed' = signed \cup {f}
<1>1. ASSUME NEW op, send(op) \/ set_writers(op) PROVE P
  BY <1>1 DEF send, set_writers, Reserve, ghosts
<1>2. ASSUME NEW f \in room.offers, receive(f) PROVE P
  BY <1>2 DEF receive
<1>3. ASSUME finish_reserved PROVE P
  <2>1. PICK op, f : Finishing(op, f)
    BY <1>3, FinishFacts
  <2> QED BY <2>1, Zenon DEF Finishing
<1>4. ASSUME finish_refused PROVE P
  <2>1. PICK f : f = reserved[Head(todo)]
    OBVIOUS
  <2>2. pc = "finish" /\ signed' = signed \cup (IF MayFinish(f) THEN {f} ELSE {})
    BY <1>4, <2>1, Zenon DEF finish_refused
  <2>3. CASE MayFinish(f)
    BY <2>2, <2>3
  <2>4. CASE ~MayFinish(f)
    BY <2>2, <2>4
  <2> QED BY <2>3, <2>4
<1>5. ASSUME sign_and_die PROVE P
  BY <1>5, Zenon DEF sign_and_die
<1>6. ASSUME finished \/ prepare_replay \/ advance_policy \/ reconcile \/ expand_limits PROVE P
  BY <1>6, Zenon DEF finished, prepare_replay, advance_policy, reconcile, expand_limits, ghosts
<1>7. ASSUME policies_done \/ next_author \/ authors_done \/ commit_policy PROVE P
  BY <1>7, Zenon DEF policies_done, next_author, authors_done, commit_policy, ghosts
<1>8. ASSUME anchor_ready \/ anchor_frame \/ chain_frame \/ scan_frame \/ author_done PROVE P
  BY <1>8, Zenon DEF anchor_ready, anchor_frame, chain_frame, scan_frame, author_done, Becomes, ghosts
<1>9. ASSUME open \/ Crash \/ UNCHANGED vars PROVE P
  BY <1>9, Zenon DEF open, Crash, ghosts, vars
<1> HIDE DEF P
<1>10. P
  BY <1>1, <1>2, <1>3, <1>4, <1>5, <1>6, <1>7, <1>8, <1>9, Zenon DEF Next, Step
<1>11. ASSUME NEW f, May(f)
       PROVE  /\ pc = "finish" /\ image.blocked = Zero /\ ~seen.forked
              /\ f.kind = "event" => ~image.authorLost
              /\ f.kind = "policy" => ~image.ownerLost
  <2>1. "event" # "policy"
    OBVIOUS
  <2> QED BY <1>11, <2>1, Zenon DEF MayFinish, writable
<1> HIDE DEF May
<1>12. CASE signed' = signed
  BY <1>12
<1>13. ASSUME NEW f, May(f), signed' = signed \cup {f}
       PROVE  /\ signed \subseteq signed'
              /\ \A g \in signed' \ signed : g = f
  BY <1>13
<1> QED BY <1>10, <1>11, <1>12, <1>13 DEF P

\* After the proof of an owner fork nothing is signed, and after the proof that
\* another holds a key nothing under that key.
LEMMA FencedStep ==
    ASSUME RoomInv, [Next]_vars
    PROVE  /\ OwnerForkSeen => signed' = signed
           /\ \A f \in signed' \ signed : ~CloneSeen(f.kind)
<1> DEFINE New(f) == /\ pc = "finish" /\ image.blocked = Zero /\ ~seen.forked
                     /\ f.kind = "event" => ~image.authorLost
                     /\ f.kind = "policy" => ~image.ownerLost
<1>1. signed \subseteq signed' /\ \A f \in signed' \ signed : New(f)
  BY SignStep
<1>2. witnessed \subseteq Range(log) \cup {image.blocked} /\ \A f \in witnessed : WellFormed(f)
  BY DEF RoomInv, Shapes, NothingForgotten
<1>3. Zero \notin witnessed
  BY <1>2 DEF WellFormed, Zero
<1>4. ASSUME NEW f \in signed' \ signed PROVE ~OwnerForkSeen
  <2>1. pc = "finish" /\ image.blocked = Zero /\ ~seen.forked
    BY <1>1, <1>4
  <2>2. SUFFICES ASSUME OwnerForkSeen PROVE FALSE
    OBVIOUS
  <2>3. PICK p, q : /\ p \in witnessed \cup (signed \cap Range(log))
                    /\ q \in witnessed \cup (signed \cap Range(log))
                    /\ p.kind = "policy" /\ q.kind = "policy" /\ p # q /\ p.revision = q.revision
    BY <2>2 DEF OwnerForkSeen
  <2>4. p \in Range(log) /\ q \in Range(log)
    BY <1>2, <1>3, <2>1, <2>3
  <2>5. seen = SeenOf(log, committed, room.observed, image.blocked)
    BY <2>1, Observations DEF RoomInv, SeenRebuilt
  <2>6. PolicyLog(log) /\ Len(committed) \in Nat /\ room.observed \in Nat
    BY Basics
  <2>7. PICK L, C, m, b : L = log /\ C = committed /\ m = room.observed /\ b = image.blocked
    OBVIOUS
  <2>8. b.kind = "policy" => b.revision \in Nat
    BY <2>1, <2>7 DEF Zero
  <2>9. PolicyLog(L) /\ Len(C) \in Nat /\ m \in Nat
    BY <2>6, <2>7
  <2>10. SeenOf(L, C, m, b).forked
    BY <2>3, <2>4, <2>7, <2>8, <2>9, SeenSays
  <2> QED BY <2>1, <2>5, <2>7, <2>10
<1>5. ASSUME NEW f \in signed' \ signed PROVE ~CloneSeen(f.kind)
  <2>1. New(f)
    BY <1>1, <1>5
  <2>2. SUFFICES ASSUME NEW g \in witnessed, g.kind = f.kind, g \notin Range(reserved),
                        IF f.kind = "event" THEN g.author = Me ELSE room.created
                 PROVE  FALSE
    BY DEF CloneSeen
  <2>3. g \in Range(log) /\ WellFormed(g)
    BY <1>2, <1>3, <2>1
  <2>4. CASE f.kind = "event"
    BY <2>1, <2>2, <2>3, <2>4 DEF RoomInv, Custody, Events
  <2>5. CASE f.kind # "event"
    <3>1. g.kind = "policy"
      BY <2>2, <2>3, <2>5 DEF WellFormed
    <3> QED BY <2>1, <2>2, <2>3, <2>5, <3>1 DEF RoomInv, Custody, Policies
  <2> QED BY <2>4, <2>5
<1> QED BY <1>1, <1>4, <1>5

\* The home signs one frame for a sequence or a revision, forgets no frame that
\* it accepted, and signs nothing that the evidence it accepted forbids: over
\* reservations, signatures, deaths and the emergency slot (SignsSafely).
THEOREM SigningIsSafe == Spec => SignsSafely
<1>1. RoomInv => SignsOnce /\ NothingForgotten
  BY DEF RoomInv, Reservations, ReservesOnce, SignsOnce
<1>2. RoomInv /\ [Next]_vars =>
         [/\ OwnerForkSeen => signed' = signed
          /\ \A f \in signed' \ signed : ~CloneSeen(f.kind)]_vars
  BY FencedStep
<1> QED BY <1>1, <1>2, RoomInvariant, PTL DEF Spec, SignsSafely, FencedNeverSigns

-----------------------------------------------------------------------------
(* What is shown as owner-sealed.                                          *)

\* The walk from a terminal over the events before it.
Walks(s, g) ==
    g = [k \in 0..MaxSeq |-> IF k = 0 THEN s
                             ELSE IF g[k - 1] = Zero THEN Zero
                             ELSE g[k - 1].previous]
Walk(s) == CHOOSE g : Walks(s, g)

\* The walk from a retained terminal with its chain visits exactly that chain.
LEMMA AncestryFacts ==
    ASSUME RoomInv, NEW s, NEW a, NEW n \in 1..MaxSeq, Linked(a, n), EventAt(log, a, n) = s
    PROVE  Ancestry(s) = {EventAt(log, a, k) : k \in 1..n}
<1>0. MaxSeq \in Nat /\ EventAt(log, a, 0) = Zero
  BY RoomAssumption, Basics, NoFirst DEF PolicyLog, RoomInv, Shapes
<1>1. PICK E : E = [k \in 0..n |-> EventAt(log, a, k)]
  OBVIOUS
<1>2. /\ E[n] = s /\ E[0] = Zero
      /\ \A k \in 1..n : E[k] # Zero /\ E[k].previous = E[k - 1]
  <2>1. \A k \in 1..n : EventAt(log, a, k) # Zero
                        /\ EventAt(log, a, k).previous = EventAt(log, a, k - 1)
    BY ClosedAt DEF LinkedAt
  <2>2. \A k \in 0..n : E[k] = EventAt(log, a, k)
    BY <1>1
  <2>3. \A k \in 1..n : k \in 0..n /\ k - 1 \in 0..n
    OBVIOUS
  <2>4. 0 \in 0..n /\ n \in 0..n
    OBVIOUS
  <2> QED BY <1>0, <2>1, <2>2, <2>3, <2>4
<1> DEFINE g == [k \in 0..MaxSeq |-> IF k <= n THEN E[n - k] ELSE Zero]
<1>3. \A k \in 0..MaxSeq : g[k] = IF k <= n THEN E[n - k] ELSE Zero
  OBVIOUS
<1>4. ASSUME NEW k \in 0..MaxSeq
      PROVE  g[k] = IF k = 0 THEN s ELSE IF g[k - 1] = Zero THEN Zero ELSE g[k - 1].previous
  <2> HIDE DEF g
  <2>1. CASE k = 0
    BY <2>1, <1>0, <1>2, <1>3
  <2>2. CASE k # 0 /\ k <= n
    <3>1. k - 1 \in 0..MaxSeq /\ k - 1 <= n /\ n - (k - 1) \in 1..n
          /\ (n - (k - 1)) - 1 = n - k
      BY <2>2, <1>0
    <3>2. g[k] = E[n - k] /\ g[k - 1] = E[n - (k - 1)]
      BY <1>3, <2>2, <3>1
    <3>3. E[n - (k - 1)] # Zero /\ E[n - (k - 1)].previous = E[n - k]
      <4>1. PICK i : i = n - (k - 1)
        OBVIOUS
      <4>2. E[i] # Zero /\ E[i].previous = E[i - 1]
        BY <1>2, <3>1, <4>1
      <4> QED BY <3>1, <4>1, <4>2
    <3> QED BY <2>2, <3>2, <3>3
  <2>3. CASE k = n + 1
    <3>1. k - 1 = n /\ n \in 0..MaxSeq /\ n - n = 0 /\ ~(k <= n) /\ k # 0
      BY <2>3
    <3>2. g[k - 1] = Zero /\ g[k] = Zero
      BY <1>2, <1>3, <3>1
    <3> QED BY <3>1, <3>2
  <2>4. CASE k > n + 1
    <3>1. k - 1 \in 0..MaxSeq /\ ~(k - 1 <= n) /\ ~(k <= n) /\ k # 0
      BY <2>4, <1>0
    <3>2. g[k - 1] = Zero /\ g[k] = Zero
      BY <1>3, <3>1
    <3> QED BY <3>1, <3>2
  <2> QED BY <1>0, <2>1, <2>2, <2>3, <2>4
<1>5. Walks(s, g)
  <2> DEFINE r == [k \in 0..MaxSeq |-> IF k = 0 THEN s
                                       ELSE IF g[k - 1] = Zero THEN Zero
                                       ELSE g[k - 1].previous]
  <2>1. DOMAIN g = 0..MaxSeq /\ g = [k \in DOMAIN g |-> g[k]]
    OBVIOUS
  <2> HIDE DEF g
  <2>2. \A k \in 0..MaxSeq : g[k] = r[k]
    BY <1>4
  <2>3. g = r
    BY <2>1, <2>2
  <2> QED BY <2>3 DEF Walks
<1> HIDE DEF g
<1>6. PICK h : h = Walk(s)
  OBVIOUS
<1>7. Walks(s, h)
  BY <1>5, <1>6 DEF Walk
<1>8. \A k \in 0..MaxSeq :
         h[k] = IF k = 0 THEN s ELSE IF h[k - 1] = Zero THEN Zero ELSE h[k - 1].previous
  <2> HIDE <1>6
  <2> QED BY <1>7 DEF Walks
<1> DEFINE S == {k \in 0..MaxSeq : h[k] = g[k]}
<1>9. 0 \in S
  BY <1>0, <1>4, <1>8
<1>10. ASSUME NEW k \in 0..MaxSeq, k + 1 \in 0..MaxSeq, k \in S PROVE k + 1 \in S
  <2>1. (k + 1) - 1 = k /\ k + 1 # 0
    BY <1>0
  <2>2. h[k + 1] = IF h[k] = Zero THEN Zero ELSE h[k].previous
    BY <1>8, <1>10, <2>1
  <2>3. g[k + 1] = IF g[k] = Zero THEN Zero ELSE g[k].previous
    BY <1>4, <1>10, <2>1
  <2> QED BY <1>10, <2>2, <2>3
<1> HIDE DEF S
<1>11. 0..MaxSeq \subseteq S
  BY <1>0, <1>9, <1>10, Climb
<1>12. DOMAIN h = 0..MaxSeq /\ \A k \in 0..MaxSeq : h[k] = IF k <= n THEN E[n - k] ELSE Zero
  <2>1. \A k \in 0..MaxSeq : h[k] = g[k]
    BY <1>11 DEF S
  <2>2. DOMAIN h = 0..MaxSeq
    <3> HIDE <1>6
    <3> QED BY <1>7 DEF Walks
  <2> QED BY <1>3, <2>1, <2>2
<1>13. Ancestry(s) = Range(h) \ {Zero}
  BY <1>6 DEF Ancestry, Walk, Walks
<1>14. ASSUME NEW e \in Range(h) \ {Zero} PROVE \E k \in 1..n : e = E[k]
  <2>1. PICK k \in 0..MaxSeq : e = h[k]
    BY <1>12, <1>14 DEF Range
  <2>2. k <= n /\ e = E[n - k]
    BY <1>12, <1>14, <2>1
  <2>3. n - k \in 0..n
    BY <2>2
  <2>4. n - k # 0
    BY <1>2, <1>14, <2>2
  <2>5. n - k \in 1..n
    BY <2>3, <2>4
  <2> QED BY <2>2, <2>5
<1>15. ASSUME NEW k \in 1..n PROVE E[k] \in Range(h) \ {Zero}
  <2>1. n - k \in 0..MaxSeq /\ n - k <= n /\ n - (n - k) = k
    BY <1>0
  <2>2. h[n - k] = E[k]
    BY <1>12, <2>1
  <2> QED BY <1>2, <1>12, <2>1, <2>2 DEF Range
<1>16. \A k \in 1..n : E[k] = EventAt(log, a, k)
  BY <1>1
<1> QED BY <1>13, <1>14, <1>15, <1>16

\* What a closed policy seals: each seal ends a retained chain, and the policy
\* before it is the one whose revision it follows.
LEMMA SealChain ==
    ASSUME RoomInv, NEW i \in 1..Len(committed)
    PROVE  /\ committed[i].previous = IF i = 1 THEN Genesis ELSE committed[i - 1]
           /\ committed[i].previous.revision = i - 1
           /\ committed[i].previous \in {Genesis} \cup Range(committed)
           /\ \A s \in committed[i].seals :
                 /\ s.kind = "event" /\ s.sequence \in 1..MaxSeq
                 /\ s.author \in committed[i].previous.writers
                 /\ Linked(s.author, s.sequence) /\ EventAt(log, s.author, s.sequence) = s
                 /\ s.policy = committed[i].previous
<1>1. /\ DOMAIN committed = 1..Len(committed) /\ Len(committed) \in Nat
      /\ \A j \in 1..Len(committed) : committed[j].revision = j /\ committed[j] \in Range(log)
                                      /\ committed[j].kind = "policy"
  BY Basics
<1>2. /\ committed[i].previous = IF i = 1 THEN Genesis ELSE committed[i - 1]
      /\ \A s \in committed[i].seals :
            Sealed(s, committed[i].previous, SealedUnder(i - 1, s.author))
  BY <1>1 DEF RoomInv, Closed
<1>3. /\ committed[i].previous.revision = i - 1
      /\ committed[i].previous \in {Genesis} \cup Range(committed)
  <2>1. CASE i = 1
    BY <1>2, <2>1 DEF Genesis
  <2>2. CASE i # 1
    <3>1. i - 1 \in 1..Len(committed)
      BY <1>1, <2>2
    <3> QED BY <1>1, <1>2, <2>2, <3>1 DEF Range
  <2> QED BY <2>1, <2>2
<1>4. WellFormed(committed[i])
  BY <1>1 DEF RoomInv, Shapes
<1>5. ASSUME NEW s \in committed[i].seals
      PROVE  /\ s.kind = "event" /\ s.sequence \in 1..MaxSeq
             /\ s.author \in committed[i].previous.writers
             /\ Linked(s.author, s.sequence) /\ EventAt(log, s.author, s.sequence) = s
             /\ s.policy = committed[i].previous
  <2>1. s.kind = "event" /\ s.sequence \in 1..MaxSeq
    BY <1>1, <1>4 DEF WellFormed
  <2> QED BY <1>2, <2>1, Indices DEF Sealed
<1> QED BY <1>2, <1>3, <1>5

\* An index, a cutoff and a revision decide what the owner endorsed.
LEMMA SealsAgreeAlways ==
    ASSUME RoomInv
    PROVE  SealsAgree
<1>0. /\ DOMAIN committed = 1..Len(committed) /\ Len(committed) \in Nat
      /\ \A j \in 1..Len(committed) : committed[j].revision = j
      /\ PolicyLog(log) /\ Genesis.revision = 0
  BY Basics DEF Genesis
<1>1. ASSUME NEW e \in Events PROVE WellFormed(e) /\ e.kind = "event" /\ e \in Range(log)
  BY <1>1 DEF RoomInv, Shapes, Events
<1>2. ASSUME NEW e \in Events, OwnerSealed(e) PROVE Endorsed(e)
  <2>1. PICK i : i = e.policy.revision + 1
    OBVIOUS
  <2>2. /\ EventAt(log, e.author, e.sequence) = e
        /\ e.policy \in {Genesis} \cup Range(committed) /\ e.policy.revision < Len(committed)
        /\ e.author \in e.policy.writers
    BY <1>2, Indices DEF OwnerSealed
  <2>3. PICK s \in committed[i].seals : s.author = e.author /\ e.sequence <= s.sequence
    BY <1>2, <2>1 DEF OwnerSealed
  <2>4. i \in 1..Len(committed) /\ e.policy = IF i = 1 THEN Genesis ELSE committed[i - 1]
    <3>1. CASE e.policy = Genesis
      BY <1>0, <2>1, <2>2, <3>1
    <3>2. CASE e.policy \in Range(committed)
      <4>1. PICK j \in 1..Len(committed) : e.policy = committed[j]
        BY <1>0, <3>2 DEF Range
      <4>2. j = e.policy.revision
        BY <1>0, <4>1
      <4> QED BY <1>0, <2>1, <2>2, <4>1, <4>2
    <3> QED BY <2>2, <3>1, <3>2
  <2>5. PICK p : p = committed[i]
    OBVIOUS
  <2>6. p \in Range(committed) /\ p.previous = e.policy
    BY <1>0, <2>4, <2>5, SealChain DEF Range
  <2>7. s.sequence \in 1..MaxSeq /\ Linked(s.author, s.sequence) /\ EventAt(log, s.author, s.sequence) = s
    BY <2>3, <2>4, SealChain
  <2>8. Ancestry(s) = {EventAt(log, e.author, k) : k \in 1..s.sequence}
    BY <2>3, <2>7, AncestryFacts
  <2>9. e.sequence \in 1..s.sequence
    BY <1>1, <2>3, <2>7, RoomAssumption DEF WellFormed
  <2>10. e \in Ancestry(s)
    BY <2>2, <2>8, <2>9
  <2> QED BY <2>2, <2>3, <2>5, <2>6, <2>10 DEF Endorsed
<1>3. ASSUME NEW e \in Events, Endorsed(e) PROVE OwnerSealed(e)
  <2>0. PICK p \in Range(committed) :
           /\ p.previous = e.policy /\ e.author \in e.policy.writers
           /\ \E s \in p.seals : e \in Ancestry(s)
    BY <1>3 DEF Endorsed
  <2>1. PICK s \in p.seals :
           p.previous = e.policy /\ e.author \in e.policy.writers /\ e \in Ancestry(s)
    BY <2>0
  <2>2. PICK i \in 1..Len(committed) : p = committed[i]
    BY <1>0, <2>1 DEF Range
  <2>3. /\ e.policy.revision = i - 1 /\ e.policy \in {Genesis} \cup Range(committed)
        /\ s.sequence \in 1..MaxSeq /\ Linked(s.author, s.sequence)
        /\ EventAt(log, s.author, s.sequence) = s
    BY <2>1, <2>2, SealChain
  <2>4. Ancestry(s) = {EventAt(log, s.author, k) : k \in 1..s.sequence}
    BY <2>3, AncestryFacts
  <2>5. PICK k \in 1..s.sequence : e = EventAt(log, s.author, k)
    BY <2>1, <2>4
  <2>6. e # Zero
    BY <1>1 DEF Zero
  <2>7. e.author = s.author /\ e.sequence = k
    BY <1>0, <2>5, <2>6, EventAtFacts DEF PolicyLog
  <2>8. indexed_event(e.author, e.sequence) = e
    BY <2>5, <2>7, Indices
  <2>9. e.policy.revision < Len(committed) /\ committed[e.policy.revision + 1] = p
    BY <1>0, <2>2, <2>3
  <2>10. e.sequence <= s.sequence
    BY <2>3, <2>5, <2>7
  <2> QED BY <2>1, <2>3, <2>7, <2>8, <2>9, <2>10 DEF OwnerSealed
<1> QED BY <1>2, <1>3 DEF SealsAgree

\* What was owner-sealed stays so.
LEMMA SealsStay ==
    ASSUME RoomInv, [Next]_vars, NEW e \in Events, OwnerSealed(e)
    PROVE  OwnerSealed(e)'
<1>0. /\ DOMAIN committed = 1..Len(committed) /\ Len(committed) \in Nat
      /\ committed \in Seq(Range(committed)) /\ Genesis' = Genesis /\ Genesis.revision = 0
      /\ \A j \in 1..Len(committed) : committed[j].revision = j
  BY Basics, LogStep DEF Genesis
<1>1. /\ EventAt(log, e.author, e.sequence) = e
      /\ e.policy \in {Genesis} \cup Range(committed) /\ e.policy.revision < Len(committed)
      /\ e.author \in e.policy.writers
      /\ \E s \in committed[e.policy.revision + 1].seals :
            s.author = e.author /\ e.sequence <= s.sequence
  BY Indices DEF OwnerSealed
<1>2. indexed_event(e.author, e.sequence)' = e
  <2>1. e # Zero
    BY DEF Events, Zero
  <2>2. EventAt(log', e.author, e.sequence) = e
    BY <1>1, <2>1, Growth
  <2> QED BY <2>2, Indices
<1>3. PICK r : r = e.policy.revision
  OBVIOUS
<1>4. r \in Nat /\ r + 1 \in 1..Len(committed)
  BY <1>0, <1>1, <1>3 DEF Range
<1>5. /\ Len(committed) <= Len(committed') /\ Len(committed') \in Nat
      /\ Range(committed) \subseteq Range(committed')
      /\ committed'[r + 1] = committed[r + 1]
  <2>1. CASE committed' = committed
    BY <2>1, <1>0
  <2>2. CASE committed' = Append(committed, replay.update)
    BY <1>0, <1>4, <2>2, AppendFacts
  <2> QED BY <2>1, <2>2, CommitStep
<1>6. /\ e.policy \in {Genesis'} \cup Range(committed') /\ e.policy.revision < Len(committed')
      /\ \E s \in committed'[e.policy.revision + 1].seals :
            s.author = e.author /\ e.sequence <= s.sequence
  BY <1>0, <1>1, <1>3, <1>4, <1>5
<1> QED BY <1>1, <1>2, <1>6 DEF OwnerSealed

\* Whichever branch of a forked author arrived first, an event is shown as
\* owner-sealed exactly when it is in the history that the owner's closing
\* policy commits to, and what was shown as sealed stays sealed.
THEOREM SealingIsFinal == Spec => SealsAreFinal
<1>1. RoomInv => SealsAgree
  BY SealsAgreeAlways
<1>2. (RoomInv => SealsAgree)'
  BY <1>1, PTL
<1>3. RoomInv /\ [Next]_vars =>
         [/\ SealsAgree'
          /\ \A e \in Events : OwnerSealed(e) => OwnerSealed(e)']_vars
  BY <1>2, RoomStep, SealsStay
<1> QED BY <1>3, RoomInvariant, PTL DEF Spec, SealsAreFinal

-----------------------------------------------------------------------------
(* What is found when the home is opened again.                            *)

\* A chain that the records show to be broken is rebuilt as broken.
LEMMA BrokenRebuilt ==
    ASSUME NEW L, NEW a, NEW h, NEW seal, NEW last, NEW broken, NEW l, NEW r,
           RebuiltAt(L, a, h, seal, last, broken, l, r),
           NEW n \in Nat, LinkedAt(L, a, n), EventAt(L, a, n + 1) # Zero,
           EventAt(L, a, n + 1).previous # EventAt(L, a, n)
    PROVE  r.failure
<1>1. /\ last \in Nat /\ LinkedAt(L, a, last) /\ r.failure = broken
      /\ ~broken => EventAt(L, a, last + 1) = Zero
      /\ broken => EventAt(L, a, last + 1).previous # EventAt(L, a, last)
  BY DEF RebuiltAt
<1>2. CASE last < n
  <2>1. last + 1 \in 1..n /\ (last + 1) - 1 = last
    BY <1>1, <1>2
  <2>2. EventAt(L, a, last + 1) # Zero /\ EventAt(L, a, last + 1).previous = EventAt(L, a, last)
    BY <2>1 DEF LinkedAt
  <2> QED BY <1>1, <2>2
<1>3. CASE n < last
  <2>1. n + 1 \in 1..last /\ (n + 1) - 1 = n
    BY <1>1, <1>3
  <2> QED BY <1>1, <2>1 DEF LinkedAt
<1>4. CASE n = last
  BY <1>1, <1>4
<1> QED BY <1>1, <1>2, <1>3, <1>4

\* A row at rest is the row that would be rebuilt.
LEMMA SettledRebuilt ==
    ASSUME NEW L, \A f \in Range(L) : WellFormed(f), NEW a, NEW h,
           NEW seal \in EventsOf(L, a), LinkedAt(L, a, seal.sequence),
           NEW last, NEW broken, NEW l, NEW r, RebuiltAt(L, a, h, seal, last, broken, l, r),
           NEW c \in Rows(L, a), FollowsAt(L, a, h, seal.sequence, c),
           ~c.failure, ~c.more, c.anchor = NoSeq, c.scan = NoSeq,
           ~(seal # c.checked /\ c.head.sequence >= seal.sequence)
    PROVE  c = r
<1> DEFINE top == c.head.sequence
<1>0. top \in Nat /\ seal.sequence \in Nat
  <2>1. c.head \in EventsOf(L, a)
    BY DEF Rows
  <2>2. c.head.sequence \in 0..MaxSeq /\ seal.sequence \in 0..MaxSeq
    BY <2>1, EventsOfFacts
  <2> QED BY <2>2, RoomAssumption
<1>1. /\ last \in Nat /\ LinkedAt(L, a, last) /\ broken \in BOOLEAN
      /\ ~broken => EventAt(L, a, last + 1) = Zero
      /\ broken => /\ EventAt(L, a, last + 1) # Zero
                   /\ EventAt(L, a, last + 1).previous # EventAt(L, a, last)
  BY DEF RebuiltAt
<1>2. /\ LinkedAt(L, a, top) /\ EventAt(L, a, top) = c.head /\ EventAt(L, a, top + 1) = Zero
      /\ LatestAt(L, a, h, seal.sequence, c)
  BY DEF FollowsAt
<1> HIDE DEF top
<1>3. top = last
  <2>1. CASE top < last
    <3>1. top + 1 \in 1..last
      BY <1>0, <1>1, <2>1
    <3> QED BY <1>1, <1>2, <3>1 DEF LinkedAt
  <2>2. CASE last < top
    <3>1. last + 1 \in 1..top /\ (last + 1) - 1 = last
      BY <1>0, <1>1, <2>2
    <3>2. EventAt(L, a, last + 1) # Zero /\ EventAt(L, a, last + 1).previous = EventAt(L, a, last)
      BY <1>2, <3>1 DEF LinkedAt
    <3> QED BY <1>1, <3>2
  <2> QED BY <1>0, <1>1, <2>1, <2>2
<1>4. ~broken
  BY <1>1, <1>2, <1>3
<1>5. top >= seal.sequence
  <2>1. SUFFICES ASSUME top < seal.sequence PROVE FALSE
    BY <1>0
  <2>2. top + 1 \in 1..seal.sequence
    BY <1>0, <2>1
  <2> QED BY <1>2, <2>2 DEF LinkedAt
<1>6. c.checked = seal
  BY <1>5 DEF top
<1>7. c.latest = l
  <2>1. IF c.latest = Zero THEN NoneOf(L, a, h, seal.sequence, top)
        ELSE /\ c.latest.sequence \in seal.sequence + 1..top
             /\ EventAt(L, a, c.latest.sequence) = c.latest /\ c.latest.policy = h
             /\ NoneOf(L, a, h, c.latest.sequence, top)
    BY <1>2 DEF LatestAt, top
  <2>2. IF l = Zero THEN NoneOf(L, a, h, seal.sequence, last)
        ELSE /\ l.sequence \in seal.sequence + 1..last /\ EventAt(L, a, l.sequence) = l
             /\ l.policy = h /\ NoneOf(L, a, h, l.sequence, last)
    BY DEF RebuiltAt
  <2>3. CASE c.latest = Zero
    BY <1>3, <2>1, <2>2, <2>3 DEF NoneOf
  <2>4. CASE l = Zero
    BY <1>3, <2>1, <2>2, <2>4 DEF NoneOf
  <2>5. CASE c.latest # Zero /\ l # Zero
    <3>1. PICK m, k : m = c.latest.sequence /\ k = l.sequence
      OBVIOUS
    <3>2. m \in seal.sequence + 1..last /\ k \in seal.sequence + 1..last
      BY <1>3, <2>1, <2>2, <2>5, <3>1
    <3>3. ~(m < k)
      <4>1. SUFFICES ASSUME m < k PROVE FALSE
        OBVIOUS
      <4>2. k \in m + 1..top
        BY <1>0, <1>3, <3>2, <4>1
      <4> QED BY <2>1, <2>2, <2>5, <3>1, <4>2 DEF NoneOf
    <3>4. ~(k < m)
      <4>1. SUFFICES ASSUME k < m PROVE FALSE
        OBVIOUS
      <4>2. m \in k + 1..last
        BY <1>0, <1>1, <3>2, <4>1
      <4> QED BY <2>1, <2>2, <2>5, <3>1, <4>2 DEF NoneOf
    <3>5. m = k
      BY <1>0, <1>1, <3>2, <3>3, <3>4
    <3> QED BY <2>1, <2>2, <2>5, <3>1, <3>5
  <2> QED BY <2>3, <2>4, <2>5
<1>8. PICK no : no = FALSE
  OBVIOUS
<1>9. c.more = no /\ c.failure = no /\ broken = no
  <2>1. c.more \in BOOLEAN /\ c.failure \in BOOLEAN
    BY DEF Rows
  <2> QED BY <1>1, <1>4, <1>8, <2>1
<1>10. c = [head |-> c.head, checked |-> c.checked, anchor |-> c.anchor, more |-> c.more,
            failure |-> c.failure, latest |-> c.latest, scan |-> c.scan]
  BY DEF Rows
<1>11. r = [head |-> EventAt(L, a, last),
            checked |-> IF last >= seal.sequence THEN seal ELSE Zero,
            anchor |-> NoSeq, more |-> broken, failure |-> broken, latest |-> l, scan |-> NoSeq]
  BY DEF RebuiltAt
<1>12. EventAt(L, a, last) = c.head /\ (IF last >= seal.sequence THEN seal ELSE Zero) = c.checked
  BY <1>2, <1>3, <1>5, <1>6
<1>13. c.anchor = NoSeq /\ c.scan = NoSeq
  OBVIOUS
<1> QED BY ONLY <1>7, <1>9, <1>10, <1>11, <1>12, <1>13

\* A session that lives is the session that would be opened now.
LEMMA Lives ==
    ASSUME RoomInv
    PROVE  LiveIsRebuilt
<1>1. SUFFICES ASSUME pc # "closed", NEW a \in DOMAIN cache
               PROVE  /\ AuthorFork(Events, a) => cache[a].failure
                      /\ cache[a].failure => Rebuilt(a).failure
                      /\ /\ ~cache[a].failure /\ Settled(cache[a])
                         /\ ~(sealed_head(a) # cache[a].checked
                              /\ cache[a].head.sequence >= sealed_head(a).sequence)
                         => cache[a] = Rebuilt(a)
  <2>1. pc # "closed" => seen = RebuiltSeen
    BY DEF RoomInv, SeenRebuilt
  <2> QED BY <2>1 DEF LiveIsRebuilt
<1>2. PICK L, h, s, c, r : /\ L = log /\ h = head /\ s = sealed_head(a)
                           /\ c = cache[a] /\ r = Rebuilt(a)
  OBVIOUS
<1>3. a \in head.writers \cup {Me}
  <2>1. DOMAIN cache = head.writers \cup {Me}
    BY <1>1 DEF RoomInv, Cached
  <2> QED BY <1>1, <2>1
<1>4. RowAt(L, a, h, s.sequence, c) /\ c \in Rows(L, a)
  BY <1>1, <1>2, <1>3, RowFacts, LastSealFacts
<1>5. /\ s \in EventsOf(L, a) /\ LinkedAt(L, a, s.sequence)
      /\ \A f \in Range(L) : WellFormed(f)
  BY <1>2, LastSealFacts DEF RoomInv, Shapes
<1>6. AuthorFork(Events, a) <=> ForkAt(L, a)
  BY <1>2 DEF ForkAt, Events
<1>7. CASE ForkAt(L, a)
  <2>1. r = Fresh(Events, a)
    BY <1>2, <1>6, <1>7 DEF Rebuilt
  <2>2. r.failure
    BY <1>6, <1>7, <2>1 DEF Fresh
  <2> QED BY <1>2, <1>4, <1>6, <1>7, <2>2 DEF RowAt
<1>8. CASE ~ForkAt(L, a)
  <2>1. PICK last, broken, l : RebuiltAt(L, a, h, s, last, broken, l, r)
    BY <1>2, <1>8, RebuiltFacts
  <2>2. ASSUME c.failure PROVE r.failure
    <3>1. PICK n \in Nat : /\ LinkedAt(L, a, n) /\ EventAt(L, a, n + 1) # Zero
                           /\ EventAt(L, a, n + 1).previous # EventAt(L, a, n)
      BY <1>4, <1>8, <2>2 DEF RowAt, BrokenAt
    <3> QED BY ONLY <2>1, <3>1, BrokenRebuilt
  <2>3. ASSUME ~c.failure, Settled(c), ~(s # c.checked /\ c.head.sequence >= s.sequence)
        PROVE  c = r
    <3>1. FollowsAt(L, a, h, s.sequence, c)
      BY <1>4, <2>3 DEF RowAt
    <3>2. ~c.more /\ c.anchor = NoSeq /\ c.scan = NoSeq
      BY <2>3 DEF Settled
    <3> QED BY ONLY <1>4, <1>5, <2>1, <2>3, <3>1, <3>2, SettledRebuilt
  <2> QED BY <1>2, <1>6, <1>8, <2>2, <2>3
<1> QED BY <1>7, <1>8

\* The types follow from the invariant.
LEMMA Types ==
    ASSUME RoomInv
    PROVE  TypeOK
<1>1. pc \in {"idle", "closed", "finish", "policies", "authors"}
  BY DEF RoomInv, Shapes
<1>2. \A f \in Range(log) \cup signed \cup witnessed : f.kind \in {"event", "policy"}
  <2>1. \A f \in Range(log) \cup witnessed : WellFormed(f)
    BY DEF RoomInv, Shapes
  <2>2. \A f \in signed : WellFormed(f)
    BY DEF RoomInv, Reservations, Range
  <2> QED BY <2>1, <2>2 DEF WellFormed
<1>3. Range(committed) \subseteq Policies
  BY Basics DEF Range, Policies
<1>4. completed \subseteq DOMAIN reserved
  BY DEF RoomInv, Reservations
<1>5. /\ used \in Nat /\ used <= limit /\ limit \in room.limit..room.grown
      /\ pass.budget \in 0..room.frames /\ pass.quota \in 0..room.page
  BY DEF RoomInv, Spending
<1>6. used \in 0..limit
  <2>1. room.limit \in Nat /\ room.grown \in Nat
    BY RoomAssumption DEF RoomInv, Shapes
  <2> QED BY <1>5, <2>1
<1>7. pc # "closed" => DOMAIN cache = head.writers \cup {Me}
  BY DEF RoomInv, Cached
<1> QED BY <1>1, <1>2, <1>3, <1>4, <1>5, <1>6, <1>7 DEF TypeOK

\* A reservation that is not finished is the one the image holds for its key.
LEMMA PendingFacts ==
    ASSUME RoomInv
    PROVE  /\ \A op \in Pending :
                 /\ op = IF reserved[op].kind = "event" THEN image.event ELSE image.policy
                 /\ op # None /\ pending_matches(reserved[op])
           /\ {image.event, image.policy} \ {None} \subseteq Pending
<1>1. room.texts \cap DOMAIN room.lists = {} /\ None \notin room.texts \cup DOMAIN room.lists
  BY RoomAssumption DEF RoomInv, Shapes
<1>2. /\ image.event \in (Pending \cap room.texts) \cup {None}
      /\ image.policy \in (Pending \cap DOMAIN room.lists) \cup {None}
      /\ Pending \subseteq {image.event, image.policy}
      /\ DOMAIN reserved \subseteq Ops
      /\ \A op \in DOMAIN reserved :
            IF op \in room.texts THEN reserved[op].kind = "event" /\ reserved[op].author = Me
            ELSE reserved[op].kind = "policy"
  BY DEF RoomInv, Reservations
<1>3. ASSUME NEW op \in Pending
      PROVE  /\ op = IF reserved[op].kind = "event" THEN image.event ELSE image.policy
             /\ op # None
  <2>1. op \in DOMAIN reserved /\ op \in Ops /\ op \in {image.event, image.policy} /\ op # None
    BY <1>1, <1>2, <1>3 DEF Pending, Ops
  <2>2. CASE op \in room.texts
    <3>1. op # image.policy /\ reserved[op].kind = "event"
      BY <1>1, <1>2, <2>1, <2>2
    <3> QED BY <2>1, <3>1
  <2>3. CASE op \notin room.texts
    <3>1. op # image.event /\ reserved[op].kind = "policy"
      BY <1>2, <2>1, <2>3
    <3> QED BY <2>1, <3>1
  <2> QED BY <2>2, <2>3
<1>4. ASSUME NEW op \in Pending PROVE pending_matches(reserved[op])
  BY <1>3, <1>4, Zenon DEF pending_matches
<1> QED BY <1>2, <1>3, <1>4

\* Every closed policy can be closed again from the records.
LEMMA ClosesAgain ==
    ASSUME RoomInv, NEW i \in DOMAIN committed
    PROVE  /\ committed[i].previous = IF i = 1 THEN Genesis ELSE committed[i - 1]
           /\ Proved(committed[i], [a \in Range(Order) |-> SealedUnder(i - 1, a)])
<1>0. /\ i \in 1..Len(committed) /\ Len(committed) \in Nat
      /\ \A j \in 1..Len(committed) : committed[j] \in Range(log) /\ committed[j].kind = "policy"
  BY Basics
<1>1. PICK p, q, prior : /\ p = committed[i] /\ q = p.previous
                         /\ prior = [a \in Range(Order) |-> SealedUnder(i - 1, a)]
  OBVIOUS
<1>2. q = IF i = 1 THEN Genesis ELSE committed[i - 1]
  BY <1>0, <1>1, SealChain
<1>3. q.writers \subseteq Range(Order)
  <2>1. CASE i = 1
    BY <1>2, <2>1, RoomAssumption DEF Genesis, RoomInv, Shapes
  <2>2. CASE i # 1
    <3>1. i - 1 \in 1..Len(committed)
      BY <1>0, <2>2
    <3>2. q \in Range(log) /\ q.kind = "policy"
      BY <1>0, <1>2, <2>2, <3>1
    <3> QED BY <3>2 DEF RoomInv, Shapes, WellFormed
  <2> QED BY <2>1, <2>2
<1>4. ASSUME NEW s \in p.seals
      PROVE  /\ s.author \in q.writers
             /\ prior[s.author].sequence < s.sequence
             /\ \A n \in prior[s.author].sequence + 1..s.sequence :
                   LET e == indexed_event(s.author, n)
                   IN  /\ e # Zero /\ e.previous = indexed_event(s.author, n - 1)
                       /\ n = s.sequence => e = s /\ e.policy = q
  <2>1. Sealed(s, q, SealedUnder(i - 1, s.author)) /\ s.sequence \in 1..MaxSeq
    BY <1>0, <1>1, SealChain DEF RoomInv, Closed
  <2>2. /\ s.author \in q.writers /\ SealedUnder(i - 1, s.author).sequence < s.sequence
        /\ Linked(s.author, s.sequence) /\ indexed_event(s.author, s.sequence) = s
        /\ s.policy = q
    BY <2>1 DEF Sealed
  <2>3. prior[s.author] = SealedUnder(i - 1, s.author)
    BY <1>1, <1>3, <2>2
  <2>4. PICK low, n : low = prior[s.author].sequence /\ n = s.sequence
    OBVIOUS
  <2>5. low \in Nat
    <3>1. i - 1 \in 0..Len(committed)
      BY <1>0
    <3> QED BY <2>3, <2>4, <3>1, SealedFacts, RoomAssumption
  <2>6. ASSUME NEW k \in low + 1..n
        PROVE  /\ indexed_event(s.author, k) # Zero
               /\ indexed_event(s.author, k).previous = indexed_event(s.author, k - 1)
               /\ k = n => indexed_event(s.author, k) = s /\ indexed_event(s.author, k).policy = q
    <3>1. k \in 1..n
      BY <2>5
    <3> QED BY <2>2, <2>4, <3>1 DEF Linked
  <2> QED BY <2>2, <2>3, <2>4, <2>6
<1>5. Proved(p, prior)
  BY <1>1, <1>4 DEF Proved
<1> QED BY <1>1, <1>2, <1>5

\* Whatever a death interrupted, the home opens.
LEMMA Opens ==
    ASSUME RoomInv
    PROVE  AlwaysOpens
<1>1. /\ \A op \in DOMAIN reserved \ completed :
            op = IF reserved[op].kind = "event" THEN image.event ELSE image.policy
      /\ {image.event, image.policy} \ {None} \subseteq DOMAIN reserved \ completed
  BY PendingFacts DEF Pending
<1>2. \A op \in completed : reserved[op] \in Range(log)
  BY DEF RoomInv, Reservations
<1>3. ASSUME NEW f \in Range(reserved)
      PROVE  pending_matches(f) \/ \E op \in completed : reserved[op] = f
  <2>1. PICK op \in DOMAIN reserved : f = reserved[op]
    BY DEF Range
  <2>2. CASE op \in completed
    BY <2>1, <2>2
  <2>3. CASE op \notin completed
    BY <2>1, <2>3, PendingFacts DEF Pending
  <2> QED BY <2>2, <2>3
<1>4. \A e \in Events : e.author = Me =>
         image.authorLost \/ pending_matches(e) \/ \E op \in completed : reserved[op] = e
  BY <1>3 DEF RoomInv, Custody
<1>5. room.created => \A p \in Policies :
         image.ownerLost \/ pending_matches(p) \/ \E op \in completed : reserved[op] = p
  BY <1>3 DEF RoomInv, Custody
<1>6. \A i \in DOMAIN committed :
         /\ committed[i].previous = IF i = 1 THEN Genesis ELSE committed[i - 1]
         /\ Proved(committed[i], [a \in Range(Order) |-> SealedUnder(i - 1, a)])
  BY ClosesAgain
<1> QED BY <1>1, <1>2, <1>4, <1>5, <1>6 DEF AlwaysOpens

\* The home can be opened at any moment and comes back as it was: with the
\* fences, the heads and the events to seal that the session had.
THEOREM HomeReopens == Spec => []Reopens
<1>1. RoomInv => Reopens
  BY Types, Opens, Lives DEF Reopens
<1> QED BY <1>1, RoomInvariant, PTL
=============================================================================
