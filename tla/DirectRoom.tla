----------------------------- MODULE DirectRoom -----------------------------
(***************************************************************************)
(* The controller of a direct public room (RoomSession): one session over  *)
(* its store, with its own author key and, in the home that created the    *)
(* room, the owner's key.  It retains signed events and owner policies in  *)
(* any order, reserves what it is about to sign, closes policies once the  *)
(* ancestry of their seals is there, and follows every writer's chain,     *)
(* a few frames per call.                                                  *)
(*                                                                         *)
(* A signed frame is the record of its claims, so an identifier is the     *)
(* frame itself (it is a digest of the claims).  A seal names its terminal *)
(* event.  The store publishes an image and new records atomically; an     *)
(* uncertain publication poisons the session, which is then reopened: the  *)
(* same as a death before or after it.  Records are counted, not bytes.    *)
(***************************************************************************)
EXTENDS Integers, Sequences, FiniteSets, FiniteSetsExt, Functions

CONSTANTS
    Me,        \* the session's author key
    Order,     \* all authors, in the order of their keys
    MaxSeq,    \* bound: events of one author
    Rooms      \* the histories that are considered: see room, below

None == "none"

\* What decoding a signed frame guarantees: a sequence and a revision that are
\* not zero, and seals in the strict order of their authors' keys.  Order has
\* every writer.
WellFormed(f) ==
    \/ f.kind = "event" /\ f.sequence \in 1..MaxSeq
    \/ /\ f.kind = "policy" /\ f.revision \in Nat \ {0} /\ f.writers \subseteq Range(Order)
       /\ \A s \in f.seals : s.kind = "event" /\ s.sequence \in 1..MaxSeq
       /\ \A s, t \in f.seals : s.author = t.author => s = t

\* Operations of the two kinds have different names.
ASSUME RoomAssumption ==
    /\ MaxSeq \in Nat /\ Order \in Seq(Range(Order)) /\ Me \in Range(Order)
    /\ \A r \in Rooms :
          /\ r.created \in BOOLEAN
          /\ r.observed \in Nat /\ r.frames \in Nat /\ r.page \in Nat /\ r.commits \in Nat
          /\ r.limit \in Nat /\ r.grown \in Nat /\ r.limit <= r.grown /\ r.reserve \in Nat
          /\ \A f \in r.offers : WellFormed(f)
          /\ r.writers \subseteq Range(Order)
          /\ \A op \in DOMAIN r.lists : r.lists[op] \subseteq Range(Order)
          /\ r.texts \cap DOMAIN r.lists = {} /\ None \notin r.texts \cup DOMAIN r.lists

VARIABLES
    room,       \* what may be offered and asked, and the limits; never changes
    log,        \* EVENT and POLICY records, in the order they were retained
    committed,  \* COMMITTED: the policies closed so far
    image,      \* Image: pending operations, lost custody, emergency slot
    reserved,   \* RESERVATION: operation -> the frame it will sign
    completed,  \* COMPLETION and LOCAL_*: operations that were finished
    used,       \* records in the store
    limit,      \* max_records of the store
    pc, todo,   \* what the session is doing, and the reservations to finish
    seen,       \* PolicyState: observed, overflow, forked
    replay,     \* policy_replay
    cache,      \* author_cache
    rotation,   \* author_rotation
    pass,       \* what apply_policies has left to spend
    signed,     \* history: every frame this home has signed
    witnessed,  \* history: every frame a call has authenticated and accepted
    faults      \* deaths left

disk   == <<log, committed, image, reserved, completed, used, limit>>
memory == <<todo, seen, replay, cache, rotation, pass>>
ghosts == <<signed, witnessed>>
vars   == <<room, disk, pc, memory, ghosts, faults>>

NoSeq == -1
NoPass == [budget |-> 0, quota |-> 0, left |-> 0, commits |-> 0, at |-> None]
Zero  == [kind |-> "none", author |-> None, sequence |-> 0]  \* AuthorHead::EMPTY
NoReplay == [update |-> Zero, at |-> <<>>, invalid |-> FALSE]

Genesis == [kind |-> "policy", revision |-> 0, previous |-> Zero,
            writers |-> room.writers, seals |-> {}]

Events   == {f \in Range(log) : f.kind = "event"}
Policies == {f \in Range(log) : f.kind = "policy"}

\* The record a key was first given; later ones are kept as raw evidence only.
First(hits, none) == IF hits = {} THEN none ELSE log[Min(hits)]

indexed_event(a, n) ==
    First({i \in DOMAIN log : /\ log[i].kind = "event"
                              /\ log[i].author = a /\ log[i].sequence = n}, Zero)

indexed_policy(r) ==
    First({i \in DOMAIN log : log[i].kind = "policy" /\ log[i].revision = r}, Zero)

\* AUTHOR_FORK, written with the second event at a sequence.
AuthorFork(events, a) ==
    \E e, f \in events : e.author = a /\ f.author = a /\ e.sequence = f.sequence /\ e # f

head == IF committed = <<>> THEN Genesis ELSE committed[Len(committed)]

\* sealed_head under the first n policies; Zero when no seal names the author.
SealedUnder(n, a) ==
    LET named == {i \in 1..n : \E s \in committed[i].seals : s.author = a}
    IN  IF named = {} THEN Zero
        ELSE CHOOSE s \in committed[Max(named)].seals : s.author = a

sealed_head(a) == SealedUnder(Len(committed), a)

-----------------------------------------------------------------------------
\* CachedAuthor.  checked stands for checked_anchor and the chain's
\* checked_seal, which are only ever compared with the current seal.
Fresh(events, a) ==
    [head |-> Zero, checked |-> Zero, anchor |-> NoSeq, more |-> TRUE,
     failure |-> AuthorFork(events, a), latest |-> Zero, scan |-> NoSeq]

\* rebuild_author_cache: advance_author from the empty chain, without a budget.
Rebuilt(a) ==
    LET seal    == sealed_head(a)
        sound(n) == LET e == indexed_event(a, n)
                    IN  /\ e # Zero /\ e.previous = indexed_event(a, n - 1)
                        /\ n = seal.sequence => e = seal
        last    == Max({n \in 0..MaxSeq : \A i \in 1..n : sound(i)})
        broken  == indexed_event(a, last + 1) # Zero
        current == {n \in seal.sequence + 1..last : indexed_event(a, n).policy = head}
    IN  IF AuthorFork(Events, a) THEN Fresh(Events, a)
        ELSE [Fresh(Events, a) EXCEPT
                !.head = indexed_event(a, last),
                !.checked = IF last >= seal.sequence THEN seal ELSE Zero,
                !.more = broken, !.failure = broken,
                !.latest = IF current = {} THEN Zero ELSE indexed_event(a, Max(current))]

\* Mutant: a policy change keeps the event that was to be sealed.
KeepsLatest(old, writers, seal) ==
    [a \in writers \cup {Me} |->
        IF a \notin DOMAIN old THEN Fresh(Events, a)
        ELSE [old[a] EXCEPT !.anchor = NoSeq,
                !.scan = IF old[a].head.sequence > seal[a].sequence
                         THEN old[a].head.sequence ELSE NoSeq]]

\* sync_author_cache after a policy changed: writers that left are dropped.
sync_author_cache(old, writers, seal) ==
    [a \in writers \cup {Me} |->
        IF a \notin DOMAIN old THEN Fresh(Events, a)
        ELSE [old[a] EXCEPT !.anchor = NoSeq, !.latest = Zero,
                !.scan = IF old[a].head.sequence > seal[a].sequence
                         THEN old[a].head.sequence ELSE NoSeq]]

\* event_persisted
event_persisted(old, events, e) ==
    IF e.author \notin DOMAIN old THEN old
    ELSE [old EXCEPT ![e.author].failure = @ \/ AuthorFork(events, e.author),
                     ![e.author].more = @ \/ e.sequence > old[e.author].head.sequence]

\* replay_observation: a revision that is retained twice is a fork, whether or
\* not the bounded map of observations still holds it.
replay_observation(s, first, p) ==
    IF first \notin {Zero, p} \/ (p.revision \in 1..Len(committed) /\ committed[p.revision] # p)
        THEN [s EXCEPT !.forked = TRUE]
    ELSE IF p.revision <= Len(committed) THEN s
    ELSE IF \E q \in s.observed : q.revision = p.revision
        THEN [s EXCEPT !.forked = @ \/ p \notin s.observed]
    ELSE IF Cardinality(s.observed) = room.observed THEN [s EXCEPT !.overflow = TRUE]
    ELSE [s EXCEPT !.observed = @ \cup {p}]

Unseen == [observed |-> {}, overflow |-> FALSE, forked |-> FALSE]

\* replay_model: every retained policy in order, then the emergency slot.
Replayed[n \in 0..Len(log)] ==
    IF n = 0 THEN Unseen
    ELSE IF log[n].kind = "policy"
         THEN replay_observation(Replayed[n - 1], indexed_policy(log[n].revision), log[n])
    ELSE Replayed[n - 1]

RebuiltSeen ==
    LET f == image.blocked
    IN  IF f.kind # "policy" THEN Replayed[Len(log)]
        ELSE replay_observation(Replayed[Len(log)], indexed_policy(f.revision), f)

-----------------------------------------------------------------------------
Init ==
    /\ room \in Rooms
    /\ log = <<>> /\ committed = <<>>
    /\ image = [event |-> None, policy |-> None, authorLost |-> FALSE,
                ownerLost |-> FALSE, blocked |-> Zero]
    /\ reserved = <<>> /\ completed = {}
    /\ used = 0 /\ limit = room.limit
    /\ pc = "idle" /\ todo = <<>>
    /\ seen = Unseen
    /\ replay = NoReplay
    /\ cache = [a \in room.writers \cup {Me} |-> [Fresh({}, a) EXCEPT !.more = FALSE]]
    /\ rotation = 0
    /\ pass = NoPass
    /\ signed = {} /\ witnessed = {}
    /\ faults = room.faults

\* A call ends; the session waits for the next.
Return == pc' = "idle" /\ todo' = <<>> /\ pass' = NoPass

\* A call goes on with apply_policies.
GoApply ==
    /\ pc' = "policies" /\ todo' = <<>>
    /\ pass' = [budget |-> room.frames, quota |-> 0, left |-> 0,
                commits |-> room.commits, at |-> None]

Fits(n, control) == used + n + (IF control THEN 0 ELSE room.reserve) <= limit

\* The session's death, or a publication of unknown outcome.
Die ==
    /\ pc' = "closed" /\ todo' = <<>>
    /\ seen' = Unseen /\ replay' = NoReplay /\ rotation' = 0
    /\ cache' = [a \in {} |-> Zero]
    /\ pass' = NoPass
    /\ faults > 0 /\ faults' = faults - 1

Crash == pc # "closed" /\ Die /\ UNCHANGED <<room, disk, ghosts>>

open ==
    /\ pc = "closed" /\ pc' = "idle"
    /\ seen' = RebuiltSeen
    /\ cache' = [a \in head.writers \cup {Me} |-> Rebuilt(a)]
    /\ UNCHANGED <<room, disk, todo, replay, rotation, pass, ghosts, faults>>

-----------------------------------------------------------------------------
\* Mutant: lost custody of the author key does not stop the author.
WritableAnyway(owner) ==
    /\ image.blocked = Zero
    /\ ~(owner /\ image.ownerLost)
    /\ ~seen.forked /\ ~seen.overflow

\* Reservations
writable(owner) ==
    /\ image.blocked = Zero
    /\ IF owner THEN ~image.ownerLost ELSE ~image.authorLost
    /\ ~seen.forked /\ ~seen.overflow

pending_matches(f) ==
    LET op == IF f.kind = "event" THEN image.event ELSE image.policy
    IN  op # None /\ reserved[op] = f

\* author_chain and authoring_head of the session's own author.
MayAuthor ==
    LET c == cache[Me]
        seal == sealed_head(Me)
    IN  /\ ~c.failure /\ ~c.more /\ c.anchor = NoSeq
        /\ seen.observed = {}
        /\ Me \in head.writers
        /\ c.head = seal \/ (c.head.sequence > seal.sequence /\ c.checked = seal)

Reserve(op, f, control) ==
    /\ reserved' = [x \in DOMAIN reserved \cup {op} |-> IF x = op THEN f ELSE reserved[x]]
    /\ used' = used + 1
    /\ image' = IF control THEN [image EXCEPT !.policy = op] ELSE [image EXCEPT !.event = op]
    /\ pc' = "finish" /\ todo' = <<op>>
    /\ UNCHANGED <<room, log, committed, completed, limit, seen, replay, cache, rotation,
                   pass, ghosts, faults>>

\* send: the operation is the text.  A repeated one is finished as reserved.
send(op) ==
    /\ pc = "idle" /\ op \notin completed
    /\ \/ /\ op \in DOMAIN reserved
          /\ pc' = "finish" /\ todo' = <<op>>
          /\ UNCHANGED <<room, disk, seen, replay, cache, rotation, pass, ghosts, faults>>
       \/ /\ op \notin DOMAIN reserved
          /\ writable(FALSE) /\ image.event = None /\ MayAuthor
          /\ cache[Me].head.sequence < MaxSeq
          /\ Fits(5, FALSE)
          /\ Reserve(op, [kind |-> "event", author |-> Me,
                          sequence |-> cache[Me].head.sequence + 1,
                          previous |-> cache[Me].head, policy |-> head, text |-> op], FALSE)

\* current_seals: a writer whose chain failed is left out of the seal.
Settled(c) == c.failure \/ (~c.more /\ c.anchor = NoSeq /\ c.scan = NoSeq)
current_seals ==
    {cache[a].latest : a \in {b \in head.writers : ~cache[b].failure /\ cache[b].latest # Zero}}

set_writers(op) ==
    /\ pc = "idle" /\ room.created /\ op \notin completed
    /\ \/ /\ op \in DOMAIN reserved
          /\ pc' = "finish" /\ todo' = <<op>>
          /\ UNCHANGED <<room, disk, seen, replay, cache, rotation, pass, ghosts, faults>>
       \/ /\ op \notin DOMAIN reserved
          /\ writable(TRUE) /\ image.policy = None /\ seen.observed = {}
          /\ \A a \in head.writers : Settled(cache[a])
          /\ Fits(7, TRUE)
          /\ Reserve(op, [kind |-> "policy", revision |-> head.revision + 1,
                          previous |-> head, writers |-> room.lists[op],
                          seals |-> current_seals], TRUE)

\* finish_reserved refuses: the reservation stays, and the call ends with it.
\* What is signed may still meet a full store.
MayFinish(f) ==
    /\ writable(f.kind = "policy")
    /\ IF f.kind = "event" THEN indexed_event(Me, f.sequence) \in {Zero, f}
       ELSE /\ f \in Policies \/ f.previous = head
            /\ indexed_policy(f.revision) \in {Zero, f}

Missing(f) == IF f \in Range(log) THEN 2 ELSE 4   \* records finish_reserved adds

finish_refused ==
    /\ pc = "finish" /\ todo # <<>>
    /\ LET f == reserved[Head(todo)]
       IN  /\ ~MayFinish(f) \/ ~Fits(Missing(f), TRUE)
           /\ signed' = signed \cup (IF MayFinish(f) THEN {f} ELSE {})
    /\ Return
    /\ UNCHANGED <<room, disk, seen, replay, cache, rotation, witnessed, faults>>

\* The frame is signed, and the process dies before its publication.
sign_and_die ==
    /\ pc = "finish" /\ todo # <<>> /\ MayFinish(reserved[Head(todo)])
    /\ signed' = signed \cup {reserved[Head(todo)]}
    /\ Die
    /\ UNCHANGED <<room, disk, witnessed>>

finish_reserved ==
    /\ pc = "finish" /\ todo # <<>>
    /\ LET op == Head(todo)
           f  == reserved[op]
       IN  /\ MayFinish(f) /\ Fits(Missing(f), TRUE)
           /\ used' = used + Missing(f)
           /\ log' = IF f \in Range(log) THEN log ELSE Append(log, f)
           /\ completed' = completed \cup {op}
           /\ signed' = signed \cup {f}
           /\ IF f.kind = "event"
              THEN /\ image' = [image EXCEPT !.event = None]
                   /\ cache' = event_persisted(cache, Events \cup {f}, f)
                   /\ UNCHANGED seen
              ELSE /\ image' = [image EXCEPT !.policy = None]
                   /\ seen' = replay_observation(seen, f, f)
                   /\ UNCHANGED cache
    /\ todo' = Tail(todo)
    /\ UNCHANGED <<room, committed, reserved, limit, pc, replay, rotation, pass, witnessed, faults>>

finished ==
    /\ pc = "finish" /\ todo = <<>>
    /\ GoApply
    /\ UNCHANGED <<room, disk, seen, replay, cache, rotation, ghosts, faults>>

reconcile ==
    /\ pc = "idle"
    /\ pc' = "finish"
    /\ todo' = (IF image.event = None THEN <<>> ELSE <<image.event>>)
                 \o (IF image.policy = None THEN <<>> ELSE <<image.policy>>)
    /\ UNCHANGED <<room, disk, seen, replay, cache, rotation, pass, ghosts, faults>>

-----------------------------------------------------------------------------
\* Frames from elsewhere.  What is retained twice changes nothing.
Lost(f) == IF f.kind = "event" THEN f.author = Me /\ ~pending_matches(f)
           ELSE room.created /\ ~pending_matches(f)

Conflicts(f) ==
    IF f.kind = "event" THEN indexed_event(f.author, f.sequence) \notin {Zero, f}
    ELSE indexed_policy(f.revision) \notin {Zero, f}

Critical(f) == f.kind = "policy" \/ Lost(f) \/ Conflicts(f)

\* The frame, its index or the proof of its fork, and the mark of lost custody.
Records(f) ==
    1 + (IF f.kind = "event" /\ Conflicts(f) /\ AuthorFork(Events, f.author) THEN 0 ELSE 1)
      + (IF Lost(f) THEN 1 ELSE 0)

Retain(f) ==
    /\ log' = Append(log, f)
    /\ used' = used + Records(f)
    /\ IF f.kind = "event"
       THEN /\ cache' = event_persisted(cache, Events \cup {f}, f)
            /\ UNCHANGED seen
       ELSE /\ seen' = replay_observation(seen,
                            IF Conflicts(f) THEN indexed_policy(f.revision) ELSE f, f)
            /\ UNCHANGED cache

Marked(f) ==
    IF ~Lost(f) THEN image
    ELSE IF f.kind = "event" THEN [image EXCEPT !.authorLost = TRUE]
    ELSE [image EXCEPT !.ownerLost = TRUE]

\* capacity_fence: the frame goes to the emergency slot of the image.
capacity_fence(f) ==
    /\ image' = [image EXCEPT !.blocked = f]
    /\ seen' = IF f.kind = "policy"
               THEN replay_observation(seen, indexed_policy(f.revision), f) ELSE seen

\* receive_event and observe_policy
receive(f) ==
    /\ pc = "idle" /\ image.blocked = Zero /\ f \notin Range(log)
    /\ \/ /\ Fits(Records(f), Critical(f))
          /\ Retain(f) /\ image' = Marked(f)
          /\ GoApply
          /\ UNCHANGED <<committed, reserved, completed, limit>>
       \/ /\ ~Fits(Records(f), TRUE) /\ Critical(f)
          /\ capacity_fence(f)
          /\ Return
          /\ UNCHANGED <<log, committed, reserved, completed, used, limit, cache>>
    /\ witnessed' = witnessed \cup {f}
    /\ UNCHANGED <<room, replay, rotation, signed, faults>>

\* expand_limits, then retain_blocked: the slot is cleared only together with
\* the publication of its frame.
expand_limits ==
    /\ pc = "idle" /\ limit < room.grown
    /\ limit' = limit + 1
    /\ LET f == image.blocked
           n == IF f \in Range(log) THEN 0 ELSE Records(f)
           fits == used + n <= limit + 1
       IN  \/ /\ f = Zero
              /\ GoApply
              /\ UNCHANGED <<log, used, image, seen, cache>>
           \/ /\ f # Zero /\ ~fits
              /\ Return
              /\ UNCHANGED <<log, used, image, seen, cache>>
           \/ /\ f # Zero /\ fits
              /\ IF f \in Range(log)
                 THEN UNCHANGED <<log, used, cache>> /\ image' = [image EXCEPT !.blocked = Zero]
                      /\ seen' = replay_observation(seen, indexed_policy(f.revision), f)
                 ELSE Retain(f) /\ image' = [Marked(f) EXCEPT !.blocked = Zero]
              /\ GoApply
    /\ UNCHANGED <<room, committed, reserved, completed, replay, rotation, ghosts, faults>>

-----------------------------------------------------------------------------
\* apply_policies
Fenced == seen.forked \/ seen.overflow \/ image.blocked # Zero

\* prepare_update
Prepares(p) ==
    /\ p.previous = head
    /\ \A q \in seen.observed : q.revision = p.revision => q = p
    /\ \A s \in p.seals : s.author \in head.writers /\ s.sequence > sealed_head(s.author).sequence

\* The next retained policy, when nothing forbids to prove it.
Next1 == indexed_policy(head.revision + 1)
MayReplay == ~Fenced /\ pass.commits > 0 /\ Next1 # Zero /\ Prepares(Next1)

prepare_replay ==
    /\ pc = "policies" /\ replay = NoReplay /\ MayReplay
    /\ replay' = [update |-> Next1, invalid |-> FALSE,
                  at |-> [a \in {s.author : s \in Next1.seals} |-> sealed_head(a).sequence]]
    /\ UNCHANGED <<room, disk, pc, todo, seen, cache, rotation, pass, ghosts, faults>>

Target(a) == CHOOSE s \in replay.update.seals : s.author = a
Unproved  == {a \in DOMAIN replay.at : replay.at[a] < Target(a).sequence}
\* Seals are proved in the order of their authors' keys.
Proving   == LET rank(a) == CHOOSE i \in DOMAIN Order : Order[i] = a
             IN  CHOOSE a \in Unproved : \A b \in Unproved : rank(a) <= rank(b)
Blockless == ~Fenced /\ pass.commits > 0 /\ replay # NoReplay /\ ~replay.invalid

\* push_seal: one frame of the ancestry from the prior seal to the new one.
advance_policy ==
    /\ pc = "policies" /\ Blockless /\ Unproved # {} /\ pass.budget > 0
    /\ LET a == Proving
           e == indexed_event(a, replay.at[a] + 1)
           ok == /\ e.previous = indexed_event(a, replay.at[a])
                 /\ e.sequence = Target(a).sequence => e = Target(a) /\ e.policy = head
       IN  /\ e # Zero
           /\ replay' = IF ok THEN [replay EXCEPT !.at[a] = @ + 1]
                        ELSE [replay EXCEPT !.invalid = TRUE]
    /\ pass' = [pass EXCEPT !.budget = @ - 1]
    /\ UNCHANGED <<room, disk, pc, todo, seen, cache, rotation, ghosts, faults>>

\* commit_after_persist and sync_author_cache; at a full store the policy goes
\* to the emergency slot and the proof is given up.
commit_policy ==
    /\ pc = "policies" /\ Blockless /\ Unproved = {}
    /\ LET p == replay.update
           seal == [a \in Range(Order) |->
                      IF a \in DOMAIN replay.at THEN Target(a) ELSE sealed_head(a)]
       IN  \/ /\ Fits(2, TRUE)
              /\ committed' = Append(committed, p)
              /\ used' = used + 2
              /\ seen' = [seen EXCEPT !.observed = @ \ {p}]
              /\ cache' = sync_author_cache(cache, p.writers, seal)
              /\ pass' = [pass EXCEPT !.commits = @ - 1]
              /\ UNCHANGED <<image, pc, todo>>
           \/ /\ ~Fits(2, TRUE)
              /\ capacity_fence(p)
              /\ Return
              /\ UNCHANGED <<committed, used, cache>>
    /\ replay' = NoReplay
    /\ UNCHANGED <<room, log, reserved, completed, limit, rotation, ghosts, faults>>

\* Nothing more can be done for policies in this call.
Stalled ==
    \/ Fenced \/ pass.commits = 0
    \/ replay = NoReplay /\ ~MayReplay
    \/ replay.invalid
    \/ /\ Blockless /\ Unproved # {}
       /\ pass.budget = 0 \/ indexed_event(Proving, replay.at[Proving] + 1) = Zero

policies_done ==
    /\ pc = "policies" /\ Stalled
    /\ pc' = "authors"
    /\ pass' = [pass EXCEPT !.left = Cardinality(DOMAIN cache)]
    /\ UNCHANGED <<room, disk, todo, seen, replay, cache, rotation, ghosts, faults>>

-----------------------------------------------------------------------------
\* advance_authors: each cached author once, from where the last call stopped,
\* at most a page of frames each.
Keys == SelectSeq(Order, LAMBDA a : a \in DOMAIN cache)

next_author ==
    /\ pc = "authors" /\ pass.at = None /\ pass.left > 0 /\ pass.budget > 0
    /\ LET position == rotation % Len(Keys)
       IN  /\ rotation' = (position + 1) % Len(Keys)
           /\ pass' = [pass EXCEPT !.at = Keys[position + 1], !.left = @ - 1,
                                   !.quota = Min({pass.budget, room.page})]
    /\ UNCHANGED <<room, disk, pc, todo, seen, replay, cache, ghosts, faults>>

authors_done ==
    /\ pc = "authors" /\ pass.at = None /\ (pass.left = 0 \/ pass.budget = 0)
    /\ Return
    /\ UNCHANGED <<room, disk, seen, replay, cache, rotation, ghosts, faults>>

Seal       == sealed_head(pass.at)
This       == cache[pass.at]
Frame(n)   == indexed_event(pass.at, n)
Working    == pc = "authors" /\ pass.at # None /\ ~This.failure
Unanchored == Seal # Zero /\ This.head.sequence >= Seal.sequence /\ This.checked # Seal
Progress   == IF This.anchor = NoSeq THEN Seal.sequence ELSE This.anchor

Becomes(c, cost) ==
    /\ cache' = [cache EXCEPT ![pass.at] = c]
    /\ pass' = [pass EXCEPT !.quota = @ - cost, !.budget = @ - cost]
    /\ UNCHANGED <<room, disk, pc, todo, seen, replay, rotation, ghosts, faults>>

\* A seal that was learned after the frames: the chain is walked from the seal
\* to its head before it counts as anchored.
anchor_ready ==
    /\ Working /\ Unanchored /\ Progress = This.head.sequence
    /\ Becomes(IF This.head.sequence = Seal.sequence /\ This.head # Seal
               THEN [This EXCEPT !.failure = TRUE]
               ELSE [This EXCEPT !.checked = Seal, !.anchor = NoSeq], 0)

anchor_frame ==
    /\ Working /\ Unanchored /\ Progress < This.head.sequence
    /\ pass.quota > 0 /\ Frame(Progress + 1) # Zero
    /\ LET e == Frame(Progress + 1)
       IN  Becomes(IF /\ e.previous = Frame(Progress)
                      /\ e.sequence = This.head.sequence => e = This.head
                   THEN [This EXCEPT !.anchor = Progress + 1]
                   ELSE [This EXCEPT !.failure = TRUE], 1)

\* The next frame of the chain.
NewHead(e) ==
    [This EXCEPT !.head = e,
        !.checked = IF e.sequence >= Seal.sequence THEN Seal ELSE @,
        !.latest = IF e.policy = head /\ e.sequence > Seal.sequence THEN e ELSE @,
        !.scan = IF e.policy = head /\ e.sequence > Seal.sequence THEN NoSeq ELSE @]

chain_frame ==
    /\ Working /\ ~Unanchored /\ This.more /\ pass.quota > 0
    /\ LET e == Frame(This.head.sequence + 1)
       IN  IF e = Zero THEN Becomes([This EXCEPT !.more = FALSE], 0)
           ELSE Becomes(IF /\ e.previous = This.head
                           /\ e.sequence = Seal.sequence => e = Seal
                        THEN NewHead(e) ELSE [This EXCEPT !.failure = TRUE], 1)

\* After a policy change: back from the head to the latest event of that policy.
scan_frame ==
    /\ Working /\ ~Unanchored /\ ~(This.more /\ pass.quota > 0)
    /\ This.scan # NoSeq /\ pass.quota > 0
    /\ IF This.scan <= Seal.sequence THEN Becomes([This EXCEPT !.scan = NoSeq], 0)
       ELSE IF Frame(This.scan).policy = head
            THEN Becomes([This EXCEPT !.latest = Frame(This.scan), !.scan = NoSeq], 1)
       ELSE Becomes([This EXCEPT !.scan = @ - 1], 1)

\* Mutant: the progress of an anchor proof is dropped with the page.
DropsProgress ==
    /\ pc = "authors" /\ pass.at # None
    /\ \/ This.failure
       \/ pass.quota = 0 /\ ~(Unanchored /\ Progress = This.head.sequence)
       \/ Unanchored /\ Progress < This.head.sequence /\ Frame(Progress + 1) = Zero
       \/ ~Unanchored /\ ~This.more /\ This.scan = NoSeq
    /\ cache' = [cache EXCEPT ![pass.at].anchor = NoSeq]
    /\ pass' = [pass EXCEPT !.at = None]
    /\ UNCHANGED <<room, disk, pc, todo, seen, replay, rotation, ghosts, faults>>

author_done ==
    /\ pc = "authors" /\ pass.at # None
    /\ \/ This.failure
       \/ pass.quota = 0 /\ ~(Unanchored /\ Progress = This.head.sequence)
       \/ Unanchored /\ Progress < This.head.sequence /\ Frame(Progress + 1) = Zero
       \/ ~Unanchored /\ ~This.more /\ This.scan = NoSeq
    /\ cache' = [cache EXCEPT ![pass.at].anchor =
                    IF ~This.failure /\ Unanchored THEN Progress ELSE @]
    /\ pass' = [pass EXCEPT !.at = None]
    /\ UNCHANGED <<room, disk, pc, todo, seen, replay, rotation, ghosts, faults>>

-----------------------------------------------------------------------------
\* What others offer: at any time, in any order.  A policy that seals this
\* session's events exists only once they were published.
Offered(f) ==
    f.kind = "policy" => \A s \in f.seals : s.author = Me /\ s.text \in room.texts
                                               => s \in Events

Step == \/ finish_refused \/ finish_reserved \/ finished
        \/ prepare_replay \/ advance_policy \/ commit_policy \/ policies_done
        \/ next_author \/ authors_done
        \/ anchor_ready \/ anchor_frame \/ chain_frame \/ scan_frame \/ author_done

Next ==
    \/ \E op \in room.texts : send(op)
    \/ \E op \in DOMAIN room.lists : set_writers(op)
    \/ \E f \in room.offers : Offered(f) /\ receive(f)
    \/ reconcile \/ expand_limits
    \/ Step
    \/ open \/ Crash \/ sign_and_die

Spec == Init /\ [][Next]_vars

\* The owner of the session opens it, repeats reconcile() as its status asks,
\* and calls that began end.
FairSpec == Spec /\ WF_vars(open) /\ WF_vars(Step) /\ SF_vars(reconcile)

-----------------------------------------------------------------------------
TypeOK ==
    /\ pc \in {"idle", "closed", "finish", "policies", "authors"}
    /\ \A f \in Range(log) \cup signed \cup witnessed : f.kind \in {"event", "policy"}
    /\ Range(committed) \subseteq Policies
    /\ completed \subseteq DOMAIN reserved
    /\ used \in 0..limit /\ limit \in room.limit..room.grown
    /\ pass.budget \in 0..room.frames /\ pass.quota \in 0..room.page
    /\ pc # "closed" => DOMAIN cache = head.writers \cup {Me}

\* The ancestry of a seal is retained, linked and indexed down to the prior one.
Proved(p, prior) ==
    \A s \in p.seals :
        /\ s.author \in p.previous.writers
        /\ prior[s.author].sequence < s.sequence
        /\ \A n \in prior[s.author].sequence + 1..s.sequence :
              LET e == indexed_event(s.author, n)
              IN  /\ e # Zero /\ e.previous = indexed_event(s.author, n - 1)
                  /\ n = s.sequence => e = s /\ e.policy = p.previous

\* Whatever a death interrupted, open() accepts the home (validate_entry and
\* replay_model): every reservation is finished or pending, every frame under
\* the session's own keys is its own operation or goes with the mark of lost
\* custody, and every closed policy can be closed again from the records.
AlwaysOpens ==
    /\ \A op \in DOMAIN reserved \ completed :
          op = IF reserved[op].kind = "event" THEN image.event ELSE image.policy
    /\ {image.event, image.policy} \ {None} \subseteq DOMAIN reserved \ completed
    /\ \A op \in completed : reserved[op] \in Range(log)
    /\ \A e \in Events : e.author = Me =>
          image.authorLost \/ pending_matches(e) \/ \E op \in completed : reserved[op] = e
    /\ room.created => \A p \in Policies :
          image.ownerLost \/ pending_matches(p) \/ \E op \in completed : reserved[op] = p
    /\ \A i \in DOMAIN committed :
          /\ committed[i].previous = IF i = 1 THEN Genesis ELSE committed[i - 1]
          /\ Proved(committed[i], [a \in Range(Order) |-> SealedUnder(i - 1, a)])

\* A session that lives never differs from one that would be opened now: the
\* same fences, and for every writer whose replay is at rest the same head, the
\* same latest event to seal, and a failure only where the records show one.
LiveIsRebuilt ==
    pc # "closed" =>
    /\ seen = RebuiltSeen
    /\ \A a \in DOMAIN cache :
          LET c == cache[a] r == Rebuilt(a)
          IN  /\ AuthorFork(Events, a) => c.failure
              /\ c.failure => r.failure
              /\ ~c.failure /\ Settled(c) /\ ~(sealed_head(a) # c.checked
                                                /\ c.head.sequence >= sealed_head(a).sequence)
                    => c = r

\* The home can be opened at any moment and comes back as it was.
Reopens ==
    /\ TypeOK
    /\ AlwaysOpens
    /\ LiveIsRebuilt

\* Mutant: the cutoff alone decides, not the retained branch.
SealedByCutoff(e) ==
    /\ e.policy \in {Genesis} \cup Range(committed)
    /\ e.policy.revision < Len(committed)
    /\ e.author \in e.policy.writers
    /\ \E s \in committed[e.policy.revision + 1].seals :
          s.author = e.author /\ e.sequence <= s.sequence

\* visibility() answers OwnerSealed from indices and a sequence cutoff alone.
OwnerSealed(e) ==
    /\ indexed_event(e.author, e.sequence) = e
    /\ e.policy \in {Genesis} \cup Range(committed)
    /\ e.policy.revision < Len(committed)
    /\ e.author \in e.policy.writers
    /\ \E s \in committed[e.policy.revision + 1].seals :
          s.author = e.author /\ e.sequence <= s.sequence

\* The events an owner endorsed when it signed a seal: the terminal's history.
Ancestry(s) ==
    LET back[k \in 0..MaxSeq] == IF k = 0 THEN s
                                 ELSE IF back[k - 1] = Zero THEN Zero
                                 ELSE back[k - 1].previous
    IN  Range(back) \ {Zero}

Endorsed(e) ==
    \E p \in Range(committed) : /\ p.previous = e.policy /\ e.author \in e.policy.writers
                                /\ \E s \in p.seals : e \in Ancestry(s)

\* A message is shown as owner-sealed exactly when the owner's own closing
\* policy commits to it through the terminal it sealed, whichever branch of a
\* forked author arrived first; so replicas that closed the same policies agree.
SealsAgree == \A e \in Events : OwnerSealed(e) <=> Endorsed(e)

\* Seals agree in every state a step leads to, and what was owner-sealed stays
\* so, through forks, fences and restarts.
SealsAreFinal ==
    [][/\ SealsAgree'
       /\ \A e \in Events : OwnerSealed(e) => OwnerSealed(e)']_vars

\* One signature per sequence and revision, whatever dies between the
\* reservation, the signature and the publication.
SignsOnce ==
    \A f, g \in signed :
        f.kind = g.kind /\ f # g =>
            IF f.kind = "event" THEN f.sequence # g.sequence ELSE f.revision # g.revision

\* A frame that a call accepted is retained, or waits in the emergency slot.
NothingForgotten == witnessed \subseteq Range(log) \cup {image.blocked}

OwnerForkSeen == \E p, q \in witnessed \cup (signed \cap Range(log)) :
    p.kind = "policy" /\ q.kind = "policy" /\ p # q /\ p.revision = q.revision
CloneSeen(kind) == \E f \in witnessed :
    /\ f.kind = kind /\ f \notin Range(reserved)
    /\ IF kind = "event" THEN f.author = Me ELSE room.created

\* After the proof of an owner fork nothing is signed any more, and after the
\* proof that another holds one of its keys nothing under that key.
FencedNeverSigns ==
    [][/\ OwnerForkSeen => signed' = signed
       /\ \A f \in signed' \ signed : ~CloneSeen(f.kind)]_vars

SignsSafely == []SignsOnce /\ []NothingForgotten /\ FencedNeverSigns

\* A reservation that may not be finished; reconcile() stops at it.
Stuck == \E op \in {image.event, image.policy} \ {None} :
            ~MayFinish(reserved[op]) \/ ~Fits(Missing(reserved[op]), TRUE)

\* Repeated calls of reconcile(), each with its small budget, come to rest: what
\* was reserved is finished, the next policy is not one that could be closed,
\* and every writer's chain is followed as far as the records go.
CaughtUp ==
    \/ Stuck
    \/ /\ image.event = None /\ image.policy = None
       /\ \/ Fenced \/ Next1 = Zero \/ ~Prepares(Next1)
          \/ ~Proved(Next1, [a \in Range(Order) |-> sealed_head(a)])
       /\ \A a \in DOMAIN cache : Settled(cache[a])

CatchesUp == []<>(pc = "idle" /\ CaughtUp)
=============================================================================
