----------------------------- MODULE RoomNode -----------------------------
(***************************************************************************)
(* The application loop of a room node (App and run): producers drop work  *)
(* into the intake, the loop queues it durably, offers it to the consensus *)
(* engine when the engine asks for a value, keeps every value it vouched   *)
(* for on disk and commits what the network decided.                       *)
(*                                                                         *)
(* The loop is one task, so a handler is a list of file operations run in  *)
(* order (todo), with the loop's position in pc between them.  Only        *)
(* producers, the network and a death of the process come between.  The    *)
(* connector to the engine delivers one message at a time and waits for    *)
(* its answer: while a GetValue is held, only the ticker and local         *)
(* submissions reach the loop.                                             *)
(*                                                                         *)
(* Consensus decides one value per height, so a batch is the height it     *)
(* extends the chain to and its effect.  A record applies once; a          *)
(* configuration update (.eligible) applies whenever it is offered.  The   *)
(* journal commit is one durable step here: Adapter and Journal take it    *)
(* apart.  A proposal stream arrives whole: ProposalStream takes it apart. *)
(***************************************************************************)
EXTENDS Integers, Sequences, FiniteSets, DurableDir

CONSTANTS
    Drops,         \* the intake drops, in the byte order of their file stems
    Configs,       \* those that are configuration updates
    Direct,        \* effects of complete batches handed to RoomNode::submit
    Foreign,       \* effects the other validators propose
    MaxHeight,     \* bound: heights
    MaxRound,      \* bound: rounds; a later round counts as the last
    MaxRetained,   \* MAX_RETAINED_VALUES_PER_PARENT
    MaxSeen,       \* MAX_SEEN_RECORDS_PER_HEIGHT
    Lives          \* the lives of a node that are considered: see life, below

Range(s) == {s[i] : i \in DOMAIN s}
Bodies   == Range(Drops)
Effects  == Bodies \cup Direct \cup Foreign

ASSUME NodeAssumption ==
    /\ Configs \subseteq Bodies
    /\ Bodies \cap Direct = {} /\ Bodies \cap Foreign = {} /\ Direct \cap Foreign = {}
    /\ MaxHeight \in Nat \ {0} /\ MaxRound \in Nat
    /\ MaxRetained \in Nat \ {0} /\ MaxSeen \in Nat \ {0}
    /\ \A l \in Lives : /\ l.effects \subseteq Effects /\ l.height \in 1..MaxHeight
                        /\ {l.kills, l.losses} \subseteq Nat

Values  == [h : 1..MaxHeight, e : Effects]
NoValue == [h |-> 0, e |-> "none"]
Headers == [v : Values, r : 0..MaxRound, mine : BOOLEAN]

\* Names in store/pending: a body under its stem, the temporary file of that
\* write, or the empty marker of a complete batch.  A queue entry is the name
\* its submission is kept under.
BodyMark(n)  == [k |-> "body",  h |-> 0, e |-> n]
TmpMark(n)   == [k |-> "tmp",   h |-> 0, e |-> n]
ValueMark(v) == [k |-> "value", h |-> v.h, e |-> v.e]
ValueOf(m)   == [h |-> m.h, e |-> m.e]
PendingNames == {BodyMark(n) : n \in Bodies} \cup {TmpMark(n) : n \in Bodies}
                    \cup {ValueMark(v) : v \in Values}
Kept == "kept"   \* content of a whole file

NoRequest == [h |-> 0, r |-> 0, late |-> FALSE]

VARIABLES
    batches, seenDir,     \* store/batches and store/seen: write-once names
    pending, intake,      \* store/pending and home/intake
    chain,                \* effects of the journalled heights
    rejected,             \* stems with a .rejected file
    \* the loop
    pc,                   \* "down", "idle", "drain", "pick" or "offer"
    todo,                 \* file operations still to run
    files,                \* stems of the directory listing in hand
    queue,                \* App::pending_proposals
    assigned,             \* App::assigned_bodies: value -> name of its body
    proposals,            \* App::proposals
    held,                 \* App::held_by_id
    hold,                 \* Adapter::pending
    seen,                 \* App::seen
    req,                  \* the held GetValue
    \* the engine and the network
    round, turn, asked,   \* current round, whether it is ours, GetValue sent
    wal,                  \* values of this height the engine logged as valid
    finalizing,           \* between the answers to Decided and Finalized
    stalled,              \* an answer was withheld
    replay,               \* WAL replay: "none", "due" or "on"
    net,                  \* effects the network decided
    published,            \* headers this node has streamed
    dropped, submitted,   \* effects producers have handed over
    accepted,             \* history: stems the node has unlinked from the intake
    kills, losses,
    life                  \* what may happen to this node; it never changes

MaxKills  == life.kills    \* bound: deaths of the process
MaxLosses == life.losses   \* bound: power losses
\* bound: the effects that are dropped, submitted or proposed by others, and
\* the heights that are decided
Occurs(e) == e \in life.effects
LastHeight == life.height

disk   == <<batches, seenDir, pending, intake, chain, rejected>>
memory == <<files, queue, assigned, proposals, held, hold, seen>>
engine == <<round, turn, asked, wal, finalizing, stalled, replay>>
world  == <<net, published, dropped, submitted, accepted, kills, losses>>
vars   == <<life, disk, pc, todo, memory, req, engine, world>>

NoMap == [n \in {} |-> n]

Init ==
    /\ life \in Lives
    /\ batches = Stored({}) /\ seenDir = Stored({})
    /\ pending = Stored([m \in PendingNames |-> Absent])
    /\ intake = Stored([n \in Bodies |-> Absent])
    /\ chain = <<>> /\ rejected = {}
    /\ pc = "idle" /\ todo = <<>> /\ files = {}
    /\ queue = <<>> /\ assigned = NoMap
    /\ proposals = [h \in 1..MaxHeight |-> NoValue]
    /\ held = {} /\ hold = {} /\ seen = {} /\ req = NoRequest
    /\ round = 0 /\ turn \in BOOLEAN /\ asked = FALSE
    /\ wal = {} /\ finalizing = FALSE /\ stalled = FALSE /\ replay = "none"
    /\ net = <<>> /\ published = {} /\ dropped = {} /\ submitted = {}
    /\ accepted = {} /\ kills = 0 /\ losses = 0

---------------------------------------------------------------------------
(* The replicated application, as far as the node relies on it.            *)

Applies(e, decided) == e \in Configs \/ e \notin Range(decided)

Prepared(e)         == [h |-> Len(chain) + 1, e |-> e]        \* Application::prepare
Valid(v)            == v.h = Len(chain) + 1 /\ Applies(v.e, chain)

\* Height the engine works on.
Height == IF finalizing THEN Len(chain) ELSE Len(chain) + 1

---------------------------------------------------------------------------
(* File operations.                                                        *)

AddName(d, n) == Update(d, d.vis \cup {n}, {})

\* store_write under store/pending, body marker of n: the temporary file is
\* created, filled and synced, renamed, and the directory synced.
WriteBody(n) == << [op |-> "create", n |-> n], [op |-> "fill", n |-> n],
                   [op |-> "rename", n |-> n], [op |-> "pendingSync"] >>

\* persist_batch: nothing to do when the name is already there.
PersistBatch(v) ==
    IF v \in batches.vis THEN <<>>
    ELSE << [op |-> "batch", v |-> v], [op |-> "batchSync"] >>

\* persist_seen: an existing record is synced again.
PersistSeen(hd) ==
    IF hd \in seenDir.vis THEN << [op |-> "seenSync"] >>
    ELSE << [op |-> "seen", hd |-> hd], [op |-> "seenSync"] >>

Unlink(m) == << [op |-> "unlink", m |-> m] >>

PendingOp(o) ==
    /\ \/ o.op = "create" /\ pending' = Write(pending, TmpMark(o.n), Torn)
       \/ o.op = "fill"   /\ pending' = SyncFile(Write(pending, TmpMark(o.n), Kept), TmpMark(o.n))
       \/ o.op = "rename" /\ pending' = Rename(pending, TmpMark(o.n), BodyMark(o.n))
       \/ o.op = "mark"   /\ pending' = Update(pending, [pending.vis EXCEPT ![o.m] = Kept], pending.dirty)
       \/ o.op = "unlink" /\ pending' = IF pending.vis[o.m] = Absent THEN pending ELSE Delete(pending, o.m)
       \/ o.op = "pendingSync" /\ pending' = SyncDir(pending)
    /\ UNCHANGED <<batches, seenDir, intake, chain, rejected, engine, req, published, accepted>>

IntakeOp(o) ==
    /\ \/ o.op = "take"   /\ intake' = Delete(intake, o.n) /\ accepted' = accepted \cup {o.n} /\ UNCHANGED rejected
       \/ o.op = "reject" /\ rejected' = rejected \cup {o.n} /\ UNCHANGED <<intake, accepted>>
    /\ UNCHANGED <<batches, seenDir, pending, chain, engine, req, published>>

EvidenceOp(o) ==
    /\ \/ o.op = "batch"     /\ batches' = AddName(batches, o.v)  /\ UNCHANGED seenDir
       \/ o.op = "batchSync" /\ batches' = SyncDir(batches)       /\ UNCHANGED seenDir
       \/ o.op = "seen"      /\ seenDir' = AddName(seenDir, o.hd) /\ UNCHANGED batches
       \/ o.op = "seenSync"  /\ seenDir' = SyncDir(seenDir)       /\ UNCHANGED batches
    /\ UNCHANGED <<pending, intake, chain, rejected, engine, req, published, accepted>>

\* The journal commit, and what the engine and the network hear: a value is
\* valid, a value is proposed and its parts streamed, parts are streamed
\* again, the decision is acknowledged.
OutwardOp(o) ==
    /\ \/ /\ o.op = "commit"
          /\ chain' = Append(chain, o.v.e)
          /\ UNCHANGED <<wal, finalizing, req, published>>
       \/ /\ o.op = "valid"
          /\ wal' = wal \cup {o.v}
          /\ UNCHANGED <<chain, finalizing, req, published>>
       \/ /\ o.op = "propose"
          /\ wal' = wal \cup {o.hd.v}
          /\ published' = published \cup {o.hd}
          /\ req' = NoRequest
          /\ UNCHANGED <<chain, finalizing>>
       \/ /\ o.op = "stream"
          /\ published' = published \cup {o.hd}
          /\ UNCHANGED <<chain, wal, finalizing, req>>
       \/ /\ o.op = "ack"
          /\ finalizing' = TRUE
          /\ wal' = {}
          /\ UNCHANGED <<chain, req, published>>
    /\ UNCHANGED <<batches, seenDir, pending, intake, rejected, round, turn, asked, stalled, replay, accepted>>

\* The next operation of the handler at work.
Step ==
    /\ todo # <<>>
    /\ LET o == Head(todo) IN PendingOp(o) \/ IntakeOp(o) \/ EvidenceOp(o) \/ OutwardOp(o)
    /\ todo' = Tail(todo)
    /\ UNCHANGED <<pc, memory, net, dropped, submitted, kills, losses>>

---------------------------------------------------------------------------
(* Submissions.                                                            *)

At(p) == pc = p /\ todo = <<>>

\* Whether a queue entry or an assigned value stands for the stem n.
Queued(n) == \/ \E i \in DOMAIN queue : queue[i] = BodyMark(n)
             \/ \E v \in DOMAIN assigned : assigned[v] = BodyMark(n)

\* A producer drops a file: written and renamed, never synced.
Drop(n) ==
    /\ n \notin dropped /\ Occurs(n)
    /\ intake' = Write(intake, n, Kept)
    /\ dropped' = dropped \cup {n}
    /\ UNCHANGED <<batches, seenDir, pending, chain, rejected, pc, todo, memory, req, engine,
                   net, published, submitted, accepted, kills, losses>>

\* Mutant: the drop is unlinked before its marker is durable.
DrainUnlinksFirst ==
    /\ At("drain")
    /\ \E n \in files :
          /\ files' = files \ {n}
          /\ IF intake.vis[n] = Kept
             THEN /\ todo' = << [op |-> "take", n |-> n] >> \o WriteBody(n)
                  /\ queue' = IF Queued(n) THEN queue ELSE Append(queue, BodyMark(n))
             ELSE /\ todo' = << [op |-> "reject", n |-> n], [op |-> "take", n |-> n] >>
                  /\ queue' = queue
    /\ UNCHANGED <<disk, pc, assigned, proposals, held, hold, seen, req, engine, world>>

\* drain_intake, one file of the listing: submit_body, then unlink; a file
\* that does not decode is renamed .rejected.
Drain ==
    /\ At("drain")
    /\ \E n \in files :
          /\ files' = files \ {n}
          /\ IF intake.vis[n] = Kept
             THEN /\ todo' = WriteBody(n) \o << [op |-> "take", n |-> n] >>
                  /\ queue' = IF Queued(n) THEN queue ELSE Append(queue, BodyMark(n))
             ELSE /\ todo' = << [op |-> "reject", n |-> n], [op |-> "take", n |-> n] >>
                  /\ queue' = queue
    /\ UNCHANGED <<disk, pc, assigned, proposals, held, hold, seen, req, engine, world>>

Drained ==
    /\ At("drain") /\ files = {}
    /\ pc' = "pick"
    /\ UNCHANGED <<disk, todo, memory, req, engine, world>>

\* RoomNode::submit: a complete batch.  One that does not extend the frontier
\* is dropped; a held request is then looked at again.
Submit(v) ==
    /\ At("idle") /\ v.e \in Direct \ submitted /\ Occurs(v.e)
    /\ submitted' = submitted \cup {v.e}
    /\ IF Valid(v)
       THEN /\ todo' = PersistBatch(v) \o << [op |-> "mark", m |-> ValueMark(v)], [op |-> "pendingSync"] >>
            /\ held' = held \cup {v} /\ hold' = hold \cup {v}
            /\ queue' = IF ValueMark(v) \in Range(queue) \/ v \in Range(proposals) THEN queue
                        ELSE Append(queue, ValueMark(v))
       ELSE UNCHANGED <<todo, held, hold, queue>>
    /\ pc' = IF req = NoRequest THEN "idle" ELSE "pick"
    /\ UNCHANGED <<disk, files, assigned, proposals, seen, req, engine, net, published, dropped, accepted, kills, losses>>

---------------------------------------------------------------------------
(* GetValue.                                                               *)

\* The connector delivers its next message.
Free == At("idle") /\ req = NoRequest /\ ~stalled

\* During WAL replay the answer is a tombstone at once.
GetValue ==
    /\ Free /\ turn /\ ~asked /\ ~finalizing /\ Height <= LastHeight
    /\ asked' = TRUE
    /\ IF replay = "on" THEN UNCHANGED <<pc, files, req>>
       ELSE /\ pc' = "drain"
            /\ files' = {n \in Bodies : intake.vis[n] # Absent}
            /\ req' = [h |-> Height, r |-> round, late |-> FALSE]
    /\ UNCHANGED <<disk, todo, queue, assigned, proposals, held, hold, seen,
                   round, turn, wal, finalizing, stalled, replay, world>>

\* The ticker: while a request is held the intake is drained for it; once
\* replay is noticed the request is released.
Tick ==
    /\ At("idle") /\ req # NoRequest
    /\ IF replay = "on" THEN req' = NoRequest /\ UNCHANGED <<pc, files>>
       ELSE /\ pc' = "drain"
            /\ files' = {n \in Bodies : intake.vis[n] # Absent}
            /\ UNCHANGED req
    /\ UNCHANGED <<disk, todo, queue, assigned, proposals, held, hold, seen, engine, world>>

Deadline ==
    /\ req # NoRequest /\ ~req.late
    /\ req' = [req EXCEPT !.late = TRUE]
    /\ UNCHANGED <<disk, pc, todo, memory, engine, world>>

Assign(v) == proposals' = [proposals EXCEPT ![req.h] = v]
Without(f, v) == [x \in DOMAIN f \ {v} |-> f[x]]
With(f, v, m) == [x \in DOMAIN f \cup {v} |-> IF x = v THEN m ELSE f[x]]

\* next_pending, one turn of its loop over the front of the queue.
PickDone ==
    /\ At("pick")
    /\ proposals[req.h] # NoValue \/ queue = <<>>
    /\ pc' = "offer"
    /\ UNCHANGED <<disk, todo, memory, req, engine, world>>

Picking == At("pick") /\ proposals[req.h] = NoValue /\ queue # <<>>

\* Mutant: a value that lost its height stays at the front of the queue.
PickValueWaits ==
    /\ Picking /\ Head(queue).k = "value"
    /\ LET v == ValueOf(Head(queue)) IN
          IF v \in held /\ Valid(v) THEN Assign(v) ELSE UNCHANGED proposals
    /\ pc' = "offer"
    /\ UNCHANGED <<disk, todo, queue, assigned, files, held, hold, seen, req, engine, world>>

PickValue ==
    /\ Picking /\ Head(queue).k = "value"
    /\ LET v == ValueOf(Head(queue)) IN
          \/ /\ v \in held /\ Valid(v)
             /\ Assign(v) /\ pc' = "offer"
             /\ UNCHANGED <<todo, queue, assigned>>
          \/ /\ ~(v \in held /\ Valid(v))
             /\ v \in DOMAIN assigned                  \* lost its height: a body again
             /\ queue' = Append(Tail(queue), assigned[v])
             /\ assigned' = Without(assigned, v)
             /\ UNCHANGED <<pc, todo, proposals>>
          \/ /\ ~(v \in held /\ Valid(v))
             /\ v \notin DOMAIN assigned
             /\ queue' = Tail(queue)
             /\ todo' = Unlink(Head(queue))
             /\ UNCHANGED <<pc, assigned, proposals>>
    /\ UNCHANGED <<disk, files, held, hold, seen, req, engine, world>>

Readable(m) == pending.vis[m] = Kept

PickBody ==
    /\ Picking /\ Head(queue).k # "value"
    /\ LET m == Head(queue)
           v == Prepared(m.e)
       IN \/ /\ Readable(m) /\ Applies(m.e, chain)
             /\ todo' = PersistBatch(v)
             /\ held' = held \cup {v} /\ hold' = hold \cup {v}
             /\ assigned' = With(assigned, v, m)
             /\ queue' = <<ValueMark(v)>> \o Tail(queue)
             /\ Assign(v) /\ pc' = "offer"
          \/ /\ ~(Readable(m) /\ Applies(m.e, chain))
             /\ todo' = (IF m.k = "body" THEN << [op |-> "reject", n |-> m.e] >> ELSE <<>>) \o Unlink(m)
             /\ queue' = Tail(queue)
             /\ UNCHANGED <<pc, assigned, proposals, held, hold>>
    /\ UNCHANGED <<disk, files, seen, req, engine, world>>

\* can_record_seen.
CanRecord(hd) ==
    hd \in seen \/ Cardinality({x \in seen : x.v.h = hd.v.h}) < MaxSeen

Record(hd) == seen' = seen \cup {hd}

\* prepare_local_parts and the reply: the header is durable first.
Answer(hd) == PersistSeen(hd) \o << [op |-> "propose", hd |-> hd] >>

\* Mutant: a request past its deadline stays held.
OfferHolds ==
    /\ At("offer")
    /\ LET v  == proposals[req.h]
           hd == [v |-> v, r |-> req.r, mine |-> TRUE]
           live == v # NoValue /\ v \in held
       IN \/ /\ live /\ v.h = req.h /\ Valid(v) /\ CanRecord(hd)
             /\ Record(hd)
             /\ hold' = hold \cup {v}
             /\ todo' = Answer(hd)
             /\ UNCHANGED req
          \/ /\ ~(live /\ v.h = req.h /\ Valid(v) /\ CanRecord(hd))
             /\ UNCHANGED <<todo, seen, hold, req>>
    /\ pc' = "idle"
    /\ UNCHANGED <<disk, files, queue, assigned, proposals, held, engine, world>>

\* A value is offered with its parts; without one the request is held, and
\* past its deadline, or when no header may be recorded, it gets a tombstone.
Offer ==
    /\ At("offer")
    /\ LET v  == proposals[req.h]
           hd == [v |-> v, r |-> req.r, mine |-> TRUE]
           live == v # NoValue /\ v \in held
       IN \/ /\ live /\ v.h = req.h /\ Valid(v) /\ CanRecord(hd)
             /\ Record(hd)
             /\ hold' = hold \cup {v}
             /\ todo' = Answer(hd)
             /\ UNCHANGED req
          \/ /\ \/ live /\ ~(v.h = req.h /\ Valid(v) /\ CanRecord(hd))
                \/ ~live /\ req.late
             /\ req' = NoRequest
             /\ UNCHANGED <<todo, seen, hold>>
          \/ /\ ~live /\ ~req.late
             /\ UNCHANGED <<todo, seen, hold, req>>
    /\ pc' = "idle"
    /\ UNCHANGED <<disk, files, queue, assigned, proposals, held, engine, world>>

---------------------------------------------------------------------------
(* The other messages of the engine.                                       *)

\* verdict_for: a value is admitted when it is already held or its parent has
\* room for another, and it replays against the frontier.
Admissible(v) ==
    /\ v \in held \/ Cardinality({w \in held : w.h = v.h}) < MaxRetained
    /\ Valid(v)

\* resupply_for: the values recorded at the height and still held are reported
\* to the engine once more.
Resupply ==
    LET supply == {v \in held : Valid(v) /\ \E hd \in seen : hd.v = v} IN
        /\ wal' = wal \cup supply
        /\ hold' = hold \cup supply
        /\ UNCHANGED <<disk, pc, todo, files, queue, assigned, proposals, held, seen, req,
                       finalizing, stalled, replay, world>>

\* StartedRound, for the round at hand or for the next one.
StartedRound ==
    /\ Free /\ ~finalizing
    /\ Resupply
    /\ UNCHANGED <<round, turn, asked>>

NewRound(t) ==
    /\ Free /\ ~finalizing
    /\ Resupply
    /\ round' = (IF round < MaxRound THEN round + 1 ELSE round)
    /\ turn' = t /\ asked' = FALSE

\* complete_part_stream: another validator's proposal, or its later proposal of
\* a value this node has streamed.
ReceiveProposal(v, r) ==
    /\ Free
    /\ (v.e \in Foreign /\ Occurs(v.e)) \/ (\E hd \in published : hd.v = v)
    /\ LET hd == [v |-> v, r |-> r, mine |-> FALSE] IN
          /\ CanRecord(hd) /\ Admissible(v)
          /\ Record(hd)
          /\ held' = held \cup {v} /\ hold' = hold \cup {v}
          /\ todo' = PersistBatch(v) \o PersistSeen(hd) \o << [op |-> "valid", v |-> v] >>
    /\ UNCHANGED <<disk, pc, files, queue, assigned, proposals, req, engine, world>>

\* ProcessSyncedValue: the decided value of the height, from a peer.
ProcessSynced ==
    /\ Free /\ ~finalizing /\ Len(net) > Len(chain)
    /\ LET v == Prepared(net[Len(chain) + 1]) IN
          /\ Admissible(v)
          /\ held' = held \cup {v} /\ hold' = hold \cup {v}
          /\ todo' = PersistBatch(v) \o << [op |-> "valid", v |-> v] >>
    /\ UNCHANGED <<disk, pc, files, queue, assigned, proposals, seen, req, engine, world>>

\* RestreamProposal: the engine proposes a locked value again in its own round.
Restream(v) ==
    /\ Free /\ turn /\ ~finalizing
    /\ v \in wal /\ v \in held /\ Valid(v)
    /\ LET hd == [v |-> v, r |-> round, mine |-> TRUE] IN
          /\ CanRecord(hd)
          /\ Record(hd)
          /\ todo' = PersistSeen(hd) \o << [op |-> "stream", hd |-> hd] >>
    /\ UNCHANGED <<disk, pc, files, queue, assigned, proposals, held, hold, req, engine, world>>

\* What sweep_decided keeps in memory once height h is decided.
Swept(h, queue1, proposals1, seen1) ==
    LET live == {ValueOf(m) : m \in {x \in Range(queue1) : x.k = "value"}}
                    \cup Range(proposals1) \cup {hd.v : hd \in seen1}
    IN {w \in held : w \in live \/ w.h = h + 1}

DecidedHere(v) ==
    /\ v \in wal /\ v.h = Len(chain) + 1
    /\ Len(net) > Len(chain) /\ net[v.h] = v.e

\* Decided: journal commit, then the markers, then the answer.  A value the
\* adapter does not hold is refused and the answer withheld.
Decided(v) ==
    /\ Free /\ ~finalizing /\ DecidedHere(v)
    /\ proposals' = [proposals EXCEPT ![v.h] = NoValue]
    /\ IF v \in hold /\ Valid(v)
       THEN /\ todo' = << [op |-> "commit", v |-> v] >> \o Unlink(ValueMark(v))
                           \o (IF v \in DOMAIN assigned THEN Unlink(assigned[v]) ELSE <<>>)
                           \o << [op |-> "ack"] >>
            /\ assigned' = Without(assigned, v)
            /\ queue' = SelectSeq(queue, LAMBDA m : m # ValueMark(v))
            /\ hold' = {w \in hold : w.h = v.h + 1}
            /\ seen' = {hd \in seen : hd.v.h > v.h}
            /\ held' = Swept(v.h, queue', proposals', seen')
            /\ UNCHANGED stalled
       ELSE /\ stalled' = TRUE
            /\ UNCHANGED <<todo, assigned, queue, hold, seen, held>>
    /\ UNCHANGED <<disk, pc, files, req, round, turn, asked, wal, finalizing, replay, world>>

\* Finalized: the same height again, reconciled with the journal, and the
\* engine starts the next one.
Finalized(t) ==
    /\ Free /\ finalizing
    /\ proposals' = [proposals EXCEPT ![Len(chain)] = NoValue]
    /\ seen' = {hd \in seen : hd.v.h > Len(chain)}
    /\ held' = Swept(Len(chain), queue, proposals', seen')
    /\ finalizing' = FALSE /\ round' = 0 /\ turn' = t /\ asked' = FALSE
    /\ UNCHANGED <<disk, pc, todo, files, queue, assigned, hold, req, wal, stalled, replay, world>>

\* The journal reports an error: no answer, and the height's assignment is gone.
Withhold ==
    /\ Free /\ kills < MaxKills
    /\ finalizing \/ \E v \in wal : DecidedHere(v)
    /\ proposals' = [proposals EXCEPT ![Height] = NoValue]
    /\ stalled' = TRUE
    /\ UNCHANGED <<disk, pc, todo, files, queue, assigned, held, hold, seen, req,
                   round, turn, asked, wal, finalizing, replay, world>>

\* The engine replays its WAL after a start and announces begin and end.
ReplayEvent ==
    /\ pc # "down"
    /\ \/ replay = "due" /\ replay' = "on"
       \/ replay = "on"  /\ replay' = "none"
    /\ UNCHANGED <<disk, pc, todo, memory, req, round, turn, asked, wal, finalizing, stalled, world>>

\* The network decides the next height.
NetDecide(v) ==
    /\ v.h = Len(net) + 1 /\ v.h <= LastHeight /\ Applies(v.e, net)
    /\ (v.e \in Foreign /\ Occurs(v.e)) \/ (\E hd \in published : hd.v = v)
    /\ net' = Append(net, v.e)
    /\ UNCHANGED <<disk, pc, todo, memory, req, engine, published, dropped, submitted, accepted, kills, losses>>

---------------------------------------------------------------------------
(* Death and restart.                                                      *)

Stop ==
    /\ pc # "down"
    /\ pc' = "down" /\ todo' = <<>> /\ files' = {}
    /\ queue' = <<>> /\ assigned' = NoMap
    /\ proposals' = [h \in 1..MaxHeight |-> NoValue]
    /\ held' = {} /\ hold' = {} /\ seen' = {} /\ req' = NoRequest
    /\ finalizing' = FALSE /\ stalled' = FALSE /\ replay' = "none"
    /\ UNCHANGED <<chain, rejected, round, turn, asked, wal, net, published, dropped, submitted, accepted>>

Kill ==
    /\ kills < MaxKills /\ kills' = kills + 1
    /\ Stop
    /\ UNCHANGED <<batches, seenDir, pending, intake, losses>>

PowerLoss ==
    /\ losses < MaxLosses /\ losses' = losses + 1
    /\ Stop
    /\ batches' \in {Stored(m) : m \in batches.disk}
    /\ seenDir' \in {Stored(m) : m \in seenDir.disk}
    /\ pending' \in PowerLossOutcomes(pending)
    /\ intake' \in PowerLossOutcomes(intake)
    /\ UNCHANGED kills

\* load_store_at: the headers above the frontier, and the batches they name
\* or that extend the frontier.
LoadSeen == {hd \in seenDir.vis : hd.v.h > Len(chain)}

LoadHeld(names) == {v \in names : v.h = Len(chain) + 1 \/ \E hd \in LoadSeen : hd.v = v}

\* reload_pending: the markers in the order of their names.
MarkOrder ==
    [i \in 1..2 * Len(Drops) |-> IF i % 2 = 1 THEN BodyMark(Drops[(i + 1) \div 2])
                                              ELSE TmpMark(Drops[i \div 2])]
DirectOrder == IF Direct = {} THEN <<>>
               ELSE [h \in 1..MaxHeight |-> ValueMark([h |-> h, e |-> CHOOSE e \in Direct : TRUE])]

Reloads(m) ==
    IF m.k = "value" THEN Readable(m) /\ ValueOf(m) \in LoadHeld(batches.vis) /\ Valid(ValueOf(m))
    ELSE Readable(m)

Start(t) ==
    /\ pc = "down" /\ pc' = "idle"
    /\ seen' = LoadSeen
    /\ held' = LoadHeld(batches.vis)
    /\ hold' = LoadHeld(batches.vis)
    /\ queue' = SelectSeq(MarkOrder \o DirectOrder, Reloads)
    /\ LET dead == {m \in PendingNames : pending.vis[m] # Absent /\ ~Reloads(m)} IN
          pending' = IF dead = {} THEN pending
                     ELSE Update(pending, [m \in PendingNames |->
                                     IF m \in dead THEN Absent ELSE pending.vis[m]], pending.dirty)
    /\ wal' = {v \in wal : v.h = Len(chain) + 1}
    /\ replay' = IF wal' = {} THEN "none" ELSE "due"
    /\ round' = 0 /\ turn' = t /\ asked' = FALSE
    /\ UNCHANGED <<batches, seenDir, intake, chain, rejected, todo, files, assigned, proposals,
                   req, finalizing, stalled, world>>

---------------------------------------------------------------------------
Loop == Step \/ Drain \/ Drained \/ PickDone \/ PickValue \/ PickBody \/ Offer

Act ==
    \/ Loop \/ GetValue \/ Tick \/ Deadline \/ ProcessSynced \/ Withhold \/ ReplayEvent
    \/ Kill \/ PowerLoss
    \/ \E n \in Bodies : Drop(n)
    \/ \E v \in Values : Submit(v) \/ Restream(v) \/ Decided(v) \/ NetDecide(v)
    \/ \E v \in Values, r \in 0..MaxRound : ReceiveProposal(v, r)
    \/ StartedRound
    \/ \E t \in BOOLEAN : NewRound(t) \/ Finalized(t) \/ Start(t)

Still(A) == UNCHANGED life /\ A
Next == Still(Act)

Spec == Init /\ [][Next]_vars

\* The loop runs, the ticker fires, deadlines pass, an operator restarts a
\* process that died or stalled; the engine keeps entering rounds that are ours and asking in
\* them, hears of decisions, and the network does not pass over a value this
\* node keeps proposing for ever.
Fairness ==
    /\ WF_vars(Still(Loop)) /\ WF_vars(Still(Tick)) /\ WF_vars(Still(Deadline))
    /\ WF_vars(Still(ReplayEvent)) /\ WF_vars(Still(Start(TRUE))) /\ WF_vars(Still(stalled /\ Kill))
    /\ SF_vars(Still(NewRound(TRUE))) /\ SF_vars(Still(GetValue)) /\ SF_vars(Still(ProcessSynced))
    /\ SF_vars(Still(\E v \in Values : Decided(v))) /\ SF_vars(Still(Finalized(TRUE)))
    /\ SF_vars(Still(\E v \in Values : v.e \in Bodies /\ NetDecide(v)))

LiveSpec == Spec /\ Fairness

---------------------------------------------------------------------------
Idle == At("idle")

\* Types, and the memory that MAX_SEEN_RECORDS_PER_HEIGHT promises, whatever
\* this node and the others propose and propose again.
TypeOK ==
    /\ batches.vis \subseteq Values /\ \A m \in batches.disk : m \subseteq batches.vis
    /\ seenDir.vis \subseteq Headers /\ \A m \in seenDir.disk : m \subseteq seenDir.vis
    /\ pending \in [vis : [PendingNames -> {Absent, Torn, Kept}],
                    disk : SUBSET [PendingNames -> {Absent, Torn, Kept}], dirty : SUBSET PendingNames]
    /\ intake.vis \in [Bodies -> {Absent, Torn, Kept}]
    /\ chain \in Seq(Effects) /\ Len(chain) <= MaxHeight /\ rejected \subseteq Bodies
    /\ pc \in {"down", "idle", "drain", "pick", "offer"} /\ files \subseteq Bodies
    /\ Range(queue) \subseteq PendingNames
    /\ DOMAIN assigned \subseteq Values /\ Range(assigned) \subseteq PendingNames
    /\ proposals \in [1..MaxHeight -> Values \cup {NoValue}]
    /\ held \subseteq Values /\ hold \subseteq Values /\ seen \subseteq Headers
    /\ \A h \in 1..MaxHeight : Cardinality({hd \in seen : hd.v.h = h}) <= MaxSeen
    /\ req \in [h : 0..MaxHeight, r : 0..MaxRound, late : BOOLEAN]
    /\ round \in 0..MaxRound /\ {turn, asked, finalizing, stalled} \subseteq BOOLEAN
    /\ wal \subseteq Values /\ replay \in {"none", "due", "on"}
    /\ net \in Seq(Effects) /\ published \subseteq Headers

\* How many queue entries stand for the body kept under the name m.
Places(m) ==
    Cardinality({i \in DOMAIN queue :
        queue[i] = m \/ \E v \in DOMAIN assigned : assigned[v] = m /\ queue[i] = ValueMark(v)})

\* Every submission the store owes has exactly one place in the queue: through
\* assignment, lost heights, drops that come back and restarts none falls out
\* and none is queued twice.
OwedIsQueued ==
    Idle => \A n \in Bodies : Readable(BodyMark(n)) => Places(BodyMark(n)) = 1

\* Once a drop has left the intake it is committed, reported rejected, or its
\* body is whole under store/pending whatever a power loss would keep.
NeverLost ==
    \A n \in accepted :
        \/ n \in Range(chain) \/ n \in rejected
        \/ \A m \in pending.disk : m[BodyMark(n)] = Kept

\* Every value the engine has logged as valid is one the adapter holds, so
\* its decision can be committed: also after a restart, when only the store
\* can bring it back.  persist_batch takes a name that is there for a durable
\* one, so this fails when a death between the rename and the directory sync
\* is followed by a power loss.
VouchedIsHeld ==
    Idle => \A v \in wal : v.h = Len(chain) + 1 => v \in hold

\* It holds through deaths of the process alone, and through power losses alone.
VouchedIsHeldSoFar == kills = 0 \/ losses = 0 => VouchedIsHeld

\* No proposal of this node is on the network without its durable header.
PublishedIsRecorded ==
    \A hd \in published : hd.v.h > Len(chain) => \A m \in seenDir.disk : hd \in m

\* Every GetValue is answered.
Answered == []<>(req = NoRequest)

\* Every submission is committed or reported rejected, through lost heights
\* and restarts, unless a power loss took the drop, which its producer never
\* synced, before the node accepted it.
Settled(n) == n \in Range(chain) \cup rejected
Vanished(n) == losses > 0 /\ n \notin accepted
SubmissionsSettle == []<>(\A n \in dropped : Settled(n) \/ Vanished(n))

-----------------------------------------------------------------------------
(* The parts above together, as the run checks them.                       *)

\* What the node published or vouched for is on its disk, within its bounds, and
\* a submission that is not settled is queued, or waits where a restart finds it.
DurableFirst ==
    /\ TypeOK
    /\ PublishedIsRecorded
    /\ VouchedIsHeldSoFar
    /\ OwedIsQueued
    /\ NeverLost
=============================================================================
