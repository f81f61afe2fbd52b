------------------------------ MODULE Adapter ------------------------------
(***************************************************************************)
(* The consensus adapter (crates/vhalla-rooms-consensus): a decided batch  *)
(* goes to the journal, then to the social store, then to the rooms store, *)
(* then to memory, and only then is the engine answered.  Adapter::open    *)
(* rebuilds memory from whatever a crash left of the three.                *)
(*                                                                         *)
(* The journal is its published log, as in CommitLog; each store is its    *)
(* pin and its retained intent, as in SnapshotStore.  Both come with what  *)
(* a power loss may leave of them.  A root or digest is the state it       *)
(* commits to; a frontier is the batch that produced it.                   *)
(***************************************************************************)
EXTENDS Integers, Sequences, FiniteSets, FiniteSetsExt

CONSTANTS Batches,      \* batches proposed
          Genesis,      \* the genesis frontier
          ParentOf,     \* batch.parent
          HeightOf,     \* batch.parent.height + 1
          EvidenceOf,   \* batch.evidence: social records
          RecordsOf,    \* batch.records: room records
          PostOf,       \* the post a reaction supports; other evidence is not in it
          CreditOf,     \* the award a new room spends; control records are not in it
          WellFormed,   \* batches within the bounds, clock window and rotation notice
          Lies,         \* batches whose claimed results are not their effects
          Certified,    \* batches a quorum certificate decides
          NoIntent,     \* no retained intent
          MaxFaults     \* bound: errors, deaths and power losses

ASSUME AdapterAssumption ==
    /\ Genesis \notin Batches
    /\ ParentOf \in [Batches -> Batches \cup {Genesis}]
    /\ HeightOf \in [Batches -> Nat \ {0}]
    /\ \A b \in Batches :
          HeightOf[b] = IF ParentOf[b] = Genesis THEN 1 ELSE HeightOf[ParentOf[b]] + 1
    /\ \A b \in Batches : IsFiniteSet(EvidenceOf[b]) /\ IsFiniteSet(RecordsOf[b])
    /\ WellFormed \subseteq Batches /\ Lies \subseteq Batches /\ Certified \subseteq Batches
    /\ MaxFaults \in Nat

Frontiers == Batches \cup {Genesis}
Height(f) == IF f = Genesis THEN 0 ELSE HeightOf[f]

-----------------------------------------------------------------------------
(* Application: the archive is a set of records, the registry a set of     *)
(* awards and rooms with its revision.                                     *)

GenesisState == [frontier |-> Genesis, social |-> {}, rooms |-> [rev |-> 0, facts |-> {}]]

\* Mutant: awards are assessed against the archive before the merge.
NewAwardsBeforeMerge(a, b) ==
    {e \in EvidenceOf[b] \ a.rooms.facts : e \in DOMAIN PostOf /\ PostOf[e] \in a.social}

\* A reaction is awarded once, when the merged archive holds its post.
NewAwards(a, b) ==
    {e \in EvidenceOf[b] \ a.rooms.facts :
        e \in DOMAIN PostOf /\ PostOf[e] \in a.social \cup EvidenceOf[b]}

\* A new room spends a credit, a control record does not; an exact retry of a
\* room is no error, but it too is a revision of the registry.
RecordsApply(a, b) ==
    \A r \in (RecordsOf[b] \ a.rooms.facts) \cap DOMAIN CreditOf :
        CreditOf[r] \in a.rooms.facts \cup NewAwards(a, b)

\* Application::replay and the state apply_locally installs.
Replay(a, b) ==
    [frontier |-> b,
     social   |-> a.social \cup EvidenceOf[b],
     rooms    |-> [rev   |-> a.rooms.rev + Cardinality(NewAwards(a, b))
                                         + Cardinality(RecordsOf[b]),
                   facts |-> a.rooms.facts \cup NewAwards(a, b) \cup RecordsOf[b]]]

\* Application::prepare on the parent's own state: what the proposer claims.
Made[f \in Frontiers] ==
    IF f = Genesis THEN GenesisState ELSE Replay(Made[ParentOf[f]], f)

Claimed(b) == IF b \in Lies THEN [Made[ParentOf[b]] EXCEPT !.frontier = b] ELSE Made[b]

\* Application::validate.
Valid(a, b) ==
    /\ ParentOf[b] = a.frontier
    /\ b \in WellFormed
    /\ RecordsApply(a, b)
    /\ Replay(a, b) = Claimed(b)

-----------------------------------------------------------------------------
(* One snapshot store: pin and intent as they are now, the pairs of them   *)
(* the disk may hold, and the pin the open store object has in hand.       *)

Holding(v) == [pin |-> v, intent |-> NoIntent, disk |-> {<<v, NoIntent>>}, held |-> v]

See(st, p, i) == [st EXCEPT !.pin = p, !.intent = i, !.disk = @ \cup {<<p, i>>}]
Settled(st)   == st.disk = {<<st.pin, st.intent>>}

\* The next step of publishing v: every step is settled before the next.
Push(st, v) ==
    IF ~Settled(st) THEN [st EXCEPT !.disk = {<<st.pin, st.intent>>}]
    ELSE IF st.intent = NoIntent THEN See(st, st.pin, v)
    ELSE IF st.pin # st.intent   THEN See(st, st.intent, st.intent)
    ELSE IF st.held # st.pin     THEN [st EXCEPT !.held = st.pin]
    ELSE See(st, st.pin, NoIntent)

Pushed(st, v) == Settled(st) /\ st.intent = NoIntent /\ st.pin = v /\ st.held = v

\* Store::commit(v, pin()) gets to work: the pin on disk is the one in hand
\* and a retained intent is this very publication.
Accepts(st, v) ==
    /\ st.pin = st.held
    /\ st.intent = NoIntent \/ (st.intent = v /\ st.held # v)

\* What Store::open and recover make of one state of the disk.
Recovered(d) == IF d[2] = NoIntent THEN d[1] ELSE d[2]

-----------------------------------------------------------------------------
VARIABLES log,      \* the journal's published batches
          logDisk,  \* the logs a power loss may leave
          soc,      \* the social store
          reg,      \* the rooms store
          app,      \* Adapter::app
          pending,  \* Adapter::pending
          pc,       \* where the adapter's call is
          cur,      \* the checked batch it publishes
          ret,      \* what follows the publication: "ack" or "replay"
          acked,    \* history: batches whose decision was answered Acked
          refused,  \* history: an open found what it cannot rebuild
          faults    \* faults so far

vars == <<log, logDisk, soc, reg, app, pending, pc, cur, ret, acked, refused, faults>>

OpenSteps == {"openSocial", "recoverSocial", "openRooms", "recoverRooms", "locate", "replay"}
PublishSteps == {"social", "pushSocial", "rooms", "pushRooms", "apply"}
JournalSteps == {"journal", "journalSync"}

Archives   == {f.social : f \in {Made[x] : x \in Frontiers}}
Registries == {f.rooms  : f \in {Made[x] : x \in Frontiers}}
Logs == {l \in UNION {[1..n -> Batches] : n \in {Height(f) : f \in Frontiers}} :
            \A i \in DOMAIN l : ParentOf[l[i]] = IF i = 1 THEN Genesis ELSE l[i - 1]}

ASSUME NoIntentIsNoState == NoIntent \notin Archives /\ NoIntent \notin Registries

StoreOf(V) == [pin : V, intent : V \cup {NoIntent},
               disk : SUBSET (V \X (V \cup {NoIntent})), held : V]

TypeOK ==
    /\ log \in Logs /\ logDisk \subseteq Logs
    /\ soc \in StoreOf(Archives) /\ reg \in StoreOf(Registries)
    /\ app \in [frontier : Frontiers, social : Archives, rooms : Registries]
    /\ pending \subseteq Batches
    /\ pc \in {"closed", "ready"} \cup OpenSteps \cup PublishSteps \cup JournalSteps
    /\ cur \in Frontiers
    /\ ret \in {"ack", "replay"}
    /\ acked \subseteq Batches
    /\ refused \in BOOLEAN
    /\ faults \in 0..MaxFaults

\* A fresh home: both stores pin genesis and the journal is empty.
Init ==
    /\ log = << >> /\ logDisk = {<< >>}
    /\ soc = Holding(GenesisState.social) /\ reg = Holding(GenesisState.rooms)
    /\ app = GenesisState
    /\ pending = {}
    /\ pc = "closed" /\ cur = Genesis /\ ret = "replay"
    /\ acked = {} /\ refused = FALSE /\ faults = 0

-----------------------------------------------------------------------------
Goto(from, to) == pc = from /\ pc' = to

\* The adapter is dropped: memory goes, the stores' locks with it.
Drop ==
    /\ pc' = "closed" /\ cur' = Genesis /\ ret' = "replay"
    /\ app' = GenesisState /\ pending' = {}

\* journal.recover() settles what is visible; Store::open reads the pins.
OpenJournal ==
    /\ Goto("closed", "openSocial")
    /\ logDisk' = {log}
    /\ soc' = [soc EXCEPT !.held = soc.pin]
    /\ reg' = [reg EXCEPT !.held = reg.pin]
    /\ UNCHANGED <<log, app, pending, cur, ret, acked, refused, faults>>

\* recovery_required: a retained intent is finished before anything is read.
OpenStores ==
    /\ \/ Goto("openSocial", IF soc.intent = NoIntent THEN "openRooms" ELSE "recoverSocial")
       \/ Goto("openRooms", IF reg.intent = NoIntent THEN "locate" ELSE "recoverRooms")
    /\ UNCHANGED <<log, logDisk, soc, reg, app, pending, cur, ret, acked, refused, faults>>

RecoverSocial ==
    /\ pc = "recoverSocial"
    /\ IF Pushed(soc, soc.pin)
       THEN pc' = "openRooms" /\ UNCHANGED soc
       ELSE soc' = Push(soc, soc.pin) /\ UNCHANGED pc
    /\ UNCHANGED <<log, logDisk, reg, app, pending, cur, ret, acked, refused, faults>>

RecoverRooms ==
    /\ pc = "recoverRooms"
    /\ IF Pushed(reg, reg.pin)
       THEN pc' = "locate" /\ UNCHANGED reg
       ELSE reg' = Push(reg, reg.pin) /\ UNCHANGED pc
    /\ UNCHANGED <<log, logDisk, soc, app, pending, cur, ret, acked, refused, faults>>

\* The results the journal records at height k; height 0 is genesis.
ResultAt(k) == IF k = 0 THEN GenesisState ELSE Claimed(log[k])

\* Both snapshots match the prefix k, or social alone has the next batch.
Compatible(k) ==
    /\ ResultAt(k).rooms = reg.pin
    /\ \/ ResultAt(k).social = soc.pin
       \/ k < Len(log) /\ ResultAt(k + 1).social = soc.pin

Prefixes == {k \in 0..Len(log) : Compatible(k)}

\* AdapterError::Corrupt and the like: the home cannot be opened.
RefuseOpen ==
    /\ refused' = TRUE
    /\ Drop

\* The latest compatible prefix is taken for published; memory resumes there.
Locate ==
    /\ pc = "locate"
    /\ IF Prefixes = {} THEN RefuseOpen
       ELSE /\ pc' = "replay"
            /\ app' = [frontier |-> ResultAt(Max(Prefixes)).frontier,
                       social |-> soc.held, rooms |-> reg.held]
            /\ UNCHANGED <<pending, cur, ret, refused>>
    /\ UNCHANGED <<log, logDisk, soc, reg, acked, faults>>

\* Every later batch of the journal is validated and published again.
ReplayNext ==
    /\ pc = "replay"
    /\ Height(app.frontier) < Len(log)
    /\ LET b == log[Height(app.frontier) + 1]
       IN  IF Valid(app, b)
           THEN /\ pc' = "social" /\ cur' = b /\ ret' = "replay"
                /\ UNCHANGED <<app, pending, refused>>
           ELSE RefuseOpen
    /\ UNCHANGED <<log, logDisk, soc, reg, acked, faults>>

\* The journal's last frontier must be the one rebuilt.
Opened ==
    /\ pc = "replay"
    /\ Height(app.frontier) >= Len(log)
    /\ IF app.frontier = ResultAt(Len(log)).frontier
       THEN pc' = "ready" /\ UNCHANGED <<app, pending, cur, ret, refused>>
       ELSE RefuseOpen
    /\ UNCHANGED <<log, logDisk, soc, reg, acked, faults>>

-----------------------------------------------------------------------------
\* Adapter::hold: any batch the node holds, checked or not.
Hold(b) ==
    /\ pc = "ready"
    /\ pending' = pending \cup {b}
    /\ UNCHANGED <<log, logDisk, soc, reg, app, pc, cur, ret, acked, refused, faults>>

\* Mutant: whatever the journal already holds is answered at once.
ReconcileByJournal(b) ==
    /\ acked' = acked \cup {b}
    /\ UNCHANGED <<pc, cur, ret>>

\* Mutant: a batch that memory already has is not answered again.
ReconcileSilently(b) ==
    /\ IF HeightOf[b] > Height(app.frontier) /\ Valid(app, b)
       THEN pc' = "social" /\ cur' = b /\ ret' = "ack"
       ELSE UNCHANGED <<pc, cur, ret>>
    /\ UNCHANGED acked

\* reconcile_committed: a journalled batch that memory has is answered; one it
\* has not is validated and published again, or withheld.
Reconcile(b) ==
    \/ /\ HeightOf[b] <= Height(app.frontier)
       /\ acked' = acked \cup {b}
       /\ UNCHANGED <<pc, cur, ret>>
    \/ /\ HeightOf[b] > Height(app.frontier)
       /\ IF Valid(app, b)
          THEN pc' = "social" /\ cur' = b /\ ret' = "ack"
          ELSE UNCHANGED <<pc, cur, ret>>
       /\ UNCHANGED acked

\* Journal::commit admits the bundle: it extends the pin.
Extends(b) ==
    /\ HeightOf[b] = Len(log) + 1
    /\ ParentOf[b] = ResultAt(Len(log)).frontier

\* Mutant: committed_at looks the height up without recovering the journal.
CommittedAtUnsettled == UNCHANGED logDisk

\* committed_at recovers the journal, which makes what is visible durable.
CommittedAt == logDisk' = {log}

\* Adapter::decide up to its first write.  A batch that is unknown, does not
\* validate, or conflicts with the journal is rejected.
Resolve(b, known) ==
    /\ pc = "ready"
    /\ CommittedAt
    /\ IF HeightOf[b] <= Len(log)
       THEN IF log[HeightOf[b]] = b THEN Reconcile(b)
            ELSE UNCHANGED <<pc, cur, ret, acked>>
       ELSE /\ IF b \in known /\ Valid(app, b) /\ Extends(b)
               THEN pc' = "journal" /\ cur' = b /\ ret' = "ack"
               ELSE UNCHANGED <<pc, cur, ret>>
            /\ UNCHANGED acked
    /\ UNCHANGED <<log, soc, reg, app, refused, faults>>

\* The engine's Decided and Finalized, delivered any number of times.
Decide(b) == Resolve(b, pending) /\ UNCHANGED pending

\* A bundle fetched from a peer is held and decided in one call.
Absorb(b) == Resolve(b, pending \cup {b}) /\ pending' = pending \cup {b}

\* Journal::commit moves HEAD, then its last barrier makes that durable.
JournalPublish ==
    /\ Goto("journal", "journalSync")
    /\ log' = Append(log, cur)
    /\ logDisk' = logDisk \cup {log'}
    /\ UNCHANGED <<soc, reg, app, pending, cur, ret, acked, refused, faults>>

JournalSync ==
    /\ Goto("journalSync", "social")
    /\ logDisk' = {log}
    /\ UNCHANGED <<log, soc, reg, app, pending, cur, ret, acked, refused, faults>>

\* A store refuses its commit: Withheld, or an open that fails.
Withhold == IF ret = "ack" THEN pc' = "ready" /\ UNCHANGED <<app, pending, cur, ret, refused>>
            ELSE RefuseOpen

\* Adapter::publish: the social store, then the rooms store; each takes only
\* a snapshot that extends its own.
CommitSocial ==
    /\ pc = "social"
    /\ IF Accepts(soc, Replay(app, cur).social) /\ soc.held \subseteq Replay(app, cur).social
       THEN pc' = "pushSocial" /\ UNCHANGED <<app, pending, cur, ret, refused>>
       ELSE Withhold
    /\ UNCHANGED <<log, logDisk, soc, reg, acked, faults>>

PushSocial ==
    /\ pc = "pushSocial"
    /\ LET v == Replay(app, cur).social
       IN  IF Pushed(soc, v) THEN pc' = "rooms" /\ UNCHANGED soc
           ELSE soc' = Push(soc, v) /\ UNCHANGED pc
    /\ UNCHANGED <<log, logDisk, reg, app, pending, cur, ret, acked, refused, faults>>

CommitRooms ==
    /\ pc = "rooms"
    /\ IF /\ Accepts(reg, Replay(app, cur).rooms)
          /\ reg.held.rev <= Replay(app, cur).rooms.rev
          /\ reg.held.facts \subseteq Replay(app, cur).rooms.facts
       THEN pc' = "pushRooms" /\ UNCHANGED <<app, pending, cur, ret, refused>>
       ELSE Withhold
    /\ UNCHANGED <<log, logDisk, soc, reg, acked, faults>>

PushRooms ==
    /\ pc = "pushRooms"
    /\ LET v == Replay(app, cur).rooms
       IN  IF Pushed(reg, v) THEN pc' = "apply" /\ UNCHANGED reg
           ELSE reg' = Push(reg, v) /\ UNCHANGED pc
    /\ UNCHANGED <<log, logDisk, soc, app, pending, cur, ret, acked, refused, faults>>

\* apply_locally and prune_pending, then the answer; or the next replay.
Apply ==
    /\ pc = "apply"
    /\ app' = Replay(app, cur)
    /\ pending' = {b \in pending : ParentOf[b] = cur}
    /\ pc' = IF ret = "ack" THEN "ready" ELSE "replay"
    /\ acked' = IF ret = "ack" THEN acked \cup {cur} ELSE acked
    /\ UNCHANGED <<log, logDisk, soc, reg, cur, ret, refused, faults>>

Step ==
    \/ OpenStores \/ RecoverSocial \/ RecoverRooms \/ Locate \/ ReplayNext \/ Opened
    \/ JournalPublish \/ JournalSync
    \/ CommitSocial \/ PushSocial \/ CommitRooms \/ PushRooms \/ Apply

-----------------------------------------------------------------------------
Faulty == faults < MaxFaults /\ faults' = faults + 1

\* An I/O error: decide answers Withheld and the adapter stays; open fails.
Fail ==
    /\ pc \notin {"closed", "ready"}
    /\ Faulty
    /\ IF ret = "ack" THEN pc' = "ready" /\ UNCHANGED <<app, pending, cur, ret>> ELSE Drop
    /\ UNCHANGED <<log, logDisk, soc, reg, acked, refused>>

\* The process dies in a call, or is restarted between calls.
Die ==
    /\ pc \notin {"closed", "ready"}
    /\ Faulty
    /\ Drop
    /\ UNCHANGED <<log, logDisk, soc, reg, acked, refused>>

Restart ==
    /\ pc = "ready"
    /\ Drop
    /\ UNCHANGED <<log, logDisk, soc, reg, acked, refused, faults>>

PowerLoss ==
    /\ Faulty
    /\ log' \in logDisk /\ logDisk' = {log'}
    /\ \E d \in soc.disk : soc' = [pin |-> d[1], intent |-> d[2], disk |-> {d}, held |-> d[1]]
    /\ \E d \in reg.disk : reg' = [pin |-> d[1], intent |-> d[2], disk |-> {d}, held |-> d[1]]
    /\ Drop
    /\ UNCHANGED <<acked, refused>>

Next ==
    \/ OpenJournal \/ Step \/ Restart
    \/ \E b \in Batches : Hold(b)
    \/ \E b \in Certified : Decide(b) \/ Absorb(b)
    \/ Fail \/ Die \/ PowerLoss

Spec == Init /\ [][Next]_vars

-----------------------------------------------------------------------------
\* The state the first k batches of the log l make.
StateAt(l, k) == IF k = 0 THEN GenesisState ELSE Made[l[k]]

\* "Durable and applied; the reply was emitted" (DecidedOutcome::Acked): once
\* a decision was answered, every power loss leaves its batch in the journal
\* and its effects in both stores, and an open adapter has it in memory.
AckedIsDurable ==
    \A b \in acked :
        /\ \A l \in logDisk : HeightOf[b] <= Len(l) /\ l[HeightOf[b]] = b
        /\ \A d \in soc.disk : Made[b].social \subseteq Recovered(d)
        /\ \A d \in reg.disk : Made[b].rooms.rev <= Recovered(d).rev
                               /\ Made[b].rooms.facts \subseteq Recovered(d).facts
        /\ pc = "ready" => HeightOf[b] <= Height(app.frontier)

\* "Store state can never run ahead of the journal, and the rooms store can
\* never run ahead of the social store": whatever each of the three keeps of a
\* power loss, together they are a prefix of that journal, with at most the
\* social store one batch further.
StoresFollowJournal ==
    \A l \in logDisk, s \in soc.disk, r \in reg.disk :
        \E k \in 0..Len(l) :
            /\ Recovered(r) = StateAt(l, k).rooms
            /\ \/ Recovered(s) = StateAt(l, k).social
               \/ k < Len(l) /\ Recovered(s) = StateAt(l, k + 1).social

\* Adapter::open rebuilds "the exact application state the journal pin
\* records" from whatever a crash left: it never answers Corrupt, fails a
\* replay or meets a store that refuses.
OpenRebuilds == ~refused

\* Between calls memory is what the durable journal makes up to the frontier,
\* so what the node votes on and serves is never lost, not even after Withheld.
MemoryIsJournalled ==
    pc = "ready" =>
    \A l \in logDisk :
        /\ Height(app.frontier) <= Len(l)
        /\ app = StateAt(l, Height(app.frontier))

\* The adapter's calls run to their end, a node that is down is started, one
\* that withheld an answer is restarted ("must be restarted and reconciled"),
\* and a decided batch is delivered until it is answered.
Fairness ==
    /\ WF_vars(Step) /\ WF_vars(OpenJournal)
    /\ SF_vars(Restart)
    /\ \A b \in Certified : SF_vars(Absorb(b))
FairSpec == Spec /\ Fairness

\* A height is never stranded, whatever failed before: as long as a decided
\* batch extends what was answered Acked, one such batch is answered in the
\* end.  No retained intent, stale store object or half-done open stalls the
\* chain.  (With one decision per height: every decided batch is answered.)
Awaited(b) ==
    /\ b \in Certified \ Lies
    /\ ParentOf[b] \in acked \cup {Genesis}
    /\ \A c \in acked : ParentOf[c] # ParentOf[b]

EveryDecisionIsAcked == <>[](\A b \in Batches : ~Awaited(b))

-----------------------------------------------------------------------------
(* The parts above together, as the run checks them.                       *)

\* Journal, social store, rooms store and memory never disagree: in that order
\* each is a prefix of the one before it, whatever a power loss keeps of them.
PartsAgree ==
    /\ TypeOK
    /\ StoresFollowJournal
    /\ MemoryIsJournalled
=============================================================================
