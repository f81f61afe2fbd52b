# TLA+ verification of valhalla

Valhalla keeps what a small network agreed on (room records and the social
evidence behind them) in plain files, decides it with a consensus engine, and
carries end-to-end encrypted rooms over relays that hold mailboxes. This
directory models four parts of it: the durable core (journal, snapshot stores,
adapter) at the level of single file-system calls; the room node that feeds the
engine; the private-room path from a member's delivery queue through the
relay service to the scan directory, with the driver above and the host's home
below; and the controller of direct public rooms. TLC checks them under
crashes, power losses, lost and repeated messages
and thread interleavings; TLAPS proves the safety of the durable core (journal,
reader, snapshot stores, adapter), of the delivery queues and the mailbox, of the
scan directory, of the relay's request service, of the delivery driver, of the assembly
of proposals, of the direct-room controller and of the host's home for every number of
processes, bundles, batches, heights, senders, items, devices, connections, streams,
frames, mutations and faults.

Run a model with `tlc -config X.cfg MCX`, the proofs with `tlapm` on
`JournalProofs.tla`, `SnapshotStoreProofs.tla`, `ReplicaProofs.tla`,
`RelayClientProofs.tla`, `DeliveryDriverProofs.tla`, `PrivateHostProofs.tla` and
`DirectRoomProofs.tla`.
`PROJECT.json` has the runs, the mutants, the lines of source behind every
definition, the hazards and the three findings.

## 1. The system

| Component | State | Operations | Talks to | Hard part |
|---|---|---|---|---|
| commit journal (`vhalla-journal`) | `HEAD`, `HEAD.tmp`, `bundles/`, `heights/`, an advisory lock | `commit`, `recover`, `at_height`, `bundle` | called by the adapter, read by peers and replicas | power loss between barriers; residue of a cut commit; `recover` takes no lock |
| published-range reader (`vhalla-journal/read.rs`) | none; a follower keeps the cursor | `read_published_range` | journal files of a live writer | no lock: one HEAD, many later reads |
| snapshot stores (`vhalla-rooms-store`, `vhalla-social-store`) | pin, snapshot copies, intent, three scratch names, exclusive lock; pin and snapshot in memory | `open`, `commit`, `recover`, `read_registry` / `read_archive` | called by the adapter and the CLI | an I/O error leaves a live object over a half-done publication; torn scratch |
| consensus adapter (`vhalla-rooms-consensus`) | journal, both stores, application state, pending batches | `open`, `hold`, `decide`, `absorb` | engine messages `Decided` / `Finalized`; peers' bundles | a crash between any two of the three publications; redelivery; roots that repeat |
| room registry and social archive (`vhalla-rooms`, `vhalla-social`) | awards, rooms, controls; signed records | `award`, `apply`, `ingest` | replayed by the adapter | determinism of replay over an archive that is already ahead |
| room service replica (`vhalla-rooms-app`) | a home of its own, pending submissions | `Service::open`, sync, submit | the node's journal and intake directory | two processes on one home |
| room node (`vhalla-rooms-node`) | intake and pending markers, retained values, seen headers, proposal streams | drain, `GetValue`, proposals, `Decided`, `Finalized`, sync, restart | engine, adapter, gossip | a body becomes a value and a body again; parts in any order; a reply that never comes |
| delivery queue (`vhalla-private-native/relay/delivery.rs`) | rows of jobs with attempts, charges, next due time | `enqueue`, `tick`, `tick_only`, `resume` | relay over TLS or QUIC | an answer that never came; budget of attempts |
| scan directory (`relay/net.rs`) | items, cursor, signature, binding | `open`, `scan`, `scan_page_until` | relay mailbox, the driver | cursor and items in two directories |
| relay service (`relay/tls/service.rs`) | admission counts, windows, held pages, mailbox, drain flag | accept, admit, put, page, wait, drain | clients, the host's database | lost wakes, slots, poisoning |
| delivery driver (`vhalla-cli/private_rooms/agent_delivery.rs`) | two outbound watermarks, markers per position, checkpoint | publish controls and messages, scan, apply, receipt | kernel, queues, scan directory | three commits per position; two queues into one mailbox |
| host home (`vhalla-cli/private_host`) | sealed configuration with backups, generation records, mailboxes with ledger and fence | renew, revoke, credentials, prepare, fence, cutover, recover, serve | operator, relay service | several files replaced as one; a transition over four places |
| direct rooms (`vhalla-direct-native`, `vhalla-direct-room`) | retained events and policies, indices, reservations, custody marks, an emergency slot; policy state and one cached chain per writer in memory | `send`, `set_writers`, `receive_event`, `observe_policy`, `reconcile`, `expand_limits`, `open` | other peers, the owner's and the author's key | frames in any order, a few per call; forks and cloned keys; a full store; a death after a signature |
| discovery, room activity, browser storage | stores and outboxes of their own | | | retained publications, acknowledgements |
| core, wire, crypto, policy, identity, custody, session, ledger, transport | values, keys, limits | | | mostly pure; session nonces keep state |

What makes the modelled components correct:

* journal: one log; a HEAD never without its bundle and marker; acknowledged is
  durable; nothing left by a crash blocks a height;
* reader: what it returns was published, at those heights, whatever happens meanwhile;
* stores: always openable; a returned publication stays; an intent, once
  durable, decides;
* adapter: journal before social before rooms before memory before the answer,
  so that any crash leaves a prefix that `open` completes exactly;
* node: a drop is in the intake, the queue or the log until it settles; a value
  is recorded before it is published; the engine is always answered;
* relay path: an uncertain attempt stays uncertain, a retained item is charged
  once, a cursor has its items, a device that restarts accepts its own evidence;
* direct rooms: a home reopens as it was, signs each sequence and revision once and
  nothing under a fence, and shows as owner-sealed what the owner's policy commits to;
* service and host: slots, shares and spend are exact, no wake is lost, one
  mailbox is open, and a mutation is either whole or undone.

## 2. Modules

| Module | Models | State and actions |
|---|---|---|
| `DurableDir` | the operating system under all of it (external) | a directory is what processes see, the set of name maps the disk may hold, and the names with unsynced bytes |
| `CommitLog` | what the journal promises | a log and the acknowledged bundles: `Publish`, `Acknowledge`, `Forget` an unacknowledged tail |
| `Journal` | `Journal::commit` and `Journal::recover` over `FsStore` | three directories, the lock, one program counter per process; one action per store call; `Abandon`, `AbandonWrite`, `PowerLoss` |
| `JournalReader` | `read_published_range` and a follower | extends `Journal`; one action per file read; the follower's cursor survives a power loss |
| `JournalProofs` | theorems about `Journal` and `JournalReader` | |
| `SnapshotStore` | both snapshot stores | one directory, the store object in memory; one action per file or directory call of `commit`, `recover` and `finish_intent` |
| `Adapter` | `Adapter` with `Application` | journal as a log, stores as pin and intent, memory; actions of `open_with`, `decide`, `absorb`, `publish` |
| `ReplicaHome` | `Service::open` by two processes | extends `Journal`; the phase of each open and the store lock |
| `RoomNode` | the node's handlers over the engine's messages | intake, pending markers, assembled values, retained and seen values, the engine's round; one action per message or file call |
| `ProposalStream` | `StreamTable` and part checks | streams by peer and id; `Insert` of any part in any order, `Refuse`, expiry |
| `RelayDelivery` | `DeliveryQueue` of each sender and `FileStore::put` of the relay | job rows, the tick in progress, requests and replies in flight, mailbox and ledger |
| `RelayScan` | `ScanDirectory` | two directories; one action per file call |
| `RelayService` | `serve_until` and its workers | one program counter per connection, the mailbox mutex, admission counts and windows |
| `DeliveryDriver` | the headless driver of every device | mailbox, queues, kernel and markers per device; one action per durable commit |
| `HostHome` | configuration seal and generation transitions | one directory of a home, mailboxes; a command is the sequence of its file and database calls |
| `DirectRoom` | `RoomSession` with `PolicyState` and `AuthorChain` | the retained frames, reservations, image and limits on disk; observations, the policy replay and one cached chain per writer in memory; one action per frame that is replayed |
| `ReplicaProofs` | theorems about `Adapter` and `ProposalStream`, the two ends of a replica's way from a proposal to a commit | |
| `RelayClientProofs` | theorems about `RelayDelivery` and `RelayScan`, the two clients of a relay | |
| `PrivateHostProofs` | theorems about `HostHome` and `RelayService`, a host's files and the service it runs | |
| `SnapshotStoreProofs`, `DeliveryDriverProofs`, `DirectRoomProofs` | theorems about the module of that name | |
| `MC*` | instances for TLC | scenarios and constants |

`Adapter` does not repeat the files below it. Its journal is `CommitLog`'s log
together with the logs a power loss may leave (which `ImplementsCommitLog`
justifies), and its stores are the pin and intent of `SnapshotStore` with the
pairs a power loss may leave, settled before each next step as `finish_intent`
does. In the same way `RoomNode` takes the adapter's commit as one step,
`DeliveryDriver` takes a queue's job and a scanned item as what `RelayDelivery`
and `RelayScan` promise, and `HostHome` takes a mailbox as a database with
committed transactions.

The larger modules run several scenarios at once: a variable that never
changes (`room`, `load`, `home`, `life`, `traffic`) is chosen in `Init` from a
constant set and gives the bounds and scripts of that behaviour. One run so
covers long histories without faults and short ones with many.

### Data that is abstracted

* A bundle is its identity (it is content-addressed and `decode` recomputes the
  digest), a pin the bundle it names, a snapshot a version with `is_extension_of`
  as an order, a partly written file a prefix. Codec failures on intact bytes,
  file modes, ownership and size limits of single files are left out, except for
  `MAX_FILES`, which a crash's residue can reach. A root or digest is the state it
  commits to. Bounds, clock window and rotation notice depend only on a batch and
  its exact parent and are the constant `WellFormed`.
* `RoomNode`: the journal commit is atomic; of a seen header its height, value and
  round remain; a batch's scratch is not told from the batch; `GetDecidedValues`
  and `ExtendVote` only read and are left out; rounds beyond `MaxRound` count as the
  last; the producers' drops are unsynced until the node makes their marker
  durable; `.rejected` names are a set.
* `ProposalStream`: a header is its height (0 is one that is refused), a chunk its
  size, a signature a name; the assembled batch is judged in `RoomNode`.
* `RelayDelivery`: time is the order of due jobs and a bounded back-off; TLS and
  QUIC differ in what a broken reply is reported as.
* `RelayScan`: the item at a position is that position; the binding is one value.
* `RelayService`: a budget counts requests and bytes of small integers; a page is
  "there is something after the cursor" or not; a lock is one step unless the code
  sleeps or unlocks inside it.
* `DeliveryDriver`: a control or message is its sender, kind and number; epochs are
  control counts. The session view (`feed`, `update_delivery`) and polling cadence
  are left out; denied or expired grants end the driver like a death; the checks at
  page boundaries are part of `Open`.
* `HostHome`: a file's content is the generation of the key, certificate, token or
  configuration in it; the order in which a directory is listed is any of `Orders`.
* `DirectRoom`: a signed frame is the record of its claims, so that its identifier
  is the frame itself; records are counted, not bytes; `checked` is the one value of
  `checked_anchor` and the chain's `checked_seal`; the status report (`known_high`
  among it), `MAX_SEALED_AUTHORS` and the reuse of an operation with another text
  are left out; the store publishes atomically, and an uncertain outcome is a death
  before or after it.

### The operating system that is assumed

Directory updates are atomic and reach the disk in the order they were made;
only syncing the directory forces them, and only syncing a file forces its
bytes. A failed sync leaves the content unsynced. A name whose file was
replaced or removed is still taken as unsynced until the directory is synced
(the conservative choice). The death of a process loses nothing visible; a power
loss keeps one map of each directory and may tear any unsynced file. The three
directories of the journal are independent of each other.

## 3. What TLC checks

| Run | Instance | States | Shows |
|---|---|---|---|
| `journal` | 1 writer and a reader, rivals `a1`/`b1` at height 1, `a2` on `a1`, pages of one or two bytes, 2 faults | 453,531 | `PinHasItsEvidence`, `AckedSurvives`, `NeverCorrupt`, `ReadsAreSound` (`ReadsNeverFault`, `PageIsPublished`); `ImplementsCommitLog`; `NoHeightIsStranded` |
| `store` | 5 versions (a rival, and one more than the 2 generations), 3 faults, `MAX_FILES` 8 | 57,894 | `Openable` (`AlwaysOpens`), `PublishedIsKept` (`PublicationSurvives`, `ReadableIsDurable`), `IntentDecides`, `IntentsResolve` |
| `replica` | adapter: a chain of 3 batches (post; games only; reaction and room), a rival, a batch that lies, 3 faults; streams: one of 3 chunks and a short one, sound streams beside one with any part, a table that is full per peer and in all | 83,909 | `PartsAgree` (`StoresFollowJournal`, `MemoryIsJournalled`), `AckedIsDurable`, `OpenRebuilds`, `EveryDecisionIsAcked`; `SoundIsTaken` (`SoundNeverRejected`), `AssemblyIsExact` (`AllPartsComplete`, `AssembledExact`), `NotEvicted` |
| `replica_home` | 2 processes, no fault | | a violation of `NoHeightLosesItsMarker`: see the first finding |
| `relay_delivery` | one sender with two items, or two senders that reuse one operation, TLS and QUIC, 1 fault, 1 resume | 112,893 | `BooksBalance` (`AlwaysOpens`, `ChargesExact`, `RetainedIsHeld`, `RetentionIsCharged`), `CertainMeansAbsent`, `HeadSettles` |
| `delivery_driver` | an owner and a member; talk across a control with a death or a fault, answers with receipts, a guest that joined later, positions put off twice | 148,348 | `EvidenceIsTrue` (`AcceptsItself`, `NothingPassedOver`, `ReceiptsAreTrue`), `DecryptableOrder` (`EpochOrder`, `OwnerIsHeard`), `Converges` |
| `driver_order` | an owner and a member; a control, a message and a second control, then one more message, issued at will; no fault | | a violation of `EpochOrder`: see the second finding |
| `relay_ends` | a member's scan directory: a mailbox that grows to 3 items, pages of 2, 3 faults; a relay's service: 2 or 3 connections, 2 credentials, 2 sources, waits beside puts, a storage fault, a new window, a response billed to a later window, QUIC cancellation | 257,882 | `Resumable` (`AlwaysResumes`, `ScansNeverFault`), `CursorIsTrue` (`CursorHasItsItems`, `ReportSurvives`), `CatchesUp`; `Accounted` (`SharesHold`, `SlotsExact`, `OverrunBounded`), `WakesReach` (`HeldPageWoken`, `CancelReaches`), `ClosesHonestly` (`HonestResult`, `FailsClosed`), `Drains` |
| `host_home` | two mutations with a death and a power loss; a transition with deaths or a power loss; two transitions in a row | 159,365 | `SealIsWhole` (`AlwaysRecovers`, `ReportedStays`), `SuccessionIsSafe` (`SelectionHasEvidence`, `OneOpenMailbox`, `FenceIsTheDrain`, `SpendIsCarried`), `TransitionFinishes` |
| `room_node` | seven lives: drops, a configuration update, a complete batch and another validator's value over two heights, with a death or a power loss; another validator's value with both | 129,998 | `DurableFirst` (`PublishedIsRecorded`, `VouchedIsHeldSoFar`, `OwedIsQueued`, `NeverLost`), `Answered`, `SubmissionsSettle` |
| `room_batches` | another validator's value, a death and a power loss | | a violation of `VouchedIsHeld`: see the third finding |
| `direct_room` | seven histories: a late joiner, a forked author, a member removed and admitted again, a store that fills, more observations than are kept, an author and an owner that sign; 1 fault | 122,885 | `Reopens` (`AlwaysOpens`, `LiveIsRebuilt`), `SealsAreFinal` (`SealsAgree`), `SignsSafely` (`SignsOnce`, `NothingForgotten`, `FencedNeverSigns`), `CatchesUp` |

A name with others in brackets is their conjunction, defined at the end of its
module; the first of each module also carries its `TypeOK`. `MCReplica` and
`MCRelayEnds` run two modules each that share no state: a behaviour is one of the adapter
or one of the streams, of the scan directory or of the service.

Why these bounds are enough to be interesting: two heights with a rival are the
smallest history in which a marker, a bundle or a pin of another history can be
taken for one's own; two or three faults allow a crash in a call, one in the
recovery from it and, with three, a power loss after both; in the adapter a middle
batch that changes neither root makes prefix search ambiguous, and three heights
let the social store be one batch ahead while the journal is two. The store's
`MAX_FILES` is that of the social store (8; the rooms store has 16), the tighter of
the two. On the relay one duplicate and one outage reach every row of a job; a
control between two messages is the smallest script in which the two queues can
disagree about order, and a second control behind a message that still waits, which
only `driver_order` has, the smallest in which they do; two held pages and a put fill `MaxConns`; two transitions in
a row carry spend over a generation that never served. In the node one body, one
rival value and a restart are enough for a body to be assembled, lose its height
and be queued again. In a direct room three events of one author, two policies and
budgets of one or two frames make every replay stop in the middle at least once.

Each property has a mutant of the code that breaks it (a barrier left out, an
acknowledgement one step early, a scratch truncated in place, a wake without the
lock, a drop unlinked before its marker, and so on), listed in `PROJECT.json`.

`CHECK_DEADLOCK FALSE` is said where the system may stop: a queue whose jobs have settled, a host with nothing left to do, a
node that is past its last height. Elsewhere a call can always begin; in `relay_ends`
the service is let rest only once `serve_until` has returned.

### Fairness

* `Journal`: a call that runs gets on (`WF` of `Step`), and a bundle that its
  holder wants committed is tried again and again (`SF` of `BeginCommit`); the
  engine redelivers a decision until it is answered. Nothing is assumed of
  `recover`, which need not run, or of the reader.
* `SnapshotStore`: steps and `open` are weakly fair; `recover` and closing after
  an error are strongly fair, because `Adapter::open` calls `recover` whenever
  `recovery_required`, and `Indeterminate` tells the owner to reopen.
* `Adapter`: its steps and the opening of a closed adapter are weakly fair;
  `Restart` is strongly fair because a withheld answer obliges the operator to
  restart ("must be restarted and reconciled"); `Absorb` of a decided batch is
  strongly fair, as peers keep serving it. In `MCReplica` this excludes nothing of
  the streams but their behaviours' claim to liveness, and none is made for them. In
  `MCRelayEnds` the fairness of each module is that of its own behaviours.
* `RelayDelivery`: what `deliver_ordered` does with a queue whose turn it is. It asks
  `tick_only` again and again for the first job without a receipt (`SF`, at a time late
  enough for every back-off) and stops there when that job is stopped, so nothing is
  assumed of the jobs behind it or of `tick`, which no driver calls: both are steps of
  the model, for the safety properties, without fairness. `HeadSettles` says what this
  gives: every queue comes to have all its jobs retained or a stopped job at its head,
  which waits for the operator's `resume`. A tick that began ends (`SF` of its steps,
  `WF` of its end), a closed queue is opened again (also after a denied credential,
  which ends the driver with an error), and the relay serves what it received. Which of
  a driver's two queues has its turn is `DeliveryDriver`'s; a queue here is the only one
  its driver has work in.
* `RelayScan`: a driver opens a closed directory and gets on; it fetches again
  and again while it has the guard (`SF`), since it polls.
* `DeliveryDriver`: `WF` of launching and of each step, `SF` of a device's local
  commands and of resuming paused delivery: the loop visits both in turn.
* `RelayService`: the supervisor's loop and each worker thread are weakly fair;
  no client is.
* `HostHome`: a command gets on; recovery when the home does not load, and fence
  and cutover while a transition is pending, are repeated until they succeed, as
  the runbook tells the operator.
* `RoomNode`: the loop, its ticks and deadlines, the engine's replay and a start
  are weakly fair, as is the operator's restart of a stalled node; rounds,
  `GetValue`, a decision and its delivery are strongly fair, which is what the
  engine's timeouts provide after synchrony.
* `DirectRoom`: a call that began ends and a closed home is opened (`WF`);
  `reconcile` is strongly fair, because its status tells the caller to repeat it
  while something is pending.

Faults are bounded and never fair.

### Findings

**Recovery before the lock.** `Adapter::open_with` recovers the journal before it takes the social store's
lock, and `Service::open` takes no lock on its home. `replica_home` shows what
follows when a second process opens a home in use: its `recover` has read the
old HEAD, the first process writes its marker and moves HEAD, and the second
removes that marker as residue before it is turned away with `Busy`. HEAD is
left without its marker, and every later `recover`, retry and page read answers
`Corrupt`. The doc of `recover` warns its callers of exactly this. In `Journal`
itself that contract is a guard (`BeginCommit` and `BeginRecover` exclude each
other), and the theorems hold under it.

**A control overtakes a message.** `deliver_ordered` merges the driver's two queues by
their heads. When the head of the normal queue is the copy of a removal, an owner update
or a succession, which carries no application epoch, it publishes the pending control
(`agent_delivery.rs:1448`): right for the copy's own control, and wrong when that one is
already out and the pending one is the next. With a control, a message and a second
control waiting together, as after two commands between two ticks or an outage, both
controls go out first and the message of the epoch between them comes third. The
comment on `deliver_ordered` (`agent_delivery.rs:1367`) and `docs/cli-agents.md:317`
promise the opposite. `driver_order` reaches it with no fault; by then the members'
kernels are at the newer epoch and mark the owner's message stale, so that
`OwnerIsHeard` fails a few steps later. `delivery_driver` therefore has no script in
which a control that leaves a copy is followed by another while a message between them
waits, and its `DecryptableOrder` says nothing of one.

**A visible batch is not a durable one.** `store_write` syncs a batch's file, renames it
into `store/batches` and syncs the directory, "durable before the caller treats it as
held" (`vhalla-rooms-node/src/unix.rs:147`). `persist_batch` (`unix.rs:815`) returns early
when the name exists and syncs nothing. A process that dies between the rename and the
directory sync leaves a name that is visible and not durable; restarted, it receives the
value again, takes it for retained, and lets the engine log it as valid. A power loss
then drops the file: the engine's log has a value that the store cannot bring back to
the adapter, so that its decision is refused and the engine gets no answer. `persist_seen` (`unix.rs:173`) syncs an existing record
again. `room_batches` finds it with one death and one power loss. `DurableFirst` has
`VouchedIsHeld` only for behaviours that know one kind of fault (`VouchedIsHeldSoFar`);
its other parts are checked with both.

### Observations

Behaviours that were met while modelling and are recorded here without a run of
their own. The models follow the code in each case; the property named is stated
so that it holds.

* `relay/iroh.rs:614`: a QUIC reply stream that breaks off is `Malformed`, which the
  queue takes for a certain, permanent refusal, although `delivery.rs:152` calls an
  attempt without an answer uncertain. (`CertainMeansAbsent` is about jobs that
  never met this.)
* `agent_delivery/applied.rs:173`: a marker scratch interrupted as
  `locally-applied-control` is refused for good when the recomputed marker is an
  `exact-local-outbox-echo`; the comment at line 102 expects a replay to agree.
* `relay/tls/service.rs:434`: the drain flag and its notification are set without
  the mutex, so a page between its look and its sleep waits for its time-out.
  `Drains` holds because the sleep is bounded.
* `private_host.rs:225`: `generation-recover` loads the home strictly before it can
  finish a seal, so a cutover that died between two sealed files needs
  `recover` first (`docs/private-generations.md:217` names one command).
* `private_host/generation.rs:588`: fence acts on a `generation.pending` that is
  visible and may not be durable. `OneOpenMailbox` is therefore stated without
  power losses.
* `vhalla-rooms-node/src/unix.rs:1354` and `:735`: a death between the journal commit and the unlink of a
  body's marker, or a restart that forgets which value a body became, lets a
  configuration be committed again or a committed effect be marked `.rejected`.
* `unix.rs:967`: once a height has its full count of retained undecided values a
  synced decided one is refused as well; `SubmissionsSettle` is checked with a
  budget the instance does not fill.
* `vhalla-direct-native/src/model.rs:475`: `reconcile` stops at a reservation that may
  not be finished (lost custody, a full store) before it replays policies, so such a
  home only advances through `receive_event` and `observe_policy`; `CatchesUp`
  excepts it. An overflow of observations never clears, and a forked author keeps
  `reconciliation_pending` true after a reopen.

## 4. What is proved

| Module | Theorem | Statement |
|---|---|---|
| `JournalProofs` | `TypeCorrect` | `Spec => []TypeOK` |
| | `EvidenceHolds` | `Spec => []PinHasItsEvidence` |
| | `AcksSurvive` | `Spec => []AckedSurvives` |
| | `NoCorruption` | `Spec => []NeverCorrupt` |
| | `Implements` | `Spec => ImplementsCommitLog`: `Journal` refines `CommitLog` |
| | `ReaderIsSound` | `ReaderSpec => []ReadsAreSound` |
| `SnapshotStoreProofs` | `StoreAlwaysOpens` | `Spec => []Openable` |
| | `PublicationsSurvive` | `Spec => []PublishedIsKept` |
| | `DurableIntentDecides` | `Spec => IntentDecides` (an action property) |
| `ReplicaProofs` | `PartsAlwaysAgree` | `Spec => []PartsAgree` |
| | `AnswersStay` | `Spec => []AckedIsDurable` |
| | `OpenAlwaysRebuilds` | `Spec => []OpenRebuilds` |
| | `TableTakesSound` | `StreamSpec => []SoundIsTaken` |
| | `AssemblesExactly` | `StreamSpec => []AssemblyIsExact` |
| | `NeverEvicted` | `StreamSpec => NotEvicted` (an action property) |
| `RelayClientProofs` | `BooksAlwaysBalance` | `Spec => []BooksBalance` |
| | `CertaintyIsJustified` | `Spec => []CertainMeansAbsent` |
| | `ScanResumes` | `ScanSpec => []Resumable` |
| | `CursorStaysTrue` | `ScanSpec => []CursorIsTrue` |
| `DeliveryDriverProofs` | `DriverInvariant` | `Spec => []DriverInv`: kernel, queues, memory, markers and mailbox agree |
| | `EvidenceStaysTrue` | `Spec => []EvidenceIsTrue` |
| `PrivateHostProofs` | `HomeInvariant` | `Spec => []HomeInv`: what is left of a command leads through good homes only |
| | `SealsAreWhole` | `Spec => []SealIsWhole` |
| | `SuccessionHolds` | `Spec => []SuccessionIsSafe` |
| | `SlotsAreExact` | `ServiceSpec => []Accounted` |
| | `NoWakeIsLost` | `ServiceSpec => []WakesReach` |
| | `EndsAreHonest` | `ServiceSpec => ClosesHonestly` (an invariant and an action property) |
| `DirectRoomProofs` | `RoomInvariant` | `Spec => []RoomInv`: memory, indices and reservations agree with the records |
| | `HomeReopens` | `Spec => []Reopens` |
| | `SigningIsSafe` | `Spec => SignsSafely` (two invariants and an action property) |
| | `SealingIsFinal` | `Spec => SealsAreFinal` (an invariant and an action property) |

They hold for every value of the constants under the assumptions that their
modules name, which TLC evaluates on each run:

* `Journal`, `JournalReader`: heights are positive, the names and special contents
  differ, sizes and page limits are positive;
* `SnapshotStore`: `is_extension_of` is transitive (nothing else is asked of it),
  `MAX_FILES` is at least 8, as in both stores, and the names differ. Eight is what
  a publication with its residue can need;
* `Adapter`: a batch's height is its parent's plus one, its evidence and records
  are finite, and the absence of an intent is no snapshot. Nothing is assumed of what
  evidence and records say, so any prefix may repeat the root of another;
* `RelayDelivery`: attempts and back-off are positive with the back-off below its
  maximum, as `check_limits` demands, a tick's budget is positive, every item
  has one sender and a size. Senders and items may be infinitely many;
* `RelayScan`: the page size is positive and no file's content is its absence;
* `RelayService`: the limits are those that `Service::configured` accepts (at least
  two connections, in-flight requests of a credential at most half of them, some
  credential), and a client's load names a known source, credential and operation.
  The sets of connections may be infinite; that the workers are finitely many is
  part of what is proved;
* `DeliveryDriver`: the devices are finitely many and one of them is the owner, who was
  there from the start; only the owner's script has control operations; pages and queues
  have room for one. Scripts, deaths, faults and the deadline are any;
* `ProposalStream`: the limits are positive and a sound value is cut as `data_parts`
  cuts it, into full chunks and a rest that together fit `MAX_VALUE_BYTES`. Of the
  peers that break the format nothing is assumed but that their keys are theirs;
* `HostHome`: no content is the absence of a file, `read_dir` lists every backup, in
  any order and at any command, and a home's allowances and counts are numbers. At most
  two transitions in a row (`MaxGen`), since the files of a generation are named one by
  one; mutations, deaths, power losses, grants and deliveries are unbounded;
* `DirectRoom`: a frame that is offered is one that decodes (`WellFormed`: numbers
  above zero, one seal and one writer's place per author), writers have a place in
  the order of authors, operations of the two kinds have different names, and limits
  only grow. Rooms, offers, histories, forks and faults may be as many as one likes.

Each proof has one lemma per action (or group of actions that leave the same
things alone) and an inductive invariant, first checked by TLC as an invariant.
None of the properties is inductive as it stands.

**Journal.** That HEAD has its evidence says nothing about the commit that is
about to move HEAD, or about the older HEADs that a power loss may bring back.
`SafeInv` adds

* `Exclusive`: at most one commit, and no recovery beside it;
* `Heads`: every HEAD the disk may hold lies on the chain under the visible one;
* `Named`: a bundle's name holds that bundle or nothing, and only the scratch
  name may have unsynced bytes;
* `Chain`: every height up to HEAD is *settled*, that is, marker and bundle are the
  same in every map the disk may hold, synced, and linked to the height below;
* `Progress`: for each step of a commit, what the barriers before it achieved
  (after `sync_bundles_dir` the bundle is in every map, after `sync_heights_dir`
  the marker, and so on); for a recovery, that the pin it read is still the pin;
* `Acknowledged`: every HEAD the disk may hold is at or above each acknowledged
  bundle.

Lemmas about the three directories (`DiskBundles`, `DiskHeights`, `DiskRoot`) say
when a step on one of them leaves the disk part alone; `CommitGoto`,
`CommitReturn` and `RecoverMove` deal with control. The interesting cases are
`RenamePinStep`, where `Progress` becomes `Chain`; `AckStep`, where the last barrier
leaves one HEAD; and `PowerLossStep`, which may move HEAD down the chain but finds
it settled there.

**Refinement and reader.** Under `SafeInv` every step keeps the markers up to HEAD
(`Kept`), or moves HEAD to the next height (`Extended`), or is a power loss that
moves it down; through the mapping of `Journal` these are a stutter or an
acknowledgement, a publication, and the loss of an unacknowledged tail. The same
case split carries the reader: `ReaderInv` says what it has in hand at each step
(`ReadProgress`) and that the HEAD, the marker and the page it has read are still
under the HEAD of now, each at its height (`ReadIsCurrent`).

**Snapshot store.** `StoreInv` describes the shapes a map of the directory can have
and claims them of every map the disk may hold: `Idle` (a pin with its snapshot,
and at most one obsolete copy), `Staged` (an intent that is written but not yet
renamed, whole or cut) and `Pending` (an intent that decides, with the pin at its
basis or its outcome and each scratch a prefix of what is published). `PinInHand`,
`Deciding` and `Publishing` say where a call stands in them. The file bound follows
from the shapes by counting names; `PublishedIsKept` from the order of pins in
`Disk`; `IntentDecides` from the fact that no step removes an intent before its
outcome is durable.

**Adapter.** `AdapterInv` places everything on the journal's log: the stores are
both at one height `k`, or between `k` and `k + 1`, the social store first
(`StoresAt`, with `Resting`, `Staged` and `Moved` for one store); every log the disk
may hold reaches `k`, and `k + 1` where a store is already on its way there; every
answered batch is at or below `k` (`AckedAt`). `Objects` says what the open store
objects hold and which retained intents they do not know of, and `Memory` that the
application state is that of its height, except that during a replay the archive
may already have the next batch. That exception is the crux: `ReplayAhead` shows that an
archive which already holds a batch's evidence awards the same credits and
validates the same records, so `open` replays to the exact state. `Logged` and
`Grows` say that each batch of the log validates on what the ones before it make,
and that states only grow, which is why the stores accept them. Heights with equal
roots make the prefix search of `Locate` ambiguous; the proof uses only that it takes
the latest compatible prefix, which is at or above `k`. `Made` is a recursive function
over the tree of batches; that it satisfies its recursion equation is proved from
the well-foundedness of the natural numbers, by a least height at which two
approximations differ or none exists (`ApproxAgree`, `ApproxExists`, `MadeFacts`).

**Delivery.** `IInv` carries the books through an attempt in progress. `Ticking`: the
jobs that a tick still has to do are distinct and open, and the row of the attempt that
is under way has one attempt more than it had before (`prior`). `Wired`: a request whose
client still listens *is* that attempt, and it has no answer yet; every other request
belongs to a client that gave up. `Answered`: a receipt that has arrived names where the
mailbox holds the item. `Charged` is `ChargesExact` for every item, `Stored` the mailbox
with its ledger, in finite sets. The hard conjunct is `Traceless`: a row that
was certain before its open attempt has no request but its own, none at all before it is
sent or after a refusal, so that a refusal may take the row back to certain, and
a charge without a receipt may not. Steps fall into three kinds: one commits a single row
and lets time pass for the others (`Touches`, `SettleKeeps`, `RevisesKeeps`), one
abandons an attempt (`LetsGoKeeps`), one answers a request (`RepliedKeeps`). The order
of a queue decides which jobs a tick takes up, and none of these properties: the
invariant asks of it only that it is a list of items.

**Scan directory.** `ScanInv` relates every map of the root directory to every map
of the items directory that the disk may hold at the same time (`Agree`), because a
power loss takes one of each: all items up to the cursor are there, at most one
more, and each scratch is a prefix of the next position. `Guard`, `Page` and
`Publication` follow the cursor in hand through a page.

**Relay service.** `ServiceInv` replaces every count by the set of connections it
stands for. `Owning`: the workers are among the owned connections, which are at most
`max_connections`, and a source's workers at most its share (they all have a slot in
`Sources.live`, whichever transport returns it, `LiveHolds`). `Slots`: unless the mutex
is poisoned a credential's count is the cardinality of its connections between
admission and release. `Budget`: the bytes billed *plus* one response for each request
that is still to be billed fit the budget and its overrun; the sum does not change
when a response is billed to a later window than it was admitted in, which is why the
bound of `OverrunBounded` is not inductive and this is. Each step then moves one
connection into or out of few of these sets (`EndsKeeps`, `AdmissionKeeps`,
`BillingKeeps`, `StartingKeeps`, `ReapingKeeps`; all others are `Calm`). `Control` ties
the mutex to the one worker that is between its lock and its unlock: a worker about
to wait has seen the mailbox as it is and was not yet told of a cancellation, since
both need the mutex it holds, and a `PUT` leaves the mutex only to notify. In `Join`
no worker is left, so nobody holds the mutex and `unhealthy()` cannot miss what
happened last.

**Delivery driver.** A driver keeps three commits per received position (reception in the
kernel, receipt in the outbox, marker file) and three per sent record (job, watermark,
memory), in two stores, and repeats each after a death. `DriverInv` says, device by
device, what is true between any two of them. `Sends` and `Hears` are about the kernel:
records number the outbox, a receipt acknowledges one reception and is issued once.
`Covers` is the watermark: everything relayed at or below it has its job, for the
watermark on disk, for the one in memory and for every job; so a job that is ahead of the
watermark is never ahead of a gap. `MemHolds` ties the scan in progress to the
positions that have their marker. `MarksHold` asks of every marker that it is `Sound`,
that is, `restore_marker` confirms it now *and goes on doing so* as the kernel grows:
that is what `AcceptsItself` lacks to be inductive, since a marker written under one
kernel is confirmed under a later one. `MailHolds` ties the devices together: an item is
in the mailbox once, and is a control that the owner has made or a record whose sender
has its job and still has it in its outbox, so that what one device confirms is what
another sent. Most actions change one device and add at most one item to the mailbox
(`GrowsBy`, `SettleKeeps`, `KernelStep`); `OthersHold` says once what that leaves of the
other devices' part. The watermarks move by the greatest number
below which nothing is missing, a `Max` over a set whose greatest element exists by the
least-number principle (`Greatest`).

**Proposal streams.** `StreamInv` says that what the table holds of a sound stream is
a function of the set of its parts that arrived (`Exact`), which is what makes the
order and the repetitions irrelevant: each test of `Agrees` passes in every such
state (`TakesHeader`, `TakesChunk`, `TakesSignature`, `TakesMarker`), and the stream is
complete exactly when the set is all of its parts (`CompleteFacts`). That the limits
never turn a sound chunk away is arithmetic: the bytes of any set of its chunks are at
most those of the value, and a value within `MAX_VALUE_BYTES` has at most
`MAX_PROPOSAL_CHUNKS` chunks (`BytesFacts`, `ChunkCount`). For every other stream `Held`
keeps the byte count equal to the sum of the chunks. `SumFunction` is a fold in an
unspecified order; that one more chunk adds its size (`SumAdd`) is proved by a least
set for which the order would matter.

**Host home.** A command decides what to do when it reads the home and then performs a
list of operations (`todo`), of which any number may happen. `HomeInv` therefore does
not say where in which command a home stands. It says that the home is `Good`, and that
it is again after each operation that is left (`Stays`, over the run of the operations
from here, `StateAt`). That makes the cuts trivial: a death drops the rest of the list, and
the home is good as it is. In a good home every map that the disk may hold is `Fine`:
typed; `Recoverable`, which names the shapes that the seal, an aborted seal and their
repair may leave; with a configuration under them (`Base`, what recovery will end with)
not older than what was reported; its generation records in the order in which they are
published (`Recorded`); and each selected successor backed by them and by its mailbox
(`Backed`). Since each map is fine alone, a power loss that takes any of them leaves a
good home. `Boxes` is the chain of mailboxes, in which a successor is seeded with what
its predecessor had spent, and `FencedLive` says that a fence is there only on the way
to a successor, until the power fails and takes the mark back. The work is to show that
each list a command may decide on stays good, which is done once per group of operations
(a `rewrite` through its scratch name, the backups that `begin_seal` makes, the replaced
files, the commit mark, the removals in any listed order, a published record, a store's
step) for any home that meets the group's precondition, and composed with `Then`.
`Serving` ties the running service, which keeps the generation that it selected when it
started, to commands that run beside it. The run of a list, of a recovery and the
listing of a directory are recursive functions, shown to satisfy their equations by a
least counterexample, as `Made` is.

**Direct rooms.** `RoomInv` ties everything a session remembers to the frames it
retains. The observations are a function of the log and of the number of closed policies
(`SeenOf`, `SeenRebuilt`): a second event at a sequence, or a second policy at a
revision, is a fork whichever came first (`SeenSays`), and closing a policy takes
exactly that one out (`SeenCommit`). `Cached` says of every writer's row that it
is the linked chain of its events as far as the cache was filled (`RowAt`,
`LatestAt`, `BrokenAt`); a frame that is appended can only lengthen such a chain
(`RowGrows`), and a change of policy rebuilds the rows of its writers from the log
(`SyncRow`). `Closed` follows every seal of a committed policy through the whole ancestry
of the event it names (`SealedAt`), so that two committed seals of an author lie on one
path; that is what makes `SealsAgree` independent of the order of arrival. `Reservations`,
`ReservesOnce`, `Custody` and `Slot` speak of what was promised before it was
signed: each reservation is the next of its kind, and a home whose counter or head may
lag behind its signature is fenced or still owes the frame. `Spending` bounds the
frames on disk by the limits and the reserve. For `Reopens`, what `open` computes from the
disk (`Replayed`, a recursive function that closes policies as far as the image allows) is
compared with the session in memory: it is the number of policies already closed
(`ClosesAgain`), and each row comes out as it was (`RebuiltFacts`, `LiveIsRebuilt`). The
recursions of `Replayed` and of the walk through ancestors are shown to satisfy
their equations as `Made` is, by a least counterexample (`Climb`, `RunExists`).
`SignsSafely` and `SealsAreFinal` also hold parts about steps: `FencedStep` and
`SignStep` for a frame that is signed, and the growth of the ancestry for a seal.

Only model-checked: the liveness properties of every run (the prover has neither
fairness nor `ENABLED`), among them `Drains`, `HeadSettles` and
`TransitionFinishes`; `DecryptableOrder` of `DeliveryDriver` and `DurableFirst` of
`RoomNode`. `DecryptableOrder` is no theorem: the second finding refutes it for scripts
the `delivery_driver` run does not have. The `journal` run has one process beside
its reader, which is enough for every crash point; that any number of processes changes
nothing is what the theorems add.

## 5. What is not modelled

The first creation of a journal layout, of a store (`Store::create` is documented
as not to be resumed) and of a home; submissions and sync of the replica service;
the follower, replica, projection and sync protocol of direct rooms; discovery and room activity, whose stores repeat the publication
protocol of `SnapshotStore`; session nonces; the browser; codecs, keys and
cryptography, among them the group kernel beyond its epochs and receipts; command
parsing and presentation; vendored code, the executable harnesses under `verify/`,
prototypes, site and video. `PROJECT.json` gives the reason for each.

## 6. Plan

1. direct rooms: follower, replica and projection over the controller;
2. first open: layout of the journal, `Store::create`, genesis publication, and
   what a crash inside them leaves;
3. an abstract register for `SnapshotStore` (publish, forget an unreturned
   publication) and the store as its refinement;
4. proofs: `DurableFirst` of `RoomNode`, and `DecryptableOrder` once `deliver_ordered` compares
   a copy's own control;
5. replica service, session nonces, browser outbox.
