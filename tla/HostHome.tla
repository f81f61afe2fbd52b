------------------------------ MODULE HostHome ------------------------------
(***************************************************************************)
(* The home of a private host: its sealed configuration, the mailboxes it   *)
(* selects, and the drained transition from one mailbox generation to the   *)
(* next.                                                                    *)
(*   vhalla-cli/src/private_host/config.rs          seal and recovery       *)
(*   vhalla-cli/src/private_host/generation.rs      prepare, fence, cutover *)
(*   vhalla-cli/src/private_host/generation/publication.rs                  *)
(*   vhalla-cli/src/private_host.rs                 the commands, serve     *)
(*   vhalla-private-native/src/relay/{generation,generation_creation,mod,   *)
(*   tls/ledger}.rs                                 the mailbox stores      *)
(*                                                                          *)
(* A command holds maintenance.lock, reads the home once and then performs  *)
(* the file and database operations it decided on; todo is what is left of  *)
(* them. A process may die between any two operations and the power may     *)
(* fail. Files are DurableDir's; a mailbox database commits atomically.     *)
(*                                                                          *)
(* A configuration is [serial, gen, conn, leaf, token]: its age, the         *)
(* generation it selects and the contents its manifest commits to (token 0:  *)
(* none). A digest of a file is the file's content; the leaf stands for the  *)
(* certificate and its key, the token for one more client's.                 *)
(***************************************************************************)
EXTENDS Integers, Sequences, FiniteSets, DurableDir

CONSTANTS MaxGen,   \* generations after the first that any home has
          Orders,   \* the orders in which read_dir may list the backups
          Homes     \* the homes that are considered: see home, below

ASSUME HostAssumption ==
    /\ MaxGen \in 0..2
    /\ \A h \in Homes :
        /\ h.gens \in 0..MaxGen /\ {h.mutations, h.deaths, h.losses} \subseteq Nat
        /\ h.items \in Nat \ {0} /\ h.grants \subseteq Nat

VARIABLES dir,       \* the home directory
          cmd, todo, \* the running command and the operations it has left
          box,       \* the mailboxes, by generation
          up, sel,   \* the service runs; the generation it selected
          acked,     \* serial of the last configuration a command reported
          nonce,     \* sealed mutations begun: fresh keys, tokens, certificates
          deaths, losses,
          home       \* what is asked of the home; it never changes
vars == <<home, dir, cmd, todo, box, up, sel, acked, nonce, deaths, losses>>

LastGen      == home.gens        \* bound: generations after the first
MaxMutations == home.mutations   \* bound: sealed mutations other than a cutover
MaxDeaths    == home.deaths      \* bound: killed or failed commands
MaxLosses    == home.losses      \* bound: power losses
MaxItems     == home.items       \* a credential's items in one mailbox (max_items)
Grants       == home.grants      \* additional_items a plan may grant

Gens == 0..MaxGen
Record == [receipts |-> <<"receipts1", "receipts2">>, intent |-> <<"intent1", "intent2">>,
           fence |-> <<"fence1", "fence2">>]
Pending == "generation.pending"
Stage(n) == CASE n = Pending -> "pending.publish"
              [] n = "receipts1" -> "receipts1.publish" [] n = "receipts2" -> "receipts2.publish"
              [] n = "intent1" -> "intent1.publish" [] n = "intent2" -> "intent2.publish"
              [] n = "fence1" -> "fence1.publish" [] n = "fence2" -> "fence2.publish"
Records == {Pending} \cup UNION {{Record[k][g] : g \in 1..MaxGen} : k \in DOMAIN Record}
Data == {"conn", "leaf", "token"}
Backup(n) == CASE n = "config" -> "config.bak" [] n = "conn" -> "conn.bak"
               [] n = "leaf" -> "leaf.bak" [] n = "token" -> "token.bak"
Backups == {"config.bak", "conn.bak", "leaf.bak", "token.bak"}
Names == {"config", "complete", "seal"} \cup Data \cup Backups \cup Records \cup {Stage(n) : n \in Records}

\* What the files hold: configurations, the plans of transitions, marks and data.
Configs == [serial : Nat, gen : Gens, conn : Nat, leaf : Nat, token : Nat]
Plans   == [config : Configs, head : Nat, grant : Nat]

\* No content is the absence of a file, and read_dir lists every backup.
ASSUME FilesAssumption ==
    /\ Absent \notin Nat /\ Absent \notin Configs /\ Absent \notin Plans
    /\ Absent \notin {"files", "committing"}
    /\ \A order \in Orders :
          order \in Seq(Backups) /\ Backups \subseteq {order[i] : i \in DOMAIN order}

First == [serial |-> 0, gen |-> 0, conn |-> 1, leaf |-> 1, token |-> 0]
\* A mailbox: whether it exists and its ledger is seeded, its formats, the items
\* charged here and before, what is authorised, and its permanent fence.
NoBox == [phase |-> "absent", format |-> 2, ledger |-> 1, items |-> 0, prior |-> 0,
          authorized |-> 0, fence |-> Absent]

Init ==
    /\ home \in Homes
    /\ dir = Stored([n \in Names |-> IF n \in {"config", "complete"} THEN First
                                     ELSE IF n \in {"conn", "leaf"} THEN 1 ELSE Absent])
    /\ cmd = "none" /\ todo = <<>>
    /\ box = [g \in Gens |-> IF g = 0 THEN [NoBox EXCEPT !.phase = "seeded", !.authorized = MaxItems]
                             ELSE NoBox]
    /\ up = FALSE /\ sel = 0 /\ acked = 0 /\ nonce = 0 /\ deaths = 0 /\ losses = 0

-----------------------------------------------------------------------------
(* Operations and what they do to the files.                                *)

put(n, v) == [op |-> "put", name |-> n, value |-> v]
sync == [op |-> "sync"]
remove(n) == [op |-> "remove", name |-> n]
move(a, b) == [op |-> "move", name |-> a, value |-> b]
store(o, g, v) == [op |-> o, gen |-> g, value |-> v]
ack(c) == [op |-> "ack", value |-> c]

\* config::rewrite: the temporary file is synced before the rename, so the
\* name changes content at once; the directory sync makes it last.
rewrite(n, v) == <<put(n, v), sync>>

\* The names of a list, each with its content, one after the other.
rewrites(list) ==
    [i \in 1..(2 * Len(list)) |->
        IF i % 2 = 0 THEN sync ELSE put(list[(i + 1) \div 2][1], list[(i + 1) \div 2][2])]

\* The files after one operation and after a sequence of them.
After(m, o) == CASE o.op = "put" -> [m EXCEPT ![o.name] = o.value]
                 [] o.op = "remove" -> [m EXCEPT ![o.name] = Absent]
                 [] o.op = "move" -> [m EXCEPT ![o.value] = m[o.name], ![o.name] = Absent]
                 [] OTHER -> m
Done(m, ops) ==
    LET at[i \in 0..Len(ops)] == IF i = 0 THEN m ELSE After(at[i - 1], ops[i])
    IN at[Len(ops)]

-----------------------------------------------------------------------------
(* The sealed configuration.                                                *)

\* expected_files: the data files a configuration's manifest lists.
Listed(c) == IF c.token = 0 THEN Data \ {"token"} ELSE Data

\* config::load: the pair agrees and every listed file has its digest.
Loads(m) ==
    /\ m["config"] # Absent /\ m["complete"] = m["config"]
    /\ \A n \in Listed(m["config"]) : m[n] = m["config"][n]

\* The backups that are present; read_dir lists them in an order of its own.
HeldBackups(m) == {b \in Backups : m[b] # Absent}
Listing(m, order) ==
    LET held[i \in 0..Len(order)] ==
            IF i = 0 THEN <<>>
            ELSE IF m[order[i]] = Absent THEN held[i - 1] ELSE Append(held[i - 1], order[i])
    IN held[Len(order)]

\* remove_seal_scratch: the marker goes first and its absence is made durable
\* before any backup is removed.
remove_seal_scratch(m, order) ==
    (IF m["seal"] # Absent THEN <<remove("seal")>> ELSE <<>>) \o <<sync>>
    \o [i \in DOMAIN Listing(m, order) |-> remove(Listing(m, order)[i])] \o <<sync>>

Target(b) == CASE b = "config.bak" -> "config" [] b = "conn.bak" -> "conn"
               [] b = "leaf.bak" -> "leaf" [] b = "token.bak" -> "token"

\* restore_seal_backups: every backup is checked against the saved manifest,
\* then each is written over its name, then the seal is recomputed.
Restorable(m) == \A b \in HeldBackups(m) \ {"config.bak"} :
    Target(b) \in Listed(m["config.bak"]) /\ m[b] = m["config.bak"][Target(b)]
restore_seal_backups(m, order) ==
    LET held == Listing(m, order)
    IN rewrites([i \in DOMAIN held |-> <<Target(held[i]), m[held[i]]>>])
       \o rewrite("complete", m["config.bak"])

\* recover_seal: which of its cases holds, and what it then does.
Sealed(m) == m["config"] # Absent /\ m["complete"] = m["config"]
MustRestore(m) ==
    \/ m["seal"] = "files"
    \/ m["seal"] = "committing" /\ (~Sealed(m) \/ m["config"] = m["config.bak"])
Certain(m) ==
    IF m["seal"] = Absent THEN Sealed(m)
    ELSE m["config.bak"] # Absent /\ (MustRestore(m) => Restorable(m))
RestoreOps(m, order) == IF m["seal"] # Absent /\ MustRestore(m) THEN restore_seal_backups(m, order) ELSE <<>>
\* The operations of a recovery that succeeds; Recovers says that it does.
Recovers(m, order) == Certain(m) /\ Loads(Done(m, RestoreOps(m, order)))
recover_seal(m, order) == RestoreOps(m, order) \o remove_seal_scratch(m, order)

\* A sealed mutation from a home whose files are m: the configuration and the
\* files to be replaced are backed up and the marker says that the file phase
\* has begun; the files are replaced in turn; the marker moves to the commit
\* phase; then the configuration and its seal, and the scratch goes.
\* Mutant: the marker precedes the backups it vouches for.
saved(m, new) == [i \in DOMAIN new |-> <<Backup(new[i][1]), m[new[i][1]]>>]
begin_seal_early(m, new) ==
    rewrite("seal", "files") \o rewrite("config.bak", m["config"]) \o rewrites(saved(m, new))
begin_seal(m, new) ==
    rewrite("config.bak", m["config"]) \o rewrites(saved(m, new)) \o rewrite("seal", "files")
seal_files(new) == rewrites(new) \o rewrite("seal", "committing")
commit_seal(m, c, order) ==
    LET pair == rewrite("config", c) \o rewrite("complete", c)
    IN pair \o remove_seal_scratch(Done(m, pair), order)
Sealing(m, new, c, order) ==
    LET begun == begin_seal(m, new) \o seal_files(new)
    IN begun \o commit_seal(Done(m, begun), c, order)

-----------------------------------------------------------------------------
(* The commands. Each needs maintenance.lock, so no other command runs.     *)

Locked == cmd = "none"
\* A command starts with the operations ops.
Begin(c, ops) == cmd' = c /\ todo' = ops
require_idle(m) == m[Pending] = Absent

\* A mutation: recover the seal, load, and run it from the recovered files; it
\* asks whether a token is listed, gives the configuration a new serial and
\* fresh fields, writes pre before it begins and replaces the files of new.
Fresh == nonce + 2
Mutate(listed, fields, pre, new) ==
    /\ Locked /\ require_idle(dir.vis) /\ nonce < MaxMutations /\ nonce' = nonce + 1
    /\ \E order \in Orders :
          LET rec == recover_seal(dir.vis, order)
              m == Done(dir.vis, rec)
              c == m["config"]
              next == [f \in DOMAIN c |-> IF f \in fields THEN Fresh ELSE
                                           IF f = "serial" THEN c.serial + 1 ELSE c[f]]
          IN /\ Recovers(dir.vis, order) /\ (c.token # 0) \in listed
             /\ Begin("mutate", rec \o pre \o Sealing(Done(m, pre), new, next, order) \o <<ack(next)>>)
    /\ UNCHANGED <<dir, box, up, sel, acked, deaths, losses>>

\* renew: a new leaf under the retained CA, and the connection document.
Renew ==
    Mutate(BOOLEAN, {"leaf", "conn"}, <<>>, <<<<"leaf", Fresh>>, <<"conn", Fresh>>>>)
\* credential_lifecycle, revocation: only the manifest changes.
Revoke == Mutate(BOOLEAN, {}, <<>>, <<>>)
\* add_credential writes the unlisted token file first, then the manifest that
\* lists it; a replacement rewrites a listed token under the seal.
AddCredential == Mutate({FALSE}, {"token"}, rewrite("token", Fresh), <<>>)
ReplaceCredential == Mutate({TRUE}, {"token"}, <<>>, <<<<"token", Fresh>>>>)

\* recover: only the seal.
Recover ==
    /\ Locked
    /\ \E order \in Orders :
          /\ Recovers(dir.vis, order)
          /\ Begin("recover", recover_seal(dir.vis, order))
    /\ UNCHANGED <<dir, box, up, sel, acked, nonce, deaths, losses>>

\* publication::publish: an existing record must be the same and is synced; a
\* retained attempt must be the same and is completed; the rename publishes.
\* Mutant: a retained attempt is taken for damage.
PublishableStrict(m, n, v) == m[n] \in {Absent, v} /\ m[Stage(n)] = Absent
Publishable(m, n, v) == m[n] \in {Absent, v} /\ m[Stage(n)] \in {Absent, v}
publish(m, n, v) ==
    IF m[n] # Absent THEN <<sync>>
    ELSE (IF m[Stage(n)] = Absent THEN <<put(Stage(n), v), sync>> ELSE <<>>)
         \o <<move(Stage(n), n), sync>>

\* check with prepare: the plan names the present configuration and the drained
\* head, the successor's path is unused, and the records go out in this order.
Prepare ==
    /\ Locked /\ ~up /\ Loads(dir.vis) /\ require_idle(dir.vis)
    /\ \E grant \in Grants :
          LET c == dir.vis["config"]
              g == c.gen
              plan == [config |-> c, head |-> box[g].items, grant |-> grant]
              R(k) == Record[k][g + 1]
          IN /\ g < LastGen /\ box[g + 1].phase = "absent" /\ box[g].fence = Absent
             /\ Publishable(dir.vis, R("receipts"), plan)
             /\ Publishable(dir.vis, R("intent"), plan)
             /\ Publishable(dir.vis, Pending, plan)
             /\ Begin("prepare", publish(dir.vis, R("receipts"), plan)
                          \o publish(dir.vis, R("intent"), plan) \o publish(dir.vis, Pending, plan))
    /\ UNCHANGED <<dir, box, up, sel, acked, nonce, deaths, losses>>

\* pending(): the marker names the retained intent.
PendingPlan(m) == m[Pending]
PendingHolds(m) ==
    /\ m[Pending] # Absent
    /\ LET g == m[Pending].config.gen
       IN m[Record.intent[g + 1]] = m[Pending] /\ m[Record.receipts[g + 1]] = m[Pending]

\* fence: the mailbox still has the planned head; its formats are upgraded, the
\* fence is committed and its document published.
MayFence ==
    /\ Locked /\ ~up /\ Loads(dir.vis) /\ PendingHolds(dir.vis)
    /\ LET plan == PendingPlan(dir.vis)
           g == plan.config.gen
       IN /\ dir.vis["config"] = plan.config
          /\ box[g].items = plan.head
          /\ box[g].fence \in {Absent, plan}
          /\ Publishable(dir.vis, Record.fence[g + 1], plan)
Fence ==
    /\ MayFence
    /\ LET plan == PendingPlan(dir.vis)
           g == plan.config.gen
       IN Begin("fence", <<store("format", g, 3), store("ledger", g, 2), store("fence", g, plan)>>
                           \o publish(dir.vis, Record.fence[g + 1], plan))
    /\ UNCHANGED <<dir, box, up, sel, acked, nonce, deaths, losses>>

\* planned_selection: a function of the intent alone.
planned_selection(plan) ==
    [serial |-> plan.config.serial + 1, gen |-> plan.config.gen + 1,
     conn |-> 100 + plan.config.gen, leaf |-> plan.config.leaf, token |-> plan.config.token]

\* create_successor and initialize_successor: a marker bound to the intent, the
\* database, and the ledger seeded with the fenced predecessor's spend. A step
\* already taken for the same intent is not taken again.
\* Mutant: a database that exists is taken for a seeded one.
Unless(phases, o) == IF box[o.gen].phase \in phases THEN <<>> ELSE <<o>>
SuccessorTrusts(g, plan) ==
    Unless({"marked", "made", "seeded"}, store("marked", g + 1, plan))
    \o Unless({"made", "seeded"}, store("made", g + 1, plan))
    \o Unless({"made", "seeded"}, store("seeded", g + 1, plan))
Successor(g, plan) ==
    Unless({"marked", "made", "seeded"}, store("marked", g + 1, plan))
    \o Unless({"made", "seeded"}, store("made", g + 1, plan))
    \o Unless({"seeded"}, store("seeded", g + 1, plan))

\* cutover and generation-recover: finish the seal, the fence document, the
\* successor, the selection, and only then forget the pending marker. The
\* command line loads the home before it calls cutover.
MayCutover(order) ==
    /\ Locked /\ ~up /\ Loads(dir.vis) /\ PendingHolds(dir.vis)
    /\ Recovers(dir.vis, order)
    /\ LET plan == PendingPlan(dir.vis)
           g == plan.config.gen
           m == Done(dir.vis, recover_seal(dir.vis, order))
       IN /\ m["config"] \in {plan.config, planned_selection(plan)}
          /\ box[g].fence = plan /\ box[g].ledger = 2
          /\ Publishable(m, Record.fence[g + 1], plan)
Cutover == \E order \in Orders :
    /\ MayCutover(order)
    /\ LET plan == PendingPlan(dir.vis)
           g == plan.config.gen
           next == planned_selection(plan)
           rec == recover_seal(dir.vis, order)
           m == Done(dir.vis, rec)
           pub == publish(m, Record.fence[g + 1], plan)
       IN Begin("cutover", rec \o pub \o Successor(g, plan)
                             \o (IF m["config"].gen > g THEN <<>>
                                 ELSE Sealing(Done(m, pub), <<<<"conn", next.conn>>>>, next, order))
                             \o <<remove(Pending), sync, ack(next)>>)
    /\ UNCHANGED <<dir, box, up, sel, acked, nonce, deaths, losses>>

-----------------------------------------------------------------------------
(* One operation of the running command; its death; a power loss.           *)

\* The mailbox operations: maintenance transactions, each committed whole.
Seed(g, plan) ==
    [box[g] EXCEPT !.phase = "seeded", !.ledger = 2, !.prior = box[g - 1].prior + box[g - 1].items,
                   !.authorized = box[g - 1].authorized + plan.grant]
Committed(o) ==
    CASE o.op = "format" -> [box EXCEPT ![o.gen].format = 3]
      [] o.op = "ledger" -> [box EXCEPT ![o.gen].ledger = 2]
      [] o.op = "fence"  -> [box EXCEPT ![o.gen].fence = o.value]
      [] o.op = "marked" -> [box EXCEPT ![o.gen].phase = "marked"]
      [] o.op = "made"   -> [box EXCEPT ![o.gen].phase = "made", ![o.gen].format = 3]
      [] o.op = "seeded" -> [box EXCEPT ![o.gen] = Seed(o.gen, o.value)]
      [] OTHER -> box

Step ==
    /\ ~Locked /\ todo' = Tail(todo)
    /\ cmd' = IF Len(todo) = 1 THEN "none" ELSE cmd
    /\ LET o == Head(todo)
       IN /\ dir' = CASE o.op = "sync" -> SyncDir(dir)
                      [] o.op \in {"put", "remove", "move"} -> Update(dir, After(dir.vis, o), dir.dirty)
                      [] OTHER -> dir
          /\ box' = Committed(o)
          /\ acked' = IF o.op = "ack" THEN o.value.serial ELSE acked
    /\ UNCHANGED <<up, sel, nonce, deaths, losses>>

Die ==
    /\ ~Locked /\ deaths < MaxDeaths /\ deaths' = deaths + 1
    /\ Begin("none", <<>>)
    /\ UNCHANGED <<dir, box, up, sel, acked, nonce, losses>>

PowerLoss ==
    /\ losses < MaxLosses /\ losses' = losses + 1
    /\ Cardinality(dir.disk) > 1 \/ ~Locked
    /\ dir' \in PowerLossOutcomes(dir) /\ Begin("none", <<>>) /\ up' = FALSE
    /\ UNCHANGED <<box, sel, acked, nonce, deaths>>

-----------------------------------------------------------------------------
(* The service.                                                             *)

\* validate_retained: an earlier generation is served only with its exact
\* intent, receipts, fence and fence document.
Retained(m, g) ==
    /\ m[Record.intent[g + 1]] # Absent
    /\ m[Record.receipts[g + 1]] = m[Record.intent[g + 1]]
    /\ m[Record.fence[g + 1]] = m[Record.intent[g + 1]]
    /\ box[g].fence = m[Record.intent[g + 1]]

\* serve: under the maintenance lock, with no transition pending and a whole home.
Serve ==
    /\ Locked /\ ~up /\ require_idle(dir.vis) /\ Loads(dir.vis)
    /\ \A g \in 0..(dir.vis["config"].gen - 1) : Retained(dir.vis, g)
    /\ box[dir.vis["config"].gen].phase = "seeded"
    /\ up' = TRUE /\ sel' = dir.vis["config"].gen
    /\ UNCHANGED <<dir, cmd, todo, box, acked, nonce, deaths, losses>>

StopServing ==
    /\ up /\ up' = FALSE
    /\ UNCHANGED <<dir, cmd, todo, box, sel, acked, nonce, deaths, losses>>

\* A PUT of a new item to generation g: the fence, the mailbox's allowance and,
\* in a cumulative ledger, what the credential spent before.
charge(g) ==
    /\ box[g].items < MaxItems
    /\ box[g].ledger = 2 => box[g].prior + box[g].items + 1 <= box[g].authorized
Put(g) ==
    /\ up /\ g <= sel /\ box[g].fence = Absent /\ charge(g)
    /\ box' = [box EXCEPT ![g].items = @ + 1]
    /\ UNCHANGED <<dir, cmd, todo, up, sel, acked, nonce, deaths, losses>>

-----------------------------------------------------------------------------
Operator == Renew \/ Revoke \/ AddCredential \/ ReplaceCredential \/ Recover \/ Prepare \/ Fence \/ Cutover
Next == /\ UNCHANGED home
        /\ Operator \/ Step \/ Die \/ PowerLoss \/ Serve \/ StopServing \/ \E g \in Gens : Put(g)
Spec == Init /\ [][Next]_vars

\* An operator who retries: a command that ran out of luck is run again, and a
\* pending transition is recovered, fenced and cut over.
FairSpec ==
    /\ Spec /\ WF_vars(UNCHANGED home /\ Step)
    /\ []<>(Locked /\ ~Loads(dir.vis)) => []<><<~Loads(dir.vis) /\ cmd' = "recover">>_cmd
    /\ []<>MayFence => []<><<cmd' = "fence">>_cmd
    /\ []<>(\E order \in Orders : MayCutover(order)) => []<><<cmd' = "cutover">>_cmd

-----------------------------------------------------------------------------
(* Properties.                                                              *)

TypeOK ==
    /\ DOMAIN dir.vis = Names /\ \A m \in dir.disk : DOMAIN m = Names
    /\ dir.vis["config"] \in Configs /\ dir.vis["seal"] \in {Absent, "files", "committing"}
    /\ \A g \in Gens : /\ box[g].phase \in {"absent", "marked", "made", "seeded"}
                       /\ box[g].items \in 0..MaxItems /\ box[g].format \in {2, 3} /\ box[g].ledger \in {1, 2}
    /\ cmd \in {"none", "mutate", "recover", "prepare", "fence", "cutover"}
    /\ up \in BOOLEAN /\ sel \in Gens /\ acked \in Nat
    /\ nonce \in 0..MaxMutations /\ deaths \in 0..MaxDeaths /\ losses \in 0..MaxLosses

\* Whatever a killed command or a power loss left of a sealed mutation, or of a
\* recovery of one, the next recovery is certain about it and ends in a home
\* that loads, in whatever order the directory lists the backups
\* (recover_seal never answers "sealed host recovery is uncertain").
AlwaysRecovers == Locked => \A order \in Orders : Recovers(dir.vis, order)

\* A configuration a command has reported (a renewal, a revocation, a
\* replacement, a cutover) is never undone: neither the home as it loads nor
\* what a recovery would restore is older than it.
ReportedStays ==
    \A m \in dir.disk, order \in Orders :
        Locked => Done(m, recover_seal(m, order))["config"].serial >= acked

\* A configuration that selects a successor is backed by its evidence: the
\* predecessor is fenced at the planned head, the intent, the receipts and the
\* fence document are published, and the successor's ledger is seeded.
SelectionHasEvidence ==
    \A g \in 0..(MaxGen - 1) :
        Loads(dir.vis) /\ dir.vis["config"].gen > g =>
            Retained(dir.vis, g) /\ box[g + 1].phase = "seeded"

\* The service never runs with two mailboxes that take new items, nor with none:
\* `serve` refuses between prepare and cutover, wherever commands died. (fence
\* acts on a marker that is visible, not durable: a power loss may forget it.)
OneOpenMailbox == up /\ losses = 0 => {g \in 0..sel : box[g].fence = Absent} = {sel}

\* A fence seals exactly what its plan drained: no item is accepted between the
\* check of the head and the fence, nor after it.
FenceIsTheDrain ==
    \A g \in Gens : box[g].fence # Absent =>
        box[g].items = box[g].fence.head /\ box[g].format = 3 /\ box[g].ledger = 2

\* A credential's spend follows it through the generations: together the
\* mailboxes hold no more than what enrolment and the granted allowances add up to.
Spent[g \in Gens] == box[g].items + IF g = 0 THEN 0 ELSE Spent[g - 1]
Granted[g \in Gens] ==
    IF g = 0 THEN MaxItems
    ELSE Granted[g - 1] + IF box[g - 1].fence = Absent THEN 0 ELSE box[g - 1].fence.grant
SpendIsCarried == \A g \in Gens : box[g].phase = "seeded" => Spent[g] <= Granted[g]

\* A transition whose marker is durable is finished: the successor is selected
\* and the marker is gone, after any number of bounded interruptions.
TransitionFinishes == \A g \in 0..(MaxGen - 1) :
    (\A m \in dir.disk : m[Pending] # Absent /\ m[Pending].config.gen = g)
        ~> (dir.vis[Pending] = Absent /\ dir.vis["config"].gen > g)

-----------------------------------------------------------------------------
(* The parts above together, as the run checks them.                       *)

\* A sealed mutation is whole or undone after any crash, and whole once reported.
SealIsWhole ==
    /\ TypeOK
    /\ AlwaysRecovers
    /\ ReportedStays

\* A generation is succeeded without a second open mailbox, a lost item or
\* forgotten spend, and selected only with its evidence.
SuccessionIsSafe ==
    /\ SelectionHasEvidence
    /\ OneOpenMailbox
    /\ FenceIsTheDrain
    /\ SpendIsCarried
=============================================================================
