--------------------------- MODULE DeliveryDriver ---------------------------
(***************************************************************************)
(* The delivery drivers of a private room.  Every device runs one: between *)
(* local commands it copies its kernel's outbox and owner controls into    *)
(* two durable queues, delivers both into the shared mailbox in the order  *)
(* of their epochs, stages the mailbox, applies what is staged to its      *)
(* kernel, and leaves one marker per position.                             *)
(*                                                                         *)
(* A device dies anywhere; its kernel, its queues, its staged prefix and   *)
(* its markers survive.  An action is at most one durable effect.  The     *)
(* queue's attempts are those of RelayDelivery, the staging that of        *)
(* RelayScan: here an attempt has an outcome and a scan a new head.        *)
(***************************************************************************)
EXTENDS Integers, Sequences, FiniteSets, SequencesExt, FiniteSetsExt

CONSTANTS Devices, Owner,
          Page,    \* PAGE: positions of a scan or an apply pass
          Rooms    \* the rooms that are considered: see room, below

Changes == {"control", "admit"}   \* commands that make an owner control

ASSUME DriverAssumption ==
    /\ IsFiniteSet(Devices) /\ Owner \in Devices
    /\ Page \in Nat \ {0}
    /\ \A r \in Rooms :
        /\ r.base \in [Devices -> Nat] /\ r.base[Owner] = 0
        /\ r.script \in [Devices -> Seq(Changes \cup {"app", "contact", "offer"})]
        /\ \A d \in Devices \ {Owner} : Changes \cap ToSet(r.script[d]) = {}
        /\ r.emits \subseteq Devices
        /\ r.jobs \in Nat \ {0}
        /\ {r.deaths, r.faults} \subseteq Nat

-----------------------------------------------------------------------------
(* Relay items.  epoch is the epoch of an application and the prior epoch  *)
(* of a control; a control moves epoch n to n + 1 and is number n + 1.     *)

Item(k, d, s, e, a) == [kind |-> k, from |-> d, seq |-> s, epoch |-> e, ack |-> a]
Control(n)  == Item("control", Owner, n, n - 1, <<>>)
Message(it) == <<it.from, it.seq>>

Relayed(it)   == it.kind # "offer"            \* relay_kind
IsControl(it) == it.kind \in {"control", "copy"}
IsReceipt(it) == it.ack # <<>>

\* A marker; 0 where it has no such field.
Marker(s, i, r) == [state |-> s, inbox |-> i, receipt |-> r]

\* What applied/ holds for a position: nothing, a scratch file, the marker.
\* A scratch that was cut before the state says nothing yet.
Nothing    == [at |-> "none"]
Blank      == [at |-> "scratch"]
Scratch(m) == [at |-> "pending", marker |-> m]
Final(m)   == [at |-> "json", marker |-> m]

-----------------------------------------------------------------------------
VARIABLES mailbox,   \* items at positions 1..; item and who put it first
          kernel,    \* kernel[d]: floor (= epoch), outbox, inbox
          disk,      \* disk[d]: the driver's queues, checkpoints, stage, markers
          mem,       \* mem[d]: the running driver
          done,      \* done[d]: local commands of the script that were run
          refused,   \* refused[d]: why the last launch ended, if it refused
          late,      \* history: positions of d that met clock trouble
          deaths, faults,
          room       \* the room this is about; it never changes

Base      == room.base      \* Base[d]: control floor at which d joined
Script    == room.script    \* Script[d]: the local commands of d, in order
Emits     == room.emits     \* devices whose profile has emit_acceptance
MaxJobs   == room.jobs      \* live jobs of a queue
MaxDeaths == room.deaths    \* bound: deaths of a driver
MaxFaults == room.faults    \* bound: lost replies, refusals and clock trouble

Floor == Max({Base[d] : d \in Devices})   \* everyone's floor at first

vars == <<room, mailbox, kernel, disk, mem, done, refused, late, deaths, faults>>

Positions == 1..Len(mailbox)
Mail(p)   == mailbox[p].item
Held(it)  == \E p \in Positions : Mail(p) = it

\* the running driver right after open_selected: everything is replayed
Launched(c, k) == [stage |-> "idle", out |-> c.out, cout |-> k, applied |-> 0,
                   ahead |-> {}, next |-> 1, visit |-> <<>>, busy |-> FALSE]
Down == [stage |-> "down", out |-> 0, cout |-> 0, applied |-> 0,
         ahead |-> {}, next |-> 1, visit |-> <<>>, busy |-> FALSE]

Init ==
    /\ room \in Rooms
    /\ mailbox = <<>>
    /\ kernel = [d \in Devices |-> [floor |-> Floor, outbox |-> <<>>, inbox |-> <<>>]]
    /\ disk = [d \in Devices |->
                 [jobs |-> <<>>, controls |-> <<>>, cp |-> [out |-> 0, applied |-> 0],
                  ccp |-> 0, staged |-> 0, marks |-> <<>>]]
    /\ mem = [d \in Devices |-> Down]
    /\ done = [d \in Devices |-> 0]
    /\ refused = [d \in Devices |-> "no"]
    /\ late = [d \in Devices |-> {}]
    /\ deaths = 0
    /\ faults = 0

-----------------------------------------------------------------------------
(* Reading the queues: jobs map sequences to states.                       *)

Live(q)   == Cardinality({s \in DOMAIN q : q[s] # "retained"})
Full(q)   == Live(q) >= MaxJobs
With(q, s, st) == [x \in DOMAIN q \cup {s} |-> IF x = s THEN st ELSE q[x]]
FirstUnretained(q) == {s \in DOMAIN q : /\ q[s] # "retained"
                                        /\ \A x \in DOMAIN q : x < s => q[x] = "retained"}

Stage(d) == mem[d].stage
At(d, s) == Stage(d) = s
Go(d, s) == mem' = [mem EXCEPT ![d].stage = s, ![d].visit = <<>>]

\* A launch that meets state it does not accept ends; why says what it was.
Refuse(d, why) ==
    /\ refused' = [refused EXCEPT ![d] = why]
    /\ mem' = [mem EXCEPT ![d] = Down]
    /\ UNCHANGED <<mailbox, kernel, disk, done, late, deaths, faults>>

worldVars == <<mailbox, kernel, done, refused, late, deaths, faults>>

-----------------------------------------------------------------------------
(* Local commands: the kernel's own transactions, between two ticks.       *)

Sent(d, k, a) == [kernel EXCEPT ![d].outbox =
                     Append(@, Item(k, d, Len(@) + 1, kernel[d].floor, a))]

\* the outbox record of a command: a removal, a renewal or a succession leaves
\* a copy of its control there, an admission the invitation of the new device
RecordKind(c) == CASE c = "control" -> "copy"
                   [] c = "admit" -> "contact"
                   [] OTHER -> c

\* the record, the control and the new epoch are one transaction
Local(d) ==
    /\ Stage(d) \in {"down", "idle"}
    /\ done[d] < Len(Script[d])
    /\ LET c == Script[d][done[d] + 1] IN
       kernel' = [Sent(d, RecordKind(c), <<>>) EXCEPT ![d].floor = IF c \in Changes THEN @ + 1 ELSE @]
    /\ done' = [done EXCEPT ![d] = @ + 1]
    /\ UNCHANGED <<mailbox, disk, mem, refused, late, deaths, faults>>

-----------------------------------------------------------------------------
(* Launch and tick.                                                        *)

\* applied_restore: the checkpoint claims no more than the markers show
Restores(d) ==
    LET marked == {p \in DOMAIN disk[d].marks : disk[d].marks[p].at = "json"} IN
    /\ marked \subseteq 1..disk[d].staged
    /\ 1..disk[d].cp.applied \subseteq marked

\* boundary of catch_up and of catch_up_controls: a record at a watermark
\* has its job
Boundaries(d) ==
    /\ \/ disk[d].cp.out = 0
       \/ /\ disk[d].cp.out <= Len(kernel[d].outbox)
          /\ \/ ~Relayed(kernel[d].outbox[disk[d].cp.out])
             \/ disk[d].cp.out \in DOMAIN disk[d].jobs
    /\ disk[d].ccp > Base[d] => /\ disk[d].ccp <= kernel[d].floor
                                /\ disk[d].ccp \in DOMAIN disk[d].controls

Open(d) ==
    /\ At(d, "down")
    /\ IF Restores(d) /\ Boundaries(d)
       THEN /\ mem' = [mem EXCEPT ![d] = Launched(disk[d].cp, disk[d].ccp)]
            /\ UNCHANGED <<disk, worldVars>>
       ELSE Refuse(d, "evidence")

BeginTick(d) ==
    /\ At(d, "idle")
    /\ Go(d, "fill")
    /\ UNCHANGED <<disk, worldVars>>

\* save: the replay of a launch never lowers the durable watermark
Saves(d) ==
    /\ disk' = [disk EXCEPT ![d].cp =
                  [out |-> mem[d].out, applied |-> Max({mem[d].applied, disk[d].cp.applied})]]
    /\ Go(d, "idle")

Save(d) ==
    /\ At(d, "apply")
    /\ mem[d].visit = <<>>
    /\ Saves(d)
    /\ UNCHANGED worldVars

\* the deadline of the tick passes: the stages that are left only save
Late(d) ==
    /\ Stage(d) \in {"fill", "poll", "apply"}
    /\ ~mem[d].busy
    /\ faults < MaxFaults
    /\ faults' = faults + 1
    /\ Saves(d)
    /\ UNCHANGED <<mailbox, kernel, done, refused, late, deaths>>

-----------------------------------------------------------------------------
(* catch_up_controls: one control, its job first and its checkpoint second *)

Saved(d, n) ==
    /\ mem' = [mem EXCEPT ![d].cout = n]
    /\ disk' = [disk EXCEPT ![d].ccp = n]

CatchUpBase(d) ==
    /\ At(d, "fill")
    /\ mem[d].cout = 0
    /\ Base[d] # 0
    /\ Saved(d, Base[d])
    /\ UNCHANGED worldVars

EnqueueControl(d) ==
    /\ At(d, "fill")
    /\ mem[d].cout >= Base[d]
    /\ mem[d].cout < kernel[d].floor
    /\ mem[d].cout + 1 \notin DOMAIN disk[d].controls
    /\ ~Full(disk[d].controls)
    /\ disk' = [disk EXCEPT ![d].controls = With(@, mem[d].cout + 1, "pending")]
    /\ UNCHANGED <<mem, worldVars>>

SaveControl(d) ==
    /\ At(d, "fill")
    /\ mem[d].cout < kernel[d].floor
    /\ mem[d].cout + 1 \in DOMAIN disk[d].controls
    /\ Saved(d, mem[d].cout + 1)
    /\ UNCHANGED worldVars

ControlsFilled(d) ==
    /\ mem[d].cout >= Base[d]
    /\ \/ mem[d].cout = kernel[d].floor
       \/ mem[d].cout + 1 \notin DOMAIN disk[d].controls /\ Full(disk[d].controls)

-----------------------------------------------------------------------------
(* catch_up: one outbox record; the watermark is saved with the tick.      *)

NextRecord(d) == kernel[d].outbox[mem[d].out + 1]
Queued(d) == ~Relayed(NextRecord(d)) \/ mem[d].out + 1 \in DOMAIN disk[d].jobs

CatchUp(d) ==
    /\ At(d, "fill") /\ ControlsFilled(d)
    /\ mem[d].out < Len(kernel[d].outbox)
    /\ Queued(d) \/ ~Full(disk[d].jobs)
    /\ mem' = [mem EXCEPT ![d].out = @ + 1]
    /\ disk' = IF Queued(d) THEN disk
               ELSE [disk EXCEPT ![d].jobs = With(@, mem[d].out + 1, "pending")]
    /\ UNCHANGED worldVars

\* both queues hold all they can: deliver_ordered may choose
Filled(d) ==
    /\ At(d, "fill")
    /\ ControlsFilled(d)
    /\ \/ mem[d].out = Len(kernel[d].outbox)
       \/ mem[d].out < Len(kernel[d].outbox) /\ ~Queued(d) /\ Full(disk[d].jobs)

-----------------------------------------------------------------------------
(* deliver_ordered: at most one item per step, then the queues are         *)
(* refilled.  The oldest job of each queue is merged by its epoch.         *)

Normal(d)  == FirstUnretained(disk[d].jobs)
Pending(d) == FirstUnretained(disk[d].controls)

\* the application was sent after the control's epoch change, or is its copy
Follows(it, n) == \/ it.kind = "app" /\ it.epoch > n - 1
                  \/ it.kind = "copy"

\* Mutant: a control waits until every record is queued.
UseControlDrained(d) ==
    /\ Pending(d) # {}
    /\ mem[d].out = Len(kernel[d].outbox)
    /\ \A s \in Normal(d), n \in Pending(d) : Follows(kernel[d].outbox[s], n)

UseControl(d) ==
    /\ Pending(d) # {}
    /\ IF Normal(d) = {} THEN mem[d].out = Len(kernel[d].outbox)
       ELSE \A s \in Normal(d), n \in Pending(d) : Follows(kernel[d].outbox[s], n)

UseNormal(d) ==
    /\ Normal(d) # {}
    /\ IF Pending(d) = {} THEN mem[d].cout = kernel[d].floor
       ELSE \A s \in Normal(d), n \in Pending(d) : ~Follows(kernel[d].outbox[s], n)

\* the chosen job: its queue, its sequence and its item
Chosen(d) == {[queue |-> "controls", seq |-> n, item |-> Control(n)] :
                 n \in {x \in Pending(d) : UseControl(d)}}
       \cup {[queue |-> "jobs", seq |-> s, item |-> kernel[d].outbox[s]] :
                 s \in {x \in Normal(d) : UseNormal(d)}}

\* put_staged: an item that is there already keeps its position
Put(d, it) == mailbox' = IF Held(it) THEN mailbox ELSE Append(mailbox, [item |-> it, by |-> d])
Settle(d, c, st) == disk' = [disk EXCEPT ![d][c.queue] = With(@, c.seq, st)]

InOrder(d) == \A s \in Normal(d) : s <= mem[d].out

\* the loop refills the queues and goes on
Retain(d) ==
    /\ Filled(d)
    /\ InOrder(d)
    /\ \E c \in Chosen(d) :
          /\ disk[d][c.queue][c.seq] = "pending"
          /\ Put(d, c.item)
          /\ Settle(d, c, "retained")
    /\ UNCHANGED <<kernel, mem, done, refused, late, deaths, faults>>

\* no receipt: the item is in the mailbox or not, the job waits or is stopped
Unsettled(d) ==
    /\ Filled(d)
    /\ InOrder(d)
    /\ faults < MaxFaults
    /\ faults' = faults + 1
    /\ \E c \in Chosen(d) :
          /\ disk[d][c.queue][c.seq] = "pending"
          /\ Put(d, c.item) \/ UNCHANGED mailbox
          /\ \E st \in {"pending", "stopped"} : Settle(d, c, st)
    /\ Go(d, "poll")
    /\ UNCHANGED <<kernel, done, refused, late, deaths>>

\* the operator re-arms the stopped jobs of a queue
Resume(d) ==
    /\ Stage(d) \in {"down", "idle"}
    /\ \E q \in {"jobs", "controls"} :
          /\ \E s \in DOMAIN disk[d][q] : disk[d][q][s] = "stopped"
          /\ disk' = [disk EXCEPT ![d][q] =
                        [s \in DOMAIN @ |-> IF @[s] = "stopped" THEN "pending" ELSE @[s]]]
    /\ UNCHANGED <<mem, worldVars>>

-----------------------------------------------------------------------------
(* poll: the staged prefix grows by a page, or the relay does not answer.  *)

\* Mutant: the window is walked from its end.
RoundRobinNewest(a, h, n) ==
    IF a >= h THEN <<>> ELSE [i \in 1..Min({Page, h - a}) |-> h - i + 1]

\* round_robin: a circular window over what is staged and not applied
RoundRobin(a, h, n) ==
    LET start == IF n \in (a + 1)..h THEN n ELSE a + 1
        order == [i \in 1..(h - start + 1) |-> start + i - 1]
              \o [i \in 1..(start - a - 1) |-> a + i]
    IN IF a >= h THEN <<>> ELSE SubSeq(order, 1, Min({Page, Len(order)}))

Polled(d, h) ==
    /\ disk' = [disk EXCEPT ![d].staged = h]
    /\ mem' = [mem EXCEPT ![d].stage = "apply",
                          ![d].visit = RoundRobin(mem[d].applied, h, mem[d].next)]

\* deliver_ordered returns: nothing may be chosen or the chosen job is stopped
Delivered(d) ==
    \/ At(d, "poll")
    \/ Filled(d) /\ \A c \in Chosen(d) : disk[d][c.queue][c.seq] = "stopped"
    \/ Filled(d) /\ ~InOrder(d)

Poll(d) ==
    /\ Delivered(d)
    /\ IF InOrder(d)
       THEN /\ Polled(d, Min({disk[d].staged + Page, Len(mailbox)}))
            /\ UNCHANGED worldVars
       ELSE Refuse(d, "order")

PollFails(d) ==
    /\ Delivered(d)
    /\ InOrder(d)
    /\ disk[d].staged < Len(mailbox)
    /\ faults < MaxFaults
    /\ faults' = faults + 1
    /\ Polled(d, disk[d].staged)
    /\ UNCHANGED <<mailbox, kernel, done, refused, late, deaths>>

-----------------------------------------------------------------------------
(* apply: one staged position.  The kernel commits first, the marker says  *)
(* so afterwards; both are repeated after a death in between.              *)

\* own_echo
Echo(d, it) ==
    \/ it.kind = "control" /\ it.seq \in DOMAIN disk[d].controls
    \/ it.kind # "control" /\ it.from = d /\ it.seq \in DOMAIN disk[d].jobs
    \/ it.kind = "app" /\ it.from = d

Inboxed(d, it)  == {i \in DOMAIN kernel[d].inbox : kernel[d].inbox[i] = Message(it)}
Number(it) == it.epoch + 1

\* the receipt that the operation of this message has made, if any
Receipts(d, it) == {s \in DOMAIN kernel[d].outbox : kernel[d].outbox[s].ack = Message(it)}

Owes(d, it) == d \in Emits /\ ~IsReceipt(it)

\* process: the marker of an item whose kernel effects are all committed
When(c, m) == IF c THEN {m} ELSE {}

Reading(d, it) ==
    CASE ~IsReceipt(it) -> "received"
      [] IsReceipt(it) /\ it.ack[1] = d -> "claim"
      [] OTHER -> "unmatched"

ControlVerdict(d, it) ==
    When(Number(it) <= Base[d], Marker("predates", 0, 0))
    \cup When(Number(it) \in (Base[d] + 1)..kernel[d].floor, Marker("control", 0, 0))

AppVerdict(d, it) ==
    When(Inboxed(d, it) = {} /\ it.epoch < kernel[d].floor, Marker("stale", 0, 0))
    \cup {Marker(Reading(d, it), i, r) :
             i \in Inboxed(d, it), r \in IF Owes(d, it) THEN Receipts(d, it) ELSE {0}}

Verdict(d, it) ==
    CASE Echo(d, it) -> {Marker("echo", 0, 0)}
      [] ~Echo(d, it) /\ IsControl(it) -> ControlVerdict(d, it)
      [] ~Echo(d, it) /\ it.kind = "app" -> AppVerdict(d, it)
      [] OTHER -> {Marker("bootstrap", 0, 0)}

\* Mutant: a marker of a control is refused once its control is queued here.
MarkerHoldsForeign(d, it, m) ==
    /\ m.state = "control" => ~Echo(d, it)
    /\ \/ m.state # "control"
       \/ IsControl(it) /\ Number(it) \in (Base[d] + 1)..kernel[d].floor

\* applied::validate and restore_marker, which read evidence and change none
MarkerHolds(d, it, m) ==
    \/ m.state = "echo" /\ Echo(d, it)
    \/ /\ m.state \in {"received", "claim", "unmatched"}
       /\ it.kind = "app" /\ ~Echo(d, it)
       /\ m.state = Reading(d, it)
       /\ m.inbox \in Inboxed(d, it)
       /\ Owes(d, it) => m.receipt \in Receipts(d, it)
    \/ m.state = "control" /\ IsControl(it) /\ Number(it) \in (Base[d] + 1)..kernel[d].floor
    \/ m.state = "predates" /\ IsControl(it) /\ ~Echo(d, it)
    \/ m.state = "stale" /\ it.kind = "app" /\ ~Echo(d, it)
    \/ m.state = "bootstrap" /\ it.kind = "contact" /\ ~Echo(d, it)

Mark(d, p) == IF p \in DOMAIN disk[d].marks THEN disk[d].marks[p] ELSE Nothing
Leave(d, p, f) == disk' = [disk EXCEPT ![d].marks = With(@, p, f)]

\* applied::publish completes a scratch file only if it is a prefix
Replays(d, p, m) == Mark(d, p) \in {Nothing, Blank, Scratch(m)}

\* the position in hand, and the step to the next one
Here(d, p) == At(d, "apply") /\ mem[d].visit # <<>> /\ p = Head(mem[d].visit)
Visited(d, a) == [mem EXCEPT ![d].visit = Tail(@), ![d].next = Head(mem[d].visit) + 1,
                             ![d].busy = FALSE, ![d].applied = a.applied, ![d].ahead = a.ahead]
Same(d) == [applied |-> mem[d].applied, ahead |-> mem[d].ahead]

\* complete
Complete(d, p) ==
    LET all == {x \in mem[d].ahead \cup {p} : x > mem[d].applied}
        a   == Max({n \in {mem[d].applied} \cup all : (mem[d].applied + 1)..n \subseteq all})
    IN [applied |-> a, ahead |-> {x \in all : x > a}]

PassOver(d) == \E p \in Positions :
    /\ Here(d, p)
    /\ p \in mem[d].ahead
    /\ mem' = Visited(d, Same(d))
    /\ UNCHANGED <<disk, worldVars>>

Unmarked(d, p) == Here(d, p) /\ p \notin mem[d].ahead /\ Mark(d, p).at # "json"

Restore(d) == \E p \in Positions :
    /\ Here(d, p)
    /\ p \notin mem[d].ahead
    /\ Mark(d, p).at = "json"
    /\ IF MarkerHolds(d, Mail(p), Mark(d, p).marker)
       THEN mem' = Visited(d, Complete(d, p)) /\ UNCHANGED <<disk, worldVars>>
       ELSE Refuse(d, "marker")

\* What the kernel would commit for an item, and what it says of the others.
MayReceive(d, it) == /\ ~Echo(d, it) /\ it.kind = "app"
                     /\ Inboxed(d, it) = {} /\ it.epoch = kernel[d].floor
MayIssue(d, it)   == /\ ~Echo(d, it) /\ it.kind = "app" /\ Owes(d, it)
                     /\ Inboxed(d, it) # {} /\ Receipts(d, it) = {}
MayControl(d, it) == /\ ~Echo(d, it) /\ IsControl(it) /\ d # Owner
                     /\ Number(it) = kernel[d].floor + 1
Gap(d, it) == ~Echo(d, it) /\ \/ it.kind = "app" /\ Inboxed(d, it) = {} /\ it.epoch > kernel[d].floor
                              \/ IsControl(it) /\ Number(it) > kernel[d].floor + 1

Commit(d, k) ==
    /\ kernel' = k
    /\ mem' = [mem EXCEPT ![d].busy = TRUE]
    /\ UNCHANGED <<mailbox, disk, done, refused, late, deaths, faults>>

Receive(d) == \E p \in Positions :
    /\ Unmarked(d, p) /\ MayReceive(d, Mail(p))
    /\ Commit(d, [kernel EXCEPT ![d].inbox = Append(@, Message(Mail(p)))])

IssueAcceptance(d) == \E p \in Positions :
    /\ Unmarked(d, p) /\ MayIssue(d, Mail(p))
    /\ Commit(d, Sent(d, "app", Message(Mail(p))))

ApplyControl(d) == \E p \in Positions :
    /\ Unmarked(d, p) /\ MayControl(d, Mail(p))
    /\ Commit(d, [kernel EXCEPT ![d].floor = @ + 1])

\* a gap of epochs, controls or the clock: the position is tried again later
Defer(d) == \E p \in Positions :
    /\ Unmarked(d, p)
    /\ \/ Gap(d, Mail(p)) /\ UNCHANGED <<late, faults>>
       \/ /\ MayReceive(d, Mail(p)) \/ MayIssue(d, Mail(p)) \/ MayControl(d, Mail(p))
          /\ faults < MaxFaults
          /\ faults' = faults + 1
          /\ late' = [late EXCEPT ![d] = @ \cup {p}]
    /\ mem' = Visited(d, Same(d))
    /\ UNCHANGED <<mailbox, kernel, disk, done, refused, deaths>>

Publish(d) == \E p \in Positions : \E m \in Verdict(d, Mail(p)) :
    /\ Unmarked(d, p)
    /\ IF Replays(d, p, m)
       THEN /\ Leave(d, p, Final(m))
            /\ mem' = Visited(d, Complete(d, p))
            /\ UNCHANGED worldVars
       ELSE Refuse(d, "scratch")

-----------------------------------------------------------------------------
\* a death, a storage error or an expired launch; inside publish it leaves
\* the scratch file or the marker, whole or cut
Die(d) ==
    /\ Stage(d) # "down"
    /\ deaths < MaxDeaths
    /\ deaths' = deaths + 1
    /\ mem' = [mem EXCEPT ![d] = Down]
    /\ \/ UNCHANGED disk
       \/ \E p \in Positions : \E m \in Verdict(d, Mail(p)) :
             /\ Unmarked(d, p) /\ Replays(d, p, m)
             /\ \E f \in {Blank, Scratch(m), Final(m)} :
                   /\ f = Blank => Mark(d, p) = Nothing
                   /\ Leave(d, p, f)
    /\ UNCHANGED <<mailbox, kernel, done, refused, late, faults>>

Step(d) == \/ BeginTick(d) \/ CatchUpBase(d) \/ EnqueueControl(d) \/ SaveControl(d)
           \/ CatchUp(d) \/ Retain(d) \/ Poll(d)
           \/ PassOver(d) \/ Restore(d) \/ Receive(d) \/ IssueAcceptance(d)
           \/ ApplyControl(d) \/ Defer(d) \/ Publish(d) \/ Save(d)

Act(d) == \/ Open(d) \/ Step(d)
          \/ Local(d) \/ Resume(d)
          \/ Late(d) \/ Unsettled(d) \/ PollFails(d) \/ Die(d)

Next == UNCHANGED room /\ \E d \in Devices : Act(d)

Spec == Init /\ [][Next]_vars

\* a launch is opened again, a tick goes on, commands are given, jobs re-armed
Fairness == \A d \in Devices :
    /\ WF_vars(UNCHANGED room /\ Open(d)) /\ WF_vars(UNCHANGED room /\ Step(d))
    /\ SF_vars(UNCHANGED room /\ Local(d)) /\ SF_vars(UNCHANGED room /\ Resume(d))
LiveSpec == Spec /\ Fairness

-----------------------------------------------------------------------------
(* Properties                                                              *)

JobStates == {"pending", "stopped", "retained"}
MarkStates == {"echo", "received", "claim", "unmatched", "control", "predates", "stale", "bootstrap"}

\* Types; a mailbox holds no item twice, and staged is a prefix of it.
TypeOK ==
    /\ \A p, q \in Positions : Mail(p) = Mail(q) => p = q
    /\ \A d \in Devices :
        /\ kernel[d].floor \in Base[d]..kernel[Owner].floor
        /\ \A s \in DOMAIN kernel[d].outbox : kernel[d].outbox[s].seq = s
        /\ DOMAIN disk[d].jobs \subseteq DOMAIN kernel[d].outbox
        /\ DOMAIN disk[d].controls \subseteq (Base[d] + 1)..kernel[d].floor
        /\ \A s \in DOMAIN disk[d].jobs : disk[d].jobs[s] \in JobStates
        /\ \A s \in DOMAIN disk[d].controls : disk[d].controls[s] \in JobStates
        /\ disk[d].staged \in 0..Len(mailbox)
        /\ \A p \in DOMAIN disk[d].marks :
              \/ disk[d].marks[p] = Blank
              \/ disk[d].marks[p].marker.state \in MarkStates
        /\ mem[d].applied \in 0..disk[d].staged
    /\ deaths \in 0..MaxDeaths /\ faults \in 0..MaxFaults

\* A relaunch accepts what its own earlier launches left behind, wherever
\* they died: no watermark without its job or its markers, no marker that
\* restore_marker would not confirm, no job ahead of the outbox watermark.
AcceptsItself == \A d \in Devices : refused[d] \in {"no", "scratch"}

\* Nothing is passed over: below the saved outbox and control watermarks
\* every relayed record has its job, below the applied one every position
\* its marker, and a retained job has its item in the mailbox.
NothingPassedOver == \A d \in Devices :
    /\ \A s \in 1..disk[d].cp.out :
          Relayed(kernel[d].outbox[s]) => s \in DOMAIN disk[d].jobs
    /\ (Base[d] + 1)..disk[d].ccp \subseteq DOMAIN disk[d].controls
    /\ \A p \in 1..disk[d].cp.applied : Mark(d, p).at = "json"
    /\ \A s \in DOMAIN disk[d].jobs :
          disk[d].jobs[s] = "retained" => Held(kernel[d].outbox[s])

Before(p, it) == \E q \in Positions : q < p /\ Mail(q) = it

\* The mailbox has a sender's items in the order of their epochs: an
\* application follows the controls it depends on, and a control that this
\* device put there follows every application it sent under an older epoch.
EpochOrder == \A p \in Positions :
    /\ Mail(p).kind = "app" =>
          \A n \in (Base[Mail(p).from] + 1)..Mail(p).epoch : Before(p, Control(n))
    /\ Mail(p).kind = "control" =>
          LET d == mailbox[p].by IN
          \A s \in DOMAIN kernel[d].outbox :
             LET it == kernel[d].outbox[s] IN
             it.kind = "app" /\ it.epoch < Number(Mail(p)) => Before(p, it)

\* The owner's messages are not lost to the owner's own controls: a member
\* gives one up as stale only if it met clock trouble while it held it.
OwnerIsHeard == \A d \in Devices \ {Owner} : \A p \in DOMAIN disk[d].marks :
    /\ disk[d].marks[p].at = "json"
    /\ disk[d].marks[p].marker.state = "stale"
    /\ Mail(p).from = Owner
    => p \in late[d]

\* A receipt is issued once, whatever is repeated after a death, only for a
\* message in the inbox, and a sender's claim marker names such a receipt.
ReceiptsAreTrue == \A d \in Devices :
    /\ \A s, t \in DOMAIN kernel[d].outbox :
          LET a == kernel[d].outbox[s].ack IN
          a # <<>> => /\ a \in ToSet(kernel[d].inbox)
                      /\ kernel[d].outbox[t].ack = a => s = t
    /\ \A m \in ToSet(kernel[d].inbox) :
          m \in {Message(Mail(p)) : p \in {q \in Positions : Mail(q).kind = "app"}}
    /\ IsInjective(kernel[d].inbox)

Quiet == /\ \A d \in Devices :
              /\ done[d] = Len(Script[d])
              /\ \A s \in DOMAIN kernel[d].outbox :
                    Relayed(kernel[d].outbox[s]) => Held(kernel[d].outbox[s])
              /\ \A p \in Positions : Mark(d, p).at = "json"
              /\ kernel[d].floor = kernel[Owner].floor

\* applied::publish refuses, at every launch, the scratch file that a launch
\* left of a marker which the position's item no longer gets.
Refusing == \E d \in Devices : refused[d] = "scratch"

\* Everything that was sent is delivered and everything delivered is marked,
\* on every device, deferred positions and full queues included, unless a
\* device meets such a scratch file.
Converges == <>(Quiet \/ Refusing)

-----------------------------------------------------------------------------
(* The parts above together, as the run checks them.                       *)

\* A relaunched driver accepts the evidence it wrote, has passed over nothing,
\* and what its receipts say was received and decrypted.
EvidenceIsTrue ==
    /\ TypeOK
    /\ AcceptsItself
    /\ NothingPassedOver
    /\ ReceiptsAreTrue

\* Two queues feed one mailbox and its order still lets every device decrypt.
DecryptableOrder ==
    /\ EpochOrder
    /\ OwnerIsHeard
=============================================================================
