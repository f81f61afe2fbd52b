----------------------- MODULE DeliveryDriverProofs -----------------------
(***************************************************************************)
(* What the delivery drivers of a room keep, for any number of devices,    *)
(* commands, controls, deaths and faults: a relaunched driver accepts the  *)
(* evidence it wrote, has passed over nothing, and its receipts are true.  *)
(***************************************************************************)
EXTENDS DeliveryDriver, FiniteSetTheorems, SequenceTheorems, WellFoundedInduction, TLAPS

-----------------------------------------------------------------------------
(* The state, typed.                                                       *)

Acks    == {<<>>} \cup (Devices \X Nat)
Kinds   == {"control", "copy", "contact", "app", "offer"}
Items   == [kind : Kinds, from : Devices, seq : Nat, epoch : Nat, ack : Acks]
Letters == [item : Items, by : Devices]
Markers == [state : MarkStates, inbox : Nat, receipt : Nat]
Files   == {Blank} \cup {Scratch(m) : m \in Markers} \cup {Final(m) : m \in Markers}
Queues  == UNION {[S -> JobStates] : S \in SUBSET Nat}
Shelves == UNION {[S -> Files] : S \in SUBSET Nat}
Stages  == {"down", "idle", "fill", "poll", "apply"}
Kernels == [floor : Nat, outbox : Seq(Items), inbox : Seq(Devices \X Nat)]
Disks   == [jobs : Queues, controls : Queues, cp : [out : Nat, applied : Nat],
            ccp : Nat, staged : Nat, marks : Shelves]
Mems    == [stage : Stages, out : Nat, cout : Nat, applied : Nat, ahead : SUBSET Nat,
            next : Nat, visit : Seq(Nat), busy : BOOLEAN]

Types ==
    /\ room \in Rooms
    /\ mailbox \in Seq(Letters)
    /\ kernel \in [Devices -> Kernels]
    /\ disk \in [Devices -> Disks]
    /\ mem \in [Devices -> Mems]
    /\ done \in [Devices -> Nat]
    /\ refused \in [Devices -> {"no", "scratch"}]
    /\ deaths \in 0..MaxDeaths
    /\ faults \in 0..MaxFaults

-----------------------------------------------------------------------------
(* The inductive invariant: what each device's kernel, queues, memory and  *)
(* markers say of each other and of the mailbox.                           *)

Json(d) == {p \in DOMAIN disk[d].marks : disk[d].marks[p].at = "json"}

\* the outbox counts its records, which only an owner makes copies of
Sends(d) == \A s \in 1..Len(kernel[d].outbox) :
    LET it == kernel[d].outbox[s] IN
    /\ it.seq = s /\ it.from = d /\ it.kind # "control"
    /\ it.kind = "copy" => d = Owner /\ it.epoch < kernel[d].floor

\* receipts and receptions, and where they come from
Hears(d) ==
    /\ \A s, t \in 1..Len(kernel[d].outbox) :
          kernel[d].outbox[s].ack # <<>> =>
             /\ kernel[d].outbox[s].ack \in ToSet(kernel[d].inbox)
             /\ kernel[d].outbox[t].ack = kernel[d].outbox[s].ack => s = t
    /\ \A i \in 1..Len(kernel[d].inbox) : \E p \in Positions :
          Mail(p).kind = "app" /\ kernel[d].inbox[i] = Message(Mail(p))
    /\ \A i, j \in 1..Len(kernel[d].inbox) : kernel[d].inbox[i] = kernel[d].inbox[j] => i = j

KernelHolds(d) ==
    /\ kernel[d].floor >= Base[d] /\ kernel[d].floor <= kernel[Owner].floor
    /\ Sends(d)
    /\ Hears(d)

\* up to the watermark n every relayed record has its job
Covers(d, n) == /\ n <= Len(kernel[d].outbox)
                /\ \A s \in 1..n : Relayed(kernel[d].outbox[s]) => s \in DOMAIN disk[d].jobs

QueuesHold(d) ==
    /\ \A s \in DOMAIN disk[d].jobs :
          /\ s > 0 /\ Covers(d, s) /\ Relayed(kernel[d].outbox[s])
          /\ disk[d].jobs[s] = "retained" => Held(kernel[d].outbox[s])
    /\ DOMAIN disk[d].controls \subseteq (Base[d] + 1)..kernel[d].floor
    /\ Covers(d, disk[d].cp.out)
    /\ (Base[d] + 1)..disk[d].ccp \subseteq DOMAIN disk[d].controls

MemHolds(d) ==
    /\ Covers(d, mem[d].out)
    /\ (Base[d] + 1)..mem[d].cout \subseteq DOMAIN disk[d].controls
    /\ mem[d].stage = "poll" => \A s \in DOMAIN disk[d].jobs : s <= mem[d].out
    /\ 1..mem[d].applied \subseteq Json(d)
    /\ mem[d].ahead \subseteq Json(d)
    /\ \A i \in 1..Len(mem[d].visit) : mem[d].visit[i] \in 1..disk[d].staged

\* a marker that restore_marker confirms, and goes on confirming
Sound(d, it, m) ==
    /\ MarkerHolds(d, it, m)
    /\ m.state = "predates" => Number(it) <= Base[d]
    /\ m.state = "bootstrap" => it.from # d

MarksHold(d) ==
    /\ disk[d].staged <= Len(mailbox)
    /\ Json(d) \subseteq 1..disk[d].staged
    /\ \A p \in Json(d) : Sound(d, Mail(p), disk[d].marks[p].marker)
    /\ 1..disk[d].cp.applied \subseteq Json(d)

\* an item in the mailbox is a control of the owner's or has its sender's job
MailHolds == \A p \in Positions :
    /\ \A q \in Positions : Mail(p) = Mail(q) => p = q
    /\ Mail(p).kind = "control" =>
          /\ Mail(p).from = Owner /\ Mail(p).seq = Number(Mail(p))
          /\ Mail(p).seq <= kernel[Owner].floor
    /\ Mail(p).kind # "control" =>
          /\ Mail(p).seq \in DOMAIN disk[Mail(p).from].jobs
          /\ kernel[Mail(p).from].outbox[Mail(p).seq] = Mail(p)

Holds(d) == KernelHolds(d) /\ QueuesHold(d) /\ MemHolds(d) /\ MarksHold(d)

DriverInv ==
    /\ Types
    /\ MailHolds
    /\ \A d \in Devices : Holds(d)

-----------------------------------------------------------------------------
(* Numbers.                                                                *)

\* A non-empty set of naturals has a least element.
LEMMA Least ==
    ASSUME NEW S \in SUBSET Nat, S # {}
    PROVE  \E m \in S : \A n \in S : m <= n
<1>1. IsWellFoundedOn(OpToRel(<, Nat), Nat)
  BY NatLessThanWellFounded, Zenon
<1>2. PICK m \in S : \A n \in S : ~(<<n, m>> \in OpToRel(<, Nat))
  BY <1>1, WFMin, Zenon
<1>3. \A n \in S : ~(n < m)
  BY <1>2 DEF OpToRel
<1> QED BY <1>3

\* A non-empty set of numbers below a bound has a greatest one, and Max is it.
LEMMA Greatest ==
    ASSUME NEW n \in Nat, NEW S \in SUBSET (0..n), S # {}
    PROVE  Max(S) \in S /\ \A x \in S : x <= Max(S)
<1>1. \A x \in S : x \in Nat /\ x <= n /\ n - x \in Nat
  OBVIOUS
<1> DEFINE T == {n - x : x \in S}
<1>2. T \in SUBSET Nat
  BY <1>1
<1>3. T # {}
  <2>1. PICK x : x \in S
    OBVIOUS
  <2>2. n - x \in T
    BY <2>1
  <2> QED BY <2>2
<1>4. PICK c \in T : \A e \in T : c <= e
  BY <1>2, <1>3, Least
<1>5. PICK k \in S : c = n - k
  BY <1>4
<1>6. ASSUME NEW x \in S PROVE k >= x
  <2>1. n - x \in T
    OBVIOUS
  <2>2. n - k <= n - x
    BY <1>4, <1>5, <2>1
  <2> QED BY <1>1, <2>2
<1>7. Max(S) \in S /\ \A x \in S : Max(S) >= x
  BY <1>5, <1>6 DEF Max
<1>8. \A x \in S : Max(S) \in Nat /\ x \in Nat
  BY <1>1, <1>7
<1> QED BY <1>7, <1>8

\* A finite set of naturals has a bound.
LEMMA Bounded ==
    ASSUME NEW S \in SUBSET Nat, IsFiniteSet(S)
    PROVE  \E n \in Nat : \A x \in S : x <= n
<1>1. PICK q \in Seq(S) : \A x \in S : \E i \in 1..Len(q) : q[i] = x
  BY DEF IsFiniteSet
<1>2. Len(q) \in Nat /\ \A i \in 1..Len(q) : q[i] \in Nat
  <2>1. Len(q) \in Nat /\ \A i \in 1..Len(q) : q[i] \in S
    OBVIOUS
  <2> QED BY <2>1
<1> DEFINE Under(k, n) == \A i \in 1..k : q[i] <= n
           Bad == {k \in 0..Len(q) : ~ \E n \in Nat : Under(k, n)}
<1> HIDE DEF Under
<1>3. CASE Bad = {}
  <2>1. Len(q) \in 0..Len(q)
    BY <1>2
  <2>2. PICK n \in Nat : Under(Len(q), n)
    BY <1>3, <2>1
  <2>3. n \in Nat /\ \A i \in 1..Len(q) : q[i] <= n
    BY <2>2 DEF Under
  <2> QED BY <1>1, <2>3
<1>4. CASE Bad # {}
  <2>1. Bad \in SUBSET Nat
    BY <1>2
  <2> HIDE DEF Bad
  <2>2. PICK k \in Bad : \A j \in Bad : k <= j
    BY <1>4, <2>1, Least
  <2>3. Under(0, 0)
    BY DEF Under
  <2>4. k \in 0..Len(q) /\ k # 0 /\ k \in Nat
    BY <1>2, <2>2, <2>3 DEF Bad
  <2>5. k - 1 \in 0..Len(q) /\ k - 1 \notin Bad
    BY <1>2, <2>2, <2>4
  <2>6. PICK n \in Nat : Under(k - 1, n)
    BY <2>5 DEF Bad
  <2>7. q[k] \in Nat /\ n + q[k] \in Nat /\ n \in Nat
    BY <1>2, <2>4, <2>6
  <2>8. ASSUME NEW i \in 1..k PROVE q[i] <= n + q[k]
    <3>1. i = k \/ i \in 1..(k - 1)
      BY <2>4
    <3>2. q[i] \in Nat
      BY <1>2, <2>4
    <3>3. CASE i = k
      BY <2>7, <3>3
    <3>4. CASE i \in 1..(k - 1)
      <4>1. q[i] <= n
        BY <2>6, <3>4 DEF Under
      <4> QED BY <2>7, <3>2, <4>1
    <3> QED BY <3>1, <3>3, <3>4
  <2>9. Under(k, n + q[k])
    BY <2>8 DEF Under
  <2> QED BY <2>2, <2>7, <2>9 DEF Bad
<1> QED BY <1>3, <1>4

\* Indices.
LEMMA Within ==
    /\ \A a, b \in Nat : \A i \in 1..a : a <= b => i \in 1..b
    /\ \A a, i \in Nat : i > 0 /\ i <= a => i \in 1..a
    /\ \A a, b, c \in Nat : a <= b => (c + 1)..a \subseteq (c + 1)..b /\ 1..a \subseteq 1..b
    /\ \A a, c \in Nat : \A i \in (c + 1)..a : i > c /\ i <= a /\ i \in Nat
OBVIOUS

\* The larger and the smaller of two numbers.
LEMMA MaxOfTwo ==
    ASSUME NEW a \in Nat, NEW b \in Nat
    PROVE  Max({a, b}) = a \/ Max({a, b}) = b
<1>1. \E x \in {a, b} : \A y \in {a, b} : x >= y
  OBVIOUS
<1> QED BY <1>1 DEF Max

\* The smaller of two numbers.
LEMMA MinOfTwo ==
    ASSUME NEW a \in Nat, NEW b \in Nat
    PROVE  Min({a, b}) \in Nat /\ Min({a, b}) <= a /\ Min({a, b}) <= b
<1>1. \E x \in {a, b} : \A y \in {a, b} : x =< y
  OBVIOUS
<1> QED BY <1>1 DEF Min

\* The floor that all devices start from is no lower than anyone's base.
LEMMA FloorBounds ==
    ASSUME room \in Rooms
    PROVE  Floor \in Nat /\ \A d \in Devices : Base[d] \in Nat /\ Base[d] <= Floor
<1> DEFINE S == {Base[d] : d \in Devices}
<1>1. \A d \in Devices : Base[d] \in Nat
  BY DriverAssumption DEF Base
<1>2. S \in SUBSET Nat /\ S # {}
  BY <1>1, DriverAssumption
<1>3. IsFiniteSet(S)
  <2>1. IsFiniteSet(Devices)
    BY DriverAssumption
  <2> DEFINE f == [d \in Devices |-> Base[d]]
  <2>2. f \in Surjection(Devices, S)
    BY DEF Surjection
  <2> QED BY <2>1, <2>2, FS_Surjection
<1>4. PICK n \in Nat : \A x \in S : x <= n
  BY <1>2, <1>3, Bounded
<1>5. S \in SUBSET (0..n)
  BY <1>2, <1>4
<1>6. Max(S) \in S /\ \A x \in S : x <= Max(S)
  BY <1>2, <1>5, Greatest
<1> QED BY <1>1, <1>2, <1>6 DEF Floor

-----------------------------------------------------------------------------
(* Queues and shelves of markers are functions whose domains grow.         *)

\* A queue and a shelf start empty.
LEMMA EmptyQueue ==
    <<>> \in Queues /\ <<>> \in Shelves /\ DOMAIN <<>> = {}
<1>1. DOMAIN <<>> = {}
  OBVIOUS
<1>2. <<>> \in [{} -> JobStates] /\ <<>> \in [{} -> Files]
  OBVIOUS
<1> QED BY <1>1, <1>2 DEF Queues, Shelves

\* A queue with one more entry, or another state of one, is a queue.
LEMMA WithQueue ==
    ASSUME NEW q \in Queues, NEW s \in Nat, NEW st \in JobStates
    PROVE  With(q, s, st) \in Queues
<1>1. PICK S \in SUBSET Nat : q \in [S -> JobStates]
  BY DEF Queues
<1>2. With(q, s, st) \in [S \cup {s} -> JobStates]
  BY <1>1 DEF With
<1>3. S \cup {s} \in SUBSET Nat
  OBVIOUS
<1> QED BY <1>2, <1>3 DEF Queues

\* The same of a shelf.
LEMMA WithShelf ==
    ASSUME NEW q \in Shelves, NEW s \in Nat, NEW st \in Files
    PROVE  With(q, s, st) \in Shelves
<1>1. PICK S \in SUBSET Nat : q \in [S -> Files]
  BY DEF Shelves
<1>2. With(q, s, st) \in [S \cup {s} -> Files]
  BY <1>1 DEF With
<1>3. S \cup {s} \in SUBSET Nat
  OBVIOUS
<1> QED BY <1>2, <1>3 DEF Shelves

\* What With changes, and what it leaves.
LEMMA WithFacts ==
    ASSUME NEW q, NEW s, NEW st
    PROVE  /\ DOMAIN With(q, s, st) = DOMAIN q \cup {s}
           /\ With(q, s, st)[s] = st
           /\ \A x \in DOMAIN q : x # s => With(q, s, st)[x] = q[x]
BY DEF With

\* Positions and states of a queue.
LEMMA QueueFacts ==
    ASSUME NEW q \in Queues
    PROVE  DOMAIN q \subseteq Nat /\ \A s \in DOMAIN q : q[s] \in JobStates
BY DEF Queues

\* Positions and files of a shelf.
LEMMA ShelfFacts ==
    ASSUME NEW q \in Shelves
    PROVE  DOMAIN q \subseteq Nat /\ \A s \in DOMAIN q : q[s] \in Files
BY DEF Shelves

-----------------------------------------------------------------------------
(* What no step takes back, and what follows from it for whatever a step   *)
(* leaves as it is.                                                        *)

Grows ==
    /\ room' = room
    /\ Len(mailbox) <= Len(mailbox')
    /\ \A p \in Positions : mailbox'[p] = mailbox[p]
    /\ \A e \in Devices :
        /\ kernel[e].floor <= kernel'[e].floor
        /\ Len(kernel[e].outbox) <= Len(kernel'[e].outbox)
        /\ \A s \in 1..Len(kernel[e].outbox) : kernel'[e].outbox[s] = kernel[e].outbox[s]
        /\ Len(kernel[e].inbox) <= Len(kernel'[e].inbox)
        /\ \A i \in 1..Len(kernel[e].inbox) : kernel'[e].inbox[i] = kernel[e].inbox[i]
        /\ DOMAIN disk[e].jobs \subseteq DOMAIN disk'[e].jobs
        /\ DOMAIN disk[e].controls \subseteq DOMAIN disk'[e].controls

\* The types of one device's state.
DeviceTyped(d) ==
    /\ kernel[d] \in Kernels /\ disk[d] \in Disks /\ mem[d] \in Mems
    /\ kernel[d].floor \in Nat /\ kernel[d].outbox \in Seq(Items)
    /\ kernel[d].inbox \in Seq(Devices \X Nat)
    /\ Len(kernel[d].outbox) \in Nat /\ Len(kernel[d].inbox) \in Nat
    /\ DOMAIN kernel[d].outbox = 1..Len(kernel[d].outbox)
    /\ DOMAIN kernel[d].inbox = 1..Len(kernel[d].inbox)
    /\ \A s \in 1..Len(kernel[d].outbox) : kernel[d].outbox[s] \in Items
    /\ disk[d].jobs \in Queues /\ disk[d].controls \in Queues
    /\ DOMAIN disk[d].jobs \subseteq Nat /\ DOMAIN disk[d].controls \subseteq Nat
    /\ disk[d].cp.out \in Nat /\ disk[d].cp.applied \in Nat /\ disk[d].ccp \in Nat
    /\ disk[d].staged \in Nat /\ disk[d].marks \in Shelves
    /\ DOMAIN disk[d].marks \subseteq Nat
    /\ mem[d].out \in Nat /\ mem[d].cout \in Nat /\ mem[d].applied \in Nat
    /\ mem[d].visit \in Seq(Nat) /\ Len(mem[d].visit) \in Nat
    /\ mem[d].ahead \in SUBSET Nat /\ mem[d].next \in Nat
    /\ Owner \in Devices /\ Base[d] \in Nat /\ Base[Owner] = 0
    /\ Len(mailbox) \in Nat

\* The types of one device follow from Types.
LEMMA DeviceTypes ==
    Types => \A d \in Devices : DeviceTyped(d)
<1> SUFFICES ASSUME Types, NEW d \in Devices PROVE DeviceTyped(d)
  OBVIOUS
<1>1. kernel[d] \in Kernels /\ disk[d] \in Disks /\ mem[d] \in Mems
  BY DEF Types
<1>2. /\ kernel[d].floor \in Nat /\ kernel[d].outbox \in Seq(Items)
      /\ kernel[d].inbox \in Seq(Devices \X Nat)
  BY <1>1 DEF Kernels
<1>3. /\ disk[d].jobs \in Queues /\ disk[d].controls \in Queues
      /\ disk[d].cp.out \in Nat /\ disk[d].cp.applied \in Nat /\ disk[d].ccp \in Nat
      /\ disk[d].staged \in Nat /\ disk[d].marks \in Shelves
  BY <1>1 DEF Disks
<1>4. /\ mem[d].out \in Nat /\ mem[d].cout \in Nat /\ mem[d].applied \in Nat
      /\ mem[d].visit \in Seq(Nat) /\ mem[d].ahead \in SUBSET Nat /\ mem[d].next \in Nat
  BY <1>1 DEF Mems
<1>5. /\ Len(kernel[d].outbox) \in Nat /\ Len(kernel[d].inbox) \in Nat
      /\ DOMAIN kernel[d].outbox = 1..Len(kernel[d].outbox)
      /\ DOMAIN kernel[d].inbox = 1..Len(kernel[d].inbox)
      /\ \A s \in 1..Len(kernel[d].outbox) : kernel[d].outbox[s] \in Items
      /\ Len(mem[d].visit) \in Nat
  BY <1>2, <1>4
<1>6. /\ DOMAIN disk[d].jobs \subseteq Nat /\ DOMAIN disk[d].controls \subseteq Nat
      /\ DOMAIN disk[d].marks \subseteq Nat
  BY <1>3, QueueFacts, ShelfFacts
<1>7. Owner \in Devices /\ Base[d] \in Nat /\ Base[Owner] = 0
  BY DriverAssumption DEF Types, Base
<1>8. Len(mailbox) \in Nat
  BY DEF Types
<1> QED BY <1>1, <1>2, <1>3, <1>4, <1>5, <1>6, <1>7, <1>8 DEF DeviceTyped

\* And so they do after a step.
LEMMA DeviceTypesNext ==
    Types' => \A d \in Devices : DeviceTyped(d)'
<1>1. Types => \A d \in Devices : DeviceTyped(d)
  BY DeviceTypes
<1>2. (Types => \A d \in Devices : DeviceTyped(d))'
  BY <1>1, PTL
<1> QED BY <1>2

\* The types of an item in the mailbox.
LEMMA MailTypes ==
    ASSUME Types, NEW p \in Positions
    PROVE  /\ Mail(p) \in Items /\ p \in Nat
           /\ Mail(p).kind \in Kinds /\ Mail(p).from \in Devices /\ Mail(p).seq \in Nat
           /\ Mail(p).epoch \in Nat /\ Mail(p).ack \in Acks
           /\ Message(Mail(p)) \in Devices \X Nat
<1>1. mailbox[p] \in Letters
  BY DEF Types, Positions
<1>2. Mail(p) \in Items
  BY <1>1 DEF Letters, Mail
<1>3. /\ Mail(p).kind \in Kinds /\ Mail(p).from \in Devices /\ Mail(p).seq \in Nat
      /\ Mail(p).epoch \in Nat /\ Mail(p).ack \in Acks
  BY <1>2 DEF Items
<1> QED BY <1>2, <1>3 DEF Message, Positions

\* Items keep their positions.
LEMMA MailStays ==
    ASSUME Types, Types', Grows, NEW p \in Positions
    PROVE  p \in Positions' /\ Mail(p)' = Mail(p)
<1>1. Len(mailbox) \in Nat /\ Len(mailbox') \in Nat
  BY DEF Types
<1> QED BY <1>1 DEF Grows, Positions, Mail

\* What the mailbox holds it goes on holding.
LEMMA HeldStays ==
    ASSUME Types, Types', Grows, NEW it, Held(it)
    PROVE  Held(it)'
BY MailStays DEF Held

\* What a device covers of its outbox stays covered.
LEMMA CoversStays ==
    ASSUME Types, Types', Grows, NEW e \in Devices, NEW n \in Nat, Covers(e, n)
    PROVE  Covers(e, n)'
<1>1. /\ Len(kernel[e].outbox) \in Nat /\ Len(kernel'[e].outbox) \in Nat
      /\ n <= Len(kernel[e].outbox) /\ Len(kernel[e].outbox) <= Len(kernel'[e].outbox)
      /\ DOMAIN disk[e].jobs \subseteq DOMAIN disk'[e].jobs
  BY DeviceTypes, DeviceTypesNext DEF Grows, Covers, DeviceTyped
<1>2. ASSUME NEW s \in 1..n, Relayed(kernel'[e].outbox[s])
      PROVE  s \in DOMAIN disk'[e].jobs
  <2>1. s \in 1..Len(kernel[e].outbox)
    BY <1>1
  <2>2. kernel'[e].outbox[s] = kernel[e].outbox[s]
    BY <2>1 DEF Grows
  <2> QED BY <1>1, <1>2, <2>2 DEF Covers
<1>3. n <= Len(kernel'[e].outbox)
  BY <1>1
<1> QED BY <1>2, <1>3 DEF Covers, Relayed

\* Only a device's own applications are echoes among the applications.
LEMMA AppEcho ==
    ASSUME NEW e, NEW it, it.kind = "app"
    PROVE  Echo(e, it) <=> it.from = e
BY DEF Echo

\* What restore_marker confirms it confirms later on.
LEMMA SoundStays ==
    ASSUME Types, Types', Grows, NEW e \in Devices, NEW it \in Items, NEW m, Sound(e, it, m),
           it.kind = "control" => it.seq = Number(it),
           it.kind = "copy" => it.from = Owner,
           \A n \in DOMAIN disk'[e].controls : n > Base[e]
    PROVE  Sound(e, it, m)'
<1>0. DeviceTyped(e) /\ DeviceTyped(e)' /\ it.epoch \in Nat
  BY DeviceTypes, DeviceTypesNext DEF Items
<1>1. Base' = Base /\ Emits' = Emits
  BY DEF Grows, Base, Emits
<1>2. /\ kernel[e].floor \in Nat /\ kernel'[e].floor \in Nat /\ Base[e] \in Nat
      /\ kernel[e].floor <= kernel'[e].floor
      /\ DOMAIN disk[e].jobs \subseteq DOMAIN disk'[e].jobs
      /\ DOMAIN disk[e].controls \subseteq DOMAIN disk'[e].controls
  BY <1>0 DEF DeviceTyped, Grows
<1>3. (m.state = "predates" => Number(it) <= Base[e])' /\ (m.state = "bootstrap" => it.from # e)'
  BY <1>1 DEF Sound
<1>4. CASE m.state = "echo" /\ Echo(e, it)
  <2>1. Echo(e, it)'
    BY <1>2, <1>4 DEF Echo
  <2> QED BY <1>3, <1>4, <2>1 DEF Sound, MarkerHolds
<1>5. CASE /\ m.state \in {"received", "claim", "unmatched"}
           /\ it.kind = "app" /\ ~Echo(e, it) /\ m.state = Reading(e, it)
           /\ m.inbox \in Inboxed(e, it)
           /\ Owes(e, it) => m.receipt \in Receipts(e, it)
  <2>1. ~Echo(e, it)'
    <3>1. it.from # e
      BY <1>5, AppEcho
    <3> QED BY <1>5, <3>1 DEF Echo
  <2>2. m.inbox \in Inboxed(e, it)'
    <3>1. m.inbox \in 1..Len(kernel[e].inbox) /\ kernel[e].inbox[m.inbox] = Message(it)
      BY <1>0, <1>5 DEF Inboxed, DeviceTyped
    <3>2. kernel'[e].inbox[m.inbox] = Message(it)
      BY <3>1 DEF Grows
    <3>3. /\ Len(kernel[e].inbox) <= Len(kernel'[e].inbox)
          /\ Len(kernel[e].inbox) \in Nat /\ Len(kernel'[e].inbox) \in Nat
          /\ DOMAIN kernel'[e].inbox = 1..Len(kernel'[e].inbox)
      BY <1>0 DEF Grows, DeviceTyped
    <3>4. m.inbox \in DOMAIN kernel'[e].inbox
      BY ONLY <3>1, <3>3, Within
    <3> QED BY <3>2, <3>4 DEF Inboxed, Message
  <2>3. ASSUME Owes(e, it)' PROVE m.receipt \in Receipts(e, it)'
    <3>1. m.receipt \in Receipts(e, it)
      BY <1>1, <1>5, <2>3 DEF Owes, IsReceipt
    <3>2. m.receipt \in 1..Len(kernel[e].outbox) /\ kernel[e].outbox[m.receipt].ack = Message(it)
      BY <1>0, <3>1 DEF Receipts, DeviceTyped
    <3>3. kernel'[e].outbox[m.receipt].ack = Message(it)
      BY <3>2 DEF Grows
    <3>4. /\ Len(kernel[e].outbox) <= Len(kernel'[e].outbox)
          /\ Len(kernel[e].outbox) \in Nat /\ Len(kernel'[e].outbox) \in Nat
          /\ DOMAIN kernel'[e].outbox = 1..Len(kernel'[e].outbox)
      BY <1>0 DEF Grows, DeviceTyped
    <3>5. m.receipt \in DOMAIN kernel'[e].outbox
      BY ONLY <3>2, <3>4, Within
    <3> QED BY <3>3, <3>5 DEF Receipts, Message
  <2>4. MarkerHolds(e, it, m)'
    BY <1>5, <2>1, <2>2, <2>3 DEF MarkerHolds, Reading, IsReceipt
  <2> QED BY <1>3, <2>4 DEF Sound
<1>6. CASE m.state = "control" /\ IsControl(it) /\ Number(it) \in (Base[e] + 1)..kernel[e].floor
  <2>1. Number(it) \in (Base[e] + 1)..kernel'[e].floor
    BY <1>2, <1>6
  <2>2. MarkerHolds(e, it, m)'
    BY <1>1, <1>6, <2>1 DEF MarkerHolds, IsControl, Number
  <2> QED BY <1>3, <2>2 DEF Sound
<1>7. CASE m.state = "predates" /\ IsControl(it) /\ ~Echo(e, it)
  <2>0. Number(it) <= Base[e] /\ Number(it) = it.epoch + 1
    BY <1>7 DEF Sound, Number
  <2>1. ASSUME Echo(e, it)' PROVE FALSE
    <3>1. CASE it.kind = "control"
      <4>1. it.seq \in DOMAIN disk'[e].controls
        BY <2>1, <3>1 DEF Echo
      <4> QED BY <1>0, <1>2, <2>0, <3>1, <4>1
    <3>2. CASE it.kind = "copy"
      <4>1. it.from = e /\ e = Owner
        BY <2>1, <3>2 DEF Echo
      <4>2. Base[e] = 0
        BY <1>0, <4>1 DEF DeviceTyped
      <4> QED BY <1>0, <2>0, <4>2
    <3> QED BY <1>7, <3>1, <3>2 DEF IsControl
  <2>2. MarkerHolds(e, it, m)'
    BY <1>7, <2>1 DEF MarkerHolds, IsControl
  <2> QED BY <1>3, <2>2 DEF Sound
<1>8. CASE m.state = "stale" /\ it.kind = "app" /\ ~Echo(e, it)
  <2>1. it.from # e
    BY <1>8, AppEcho
  <2>2. ~Echo(e, it)'
    BY <1>8, <2>1 DEF Echo
  <2> QED BY <1>3, <1>8, <2>2 DEF Sound, MarkerHolds
<1>9. CASE m.state = "bootstrap" /\ it.kind = "contact" /\ ~Echo(e, it)
  <2>1. it.from # e
    BY <1>9 DEF Sound
  <2>2. ~Echo(e, it)'
    BY <1>9, <2>1 DEF Echo
  <2> QED BY <1>3, <1>9, <2>2 DEF Sound, MarkerHolds
<1> QED BY <1>4, <1>5, <1>6, <1>7, <1>8, <1>9 DEF Sound, MarkerHolds

\* Copies in the mailbox are the owner's, controls carry their number.
LEMMA MailKinds ==
    ASSUME DriverInv, NEW p \in Positions
    PROVE  /\ Mail(p).kind = "control" => Mail(p).seq = Number(Mail(p)) /\ Mail(p).from = Owner
           /\ Mail(p).kind = "copy" => Mail(p).from = Owner
           /\ Mail(p).kind \in {"control", "copy", "contact", "app"}
           /\ IsControl(Mail(p)) => Number(Mail(p)) <= kernel[Owner].floor
<1>1. Types /\ MailHolds /\ DeviceTyped(Owner)
  BY DeviceTypes, DriverAssumption DEF DriverInv
<1>2. /\ Mail(p).kind \in Kinds /\ Mail(p).from \in Devices /\ Mail(p).epoch \in Nat
      /\ Mail(p).seq \in Nat /\ kernel[Owner].floor \in Nat
  BY <1>1, MailTypes DEF DeviceTyped
<1>3. CASE Mail(p).kind = "control"
  BY <1>1, <1>2, <1>3 DEF MailHolds, IsControl
<1>4. CASE Mail(p).kind # "control"
  <2>1. /\ Mail(p).seq \in DOMAIN disk[Mail(p).from].jobs
        /\ kernel[Mail(p).from].outbox[Mail(p).seq] = Mail(p)
    BY <1>1, <1>4 DEF MailHolds
  <2>2. /\ Mail(p).seq > 0 /\ Relayed(Mail(p))
        /\ Mail(p).seq <= Len(kernel[Mail(p).from].outbox)
    BY <1>2, <2>1 DEF DriverInv, Holds, QueuesHold, Covers
  <2>3. Len(kernel[Mail(p).from].outbox) \in Nat
    BY <1>1, <1>2, DeviceTypes DEF DeviceTyped
  <2>4. Mail(p).seq \in 1..Len(kernel[Mail(p).from].outbox)
    BY ONLY <1>2, <2>2, <2>3, Within
  <2>5. Mail(p).kind = "copy" => Mail(p).from = Owner /\ Mail(p).epoch < kernel[Mail(p).from].floor
    BY <1>2, <2>1, <2>4 DEF DriverInv, Holds, KernelHolds, Sends
  <2> QED BY <1>2, <1>4, <2>2, <2>5 DEF Relayed, Kinds, IsControl, Number
<1> QED BY <1>3, <1>4

\* A kernel that a step leaves alone.
LEMMA KernelKept ==
    ASSUME DriverInv, Types', Grows, NEW e \in Devices, kernel'[e] = kernel[e]
    PROVE  KernelHolds(e)'
<1>1. Types /\ KernelHolds(e) /\ Base' = Base
  BY DEF DriverInv, Holds, Grows, Base
<1>2. /\ DeviceTyped(e) /\ DeviceTyped(Owner) /\ DeviceTyped(Owner)'
  BY <1>1, DeviceTypes, DeviceTypesNext, DriverAssumption
<1>3. kernel[e].floor >= Base[e] /\ kernel[e].floor <= kernel'[Owner].floor
  <2>1. kernel[Owner].floor <= kernel'[Owner].floor
    BY <1>2 DEF Grows, DeviceTyped
  <2>2. kernel[e].floor >= Base[e] /\ kernel[e].floor <= kernel[Owner].floor
    BY <1>1 DEF KernelHolds
  <2>3. /\ kernel[e].floor \in Nat /\ kernel[Owner].floor \in Nat /\ kernel'[Owner].floor \in Nat
    BY <1>2 DEF DeviceTyped
  <2> QED BY ONLY <2>1, <2>2, <2>3
<1>4. Sends(e)'
  BY <1>1 DEF KernelHolds, Sends
<1>5. Hears(e)'
  <2>1. Hears(e)
    BY <1>1 DEF KernelHolds
  <2>2. ASSUME NEW i \in 1..Len(kernel[e].inbox)
        PROVE  \E p \in Positions' : Mail(p)'.kind = "app" /\ kernel[e].inbox[i] = Message(Mail(p)')
    <3>1. PICK p \in Positions : Mail(p).kind = "app" /\ kernel[e].inbox[i] = Message(Mail(p))
      BY <2>1 DEF Hears
    <3>2. p \in Positions' /\ Mail(p)' = Mail(p)
      BY <1>1, MailStays
    <3> QED BY <3>1, <3>2
  <2> QED BY <2>1, <2>2 DEF Hears, Message
<1> QED BY <1>1, <1>3, <1>4, <1>5 DEF KernelHolds

\* A job that was there, and what the queues of a device keep in any step.
LEMMA JobsStay ==
    ASSUME DriverInv, Types', Grows, NEW e \in Devices
    PROVE  /\ \A s \in DOMAIN disk[e].jobs :
                 /\ s \in Nat /\ s > 0 /\ Covers(e, s)' /\ Relayed(kernel[e].outbox[s])'
                 /\ Held(kernel[e].outbox[s]) => Held(kernel[e].outbox[s])'
           /\ DOMAIN disk[e].controls \subseteq (Base[e] + 1)..kernel'[e].floor
           /\ \A n \in Nat : Covers(e, n) => Covers(e, n)'
           /\ Base' = Base
<1>1. Types /\ QueuesHold(e) /\ Base' = Base
  BY DEF DriverInv, Holds, Grows, Base
<1>2. DeviceTyped(e) /\ DeviceTyped(e)'
  BY <1>1, DeviceTypes, DeviceTypesNext
<1>3. ASSUME NEW s \in DOMAIN disk[e].jobs
      PROVE  /\ s \in Nat /\ s > 0 /\ Covers(e, s)' /\ Relayed(kernel[e].outbox[s])'
             /\ Held(kernel[e].outbox[s]) => Held(kernel[e].outbox[s])'
  <2>1. s \in Nat /\ s > 0 /\ Covers(e, s) /\ Relayed(kernel[e].outbox[s])
    BY <1>1, <1>2 DEF QueuesHold, DeviceTyped
  <2>2. Covers(e, s)'
    BY <1>1, <2>1, CoversStays
  <2>3. kernel'[e].outbox[s] = kernel[e].outbox[s]
    <3>1. s \in 1..Len(kernel[e].outbox)
      BY <1>2, <2>1, Within DEF Covers, DeviceTyped
    <3> QED BY <3>1 DEF Grows
  <2>4. ASSUME Held(kernel[e].outbox[s]) PROVE Held(kernel[e].outbox[s])'
    <3>1. PICK p \in Positions : Mail(p) = kernel[e].outbox[s]
      BY <2>4 DEF Held
    <3>2. p \in Positions' /\ Mail(p)' = Mail(p)
      BY <1>1, MailStays
    <3>3. (kernel[e].outbox[s])' = Mail(p)'
      BY <2>3, <3>1, <3>2
    <3> QED BY <3>2, <3>3 DEF Held
  <2> QED BY <2>1, <2>2, <2>3, <2>4 DEF Relayed
<1>4. DOMAIN disk[e].controls \subseteq (Base[e] + 1)..kernel'[e].floor
  <2>1. DOMAIN disk[e].controls \subseteq (Base[e] + 1)..kernel[e].floor
    BY <1>1 DEF QueuesHold
  <2>2. /\ kernel[e].floor <= kernel'[e].floor /\ kernel[e].floor \in Nat /\ kernel'[e].floor \in Nat
        /\ Base[e] \in Nat
    BY <1>2 DEF Grows, DeviceTyped
  <2> QED BY ONLY <2>1, <2>2, Within
<1>5. \A n \in Nat : Covers(e, n) => Covers(e, n)'
  BY <1>1, CoversStays
<1> QED BY <1>1, <1>3, <1>4, <1>5

\* Queues whose jobs, controls and watermarks a step leaves alone, or whose
\* jobs and controls only change their state, to one that they may be in.
LEMMA QueuesKept ==
    ASSUME DriverInv, Types', Grows, NEW e \in Devices,
           DOMAIN disk'[e].jobs = DOMAIN disk[e].jobs,
           DOMAIN disk'[e].controls = DOMAIN disk[e].controls,
           \A s \in DOMAIN disk[e].jobs :
              disk'[e].jobs[s] = "retained" =>
                 disk[e].jobs[s] = "retained" \/ Held(kernel[e].outbox[s])',
           disk'[e].cp.out = disk[e].cp.out \/ disk'[e].cp.out = mem[e].out,
           disk'[e].ccp = disk[e].ccp
    PROVE  QueuesHold(e)'
<1>1. Types /\ QueuesHold(e) /\ MemHolds(e) /\ DeviceTyped(e)
  BY DeviceTypes DEF DriverInv, Holds
<1>2. \A s \in DOMAIN disk[e].jobs :
         /\ s > 0 /\ Covers(e, s)' /\ Relayed(kernel[e].outbox[s])'
         /\ disk'[e].jobs[s] = "retained" => Held(kernel[e].outbox[s])'
  <2>1. \A s \in DOMAIN disk[e].jobs :
           disk[e].jobs[s] = "retained" => Held(kernel[e].outbox[s])
    BY <1>1 DEF QueuesHold
  <2> QED BY <2>1, JobsStay
<1>3. (DOMAIN disk[e].controls \subseteq (Base[e] + 1)..kernel[e].floor)'
  BY JobsStay
<1>4. Covers(e, disk[e].cp.out)'
  <2>1. /\ Covers(e, disk[e].cp.out) /\ Covers(e, mem[e].out)
        /\ disk[e].cp.out \in Nat /\ mem[e].out \in Nat
    BY <1>1 DEF QueuesHold, MemHolds, DeviceTyped
  <2>2. PICK n \in Nat : n = disk'[e].cp.out /\ Covers(e, n)
    BY <2>1
  <2>3. Covers(e, n)'
    BY <2>2, JobsStay
  <2> QED BY <2>2, <2>3 DEF Covers
<1>5. ((Base[e] + 1)..disk[e].ccp \subseteq DOMAIN disk[e].controls)'
  BY <1>1, JobsStay DEF QueuesHold
<1> QED BY <1>2, <1>3, <1>4, <1>5 DEF QueuesHold

\* A driver that keeps its place while its markers and jobs only grow.
LEMMA MemKept ==
    ASSUME DriverInv, Types', Grows, NEW e \in Devices,
           mem'[e].out = mem[e].out, mem'[e].cout = mem[e].cout,
           mem'[e].applied = mem[e].applied, mem'[e].ahead = mem[e].ahead,
           Json(e) \subseteq Json(e)',
           mem'[e].stage = "poll" =>
              mem[e].stage = "poll" /\ DOMAIN disk'[e].jobs = DOMAIN disk[e].jobs,
           \A i \in 1..Len(mem'[e].visit) : mem'[e].visit[i] \in 1..disk'[e].staged
    PROVE  MemHolds(e)'
<1>1. Types /\ MemHolds(e) /\ Base' = Base
  BY DEF DriverInv, Holds, Grows, Base
<1>2. DeviceTyped(e) /\ DeviceTyped(e)'
  BY <1>1, DeviceTypes, DeviceTypesNext
<1>3. Covers(e, mem[e].out)'
  <2>1. Covers(e, mem[e].out) /\ mem[e].out \in Nat
    BY <1>1, <1>2 DEF MemHolds, DeviceTyped
  <2>2. PICK n : n = mem[e].out
    OBVIOUS
  <2>3. Covers(e, n)'
    BY <1>1, <2>1, <2>2, CoversStays
  <2> QED BY <2>2, <2>3 DEF Covers
<1>4. (Base[e] + 1)..mem[e].cout \subseteq DOMAIN disk'[e].controls
  BY <1>1 DEF MemHolds, Grows
<1>5. 1..mem[e].applied \subseteq Json(e)' /\ mem[e].ahead \subseteq Json(e)'
  BY <1>1 DEF MemHolds
<1>6. mem'[e].stage = "poll" => \A s \in DOMAIN disk'[e].jobs : s <= mem[e].out
  BY <1>1 DEF MemHolds
<1> QED BY <1>1, <1>3, <1>4, <1>5, <1>6 DEF MemHolds

\* A driver that is down.
LEMMA MemDown ==
    ASSUME Types', room' = room, NEW e \in Devices, mem'[e] = Down
    PROVE  MemHolds(e)'
<1>1. DeviceTyped(e)' /\ Base' = Base
  BY DeviceTypesNext DEF Base
<1>2. /\ mem'[e].out = 0 /\ mem'[e].cout = 0 /\ mem'[e].applied = 0 /\ mem'[e].ahead = {}
      /\ mem'[e].stage = "down" /\ mem'[e].visit = <<>>
  BY DEF Down
<1>3. (Base[e] + 1)..0 = {} /\ 1..0 = {} /\ Len(<<>>) = 0
  BY <1>1 DEF DeviceTyped
<1>4. Covers(e, mem[e].out)'
  <2>1. Len(kernel'[e].outbox) \in Nat
    BY <1>1 DEF DeviceTyped
  <2> QED BY <1>2, <1>3, <2>1 DEF Covers
<1> QED BY <1>1, <1>2, <1>3, <1>4 DEF MemHolds

\* Markers that a step leaves alone.
LEMMA MarksKept ==
    ASSUME DriverInv, Types', Grows, NEW e \in Devices, QueuesHold(e)',
           disk'[e].marks = disk[e].marks,
           disk[e].staged <= disk'[e].staged, disk'[e].staged <= Len(mailbox'),
           1..disk'[e].cp.applied \subseteq Json(e)
    PROVE  MarksHold(e)'
<1>1. Types /\ MarksHold(e) /\ Base' = Base
  BY DEF DriverInv, Holds, Grows, Base
<1>2. DeviceTyped(e) /\ DeviceTyped(e)'
  BY <1>1, DeviceTypes, DeviceTypesNext
<1>3. Json(e)' = Json(e)
  BY DEF Json
<1>4. Json(e) \subseteq 1..disk'[e].staged
  <2>1. Json(e) \subseteq 1..disk[e].staged
    BY <1>1 DEF MarksHold
  <2>2. disk[e].staged \in Nat /\ disk'[e].staged \in Nat
    BY <1>2 DEF DeviceTyped
  <2>3. disk[e].staged <= disk'[e].staged
    OBVIOUS
  <2> QED BY ONLY <2>1, <2>2, <2>3, Within
<1>5. ASSUME NEW p \in Json(e)
      PROVE  Sound(e, Mail(p), disk[e].marks[p].marker)'
  <2>1. Sound(e, Mail(p), disk[e].marks[p].marker) /\ p \in 1..disk[e].staged
    BY <1>1 DEF MarksHold
  <2>2. p \in Positions
    <3>1. disk[e].staged <= Len(mailbox) /\ disk[e].staged \in Nat /\ Len(mailbox) \in Nat
      BY <1>1, <1>2 DEF MarksHold, DeviceTyped
    <3> QED BY <2>1, <3>1, Within DEF Positions
  <2>3. PICK it, m : it = Mail(p) /\ m = disk[e].marks[p].marker
    OBVIOUS
  <2>4. /\ it \in Items
        /\ it.kind = "control" => it.seq = Number(it)
        /\ it.kind = "copy" => it.from = Owner
    BY <1>1, <2>2, <2>3, MailTypes, MailKinds
  <2>5. \A n \in DOMAIN disk'[e].controls : n > Base[e]
    <3>1. DOMAIN disk'[e].controls \subseteq (Base[e] + 1)..kernel'[e].floor
      BY <1>1 DEF QueuesHold
    <3>2. kernel'[e].floor \in Nat /\ Base[e] \in Nat
      BY <1>2 DEF DeviceTyped
    <3> QED BY ONLY <3>1, <3>2, Within
  <2>6. Sound(e, it, m)
    BY <2>1, <2>3
  <2>7. Sound(e, it, m)'
    BY <1>1, <2>4, <2>5, <2>6, SoundStays
  <2>8. Mail(p)' = it
    BY <1>1, <2>2, <2>3, MailStays
  <2>9. disk'[e].marks[p].marker = m
    BY <2>3
  <2>10. Sound(e, it, m)' <=> Sound(e, Mail(p), disk[e].marks[p].marker)'
    BY <2>8, <2>9 DEF Sound, MarkerHolds, Echo, Reading, Inboxed, Receipts, Owes, IsReceipt, IsControl,
                      Number, Message
  <2> QED BY <2>7, <2>10
<1> QED BY <1>3, <1>4, <1>5 DEF MarksHold

\* What MailHolds says of one item, the sender's or the owner's side of it.
Vouched(it) ==
    /\ it.kind = "control" =>
          /\ it.from = Owner /\ it.seq = Number(it)
          /\ it.seq <= kernel[Owner].floor
    /\ it.kind # "control" =>
          /\ it.seq \in DOMAIN disk[it.from].jobs
          /\ kernel[it.from].outbox[it.seq] = it

\* A vouched item stays vouched for.
LEMMA VouchedStays ==
    ASSUME DriverInv, Types', Grows, NEW it \in Items, Vouched(it)
    PROVE  Vouched(it)'
<1>1. Types
  BY DEF DriverInv
<1>2. DeviceTyped(Owner) /\ DeviceTyped(Owner)'
  BY <1>1, DeviceTypes, DeviceTypesNext, DriverAssumption
<1>3. kernel[Owner].floor <= kernel'[Owner].floor
  BY <1>2 DEF Grows, DeviceTyped
<1>4. /\ it.from \in Devices /\ it.seq \in Nat
      /\ kernel[Owner].floor \in Nat /\ kernel'[Owner].floor \in Nat
  BY <1>2 DEF Items, DeviceTyped
<1>5. CASE it.kind = "control"
  <2>1. it.from = Owner /\ it.seq = Number(it) /\ it.seq <= kernel[Owner].floor
    BY <1>5 DEF Vouched
  <2>2. it.seq <= kernel'[Owner].floor
    BY ONLY <1>3, <1>4, <2>1
  <2> QED BY <1>5, <2>1, <2>2 DEF Vouched, Number
<1>6. CASE it.kind # "control"
  <2>1. it.seq \in DOMAIN disk[it.from].jobs /\ kernel[it.from].outbox[it.seq] = it
    BY <1>6 DEF Vouched
  <2>2. it.seq > 0 /\ it.seq <= Len(kernel[it.from].outbox)
    BY <1>4, <2>1 DEF DriverInv, Holds, QueuesHold, Covers
  <2>3. Len(kernel[it.from].outbox) \in Nat
    BY <1>1, <1>4, DeviceTypes DEF DeviceTyped
  <2>4. it.seq \in 1..Len(kernel[it.from].outbox)
    BY ONLY <1>4, <2>2, <2>3, Within
  <2>5. kernel'[it.from].outbox[it.seq] = it /\ it.seq \in DOMAIN disk'[it.from].jobs
    BY <1>4, <2>1, <2>4 DEF Grows
  <2> QED BY <1>6, <2>5 DEF Vouched
<1> QED BY <1>5, <1>6

\* MailHolds is that every item is vouched for and none is there twice.
LEMMA MailVouched ==
    MailHolds <=> \A p \in Positions : /\ Vouched(Mail(p))
                                       /\ \A q \in Positions : Mail(p) = Mail(q) => p = q
BY DEF MailHolds, Vouched

\* The same after a step.
LEMMA MailVouchedNext ==
    MailHolds' <=> (\A p \in Positions : /\ Vouched(Mail(p))
                                         /\ \A q \in Positions : Mail(p) = Mail(q) => p = q)'
<1>1. (MailHolds <=> \A p \in Positions : /\ Vouched(Mail(p))
                                          /\ \A q \in Positions : Mail(p) = Mail(q) => p = q)'
  BY MailVouched, PTL
<1> QED BY <1>1

\* The mailbox stays as it is, or it gets an item that is not in it and that
\* is vouched for.
LEMMA MailKept ==
    ASSUME DriverInv, Types', Grows,
           \/ mailbox' = mailbox
           \/ \E it \in Items, d \in Devices :
                 /\ mailbox' = Append(mailbox, [item |-> it, by |-> d])
                 /\ ~Held(it) /\ Vouched(it)
    PROVE  MailHolds'
<1>1. Types /\ MailHolds
  BY DEF DriverInv
<1>2. ASSUME NEW p \in Positions
      PROVE  p \in Positions' /\ Mail(p)' = Mail(p) /\ Vouched(Mail(p))'
  <2>1. p \in Positions' /\ Mail(p)' = Mail(p)
    BY <1>1, MailStays
  <2>2. PICK it \in Items : it = Mail(p)
    BY <1>1, MailTypes
  <2>3. Vouched(it)'
    BY <1>1, <2>2, MailVouched, VouchedStays
  <2> QED BY <2>1, <2>2, <2>3 DEF Vouched, Number
<1>3. \A p, q \in Positions : Mail(p) = Mail(q) => p = q
  BY <1>1, MailVouched
<1>4. CASE mailbox' = mailbox
  <2>1. Positions' = Positions
    BY <1>4 DEF Positions
  <2> QED BY <1>2, <1>3, <2>1, MailVouchedNext
<1>5. ASSUME NEW it \in Items, NEW d \in Devices,
             mailbox' = Append(mailbox, [item |-> it, by |-> d]), ~Held(it), Vouched(it)
      PROVE  MailHolds'
  <2>1. mailbox \in Seq(Letters) /\ Len(mailbox) \in Nat
    BY <1>1 DEF Types
  <2>2. Len(mailbox') = Len(mailbox) + 1 /\ mailbox'[Len(mailbox) + 1] = [item |-> it, by |-> d]
    BY <1>5, <2>1
  <2>0. PICK n \in Nat : n = Len(mailbox) + 1
    BY <2>1
  <2>3. Positions' = Positions \cup {n} /\ n \notin Positions
    BY <2>0, <2>1, <2>2 DEF Positions
  <2>4. Mail(n)' = it
    BY <2>0, <2>2 DEF Mail
  <2>5. Vouched(it)'
    BY <1>5, VouchedStays
  <2>6. Vouched(Mail(n))'
    BY <2>4, <2>5 DEF Vouched, Number
  <2>7. \A p \in Positions : Mail(p) # it
    BY <1>5 DEF Held
  <2>8. \A p \in Positions' : Vouched(Mail(p))'
    BY <1>2, <2>3, <2>6
  <2>9. \A p, q \in Positions' : Mail(p)' = Mail(q)' => p = q
    BY <1>2, <1>3, <2>3, <2>4, <2>7
  <2> QED BY <2>8, <2>9, MailVouchedNext
<1> QED BY <1>4, <1>5

\* A device that a step leaves alone.
LEMMA OthersHold ==
    ASSUME DriverInv, Types', Grows, NEW e \in Devices,
           kernel'[e] = kernel[e], disk'[e] = disk[e], mem'[e] = mem[e]
    PROVE  Holds(e)'
<1>1. Types /\ Holds(e)
  BY DEF DriverInv
<1>2. KernelHolds(e)'
  BY KernelKept
<1>3. QueuesHold(e)'
  BY QueuesKept
<1>4. MemHolds(e)'
  <2>1. Json(e)' = Json(e)
    BY DEF Json
  <2>2. \A i \in 1..Len(mem'[e].visit) : mem'[e].visit[i] \in 1..disk'[e].staged
    BY <1>1 DEF Holds, MemHolds
  <2> QED BY <2>1, <2>2, MemKept
<1>5. MarksHold(e)'
  <2>1. /\ Len(mailbox) \in Nat /\ Len(mailbox') \in Nat /\ disk[e].staged \in Nat
        /\ Len(mailbox) <= Len(mailbox') /\ disk[e].staged <= Len(mailbox)
    BY <1>1, DeviceTypes, DeviceTypesNext DEF DeviceTyped, Grows, Holds, MarksHold
  <2>2. disk[e].staged <= disk'[e].staged /\ disk'[e].staged <= Len(mailbox')
    BY <2>1
  <2>3. 1..disk'[e].cp.applied \subseteq Json(e)
    BY <1>1 DEF Holds, MarksHold
  <2> QED BY <1>3, <2>2, <2>3, MarksKept
<1> QED BY <1>2, <1>3, <1>4, <1>5 DEF Holds

\* A step of device d that leaves the kernels and the mailbox alone and
\* only adds to the queues.
LEMMA StillGrows ==
    ASSUME Types, NEW d \in Devices, UNCHANGED <<room, kernel, mailbox>>,
           \A e \in Devices \ {d} : disk'[e] = disk[e],
           DOMAIN disk[d].jobs \subseteq DOMAIN disk'[d].jobs,
           DOMAIN disk[d].controls \subseteq DOMAIN disk'[d].controls
    PROVE  Grows
<1>1. Len(mailbox) \in Nat
  BY DEF Types
<1>2. \A e \in Devices : /\ kernel[e].floor \in Nat /\ Len(kernel[e].outbox) \in Nat
                         /\ Len(kernel[e].inbox) \in Nat
  BY DeviceTypes DEF DeviceTyped
<1> QED BY <1>1, <1>2 DEF Grows

\* The parts of a step of device d together.
LEMMA Together ==
    ASSUME DriverInv, Types', Grows, NEW d \in Devices, Holds(d)', MailHolds',
           \A e \in Devices \ {d} :
              kernel'[e] = kernel[e] /\ disk'[e] = disk[e] /\ mem'[e] = mem[e]
    PROVE  DriverInv'
<1>1. \A e \in Devices : Holds(e)'
  BY OthersHold
<1> QED BY <1>1 DEF DriverInv

\* A step of device d from the parts of the invariant it must keep.
LEMMA DeviceStep ==
    ASSUME DriverInv, Types', NEW d \in Devices, UNCHANGED <<room, kernel, mailbox>>,
           \A e \in Devices \ {d} : disk'[e] = disk[e] /\ mem'[e] = mem[e],
           DOMAIN disk[d].jobs \subseteq DOMAIN disk'[d].jobs,
           DOMAIN disk[d].controls \subseteq DOMAIN disk'[d].controls,
           QueuesHold(d)', MemHolds(d)', MarksHold(d)'
    PROVE  DriverInv'
<1>1. Types
  BY DEF DriverInv
<1>2. Grows
  BY <1>1, StillGrows
<1>3. MailHolds'
  BY <1>2, MailKept
<1>4. KernelHolds(d)'
  BY <1>2, KernelKept
<1> QED BY <1>2, <1>3, <1>4, Together DEF Holds
-----------------------------------------------------------------------------
(* What the driver computes.                                               *)

\* round_robin visits staged positions only.
LEMMA RoundRobinFacts ==
    ASSUME NEW a \in Nat, NEW h \in Nat, NEW n \in Nat
    PROVE  /\ RoundRobin(a, h, n) \in Seq(Nat)
           /\ \A i \in 1..Len(RoundRobin(a, h, n)) : RoundRobin(a, h, n)[i] \in 1..h
<1> DEFINE start == IF n \in (a + 1)..h THEN n ELSE a + 1
           left  == [i \in 1..(h - start + 1) |-> start + i - 1]
           right == [i \in 1..(start - a - 1) |-> a + i]
           order == left \o right
           k == Min({Page, Len(order)})
<1>0. Page \in Nat
  BY DriverAssumption
<1>1. CASE a >= h
  <2>1. RoundRobin(a, h, n) = <<>>
    BY <1>1 DEF RoundRobin
  <2>2. <<>> \in Seq(Nat) /\ Len(<<>>) = 0
    OBVIOUS
  <2> QED BY <2>1, <2>2
<1>2. CASE ~(a >= h)
  <2>1. start \in Nat /\ start >= a + 1 /\ start <= h
    BY <1>2
  <2> HIDE DEF start
  <2>2. /\ h - start + 1 \in Nat /\ start - a - 1 \in Nat
        /\ \A i \in 1..(h - start + 1) : start + i - 1 \in 1..h
        /\ \A i \in 1..(start - a - 1) : a + i \in 1..h
    BY <2>1
  <2>3. left \in Seq(1..h) /\ right \in Seq(1..h)
    <3>1. left \in [1..(h - start + 1) -> 1..h] /\ right \in [1..(start - a - 1) -> 1..h]
      BY <2>2
    <3> HIDE DEF left, right
    <3> QED BY <2>2, <3>1, SeqDef
  <2> HIDE DEF left, right
  <2>4. order \in Seq(1..h) /\ Len(order) \in Nat
    BY <2>3
  <2> HIDE DEF order
  <2>5. k \in Nat /\ k <= Len(order)
    BY <1>0, <2>4, MinOfTwo
  <2>6. RoundRobin(a, h, n) = SubSeq(order, 1, k)
    BY <1>2 DEF RoundRobin, order, left, right, start
  <2> HIDE DEF k
  <2>7. SubSeq(order, 1, k) \in Seq(1..h)
    BY <2>4, <2>5
  <2>8. RoundRobin(a, h, n) \in Seq(1..h)
    BY <2>6, <2>7
  <2> HIDE DEF RoundRobin
  <2> QED BY <2>8
<1> QED BY <1>1, <1>2

\* complete moves the watermark over marked positions only.
LEMMA CompleteFacts ==
    ASSUME NEW d \in Devices, NEW n \in Nat, NEW J \in SUBSET (1..n), NEW p \in J,
           mem[d].applied \in Nat, 1..mem[d].applied \subseteq J, mem[d].ahead \subseteq J
    PROVE  /\ Complete(d, p).applied \in Nat
           /\ 1..Complete(d, p).applied \subseteq J
           /\ Complete(d, p).ahead \subseteq J
<1> DEFINE b == mem[d].applied
           all == {x \in mem[d].ahead \cup {p} : x > b}
           S == {k \in {b} \cup all : (b + 1)..k \subseteq all}
           a == Max(S)
<1>1. all \subseteq J /\ b \in Nat
  OBVIOUS
<1>2. b <= n
  <2>1. b = 0 \/ b \in 1..b
    BY <1>1
  <2> QED BY <2>1
<1>0. 1..b \subseteq J
  OBVIOUS
<1> HIDE DEF all, b
<1>3. S \subseteq 0..n
  <2>1. \A x \in all : x \in 1..n
    BY <1>1
  <2>2. \A x \in 1..n : x \in 0..n
    OBVIOUS
  <2>3. b \in 0..n
    BY <1>1, <1>2
  <2> QED BY ONLY <2>1, <2>2, <2>3
<1>4. b \in S
  BY <1>1
<1>5. a \in S
  BY <1>3, <1>4, Greatest
<1>6. Complete(d, p).applied = a /\ Complete(d, p).ahead = {x \in all : x > a}
  BY DEF Complete, all, b
<1> HIDE DEF a
<1>7. a \in Nat
  BY <1>3, <1>5
<1>8. \A x \in 1..a : x \in 1..b \/ x \in (b + 1)..a
  BY <1>1, <1>7
<1>10. (b + 1)..a \subseteq all
  BY <1>5
<1>11. 1..a \subseteq J
  BY <1>1, <1>0, <1>8, <1>10
<1> QED BY <1>1, <1>6, <1>7, <1>11

\* The bounds of the run in a step.
LEMMA RoomFacts ==
    ASSUME Types
    PROVE  /\ MaxDeaths \in Nat /\ MaxFaults \in Nat
           /\ Emits \subseteq Devices
           /\ Script \in [Devices -> Seq(Changes \cup {"app", "contact", "offer"})]
           /\ \A d \in Devices \ {Owner} : Changes \cap ToSet(Script[d]) = {}
BY DriverAssumption DEF Types, MaxDeaths, MaxFaults, Emits, Script

-----------------------------------------------------------------------------
(* The steps between ticks and the watermarks.                             *)

\* A step of d that only moves the driver itself.
LEMMA MemStep ==
    ASSUME DriverInv, NEW d \in Devices, mem' \in [Devices -> Mems],
           UNCHANGED <<room, mailbox, kernel, disk, done, refused, deaths>>,
           faults' \in 0..MaxFaults,
           \A e \in Devices \ {d} : mem'[e] = mem[e],
           MemHolds(d)'
    PROVE  DriverInv'
<1>1. Types /\ Holds(d)
  BY DEF DriverInv
<1>2. Types'
  BY <1>1 DEF Types, MaxDeaths, MaxFaults
<1>3. Grows
  BY <1>1, StillGrows
<1>4. QueuesHold(d)'
  BY <1>2, <1>3, QueuesKept
<1>5. MarksHold(d)'
  <2>1. disk[d].staged <= disk'[d].staged /\ disk'[d].staged <= Len(mailbox')
    BY <1>1, DeviceTypes DEF DeviceTyped, Holds, MarksHold
  <2>2. 1..disk'[d].cp.applied \subseteq Json(d)
    BY <1>1 DEF Holds, MarksHold
  <2> QED BY <1>2, <1>3, <1>4, <2>1, <2>2, MarksKept
<1> QED BY <1>2, <1>4, <1>5, DeviceStep

\* The same, for a driver that keeps its place and what it has applied.
LEMMA MemStepKept ==
    ASSUME DriverInv, NEW d \in Devices, mem' \in [Devices -> Mems],
           UNCHANGED <<room, mailbox, kernel, disk, done, refused, deaths>>,
           faults' \in 0..MaxFaults,
           \A e \in Devices \ {d} : mem'[e] = mem[e],
           mem'[d].out = mem[d].out, mem'[d].cout = mem[d].cout,
           mem'[d].applied = mem[d].applied, mem'[d].ahead = mem[d].ahead,
           mem'[d].stage = "poll" => mem[d].stage = "poll",
           \A i \in 1..Len(mem'[d].visit) : mem'[d].visit[i] \in 1..disk[d].staged
    PROVE  DriverInv'
<1>1. Types /\ Types' /\ Grows
  <2>1. Types
    BY DEF DriverInv
  <2>2. Types'
    BY <2>1 DEF Types, MaxDeaths, MaxFaults
  <2> QED BY <2>1, <2>2, StillGrows
<1>2. Json(d)' = Json(d)
  BY DEF Json
<1>3. MemHolds(d)'
  BY <1>1, <1>2, MemKept
<1> QED BY <1>3, MemStep

\* The positions a pass has left.
LEMMA VisitFacts ==
    ASSUME DriverInv, NEW d \in Devices, mem[d].visit # <<>>
    PROVE  /\ Tail(mem[d].visit) \in Seq(Nat)
           /\ Head(mem[d].visit) \in 1..disk[d].staged /\ Head(mem[d].visit) + 1 \in Nat
           /\ \A i \in 1..Len(Tail(mem[d].visit)) : Tail(mem[d].visit)[i] \in 1..disk[d].staged
<1>1. mem[d].visit \in Seq(Nat) /\ \A i \in 1..Len(mem[d].visit) : mem[d].visit[i] \in 1..disk[d].staged
  BY DeviceTypes DEF DriverInv, Holds, MemHolds, DeviceTyped
<1>2. PICK q, k : q = mem[d].visit /\ k = disk[d].staged
  OBVIOUS
<1>3. q \in Seq(Nat) /\ q # <<>> /\ \A i \in 1..Len(q) : q[i] \in 1..k
  BY <1>1, <1>2
<1>4. Tail(q) \in Seq(Nat) /\ Head(q) \in 1..k /\ Head(q) + 1 \in Nat
  BY <1>3
<1>5. \A i \in 1..Len(Tail(q)) : i + 1 \in 1..Len(q) /\ Tail(q)[i] = q[i + 1]
  BY <1>3
<1> QED BY <1>2, <1>3, <1>4, <1>5

\* Leaving a position keeps the types.
LEMMA VisitedTypes ==
    ASSUME mem \in [Devices -> Mems], NEW d \in Devices, NEW a,
           a.applied \in Nat, a.ahead \in SUBSET Nat,
           Tail(mem[d].visit) \in Seq(Nat), Head(mem[d].visit) + 1 \in Nat
    PROVE  /\ Visited(d, a) \in [Devices -> Mems]
           /\ Visited(d, a)[d] = [mem[d] EXCEPT !.visit = Tail(mem[d].visit), !.busy = FALSE,
                                                !.next = Head(mem[d].visit) + 1,
                                                !.applied = a.applied, !.ahead = a.ahead]
           /\ \A e \in Devices \ {d} : Visited(d, a)[e] = mem[e]
<1> DEFINE new == [mem[d] EXCEPT !.visit = Tail(mem[d].visit), !.busy = FALSE,
                                 !.next = Head(mem[d].visit) + 1,
                                 !.applied = a.applied, !.ahead = a.ahead]
<1>1. new \in Mems
  <2>1. mem[d] \in Mems
    OBVIOUS
  <2> QED BY <2>1 DEF Mems
<1>2. Visited(d, a) = [mem EXCEPT ![d] = new]
  <2>1. mem[d] \in Mems
    OBVIOUS
  <2> QED BY <2>1 DEF Visited, Mems
<1> HIDE DEF new
<1>3. Visited(d, a) \in [Devices -> Mems] /\ Visited(d, a)[d] = new
      /\ \A e \in Devices \ {d} : Visited(d, a)[e] = mem[e]
  BY <1>1, <1>2
<1> QED BY <1>3 DEF new

\* A tick begins.
LEMMA BeginTickKeeps ==
    ASSUME DriverInv, room' = room, NEW d \in Devices, BeginTick(d)
    PROVE  DriverInv'
<1>1. Types /\ mem[d] \in Mems /\ faults \in 0..MaxFaults
  BY DeviceTypes DEF DriverInv, DeviceTyped, Types
<1>2. /\ mem' = [mem EXCEPT ![d].stage = "fill", ![d].visit = <<>>]
      /\ UNCHANGED <<mailbox, kernel, disk, done, refused, deaths, faults>>
  BY DEF BeginTick, Go, worldVars
<1>3. mem' \in [Devices -> Mems]
  <2>1. <<>> \in Seq(Nat) /\ "fill" \in Stages /\ mem \in [Devices -> Mems]
    BY <1>1 DEF Stages, Types
  <2> QED BY ONLY <1>2, <2>1 DEF Mems
<1>4. /\ mem'[d].out = mem[d].out /\ mem'[d].cout = mem[d].cout
      /\ mem'[d].applied = mem[d].applied /\ mem'[d].ahead = mem[d].ahead
      /\ mem'[d].stage = "fill" /\ mem'[d].visit = <<>> /\ Len(<<>>) = 0
      /\ \A e \in Devices \ {d} : mem'[e] = mem[e]
  BY <1>1, <1>2 DEF Types, Mems
<1> QED BY <1>1, <1>2, <1>3, <1>4, MemStepKept

\* The driver goes on to its next position.
LEMMA VisitedKeeps ==
    ASSUME DriverInv, NEW d \in Devices, mem[d].visit # <<>>,
           mem' = Visited(d, Same(d)),
           UNCHANGED <<room, mailbox, kernel, disk, done, refused, deaths>>,
           faults' \in 0..MaxFaults
    PROVE  DriverInv'
<1>1. Types /\ mem[d] \in Mems
  BY DeviceTypes DEF DriverInv, DeviceTyped
<1>2. /\ Tail(mem[d].visit) \in Seq(Nat) /\ Head(mem[d].visit) + 1 \in Nat
      /\ \A i \in 1..Len(Tail(mem[d].visit)) : Tail(mem[d].visit)[i] \in 1..disk[d].staged
  BY VisitFacts
<1>3. mem' \in [Devices -> Mems]
  BY <1>1, <1>2 DEF Types, Mems, Visited, Same
<1>4. /\ mem'[d].out = mem[d].out /\ mem'[d].cout = mem[d].cout
      /\ mem'[d].applied = mem[d].applied /\ mem'[d].ahead = mem[d].ahead
      /\ mem'[d].stage = mem[d].stage /\ mem'[d].visit = Tail(mem[d].visit)
      /\ \A e \in Devices \ {d} : mem'[e] = mem[e]
  BY <1>1 DEF Types, Mems, Visited, Same
<1> QED BY <1>2, <1>3, <1>4, MemStepKept

\* A marked position is passed over, or one is left for a later pass.
LEMMA PassOverKeeps ==
    ASSUME DriverInv, room' = room, NEW d \in Devices, PassOver(d) \/ Defer(d)
    PROVE  DriverInv'
<1>1. /\ mem[d].visit # <<>> /\ mem' = Visited(d, Same(d))
      /\ UNCHANGED <<mailbox, kernel, disk, done, refused, deaths>>
      /\ faults' = faults \/ (faults < MaxFaults /\ faults' = faults + 1)
  BY DEF PassOver, Defer, Here, Unmarked, worldVars
<1>2. faults' \in 0..MaxFaults
  <2>1. faults \in 0..MaxFaults /\ MaxFaults \in Nat
    BY RoomFacts DEF DriverInv, Types
  <2> QED BY <1>1, <2>1
<1> QED BY <1>1, <1>2, VisitedKeeps

\* applied_restore and the boundaries of catch_up accept what is there.
LEMMA OpenAccepts ==
    ASSUME DriverInv, NEW d \in Devices
    PROVE  Restores(d) /\ Boundaries(d)
<1>1. Types /\ QueuesHold(d) /\ MarksHold(d) /\ DeviceTyped(d)
  BY DeviceTypes DEF DriverInv, Holds
<1>2. Restores(d)
  BY <1>1 DEF MarksHold, Restores, Json
<1>3. ASSUME disk[d].cp.out # 0
      PROVE  /\ disk[d].cp.out <= Len(kernel[d].outbox)
             /\ \/ ~Relayed(kernel[d].outbox[disk[d].cp.out])
                \/ disk[d].cp.out \in DOMAIN disk[d].jobs
  <2>1. Covers(d, disk[d].cp.out) /\ disk[d].cp.out \in Nat
    BY <1>1 DEF QueuesHold, DeviceTyped
  <2>2. disk[d].cp.out \in 1..disk[d].cp.out
    BY <1>3, <2>1
  <2> QED BY <2>1, <2>2 DEF Covers
<1>4. ASSUME disk[d].ccp > Base[d]
      PROVE  disk[d].ccp <= kernel[d].floor /\ disk[d].ccp \in DOMAIN disk[d].controls
  <2>1. disk[d].ccp \in Nat /\ Base[d] \in Nat /\ kernel[d].floor \in Nat
    BY <1>1 DEF DeviceTyped
  <2>2. disk[d].ccp \in (Base[d] + 1)..disk[d].ccp
    BY <1>4, <2>1
  <2>3. disk[d].ccp \in DOMAIN disk[d].controls
    BY <1>1, <2>2 DEF QueuesHold
  <2>4. disk[d].ccp \in (Base[d] + 1)..kernel[d].floor
    BY <1>1, <2>3 DEF QueuesHold
  <2> QED BY ONLY <2>1, <2>3, <2>4, Within
<1> QED BY <1>2, <1>3, <1>4 DEF Boundaries

\* A driver is opened on its files.
LEMMA OpenKeeps ==
    ASSUME DriverInv, room' = room, NEW d \in Devices, Open(d)
    PROVE  DriverInv'
<1>1. Types /\ QueuesHold(d) /\ DeviceTyped(d) /\ faults \in 0..MaxFaults
  BY DeviceTypes DEF DriverInv, Holds, Types
<1>2. /\ mem' = [mem EXCEPT ![d] = Launched(disk[d].cp, disk[d].ccp)]
      /\ UNCHANGED <<mailbox, kernel, disk, done, refused, deaths, faults>>
  BY OpenAccepts DEF Open, worldVars
<1>3. Launched(disk[d].cp, disk[d].ccp) \in Mems
  BY <1>1 DEF Launched, Mems, Stages, DeviceTyped
<1>4. mem' \in [Devices -> Mems] /\ mem'[d] = Launched(disk[d].cp, disk[d].ccp)
      /\ \A e \in Devices \ {d} : mem'[e] = mem[e]
  BY <1>1, <1>2, <1>3 DEF Types
<1>5. /\ mem'[d].out = disk[d].cp.out /\ mem'[d].cout = disk[d].ccp /\ mem'[d].applied = 0
      /\ mem'[d].ahead = {} /\ mem'[d].visit = <<>> /\ Len(<<>>) = 0 /\ mem'[d].stage # "poll"
  BY <1>4 DEF Launched
<1>6. MemHolds(d)'
  <2>1. Covers(d, mem[d].out)'
    BY <1>1, <1>2, <1>5 DEF QueuesHold, Covers
  <2>2. ((Base[d] + 1)..mem[d].cout \subseteq DOMAIN disk[d].controls)'
    BY <1>1, <1>2, <1>5 DEF QueuesHold, Base
  <2> QED BY <1>5, <2>1, <2>2 DEF MemHolds
<1> QED BY <1>1, <1>2, <1>4, <1>6, MemStep

\* restore_marker confirms every marker it meets, and complete counts it.
LEMMA RestoreKeeps ==
    ASSUME DriverInv, room' = room, NEW d \in Devices, Restore(d)
    PROVE  DriverInv'
<1>1. Types /\ MemHolds(d) /\ MarksHold(d) /\ DeviceTyped(d) /\ faults \in 0..MaxFaults
  BY DeviceTypes DEF DriverInv, Holds, Types
<1>2. PICK p \in Positions :
         /\ mem[d].visit # <<>> /\ p = Head(mem[d].visit) /\ Mark(d, p).at = "json"
         /\ IF MarkerHolds(d, Mail(p), Mark(d, p).marker)
            THEN mem' = Visited(d, Complete(d, p)) /\ UNCHANGED <<disk, worldVars>>
            ELSE Refuse(d, "marker")
  BY DEF Restore, Here
<1>3. p \in Json(d) /\ Mark(d, p) = disk[d].marks[p]
  BY <1>2 DEF Mark, Nothing, Json
<1>4. MarkerHolds(d, Mail(p), Mark(d, p).marker)
  BY <1>1, <1>3 DEF MarksHold, Sound
<1>5. /\ mem' = Visited(d, Complete(d, p))
      /\ UNCHANGED <<mailbox, kernel, disk, done, refused, deaths, faults>>
  BY <1>2, <1>4 DEF worldVars
<1>6. /\ Complete(d, p).applied \in Nat
      /\ 1..Complete(d, p).applied \subseteq Json(d)
      /\ Complete(d, p).ahead \subseteq Json(d)
  <2>1. Json(d) \in SUBSET (1..disk[d].staged) /\ disk[d].staged \in Nat
    BY <1>1 DEF MarksHold, DeviceTyped
  <2>2. mem[d].applied \in Nat /\ 1..mem[d].applied \subseteq Json(d) /\ mem[d].ahead \subseteq Json(d)
    BY <1>1 DEF MemHolds, DeviceTyped
  <2> QED BY <1>3, <2>1, <2>2, CompleteFacts
<1>7. /\ Tail(mem[d].visit) \in Seq(Nat) /\ Head(mem[d].visit) + 1 \in Nat
      /\ \A i \in 1..Len(Tail(mem[d].visit)) : Tail(mem[d].visit)[i] \in 1..disk[d].staged
  BY <1>2, VisitFacts
<1>8. Complete(d, p).ahead \in SUBSET Nat
  <2>1. Json(d) \subseteq Nat
    BY <1>1 DEF Json, DeviceTyped
  <2> QED BY <1>6, <2>1
<1>9. mem' \in [Devices -> Mems]
  <2>1. mem \in [Devices -> Mems]
    BY <1>1 DEF Types
  <2>2. PICK a : a = Complete(d, p)
    OBVIOUS
  <2>3. a.applied \in Nat /\ a.ahead \in SUBSET Nat
    BY <1>6, <1>8, <2>2
  <2>4. Visited(d, a) \in [Devices -> Mems]
    BY <1>7, <2>1, <2>3, VisitedTypes, Zenon
  <2> QED BY <1>5, <2>2, <2>4
<1>10. /\ mem'[d].out = mem[d].out /\ mem'[d].cout = mem[d].cout
       /\ mem'[d].applied = Complete(d, p).applied /\ mem'[d].ahead = Complete(d, p).ahead
       /\ mem'[d].stage = mem[d].stage /\ mem'[d].visit = Tail(mem[d].visit)
       /\ \A e \in Devices \ {d} : mem'[e] = mem[e]
  BY <1>1, <1>5 DEF Types, Mems, Visited
<1>11. MemHolds(d)'
  <2>1. Json(d)' = Json(d) /\ Base' = Base
    BY <1>5 DEF Json, Base
  <2>2. Covers(d, mem[d].out)'
    BY <1>1, <1>5, <1>10 DEF MemHolds, Covers
  <2> QED BY <1>1, <1>5, <1>6, <1>7, <1>10, <2>1, <2>2 DEF MemHolds
<1> QED BY <1>1, <1>5, <1>9, <1>10, <1>11, MemStep

\* The end of a tick: save, or what is left of it after the deadline.
LEMMA SavesKeeps ==
    ASSUME DriverInv, NEW d \in Devices, Saves(d),
           UNCHANGED <<room, mailbox, kernel, done, refused, deaths>>,
           faults' \in 0..MaxFaults
    PROVE  DriverInv'
<1>1. Types /\ QueuesHold(d) /\ MemHolds(d) /\ MarksHold(d) /\ DeviceTyped(d)
  BY DeviceTypes DEF DriverInv, Holds
<1> DEFINE top == Max({mem[d].applied, disk[d].cp.applied})
<1>2. top = mem[d].applied \/ top = disk[d].cp.applied
  BY <1>1, MaxOfTwo DEF DeviceTyped
<1> HIDE DEF top
<1>3. top \in Nat /\ mem[d].out \in Nat
  BY <1>1, <1>2 DEF DeviceTyped
<1>4. /\ disk' = [disk EXCEPT ![d].cp = [out |-> mem[d].out, applied |-> top]]
      /\ mem' = [mem EXCEPT ![d].stage = "idle", ![d].visit = <<>>]
  BY DEF Saves, Go, top
<1>5. disk' \in [Devices -> Disks]
  <2>1. disk \in [Devices -> Disks]
    BY <1>1 DEF Types
  <2> QED BY ONLY <1>3, <1>4, <2>1 DEF Disks
<1>6. mem' \in [Devices -> Mems]
  <2>1. <<>> \in Seq(Nat) /\ "idle" \in Stages /\ mem \in [Devices -> Mems]
    BY <1>1 DEF Stages, Types
  <2> QED BY ONLY <1>4, <2>1 DEF Mems
<1>7. Types'
  BY <1>1, <1>5, <1>6 DEF Types, MaxDeaths, MaxFaults
<1>8. /\ disk'[d].jobs = disk[d].jobs /\ disk'[d].controls = disk[d].controls
      /\ disk'[d].ccp = disk[d].ccp /\ disk'[d].staged = disk[d].staged
      /\ disk'[d].marks = disk[d].marks
      /\ disk'[d].cp.out = mem[d].out /\ disk'[d].cp.applied = top
      /\ \A e \in Devices \ {d} : disk'[e] = disk[e]
  BY <1>1, <1>4 DEF Types, Disks
<1>9. /\ mem'[d].out = mem[d].out /\ mem'[d].cout = mem[d].cout
      /\ mem'[d].applied = mem[d].applied /\ mem'[d].ahead = mem[d].ahead
      /\ mem'[d].stage = "idle" /\ mem'[d].visit = <<>> /\ Len(<<>>) = 0
      /\ \A e \in Devices \ {d} : mem'[e] = mem[e]
  BY <1>1, <1>4 DEF Types, Mems
<1>10. Grows
  BY <1>1, <1>8, StillGrows
<1>11. Base' = Base /\ Json(d)' = Json(d)
  BY <1>8 DEF Base, Json
<1>12. QueuesHold(d)'
  BY <1>7, <1>8, <1>10, QueuesKept
<1>13. MemHolds(d)'
  BY <1>7, <1>9, <1>10, <1>11, MemKept
<1>14. MarksHold(d)'
  <2>1. disk[d].staged <= disk'[d].staged /\ disk'[d].staged <= Len(mailbox')
    BY <1>1, <1>8 DEF DeviceTyped, MarksHold
  <2>2. 1..disk'[d].cp.applied \subseteq Json(d)
    BY <1>1, <1>2, <1>8 DEF MarksHold, MemHolds
  <2> QED BY <1>7, <1>8, <1>10, <1>12, <2>1, <2>2, MarksKept
<1> QED BY <1>7, <1>8, <1>9, <1>12, <1>13, <1>14, DeviceStep

\* The checkpoint is saved.
LEMMA SaveKeeps ==
    ASSUME DriverInv, room' = room, NEW d \in Devices, Save(d) \/ Late(d)
    PROVE  DriverInv'
<1>1. /\ Saves(d) /\ UNCHANGED <<mailbox, kernel, done, refused, deaths>>
      /\ faults' = faults \/ (faults < MaxFaults /\ faults' = faults + 1)
  BY DEF Save, Late, worldVars
<1>2. faults' \in 0..MaxFaults
  <2>1. faults \in 0..MaxFaults /\ MaxFaults \in Nat
    BY RoomFacts DEF DriverInv, Types
  <2> QED BY <1>1, <2>1
<1> QED BY <1>1, <1>2, SavesKeeps
-----------------------------------------------------------------------------
(* The queues are filled.                                                  *)

\* The markers of a device whose queues or driver a step changes.
LEMMA MarksStill ==
    ASSUME DriverInv, Types', Grows, NEW d \in Devices, QueuesHold(d)',
           disk'[d].marks = disk[d].marks, disk'[d].staged = disk[d].staged,
           disk'[d].cp = disk[d].cp
    PROVE  MarksHold(d)' /\ Json(d)' = Json(d)
<1>1. Types /\ MarksHold(d) /\ DeviceTyped(d)
  BY DeviceTypes DEF DriverInv, Holds
<1>2. disk[d].staged <= disk'[d].staged /\ disk'[d].staged <= Len(mailbox')
  <2>1. Len(mailbox) \in Nat /\ Len(mailbox') \in Nat /\ disk[d].staged \in Nat
    BY <1>1 DEF DeviceTyped, Types
  <2>2. Len(mailbox) <= Len(mailbox') /\ disk[d].staged <= Len(mailbox)
    BY <1>1 DEF Grows, MarksHold
  <2>3. disk[d].staged <= disk[d].staged /\ disk[d].staged <= Len(mailbox')
    BY ONLY <2>1, <2>2
  <2> QED BY <2>3
<1>3. 1..disk'[d].cp.applied \subseteq Json(d)
  BY <1>1 DEF MarksHold
<1>4. MarksHold(d)'
  BY <1>2, <1>3, MarksKept
<1> QED BY <1>4 DEF Json

\* A control's checkpoint moves to n: everything up to n has its job.
LEMMA SavedKeeps ==
    ASSUME DriverInv, NEW d \in Devices, NEW n \in Nat, Saved(d, n),
           (Base[d] + 1)..n \subseteq DOMAIN disk[d].controls,
           UNCHANGED <<room, mailbox, kernel, done, refused, deaths, faults>>,
           mem[d].stage # "poll"
    PROVE  DriverInv'
<1>1. Types /\ MemHolds(d) /\ QueuesHold(d) /\ DeviceTyped(d)
  BY DeviceTypes DEF DriverInv, Holds
<1>2. mem' = [mem EXCEPT ![d].cout = n] /\ disk' = [disk EXCEPT ![d].ccp = n]
  BY DEF Saved
<1>3. disk \in [Devices -> Disks] /\ mem \in [Devices -> Mems]
  BY <1>1 DEF Types
<1>4. disk' \in [Devices -> Disks]
  BY ONLY <1>2, <1>3, n \in Nat DEF Disks
<1>5. mem' \in [Devices -> Mems]
  BY ONLY <1>2, <1>3, n \in Nat DEF Mems
<1>6. Types'
  BY <1>1, <1>4, <1>5 DEF Types, MaxDeaths, MaxFaults
<1>7. /\ disk'[d].jobs = disk[d].jobs /\ disk'[d].controls = disk[d].controls
      /\ disk'[d].cp = disk[d].cp /\ disk'[d].staged = disk[d].staged
      /\ disk'[d].marks = disk[d].marks /\ disk'[d].ccp = n
      /\ \A e \in Devices \ {d} : disk'[e] = disk[e]
  BY <1>2, <1>3 DEF Disks
<1>8. /\ mem'[d].out = mem[d].out /\ mem'[d].cout = n
      /\ mem'[d].applied = mem[d].applied /\ mem'[d].ahead = mem[d].ahead
      /\ mem'[d].stage = mem[d].stage /\ mem'[d].visit = mem[d].visit
      /\ \A e \in Devices \ {d} : mem'[e] = mem[e]
  BY <1>2, <1>3 DEF Mems
<1>9. Grows
  BY <1>1, <1>7, StillGrows
<1>10. \A s \in DOMAIN disk[d].jobs :
          /\ s > 0 /\ Covers(d, s)' /\ Relayed(kernel[d].outbox[s])'
          /\ disk[d].jobs[s] = "retained" => Held(kernel[d].outbox[s])'
  BY <1>1, <1>6, <1>9, JobsStay DEF QueuesHold
<1>11. Covers(d, disk[d].cp.out)' /\ Covers(d, mem[d].out)'
  BY <1>1, <1>7, <1>8 DEF QueuesHold, MemHolds, Covers
<1>12. Base' = Base
  BY DEF Base
<1>13. QueuesHold(d)'
  <2>1. DOMAIN disk[d].controls \subseteq (Base[d] + 1)..kernel[d].floor
    BY <1>1 DEF QueuesHold
  <2> QED BY <1>7, <1>10, <1>11, <1>12, <2>1 DEF QueuesHold, Relayed
<1>14. MarksHold(d)' /\ Json(d)' = Json(d)
  BY <1>6, <1>7, <1>9, <1>13, MarksStill
<1>15. MemHolds(d)'
  BY <1>1, <1>7, <1>8, <1>11, <1>12, <1>14 DEF MemHolds
<1> QED BY <1>6, <1>7, <1>8, <1>13, <1>14, <1>15, DeviceStep

\* The controls' checkpoint is saved.
LEMMA SaveControlKeeps ==
    ASSUME DriverInv, room' = room, NEW d \in Devices, CatchUpBase(d) \/ SaveControl(d)
    PROVE  DriverInv'
<1>1. Types /\ MemHolds(d) /\ QueuesHold(d) /\ DeviceTyped(d)
  BY DeviceTypes DEF DriverInv, Holds
<1>2. UNCHANGED <<mailbox, kernel, done, refused, deaths, faults>> /\ mem[d].stage # "poll"
  BY DEF CatchUpBase, SaveControl, worldVars, At, Stage
<1>3. CASE CatchUpBase(d)
  <2>1. Base[d] \in Nat /\ Saved(d, Base[d])
    BY <1>1, <1>3 DEF CatchUpBase, DeviceTyped
  <2>2. (Base[d] + 1)..Base[d] = {}
    BY <2>1
  <2> QED BY <1>2, <2>1, <2>2, SavedKeeps
<1>4. CASE SaveControl(d)
  <2>1. /\ mem[d].cout \in Nat /\ Base[d] \in Nat /\ Saved(d, mem[d].cout + 1)
        /\ mem[d].cout + 1 \in DOMAIN disk[d].controls
        /\ (Base[d] + 1)..mem[d].cout \subseteq DOMAIN disk[d].controls
    BY <1>1, <1>4 DEF SaveControl, DeviceTyped, MemHolds
  <2>2. PICK c : c = mem[d].cout
    OBVIOUS
  <2>3. /\ c + 1 \in Nat
        /\ \A x \in (Base[d] + 1)..(c + 1) : x = c + 1 \/ x \in (Base[d] + 1)..c
    BY <2>1, <2>2
  <2>4. (Base[d] + 1)..(c + 1) \subseteq DOMAIN disk[d].controls
    BY <2>1, <2>2, <2>3
  <2> QED BY <1>2, <2>1, <2>2, <2>3, <2>4, SavedKeeps
<1> QED BY <1>3, <1>4

\* The owner queues a control.
LEMMA EnqueueControlKeeps ==
    ASSUME DriverInv, room' = room, NEW d \in Devices, EnqueueControl(d)
    PROVE  DriverInv'
<1>1. Types /\ MemHolds(d) /\ QueuesHold(d) /\ DeviceTyped(d)
  BY DeviceTypes DEF DriverInv, Holds
<1>2. PICK n \in Nat : n = mem[d].cout + 1
  BY <1>1 DEF DeviceTyped
<1>3. /\ disk' = [disk EXCEPT ![d].controls = With(disk[d].controls, n, "pending")]
      /\ UNCHANGED <<mem, mailbox, kernel, done, refused, deaths, faults>>
      /\ mem[d].cout >= Base[d] /\ mem[d].cout < kernel[d].floor /\ mem[d].stage # "poll"
  BY <1>2 DEF EnqueueControl, worldVars, At, Stage
<1> DEFINE q == With(disk[d].controls, n, "pending")
<1>4. q \in Queues /\ DOMAIN q = DOMAIN disk[d].controls \cup {n}
  <2>1. disk[d].controls \in Queues /\ "pending" \in JobStates
    BY <1>1 DEF DeviceTyped, JobStates
  <2> QED BY ONLY <2>1, n \in Nat, WithQueue, WithFacts
<1> HIDE DEF q
<1>5. disk \in [Devices -> Disks] /\ disk' = [disk EXCEPT ![d].controls = q]
  BY <1>1, <1>3 DEF Types, q
<1>6. disk' \in [Devices -> Disks]
  BY ONLY <1>4, <1>5 DEF Disks
<1>7. Types'
  BY <1>1, <1>3, <1>6 DEF Types, MaxDeaths, MaxFaults
<1>8. /\ disk'[d].jobs = disk[d].jobs /\ disk'[d].controls = q
      /\ disk'[d].cp = disk[d].cp /\ disk'[d].staged = disk[d].staged
      /\ disk'[d].marks = disk[d].marks /\ disk'[d].ccp = disk[d].ccp
      /\ \A e \in Devices \ {d} : disk'[e] = disk[e]
  BY <1>5 DEF Disks
<1>9. Grows
  BY <1>1, <1>3, <1>4, <1>8, StillGrows
<1>10. \A s \in DOMAIN disk[d].jobs :
          /\ s > 0 /\ Covers(d, s)' /\ Relayed(kernel[d].outbox[s])'
          /\ disk[d].jobs[s] = "retained" => Held(kernel[d].outbox[s])'
  BY <1>1, <1>7, <1>9, JobsStay DEF QueuesHold
<1>11. Covers(d, disk[d].cp.out)' /\ Covers(d, mem[d].out)'
  BY <1>1, <1>3, <1>8 DEF QueuesHold, MemHolds, Covers
<1>12. Base' = Base
  BY DEF Base
<1>13. n \in (Base[d] + 1)..kernel[d].floor
  <2>1. Base[d] \in Nat /\ kernel[d].floor \in Nat /\ mem[d].cout \in Nat
    BY <1>1 DEF DeviceTyped
  <2> QED BY ONLY <1>2, <1>3, <2>1
<1>14. QueuesHold(d)'
  <2>1. DOMAIN disk[d].controls \subseteq (Base[d] + 1)..kernel[d].floor
    BY <1>1 DEF QueuesHold
  <2>2. (Base[d] + 1)..disk[d].ccp \subseteq DOMAIN q
    BY <1>1, <1>4 DEF QueuesHold
  <2> QED BY <1>3, <1>4, <1>8, <1>10, <1>11, <1>12, <1>13, <2>1, <2>2 DEF QueuesHold, Relayed
<1>15. MarksHold(d)' /\ Json(d)' = Json(d)
  BY <1>7, <1>8, <1>9, <1>14, MarksStill
<1>16. MemHolds(d)'
  BY <1>1, <1>3, <1>4, <1>8, <1>11, <1>12, <1>15 DEF MemHolds
<1> QED BY <1>3, <1>4, <1>7, <1>8, <1>14, <1>15, <1>16, DeviceStep

\* One record of the outbox is queued, or needs no job.
LEMMA CatchUpKeeps ==
    ASSUME DriverInv, room' = room, NEW d \in Devices, CatchUp(d)
    PROVE  DriverInv'
<1>1. Types /\ MemHolds(d) /\ QueuesHold(d) /\ DeviceTyped(d)
  BY DeviceTypes DEF DriverInv, Holds
<1>2. PICK n \in Nat : n = mem[d].out + 1 /\ n > 0 /\ mem[d].out = n - 1 /\ n - 1 \in Nat
  <2>1. mem[d].out \in Nat
    BY <1>1 DEF DeviceTyped
  <2> QED BY ONLY <2>1
<1>3. /\ mem' = [mem EXCEPT ![d].out = n]
      /\ UNCHANGED <<mailbox, kernel, done, refused, deaths, faults>>
      /\ n - 1 < Len(kernel[d].outbox) /\ mem[d].stage # "poll"
      /\ Queued(d) <=> ~Relayed(kernel[d].outbox[n]) \/ n \in DOMAIN disk[d].jobs
  BY <1>2 DEF CatchUp, worldVars, At, Stage, Queued, NextRecord
<1>4. n \in 1..Len(kernel[d].outbox) /\ n <= Len(kernel[d].outbox)
  <2>1. Len(kernel[d].outbox) \in Nat
    BY <1>1 DEF DeviceTyped
  <2> QED BY ONLY <1>2, <1>3, <2>1
<1> DEFINE q == IF Queued(d) THEN disk[d].jobs ELSE With(disk[d].jobs, n, "pending")
<1>5. /\ q \in Queues /\ DOMAIN disk[d].jobs \subseteq DOMAIN q
      /\ DOMAIN q \subseteq DOMAIN disk[d].jobs \cup {n}
      /\ Relayed(kernel[d].outbox[n]) => n \in DOMAIN q
      /\ \A s \in DOMAIN q : s \notin DOMAIN disk[d].jobs =>
            s = n /\ Relayed(kernel[d].outbox[n]) /\ q[s] = "pending"
      /\ \A s \in DOMAIN disk[d].jobs : q[s] = disk[d].jobs[s]
  <2>1. disk[d].jobs \in Queues /\ "pending" \in JobStates
    BY <1>1 DEF DeviceTyped, JobStates
  <2>2. CASE Queued(d)
    BY <1>3, <2>1, <2>2
  <2>3. CASE ~Queued(d)
    <3>1. PICK q0 \in Queues : q0 = disk[d].jobs
      BY <2>1
    <3>2. With(q0, n, "pending") \in Queues
      BY <2>1, WithQueue
    <3>3. /\ DOMAIN With(q0, n, "pending") = DOMAIN q0 \cup {n}
          /\ With(q0, n, "pending")[n] = "pending"
          /\ \A x \in DOMAIN q0 : x # n => With(q0, n, "pending")[x] = q0[x]
      BY DEF With
    <3>4. n \notin DOMAIN disk[d].jobs /\ Relayed(kernel[d].outbox[n])
      BY <1>3, <2>3
    <3> QED BY <2>3, <3>1, <3>2, <3>3, <3>4
  <2> QED BY <2>2, <2>3
<1>6. disk \in [Devices -> Disks] /\ mem \in [Devices -> Mems]
  BY <1>1 DEF Types
<1>7. disk' = [disk EXCEPT ![d].jobs = q]
  <2>1. CASE Queued(d)
    <3>1. disk' = disk
      BY <2>1 DEF CatchUp
    <3>2. [disk EXCEPT ![d].jobs = disk[d].jobs] = disk
      BY <1>6 DEF Disks
    <3> QED BY <2>1, <3>1, <3>2
  <2>2. CASE ~Queued(d)
    BY <1>2, <2>2 DEF CatchUp
  <2> QED BY <2>1, <2>2
<1> HIDE DEF q
<1>8. disk' \in [Devices -> Disks]
  BY ONLY <1>5, <1>6, <1>7 DEF Disks
<1>9. mem' \in [Devices -> Mems]
  BY ONLY <1>3, <1>6, n \in Nat DEF Mems
<1>10. Types'
  BY <1>1, <1>3, <1>8, <1>9 DEF Types, MaxDeaths, MaxFaults
<1>11. /\ disk'[d].jobs = q /\ disk'[d].controls = disk[d].controls
       /\ disk'[d].cp = disk[d].cp /\ disk'[d].staged = disk[d].staged
       /\ disk'[d].marks = disk[d].marks /\ disk'[d].ccp = disk[d].ccp
       /\ \A e \in Devices \ {d} : disk'[e] = disk[e]
  BY <1>6, <1>7 DEF Disks
<1>12. /\ mem'[d].out = n /\ mem'[d].cout = mem[d].cout
       /\ mem'[d].applied = mem[d].applied /\ mem'[d].ahead = mem[d].ahead
       /\ mem'[d].stage = mem[d].stage /\ mem'[d].visit = mem[d].visit
       /\ \A e \in Devices \ {d} : mem'[e] = mem[e]
  BY <1>3, <1>6 DEF Mems
<1>13. Grows
  BY <1>1, <1>3, <1>5, <1>11, StillGrows
<1>14. Covers(d, n)'
  <2>1. \A s \in 1..n : s \in 1..(n - 1) \/ s = n
    BY <1>2
  <2>2. \A s \in 1..(n - 1) : Relayed(kernel[d].outbox[s]) => s \in DOMAIN disk[d].jobs
    BY <1>1, <1>2 DEF MemHolds, Covers
  <2>3. \A s \in 1..n : Relayed(kernel[d].outbox[s]) => s \in DOMAIN q
    BY <1>5, <2>1, <2>2
  <2> QED BY <1>3, <1>4, <1>11, <2>3 DEF Covers
<1>15. Covers(d, disk[d].cp.out)'
  <2>1. Covers(d, disk[d].cp.out) /\ disk[d].cp.out \in Nat
    BY <1>1 DEF QueuesHold, DeviceTyped
  <2>2. PICK c \in Nat : c = disk[d].cp.out /\ Covers(d, c)
    BY <2>1
  <2>3. Covers(d, c)'
    BY <1>10, <1>13, <2>2, JobsStay
  <2> QED BY <1>11, <2>2, <2>3 DEF Covers
<1>16. ASSUME NEW s \in DOMAIN q
       PROVE  /\ s > 0 /\ Covers(d, s)' /\ Relayed(kernel[d].outbox[s])'
              /\ q[s] = "retained" => Held(kernel[d].outbox[s])'
  <2>1. CASE s \in DOMAIN disk[d].jobs
    <3>1. /\ s > 0 /\ Covers(d, s)' /\ Relayed(kernel[d].outbox[s])'
          /\ Held(kernel[d].outbox[s]) => Held(kernel[d].outbox[s])'
      BY <1>10, <1>13, <2>1, JobsStay
    <3>2. q[s] = "retained" => Held(kernel[d].outbox[s])
      BY <1>1, <1>5, <2>1 DEF QueuesHold
    <3> QED BY <3>1, <3>2
  <2>2. CASE s \notin DOMAIN disk[d].jobs
    <3>1. s = n /\ Relayed(kernel[d].outbox[n]) /\ q[s] = "pending"
      BY <1>5, <2>2
    <3> QED BY <1>2, <1>3, <1>14, <3>1 DEF Relayed
  <2> QED BY <2>1, <2>2
<1>17. Base' = Base
  BY DEF Base
<1>18. QueuesHold(d)'
  <2>1. DOMAIN disk[d].controls \subseteq (Base[d] + 1)..kernel[d].floor
    BY <1>1 DEF QueuesHold
  <2>2. (Base[d] + 1)..disk[d].ccp \subseteq DOMAIN disk[d].controls
    BY <1>1 DEF QueuesHold
  <2> QED BY <1>3, <1>11, <1>15, <1>16, <1>17, <2>1, <2>2 DEF QueuesHold, Relayed
<1>19. MarksHold(d)' /\ Json(d)' = Json(d)
  BY <1>10, <1>11, <1>13, <1>18, MarksStill
<1>20. MemHolds(d)'
  <2>1. Covers(d, mem[d].out)'
    BY <1>12, <1>14 DEF Covers
  <2> QED BY <1>1, <1>3, <1>11, <1>12, <1>17, <1>19, <2>1 DEF MemHolds
<1> QED BY <1>3, <1>5, <1>10, <1>11, <1>12, <1>18, <1>19, <1>20, DeviceStep

\* The operator re-arms what was stopped.
LEMMA ResumeKeeps ==
    ASSUME DriverInv, room' = room, NEW d \in Devices, Resume(d)
    PROVE  DriverInv'
<1>1. Types /\ MemHolds(d) /\ QueuesHold(d) /\ DeviceTyped(d)
  BY DeviceTypes DEF DriverInv, Holds
<1>2. UNCHANGED <<mem, mailbox, kernel, done, refused, deaths, faults>>
  BY DEF Resume, worldVars
<1> DEFINE armed(q) == [s \in DOMAIN q |-> IF q[s] = "stopped" THEN "pending" ELSE q[s]]
<1>3. disk \in [Devices -> Disks] /\ disk[d] \in Disks
      /\ disk[d].jobs \in Queues /\ disk[d].controls \in Queues
  BY <1>1 DEF Types, DeviceTyped
<1>4. ASSUME NEW q \in Queues
      PROVE  armed(q) \in Queues /\ DOMAIN armed(q) = DOMAIN q
             /\ \A s \in DOMAIN q : armed(q)[s] = "retained" => q[s] = "retained"
  <2>1. PICK S \in SUBSET Nat : q \in [S -> JobStates]
    BY DEF Queues
  <2>2. armed(q) \in [S -> JobStates]
    BY <2>1 DEF JobStates
  <2> QED BY <2>1, <2>2 DEF Queues
<1>5. \/ disk' = [disk EXCEPT ![d].jobs = armed(disk[d].jobs)]
      \/ disk' = [disk EXCEPT ![d].controls = armed(disk[d].controls)]
  <2>1. PICK f \in {"jobs", "controls"} :
           disk' = [disk EXCEPT ![d][f] =
                      [s \in DOMAIN @ |-> IF @[s] = "stopped" THEN "pending" ELSE @[s]]]
    BY DEF Resume
  <2>2. CASE f = "jobs"
    BY <1>3, <2>1, <2>2 DEF Disks
  <2>3. CASE f = "controls"
    BY <1>3, <2>1, <2>3 DEF Disks
  <2> QED BY <2>1, <2>2, <2>3
<1>6. PICK q, c : /\ q = IF disk' = [disk EXCEPT ![d].jobs = armed(disk[d].jobs)]
                         THEN armed(disk[d].jobs) ELSE disk[d].jobs
                  /\ c = IF disk' = [disk EXCEPT ![d].jobs = armed(disk[d].jobs)]
                         THEN disk[d].controls ELSE armed(disk[d].controls)
  OBVIOUS
<1>7. /\ q \in Queues /\ DOMAIN q = DOMAIN disk[d].jobs
      /\ c \in Queues /\ DOMAIN c = DOMAIN disk[d].controls
      /\ \A s \in DOMAIN disk[d].jobs : q[s] = "retained" => disk[d].jobs[s] = "retained"
  BY <1>3, <1>4, <1>6
<1>8. disk' = [disk EXCEPT ![d] = [disk[d] EXCEPT !.jobs = q, !.controls = c]]
  <2>1. CASE disk' = [disk EXCEPT ![d].jobs = armed(disk[d].jobs)]
    <3>1. q = armed(disk[d].jobs) /\ c = disk[d].controls
      BY <1>6, <2>1
    <3> HIDE DEF armed
    <3> QED BY <1>3, <2>1, <3>1 DEF Disks
  <2>2. CASE disk' # [disk EXCEPT ![d].jobs = armed(disk[d].jobs)]
    <3>1. q = disk[d].jobs /\ c = armed(disk[d].controls)
      BY <1>6, <2>2
    <3>2. disk' = [disk EXCEPT ![d].controls = armed(disk[d].controls)]
      BY <1>5, <2>2
    <3> HIDE DEF armed
    <3> QED BY <1>3, <3>1, <3>2 DEF Disks
  <2> QED BY <2>1, <2>2
<1> HIDE DEF armed
<1>9. /\ disk' \in [Devices -> Disks]
      /\ disk'[d].jobs = q /\ disk'[d].controls = c
      /\ disk'[d].cp = disk[d].cp /\ disk'[d].staged = disk[d].staged
      /\ disk'[d].marks = disk[d].marks /\ disk'[d].ccp = disk[d].ccp
      /\ \A e \in Devices \ {d} : disk'[e] = disk[e]
  BY ONLY <1>3, <1>7, <1>8, d \in Devices DEF Disks
<1>10. Types'
  BY <1>1, <1>2, <1>9 DEF Types, MaxDeaths, MaxFaults
<1>11. Grows
  BY <1>1, <1>2, <1>7, <1>9, StillGrows
<1>12. QueuesHold(d)'
  <2>1. \A s \in DOMAIN disk[d].jobs :
           disk'[d].jobs[s] = "retained" => disk[d].jobs[s] = "retained"
    BY <1>7, <1>9
  <2> QED BY <1>7, <1>9, <1>10, <1>11, <2>1, QueuesKept
<1>13. MarksHold(d)' /\ Json(d)' = Json(d)
  BY <1>9, <1>10, <1>11, <1>12, MarksStill
<1>14. MemHolds(d)'
  <2>1. \A i \in 1..Len(mem'[d].visit) : mem'[d].visit[i] \in 1..disk'[d].staged
    BY <1>1, <1>2, <1>9 DEF MemHolds
  <2> QED BY <1>2, <1>7, <1>9, <1>10, <1>11, <1>13, <2>1, MemKept
<1> QED BY <1>2, <1>7, <1>9, <1>10, <1>12, <1>13, <1>14, DeviceStep
-----------------------------------------------------------------------------
(* The queues are delivered.                                               *)

\* Appending keeps what a sequence had.
LEMMA AppendGrows ==
    ASSUME NEW S, NEW q \in Seq(S), NEW r \in Seq(S),
           r = q \/ \E x \in S : r = Append(q, x)
    PROVE  /\ Len(q) \in Nat /\ Len(r) \in Nat /\ Len(q) <= Len(r)
           /\ \A i \in 1..Len(q) : r[i] = q[i]
OBVIOUS

\* A step of d that only adds to the mailbox, to d's kernel and to its queues.
LEMMA GrowsBy ==
    ASSUME Types, Types', NEW d \in Devices, room' = room,
           mailbox' = mailbox \/ \E l \in Letters : mailbox' = Append(mailbox, l),
           \A e \in Devices \ {d} : kernel'[e] = kernel[e] /\ disk'[e] = disk[e],
           kernel'[d].floor = kernel[d].floor \/ kernel'[d].floor = kernel[d].floor + 1,
           \/ kernel'[d].outbox = kernel[d].outbox
           \/ \E it \in Items : kernel'[d].outbox = Append(kernel[d].outbox, it),
           \/ kernel'[d].inbox = kernel[d].inbox
           \/ \E m \in Devices \X Nat : kernel'[d].inbox = Append(kernel[d].inbox, m),
           DOMAIN disk[d].jobs \subseteq DOMAIN disk'[d].jobs,
           DOMAIN disk[d].controls \subseteq DOMAIN disk'[d].controls
    PROVE  Grows
<1>1. /\ DeviceTyped(d) /\ DeviceTyped(d)' /\ mailbox \in Seq(Letters) /\ mailbox' \in Seq(Letters)
  BY DeviceTypes, DeviceTypesNext DEF Types
<1>2. Len(mailbox) <= Len(mailbox') /\ \A p \in Positions : mailbox'[p] = mailbox[p]
  BY <1>1, AppendGrows DEF Positions
<1>3. kernel[d].floor <= kernel'[d].floor
  <2>1. kernel[d].floor \in Nat
    BY <1>1 DEF DeviceTyped
  <2> QED BY <2>1
<1>4. /\ Len(kernel[d].outbox) <= Len(kernel'[d].outbox)
      /\ \A s \in 1..Len(kernel[d].outbox) : kernel'[d].outbox[s] = kernel[d].outbox[s]
  <2>1. PICK q, r : q = kernel[d].outbox /\ r = kernel'[d].outbox
    OBVIOUS
  <2>2. q \in Seq(Items) /\ r \in Seq(Items) /\ (r = q \/ \E x \in Items : r = Append(q, x))
    BY <1>1, <2>1 DEF DeviceTyped
  <2>3. Len(q) <= Len(r) /\ \A i \in 1..Len(q) : r[i] = q[i]
    BY <2>2, AppendGrows
  <2> QED BY <2>1, <2>3
<1>5. /\ Len(kernel[d].inbox) <= Len(kernel'[d].inbox)
      /\ \A i \in 1..Len(kernel[d].inbox) : kernel'[d].inbox[i] = kernel[d].inbox[i]
  <2>1. PICK q, r : q = kernel[d].inbox /\ r = kernel'[d].inbox
    OBVIOUS
  <2>2. /\ q \in Seq(Devices \X Nat) /\ r \in Seq(Devices \X Nat)
        /\ (r = q \/ \E x \in Devices \X Nat : r = Append(q, x))
    BY <1>1, <2>1 DEF DeviceTyped
  <2>3. Len(q) <= Len(r) /\ \A i \in 1..Len(q) : r[i] = q[i]
    BY <2>2, AppendGrows
  <2> QED BY <2>1, <2>3
<1>6. \A e \in Devices : /\ kernel[e].floor \in Nat /\ Len(kernel[e].outbox) \in Nat
                         /\ Len(kernel[e].inbox) \in Nat
  BY DeviceTypes DEF DeviceTyped
<1>7. ASSUME NEW e \in Devices
      PROVE  /\ kernel[e].floor <= kernel'[e].floor
             /\ Len(kernel[e].outbox) <= Len(kernel'[e].outbox)
             /\ \A s \in 1..Len(kernel[e].outbox) : kernel'[e].outbox[s] = kernel[e].outbox[s]
             /\ Len(kernel[e].inbox) <= Len(kernel'[e].inbox)
             /\ \A i \in 1..Len(kernel[e].inbox) : kernel'[e].inbox[i] = kernel[e].inbox[i]
             /\ DOMAIN disk[e].jobs \subseteq DOMAIN disk'[e].jobs
             /\ DOMAIN disk[e].controls \subseteq DOMAIN disk'[e].controls
  <2>1. CASE e = d
    BY <1>3, <1>4, <1>5, <2>1
  <2>2. CASE e # d
    <3>1. kernel'[e] = kernel[e] /\ disk'[e] = disk[e]
      BY <2>2
    <3>2. /\ kernel[e].floor <= kernel[e].floor
          /\ Len(kernel[e].outbox) <= Len(kernel[e].outbox)
          /\ Len(kernel[e].inbox) <= Len(kernel[e].inbox)
      BY <1>6
    <3> QED BY ONLY <3>1, <3>2
  <2> QED BY <2>1, <2>2
<1> QED BY <1>2, <1>7 DEF Grows

\* The chosen job is one of the two queues', and its item is vouched for.
LEMMA ChosenFacts ==
    ASSUME DriverInv, NEW d \in Devices, NEW c \in Chosen(d)
    PROVE  /\ \/ /\ c.queue = "controls" /\ c.seq \in DOMAIN disk[d].controls
              \/ /\ c.queue = "jobs" /\ c.seq \in DOMAIN disk[d].jobs
                 /\ c.item = kernel[d].outbox[c.seq]
           /\ c.seq \in Nat /\ c.item \in Items /\ Vouched(c.item)
<1>1. Types /\ KernelHolds(d) /\ QueuesHold(d) /\ DeviceTyped(d)
  BY DeviceTypes DEF DriverInv, Holds
<1>2. CASE \E n \in Pending(d) : c = [queue |-> "controls", seq |-> n, item |-> Control(n)]
  <2>1. PICK n \in Pending(d) : c = [queue |-> "controls", seq |-> n, item |-> Control(n)]
    BY <1>2
  <2>2. n \in DOMAIN disk[d].controls
    BY <2>1 DEF Pending, FirstUnretained
  <2>3. n \in (Base[d] + 1)..kernel[d].floor
    BY <1>1, <2>2 DEF QueuesHold
  <2>4. /\ kernel[d].floor \in Nat /\ kernel[d].floor <= kernel[Owner].floor
        /\ Base[d] \in Nat /\ Owner \in Devices
    BY <1>1 DEF DeviceTyped, KernelHolds
  <2>5. kernel[Owner].floor \in Nat
    BY <1>1, <2>4, DeviceTypes DEF DeviceTyped
  <2>6. n \in Nat /\ n - 1 \in Nat /\ (n - 1) + 1 = n /\ n <= kernel[Owner].floor
    BY ONLY <2>3, <2>4, <2>5
  <2>7. Control(n) \in Items
    BY <2>4, <2>6 DEF Control, Item, Items, Kinds, Acks
  <2>8. Vouched(Control(n))
    BY <2>6 DEF Vouched, Control, Item, Number
  <2> QED BY <2>1, <2>2, <2>6, <2>7, <2>8
<1>3. CASE \E s \in Normal(d) : c = [queue |-> "jobs", seq |-> s, item |-> kernel[d].outbox[s]]
  <2>1. PICK s \in Normal(d) : c = [queue |-> "jobs", seq |-> s, item |-> kernel[d].outbox[s]]
    BY <1>3
  <2>2. s \in DOMAIN disk[d].jobs
    BY <2>1 DEF Normal, FirstUnretained
  <2>3. s \in Nat /\ s > 0 /\ s <= Len(kernel[d].outbox) /\ Len(kernel[d].outbox) \in Nat
    BY <1>1, <2>2 DEF QueuesHold, Covers, DeviceTyped
  <2>4. s \in 1..Len(kernel[d].outbox)
    BY ONLY <2>3, Within
  <2>5. kernel[d].outbox[s] \in Items
    BY <1>1, <2>4 DEF DeviceTyped
  <2>6. /\ kernel[d].outbox[s].seq = s /\ kernel[d].outbox[s].from = d
        /\ kernel[d].outbox[s].kind # "control"
    BY <1>1, <2>4 DEF KernelHolds, Sends
  <2>7. Vouched(kernel[d].outbox[s])
    BY <2>2, <2>6 DEF Vouched
  <2> QED BY <2>1, <2>2, <2>3, <2>5, <2>7
<1> QED BY <1>2, <1>3 DEF Chosen

\* Both queues are filled: no job is ahead of the watermark.
LEMMA FilledFacts ==
    ASSUME DriverInv, NEW d \in Devices, Filled(d)
    PROVE  \A s \in DOMAIN disk[d].jobs : s <= mem[d].out
<1>1. Types /\ MemHolds(d) /\ QueuesHold(d) /\ DeviceTyped(d)
  BY DeviceTypes DEF DriverInv, Holds
<1> SUFFICES ASSUME NEW s \in DOMAIN disk[d].jobs PROVE s <= mem[d].out
  OBVIOUS
<1>2. /\ s \in Nat /\ s <= Len(kernel[d].outbox) /\ Len(kernel[d].outbox) \in Nat
      /\ mem[d].out \in Nat /\ Covers(d, s)
  BY <1>1 DEF QueuesHold, Covers, DeviceTyped
<1>3. CASE mem[d].out = Len(kernel[d].outbox)
  BY <1>2, <1>3
<1>4. CASE ~Queued(d)
  <2>1. PICK n : n = mem[d].out + 1
    OBVIOUS
  <2>2. Relayed(kernel[d].outbox[n]) /\ n \notin DOMAIN disk[d].jobs
    BY <1>4, <2>1 DEF Queued, NextRecord
  <2>3. n \notin 1..s
    BY <1>2, <2>2 DEF Covers
  <2> QED BY ONLY <1>2, <2>1, <2>3
<1> QED BY <1>3, <1>4 DEF Filled

\* The chosen job gets a new state; it is retained once its item is there.
LEMMA SettleKeeps ==
    ASSUME DriverInv, NEW d \in Devices, NEW c \in Chosen(d), NEW st \in JobStates,
           Settle(d, c, st), Put(d, c.item) \/ mailbox' = mailbox,
           st = "retained" => Put(d, c.item),
           UNCHANGED <<room, kernel, done, refused, deaths>>, faults' \in 0..MaxFaults,
           mem' \in [Devices -> Mems], \A e \in Devices \ {d} : mem'[e] = mem[e],
           mem'[d].out = mem[d].out, mem'[d].cout = mem[d].cout,
           mem'[d].applied = mem[d].applied, mem'[d].ahead = mem[d].ahead,
           mem'[d].stage = "poll" => \A s \in DOMAIN disk[d].jobs : s <= mem[d].out,
           \A i \in 1..Len(mem'[d].visit) : mem'[d].visit[i] \in 1..disk[d].staged
    PROVE  DriverInv'
<1>1. Types /\ MemHolds(d) /\ QueuesHold(d) /\ DeviceTyped(d)
  BY DeviceTypes DEF DriverInv, Holds
<1>2. /\ \/ c.queue = "controls" /\ c.seq \in DOMAIN disk[d].controls
         \/ c.queue = "jobs" /\ c.seq \in DOMAIN disk[d].jobs /\ c.item = kernel[d].outbox[c.seq]
      /\ c.seq \in Nat /\ c.item \in Items /\ Vouched(c.item)
  BY ChosenFacts
<1>3. PICK n \in Nat, it \in Items : n = c.seq /\ it = c.item
  BY <1>2
<1>4. /\ disk \in [Devices -> Disks] /\ disk[d] \in Disks /\ mailbox \in Seq(Letters)
      /\ disk[d].jobs \in Queues /\ disk[d].controls \in Queues
  BY <1>1 DEF Types, DeviceTyped
<1>5. ASSUME NEW q \in Queues, n \in DOMAIN q
      PROVE  With(q, n, st) \in Queues /\ DOMAIN With(q, n, st) = DOMAIN q
             /\ With(q, n, st)[n] = st
             /\ \A s \in DOMAIN q : s # n => With(q, n, st)[s] = q[s]
  <2>1. With(q, n, st) \in Queues
    BY WithQueue
  <2> QED BY <1>5, <2>1 DEF With
<1> DEFINE Settled(q, r) ==
       /\ disk' = [disk EXCEPT ![d] = [disk[d] EXCEPT !.jobs = q, !.controls = r]]
       /\ q \in Queues /\ DOMAIN q = DOMAIN disk[d].jobs
       /\ r \in Queues /\ DOMAIN r = DOMAIN disk[d].controls
       /\ \A s \in DOMAIN disk[d].jobs :
             q[s] = "retained" => \/ disk[d].jobs[s] = "retained"
                                  \/ it = kernel[d].outbox[s] /\ st = "retained"
<1>6. \E q, r : Settled(q, r)
  <2>1. CASE c.queue = "jobs"
    <3>0. n \in DOMAIN disk[d].jobs /\ it = kernel[d].outbox[n]
      BY <1>2, <1>3, <2>1
    <3>1. PICK jobs : jobs = With(disk[d].jobs, n, st)
      OBVIOUS
    <3>2. /\ jobs \in Queues /\ DOMAIN jobs = DOMAIN disk[d].jobs /\ jobs[n] = st
          /\ \A s \in DOMAIN disk[d].jobs : s # n => jobs[s] = disk[d].jobs[s]
      BY <1>4, <1>5, <3>0, <3>1
    <3>3. disk' = [disk EXCEPT ![d] = [disk[d] EXCEPT !.jobs = jobs]]
      BY <1>3, <1>4, <2>1, <3>1 DEF Settle, Disks
    <3>4. [disk[d] EXCEPT !.jobs = jobs]
             = [disk[d] EXCEPT !.jobs = jobs, !.controls = disk[d].controls]
      BY <1>4 DEF Disks
    <3>5. disk' = [disk EXCEPT ![d] = [disk[d] EXCEPT !.jobs = jobs, !.controls = disk[d].controls]]
      BY <3>3, <3>4
    <3>6. \A s \in DOMAIN disk[d].jobs :
             jobs[s] = "retained" => \/ disk[d].jobs[s] = "retained"
                                     \/ it = kernel[d].outbox[s] /\ st = "retained"
      BY <1>3, <3>0, <3>2
    <3>7. Settled(jobs, disk[d].controls)
      BY <1>4, <3>2, <3>5, <3>6
    <3> HIDE DEF Settled
    <3> QED BY <3>7
  <2>2. CASE c.queue = "controls"
    <3>0. n \in DOMAIN disk[d].controls
      BY <1>2, <1>3, <2>2
    <3>1. PICK controls : controls = With(disk[d].controls, n, st)
      OBVIOUS
    <3>2. controls \in Queues /\ DOMAIN controls = DOMAIN disk[d].controls
      BY <1>4, <1>5, <3>0, <3>1
    <3>3. disk' = [disk EXCEPT ![d] = [disk[d] EXCEPT !.controls = controls]]
      BY <1>3, <1>4, <2>2, <3>1 DEF Settle, Disks
    <3>4. [disk[d] EXCEPT !.controls = controls]
             = [disk[d] EXCEPT !.jobs = disk[d].jobs, !.controls = controls]
      BY <1>4 DEF Disks
    <3>5. disk' = [disk EXCEPT ![d] = [disk[d] EXCEPT !.jobs = disk[d].jobs, !.controls = controls]]
      BY <3>3, <3>4
    <3>7. Settled(disk[d].jobs, controls)
      BY <1>4, <3>2, <3>5
    <3> HIDE DEF Settled
    <3> QED BY <3>7
  <2> HIDE DEF Settled
  <2> QED BY <1>2, <2>1, <2>2
<1> HIDE DEF Settled
<1>20. PICK q, r : Settled(q, r)
  BY <1>6
<1>21. /\ disk' = [disk EXCEPT ![d] = [disk[d] EXCEPT !.jobs = q, !.controls = r]]
       /\ q \in Queues /\ DOMAIN q = DOMAIN disk[d].jobs
       /\ r \in Queues /\ DOMAIN r = DOMAIN disk[d].controls
       /\ \A s \in DOMAIN disk[d].jobs :
             q[s] = "retained" => \/ disk[d].jobs[s] = "retained"
                                  \/ it = kernel[d].outbox[s] /\ st = "retained"
  BY <1>20 DEF Settled
<1>7. /\ disk' \in [Devices -> Disks]
      /\ disk'[d].jobs = q /\ disk'[d].controls = r
      /\ disk'[d].cp = disk[d].cp /\ disk'[d].staged = disk[d].staged
      /\ disk'[d].marks = disk[d].marks /\ disk'[d].ccp = disk[d].ccp
      /\ \A e \in Devices \ {d} : disk'[e] = disk[e]
  BY ONLY <1>4, <1>21, d \in Devices DEF Disks
<1>8. \/ mailbox' = mailbox
      \/ mailbox' = Append(mailbox, [item |-> it, by |-> d]) /\ ~Held(it)
  BY <1>3 DEF Put
<1>9. [item |-> it, by |-> d] \in Letters
  BY DEF Letters
<1>10. mailbox' \in Seq(Letters)
  <2>1. PICK l \in Letters : l = [item |-> it, by |-> d]
    BY <1>9
  <2>2. Append(mailbox, l) \in Seq(Letters)
    BY <1>4
  <2> QED BY <1>4, <1>8, <2>1, <2>2
<1>11. Types'
  BY <1>1, <1>7, <1>10 DEF Types, MaxDeaths, MaxFaults
<1>12. Grows
  BY <1>1, <1>21, <1>7, <1>8, <1>9, <1>11, GrowsBy
<1>13. MailHolds'
  BY <1>2, <1>3, <1>8, <1>11, <1>12, MailKept
<1>14. ASSUME Put(d, it) PROVE Held(it)'
  <2>1. CASE Held(it)
    BY <1>1, <1>11, <1>12, <2>1, HeldStays
  <2>2. CASE ~Held(it)
    <3>1. PICK k \in Nat : k = Len(mailbox) + 1
      BY <1>1 DEF DeviceTyped
    <3>2. mailbox' = Append(mailbox, [item |-> it, by |-> d])
      BY <1>14, <2>2 DEF Put
    <3>3. k \in 1..Len(mailbox') /\ mailbox'[k] = [item |-> it, by |-> d]
      BY <1>4, <1>9, <3>1, <3>2
    <3> QED BY <3>3 DEF Held, Positions, Mail
  <2> QED BY <2>1, <2>2
<1>15. \A s \in DOMAIN disk[d].jobs :
          disk'[d].jobs[s] = "retained" =>
             disk[d].jobs[s] = "retained" \/ Held(kernel[d].outbox[s])'
  BY <1>3, <1>21, <1>7, <1>14
<1>16. QueuesHold(d)'
  BY <1>21, <1>7, <1>11, <1>12, <1>15, QueuesKept
<1>17. MarksHold(d)' /\ Json(d)' = Json(d)
  BY <1>7, <1>11, <1>12, <1>16, MarksStill
<1>18. MemHolds(d)'
  <2>1. Covers(d, mem[d].out)'
    <3>1. PICK k \in Nat : k = mem[d].out /\ Covers(d, k)
      BY <1>1 DEF MemHolds, DeviceTyped
    <3>2. Covers(d, k)'
      BY <1>11, <1>12, <3>1, JobsStay
    <3> QED BY <3>1, <3>2 DEF Covers
  <2>2. Base' = Base
    BY DEF Base
  <2> QED BY <1>1, <1>21, <1>7, <1>17, <2>1, <2>2 DEF MemHolds
<1>19. KernelHolds(d)'
  BY <1>11, <1>12, KernelKept
<1> QED BY <1>7, <1>11, <1>12, <1>13, <1>16, <1>17, <1>18, <1>19, Together DEF Holds

\* The relay retains the chosen item, or has it already.
LEMMA RetainKeeps ==
    ASSUME DriverInv, room' = room, NEW d \in Devices, Retain(d)
    PROVE  DriverInv'
<1>1. PICK c \in Chosen(d) : Put(d, c.item) /\ Settle(d, c, "retained")
  BY DEF Retain
<1>2. UNCHANGED <<kernel, mem, done, refused, deaths, faults>> /\ Filled(d)
  BY DEF Retain
<1>3. Types /\ MemHolds(d) /\ faults' \in 0..MaxFaults /\ mem' \in [Devices -> Mems]
  BY <1>2 DEF DriverInv, Holds, Types
<1>4. mem'[d].stage = "poll" => \A s \in DOMAIN disk[d].jobs : s <= mem[d].out
  BY <1>2, FilledFacts
<1>5. \A i \in 1..Len(mem'[d].visit) : mem'[d].visit[i] \in 1..disk[d].staged
  BY <1>2, <1>3 DEF MemHolds
<1>6. "retained" \in JobStates
  BY DEF JobStates
<1> QED BY <1>1, <1>2, <1>3, <1>4, <1>5, <1>6, SettleKeeps

\* An attempt ends without a receipt, and may have put its item all the same.
LEMMA UnsettledKeeps ==
    ASSUME DriverInv, room' = room, NEW d \in Devices, Unsettled(d)
    PROVE  DriverInv'
<1>1. PICK c \in Chosen(d), st \in {"pending", "stopped"} :
         (Put(d, c.item) \/ mailbox' = mailbox) /\ Settle(d, c, st)
  BY DEF Unsettled
<1>2. /\ UNCHANGED <<kernel, done, refused, deaths>> /\ Filled(d)
      /\ faults < MaxFaults /\ faults' = faults + 1
      /\ mem' = [mem EXCEPT ![d].stage = "poll", ![d].visit = <<>>]
  BY DEF Unsettled, Go
<1>3. mem \in [Devices -> Mems] /\ faults' \in 0..MaxFaults
  <2>1. mem \in [Devices -> Mems] /\ faults \in 0..MaxFaults /\ MaxFaults \in Nat
    BY RoomFacts DEF DriverInv, Types
  <2> QED BY <1>2, <2>1
<1>4. mem' \in [Devices -> Mems]
  <2>1. <<>> \in Seq(Nat) /\ "poll" \in Stages
    BY DEF Stages
  <2> QED BY ONLY <1>2, <1>3, <2>1 DEF Mems
<1>5. /\ mem'[d].out = mem[d].out /\ mem'[d].cout = mem[d].cout
      /\ mem'[d].applied = mem[d].applied /\ mem'[d].ahead = mem[d].ahead
      /\ mem'[d].visit = <<>> /\ Len(<<>>) = 0
      /\ \A e \in Devices \ {d} : mem'[e] = mem[e]
  BY <1>2, <1>3 DEF Mems
<1>6. \A s \in DOMAIN disk[d].jobs : s <= mem[d].out
  BY <1>2, FilledFacts
<1>7. st \in JobStates /\ st # "retained"
  BY DEF JobStates
<1> QED BY <1>1, <1>2, <1>3, <1>4, <1>5, <1>6, <1>7, SettleKeeps
-----------------------------------------------------------------------------
(* The mailbox is staged.                                                  *)

\* deliver_ordered never meets a job that is ahead of the watermark.
LEMMA DeliveredFacts ==
    ASSUME DriverInv, NEW d \in Devices, Delivered(d)
    PROVE  InOrder(d)
<1>1. MemHolds(d)
  BY DEF DriverInv, Holds
<1>2. \A s \in DOMAIN disk[d].jobs : s <= mem[d].out
  <2>1. CASE At(d, "poll")
    BY <1>1, <2>1 DEF At, Stage, MemHolds
  <2>2. CASE Filled(d)
    BY <2>2, FilledFacts
  <2> QED BY <2>1, <2>2 DEF Delivered
<1> QED BY <1>2 DEF InOrder, Normal, FirstUnretained

\* A poll stages the mailbox up to h and plans the visits.
LEMMA PolledKeeps ==
    ASSUME DriverInv, NEW d \in Devices, NEW h \in Nat, Polled(d, h),
           disk[d].staged <= h, h <= Len(mailbox),
           UNCHANGED <<room, mailbox, kernel, done, refused, deaths>>,
           faults' \in 0..MaxFaults
    PROVE  DriverInv'
<1>1. Types /\ MemHolds(d) /\ QueuesHold(d) /\ MarksHold(d) /\ DeviceTyped(d)
  BY DeviceTypes DEF DriverInv, Holds
<1>2. PICK v : v = RoundRobin(mem[d].applied, h, mem[d].next)
  OBVIOUS
<1>3. v \in Seq(Nat) /\ \A i \in 1..Len(v) : v[i] \in 1..h
  <2>1. PICK a \in Nat, n \in Nat : a = mem[d].applied /\ n = mem[d].next
    BY <1>1 DEF DeviceTyped
  <2> QED BY <1>2, <2>1, RoundRobinFacts
<1>4. /\ disk' = [disk EXCEPT ![d].staged = h]
      /\ mem' = [mem EXCEPT ![d].stage = "apply", ![d].visit = v]
  BY <1>2 DEF Polled
<1>5. disk \in [Devices -> Disks] /\ mem \in [Devices -> Mems]
  BY <1>1 DEF Types
<1>6. disk' \in [Devices -> Disks]
  BY ONLY <1>4, <1>5, h \in Nat DEF Disks
<1>7. mem' \in [Devices -> Mems]
  <2>1. "apply" \in Stages
    BY DEF Stages
  <2> QED BY ONLY <1>3, <1>4, <1>5, <2>1 DEF Mems
<1>8. Types'
  BY <1>1, <1>6, <1>7 DEF Types, MaxDeaths, MaxFaults
<1>9. /\ disk'[d].jobs = disk[d].jobs /\ disk'[d].controls = disk[d].controls
      /\ disk'[d].cp = disk[d].cp /\ disk'[d].staged = h
      /\ disk'[d].marks = disk[d].marks /\ disk'[d].ccp = disk[d].ccp
      /\ \A e \in Devices \ {d} : disk'[e] = disk[e]
  BY <1>4, <1>5 DEF Disks
<1>10. /\ mem'[d].out = mem[d].out /\ mem'[d].cout = mem[d].cout
       /\ mem'[d].applied = mem[d].applied /\ mem'[d].ahead = mem[d].ahead
       /\ mem'[d].stage = "apply" /\ mem'[d].visit = v
       /\ \A e \in Devices \ {d} : mem'[e] = mem[e]
  BY <1>4, <1>5 DEF Mems
<1>11. Grows
  BY <1>1, <1>9, StillGrows
<1>12. QueuesHold(d)'
  BY <1>8, <1>9, <1>11, QueuesKept
<1>13. Json(d)' = Json(d)
  BY <1>9 DEF Json
<1>14. MemHolds(d)'
  <2>1. \A i \in 1..Len(mem'[d].visit) : mem'[d].visit[i] \in 1..disk'[d].staged
    BY <1>3, <1>9, <1>10
  <2> QED BY <1>8, <1>10, <1>11, <1>13, <2>1, MemKept
<1>15. MarksHold(d)'
  <2>1. disk[d].staged <= disk'[d].staged /\ disk'[d].staged <= Len(mailbox')
    BY <1>9
  <2>2. 1..disk'[d].cp.applied \subseteq Json(d)
    BY <1>1, <1>9 DEF MarksHold
  <2> QED BY <1>8, <1>9, <1>11, <1>12, <2>1, <2>2, MarksKept
<1> QED BY <1>8, <1>9, <1>10, <1>12, <1>14, <1>15, DeviceStep

\* The mailbox is scanned.
LEMMA PollKeeps ==
    ASSUME DriverInv, room' = room, NEW d \in Devices, Poll(d) \/ PollFails(d)
    PROVE  DriverInv'
<1>1. Types /\ MarksHold(d) /\ DeviceTyped(d)
  BY DeviceTypes DEF DriverInv, Holds
<1>2. /\ disk[d].staged \in Nat /\ Len(mailbox) \in Nat /\ disk[d].staged <= Len(mailbox)
      /\ Page \in Nat /\ Page > 0
  BY <1>1, DriverAssumption DEF DeviceTyped, MarksHold
<1>3. InOrder(d)
  BY DeliveredFacts DEF Poll, PollFails
<1>4. CASE Poll(d)
  <2>1. PICK h : h = Min({disk[d].staged + Page, Len(mailbox)})
    OBVIOUS
  <2>2. h \in {disk[d].staged + Page, Len(mailbox)} /\ h <= Len(mailbox)
    <3>0. disk[d].staged + Page \in Nat
      BY ONLY <1>2
    <3>1. PICK a \in Nat, b \in Nat : a = disk[d].staged + Page /\ b = Len(mailbox)
      BY <1>2, <3>0
    <3>2. \E x \in {a, b} : \A y \in {a, b} : x =< y
      OBVIOUS
    <3> QED BY <2>1, <3>1, <3>2 DEF Min
  <2>3. h \in Nat /\ disk[d].staged <= h
    BY ONLY <1>2, <2>2
  <2>4. Polled(d, h) /\ UNCHANGED <<mailbox, kernel, done, refused, deaths, faults>>
    BY <1>3, <1>4, <2>1 DEF Poll, worldVars
  <2>5. faults' \in 0..MaxFaults
    BY <1>1, <2>4 DEF Types
  <2> QED BY <2>2, <2>3, <2>4, <2>5, PolledKeeps
<1>5. CASE PollFails(d)
  <2>1. /\ Polled(d, disk[d].staged) /\ UNCHANGED <<mailbox, kernel, done, refused, deaths>>
        /\ faults < MaxFaults /\ faults' = faults + 1
    BY <1>5 DEF PollFails
  <2>2. faults' \in 0..MaxFaults
    <3>1. faults \in 0..MaxFaults /\ MaxFaults \in Nat
      BY <1>1, RoomFacts DEF Types
    <3> QED BY <2>1, <3>1
  <2>3. disk[d].staged <= disk[d].staged
    BY <1>2
  <2> QED BY <1>2, <2>1, <2>2, <2>3, PolledKeeps
<1> QED BY <1>4, <1>5
-----------------------------------------------------------------------------
(* The kernel commits.                                                     *)

\* Length, elements and set of an appended sequence.
LEMMA AppendFacts ==
    ASSUME NEW S, NEW q \in Seq(S), NEW x \in S, NEW r, r = Append(q, x)
    PROVE  \E n \in Nat :
              /\ n = Len(q) + 1 /\ Len(r) = n /\ r[n] = x /\ r \in Seq(S) /\ DOMAIN r = 1..n
              /\ \A i \in 1..Len(q) : r[i] = q[i] /\ i \in 1..n /\ i # n
              /\ \A i \in 1..n : i \in 1..Len(q) \/ i = n
OBVIOUS

\* A step of d that changes its kernel and leaves the driver in its place.
LEMMA KernelStep ==
    ASSUME DriverInv, NEW d \in Devices, kernel' \in [Devices -> Kernels], mem' \in [Devices -> Mems],
           done' \in [Devices -> Nat], UNCHANGED <<room, mailbox, disk, refused, deaths, faults>>,
           \A e \in Devices \ {d} : kernel'[e] = kernel[e] /\ mem'[e] = mem[e],
           mem'[d].out = mem[d].out, mem'[d].cout = mem[d].cout,
           mem'[d].applied = mem[d].applied, mem'[d].ahead = mem[d].ahead,
           mem'[d].stage = mem[d].stage, mem'[d].visit = mem[d].visit,
           kernel'[d].floor = kernel[d].floor \/ kernel'[d].floor = kernel[d].floor + 1,
           \/ kernel'[d].outbox = kernel[d].outbox
           \/ \E it \in Items : kernel'[d].outbox = Append(kernel[d].outbox, it),
           \/ kernel'[d].inbox = kernel[d].inbox
           \/ \E m \in Devices \X Nat : kernel'[d].inbox = Append(kernel[d].inbox, m),
           KernelHolds(d)'
    PROVE  DriverInv'
<1>1. Types /\ MemHolds(d) /\ MarksHold(d) /\ DeviceTyped(d)
  BY DeviceTypes DEF DriverInv, Holds
<1>2. Types'
  BY <1>1 DEF Types, MaxDeaths, MaxFaults
<1>3. Grows
  BY <1>1, <1>2, GrowsBy
<1>4. QueuesHold(d)'
  BY <1>2, <1>3, QueuesKept
<1>5. MarksHold(d)' /\ Json(d)' = Json(d)
  BY <1>2, <1>3, <1>4, MarksStill
<1>6. MemHolds(d)'
  <2>1. \A i \in 1..Len(mem'[d].visit) : mem'[d].visit[i] \in 1..disk'[d].staged
    BY <1>1 DEF MemHolds
  <2> QED BY <1>2, <1>3, <1>5, <2>1, MemKept
<1>7. MailHolds'
  BY <1>2, <1>3, MailKept
<1> QED BY <1>2, <1>3, <1>4, <1>5, <1>6, <1>7, Together DEF Holds

\* A record is added to the outbox, a receipt only for a message of the inbox
\* that has none.
LEMMA OutboxHolds ==
    ASSUME DriverInv, NEW d \in Devices, NEW it \in Items,
           kernel'[d].outbox = Append(kernel[d].outbox, it), kernel'[d].inbox = kernel[d].inbox,
           kernel'[d].floor = kernel[d].floor \/ kernel'[d].floor = kernel[d].floor + 1,
           mailbox' = mailbox,
           it.seq = Len(kernel[d].outbox) + 1, it.from = d, it.kind # "control",
           it.kind = "copy" => d = Owner /\ it.epoch < kernel'[d].floor,
           it.ack # <<>> =>
              /\ it.ack \in ToSet(kernel[d].inbox)
              /\ \A s \in 1..Len(kernel[d].outbox) : kernel[d].outbox[s].ack # it.ack
    PROVE  Sends(d)' /\ Hears(d)'
<1>1. Types /\ KernelHolds(d) /\ DeviceTyped(d)
  BY DeviceTypes DEF DriverInv, Holds
<1>2. PICK q, r : q = kernel[d].outbox /\ r = kernel'[d].outbox
  OBVIOUS
<1>3. q \in Seq(Items) /\ Len(q) \in Nat /\ kernel[d].floor \in Nat
  BY <1>1, <1>2 DEF DeviceTyped
<1>4. r = Append(q, it)
  BY <1>2
<1>5. PICK n \in Nat :
         /\ n = Len(q) + 1 /\ Len(r) = n /\ r[n] = it
         /\ \A s \in 1..Len(q) : r[s] = q[s] /\ s # n
         /\ \A s \in 1..n : s \in 1..Len(q) \/ s = n
  BY <1>3, <1>4, AppendFacts
<1>6. ASSUME NEW s \in 1..n
      PROVE  /\ r[s].seq = s /\ r[s].from = d /\ r[s].kind # "control"
             /\ r[s].kind = "copy" => d = Owner /\ r[s].epoch < kernel'[d].floor
  <2>1. CASE s = n
    BY <1>2, <1>5, <2>1
  <2>2. CASE s \in 1..Len(q)
    <3>1. /\ r[s] = q[s] /\ q[s].seq = s /\ q[s].from = d /\ q[s].kind # "control"
          /\ q[s].kind = "copy" => d = Owner /\ q[s].epoch < kernel[d].floor
      BY <1>1, <1>2, <1>5, <2>2 DEF KernelHolds, Sends
    <3>2. q[s].epoch \in Nat
      <4>1. q[s] \in Items
        BY <1>3, <2>2
      <4> QED BY ONLY <4>1 DEF Items
    <3>3. q[s].epoch < kernel[d].floor => q[s].epoch < kernel'[d].floor
      BY <1>3, <3>2
    <3> QED BY <3>1, <3>3
  <2> QED BY <1>5, <2>1, <2>2
<1>7. Sends(d)'
  BY <1>2, <1>5, <1>6 DEF Sends
<1>8. ASSUME NEW s \in 1..n, NEW t \in 1..n, r[s].ack # <<>>
      PROVE  /\ r[s].ack \in ToSet(kernel[d].inbox)
             /\ r[t].ack = r[s].ack => s = t
  <2>1. CASE s = n
    <3>1. t \in 1..Len(q) => r[t].ack # r[s].ack
      BY <1>2, <1>5, <1>8, <2>1
    <3> QED BY <1>2, <1>5, <1>8, <2>1, <3>1
  <2>2. CASE s \in 1..Len(q)
    <3>1. /\ q[s].ack \in ToSet(kernel[d].inbox)
          /\ \A k \in 1..Len(q) : q[k].ack = q[s].ack => s = k
      BY <1>1, <1>2, <1>5, <1>8, <2>2 DEF KernelHolds, Hears
    <3>2. t = n => r[t].ack # r[s].ack
      BY <1>2, <1>5, <1>8, <2>2
    <3> QED BY <1>5, <2>2, <3>1, <3>2
  <2> QED BY <1>5, <2>1, <2>2
<1>9. Hears(d)'
  <2>1. Positions' = Positions /\ \A p : Mail(p)' = Mail(p)
    BY DEF Positions, Mail
  <2> QED BY <1>1, <1>2, <1>5, <1>8, <2>1 DEF KernelHolds, Hears, Message
<1> QED BY <1>7, <1>9

\* A driver that is busy with a commit keeps its place.
LEMMA CommitTypes ==
    ASSUME mem \in [Devices -> Mems], NEW d \in Devices, mem' = [mem EXCEPT ![d].busy = TRUE]
    PROVE  /\ mem' \in [Devices -> Mems]
           /\ mem'[d].out = mem[d].out /\ mem'[d].cout = mem[d].cout
           /\ mem'[d].applied = mem[d].applied /\ mem'[d].ahead = mem[d].ahead
           /\ mem'[d].stage = mem[d].stage /\ mem'[d].visit = mem[d].visit
           /\ \A e \in Devices \ {d} : mem'[e] = mem[e]
BY DEF Mems

\* What the kernel commits of an application.
LEMMA ReceiveKeeps ==
    ASSUME DriverInv, room' = room, NEW d \in Devices, Receive(d)
    PROVE  DriverInv'
<1>1. Types /\ KernelHolds(d) /\ DeviceTyped(d) /\ kernel \in [Devices -> Kernels]
      /\ mem \in [Devices -> Mems] /\ done \in [Devices -> Nat]
  BY DeviceTypes DEF DriverInv, Holds, Types
<1>2. PICK p \in Positions :
         /\ MayReceive(d, Mail(p))
         /\ kernel' = [kernel EXCEPT ![d].inbox = Append(@, Message(Mail(p)))]
         /\ mem' = [mem EXCEPT ![d].busy = TRUE]
         /\ UNCHANGED <<mailbox, disk, done, refused, deaths, faults>>
  BY DEF Receive, Commit
<1>3. PICK m \in Devices \X Nat : m = Message(Mail(p)) /\ Mail(p).kind = "app"
  BY <1>1, <1>2, MailTypes DEF MayReceive
<1>4. PICK q, r : q = kernel[d].inbox /\ r = Append(q, m)
  OBVIOUS
<1>5. q \in Seq(Devices \X Nat) /\ Len(q) \in Nat /\ DOMAIN q = 1..Len(q)
  BY <1>1, <1>4 DEF DeviceTyped
<1>6. PICK n \in Nat : /\ n = Len(q) + 1 /\ Len(r) = n /\ r[n] = m /\ r \in Seq(Devices \X Nat)
                       /\ DOMAIN r = 1..n
                       /\ \A i \in 1..Len(q) : r[i] = q[i] /\ i \in 1..n /\ i # n
                       /\ \A i \in 1..n : i \in 1..Len(q) \/ i = n
  BY ONLY <1>4, <1>5, m \in Devices \X Nat
<1>7. \A i \in 1..Len(q) : q[i] # m
  BY <1>2, <1>3, <1>4, <1>5 DEF MayReceive, Inboxed
<1>8. kernel' = [kernel EXCEPT ![d].inbox = r]
  BY <1>2, <1>3, <1>4
<1>9. kernel' \in [Devices -> Kernels]
  <2>1. PICK k : k = [kernel[d] EXCEPT !.inbox = r]
    OBVIOUS
  <2>2. kernel[d] \in Kernels
    BY <1>1
  <2>3. k \in Kernels
    BY ONLY <1>6, <2>1, <2>2 DEF Kernels
  <2> QED BY <1>1, <1>8, <2>1, <2>3
<1>10. /\ kernel'[d].inbox = r /\ kernel'[d].outbox = kernel[d].outbox
       /\ kernel'[d].floor = kernel[d].floor
       /\ \A e \in Devices \ {d} : kernel'[e] = kernel[e]
  BY <1>1, <1>8 DEF Kernels
<1>11. Positions' = Positions /\ (\A k : Mail(k)' = Mail(k)) /\ Base' = Base
  BY <1>2 DEF Positions, Mail, Base
<1>12. Hears(d)'
  <2>0. Hears(d)
    BY <1>1 DEF KernelHolds
  <2>1. ToSet(q) \subseteq ToSet(r)
    BY <1>5, <1>6 DEF ToSet
  <2>2. ASSUME NEW i \in 1..n
        PROVE  \E k \in Positions : Mail(k).kind = "app" /\ r[i] = Message(Mail(k))
    <3>1. CASE i = n
      BY <1>3, <1>6, <3>1
    <3>2. CASE i \in 1..Len(q)
      BY <1>4, <1>6, <2>0, <3>2 DEF Hears
    <3> QED BY <1>6, <3>1, <3>2
  <2>3. ASSUME NEW i \in 1..n, NEW j \in 1..n, r[i] = r[j]
        PROVE  i = j
    <3>1. CASE i \in 1..Len(q) /\ j \in 1..Len(q)
      BY <1>4, <1>6, <2>0, <2>3, <3>1 DEF Hears
    <3>2. CASE ~(i \in 1..Len(q) /\ j \in 1..Len(q))
      BY <1>6, <1>7, <2>3, <3>2
    <3> QED BY <3>1, <3>2
  <2>4. \A s, t \in 1..Len(kernel[d].outbox) :
          kernel[d].outbox[s].ack # <<>> =>
             /\ kernel[d].outbox[s].ack \in ToSet(r)
             /\ kernel[d].outbox[t].ack = kernel[d].outbox[s].ack => s = t
    BY <1>4, <2>0, <2>1 DEF Hears
  <2>5. \A i \in 1..n : \E k \in Positions' : Mail(k)'.kind = "app" /\ r[i] = Message(Mail(k)')
    BY <1>11, <2>2
  <2>6. \A i, j \in 1..n : r[i] = r[j] => i = j
    BY <2>3
  <2>7. \A s, t \in 1..Len(kernel'[d].outbox) :
          kernel'[d].outbox[s].ack # <<>> =>
             /\ kernel'[d].outbox[s].ack \in ToSet(kernel'[d].inbox)
             /\ kernel'[d].outbox[t].ack = kernel'[d].outbox[s].ack => s = t
    BY <1>10, <2>4
  <2>8. \A i \in 1..Len(kernel'[d].inbox) : \E k \in Positions' :
           Mail(k)'.kind = "app" /\ kernel'[d].inbox[i] = Message(Mail(k)')
    BY <1>6, <1>10, <2>5
  <2>9. \A i, j \in 1..Len(kernel'[d].inbox) : kernel'[d].inbox[i] = kernel'[d].inbox[j] => i = j
    BY <1>6, <1>10, <2>6
  <2> QED BY <2>7, <2>8, <2>9 DEF Hears, Message
<1>13. Sends(d)'
  BY <1>1, <1>10 DEF KernelHolds, Sends
<1>14. KernelHolds(d)'
  <2>1. kernel'[Owner].floor = kernel[Owner].floor
    BY <1>1, <1>10 DEF DeviceTyped
  <2> QED BY <1>1, <1>10, <1>11, <1>12, <1>13, <2>1 DEF KernelHolds
<1>15. \E k \in Devices \X Nat : kernel'[d].inbox = Append(kernel[d].inbox, k)
  BY <1>4, <1>10
<1> QED BY <1>1, <1>2, <1>9, <1>10, <1>14, <1>15, CommitTypes, KernelStep

\* An acceptance is issued for a message of the inbox that has none.
LEMMA IssueAcceptanceKeeps ==
    ASSUME DriverInv, room' = room, NEW d \in Devices, IssueAcceptance(d)
    PROVE  DriverInv'
<1>1. Types /\ KernelHolds(d) /\ DeviceTyped(d) /\ kernel \in [Devices -> Kernels]
      /\ mem \in [Devices -> Mems] /\ done \in [Devices -> Nat] /\ d \in Devices
  BY DeviceTypes DEF DriverInv, Holds, Types
<1>2. PICK p \in Positions :
         /\ MayIssue(d, Mail(p))
         /\ kernel' = Sent(d, "app", Message(Mail(p)))
         /\ mem' = [mem EXCEPT ![d].busy = TRUE]
         /\ UNCHANGED <<mailbox, disk, done, refused, deaths, faults>>
  BY DEF IssueAcceptance, Commit
<1>3. PICK m \in Devices \X Nat : m = Message(Mail(p))
  BY <1>1, <1>2, MailTypes DEF MayIssue
<1>4. PICK n \in Nat, f \in Nat : n = Len(kernel[d].outbox) + 1 /\ f = kernel[d].floor
  <2>1. Len(kernel[d].outbox) \in Nat /\ kernel[d].floor \in Nat
    BY <1>1 DEF DeviceTyped
  <2> QED BY <2>1
<1>5. PICK it : it = Item("app", d, n, f, m)
  OBVIOUS
<1>6. /\ it \in Items /\ it.seq = n /\ it.from = d /\ it.kind = "app" /\ it.ack = m /\ m # <<>>
  <2>1. it = [kind |-> "app", from |-> d, seq |-> n, epoch |-> f, ack |-> m]
    BY <1>5 DEF Item
  <2>2. m \in Acks /\ "app" \in Kinds
    BY m \in Devices \X Nat DEF Acks, Kinds
  <2>4. m # <<>>
    BY <1>3 DEF Message
  <2>3. it \in Items
    BY ONLY <1>1, <2>1, <2>2, n \in Nat, f \in Nat DEF Items
  <2> QED BY <2>1, <2>3, <2>4
<1>17. PICK q : q = Append(kernel[d].outbox, it)
  OBVIOUS
<1>7. PICK h : h = [kernel[d] EXCEPT !.outbox = q, !.floor = f]
  OBVIOUS
<1>13. h \in Kernels /\ h.outbox = q /\ h.inbox = kernel[d].inbox /\ h.floor = f
  <2>1. kernel[d] \in Kernels
    BY <1>1
  <2>2. q \in Seq(Items)
    BY <1>6, <1>17, <2>1 DEF Kernels
  <2>3. h \in Kernels
    BY ONLY <1>7, <2>1, <2>2, f \in Nat DEF Kernels
  <2> QED BY ONLY <1>7, <2>1, <2>3 DEF Kernels
<1>14. kernel' = [kernel EXCEPT ![d] = h]
  <2>1. kernel[d] \in Kernels
    BY <1>1
  <2>2. h = [kernel[d] EXCEPT !.outbox = q]
    BY ONLY <1>4, <1>7, <2>1 DEF Kernels
  <2>3. kernel' = [kernel EXCEPT ![d] = [kernel[d] EXCEPT !.outbox = q]]
    BY <1>2, <1>3, <1>4, <1>5, <1>17, <2>1 DEF Sent
  <2> QED BY <2>2, <2>3
<1>8. /\ kernel' \in [Devices -> Kernels]
      /\ kernel'[d].outbox = Append(kernel[d].outbox, it)
      /\ kernel'[d].inbox = kernel[d].inbox /\ kernel'[d].floor = kernel[d].floor
      /\ \A e \in Devices \ {d} : kernel'[e] = kernel[e]
  BY <1>1, <1>4, <1>17, <1>13, <1>14
<1>9. /\ m \in ToSet(kernel[d].inbox)
      /\ \A s \in 1..Len(kernel[d].outbox) : kernel[d].outbox[s].ack # m
  BY <1>1, <1>2, <1>3 DEF MayIssue, Inboxed, Receipts, ToSet, DeviceTyped
<1>10. Sends(d)' /\ Hears(d)'
  BY <1>2, <1>4, <1>6, <1>8, <1>9, OutboxHolds
<1>11. KernelHolds(d)'
  <2>1. kernel'[Owner].floor = kernel[Owner].floor /\ Base' = Base
    BY <1>1, <1>8 DEF DeviceTyped, Base
  <2> QED BY <1>1, <1>8, <1>10, <2>1 DEF KernelHolds
<1>12. \E k \in Items : kernel'[d].outbox = Append(kernel[d].outbox, k)
  BY <1>6, <1>8
<1> QED BY <1>1, <1>2, <1>8, <1>11, <1>12, CommitTypes, KernelStep

\* A member follows the owner by one control.
LEMMA ApplyControlKeeps ==
    ASSUME DriverInv, room' = room, NEW d \in Devices, ApplyControl(d)
    PROVE  DriverInv'
<1>1. Types /\ KernelHolds(d) /\ DeviceTyped(d) /\ kernel \in [Devices -> Kernels]
      /\ mem \in [Devices -> Mems] /\ done \in [Devices -> Nat] /\ DeviceTyped(Owner)
  BY DeviceTypes, DriverAssumption DEF DriverInv, Holds, Types
<1>2. PICK p \in Positions :
         /\ IsControl(Mail(p)) /\ d # Owner /\ Number(Mail(p)) = kernel[d].floor + 1
         /\ kernel' = [kernel EXCEPT ![d].floor = @ + 1]
         /\ mem' = [mem EXCEPT ![d].busy = TRUE]
         /\ UNCHANGED <<mailbox, disk, done, refused, deaths, faults>>
  BY DEF ApplyControl, MayControl, Commit
<1>3. PICK f \in Nat : f = kernel[d].floor + 1
  <2>1. kernel[d].floor \in Nat
    BY <1>1 DEF DeviceTyped
  <2> QED BY ONLY <2>1
<1>4. kernel' = [kernel EXCEPT ![d].floor = f]
  BY <1>2, <1>3
<1>5. kernel' \in [Devices -> Kernels]
  BY ONLY <1>1, <1>4, f \in Nat DEF Kernels
<1>6. /\ kernel'[d].outbox = kernel[d].outbox /\ kernel'[d].inbox = kernel[d].inbox
      /\ kernel'[d].floor = f /\ kernel'[Owner].floor = kernel[Owner].floor
      /\ \A e \in Devices \ {d} : kernel'[e] = kernel[e]
  BY <1>1, <1>2, <1>4 DEF Kernels, DeviceTyped
<1>7. f <= kernel[Owner].floor
  BY <1>2, <1>3, MailKinds
<1>8. Positions' = Positions /\ (\A k : Mail(k)' = Mail(k)) /\ Base' = Base
  BY <1>2 DEF Positions, Mail, Base
<1>9. Hears(d)'
  <2>1. Hears(d)
    BY <1>1 DEF KernelHolds
  <2> QED BY <1>6, <1>8, <2>1 DEF Hears, Message
<1>10. Sends(d)'
  <2>1. ASSUME NEW s \in 1..Len(kernel[d].outbox), kernel[d].outbox[s].kind = "copy"
        PROVE  kernel[d].outbox[s].epoch < f
    BY <1>1, <1>2, <2>1 DEF KernelHolds, Sends
  <2> QED BY <1>1, <1>6, <2>1 DEF KernelHolds, Sends
<1>11. KernelHolds(d)'
  <2>1. f >= Base[d]
    <3>1. Base[d] \in Nat /\ kernel[d].floor \in Nat /\ kernel[d].floor >= Base[d]
      BY <1>1 DEF KernelHolds, DeviceTyped
    <3> QED BY ONLY <1>3, <3>1
  <2> QED BY <1>6, <1>7, <1>8, <1>9, <1>10, <2>1 DEF KernelHolds
<1> QED BY <1>1, <1>2, <1>3, <1>5, <1>6, <1>11, CommitTypes, KernelStep

\* A local command: a record, and with an owner's change the next epoch.
LEMMA LocalKeeps ==
    ASSUME DriverInv, room' = room, NEW d \in Devices, Local(d)
    PROVE  DriverInv'
<1>1. Types /\ KernelHolds(d) /\ DeviceTyped(d) /\ kernel \in [Devices -> Kernels]
      /\ mem \in [Devices -> Mems] /\ done \in [Devices -> Nat] /\ d \in Devices
  BY DeviceTypes DEF DriverInv, Holds, Types
<1>2. PICK c : c = Script[d][done[d] + 1]
  OBVIOUS
<1>3. c \in Changes \cup {"app", "contact", "offer"} /\ (d # Owner => c \notin Changes)
  <2>1. PICK q \in Seq(Changes \cup {"app", "contact", "offer"}) : q = Script[d]
    BY <1>1, RoomFacts
  <2>2. d # Owner => Changes \cap ToSet(q) = {}
    BY <1>1, <2>1, RoomFacts
  <2>3. PICK k : k = done[d] + 1
    OBVIOUS
  <2>4. done[d] \in Nat /\ done[d] < Len(q) /\ Len(q) \in Nat
    BY <1>1, <2>1 DEF Local
  <2>5. k \in 1..Len(q) /\ DOMAIN q = 1..Len(q)
    BY <2>1, <2>3, <2>4
  <2>6. c = q[k] /\ c \in ToSet(q)
    BY <1>2, <2>1, <2>3, <2>5 DEF ToSet
  <2>7. q[k] \in Changes \cup {"app", "contact", "offer"}
    BY <2>1, <2>5
  <2> QED BY <2>2, <2>6, <2>7
<1>4. PICK n \in Nat, f \in Nat :
         n = Len(kernel[d].outbox) + 1 /\ f = IF c \in Changes THEN kernel[d].floor + 1
                                                               ELSE kernel[d].floor
  <2>1. Len(kernel[d].outbox) \in Nat /\ kernel[d].floor \in Nat
    BY <1>1 DEF DeviceTyped
  <2>2. (IF c \in Changes THEN kernel[d].floor + 1 ELSE kernel[d].floor) \in Nat
    BY <2>1
  <2> QED BY <2>1, <2>2
<1>5. PICK it : it = Item(RecordKind(c), d, n, kernel[d].floor, <<>>)
  OBVIOUS
<1>6. /\ it \in Items /\ it.seq = n /\ it.from = d /\ it.ack = <<>> /\ it.kind # "control"
      /\ it.epoch = kernel[d].floor /\ (it.kind = "copy" => c = "control")
  <2>1. RecordKind(c) \in {"copy", "contact", "app", "offer"} /\ (RecordKind(c) = "copy" => c = "control")
    BY <1>3 DEF Changes, RecordKind
  <2>2. kernel[d].floor \in Nat
    BY <1>1 DEF DeviceTyped
  <2>3. PICK k : k = RecordKind(c)
    OBVIOUS
  <2> QED BY ONLY <1>1, <1>5, <2>1, <2>2, <2>3, n \in Nat DEF Item, Items, Kinds, Acks
<1>7. /\ UNCHANGED <<mailbox, disk, mem, refused, deaths, faults>>
      /\ done' = [done EXCEPT ![d] = @ + 1]
      /\ kernel' = [Sent(d, RecordKind(c), <<>>) EXCEPT
                       ![d].floor = IF c \in Changes THEN @ + 1 ELSE @]
  BY <1>2 DEF Local
<1>17. PICK q : q = Append(kernel[d].outbox, it)
  OBVIOUS
<1>8. PICK h : h = [kernel[d] EXCEPT !.outbox = q, !.floor = f]
  OBVIOUS
<1>15. h \in Kernels /\ h.outbox = q /\ h.inbox = kernel[d].inbox /\ h.floor = f
  <2>1. kernel[d] \in Kernels
    BY <1>1
  <2>2. q \in Seq(Items)
    BY <1>6, <1>17, <2>1 DEF Kernels
  <2>3. h \in Kernels
    BY ONLY <1>8, <2>1, <2>2, f \in Nat DEF Kernels
  <2> QED BY ONLY <1>8, <2>1, <2>3 DEF Kernels
<1>16. kernel' = [kernel EXCEPT ![d] = h]
  <2>1. kernel[d] \in Kernels
    BY <1>1
  <2>3. Sent(d, RecordKind(c), <<>>) = [kernel EXCEPT ![d] = [kernel[d] EXCEPT !.outbox = q]]
    BY <1>1, <1>4, <1>5, <1>17, <2>1 DEF Sent
  <2>4. [kernel[d] EXCEPT !.outbox = q].floor = kernel[d].floor
    BY ONLY <2>1 DEF Kernels
  <2>5. PICK k : k = [kernel EXCEPT ![d] = [kernel[d] EXCEPT !.outbox = q]]
    OBVIOUS
  <2>6. k[d] = [kernel[d] EXCEPT !.outbox = q] /\ k[d].floor = kernel[d].floor
    BY <1>1, <2>4, <2>5
  <2>7. kernel' = [k EXCEPT ![d].floor = f]
    BY <1>4, <1>7, <2>3, <2>5, <2>6
  <2>8. kernel' = [k EXCEPT ![d] = [k[d] EXCEPT !.floor = f]]
    BY <2>7
  <2>9. [k[d] EXCEPT !.floor = f] = h
    BY <1>8, <2>6
  <2> QED BY <1>1, <2>5, <2>8, <2>9
<1>9. /\ kernel' \in [Devices -> Kernels]
      /\ kernel'[d].outbox = Append(kernel[d].outbox, it)
      /\ kernel'[d].inbox = kernel[d].inbox /\ kernel'[d].floor = f
      /\ \A e \in Devices \ {d} : kernel'[e] = kernel[e]
  BY <1>1, <1>17, <1>15, <1>16
<1>10. /\ f = kernel[d].floor \/ f = kernel[d].floor + 1
       /\ kernel[d].floor <= f
       /\ d # Owner => f = kernel[d].floor
       /\ it.kind = "copy" => d = Owner /\ it.epoch < f
  <2>1. kernel[d].floor \in Nat /\ "control" \in Changes
    BY <1>1 DEF DeviceTyped, Changes
  <2> QED BY ONLY <1>3, <1>4, <1>6, <2>1
<1>11. Sends(d)' /\ Hears(d)'
  BY <1>4, <1>6, <1>7, <1>9, <1>10, OutboxHolds
<1>12. KernelHolds(d)'
  <2>1. Base' = Base /\ Base[d] \in Nat /\ kernel[d].floor \in Nat
        /\ kernel[d].floor >= Base[d] /\ kernel[d].floor <= kernel[Owner].floor
    BY <1>1 DEF DeviceTyped, Base, KernelHolds
  <2>2. kernel'[d].floor >= Base[d]
    BY <1>4, <1>9, <1>10, <2>1
  <2>3. kernel'[d].floor <= kernel'[Owner].floor
    <3>1. CASE d = Owner
      BY <1>9, <3>1
    <3>2. CASE d # Owner
      <4>1. kernel'[Owner] = kernel[Owner]
        BY <1>1, <1>9, <3>2 DEF DeviceTyped
      <4> QED BY <1>9, <1>10, <2>1, <3>2, <4>1
    <3> QED BY <3>1, <3>2
  <2> QED BY <1>11, <2>1, <2>2, <2>3 DEF KernelHolds
<1>13. \E k \in Items : kernel'[d].outbox = Append(kernel[d].outbox, k)
  BY <1>6, <1>9
<1>14. done' \in [Devices -> Nat]
  BY <1>1, <1>7
<1> QED BY <1>1, <1>7, <1>9, <1>10, <1>12, <1>13, <1>14, KernelStep
-----------------------------------------------------------------------------
(* Markers are left.                                                       *)

\* What process says of an item restore_marker confirms, then and later.
LEMMA VerdictFacts ==
    ASSUME DriverInv, NEW d \in Devices, NEW p \in Positions, NEW m \in Verdict(d, Mail(p))
    PROVE  m \in Markers /\ Sound(d, Mail(p), m)
<1>1. Types /\ MailHolds /\ DeviceTyped(d)
  BY DeviceTypes DEF DriverInv
<1>2. PICK it \in Items : it = Mail(p)
  BY <1>1, MailTypes
<1>3. it.kind \in {"control", "copy", "contact", "app"}
  BY <1>2, MailKinds
<1>4. m \in Verdict(d, it) /\ 0 \in Nat
  BY <1>2
<1>5. CASE Echo(d, it)
  <2>1. m = Marker("echo", 0, 0)
    BY <1>4, <1>5 DEF Verdict
  <2>2. m \in Markers /\ m.state = "echo"
    BY <2>1 DEF Marker, Markers, MarkStates
  <2> QED BY <1>2, <1>5, <2>2 DEF Sound, MarkerHolds
<1>6. CASE ~Echo(d, it) /\ IsControl(it)
  <2>1. \/ m = Marker("predates", 0, 0) /\ Number(it) <= Base[d]
        \/ m = Marker("control", 0, 0) /\ Number(it) \in (Base[d] + 1)..kernel[d].floor
    <3>0. it.kind # "app"
      BY <1>6 DEF IsControl
    <3>1. m \in ControlVerdict(d, it)
      BY ONLY <1>4, <1>6, <3>0 DEF Verdict
    <3> QED BY ONLY <3>1 DEF ControlVerdict, When
  <2>2. m \in Markers /\ m.state \in {"predates", "control"}
    BY <2>1 DEF Marker, Markers, MarkStates
  <2>3. \/ m.state = "predates" /\ Number(it) <= Base[d]
        \/ m.state = "control" /\ Number(it) \in (Base[d] + 1)..kernel[d].floor
    BY <2>1 DEF Marker
  <2> QED BY <1>2, <1>6, <2>2, <2>3 DEF Sound, MarkerHolds
<1>7. CASE ~Echo(d, it) /\ it.kind = "app"
  <2>0. ~IsControl(it)
    BY <1>7 DEF IsControl
  <2>1. m \in AppVerdict(d, it)
    BY <1>4, <1>7, <2>0 DEF Verdict
  <2>2. CASE m = Marker("stale", 0, 0)
    <3>1. m \in Markers /\ m.state = "stale"
      BY <2>2 DEF Marker, Markers, MarkStates
    <3> QED BY <1>2, <1>7, <3>1 DEF Sound, MarkerHolds
  <2>3. CASE \E i \in Inboxed(d, it) : \E r \in IF Owes(d, it) THEN Receipts(d, it) ELSE {0} :
                m = Marker(Reading(d, it), i, r)
    <3>1. PICK i \in Inboxed(d, it), r \in IF Owes(d, it) THEN Receipts(d, it) ELSE {0} :
             m = Marker(Reading(d, it), i, r)
      BY <2>3
    <3>2. Reading(d, it) \in {"received", "claim", "unmatched"}
      BY DEF Reading
    <3>3. i \in Nat /\ r \in Nat
      <4>1. Inboxed(d, it) \subseteq Nat /\ Receipts(d, it) \subseteq Nat
        <5>1. /\ DOMAIN kernel[d].inbox = 1..Len(kernel[d].inbox) /\ Len(kernel[d].inbox) \in Nat
              /\ DOMAIN kernel[d].outbox = 1..Len(kernel[d].outbox) /\ Len(kernel[d].outbox) \in Nat
          BY <1>1 DEF DeviceTyped
        <5>2. Inboxed(d, it) \subseteq DOMAIN kernel[d].inbox /\ Receipts(d, it) \subseteq DOMAIN kernel[d].outbox
          BY DEF Inboxed, Receipts
        <5> QED BY ONLY <5>1, <5>2
      <4> QED BY <4>1
    <3>4. PICK st : st = Reading(d, it)
      OBVIOUS
    <3>5. m = [state |-> st, inbox |-> i, receipt |-> r]
      BY <3>1, <3>4 DEF Marker
    <3>6. m \in Markers
      BY <3>2, <3>3, <3>4, <3>5 DEF Markers, MarkStates
    <3>7. m.state = Reading(d, it) /\ m.inbox = i /\ m.receipt = r
      BY <3>4, <3>5
    <3>8. Owes(d, it) => m.receipt \in Receipts(d, it)
      BY <3>7
    <3>9. MarkerHolds(d, it, m) /\ m.state # "predates" /\ m.state # "bootstrap"
      BY <1>7, <3>2, <3>7, <3>8 DEF MarkerHolds
    <3> QED BY <1>2, <3>6, <3>9 DEF Sound
  <2> QED BY <2>1, <2>2, <2>3 DEF AppVerdict, When
<1>8. CASE ~Echo(d, it) /\ it.kind = "contact"
  <2>0. ~IsControl(it) /\ it.kind # "app"
    BY <1>8 DEF IsControl
  <2>1. m = Marker("bootstrap", 0, 0)
    BY <1>4, <1>8, <2>0 DEF Verdict
  <2>2. m \in Markers /\ m.state = "bootstrap"
    BY <2>1 DEF Marker, Markers, MarkStates
  <2>3. it.from # d
    <3>1. it.seq \in DOMAIN disk[it.from].jobs
      BY <1>1, <1>2, <1>8 DEF MailHolds
    <3> QED BY <1>8, <3>1 DEF Echo
  <2> QED BY <1>2, <1>8, <2>2, <2>3 DEF Sound, MarkerHolds
<1> QED BY <1>3, <1>5, <1>6, <1>7, <1>8 DEF IsControl

\* The files of a position: one that is not a marker yet gets another state.
LEMMA MarkLeft ==
    ASSUME DriverInv, NEW d \in Devices, NEW p \in Positions, p \in 1..disk[d].staged,
           NEW m \in Markers, Sound(d, Mail(p), m),
           NEW f, f \in {Blank, Scratch(m), Final(m)},
           Mark(d, p).at # "json", Leave(d, p, f), UNCHANGED <<room, mailbox, kernel>>
    PROVE  /\ disk' \in [Devices -> Disks]
           /\ disk'[d].jobs = disk[d].jobs /\ disk'[d].controls = disk[d].controls
           /\ disk'[d].cp = disk[d].cp /\ disk'[d].ccp = disk[d].ccp
           /\ disk'[d].staged = disk[d].staged
           /\ \A e \in Devices \ {d} : disk'[e] = disk[e]
           /\ Json(d) \subseteq Json(d)'
           /\ f = Final(m) => p \in Json(d)'
           /\ MarksHold(d)'
<1>1. Types /\ MarksHold(d) /\ DeviceTyped(d) /\ disk \in [Devices -> Disks]
  BY DeviceTypes DEF DriverInv, Holds, Types
<1>2. disk[d].marks \in Shelves /\ p \in Nat /\ f \in Files
  BY <1>1 DEF DeviceTyped, Files, Positions
<1>3. PICK q \in Shelves : q = disk[d].marks
  BY <1>2
<1>4. PICK r \in Shelves : r = With(q, p, f)
  BY <1>2, WithShelf
<1>5. /\ DOMAIN r = DOMAIN q \cup {p} /\ r[p] = f
      /\ \A x \in DOMAIN q : x # p => r[x] = q[x]
  BY <1>4 DEF With
<1>6. disk' = [disk EXCEPT ![d].marks = r]
  BY <1>3, <1>4 DEF Leave
<1>7. disk' \in [Devices -> Disks]
  BY ONLY <1>1, <1>6, r \in Shelves DEF Disks
<1>8. /\ disk'[d].jobs = disk[d].jobs /\ disk'[d].controls = disk[d].controls
      /\ disk'[d].cp = disk[d].cp /\ disk'[d].ccp = disk[d].ccp
      /\ disk'[d].staged = disk[d].staged /\ disk'[d].marks = r
      /\ \A e \in Devices \ {d} : disk'[e] = disk[e]
  BY <1>1, <1>6 DEF Disks
<1>9. p \notin Json(d)
  BY DEF Json, Mark
<1>10. Json(d)' = IF f.at = "json" THEN Json(d) \cup {p} ELSE Json(d)
  <2>1. Json(d) = {x \in DOMAIN q : q[x].at = "json"} /\ Json(d)' = {x \in DOMAIN r : r[x].at = "json"}
    BY <1>3, <1>8 DEF Json
  <2> QED BY <1>5, <1>9, <2>1
<1>11. f.at = "json" => f = Final(m) /\ f.marker = m
  BY DEF Blank, Scratch, Final
<1>12. f = Final(m) => f.at = "json"
  BY DEF Final
<1>13. Base' = Base /\ Emits' = Emits /\ \A x : Mail(x)' = Mail(x)
  BY DEF Base, Emits, Mail
<1>14. ASSUME NEW x \in Json(d)'
       PROVE  Sound(d, Mail(x), disk[d].marks[x].marker)'
  <2>1. PICK it, k : it = Mail(x) /\ k = r[x].marker
    OBVIOUS
  <2>2. Sound(d, it, k)
    <3>1. CASE x = p
      <4>1. f.at = "json"
        BY <1>9, <1>10, <1>14, <3>1
      <4> QED BY <1>5, <1>11, <2>1, <3>1, <4>1
    <3>2. CASE x # p
      <4>1. x \in Json(d)
        BY <1>10, <1>14, <3>2
      <4>2. r[x] = disk[d].marks[x]
        BY <1>3, <1>5, <3>2, <4>1 DEF Json
      <4> QED BY <1>1, <2>1, <4>1, <4>2 DEF MarksHold
    <3> QED BY <3>1, <3>2
  <2>3. Sound(d, it, k)'
    BY <1>8, <1>13, <2>2 DEF Sound, MarkerHolds, Echo, Reading, Inboxed, Receipts, Owes, IsReceipt,
                             IsControl, Number, Message
  <2>4. Mail(x)' = it /\ disk'[d].marks[x].marker = k
    BY <1>8, <1>13, <2>1
  <2>5. Sound(d, it, k)' <=> Sound(d, Mail(x), disk[d].marks[x].marker)'
    BY <2>4 DEF Sound, MarkerHolds, Echo, Reading, Inboxed, Receipts, Owes, IsReceipt, IsControl,
                Number, Message
  <2> QED BY <2>3, <2>5
<1>15. MarksHold(d)'
  <2>1. Json(d)' \subseteq 1..disk[d].staged
    BY <1>1, <1>10 DEF MarksHold
  <2>2. 1..disk[d].cp.applied \subseteq Json(d)'
    BY <1>1, <1>10 DEF MarksHold
  <2>3. disk[d].staged <= Len(mailbox')
    BY <1>1 DEF MarksHold
  <2> QED BY <1>8, <1>14, <2>1, <2>2, <2>3 DEF MarksHold
<1> QED BY <1>7, <1>8, <1>10, <1>12, <1>15

\* Markers of which a step changes nothing.
LEMMA UnmarkedMarks ==
    ASSUME NEW d \in Devices, MarksHold(d), UNCHANGED <<room, mailbox, kernel, disk>>
    PROVE  MarksHold(d)'
<1>1. Base' = Base /\ Emits' = Emits /\ (\A x : Mail(x)' = Mail(x)) /\ Json(d)' = Json(d)
  BY DEF Base, Emits, Mail, Json
<1>2. \A it, m : Sound(d, it, m) => Sound(d, it, m)'
  BY <1>1 DEF Sound, MarkerHolds, Echo, Reading, Inboxed, Receipts, Owes, IsReceipt, IsControl,
              Number, Message
<1>3. ASSUME NEW p \in Json(d) PROVE Sound(d, Mail(p), disk[d].marks[p].marker)'
  <2>1. PICK it, m : it = Mail(p) /\ m = disk[d].marks[p].marker
    OBVIOUS
  <2>2. Sound(d, it, m)'
    BY <1>2, <2>1 DEF MarksHold
  <2>3. Mail(p)' = it /\ disk'[d].marks[p].marker = m
    BY <1>1, <2>1
  <2> QED BY <2>2, <2>3 DEF Sound, MarkerHolds, Echo, Reading, Inboxed, Receipts, Owes, IsReceipt,
                            IsControl, Number, Message
<1> QED BY <1>1, <1>3 DEF MarksHold

\* A driver goes down, whatever it leaves of a marker.
LEMMA DownKeeps ==
    ASSUME DriverInv, NEW d \in Devices, mem' = [mem EXCEPT ![d] = Down],
           UNCHANGED <<room, mailbox, kernel, done>>,
           refused' \in [Devices -> {"no", "scratch"}],
           deaths' \in 0..MaxDeaths, faults' \in 0..MaxFaults,
           disk' \in [Devices -> Disks],
           disk'[d].jobs = disk[d].jobs, disk'[d].controls = disk[d].controls,
           disk'[d].cp = disk[d].cp, disk'[d].ccp = disk[d].ccp,
           \A e \in Devices \ {d} : disk'[e] = disk[e],
           MarksHold(d)'
    PROVE  DriverInv'
<1>1. Types /\ mem \in [Devices -> Mems]
  BY DEF DriverInv, Types
<1>2. Down \in Mems
  BY DEF Down, Mems, Stages
<1>3. mem' \in [Devices -> Mems] /\ mem'[d] = Down /\ \A e \in Devices \ {d} : mem'[e] = mem[e]
  BY <1>1, <1>2
<1>4. Types'
  BY <1>1, <1>3 DEF Types, MaxDeaths, MaxFaults
<1>5. MemHolds(d)'
  BY <1>3, <1>4, MemDown
<1>6. Grows
  BY <1>1, StillGrows
<1>7. QueuesHold(d)'
  BY <1>4, <1>6, QueuesKept
<1> QED BY <1>3, <1>4, <1>5, <1>7, DeviceStep

\* The position in hand: it is staged, and what a step reads of it.
LEMMA HereFacts ==
    ASSUME DriverInv, NEW d \in Devices, NEW p \in Positions, Unmarked(d, p)
    PROVE  /\ mem[d].visit # <<>> /\ p = Head(mem[d].visit) /\ p \in 1..disk[d].staged
           /\ Mark(d, p).at # "json"
BY VisitFacts DEF Unmarked, Here

\* A marker is published for the position in hand, or its scratch refuses it.
LEMMA PublishKeeps ==
    ASSUME DriverInv, room' = room, NEW d \in Devices, Publish(d)
    PROVE  DriverInv'
<1>1. Types /\ MemHolds(d) /\ MarksHold(d) /\ DeviceTyped(d) /\ mem \in [Devices -> Mems]
      /\ refused \in [Devices -> {"no", "scratch"}] /\ deaths \in 0..MaxDeaths
      /\ faults \in 0..MaxFaults /\ disk \in [Devices -> Disks]
  BY DeviceTypes DEF DriverInv, Holds, Types
<1>6. PICK p \in Positions : \E m \in Verdict(d, Mail(p)) :
         /\ Unmarked(d, p)
         /\ IF Replays(d, p, m)
            THEN /\ Leave(d, p, Final(m))
                 /\ mem' = Visited(d, Complete(d, p))
                 /\ UNCHANGED worldVars
            ELSE Refuse(d, "scratch")
  BY DEF Publish
<1>2. PICK m \in Verdict(d, Mail(p)) :
         /\ Unmarked(d, p)
         /\ IF Replays(d, p, m)
            THEN /\ Leave(d, p, Final(m))
                 /\ mem' = Visited(d, Complete(d, p))
                 /\ UNCHANGED worldVars
            ELSE Refuse(d, "scratch")
  BY <1>6
<1>3. /\ mem[d].visit # <<>> /\ p = Head(mem[d].visit) /\ p \in 1..disk[d].staged
      /\ Mark(d, p).at # "json" /\ m \in Markers /\ Sound(d, Mail(p), m)
  BY <1>2, HereFacts, VerdictFacts
<1>4. CASE Replays(d, p, m)
  <2>1. /\ Leave(d, p, Final(m)) /\ mem' = Visited(d, Complete(d, p))
        /\ UNCHANGED <<mailbox, kernel, done, refused, deaths, faults>>
    BY <1>2, <1>4 DEF worldVars
  <2>2. PICK f : f = Final(m)
    OBVIOUS
  <2>3. /\ f \in {Blank, Scratch(m), Final(m)} /\ Leave(d, p, f)
    BY <2>1, <2>2
  <2>4. /\ disk' \in [Devices -> Disks]
        /\ disk'[d].jobs = disk[d].jobs /\ disk'[d].controls = disk[d].controls
        /\ disk'[d].cp = disk[d].cp /\ disk'[d].ccp = disk[d].ccp
        /\ disk'[d].staged = disk[d].staged
        /\ \A e \in Devices \ {d} : disk'[e] = disk[e]
        /\ Json(d) \subseteq Json(d)' /\ p \in Json(d)' /\ MarksHold(d)'
    BY <1>3, <2>1, <2>2, <2>3, MarkLeft
  <2>5. PICK J : J = Json(d)'
    OBVIOUS
  <2>6. J \in SUBSET (1..disk[d].staged) /\ disk[d].staged \in Nat
    BY <1>1, <2>4, <2>5 DEF MarksHold, DeviceTyped
  <2>7. mem[d].applied \in Nat /\ 1..mem[d].applied \subseteq J /\ mem[d].ahead \subseteq J
    BY <1>1, <2>4, <2>5 DEF MemHolds, DeviceTyped
  <2>8. PICK a : a = Complete(d, p)
    OBVIOUS
  <2>9. a.applied \in Nat /\ 1..a.applied \subseteq J /\ a.ahead \subseteq J
    BY <2>4, <2>5, <2>6, <2>7, <2>8, CompleteFacts
  <2>10. a.ahead \in SUBSET Nat
    <3>1. 1..disk[d].staged \subseteq Nat
      OBVIOUS
    <3> QED BY <2>6, <2>9, <3>1
  <2>11. /\ Tail(mem[d].visit) \in Seq(Nat) /\ Head(mem[d].visit) + 1 \in Nat
         /\ \A i \in 1..Len(Tail(mem[d].visit)) : Tail(mem[d].visit)[i] \in 1..disk[d].staged
    BY <1>3, VisitFacts
  <2>12. mem' = Visited(d, a)
    BY <2>1, <2>8
  <2>13. mem' \in [Devices -> Mems]
    <3>1. Visited(d, a) \in [Devices -> Mems]
      BY <1>1, <2>9, <2>10, <2>11, VisitedTypes, Zenon
    <3> QED BY <2>12, <3>1
  <2>14. /\ mem'[d].out = mem[d].out /\ mem'[d].cout = mem[d].cout
         /\ mem'[d].applied = a.applied /\ mem'[d].ahead = a.ahead
         /\ mem'[d].stage = mem[d].stage /\ mem'[d].visit = Tail(mem[d].visit)
         /\ \A e \in Devices \ {d} : mem'[e] = mem[e]
    BY <1>1, <2>12 DEF Mems, Visited
  <2>15. Types'
    BY <1>1, <2>1, <2>4, <2>13 DEF Types, MaxDeaths, MaxFaults
  <2>16. Grows
    BY <1>1, <2>1, <2>4, StillGrows
  <2>17. QueuesHold(d)'
    BY <2>4, <2>15, <2>16, QueuesKept
  <2>18. MemHolds(d)'
    <3>1. Covers(d, mem[d].out)'
      BY <1>1, <2>1, <2>4, <2>14 DEF MemHolds, Covers
    <3>2. Base' = Base
      BY DEF Base
    <3> QED BY <1>1, <2>4, <2>5, <2>9, <2>11, <2>14, <3>1, <3>2 DEF MemHolds
  <2> QED BY <2>1, <2>4, <2>14, <2>15, <2>17, <2>18, DeviceStep
<1>5. CASE ~Replays(d, p, m)
  <2>1. /\ refused' = [refused EXCEPT ![d] = "scratch"]
        /\ mem' = [mem EXCEPT ![d] = Down]
        /\ UNCHANGED <<mailbox, kernel, disk, done, deaths, faults>>
    BY <1>2, <1>5 DEF Refuse
  <2>2. refused' \in [Devices -> {"no", "scratch"}]
    BY <1>1, <2>1
  <2>3. deaths' \in 0..MaxDeaths /\ faults' \in 0..MaxFaults /\ disk' \in [Devices -> Disks]
    BY <1>1, <2>1
  <2>4. MarksHold(d)'
    BY <1>1, <2>1, UnmarkedMarks
  <2> QED BY <2>1, <2>2, <2>3, <2>4, DownKeeps
<1> QED BY <1>4, <1>5

\* A driver dies, before or inside the write of a marker.
LEMMA DieKeeps ==
    ASSUME DriverInv, room' = room, NEW d \in Devices, Die(d)
    PROVE  DriverInv'
<1>1. Types /\ MarksHold(d)
      /\ refused \in [Devices -> {"no", "scratch"}] /\ deaths \in 0..MaxDeaths
      /\ faults \in 0..MaxFaults /\ disk \in [Devices -> Disks] /\ MaxDeaths \in Nat
  BY RoomFacts DEF DriverInv, Holds, Types
<1>2. /\ deaths < MaxDeaths /\ deaths' = deaths + 1 /\ mem' = [mem EXCEPT ![d] = Down]
      /\ UNCHANGED <<mailbox, kernel, done, refused, faults>>
  BY DEF Die
<1>3. deaths' \in 0..MaxDeaths /\ faults' \in 0..MaxFaults /\ refused' \in [Devices -> {"no", "scratch"}]
  BY <1>1, <1>2
<1>4. CASE disk' = disk
  <2>1. MarksHold(d)'
    BY <1>1, <1>2, <1>4, UnmarkedMarks
  <2>2. disk' \in [Devices -> Disks]
    BY <1>1, <1>4
  <2> QED BY <1>2, <1>3, <1>4, <2>1, <2>2, DownKeeps
<1>5. ASSUME NEW p \in Positions, NEW m \in Verdict(d, Mail(p)), Unmarked(d, p),
             NEW f \in {Blank, Scratch(m), Final(m)}, Leave(d, p, f)
      PROVE  DriverInv'
  <2>1. /\ p \in 1..disk[d].staged /\ Mark(d, p).at # "json" /\ m \in Markers /\ Sound(d, Mail(p), m)
    BY <1>5, HereFacts, VerdictFacts
  <2>2. /\ disk' \in [Devices -> Disks]
        /\ disk'[d].jobs = disk[d].jobs /\ disk'[d].controls = disk[d].controls
        /\ disk'[d].cp = disk[d].cp /\ disk'[d].ccp = disk[d].ccp
        /\ \A e \in Devices \ {d} : disk'[e] = disk[e]
        /\ MarksHold(d)'
    BY <1>2, <1>5, <2>1, MarkLeft
  <2> QED BY <1>2, <1>3, <2>2, DownKeeps
<1> QED BY <1>4, <1>5 DEF Die
-----------------------------------------------------------------------------
(* The invariant is inductive.                                             *)

\* The invariant holds at first.
LEMMA InitHolds == Init => DriverInv
<1> SUFFICES ASSUME Init PROVE DriverInv
  OBVIOUS
<1>1. room \in Rooms
  BY DEF Init
<1>2. Floor \in Nat /\ \A d \in Devices : Base[d] \in Nat /\ Base[d] <= Floor
  BY <1>1, FloorBounds
<1>3. /\ mailbox = <<>>
      /\ kernel = [d \in Devices |-> [floor |-> Floor, outbox |-> <<>>, inbox |-> <<>>]]
      /\ disk = [d \in Devices |->
                   [jobs |-> <<>>, controls |-> <<>>, cp |-> [out |-> 0, applied |-> 0],
                    ccp |-> 0, staged |-> 0, marks |-> <<>>]]
      /\ mem = [d \in Devices |-> Down]
      /\ done = [d \in Devices |-> 0] /\ refused = [d \in Devices |-> "no"]
      /\ deaths = 0 /\ faults = 0
  BY DEF Init
<1>4. kernel \in [Devices -> Kernels]
  <2>1. [floor |-> Floor, outbox |-> <<>>, inbox |-> <<>>] \in Kernels
    BY <1>2 DEF Kernels
  <2> QED BY <1>3, <2>1
<1>5. disk \in [Devices -> Disks]
  <2>1. PICK q : q = <<>> /\ q \in Queues /\ q \in Shelves
    BY EmptyQueue
  <2>2. [jobs |-> q, controls |-> q, cp |-> [out |-> 0, applied |-> 0],
         ccp |-> 0, staged |-> 0, marks |-> q] \in Disks
    BY ONLY <2>1 DEF Disks
  <2> QED BY <1>3, <2>1, <2>2
<1>6. mem \in [Devices -> Mems]
  <2>1. Down \in Mems
    BY DEF Down, Mems, Stages
  <2> QED BY <1>3, <2>1
<1>7. Types
  <2>1. <<>> \in Seq(Letters)
    OBVIOUS
  <2>2. MaxDeaths \in Nat /\ MaxFaults \in Nat
    BY <1>1, DriverAssumption DEF MaxDeaths, MaxFaults
  <2>3. done \in [Devices -> Nat] /\ refused \in [Devices -> {"no", "scratch"}]
    BY <1>3
  <2>4. deaths \in 0..MaxDeaths /\ faults \in 0..MaxFaults
    BY <1>3, <2>2
  <2> QED BY <1>1, <1>3, <1>4, <1>5, <1>6, <2>1, <2>3, <2>4 DEF Types
<1>8. MailHolds
  BY <1>3 DEF MailHolds, Positions
<1>9. ASSUME NEW d \in Devices PROVE Holds(d)
  <2>1. /\ kernel[d].floor = Floor /\ kernel[d].outbox = <<>> /\ kernel[d].inbox = <<>>
        /\ Len(<<>>) = 0 /\ 1..0 = {} /\ kernel[Owner].floor = Floor
    BY <1>3, DriverAssumption
  <2>2. /\ disk[d].jobs = <<>> /\ disk[d].controls = <<>> /\ disk[d].cp.out = 0
        /\ disk[d].cp.applied = 0 /\ disk[d].ccp = 0 /\ disk[d].staged = 0
        /\ disk[d].marks = <<>> /\ DOMAIN <<>> = {}
    BY <1>3, EmptyQueue
  <2>3. /\ mem[d].stage = "down" /\ mem[d].out = 0 /\ mem[d].cout = 0 /\ mem[d].applied = 0
        /\ mem[d].ahead = {} /\ mem[d].visit = <<>>
    BY <1>3 DEF Down
  <2>4. KernelHolds(d)
    BY <1>2, <2>1 DEF KernelHolds, Sends, Hears
  <2>5. Covers(d, 0) /\ (Base[d] + 1)..0 = {}
    BY <1>2, <2>1 DEF Covers
  <2>6. QueuesHold(d)
    BY <2>2, <2>5 DEF QueuesHold
  <2>7. MemHolds(d)
    BY <2>1, <2>3, <2>5 DEF MemHolds
  <2>8. Json(d) = {}
    BY <2>2 DEF Json
  <2>9. MarksHold(d)
    BY <1>3, <2>1, <2>2, <2>8 DEF MarksHold
  <2> QED BY <2>4, <2>6, <2>7, <2>9 DEF Holds
<1> QED BY <1>7, <1>8, <1>9 DEF DriverInv

\* Every step keeps it.
LEMMA NextKeeps == DriverInv /\ [Next]_vars => DriverInv'
<1> SUFFICES ASSUME DriverInv, [Next]_vars PROVE DriverInv'
  OBVIOUS
<1>1. CASE UNCHANGED vars
  <2>1. UNCHANGED <<room, mailbox, kernel, disk, mem, done, refused, deaths, faults>>
    BY <1>1 DEF vars
  <2>2. Types /\ Owner \in Devices
    BY DriverAssumption DEF DriverInv
  <2>3. Types'
    BY <2>1, <2>2 DEF Types, MaxDeaths, MaxFaults
  <2>4. Grows
    BY <2>1, <2>2, StillGrows
  <2>5. MailHolds'
    BY <2>1, <2>3, <2>4, MailKept
  <2>6. \A e \in Devices : Holds(e)'
    BY <2>1, <2>3, <2>4, OthersHold
  <2> QED BY <2>3, <2>5, <2>6 DEF DriverInv
<1>2. ASSUME room' = room, NEW d \in Devices, Act(d) PROVE DriverInv'
  <2>1. CASE Open(d)
    BY <1>2, <2>1, OpenKeeps
  <2>2. CASE BeginTick(d)
    BY <1>2, <2>2, BeginTickKeeps
  <2>3. CASE CatchUpBase(d) \/ SaveControl(d)
    BY <1>2, <2>3, SaveControlKeeps
  <2>4. CASE EnqueueControl(d)
    BY <1>2, <2>4, EnqueueControlKeeps
  <2>5. CASE CatchUp(d)
    BY <1>2, <2>5, CatchUpKeeps
  <2>6. CASE Retain(d)
    BY <1>2, <2>6, RetainKeeps
  <2>7. CASE Poll(d) \/ PollFails(d)
    BY <1>2, <2>7, PollKeeps
  <2>8. CASE PassOver(d) \/ Defer(d)
    BY <1>2, <2>8, PassOverKeeps
  <2>9. CASE Restore(d)
    BY <1>2, <2>9, RestoreKeeps
  <2>10. CASE Receive(d)
    BY <1>2, <2>10, ReceiveKeeps
  <2>11. CASE IssueAcceptance(d)
    BY <1>2, <2>11, IssueAcceptanceKeeps
  <2>12. CASE ApplyControl(d)
    BY <1>2, <2>12, ApplyControlKeeps
  <2>13. CASE Publish(d)
    BY <1>2, <2>13, PublishKeeps
  <2>14. CASE Save(d) \/ Late(d)
    BY <1>2, <2>14, SaveKeeps
  <2>15. CASE Local(d)
    BY <1>2, <2>15, LocalKeeps
  <2>16. CASE Resume(d)
    BY <1>2, <2>16, ResumeKeeps
  <2>17. CASE Unsettled(d)
    BY <1>2, <2>17, UnsettledKeeps
  <2>18. CASE Die(d)
    BY <1>2, <2>18, DieKeeps
  <2> QED BY <1>2, <2>1, <2>2, <2>3, <2>4, <2>5, <2>6, <2>7, <2>8, <2>9, <2>10, <2>11, <2>12, <2>13,
             <2>14, <2>15, <2>16, <2>17, <2>18 DEF Act, Step
<1> QED BY <1>1, <1>2 DEF Next

-----------------------------------------------------------------------------
(* What the invariant says of the evidence.                                *)

\* The invariant has the type invariant in it.
LEMMA InvTypeOK == DriverInv => TypeOK
<1> SUFFICES ASSUME DriverInv PROVE TypeOK
  OBVIOUS
<1>1. Types /\ MailHolds
  BY DEF DriverInv
<1>2. \A p, q \in Positions : Mail(p) = Mail(q) => p = q
  BY <1>1 DEF MailHolds
<1>3. ASSUME NEW d \in Devices
      PROVE  /\ kernel[d].floor \in Base[d]..kernel[Owner].floor
             /\ \A s \in DOMAIN kernel[d].outbox : kernel[d].outbox[s].seq = s
             /\ DOMAIN disk[d].jobs \subseteq DOMAIN kernel[d].outbox
             /\ DOMAIN disk[d].controls \subseteq (Base[d] + 1)..kernel[d].floor
             /\ \A s \in DOMAIN disk[d].jobs : disk[d].jobs[s] \in JobStates
             /\ \A s \in DOMAIN disk[d].controls : disk[d].controls[s] \in JobStates
             /\ disk[d].staged \in 0..Len(mailbox)
             /\ \A p \in DOMAIN disk[d].marks :
                   \/ disk[d].marks[p] = Blank
                   \/ disk[d].marks[p].marker.state \in MarkStates
             /\ mem[d].applied \in 0..disk[d].staged
  <2>1. /\ KernelHolds(d) /\ QueuesHold(d) /\ MemHolds(d) /\ MarksHold(d)
        /\ DeviceTyped(d) /\ DeviceTyped(Owner)
    BY <1>1, DeviceTypes, DriverAssumption DEF DriverInv, Holds
  <2>2. kernel[d].floor \in Base[d]..kernel[Owner].floor
    <3>1. /\ kernel[d].floor \in Nat /\ Base[d] \in Nat /\ kernel[Owner].floor \in Nat
          /\ kernel[d].floor >= Base[d] /\ kernel[d].floor <= kernel[Owner].floor
      BY <2>1 DEF KernelHolds, DeviceTyped
    <3> QED BY ONLY <3>1
  <2>3. /\ \A s \in DOMAIN kernel[d].outbox : kernel[d].outbox[s].seq = s
        /\ DOMAIN disk[d].jobs \subseteq DOMAIN kernel[d].outbox
    <3>1. DOMAIN kernel[d].outbox = 1..Len(kernel[d].outbox) /\ Len(kernel[d].outbox) \in Nat
      BY <2>1 DEF DeviceTyped
    <3>2. \A s \in DOMAIN disk[d].jobs : s \in Nat /\ s > 0 /\ s <= Len(kernel[d].outbox)
      BY <2>1 DEF QueuesHold, Covers, DeviceTyped
    <3>3. DOMAIN disk[d].jobs \subseteq 1..Len(kernel[d].outbox)
      BY ONLY <3>1, <3>2, Within
    <3> QED BY <2>1, <3>1, <3>3 DEF KernelHolds, Sends
  <2>4. DOMAIN disk[d].controls \subseteq (Base[d] + 1)..kernel[d].floor
    BY <2>1 DEF QueuesHold
  <2>5. /\ \A s \in DOMAIN disk[d].jobs : disk[d].jobs[s] \in JobStates
        /\ \A s \in DOMAIN disk[d].controls : disk[d].controls[s] \in JobStates
    BY <2>1, QueueFacts DEF DeviceTyped
  <2>6. disk[d].staged \in 0..Len(mailbox)
    <3>1. disk[d].staged \in Nat /\ Len(mailbox) \in Nat /\ disk[d].staged <= Len(mailbox)
      BY <2>1 DEF MarksHold, DeviceTyped
    <3> QED BY ONLY <3>1
  <2>7. ASSUME NEW p \in DOMAIN disk[d].marks
        PROVE  \/ disk[d].marks[p] = Blank
               \/ disk[d].marks[p].marker.state \in MarkStates
    <3>1. disk[d].marks[p] \in Files
      BY <2>1, ShelfFacts DEF DeviceTyped
    <3>2. \A m \in Markers : m.state \in MarkStates
      BY DEF Markers
    <3> QED BY <3>1, <3>2 DEF Files, Scratch, Final
  <2>8. mem[d].applied \in 0..disk[d].staged
    <3>1. /\ mem[d].applied \in Nat /\ disk[d].staged \in Nat
          /\ 1..mem[d].applied \subseteq 1..disk[d].staged
      BY <2>1 DEF MemHolds, MarksHold, DeviceTyped
    <3>2. mem[d].applied = 0 \/ mem[d].applied \in 1..mem[d].applied
      BY ONLY <3>1
    <3>3. mem[d].applied = 0 \/ mem[d].applied \in 1..disk[d].staged
      BY <3>1, <3>2
    <3> QED BY ONLY <3>1, <3>3
  <2> QED BY <2>2, <2>3, <2>4, <2>5, <2>6, <2>7, <2>8
<1>4. deaths \in 0..MaxDeaths /\ faults \in 0..MaxFaults
  BY <1>1 DEF Types
<1> QED BY <1>2, <1>3, <1>4 DEF TypeOK

\* And the three parts of the evidence.
LEMMA InvEvidence == DriverInv => AcceptsItself /\ NothingPassedOver /\ ReceiptsAreTrue
<1> SUFFICES ASSUME DriverInv PROVE AcceptsItself /\ NothingPassedOver /\ ReceiptsAreTrue
  OBVIOUS
<1>1. Types
  BY DEF DriverInv
<1>2. AcceptsItself
  BY <1>1 DEF Types, AcceptsItself
<1>3. ASSUME NEW d \in Devices
      PROVE  /\ KernelHolds(d) /\ QueuesHold(d) /\ MarksHold(d) /\ DeviceTyped(d)
  BY <1>1, DeviceTypes DEF DriverInv, Holds
<1>4. NothingPassedOver
  <2> SUFFICES ASSUME NEW d \in Devices
               PROVE  /\ \A s \in 1..disk[d].cp.out :
                            Relayed(kernel[d].outbox[s]) => s \in DOMAIN disk[d].jobs
                      /\ (Base[d] + 1)..disk[d].ccp \subseteq DOMAIN disk[d].controls
                      /\ \A p \in 1..disk[d].cp.applied : Mark(d, p).at = "json"
                      /\ \A s \in DOMAIN disk[d].jobs :
                            disk[d].jobs[s] = "retained" => Held(kernel[d].outbox[s])
    BY DEF NothingPassedOver
  <2>1. \A p \in 1..disk[d].cp.applied : Mark(d, p).at = "json"
    BY <1>3 DEF MarksHold, Json, Mark
  <2> QED BY <1>3, <2>1 DEF QueuesHold, Covers
<1>5. ReceiptsAreTrue
  <2> SUFFICES ASSUME NEW d \in Devices
               PROVE  /\ \A s, t \in DOMAIN kernel[d].outbox :
                            LET a == kernel[d].outbox[s].ack IN
                            a # <<>> => /\ a \in ToSet(kernel[d].inbox)
                                        /\ kernel[d].outbox[t].ack = a => s = t
                      /\ \A m \in ToSet(kernel[d].inbox) :
                            m \in {Message(Mail(p)) : p \in {q \in Positions : Mail(q).kind = "app"}}
                      /\ IsInjective(kernel[d].inbox)
    BY DEF ReceiptsAreTrue
  <2>1. /\ DOMAIN kernel[d].outbox = 1..Len(kernel[d].outbox)
        /\ DOMAIN kernel[d].inbox = 1..Len(kernel[d].inbox)
    BY <1>3 DEF DeviceTyped
  <2>2. Hears(d)
    BY <1>3 DEF KernelHolds
  <2>3. \A s, t \in DOMAIN kernel[d].outbox :
           LET a == kernel[d].outbox[s].ack IN
           a # <<>> => /\ a \in ToSet(kernel[d].inbox)
                       /\ kernel[d].outbox[t].ack = a => s = t
    BY <2>1, <2>2 DEF Hears
  <2>4. \A m \in ToSet(kernel[d].inbox) :
           m \in {Message(Mail(p)) : p \in {q \in Positions : Mail(q).kind = "app"}}
    BY <2>1, <2>2 DEF Hears, ToSet
  <2>5. IsInjective(kernel[d].inbox)
    BY <2>1, <2>2 DEF Hears, IsInjective
  <2> QED BY <2>3, <2>4, <2>5
<1> QED BY <1>2, <1>4, <1>5

\* What a device's kernel, queues, memory and markers say of each other and
\* of the mailbox they say after any steps: restarts, deaths between a commit
\* and its marker, and scratch files included.
THEOREM DriverInvariant == Spec => []DriverInv
<1>1. Init => DriverInv
  BY InitHolds
<1>2. DriverInv /\ [Next]_vars => DriverInv'
  BY NextKeeps
<1> QED BY <1>1, <1>2, PTL DEF Spec

\* A relaunched driver accepts the evidence that its own earlier launches
\* wrote (applied_restore, catch_up, restore_marker), no record, control or
\* position is passed over by a watermark, and every receipt is of a message
\* that was received and is issued once.
THEOREM EvidenceStaysTrue == Spec => []EvidenceIsTrue
<1>1. DriverInv => EvidenceIsTrue
  BY InvTypeOK, InvEvidence DEF EvidenceIsTrue
<1> QED BY <1>1, DriverInvariant, PTL
=============================================================================
