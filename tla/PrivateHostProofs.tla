-------------------------- MODULE PrivateHostProofs --------------------------
(***************************************************************************)
(* Proofs about a private host: its home and the service it runs.          *)
(*                                                                         *)
(* HostHome, for every number of mutations, deaths and power losses, every *)
(* order of a listing and every allowance.  What is left of a command      *)
(* (todo) is judged by where it leads: the home is good now, and after     *)
(* each further operation of todo.                                         *)
(*                                                                         *)
(* RelayService, for every number of connections, credentials and sources, *)
(* every limit, load and fault bound.  Counting is done on the sets of     *)
(* connections that a count stands for; each step moves one connection,    *)
(* and moves it into or out of few of them.                                *)
(***************************************************************************)
EXTENDS HostHome, RelayService, FiniteSetTheorems, WellFoundedInduction, TLAPS

-----------------------------------------------------------------------------
(* A command as a run of its operations.                                   *)

\* The files, the mailboxes and the reported serial that an operation is about;
\* lossy says that the power has failed before.
SeedOf(b, g, plan) ==
    [b[g] EXCEPT !.phase = "seeded", !.ledger = 2, !.prior = b[g - 1].prior + b[g - 1].items,
                 !.authorized = b[g - 1].authorized + plan.grant]
Formatted(b, g) == [b EXCEPT ![g].format = 3]
Ledgered(b, g) == [b EXCEPT ![g].ledger = 2]
Fenced(b, g, v) == [b EXCEPT ![g].fence = v]
Marked(b, g) == [b EXCEPT ![g].phase = "marked"]
Made(b, g) == [b EXCEPT ![g].phase = "made", ![g].format = 3]
Seeded(b, g, v) == [b EXCEPT ![g] = SeedOf(b, g, v)]
BoxAfter(b, o) ==
    CASE o.op = "format" -> Formatted(b, o.gen)
      [] o.op = "ledger" -> Ledgered(b, o.gen)
      [] o.op = "fence"  -> Fenced(b, o.gen, o.value)
      [] o.op = "marked" -> Marked(b, o.gen)
      [] o.op = "made"   -> Made(b, o.gen)
      [] o.op = "seeded" -> Seeded(b, o.gen, o.value)
      [] OTHER -> b
DirAfter(d, o) ==
    CASE o.op = "sync" -> SyncDir(d)
      [] o.op \in {"put", "remove", "move"} -> Update(d, After(d.vis, o), d.dirty)
      [] OTHER -> d
State(d, b, a, l) == [dir |-> d, box |-> b, acked |-> a, lossy |-> l]
Effect(s, o) ==
    State(DirAfter(s.dir, o), BoxAfter(s.box, o),
          IF o.op = "ack" THEN o.value.serial ELSE s.acked, s.lossy)

\* The states of a run.
Runs(s, ops, N, g) == g = [i \in 0..N |-> IF i = 0 THEN s ELSE Effect(g[i - 1], ops[i])]
RunOf(s, ops) == CHOOSE g : Runs(s, ops, Len(ops), g)
StateAt(s, ops, j) == RunOf(s, ops)[j]
End(s, ops) == StateAt(s, ops, Len(ops))
Proceeds(s, ops) == \A j \in 1..Len(ops) : StateAt(s, ops, j) = Effect(StateAt(s, ops, j - 1), ops[j])


\* What the operations are made of.
Values == Nat \cup Configs \cup Plans \cup {"files", "committing", Absent}
Operations ==
    {sync} \cup [op : {"put"}, name : Names, value : Values] \cup [op : {"remove"}, name : Names]
    \cup [op : {"move"}, name : Names, value : Names]
    \cup [op : {"format", "ledger", "fence", "marked", "made"}, gen : Gens, value : Values]
    \cup [op : {"seeded"}, gen : 1..MaxGen, value : Values]
    \cup [op : {"ack"}, value : Configs]
Script(x) == x \in Seq(Operations)

-----------------------------------------------------------------------------
(* A good home.                                                             *)

Typed(m) ==
    /\ m = [n \in Names |-> m[n]]
    /\ m["config"] \in Configs /\ m["complete"] \in Configs
    /\ m["seal"] \in {Absent, "files", "committing"}
    /\ m["config.bak"] \in Configs \cup {Absent}
    /\ \A n \in Data : m[n] \in Nat \cup {Absent} /\ m[Backup(n)] \in Nat \cup {Absent}
    /\ \A n \in Records : m[n] \in Plans \cup {Absent} /\ m[Stage(n)] \in Plans \cup {Absent}

\* The configuration a recovery ends in.
Restores(m) == m["seal"] # Absent /\ MustRestore(m)
Base(m) == IF Restores(m) THEN m["config.bak"] ELSE m["config"]

\* The backups bring back the configuration that is saved: every file it lists
\* is as it was or has its backup.
Saved(m) ==
    /\ m["config.bak"] # Absent
    /\ m["seal"] = "files" => m["config"] = m["config.bak"] /\ m["complete"] = m["config.bak"]
    /\ \A n \in Data : m[Backup(n)] # Absent =>
          n \in Listed(m["config.bak"]) /\ m[Backup(n)] = m["config.bak"][n]
    /\ \A n \in Listed(m["config.bak"]) : m[n] = m["config.bak"][n] \/ m[Backup(n)] # Absent
Recoverable(m) ==
    IF Restores(m) THEN Saved(m)
    ELSE Loads(m) /\ (m["seal"] # Absent => m["config.bak"] # Absent)

\* The records of a transition are published in their order.
Recorded(m) ==
    /\ \A g \in 0..(MaxGen - 1) : m[Record.intent[g + 1]] # Absent =>
          /\ m[Record.intent[g + 1]].config.gen = g
          /\ m[Record.receipts[g + 1]] = m[Record.intent[g + 1]]
    /\ m[Pending] # Absent =>
          /\ m[Pending].config.gen \in 0..(MaxGen - 1)
          /\ m[Record.intent[m[Pending].config.gen + 1]] = m[Pending]

\* A configuration that is selected, or may be restored, has its evidence.
Evident(m, b, g) ==
    /\ m[Record.intent[g + 1]] # Absent
    /\ m[Record.receipts[g + 1]] = m[Record.intent[g + 1]]
    /\ m[Record.fence[g + 1]] = m[Record.intent[g + 1]]
    /\ b[g].fence = m[Record.intent[g + 1]]
    /\ b[g + 1].phase = "seeded"
Backed(m, b) ==
    /\ \A g \in 0..(MaxGen - 1) : m["config"].gen > g => Evident(m, b, g)
    /\ m["config.bak"] # Absent =>
          \A g \in 0..(MaxGen - 1) : m["config.bak"].gen > g => Evident(m, b, g)

Fine(m, b, a) ==
    Typed(m) /\ Recoverable(m) /\ Base(m).serial >= a /\ Recorded(m) /\ Backed(m, b)

\* The mailboxes and their ledgers.
Mailbox(cap) ==
    [phase : {"absent", "marked", "made", "seeded"}, format : {2, 3}, ledger : {1, 2},
     items : 0..cap, prior : Nat, authorized : Nat, fence : Plans \cup {Absent}]
Boxes(b) ==
    /\ b \in [Gens -> Mailbox(b[0].authorized)]
    /\ b[0].authorized \in Nat /\ b[0].phase = "seeded" /\ b[0].prior = 0
    /\ \A g \in Gens :
          /\ b[g].fence # Absent => b[g].items = b[g].fence.head /\ b[g].format = 3 /\ b[g].ledger = 2
          /\ b[g].phase # "seeded" => b[g].items = 0
          /\ b[g].phase = "seeded" /\ b[g].ledger = 2 => b[g].prior + b[g].items <= b[g].authorized
    /\ \A g \in 0..(MaxGen - 1) : b[g + 1].phase = "seeded" =>
          /\ b[g + 1].ledger = 2 /\ b[g].phase = "seeded" /\ b[g].fence # Absent
          /\ b[g + 1].prior = b[g].prior + b[g].items
          /\ b[g + 1].authorized = b[g].authorized + b[g].fence.grant

\* A generation is fenced only on the way to its successor.
FencedLive(m, b) ==
    \A g \in Gens : b[g].fence # Absent =>
        \/ m[Pending] # Absent /\ m[Pending].config.gen = g
        \/ g < Base(m).gen

Good(s) ==
    /\ s = State(s.dir, s.box, s.acked, s.lossy)
    /\ s.dir = [vis |-> s.dir.vis, disk |-> s.dir.disk, dirty |-> {}]
    /\ s.dir.vis \in s.dir.disk
    /\ \A m \in s.dir.disk : Fine(m, s.box, s.acked)
    /\ Boxes(s.box) /\ s.acked \in Nat
    /\ ~s.lossy => FencedLive(s.dir.vis, s.box)
Stays(s, ops) == \A j \in 0..Len(ops) : Good(StateAt(s, ops, j))

\* The service has one open mailbox, and nothing is done to a mailbox beside it.
StoreOps == {"format", "ledger", "fence", "marked", "made", "seeded"}
Aside(ops) == \A i \in DOMAIN ops : ops[i].op \notin StoreOps
Serving ==
    up => /\ Aside(todo)
          /\ \A g \in 0..sel : box[g].phase = "seeded"
          /\ \A g \in 0..(sel - 1) : box[g].fence # Absent
          /\ losses = 0 => box[sel].fence = Absent

Now == State(dir, box, acked, losses > 0)
Within ==
    /\ home \in Homes /\ box[0].authorized = MaxItems
    /\ cmd \in {"none", "mutate", "recover", "prepare", "fence", "cutover"}
    /\ up \in BOOLEAN /\ sel \in Gens /\ acked \in Nat
    /\ nonce \in 0..MaxMutations /\ deaths \in 0..MaxDeaths /\ losses \in 0..MaxLosses
HomeInv ==
    /\ Script(todo) /\ Stays(Now, todo)
    /\ cmd = "none" <=> todo = <<>>
    /\ Serving /\ Within

-----------------------------------------------------------------------------
(* Runs.                                                                    *)

\* A non-empty set of numbers has a least one.
LEMMA Least ==
    ASSUME NEW T \in SUBSET Nat, T # {}
    PROVE  \E n \in T : \A m \in T : n <= m
<1>1. IsWellFoundedOn(OpToRel(<, Nat), Nat)
  BY NatLessThanWellFounded, Zenon
<1>2. PICK n \in T : \A m \in T : ~(<<m, n>> \in OpToRel(<, Nat))
  BY <1>1, WFMin, Zenon
<1>3. \A m \in T : ~(m < n)
  BY <1>2 DEF OpToRel
<1> QED BY <1>3

\* Induction over the numbers up to N.
LEMMA Climb ==
    ASSUME NEW N \in Nat, NEW S, 0 \in S, \A n \in 0..N : n + 1 \in 0..N /\ n \in S => n + 1 \in S
    PROVE  0..N \subseteq S
<1> DEFINE T == (0..N) \ S
<1>1. SUFFICES ASSUME T # {} PROVE FALSE
  OBVIOUS
<1>2. T \in SUBSET Nat
  OBVIOUS
<1>3. PICK n \in T : \A k \in T : n <= k
  BY <1>1, <1>2, Least
<1>4. n # 0 /\ n \in 0..N
  BY <1>3
<1>5. n - 1 \in 0..N /\ n - 1 \notin T /\ (n - 1) + 1 = n
  BY <1>3, <1>4
<1>6. n - 1 \in S
  BY <1>5
<1> QED BY <1>3, <1>4, <1>5, <1>6

\* A run of any length exists.
LEMMA RunExists ==
    ASSUME NEW s, NEW ops, NEW N \in Nat
    PROVE  \E g : Runs(s, ops, N, g)
<1> DEFINE S == {n \in 0..N : \E g : Runs(s, ops, n, g)}
<1>1. 0 \in S
  <2> DEFINE g == [n \in 0..0 |-> s]
  <2>1. g = [i \in 0..0 |-> IF i = 0 THEN s ELSE Effect(g[i - 1], ops[i])]
    OBVIOUS
  <2> HIDE DEF g
  <2>2. Runs(s, ops, 0, g)
    BY <2>1 DEF Runs
  <2> QED BY <2>2
<1>2. ASSUME NEW n \in 0..N, n + 1 \in 0..N, n \in S PROVE n + 1 \in S
  <2>1. PICK h : h = [i \in 0..n |-> IF i = 0 THEN s ELSE Effect(h[i - 1], ops[i])]
    BY <1>2 DEF Runs
  <2> DEFINE g == [i \in 0..(n + 1) |-> IF i = 0 THEN s ELSE Effect(h[i - 1], ops[i])]
  <2>2. \A k \in 0..n : g[k] = h[k]
    BY <2>1
  <2>3. \A k \in 0..(n + 1) : k # 0 => k - 1 \in 0..n
    OBVIOUS
  <2>4. \A k \in 0..(n + 1) : k # 0 => g[k - 1] = h[k - 1]
    BY <2>2, <2>3
  <2>5. g = [i \in 0..(n + 1) |-> IF i = 0 THEN s ELSE Effect(g[i - 1], ops[i])]
    <3> DEFINE r == [i \in 0..(n + 1) |-> IF i = 0 THEN s ELSE Effect(g[i - 1], ops[i])]
    <3>1. ASSUME NEW k \in 0..(n + 1) PROVE g[k] = r[k]
      <4>1. r[k] = IF k = 0 THEN s ELSE Effect(g[k - 1], ops[k])
        OBVIOUS
      <4>2. g[k] = IF k = 0 THEN s ELSE Effect(h[k - 1], ops[k])
        OBVIOUS
      <4> HIDE DEF g, r
      <4> QED BY <4>1, <4>2, <2>4
    <3>2. g = [i \in 0..(n + 1) |-> g[i]] /\ r = [i \in 0..(n + 1) |-> r[i]]
      OBVIOUS
    <3> HIDE DEF g, r
    <3>3. g = r
      BY <3>1, <3>2
    <3> QED BY <3>3 DEF r
  <2> HIDE DEF g
  <2>6. Runs(s, ops, n + 1, g)
    BY <2>5 DEF Runs
  <2> QED BY <1>2, <2>6
<1> HIDE DEF S
<1>3. 0..N \subseteq S
  BY <1>1, <1>2, Climb
<1> QED BY <1>3 DEF S

\* A run begins at its state, and each operation has its effect.
LEMMA RunFacts ==
    ASSUME NEW s, NEW ops, Len(ops) \in Nat
    PROVE  StateAt(s, ops, 0) = s /\ Proceeds(s, ops)
<1>1. Runs(s, ops, Len(ops), RunOf(s, ops))
  BY RunExists DEF RunOf
<1> DEFINE g == RunOf(s, ops)
<1>2. g = [i \in 0..Len(ops) |-> IF i = 0 THEN s ELSE Effect(g[i - 1], ops[i])]
  BY <1>1 DEF Runs
<1> HIDE DEF g
<1>3. g[0] = s /\ \A j \in 1..Len(ops) : g[j] = Effect(g[j - 1], ops[j])
  BY <1>2
<1> QED BY <1>3 DEF StateAt, Proceeds, g

\* Done is what a run does to the files.
LEMMA DoneIsEnd ==
    ASSUME NEW s, NEW ops, Len(ops) \in Nat
    PROVE  Done(s.dir.vis, ops) = End(s, ops).dir.vis
<1> DEFINE N == Len(ops)
           m == s.dir.vis
           v == [i \in 0..N |-> StateAt(s, ops, i).dir.vis]
           d == CHOOSE g : g = [i \in 0..N |-> IF i = 0 THEN m ELSE After(g[i - 1], ops[i])]
<1>1. \A t, o : Effect(t, o).dir.vis = After(t.dir.vis, o)
  BY DEF Effect, State, DirAfter, SyncDir, Update, After
<1>2. v[0] = m /\ \A i \in 1..N : v[i] = After(v[i - 1], ops[i])
  <2>1. ASSUME NEW i \in 1..N PROVE v[i] = After(v[i - 1], ops[i])
    <3>1. i - 1 \in 0..N /\ i \in 0..N
      OBVIOUS
    <3>2. v[i] = StateAt(s, ops, i).dir.vis /\ v[i - 1] = StateAt(s, ops, i - 1).dir.vis
      BY <3>1
    <3>3. StateAt(s, ops, i) = Effect(StateAt(s, ops, i - 1), ops[i])
      BY RunFacts DEF Proceeds
    <3>4. Effect(StateAt(s, ops, i - 1), ops[i]).dir.vis = After(StateAt(s, ops, i - 1).dir.vis, ops[i])
      BY <1>1, Zenon
    <3> HIDE DEF v
    <3> QED BY <3>2, <3>3, <3>4, Zenon
  <2>2. v[0] = m
    BY RunFacts
  <2> HIDE DEF v
  <2> QED BY <2>1, <2>2
<1>3. v = [i \in 0..N |-> IF i = 0 THEN m ELSE After(v[i - 1], ops[i])]
  <2>1. \A i \in 0..N : i # 0 => i \in 1..N
    OBVIOUS
  <2>2. v = [i \in 0..N |-> v[i]]
    OBVIOUS
  <2> HIDE DEF v
  <2> QED BY <1>2, <2>1, <2>2
<1> HIDE DEF v
<1>4. d = [i \in 0..N |-> IF i = 0 THEN m ELSE After(d[i - 1], ops[i])]
  BY <1>3
<1>5. Done(m, ops) = d[N]
  BY DEF Done
<1> HIDE DEF d
<1> DEFINE S == {i \in 0..N : d[i] = v[i]}
<1>6. 0 \in S
  BY <1>2, <1>4
<1>7. ASSUME NEW n \in 0..N, n + 1 \in 0..N, n \in S PROVE n + 1 \in S
  <2>1. (n + 1) - 1 = n /\ n + 1 # 0 /\ n + 1 \in 1..N
    BY <1>7
  <2>2. d[n + 1] = After(d[n], ops[n + 1])
    BY <1>4, <2>1, <1>7
  <2>3. v[n + 1] = After(v[n], ops[n + 1])
    BY <1>2, <2>1
  <2> QED BY <2>2, <2>3, <1>7
<1> HIDE DEF S
<1>8. 0..N \subseteq S
  BY <1>6, <1>7, Climb
<1>9. d[N] = v[N]
  BY <1>8 DEF S
<1> QED BY <1>5, <1>9 DEF v, End

\* z is the script x and then y.
Joins(x, y, z) ==
    /\ Len(x) \in Nat /\ Len(y) \in Nat /\ Script(z) /\ Len(z) = Len(x) + Len(y)
    /\ \A j \in 1..Len(x) : z[j] = x[j]
    /\ \A j \in 1..Len(y) : z[Len(x) + j] = y[j]
LEMMA Joined ==
    ASSUME NEW x, Script(x), NEW y, Script(y)
    PROVE  Joins(x, y, x \o y)
BY DEF Script, Joins
LEMMA ScriptFacts ==
    ASSUME NEW x, Script(x)
    PROVE  /\ Len(x) \in Nat /\ DOMAIN x = 1..Len(x)
           /\ \A j \in 1..Len(x) : x[j] \in Operations
BY DEF Script

\* Two runs that begin alike go on alike.
LEMMA RunsAlike ==
    ASSUME NEW s, NEW x, NEW y, NEW k \in Nat, NEW N \in Nat, Len(x) \in Nat, Len(y) \in Nat,
           N <= Len(y), k + N <= Len(x),
           NEW t, t = StateAt(s, x, k),
           \A j \in 1..N : x[k + j] = y[j]
    PROVE  \A j \in 0..N : StateAt(s, x, k + j) = StateAt(t, y, j)
<1> DEFINE S == {j \in 0..N : StateAt(s, x, k + j) = StateAt(t, y, j)}
<1>1. 0 \in S
  <2>1. StateAt(t, y, 0) = t /\ k + 0 = k
    BY RunFacts
  <2> QED BY <2>1
<1>2. ASSUME NEW n \in 0..N, n + 1 \in 0..N, n \in S PROVE n + 1 \in S
  <2>1. n + 1 \in 1..Len(y) /\ (n + 1) - 1 = n
    BY <1>2
  <2>2. k + (n + 1) \in 1..Len(x) /\ (k + (n + 1)) - 1 = k + n
    BY <1>2
  <2>3. StateAt(t, y, n + 1) = Effect(StateAt(t, y, n), y[n + 1])
    <3>1. Proceeds(t, y)
      BY RunFacts
    <3> QED BY <3>1, <2>1 DEF Proceeds
  <2>4. StateAt(s, x, k + (n + 1)) = Effect(StateAt(s, x, k + n), x[k + (n + 1)])
    <3>1. Proceeds(s, x)
      BY RunFacts
    <3> QED BY <3>1, <2>2 DEF Proceeds
  <2>5. x[k + (n + 1)] = y[n + 1] /\ StateAt(s, x, k + n) = StateAt(t, y, n)
    BY <1>2
  <2>6. StateAt(s, x, k + (n + 1)) = StateAt(t, y, n + 1)
    BY <2>3, <2>4, <2>5
  <2> QED BY <2>6, <1>2
<1> HIDE DEF S
<1>3. 0..N \subseteq S
  BY <1>1, <1>2, Climb
<1> QED BY <1>3 DEF S

\* One script after another.
LEMMA Concat ==
    ASSUME NEW s, NEW x, Script(x), NEW y, Script(y)
    PROVE  /\ Script(x \o y) /\ End(s, x \o y) = End(End(s, x), y)
           /\ Stays(s, x) /\ Stays(End(s, x), y) => Stays(s, x \o y)
<1> DEFINE z == x \o y
           t == End(s, x)
<1>0. Joins(x, y, z)
  BY Joined
<1>1. /\ Len(x) \in Nat /\ Len(y) \in Nat /\ Script(z) /\ Len(z) = Len(x) + Len(y)
      /\ \A j \in 1..Len(x) : z[j] = x[j]
      /\ \A j \in 1..Len(y) : z[Len(x) + j] = y[j]
  <2> HIDE DEF z
  <2> QED BY <1>0 DEF Joins
<1> HIDE DEF z
<1>2. StateAt(s, z, 0) = s
  BY <1>1, RunFacts
<1>3. \A j \in 0..Len(x) : StateAt(s, z, j) = StateAt(s, x, j)
  <2>1. ASSUME NEW k, k = 0, NEW N, N = Len(x), NEW r, r = StateAt(s, z, k)
        PROVE  \A j \in 0..N : StateAt(s, z, k + j) = StateAt(r, x, j)
    <3>1. /\ k \in Nat /\ N \in Nat /\ N <= Len(x) /\ k + N <= Len(z) /\ Len(z) \in Nat
          /\ Len(x) \in Nat /\ \A j \in 1..N : z[k + j] = x[j]
      BY <1>1, <2>1
    <3>2. r = StateAt(s, z, k)
      BY <2>1
    <3> QED BY ONLY <3>1, <3>2, RunsAlike
  <2>2. \A j \in 0..Len(x) : StateAt(s, z, 0 + j) = StateAt(s, x, j)
    BY <2>1, <1>2
  <2> QED BY <1>1, <2>2
<1>4. StateAt(s, z, Len(x)) = t
  BY <1>3, <1>1 DEF End
<1>5. \A j \in 0..Len(y) : StateAt(s, z, Len(x) + j) = StateAt(t, y, j)
  <2> HIDE DEF t
  <2> QED BY <1>1, <1>4, RunsAlike
<1>6. End(s, z) = End(t, y)
  BY <1>1, <1>5 DEF End
<1>7. ASSUME Stays(s, x), Stays(t, y) PROVE Stays(s, z)
  <2> SUFFICES ASSUME NEW j \in 0..Len(z) PROVE Good(StateAt(s, z, j))
    BY DEF Stays
  <2>1. CASE j <= Len(x)
    BY <2>1, <1>1, <1>3, <1>7 DEF Stays
  <2>2. CASE ~(j <= Len(x))
    <3>1. PICK i \in 0..Len(y) : j = Len(x) + i
      <4>1. j - Len(x) \in 0..Len(y) /\ j = Len(x) + (j - Len(x))
        BY <2>2, <1>1
      <4> QED BY <4>1
    <3> QED BY <3>1, <1>5, <1>7 DEF Stays
  <2> QED BY <2>1, <2>2
<1> QED BY <1>1, <1>6, <1>7 DEF z

\* The empty script and a single operation.
LEMMA Nothing ==
    ASSUME NEW s
    PROVE  Script(<<>>) /\ End(s, <<>>) = s /\ (Good(s) => Stays(s, <<>>))
<1>1. Len(<<>>) = 0 /\ Script(<<>>)
  BY DEF Script
<1>2. StateAt(s, <<>>, 0) = s
  BY <1>1, RunFacts
<1>3. \A j \in 0..0 : j = 0
  OBVIOUS
<1> QED BY <1>1, <1>2, <1>3 DEF End, Stays
LEMMA One ==
    ASSUME NEW s, NEW o \in Operations
    PROVE  /\ Script(<<o>>) /\ End(s, <<o>>) = Effect(s, o)
           /\ Good(s) /\ Good(Effect(s, o)) => Stays(s, <<o>>)
<1> DEFINE x == <<o>>
<1>1. Len(x) = 1 /\ x[1] = o /\ Script(x)
  BY DEF Script
<1> HIDE DEF x
<1>2. StateAt(s, x, 0) = s /\ StateAt(s, x, 1) = Effect(StateAt(s, x, 1 - 1), x[1])
  BY <1>1, RunFacts DEF Proceeds
<1>3. StateAt(s, x, 1) = Effect(s, o)
  BY <1>1, <1>2
<1>4. \A j \in 0..1 : j = 0 \/ j = 1
  OBVIOUS
<1>5. Script(x) /\ End(s, x) = Effect(s, o) /\ (Good(s) /\ Good(Effect(s, o)) => Stays(s, x))
  BY <1>1, <1>2, <1>3, <1>4 DEF End, Stays
<1> QED BY <1>5 DEF x

\* A script that has begun.
LEMMA Begun ==
    ASSUME NEW s, NEW x, Script(x), x # <<>>
    PROVE  /\ Head(x) \in Operations /\ Script(Tail(x))
           /\ Stays(s, x) => Stays(Effect(s, Head(x)), Tail(x)) /\ Good(s)
<1>1. /\ Len(x) \in Nat \ {0} /\ Head(x) = x[1] /\ x[1] \in Operations
      /\ Script(Tail(x)) /\ Len(Tail(x)) = Len(x) - 1
      /\ \A j \in 1..(Len(x) - 1) : x[1 + j] = Tail(x)[j]
  BY DEF Script
<1> DEFINE y == Tail(x)
           t == StateAt(s, x, 1)
<1>2. StateAt(s, x, 0) = s /\ t = Effect(s, Head(x))
  <2>1. 1 \in 1..Len(x) /\ 1 - 1 = 0
    BY <1>1
  <2>2. StateAt(s, x, 0) = s /\ StateAt(s, x, 1) = Effect(StateAt(s, x, 1 - 1), x[1])
    BY <1>1, <2>1, RunFacts DEF Proceeds
  <2> QED BY <1>1, <2>1, <2>2
<1> HIDE DEF y, t
<1>3. \A j \in 0..(Len(x) - 1) : StateAt(s, x, 1 + j) = StateAt(t, y, j)
  <2>1. /\ Len(x) - 1 \in Nat /\ Len(y) \in Nat /\ Len(x) \in Nat
        /\ Len(x) - 1 <= Len(y) /\ 1 + (Len(x) - 1) <= Len(x)
        /\ \A j \in 1..(Len(x) - 1) : x[1 + j] = y[j]
    BY <1>1 DEF y
  <2>2. t = StateAt(s, x, 1)
    BY DEF t
  <2> QED BY <2>1, <2>2, RunsAlike
<1>4. ASSUME Stays(s, x) PROVE Stays(t, y) /\ Good(s)
  <2>1. \A j \in 0..Len(y) : 1 + j \in 0..Len(x) /\ j \in 0..(Len(x) - 1)
    BY <1>1 DEF y
  <2>2. 0 \in 0..Len(x)
    BY <1>1
  <2> QED BY <1>2, <1>3, <1>4, <2>1, <2>2 DEF Stays
<1> QED BY <1>1, <1>2, <1>4 DEF y

\* A script that keeps the home good and ends in the state t.
Leads(s, ops, t) == Script(ops) /\ Stays(s, ops) /\ End(s, ops) = t
LEMMA Then ==
    ASSUME NEW s, NEW x, NEW t, Leads(s, x, t), NEW y, NEW u, Leads(t, y, u)
    PROVE  Leads(s, x \o y, u)
BY Concat DEF Leads

-----------------------------------------------------------------------------
(* Single operations on the files.                                         *)

SameBooks(t, s) == t.box = s.box /\ t.acked = s.acked /\ t.lossy = s.lossy
\* Files that the home may have, beside its mailboxes.
Apt(m, s) == Fine(m, s.box, s.acked) /\ (~s.lossy => FencedLive(m, s.box))

\* What an operation on the files leaves alone.
LEMMA FileEffect ==
    ASSUME NEW s, NEW o, o.op \in {"put", "remove", "move", "sync"}
    PROVE  /\ SameBooks(Effect(s, o), s)
           /\ Effect(s, o) = State(DirAfter(s.dir, o), s.box, s.acked, s.lossy)
BY DEF SameBooks, Effect, State, BoxAfter

LEMMA StateFields ==
    ASSUME NEW d, NEW b, NEW a, NEW l
    PROVE  /\ State(d, b, a, l).dir = d /\ State(d, b, a, l).box = b
           /\ State(d, b, a, l).acked = a /\ State(d, b, a, l).lossy = l
BY DEF State

\* A file is put, removed or moved.
LEMMA FileOp ==
    ASSUME NEW s, Good(s), NEW o, o.op \in {"put", "remove", "move"},
           NEW m, m = After(s.dir.vis, o), Apt(m, s)
    PROVE  /\ Good(Effect(s, o)) /\ SameBooks(Effect(s, o), s)
           /\ Effect(s, o).dir.vis = m
<1> DEFINE d == DirAfter(s.dir, o)
<1>1. Effect(s, o) = State(d, s.box, s.acked, s.lossy) /\ SameBooks(Effect(s, o), s)
  BY FileEffect
<1>2. d = [vis |-> m, disk |-> s.dir.disk \cup {m}, dirty |-> s.dir.dirty]
  BY DEF DirAfter, Update
<1>3. s.dir.dirty = {} /\ \A n \in s.dir.disk : Fine(n, s.box, s.acked)
  <2>1. s.dir = [vis |-> s.dir.vis, disk |-> s.dir.disk, dirty |-> {}]
    BY DEF Good
  <2>2. s.dir.dirty = {}
    BY <2>1
  <2> QED BY <2>2 DEF Good
<1> HIDE DEF d
<1>4. d.vis = m /\ d.disk = s.dir.disk \cup {m} /\ d = [vis |-> d.vis, disk |-> d.disk, dirty |-> {}]
  BY <1>2, <1>3
<1> DEFINE t == Effect(s, o)
<1>5. t.dir = d /\ t.box = s.box /\ t.acked = s.acked /\ t.lossy = s.lossy
  BY <1>1, StateFields
<1>6. t = State(t.dir, t.box, t.acked, t.lossy)
  BY <1>1, <1>5
<1> HIDE DEF t
<1>7. Good(t)
  BY <1>3, <1>4, <1>5, <1>6 DEF Good, Apt
<1> QED BY <1>1, <1>4, <1>5, <1>7 DEF t

\* The directory is synced.
LEMMA SyncOp ==
    ASSUME NEW s, Good(s)
    PROVE  /\ Good(Effect(s, sync)) /\ SameBooks(Effect(s, sync), s)
           /\ Effect(s, sync).dir.vis = s.dir.vis /\ Effect(s, sync).dir.disk = {s.dir.vis}
<1> DEFINE d == DirAfter(s.dir, sync)
<1>1. Effect(s, sync) = State(d, s.box, s.acked, s.lossy) /\ SameBooks(Effect(s, sync), s)
  BY FileEffect DEF sync
<1>2. d = [vis |-> s.dir.vis, disk |-> {s.dir.vis},
           dirty |-> {n \in s.dir.dirty : s.dir.vis[n] # Absent}]
  BY DEF DirAfter, SyncDir, sync
<1>3. s.dir.dirty = {} /\ \A n \in s.dir.disk : Fine(n, s.box, s.acked)
  <2>1. s.dir = [vis |-> s.dir.vis, disk |-> s.dir.disk, dirty |-> {}]
    BY DEF Good
  <2>2. s.dir.dirty = {}
    BY <2>1
  <2> QED BY <2>2 DEF Good
<1> HIDE DEF d
<1>4. /\ d.vis = s.dir.vis /\ d.disk = {s.dir.vis}
      /\ d = [vis |-> d.vis, disk |-> d.disk, dirty |-> {}]
  BY <1>2, <1>3
<1> DEFINE t == Effect(s, sync)
<1>5. t.dir = d /\ t.box = s.box /\ t.acked = s.acked /\ t.lossy = s.lossy
  BY <1>1, StateFields
<1>6. t = State(t.dir, t.box, t.acked, t.lossy)
  BY <1>1, <1>5
<1> HIDE DEF t
<1>7. Good(t)
  <2>1. s.dir.vis \in s.dir.disk /\ Boxes(s.box) /\ s.acked \in Nat
    BY DEF Good
  <2>2. ~s.lossy => FencedLive(s.dir.vis, s.box)
    BY DEF Good
  <2> QED BY <1>3, <1>4, <1>5, <1>6, <2>1, <2>2 DEF Good
<1> QED BY <1>1, <1>4, <1>5, <1>7 DEF t

\* The files after one operation.
Whole(m) == m = [n \in Names |-> m[n]]
LEMMA PutFacts ==
    ASSUME NEW m, Whole(m), NEW n \in Names, NEW v, NEW w, w = After(m, put(n, v))
    PROVE  Whole(w) /\ w[n] = v /\ \A k \in Names \ {n} : w[k] = m[k]
BY DEF Whole, After, put
LEMMA RemoveFacts ==
    ASSUME NEW m, Whole(m), NEW n \in Names, NEW w, w = After(m, remove(n))
    PROVE  Whole(w) /\ w[n] = Absent /\ \A k \in Names \ {n} : w[k] = m[k]
BY DEF Whole, After, remove

\* One operation, and what it leads to.
LEMMA Leading ==
    ASSUME NEW s, NEW ops, NEW t, Leads(s, ops, t)
    PROVE  Good(s) /\ Good(t)
<1>1. Len(ops) \in Nat
  BY ScriptFacts DEF Leads
<1>2. 0 \in 0..Len(ops) /\ Len(ops) \in 0..Len(ops)
  BY <1>1
<1>3. Good(StateAt(s, ops, 0)) /\ Good(StateAt(s, ops, Len(ops)))
  BY <1>2 DEF Leads, Stays
<1> QED BY <1>1, <1>3, RunFacts DEF Leads, End
LEMMA LeadsOne ==
    ASSUME NEW s, Good(s), NEW o \in Operations, Good(Effect(s, o))
    PROVE  Leads(s, <<o>>, Effect(s, o))
BY One DEF Leads
LEMMA LeadsNothing ==
    ASSUME NEW s, Good(s)
    PROVE  Leads(s, <<>>, s)
BY Nothing DEF Leads

LEMMA FileOperations ==
    /\ sync \in Operations
    /\ \A n \in Names : remove(n) \in Operations
    /\ \A n \in Names : \A v \in Values : put(n, v) \in Operations
    /\ \A p \in Names : \A n \in Names : move(p, n) \in Operations
BY DEF Operations, sync, remove, put, move

\* t is s with the files m, durable or not.
Turns(s, ops, t, m) == Leads(s, ops, t) /\ SameBooks(t, s) /\ t.dir.vis = m
LEMMA TurnsThen ==
    ASSUME NEW s, NEW x, NEW t, NEW m, Turns(s, x, t, m), NEW y, NEW u, NEW w, Turns(t, y, u, w)
    PROVE  Turns(s, x \o y, u, w)
BY Then DEF Turns, SameBooks
LEMMA TurnsNothing ==
    ASSUME NEW s, Good(s)
    PROVE  Turns(s, <<>>, s, s.dir.vis)
BY LeadsNothing DEF Turns, SameBooks
LEMMA TurnsSync ==
    ASSUME NEW s, Good(s)
    PROVE  \E t : Turns(s, <<sync>>, t, s.dir.vis) /\ t.dir.disk = {s.dir.vis}
<1>1. Leads(s, <<sync>>, Effect(s, sync))
  BY SyncOp, FileOperations, LeadsOne
<1> QED BY <1>1, SyncOp DEF Turns
LEMMA TurnsOp ==
    ASSUME NEW s, Good(s), NEW o \in Operations, o.op \in {"put", "remove", "move"},
           NEW m, m = After(s.dir.vis, o), Apt(m, s)
    PROVE  \E t : Turns(s, <<o>>, t, m)
<1>1. Good(Effect(s, o)) /\ SameBooks(Effect(s, o), s) /\ Effect(s, o).dir.vis = m
  BY FileOp
<1>2. Leads(s, <<o>>, Effect(s, o))
  BY <1>1, LeadsOne
<1> QED BY <1>1, <1>2 DEF Turns
LEMMA TurnsRewrite ==
    ASSUME NEW s, Good(s), NEW n \in Names, NEW v \in Values,
           NEW m, m = After(s.dir.vis, put(n, v)), Apt(m, s)
    PROVE  \E t : Turns(s, rewrite(n, v), t, m) /\ t.dir.disk = {m}
<1>1. put(n, v) \in Operations /\ put(n, v).op = "put"
  BY FileOperations DEF put
<1>2. PICK t : Turns(s, <<put(n, v)>>, t, m)
  BY <1>1, TurnsOp
<1>3. Good(t) /\ t.dir.vis = m
  BY <1>2, Leading DEF Turns
<1>4. PICK u : Turns(t, <<sync>>, u, m) /\ u.dir.disk = {m}
  BY <1>3, TurnsSync
<1>5. Turns(s, <<put(n, v)>> \o <<sync>>, u, m)
  BY <1>2, <1>4, TurnsThen
<1>6. rewrite(n, v) = <<put(n, v)>> \o <<sync>>
  BY DEF rewrite
<1> QED BY <1>4, <1>5, <1>6

FileOps == {"put", "remove", "move", "sync"}
LEMMA SyncAlone ==
    ASSUME NEW o \in Operations, o.op = "sync"
    PROVE  o = sync
BY DEF Operations, sync
LEMMA FileStep ==
    ASSUME NEW s, Good(s), NEW o \in Operations, o.op \in FileOps,
           NEW m, m = After(s.dir.vis, o), Apt(m, s)
    PROVE  /\ Good(Effect(s, o)) /\ SameBooks(Effect(s, o), s) /\ Effect(s, o).dir.vis = m
           /\ o.op = "sync" => Effect(s, o).dir.disk = {m}
<1>1. CASE o.op = "sync"
  <2>1. o = sync /\ m = s.dir.vis
    BY <1>1, SyncAlone DEF After
  <2>2. /\ Good(Effect(s, sync)) /\ SameBooks(Effect(s, sync), s)
        /\ Effect(s, sync).dir.vis = s.dir.vis /\ Effect(s, sync).dir.disk = {s.dir.vis}
    BY SyncOp
  <2> QED BY <2>1, <2>2
<1>2. CASE o.op # "sync"
  <2>1. o.op \in {"put", "remove", "move"}
    BY <1>2 DEF FileOps
  <2> QED BY <1>2, <2>1, FileOp
<1> QED BY <1>1, <1>2

\* A script of file operations, each of which leads from the files P[k - 1] to
\* the files P[k].
LEMMA FilesRun ==
    ASSUME NEW s, Good(s), NEW ops, Script(ops), \A k \in 1..Len(ops) : ops[k].op \in FileOps,
           NEW P, s.dir.vis \in P[0],
           \A k \in 0..Len(ops) : \A m \in P[k] : Apt(m, s),
           \A k \in 1..Len(ops) : \A m \in P[k - 1] : After(m, ops[k]) \in P[k]
    PROVE  \E t : /\ Turns(s, ops, t, t.dir.vis) /\ t.dir.vis \in P[Len(ops)]
                  /\ Len(ops) > 0 /\ ops[Len(ops)].op = "sync" => t.dir.disk = {t.dir.vis}
<1> DEFINE N == Len(ops)
           Fair(k) == LET t == StateAt(s, ops, k)
                      IN /\ Good(t) /\ SameBooks(t, s) /\ t.dir.vis \in P[k]
                         /\ k > 0 /\ ops[k].op = "sync" => t.dir.disk = {t.dir.vis}
           S == {k \in 0..N : Fair(k)}
<1>1. N \in Nat /\ \A k \in 1..N : ops[k] \in Operations
  BY ScriptFacts
<1>2. StateAt(s, ops, 0) = s /\ Proceeds(s, ops)
  BY <1>1, RunFacts
<1>3. 0 \in S
  BY <1>1, <1>2 DEF SameBooks
<1>4. ASSUME NEW n \in 0..N, n + 1 \in 0..N, n \in S PROVE n + 1 \in S
  <2> DEFINE t == StateAt(s, ops, n)
             k == n + 1
             o == ops[k]
             m == After(t.dir.vis, o)
  <2>1. k \in 1..N /\ k - 1 = n /\ o \in Operations /\ o.op \in FileOps
    BY <1>1, <1>4
  <2>2. StateAt(s, ops, k) = Effect(t, o)
    <3>1. \A j \in 1..N : StateAt(s, ops, j) = Effect(StateAt(s, ops, j - 1), ops[j])
      BY ONLY <1>2 DEF Proceeds
    <3> QED BY ONLY <3>1, <2>1
  <2>3. Good(t) /\ SameBooks(t, s) /\ t.dir.vis \in P[n]
    BY <1>4
  <2>4. m \in P[k]
    BY <2>1, <2>3
  <2>5. Apt(m, s) /\ k > 0
    BY <2>4, <1>4
  <2>6. Apt(m, t)
    BY <2>5, <2>3 DEF Apt, SameBooks
  <2> HIDE DEF t, o, m, k
  <2>7. /\ Good(Effect(t, o)) /\ SameBooks(Effect(t, o), t) /\ Effect(t, o).dir.vis = m
        /\ o.op = "sync" => Effect(t, o).dir.disk = {m}
    BY <2>1, <2>3, <2>6, FileStep DEF m
  <2>8. SameBooks(Effect(t, o), s)
    BY <2>7, <2>3 DEF SameBooks
  <2>9. Fair(k)
    BY <2>2, <2>4, <2>7, <2>8 DEF o
  <2> QED BY <2>9, <1>4 DEF k
<1> HIDE DEF S
<1>5. 0..N \subseteq S
  BY <1>1, <1>3, <1>4, Climb
<1>6. \A k \in 0..N : Fair(k)
  BY <1>5 DEF S
<1> HIDE DEF Fair
<1>7. Fair(N) /\ \A k \in 0..N : Good(StateAt(s, ops, k))
  BY <1>6, <1>1 DEF Fair
<1>8. Leads(s, ops, StateAt(s, ops, N))
  BY <1>7 DEF Leads, Stays, End
<1> QED BY <1>7, <1>8 DEF Turns, Fair

-----------------------------------------------------------------------------
(* The names of the home.                                                  *)

Own == {"config", "complete", "seal"} \cup Data \cup Backups
AllRecords == {"generation.pending", "receipts1", "receipts2", "intent1", "intent2", "fence1", "fence2"}
LEMMA RecordsNamed ==
    /\ Records \subseteq AllRecords /\ Pending \in Records /\ Pending = "generation.pending"
    /\ \A g \in 0..(MaxGen - 1) :
          /\ Record.intent[g + 1] \in Records /\ Record.receipts[g + 1] \in Records
          /\ Record.fence[g + 1] \in Records
          /\ g + 1 = 1 => /\ Record.intent[g + 1] = "intent1" /\ Record.fence[g + 1] = "fence1"
                          /\ Record.receipts[g + 1] = "receipts1"
          /\ g + 1 = 2 => /\ Record.intent[g + 1] = "intent2" /\ Record.fence[g + 1] = "fence2"
                          /\ Record.receipts[g + 1] = "receipts2"
          /\ g + 1 \in {1, 2}
<1>1. MaxGen \in 0..2
  BY HostAssumption
<1>2. /\ Record.intent[1] = "intent1" /\ Record.fence[1] = "fence1" /\ Record.receipts[1] = "receipts1"
      /\ Record.intent[2] = "intent2" /\ Record.fence[2] = "fence2" /\ Record.receipts[2] = "receipts2"
      /\ DOMAIN Record = {"intent", "fence", "receipts"}
  BY DEF Record
<1>3. ASSUME NEW n \in Records PROVE n \in AllRecords
  <2>1. CASE n = Pending
    BY <2>1 DEF AllRecords, Pending
  <2>2. CASE n # Pending
    <3>1. PICK k \in DOMAIN Record : n \in {Record[k][g] : g \in 1..MaxGen}
      BY <1>3, <2>2 DEF Records
    <3>2. PICK g \in 1..MaxGen : n = Record[k][g]
      BY <3>1
    <3>3. g = 1 \/ g = 2
      BY <3>2, <1>1
    <3> QED BY <3>1, <3>2, <3>3, <1>2 DEF AllRecords
  <2> QED BY <2>1, <2>2
<1>4. ASSUME NEW g \in 0..(MaxGen - 1)
      PROVE  /\ g + 1 \in {1, 2} /\ g + 1 \in 1..MaxGen
             /\ \A k \in DOMAIN Record : Record[k][g + 1] \in Records
  BY <1>1 DEF Records
<1>5. ASSUME NEW g \in 0..(MaxGen - 1)
      PROVE  /\ Record["intent"][g + 1] \in Records /\ Record["receipts"][g + 1] \in Records
             /\ Record["fence"][g + 1] \in Records
  BY <1>2, <1>4
<1> QED BY <1>1, <1>2, <1>3, <1>4, <1>5 DEF Records, Pending
LEMMA StagesNamed ==
    \A n \in Records : /\ Stage(n) \in Names /\ Stage(n) \notin Own /\ Stage(n) \notin Records
                       /\ n \in Names /\ n \notin Own
                       /\ \A k \in Records : Stage(n) = Stage(k) => n = k
<1>1. ASSUME NEW n \in AllRecords
      PROVE  /\ n \notin Own /\ Stage(n) \notin Own /\ Stage(n) \notin AllRecords
             /\ \A k \in AllRecords : Stage(n) = Stage(k) => n = k
  BY DEF AllRecords, Stage, Own, Data, Backups, Pending
<1> QED BY <1>1, RecordsNamed DEF Names
LEMMA OwnNamed ==
    /\ Own \subseteq Names /\ Data \subseteq Own /\ Backups \subseteq Own
    /\ {"config", "complete", "seal", "config.bak"} \subseteq Own
    /\ "config" \notin Data \cup Backups /\ "complete" \notin Data \cup Backups
    /\ "seal" \notin Data \cup Backups /\ Data \cap Backups = {}
    /\ "config" # "complete" /\ "config" # "seal" /\ "complete" # "seal"
    /\ "config.bak" \in Backups
BY DEF Own, Names, Data, Backups
LEMMA BackupsNamed ==
    /\ \A n \in Data : Backup(n) \in Backups /\ Backup(n) # "config.bak" /\ Target(Backup(n)) = n
    /\ \A b \in Backups : b # "config.bak" => Target(b) \in Data /\ Backup(Target(b)) = b
    /\ Target("config.bak") = "config" /\ Backup("config") = "config.bak"
    /\ "leaf" \in Data /\ "conn" \in Data /\ "token" \in Data
    /\ \A c : Listed(c) \subseteq Data
BY DEF Data, Backups, Backup, Target, Listed

-----------------------------------------------------------------------------
(* The configurations that a home may select.                              *)

Kin(m, k) == \A n \in Records : m[n] = k[n]
Backing(m, b, c) == \A g \in 0..(MaxGen - 1) : c.gen > g => Evident(m, b, g)
Waits(m, b, c) ==
    \A g \in Gens : b[g].fence # Absent =>
        \/ m[Pending] # Absent /\ m[Pending].config.gen = g
        \/ g < c.gen
Selects(m, s, c) ==
    c.serial >= s.acked /\ Backing(m, s.box, c) /\ (~s.lossy => Waits(m, s.box, c))

LEMMA KinFacts ==
    ASSUME NEW m, NEW k, Kin(m, k)
    PROVE  /\ Kin(k, m) /\ (Recorded(k) => Recorded(m))
           /\ \A b, c : Backing(k, b, c) => Backing(m, b, c)
           /\ \A b, c : Waits(k, b, c) => Waits(m, b, c)
           /\ \A s, c : Selects(k, s, c) => Selects(m, s, c)
<1>1. m[Pending] = k[Pending]
  BY RecordsNamed DEF Kin
<1>2. \A g \in 0..(MaxGen - 1) :
          /\ m[Record.intent[g + 1]] = k[Record.intent[g + 1]]
          /\ m[Record.receipts[g + 1]] = k[Record.receipts[g + 1]]
          /\ m[Record.fence[g + 1]] = k[Record.fence[g + 1]]
  BY RecordsNamed DEF Kin
<1>3. ASSUME Recorded(k) PROVE Recorded(m)
  <2>1. \A g \in 0..(MaxGen - 1) : m[Record.intent[g + 1]] # Absent =>
          /\ m[Record.intent[g + 1]].config.gen = g
          /\ m[Record.receipts[g + 1]] = m[Record.intent[g + 1]]
    BY <1>2, <1>3 DEF Recorded
  <2>2. ASSUME m[Pending] # Absent
        PROVE  /\ m[Pending].config.gen \in 0..(MaxGen - 1)
               /\ m[Record.intent[m[Pending].config.gen + 1]] = m[Pending]
    BY <1>1, <1>2, <1>3, <2>2 DEF Recorded
  <2> QED BY <2>1, <2>2 DEF Recorded
<1>4. \A b : \A g \in 0..(MaxGen - 1) : Evident(k, b, g) => Evident(m, b, g)
  BY <1>2 DEF Evident
<1>5. \A b, c : Backing(k, b, c) => Backing(m, b, c)
  BY <1>4 DEF Backing
<1>6. \A b, c : Waits(k, b, c) => Waits(m, b, c)
  BY <1>1 DEF Waits
<1>7. Kin(k, m)
  BY DEF Kin
<1> QED BY <1>3, <1>5, <1>6, <1>7 DEF Selects

\* What a home with good files selects, now and after a recovery.
LEMMA AptGives ==
    ASSUME NEW s, NEW k, Apt(k, s)
    PROVE  /\ Typed(k) /\ Recoverable(k) /\ Recorded(k)
           /\ Selects(k, s, Base(k)) /\ Base(k) \in Configs
           /\ Backing(k, s.box, k["config"])
           /\ k["config.bak"] # Absent => Backing(k, s.box, k["config.bak"])
<1>1. Typed(k) /\ Recoverable(k) /\ Base(k).serial >= s.acked /\ Recorded(k) /\ Backed(k, s.box)
  BY DEF Apt, Fine
<1>2. Backing(k, s.box, k["config"])
  BY <1>1 DEF Backed, Backing
<1>3. k["config.bak"] # Absent => Backing(k, s.box, k["config.bak"])
  BY <1>1 DEF Backed, Backing
<1>4. Restores(k) => k["config.bak"] # Absent
  BY <1>1 DEF Recoverable, Saved
<1>5. Base(k) \in Configs /\ Backing(k, s.box, Base(k))
  BY <1>1, <1>2, <1>3, <1>4 DEF Base, Typed
<1>6. ~s.lossy => Waits(k, s.box, Base(k))
  BY DEF Apt, FencedLive, Waits
<1> QED BY <1>1, <1>2, <1>3, <1>5, <1>6 DEF Selects

\* Good files with the same records.
LEMMA AptKin ==
    ASSUME NEW s, NEW k, Apt(k, s), NEW m, Typed(m), Kin(m, k), Recoverable(m),
           Selects(k, s, Base(m)), Backing(k, s.box, m["config"]),
           m["config.bak"] # Absent => Backing(k, s.box, m["config.bak"])
    PROVE  Apt(m, s)
<1>1. Recorded(m)
  BY AptGives, KinFacts
<1>2. Selects(m, s, Base(m)) /\ Backing(m, s.box, m["config"])
      /\ (m["config.bak"] # Absent => Backing(m, s.box, m["config.bak"]))
  BY KinFacts
<1>3. Backed(m, s.box)
  BY <1>2 DEF Backed, Backing
<1>4. ~s.lossy => FencedLive(m, s.box)
  BY <1>2 DEF Selects, Waits, FencedLive
<1> QED BY <1>1, <1>2, <1>3, <1>4 DEF Apt, Fine, Selects

-----------------------------------------------------------------------------
(* The listing of the backups.                                             *)

Grown(m, order, i, x) == IF m[order[i]] = Absent THEN x ELSE Append(x, order[i])
Grows(m, order, N, g) == g = [i \in 0..N |-> IF i = 0 THEN <<>> ELSE Grown(m, order, i, g[i - 1])]
LEMMA GrowsExists ==
    ASSUME NEW m, NEW order, NEW N \in Nat
    PROVE  \E g : Grows(m, order, N, g)
<1> DEFINE S == {n \in 0..N : \E g : Grows(m, order, n, g)}
<1>1. 0 \in S
  <2> DEFINE g == [n \in 0..0 |-> <<>>]
  <2>1. g = [i \in 0..0 |-> IF i = 0 THEN <<>> ELSE Grown(m, order, i, g[i - 1])]
    OBVIOUS
  <2> HIDE DEF g
  <2>2. Grows(m, order, 0, g)
    BY <2>1 DEF Grows
  <2> QED BY <2>2
<1>2. ASSUME NEW n \in 0..N, n + 1 \in 0..N, n \in S PROVE n + 1 \in S
  <2>1. PICK h : h = [i \in 0..n |-> IF i = 0 THEN <<>> ELSE Grown(m, order, i, h[i - 1])]
    BY <1>2 DEF Grows
  <2> DEFINE g == [i \in 0..(n + 1) |-> IF i = 0 THEN <<>> ELSE Grown(m, order, i, h[i - 1])]
  <2>2. \A k \in 0..n : g[k] = h[k]
    BY <2>1
  <2>3. \A k \in 0..(n + 1) : k # 0 => k - 1 \in 0..n
    OBVIOUS
  <2>4. \A k \in 0..(n + 1) : k # 0 => g[k - 1] = h[k - 1]
    BY <2>2, <2>3
  <2>5. g = [i \in 0..(n + 1) |-> IF i = 0 THEN <<>> ELSE Grown(m, order, i, g[i - 1])]
    <3> DEFINE r == [i \in 0..(n + 1) |-> IF i = 0 THEN <<>> ELSE Grown(m, order, i, g[i - 1])]
    <3>1. ASSUME NEW k \in 0..(n + 1) PROVE g[k] = r[k]
      <4>1. r[k] = IF k = 0 THEN <<>> ELSE Grown(m, order, k, g[k - 1])
        OBVIOUS
      <4>2. g[k] = IF k = 0 THEN <<>> ELSE Grown(m, order, k, h[k - 1])
        OBVIOUS
      <4> HIDE DEF g, r
      <4> QED BY <4>1, <4>2, <2>4
    <3>2. g = [i \in 0..(n + 1) |-> g[i]] /\ r = [i \in 0..(n + 1) |-> r[i]]
      OBVIOUS
    <3> HIDE DEF g, r
    <3>3. g = r
      BY <3>1, <3>2
    <3> QED BY <3>3 DEF r
  <2> HIDE DEF g
  <2>6. Grows(m, order, n + 1, g)
    BY <2>5 DEF Grows
  <2> QED BY <1>2, <2>6
<1> HIDE DEF S
<1>3. 0..N \subseteq S
  BY <1>1, <1>2, Climb
<1> QED BY <1>3 DEF S

\* The listing holds the backups that are present, each of them and no other.
Lists(L, m) ==
    /\ L \in Seq(HeldBackups(m))
    /\ \A b \in HeldBackups(m) : \E i \in 1..Len(L) : L[i] = b
LEMMA ListingLists ==
    ASSUME NEW m, NEW order \in Orders
    PROVE  Lists(Listing(m, order), m)
<1> DEFINE N == Len(order)
           g == CHOOSE h : Grows(m, order, N, h)
           H == HeldBackups(m)
           Kept(n) == /\ g[n] \in Seq(H)
                       /\ \A i \in 1..n : m[order[i]] # Absent =>
                             \E j \in 1..Len(g[n]) : g[n][j] = order[i]
           S == {n \in 0..N : Kept(n)}
<1>1. /\ order \in Seq(Backups) /\ N \in Nat /\ DOMAIN order = 1..N
      /\ \A i \in 1..N : order[i] \in Backups
      /\ \A b \in Backups : \E i \in 1..N : order[i] = b
  <2>1. order \in Seq(Backups) /\ Backups \subseteq {order[i] : i \in DOMAIN order}
    BY FilesAssumption
  <2>2. N \in Nat /\ DOMAIN order = 1..N /\ \A i \in 1..N : order[i] \in Backups
    BY <2>1
  <2> QED BY <2>1, <2>2
<1>2. Grows(m, order, N, g)
  BY <1>1, GrowsExists
<1>3. Listing(m, order) = g[N]
  BY DEF Listing, Grows, Grown
<1> HIDE DEF g
<1>4. g[0] = <<>> /\ \A i \in 1..N : g[i] = Grown(m, order, i, g[i - 1])
  <2>1. g = [i \in 0..N |-> IF i = 0 THEN <<>> ELSE Grown(m, order, i, g[i - 1])]
    BY ONLY <1>2 DEF Grows
  <2>2. N \in Nat
    BY <1>1
  <2> HIDE DEF N
  <2>3. g[0] = <<>>
    BY ONLY <2>1, <2>2
  <2>4. ASSUME NEW i \in 1..N PROVE g[i] = Grown(m, order, i, g[i - 1])
    <3>1. i \in 0..N /\ i # 0
      BY <2>2
    <3> QED BY ONLY <2>1, <3>1, Zenon
  <2> QED BY <2>3, <2>4
<1> HIDE DEF H
<1>5. 0 \in S
  <2>1. g[0] \in Seq(H) /\ 0 \in 0..N
    BY <1>1, <1>4
  <2>2. \A i \in 1..0 : FALSE
    OBVIOUS
  <2> QED BY <2>1, <2>2
<1>6. ASSUME NEW n \in 0..N, n + 1 \in 0..N, n \in S PROVE n + 1 \in S
  <2>1. n + 1 \in 1..N /\ (n + 1) - 1 = n
    BY <1>6
  <2>2. g[n + 1] = Grown(m, order, n + 1, g[n])
    BY <1>4, <2>1
  <2>3. g[n] \in Seq(H) /\ \A i \in 1..n : m[order[i]] # Absent =>
                             \E j \in 1..Len(g[n]) : g[n][j] = order[i]
    BY <1>6
  <2>4. \A i \in 1..(n + 1) : i \in 1..n \/ i = n + 1
    BY <2>1
  <2>5. CASE m[order[n + 1]] = Absent
    <3>1. g[n + 1] = g[n]
      BY <2>2, <2>5 DEF Grown
    <3>2. Kept(n + 1)
      BY <3>1, <2>3, <2>4, <2>5
    <3> QED BY <3>2, <1>6
  <2>6. CASE m[order[n + 1]] # Absent
    <3>1. g[n + 1] = Append(g[n], order[n + 1]) /\ order[n + 1] \in H
      BY <2>2, <2>6, <2>1, <1>1 DEF Grown, H, HeldBackups
    <3>2. /\ g[n + 1] \in Seq(H) /\ Len(g[n + 1]) = Len(g[n]) + 1 /\ Len(g[n]) \in Nat
          /\ g[n + 1][Len(g[n]) + 1] = order[n + 1]
          /\ \A j \in 1..Len(g[n]) : g[n + 1][j] = g[n][j]
      BY <3>1, <2>3
    <3>3. ASSUME NEW i \in 1..(n + 1), m[order[i]] # Absent
          PROVE  \E j \in 1..Len(g[n + 1]) : g[n + 1][j] = order[i]
      <4>1. CASE i \in 1..n
        <5>1. PICK j \in 1..Len(g[n]) : g[n][j] = order[i]
          BY <4>1, <3>3, <2>3
        <5> QED BY <5>1, <3>2
      <4>2. CASE i = n + 1
        <5>1. Len(g[n]) + 1 \in 1..Len(g[n + 1])
          BY <3>2
        <5> QED BY <4>2, <3>2, <5>1
      <4> QED BY <4>1, <4>2, <2>4
    <3>4. Kept(n + 1)
      BY <3>2, <3>3
    <3> QED BY <3>4, <1>6
  <2> QED BY <2>5, <2>6
<1> HIDE DEF S
<1>7. 0..N \subseteq S
  BY <1>1, <1>5, <1>6, Climb
<1>8. Kept(N)
  BY <1>7, <1>1 DEF S
<1> HIDE DEF Kept
<1>9. \A b \in H : \E i \in 1..N : order[i] = b /\ m[order[i]] # Absent
  BY <1>1 DEF H, HeldBackups
<1>10. \A b \in H : \E j \in 1..Len(g[N]) : g[N][j] = b
  BY <1>8, <1>9 DEF Kept
<1> QED BY <1>3, <1>8, <1>10 DEF Lists, H, Kept

-----------------------------------------------------------------------------
(* Several files rewritten, several removed.                               *)

Maps == [Names -> Values]
LEMMA TypedIsMap ==
    ASSUME NEW m, Typed(m)
    PROVE  m \in Maps /\ Whole(m)
<1>1. Absent \in Values /\ Nat \subseteq Values /\ Configs \subseteq Values /\ Plans \subseteq Values
      /\ "files" \in Values /\ "committing" \in Values
  BY DEF Values
<1>2. ASSUME NEW n \in Names PROVE m[n] \in Values
  <2>1. CASE n \in {"config", "complete", "seal", "config.bak"}
    BY <2>1, <1>1 DEF Typed
  <2>2. CASE n \in Data
    BY <2>2, <1>1 DEF Typed
  <2>3. CASE n \in Backups \ {"config.bak"}
    <3>1. PICK d \in Data : n = Backup(d)
      BY <2>3, BackupsNamed
    <3> QED BY <3>1, <1>1 DEF Typed
  <2>4. CASE n \in Records
    BY <2>4, <1>1 DEF Typed
  <2>5. CASE n \in {Stage(r) : r \in Records}
    BY <2>5, <1>1 DEF Typed
  <2> QED BY <2>1, <2>2, <2>3, <2>4, <2>5 DEF Names
<1> QED BY <1>2 DEF Typed, Maps, Whole
LEMMA MapFacts ==
    ASSUME NEW m \in Maps
    PROVE  /\ Whole(m) /\ (\A n \in Names : m[n] \in Values)
           /\ \A n \in Names : \A v \in Values : After(m, put(n, v)) \in Maps
           /\ \A n \in Names : After(m, remove(n)) \in Maps
           /\ After(m, sync) = m
<1>1. Absent \in Values
  BY DEF Values
<1> QED BY <1>1 DEF Maps, Whole, After, put, remove, sync

LEMMA Sequenced ==
    ASSUME NEW N \in Nat, NEW f, NEW S, f = [i \in 1..N |-> f[i]], \A i \in 1..N : f[i] \in S
    PROVE  f \in Seq(S) /\ Len(f) = N /\ DOMAIN f = 1..N
<1>1. f \in [1..N -> S]
  BY Zenon
<1>2. f \in Seq(S)
  BY <1>1, SMT
<1>3. DOMAIN f = 1..N
  BY <1>1
<1> QED BY <1>1, <1>2, <1>3

Pairs(L) ==
    /\ Len(L) \in Nat /\ \A i \in 1..Len(L) : L[i][1] \in Names /\ L[i][2] \in Values
    /\ \A i, j \in 1..Len(L) : L[i][1] = L[j][1] => L[i][2] = L[j][2]
Rewritten(m, k, L, n) ==
    /\ m \in Maps
    /\ \A i \in 1..n : m[L[i][1]] = L[i][2]
    /\ \A x \in Names : m[x] = k[x] \/ \E i \in 1..n : x = L[i][1]
LEMMA RewritesScript ==
    ASSUME NEW L, Pairs(L)
    PROVE  /\ Script(rewrites(L)) /\ Len(rewrites(L)) = 2 * Len(L)
           /\ \A k \in 1..Len(L) : /\ rewrites(L)[2 * k - 1] = put(L[k][1], L[k][2])
                                   /\ rewrites(L)[2 * k] = sync
<1> DEFINE N == Len(L)
           r == rewrites(L)
           e(i) == IF i % 2 = 0 THEN sync ELSE put(L[(i + 1) \div 2][1], L[(i + 1) \div 2][2])
<1>1. N \in Nat /\ 2 * N \in Nat
  BY DEF Pairs
<1>2. \A i \in 1..(2 * N) : i % 2 # 0 => (i + 1) \div 2 \in 1..N
  BY <1>1
<1>3. \A k \in 1..N : /\ 2 * k \in 1..(2 * N) /\ (2 * k) % 2 = 0
                      /\ 2 * k - 1 \in 1..(2 * N) /\ (2 * k - 1) % 2 # 0
                      /\ ((2 * k - 1) + 1) \div 2 = k
  BY <1>1
<1>4. r = [i \in 1..(2 * N) |-> e(i)]
  BY DEF rewrites
<1>5. \A i \in 1..(2 * N) : e(i) \in Operations
  BY <1>2, FileOperations DEF Pairs
<1>6. \A k \in 1..N : e(2 * k - 1) = put(L[k][1], L[k][2]) /\ e(2 * k) = sync
  BY <1>3
<1> HIDE DEF N, r, e
<1>7. \A i \in 1..(2 * N) : r[i] = e(i)
  BY <1>4
<1>8. r = [i \in 1..(2 * N) |-> r[i]] /\ \A i \in 1..(2 * N) : r[i] \in Operations
  BY <1>4, <1>5, <1>7
<1>9. r \in Seq(Operations) /\ Len(r) = 2 * N
  BY <1>1, <1>8, Sequenced
<1>10. \A k \in 1..N : r[2 * k - 1] = put(L[k][1], L[k][2]) /\ r[2 * k] = sync
  BY <1>3, <1>6, <1>7
<1> QED BY <1>9, <1>10 DEF Script, N, r
Rewritable(s, k, L) == \A n \in 0..Len(L) : \A m : Rewritten(m, k, L, n) => Apt(m, s)
RewritesTo(s, k, L, t) ==
    /\ Turns(s, rewrites(L), t, t.dir.vis) /\ Rewritten(t.dir.vis, k, L, Len(L))
    /\ Len(L) > 0 => t.dir.disk = {t.dir.vis}
LEMMA RewritesRun ==
    ASSUME NEW s, Good(s), NEW k, k = s.dir.vis, k \in Maps, NEW L, Pairs(L),
           Rewritable(s, k, L)
    PROVE  \E t : RewritesTo(s, k, L, t)
<1> DEFINE N == Len(L)
           r == rewrites(L)
           P == [j \in 0..(2 * N) |-> {m \in Maps : Rewritten(m, k, L, (j + 1) \div 2)}]
<1>1. N \in Nat /\ Script(r) /\ Len(r) = 2 * N
  BY RewritesScript DEF Pairs
<1>2. \A j \in 1..(2 * N) : \E i \in 1..N : j = 2 * i \/ j = 2 * i - 1
  <2>1. ASSUME NEW j \in 1..(2 * N) PROVE \E i \in 1..N : j = 2 * i \/ j = 2 * i - 1
    <3>1. (j + 1) \div 2 \in 1..N /\ (j = 2 * ((j + 1) \div 2) \/ j = 2 * ((j + 1) \div 2) - 1)
      BY <1>1
    <3> QED BY <3>1
  <2> QED BY <2>1
<1>3. \A i \in 1..N : r[2 * i - 1] = put(L[i][1], L[i][2]) /\ r[2 * i] = sync
  BY RewritesScript
<1>4. k \in P[0]
  <2>1. \A i \in 1..0 : FALSE
    OBVIOUS
  <2>2. Rewritten(k, k, L, 0) /\ (0 + 1) \div 2 = 0 /\ 0 \in 0..(2 * N)
    BY <2>1, <1>1 DEF Rewritten
  <2> QED BY <2>2
<1>5. ASSUME NEW j \in 0..(2 * N), NEW m \in P[j] PROVE Apt(m, s)
  <2>1. (j + 1) \div 2 \in 0..N
    BY <1>1
  <2>2. Rewritten(m, k, L, (j + 1) \div 2)
    BY <1>5
  <2> QED BY <2>1, <2>2 DEF Rewritable
<1>6. ASSUME NEW j \in 1..(2 * N), NEW m \in P[j - 1] PROVE After(m, r[j]) \in P[j]
  <2>1. PICK i \in 1..N : j = 2 * i \/ j = 2 * i - 1
    BY <1>2
  <2>2. CASE j = 2 * i
    <3>1. j - 1 \in 0..(2 * N) /\ ((j - 1) + 1) \div 2 = i /\ (j + 1) \div 2 = i
      BY <2>2, <1>1
    <3>2. Rewritten(m, k, L, i) /\ m \in Maps
      BY <3>1
    <3>3. After(m, r[j]) = m
      BY <2>2, <1>3, <3>2, MapFacts
    <3> QED BY <3>1, <3>2, <3>3
  <2>3. CASE j = 2 * i - 1
    <3>1. j - 1 \in 0..(2 * N) /\ ((j - 1) + 1) \div 2 = i - 1 /\ (j + 1) \div 2 = i
      BY <2>3, <1>1
    <3>2. Rewritten(m, k, L, i - 1) /\ m \in Maps
      BY <3>1
    <3> DEFINE x == L[i][1]
               v == L[i][2]
               w == After(m, put(x, v))
    <3>3. x \in Names /\ v \in Values /\ w \in Maps
      BY <3>2, MapFacts DEF Pairs
    <3>4. w[x] = v /\ \A y \in Names \ {x} : w[y] = m[y]
      BY <3>2, <3>3, MapFacts, PutFacts
    <3>5. \A h \in 1..i : h = i \/ h \in 1..(i - 1)
      OBVIOUS
    <3>6. ASSUME NEW h \in 1..i PROVE w[L[h][1]] = L[h][2]
      <4>1. h \in 1..N /\ L[h][1] \in Names /\ (L[h][1] = L[i][1] => L[h][2] = L[i][2])
        BY DEF Pairs
      <4>2. h # i => m[L[h][1]] = L[h][2]
        BY <3>2, <3>5 DEF Rewritten
      <4> QED BY <4>1, <4>2, <3>4
    <3>7. ASSUME NEW y \in Names PROVE w[y] = k[y] \/ \E h \in 1..i : y = L[h][1]
      <4>1. CASE y = x
        <5>1. i \in 1..i
          OBVIOUS
        <5> QED BY <5>1, <4>1
      <4>2. CASE y # x
        <5>1. m[y] = k[y] \/ \E h \in 1..(i - 1) : y = L[h][1]
          BY <3>2 DEF Rewritten
        <5>2. 1..(i - 1) \subseteq 1..i
          OBVIOUS
        <5> QED BY <5>1, <5>2, <4>2, <3>4
      <4> QED BY <4>1, <4>2
    <3>8. Rewritten(w, k, L, i)
      BY <3>3, <3>6, <3>7 DEF Rewritten
    <3>9. After(m, r[j]) = w
      BY <2>3, <1>3
    <3> HIDE DEF w
    <3> QED BY <3>1, <3>3, <3>8, <3>9
  <2> QED BY <2>1, <2>2, <2>3
<1>7. ASSUME NEW j \in 1..(2 * N) PROVE r[j].op \in FileOps
  <2>1. \A x, v : put(x, v).op \in FileOps
    BY DEF put, FileOps
  <2>2. sync.op \in FileOps
    BY DEF sync, FileOps
  <2> QED BY <1>2, <1>3, <2>1, <2>2
<1>8. P[2 * N] = {m \in Maps : Rewritten(m, k, L, N)}
  <2>1. (2 * N + 1) \div 2 = N /\ 2 * N \in 0..(2 * N)
    BY <1>1
  <2> QED BY <2>1
<1>9. N > 0 => 2 * N > 0 /\ r[2 * N].op = "sync"
  BY <1>1, <1>3 DEF sync
<1> HIDE DEF P, r, N
<1>10. \E t : /\ Turns(s, r, t, t.dir.vis) /\ t.dir.vis \in P[Len(r)]
              /\ Len(r) > 0 /\ r[Len(r)].op = "sync" => t.dir.disk = {t.dir.vis}
  <2>1. s.dir.vis \in P[0]
    BY <1>4
  <2>2. \A j \in 1..Len(r) : r[j].op \in FileOps
    BY <1>1, <1>7
  <2>3. \A j \in 0..Len(r) : \A m \in P[j] : Apt(m, s)
    BY <1>1, <1>5
  <2>4. \A j \in 1..Len(r) : \A m \in P[j - 1] : After(m, r[j]) \in P[j]
    BY <1>1, <1>6
  <2>5. Script(r) /\ Good(s)
    BY <1>1
  <2> QED BY ONLY <2>1, <2>2, <2>3, <2>4, <2>5, FilesRun
<1> QED BY <1>1, <1>8, <1>9, <1>10 DEF r, N, RewritesTo

Cleared(m, k, L, n) ==
    /\ m \in Maps
    /\ \A i \in 1..n : m[L[i]] = Absent
    /\ \A x \in Names : m[x] = k[x] \/ (x \in Backups /\ m[x] = Absent)
Removals(L) == [i \in DOMAIN L |-> remove(L[i])]
LEMMA RemovalsRun ==
    ASSUME NEW s, Good(s), NEW k, k = s.dir.vis, k \in Maps, NEW L \in Seq(Backups),
           \A n \in 0..Len(L) : \A m : Cleared(m, k, L, n) => Apt(m, s)
    PROVE  \E t : Turns(s, Removals(L), t, t.dir.vis) /\ Cleared(t.dir.vis, k, L, Len(L))
<1> DEFINE N == Len(L)
           r == Removals(L)
           P == [j \in 0..N |-> {m \in Maps : Cleared(m, k, L, j)}]
<1>1. N \in Nat /\ DOMAIN L = 1..N /\ \A i \in 1..N : L[i] \in Backups /\ L[i] \in Names
  BY OwnNamed
<1>2. Script(r) /\ Len(r) = N /\ \A i \in 1..N : r[i] = remove(L[i])
  <2>1. r = [i \in 1..N |-> remove(L[i])]
    BY <1>1 DEF Removals
  <2> HIDE DEF r, N
  <2>2. \A i \in 1..N : r[i] = remove(L[i]) /\ r[i] \in Operations
    BY <2>1, <1>1, FileOperations
  <2>3. r = [i \in 1..N |-> r[i]]
    BY <2>1
  <2>4. r \in Seq(Operations) /\ Len(r) = N
    BY <1>1, <2>2, <2>3, Sequenced
  <2> QED BY <2>2, <2>4 DEF Script
<1>3. k \in P[0]
  <2>1. \A i \in 1..0 : FALSE
    OBVIOUS
  <2>2. Cleared(k, k, L, 0) /\ 0 \in 0..N
    BY <2>1, <1>1 DEF Cleared
  <2> QED BY <2>2
<1>4. ASSUME NEW j \in 1..N, NEW m \in P[j - 1] PROVE After(m, r[j]) \in P[j]
  <2>1. j - 1 \in 0..N /\ j \in 0..N
    BY <1>1
  <2>2. Cleared(m, k, L, j - 1) /\ m \in Maps
    BY <2>1
  <2> DEFINE x == L[j]
             w == After(m, remove(x))
  <2>3. x \in Names /\ x \in Backups /\ w \in Maps /\ After(m, r[j]) = w
    BY <1>1, <1>2, <2>2, MapFacts
  <2>4. w[x] = Absent /\ \A y \in Names \ {x} : w[y] = m[y]
    BY <2>2, <2>3, MapFacts, RemoveFacts
  <2>5. \A h \in 1..j : h = j \/ h \in 1..(j - 1)
    OBVIOUS
  <2>6. ASSUME NEW h \in 1..j PROVE w[L[h]] = Absent
    <3>1. h \in 1..N /\ L[h] \in Names
      BY <1>1
    <3> QED BY <2>2, <2>4, <2>5, <3>1 DEF Cleared
  <2>7. ASSUME NEW y \in Names PROVE w[y] = k[y] \/ (y \in Backups /\ w[y] = Absent)
    BY <2>2, <2>3, <2>4 DEF Cleared
  <2>8. Cleared(w, k, L, j)
    BY <2>3, <2>6, <2>7 DEF Cleared
  <2> HIDE DEF w
  <2> QED BY <2>1, <2>3, <2>8
<1>5. \A j \in 0..Len(r) : \A m \in P[j] : Apt(m, s)
  BY <1>2
<1>6. P[Len(r)] = {m \in Maps : Cleared(m, k, L, N)}
  BY <1>1, <1>2
<1> HIDE DEF P, r, N
<1>7. \E t : /\ Turns(s, r, t, t.dir.vis) /\ t.dir.vis \in P[Len(r)]
             /\ Len(r) > 0 /\ r[Len(r)].op = "sync" => t.dir.disk = {t.dir.vis}
  <2>1. s.dir.vis \in P[0]
    BY <1>3
  <2>2. \A j \in 1..Len(r) : r[j].op \in FileOps
    BY <1>2 DEF remove, FileOps
  <2>4. \A j \in 1..Len(r) : \A m \in P[j - 1] : After(m, r[j]) \in P[j]
    BY <1>2, <1>4
  <2>5. Script(r) /\ Good(s)
    BY <1>2
  <2> QED BY ONLY <2>1, <2>2, <1>5, <2>4, <2>5, FilesRun
<1> QED BY <1>6, <1>7 DEF r, N

-----------------------------------------------------------------------------
(* What each file may hold.                                                *)

TypeOf(n) ==
    IF n \in {"config", "complete"} THEN Configs
    ELSE IF n = "seal" THEN {Absent, "files", "committing"}
    ELSE IF n = "config.bak" THEN Configs \cup {Absent}
    ELSE IF n \in Data \cup Backups THEN Nat \cup {Absent}
    ELSE Plans \cup {Absent}
LEMMA TypedFacts ==
    ASSUME NEW m
    PROVE  /\ Typed(m) => \A n \in Names : m[n] \in TypeOf(n)
           /\ Whole(m) /\ (\A n \in Names : m[n] \in TypeOf(n)) => Typed(m)
<1>1. ASSUME Typed(m), NEW n \in Names PROVE m[n] \in TypeOf(n)
  <2>1. CASE n \in {"config", "complete", "seal", "config.bak"}
    BY <2>1, <1>1 DEF Typed, TypeOf
  <2>2. CASE n \in Data
    BY <2>2, <1>1, OwnNamed DEF Typed, TypeOf, Data
  <2>3. CASE n \in Backups \ {"config.bak"}
    <3>1. PICK d \in Data : n = Backup(d)
      BY <2>3, BackupsNamed
    <3>2. m[n] \in Nat \cup {Absent}
      BY <3>1, <1>1 DEF Typed
    <3>3. TypeOf(n) = Nat \cup {Absent}
      BY <2>3 DEF Backups, TypeOf
    <3> QED BY <3>2, <3>3
  <2>4. CASE n \in Records \/ n \in {Stage(r) : r \in Records}
    <3>1. m[n] \in Plans \cup {Absent}
      BY <2>4, <1>1 DEF Typed
    <3>2. n \notin Own
      BY <2>4, StagesNamed
    <3>3. TypeOf(n) = Plans \cup {Absent}
      BY <3>2, OwnNamed DEF Own, TypeOf
    <3> QED BY <3>1, <3>3
  <2> QED BY <2>1, <2>2, <2>3, <2>4 DEF Names
<1>2. ASSUME Whole(m), \A n \in Names : m[n] \in TypeOf(n) PROVE Typed(m)
  <2>1. /\ m["config"] \in Configs /\ m["complete"] \in Configs
        /\ m["seal"] \in {Absent, "files", "committing"} /\ m["config.bak"] \in Configs \cup {Absent}
    BY <1>2, OwnNamed DEF TypeOf
  <2>2. \A n \in Data : TypeOf(n) = Nat \cup {Absent}
    BY DEF TypeOf, Data
  <2>3. \A n \in Backups \ {"config.bak"} : TypeOf(n) = Nat \cup {Absent}
    BY DEF TypeOf, Backups
  <2>4. ASSUME NEW n \in Data PROVE m[n] \in Nat \cup {Absent} /\ m[Backup(n)] \in Nat \cup {Absent}
    BY <1>2, <2>2, <2>3, OwnNamed, BackupsNamed
  <2>5. \A n \in Names : n \notin Own => TypeOf(n) = Plans \cup {Absent}
    BY OwnNamed DEF TypeOf, Own
  <2>6. ASSUME NEW n \in Records PROVE m[n] \in Plans \cup {Absent} /\ m[Stage(n)] \in Plans \cup {Absent}
    BY <1>2, <2>5, StagesNamed
  <2> QED BY <1>2, <2>1, <2>4, <2>6 DEF Typed, Whole
<1> QED BY <1>1, <1>2
LEMMA TypedLike ==
    ASSUME NEW m \in Maps, NEW k, Typed(k), \A n \in Names : m[n] = k[n] \/ m[n] \in TypeOf(n)
    PROVE  Typed(m)
BY TypedFacts, MapFacts
LEMMA AbsentTyped ==
    \A n \in Names : n \notin {"config", "complete"} => Absent \in TypeOf(n)
BY DEF TypeOf

-----------------------------------------------------------------------------
(* The scratch of a seal goes.                                             *)

LEMMA GoodApt ==
    ASSUME NEW s, Good(s)
    PROVE  Apt(s.dir.vis, s) /\ s.dir.vis \in Maps
<1>1. Apt(s.dir.vis, s)
  BY DEF Good, Apt
<1> QED BY <1>1, TypedIsMap DEF Apt, Fine
LEMMA AptMap ==
    ASSUME NEW s, NEW m, Apt(m, s)
    PROVE  Typed(m) /\ m \in Maps
BY TypedIsMap DEF Apt, Fine

LEMMA ScratchApt ==
    ASSUME NEW s, NEW k, Apt(k, s), Loads(k), Selects(k, s, k["config"]),
           NEW m \in Maps, m["seal"] = Absent,
           \A x \in Names : m[x] = k[x] \/ (x \in Backups \cup {"seal"} /\ m[x] = Absent)
    PROVE  Apt(m, s)
<1>1. Typed(m)
  <2>1. Typed(k)
    BY AptMap
  <2>2. \A x \in Names : m[x] = k[x] \/ m[x] \in TypeOf(x)
    BY AbsentTyped, OwnNamed
  <2> QED BY <2>1, <2>2, TypedLike
<1>2. Kin(m, k)
  BY StagesNamed DEF Kin, Own
<1>3. m["config"] = k["config"] /\ m["complete"] = k["complete"] /\ \A n \in Data : m[n] = k[n]
  BY OwnNamed
<1>4. Loads(m)
  BY <1>3, BackupsNamed DEF Loads
<1>5. ~Restores(m)
  BY DEF Restores
<1>6. Recoverable(m) /\ Base(m) = k["config"]
  BY <1>3, <1>4, <1>5 DEF Recoverable, Base
<1>7. m["config.bak"] # Absent => m["config.bak"] = k["config.bak"]
  BY OwnNamed
<1>8. /\ Backing(k, s.box, k["config"])
      /\ k["config.bak"] # Absent => Backing(k, s.box, k["config.bak"])
  BY AptGives
<1> QED BY <1>1, <1>2, <1>3, <1>6, <1>7, <1>8, AptKin

\* The files of k without the marker and the backups.
Scrubbed(m, k) ==
    /\ m \in Maps /\ m["seal"] = Absent /\ \A b \in Backups : m[b] = Absent
    /\ \A x \in Names : x \notin Backups \cup {"seal"} => m[x] = k[x]
SameScratch(q, k) == q["seal"] = k["seal"] /\ \A b \in Backups : q[b] = k[b]
ScratchesTo(s, q, order, k, t) ==
    /\ Turns(s, remove_seal_scratch(q, order), t, t.dir.vis)
    /\ Scrubbed(t.dir.vis, k) /\ t.dir.disk = {t.dir.vis}
LEMMA ScratchRun ==
    ASSUME NEW s, Good(s), NEW k, k = s.dir.vis, Loads(k), Selects(k, s, k["config"]),
           NEW q, SameScratch(q, k), NEW order \in Orders
    PROVE  \E t : ScratchesTo(s, q, order, k, t)
<1> DEFINE L == Listing(q, order)
           A == IF q["seal"] # Absent THEN <<remove("seal")>> ELSE <<>>
<1>0. remove_seal_scratch(q, order) = A \o <<sync>> \o Removals(L) \o <<sync>>
  BY DEF remove_seal_scratch, Removals
<1>1. Apt(k, s) /\ k \in Maps /\ q["seal"] = k["seal"] /\ \A b \in Backups : q[b] = k[b]
  BY GoodApt DEF SameScratch
<1>2. PICK t1 : /\ Turns(s, A, t1, t1.dir.vis) /\ t1.dir.vis["seal"] = Absent /\ t1.dir.vis \in Maps
                /\ \A x \in Names \ {"seal"} : t1.dir.vis[x] = k[x]
  <2>1. CASE k["seal"] = Absent
    <3>1. Turns(s, <<>>, s, s.dir.vis) /\ A = <<>>
      BY <1>1, <2>1, TurnsNothing
    <3> QED BY <3>1, <2>1, <1>1
  <2>2. CASE k["seal"] # Absent
    <3> DEFINE m == After(k, remove("seal"))
    <3>1. "seal" \in Names /\ remove("seal") \in Operations /\ remove("seal").op = "remove"
      BY OwnNamed, FileOperations DEF remove
    <3>2. m \in Maps /\ Whole(k)
      BY <1>1, <3>1, MapFacts
    <3>3. m["seal"] = Absent /\ \A x \in Names \ {"seal"} : m[x] = k[x]
      BY <3>1, <3>2, RemoveFacts
    <3> HIDE DEF m
    <3>4. Apt(m, s)
      BY <1>1, <3>2, <3>3, ScratchApt
    <3>5. m = After(s.dir.vis, remove("seal"))
      BY DEF m
    <3>6. PICK t : Turns(s, <<remove("seal")>>, t, m)
      BY <3>1, <3>4, <3>5, TurnsOp
    <3>7. t.dir.vis = m /\ A = <<remove("seal")>>
      BY <1>1, <3>6, <2>2 DEF Turns
    <3> QED BY <3>2, <3>3, <3>6, <3>7
  <2> QED BY <2>1, <2>2
<1> DEFINE k1 == t1.dir.vis
<1>3. Good(t1)
  BY <1>2, Leading DEF Turns
<1>4. PICK t2 : Turns(t1, <<sync>>, t2, k1)
  BY <1>3, TurnsSync
<1>5. Good(t2) /\ t2.dir.vis = k1 /\ SameBooks(t2, s)
  BY <1>2, <1>4, Leading DEF Turns, SameBooks
<1>6. Lists(L, q) /\ L \in Seq(Backups)
  <2>1. Lists(L, q)
    BY ListingLists
  <2> DEFINE H == HeldBackups(q)
  <2>2. L \in Seq(H) /\ H \subseteq Backups
    BY <2>1 DEF Lists, HeldBackups
  <2> HIDE DEF L, H
  <2>3. L \in Seq(Backups)
    BY <2>2
  <2> QED BY <2>1, <2>3
<1>7. \A n \in 0..Len(L) : \A m : Cleared(m, k1, L, n) => Apt(m, t2)
  <2> SUFFICES ASSUME NEW n \in 0..Len(L), NEW m, Cleared(m, k1, L, n) PROVE Apt(m, t2)
    OBVIOUS
  <2>1. m \in Maps /\ m["seal"] = Absent
    BY <1>2, OwnNamed DEF Cleared
  <2>2. \A x \in Names : m[x] = k[x] \/ (x \in Backups \cup {"seal"} /\ m[x] = Absent)
    BY <1>2, <2>1 DEF Cleared
  <2>3. Apt(m, s)
    BY <1>1, <2>1, <2>2, ScratchApt
  <2> QED BY <1>5, <2>3 DEF Apt, SameBooks
<1>8. PICK t3 : Turns(t2, Removals(L), t3, t3.dir.vis) /\ Cleared(t3.dir.vis, k1, L, Len(L))
  BY <1>2, <1>5, <1>6, <1>7, RemovalsRun
<1>9. Good(t3)
  BY <1>8, Leading DEF Turns
<1>10. PICK t4 : Turns(t3, <<sync>>, t4, t3.dir.vis) /\ t4.dir.disk = {t3.dir.vis}
  BY <1>9, TurnsSync
<1>11. Turns(s, A \o <<sync>> \o Removals(L) \o <<sync>>, t4, t3.dir.vis)
  <2> HIDE DEF A, L
  <2>1. Turns(s, A \o <<sync>>, t2, k1)
    BY <1>2, <1>4, TurnsThen
  <2>2. Turns(s, (A \o <<sync>>) \o Removals(L), t3, t3.dir.vis)
    BY <2>1, <1>8, TurnsThen
  <2> QED BY <2>2, <1>10, TurnsThen
<1>12. Scrubbed(t3.dir.vis, k)
  <2> DEFINE m == t3.dir.vis
  <2>1. m \in Maps /\ m["seal"] = Absent
    BY <1>2, <1>8, OwnNamed DEF Cleared
  <2>2. \A x \in Names : x \notin Backups \cup {"seal"} => m[x] = k[x]
    BY <1>2, <1>8 DEF Cleared
  <2>3. ASSUME NEW b \in Backups PROVE m[b] = Absent
    <3>1. b \in Names /\ b # "seal"
      BY OwnNamed
    <3>2. CASE k[b] = Absent
      BY <1>2, <1>8, <3>1, <3>2 DEF Cleared
    <3>3. CASE k[b] # Absent
      <4>1. PICK i \in 1..Len(L) : L[i] = b
        BY <1>1, <1>6, <3>3 DEF Lists, HeldBackups
      <4> QED BY <4>1, <1>8 DEF Cleared
    <3> QED BY <3>2, <3>3
  <2> QED BY <2>1, <2>2, <2>3 DEF Scrubbed
<1>13. t4.dir.vis = t3.dir.vis
  BY <1>10 DEF Turns
<1> QED BY <1>0, <1>10, <1>11, <1>12, <1>13 DEF ScratchesTo

-----------------------------------------------------------------------------
(* The backups are restored.                                               *)

\* m is k with some of the backups written over their names, and perhaps the
\* seal recomputed once the configuration is.
Restoring(m, k) ==
    /\ m \in Maps
    /\ \A x \in Names :
          \/ m[x] = k[x]
          \/ \E b \in HeldBackups(k) : x = Target(b) /\ m[x] = k[b]
          \/ x = "complete" /\ m[x] = k["config.bak"] /\ m["config"] = k["config.bak"]
LEMMA TargetsNamed ==
    \A b \in Backups : /\ Target(b) \in Data \cup {"config"}
                       /\ Target(b) \in Data => b = Backup(Target(b)) /\ b # "config.bak"
                       /\ Target(b) = "config" => b = "config.bak"
                       /\ \A a \in Backups : Target(a) = Target(b) => a = b
BY DEF Backups, Target, Data, Backup
LEMMA RestoreApt ==
    ASSUME NEW s, NEW k, Apt(k, s), Restores(k), NEW m, Restoring(m, k)
    PROVE  Apt(m, s)
<1> DEFINE c == k["config.bak"]
<1>1. Typed(k) /\ Saved(k) /\ Base(k) = c /\ c # Absent /\ c \in Configs
  <2>1. Typed(k) /\ Saved(k)
    BY AptGives DEF Recoverable
  <2> QED BY <2>1 DEF Base, Saved, Typed
<1>2. \A n \in Names : n \notin Data \cup {"config", "complete"} => m[n] = k[n]
  BY TargetsNamed DEF Restoring, HeldBackups
<1>3. m["seal"] = k["seal"] /\ \A b \in Backups : m[b] = k[b]
  BY <1>2, OwnNamed
<1>4. m["config"] \in {k["config"], c}
  <2>1. "config" \in Names /\ "config" # "complete"
    BY OwnNamed
  <2> QED BY <2>1, TargetsNamed DEF Restoring, HeldBackups
<1>5. m["complete"] = k["complete"] \/ (m["complete"] = c /\ m["config"] = c)
  <2>1. "complete" \in Names /\ "complete" # "config" /\ "complete" \notin Data
    BY OwnNamed
  <2> QED BY <2>1, TargetsNamed DEF Restoring, HeldBackups
<1>6. \A n \in Data : m[n] = k[n] \/ (k[Backup(n)] # Absent /\ m[n] = k[Backup(n)])
  <2>1. \A n \in Data : n \in Names /\ n # "complete"
    BY OwnNamed
  <2> QED BY <2>1, TargetsNamed DEF Restoring, HeldBackups
<1>7. Typed(m)
  <2>1. \A n \in Data : TypeOf(n) = Nat \cup {Absent} /\ k[Backup(n)] \in Nat \cup {Absent}
    BY <1>1 DEF Typed, TypeOf, Data
  <2>2. TypeOf("config") = Configs /\ TypeOf("complete") = Configs
    BY DEF TypeOf
  <2>3. ASSUME NEW n \in Names PROVE m[n] = k[n] \/ m[n] \in TypeOf(n)
    <3>1. CASE n \notin Data \cup {"config", "complete"}
      BY <3>1, <1>2
    <3>2. CASE n \in Data
      BY <3>2, <1>6, <2>1
    <3>3. CASE n = "config"
      BY <3>3, <1>4, <1>1, <2>2
    <3>4. CASE n = "complete"
      BY <3>4, <1>5, <1>1, <2>2
    <3> QED BY <3>1, <3>2, <3>3, <3>4
  <2>4. m \in Maps
    BY DEF Restoring
  <2> QED BY <1>1, <2>3, <2>4, TypedLike
<1>8. m["config.bak"] = c
  BY <1>3, OwnNamed
<1>9. Restores(m)
  BY <1>3, <1>4, <1>5, <1>8 DEF Restores, MustRestore, Sealed
<1>10. Saved(m)
  <2>1. m["seal"] = "files" => m["config"] = c /\ m["complete"] = c
    BY <1>1, <1>3, <1>4, <1>5 DEF Saved
  <2>2. \A n \in Data : m[Backup(n)] = k[Backup(n)]
    BY <1>3, BackupsNamed
  <2>3. \A n \in Data : m[Backup(n)] # Absent => n \in Listed(c) /\ m[Backup(n)] = c[n]
    BY <1>1, <2>2 DEF Saved
  <2>4. \A n \in Listed(c) : n \in Data
    BY BackupsNamed
  <2>5. ASSUME NEW n \in Listed(c) PROVE m[n] = c[n] \/ m[Backup(n)] # Absent
    <3>1. k[n] = c[n] \/ k[Backup(n)] # Absent
      BY <1>1 DEF Saved
    <3> QED BY <3>1, <2>2, <2>4, <1>6
  <2> QED BY <1>1, <1>8, <2>1, <2>3, <2>5 DEF Saved
<1>11. Recoverable(m) /\ Base(m) = c
  BY <1>8, <1>9, <1>10 DEF Recoverable, Base
<1>12. Kin(m, k)
  BY <1>2, StagesNamed DEF Kin, Own
<1>13. Selects(k, s, c) /\ Backing(k, s.box, k["config"]) /\ Backing(k, s.box, c)
  BY <1>1, AptGives
<1> QED BY <1>4, <1>7, <1>8, <1>11, <1>12, <1>13, AptKin

\* m is k with the configuration c, sealed, its files perhaps rewritten.
Reset(m, k, c) ==
    /\ m \in Maps /\ m["config"] = c /\ m["complete"] = c /\ Loads(m)
    /\ \A x \in Names : x \notin Data \cup {"config", "complete"} => m[x] = k[x]
LEMMA RestoreRun ==
    ASSUME NEW s, Good(s), NEW k, k = s.dir.vis, Restores(k), NEW order \in Orders
    PROVE  /\ Restorable(k)
           /\ \E t : /\ Turns(s, restore_seal_backups(k, order), t, t.dir.vis)
                     /\ Reset(t.dir.vis, k, Base(k))
<1> DEFINE c == k["config.bak"]
           L == Listing(k, order)
           PL == [i \in DOMAIN L |-> <<Target(L[i]), k[L[i]]>>]
           H == HeldBackups(k)
<1>1. Apt(k, s) /\ k \in Maps /\ \A x \in Names : k[x] \in Values
  BY GoodApt, MapFacts
<1>2. Saved(k) /\ Base(k) = c /\ c # Absent /\ c \in Configs
  <2>1. Typed(k) /\ Saved(k)
    BY <1>1, AptGives DEF Recoverable
  <2> QED BY <2>1 DEF Base, Saved, Typed
<1>3. restore_seal_backups(k, order) = rewrites(PL) \o rewrite("complete", c)
  BY DEF restore_seal_backups
<1>4. /\ Len(L) \in Nat /\ DOMAIN L = 1..Len(L) /\ \A i \in 1..Len(L) : L[i] \in H
      /\ \A b \in H : \E i \in 1..Len(L) : L[i] = b
  <2>1. Lists(L, k)
    BY ListingLists
  <2> HIDE DEF L, H
  <2>2. L \in Seq(H) /\ \A b \in H : \E i \in 1..Len(L) : L[i] = b
    BY <2>1 DEF Lists, H
  <2> QED BY <2>2
<1>5. H \subseteq Backups /\ \A b \in H : k[b] # Absent
  BY DEF HeldBackups
<1>6. Restorable(k)
  <2>1. ASSUME NEW b \in H \ {"config.bak"} PROVE Target(b) \in Listed(c) /\ k[b] = c[Target(b)]
    <3>1. Target(b) \in Data /\ Backup(Target(b)) = b
      BY <1>5, BackupsNamed
    <3> QED BY <3>1, <1>2, <1>5 DEF Saved
  <2> QED BY <2>1 DEF Restorable
<1> HIDE DEF L, H
<1>7. Len(PL) = Len(L) /\ \A i \in 1..Len(L) : PL[i][1] = Target(L[i]) /\ PL[i][2] = k[L[i]]
  <2> DEFINE f == [i \in 1..Len(L) |-> <<Target(L[i]), k[L[i]]>>]
  <2>1. PL = f
    BY <1>4
  <2>2. f = [i \in 1..Len(L) |-> f[i]] /\ \A i \in 1..Len(L) : f[i] = <<Target(L[i]), k[L[i]]>>
    OBVIOUS
  <2> HIDE DEF f
  <2>3. Len(f) = Len(L)
    <3>1. \A i \in 1..Len(L) : f[i] \in {f[j] : j \in 1..Len(L)}
      OBVIOUS
    <3> QED BY <1>4, <2>2, <3>1, Sequenced
  <2> QED BY <2>1, <2>2, <2>3
<1> HIDE DEF PL
<1>8. Pairs(PL)
  <2>1. \A i \in 1..Len(L) : PL[i][1] \in Names /\ PL[i][2] \in Values
    BY <1>1, <1>4, <1>5, <1>7, TargetsNamed, OwnNamed
  <2>2. \A i, j \in 1..Len(L) : PL[i][1] = PL[j][1] => PL[i][2] = PL[j][2]
    BY <1>4, <1>5, <1>7, TargetsNamed
  <2> QED BY <1>4, <1>7, <2>1, <2>2 DEF Pairs
<1>9. ASSUME NEW n \in 0..Len(PL), NEW m, Rewritten(m, k, PL, n) PROVE Restoring(m, k)
  <2>1. m \in Maps
    BY <1>9 DEF Rewritten
  <2>2. ASSUME NEW x \in Names, m[x] # k[x] PROVE \E b \in H : x = Target(b) /\ m[x] = k[b]
    <3>1. PICK i \in 1..n : x = PL[i][1]
      BY <1>9, <2>2 DEF Rewritten
    <3>2. m[PL[i][1]] = PL[i][2] /\ i \in 1..Len(L)
      BY <1>9, <1>4, <1>7 DEF Rewritten
    <3> QED BY <3>1, <3>2, <1>4, <1>7
  <2> QED BY <2>1, <2>2 DEF Restoring, H
<1>10. Rewritable(s, k, PL)
  BY <1>1, <1>9, RestoreApt DEF Rewritable
<1>11. PICK t1 : /\ Turns(s, rewrites(PL), t1, t1.dir.vis)
                 /\ Rewritten(t1.dir.vis, k, PL, Len(PL))
  <2>1. Good(s) /\ k = s.dir.vis /\ k \in Maps /\ Pairs(PL) /\ Rewritable(s, k, PL)
    BY <1>1, <1>8, <1>10
  <2>2. \E t : RewritesTo(s, k, PL, t)
    BY ONLY <2>1, RewritesRun
  <2> QED BY <2>2 DEF RewritesTo
<1> DEFINE m1 == t1.dir.vis
<1>12. Restoring(m1, k) /\ m1 \in Maps
  <2>1. Len(PL) \in 0..Len(PL)
    BY <1>4, <1>7
  <2> QED BY <2>1, <1>9, <1>11 DEF Restoring
<1>13. \A b \in H : m1[Target(b)] = k[b]
  <2>1. \A i \in 1..Len(L) : m1[PL[i][1]] = PL[i][2]
    BY <1>11, <1>7 DEF Rewritten
  <2> QED BY <2>1, <1>4, <1>7
<1>14. m1["config"] = c
  <2>1. "config.bak" \in H
    BY <1>2, OwnNamed DEF H, HeldBackups
  <2> QED BY <2>1, <1>13, BackupsNamed
<1> HIDE DEF m1
<1> DEFINE m == After(m1, put("complete", c))
<1>15. "complete" \in Names /\ c \in Values
  BY <1>2, OwnNamed DEF Values
<1>16. m \in Maps /\ m["complete"] = c /\ \A x \in Names \ {"complete"} : m[x] = m1[x]
  <2>1. Whole(m1)
    BY <1>12, MapFacts
  <2> QED BY <1>12, <1>15, <2>1, MapFacts, PutFacts
<1> HIDE DEF m
<1>17. m["config"] = c
  BY <1>14, <1>16, OwnNamed
<1>18. Restoring(m, k)
  BY <1>12, <1>16, <1>17 DEF Restoring
<1>19. Apt(m, t1) /\ Good(t1)
  <2>1. Apt(m, s)
    BY <1>1, <1>18, RestoreApt
  <2>2. SameBooks(t1, s) /\ Good(t1)
    BY <1>11, Leading DEF Turns
  <2> QED BY <2>1, <2>2 DEF Apt, SameBooks
<1>20. PICK t : Turns(t1, rewrite("complete", c), t, m)
  <2>1. m = After(t1.dir.vis, put("complete", c))
    BY DEF m, m1
  <2> QED BY <1>15, <1>19, <2>1, TurnsRewrite
<1>21. Turns(s, rewrites(PL) \o rewrite("complete", c), t, m) /\ t.dir.vis = m
  <2>1. Turns(s, rewrites(PL) \o rewrite("complete", c), t, m)
    BY <1>11, <1>20, TurnsThen
  <2> QED BY <2>1 DEF Turns
<1>22. \A x \in Names : x \notin Data \cup {"config", "complete"} => m[x] = k[x]
  BY <1>18, <1>5, TargetsNamed DEF Restoring, H
<1>23. \A n \in Listed(c) : m[n] = c[n]
  <2> SUFFICES ASSUME NEW n \in Listed(c) PROVE m[n] = c[n]
    OBVIOUS
  <2>1. n \in Data /\ n \in Names /\ n # "complete"
    BY BackupsNamed, OwnNamed
  <2>2. m[n] = m1[n]
    BY <2>1, <1>16
  <2>3. Backup(n) \in Backups /\ Target(Backup(n)) = n
    BY <2>1, BackupsNamed
  <2>4. CASE k[Backup(n)] # Absent
    <3>1. m1[n] = k[Backup(n)]
      BY <2>3, <2>4, <1>13 DEF H, HeldBackups
    <3>2. k[Backup(n)] = c[n]
      BY <2>1, <2>4, <1>2 DEF Saved
    <3> QED BY <2>2, <3>1, <3>2
  <2>5. CASE k[Backup(n)] = Absent
    <3>1. k[n] = c[n]
      BY <2>5, <1>2 DEF Saved
    <3>2. m[n] = k[n]
      <4>1. \A b \in H : n # Target(b)
        BY <2>1, <2>5, <1>5, TargetsNamed
      <4> QED BY <4>1, <2>1, <1>18 DEF Restoring, H
    <3> QED BY <3>1, <3>2
  <2> QED BY <2>4, <2>5
<1>24. Reset(m, k, c)
  BY <1>2, <1>16, <1>17, <1>22, <1>23 DEF Reset, Loads
<1> QED BY <1>2, <1>3, <1>6, <1>21, <1>24

-----------------------------------------------------------------------------
(* Recovery.                                                               *)

LEMMA TurnsDone ==
    ASSUME NEW s, NEW ops, NEW t, NEW m, Turns(s, ops, t, m)
    PROVE  Done(s.dir.vis, ops) = m
<1>1. Len(ops) \in Nat /\ End(s, ops) = t /\ t.dir.vis = m
  BY ScriptFacts DEF Turns, Leads
<1> QED BY <1>1, DoneIsEnd
LEMMA SameApt ==
    ASSUME NEW s, NEW t, SameBooks(t, s)
    PROVE  /\ \A m : Apt(m, s) <=> Apt(m, t)
           /\ \A m, c : Selects(m, s, c) <=> Selects(m, t, c)
BY DEF SameBooks, Apt, Selects

\* A home of configuration c without any trace of a seal, and the records of k.
Tidy(m, k, c) ==
    /\ m \in Maps /\ m["seal"] = Absent /\ \A b \in Backups : m[b] = Absent
    /\ m["config"] = c /\ m["complete"] = c /\ Loads(m)
    /\ \A x \in Names \ Own : m[x] = k[x]
RecoversTo(s, k, order, t) ==
    /\ Turns(s, recover_seal(k, order), t, t.dir.vis)
    /\ Tidy(t.dir.vis, k, Base(k)) /\ t.dir.disk = {t.dir.vis}
LEMMA RecoverRun ==
    ASSUME NEW s, Good(s), NEW k, k = s.dir.vis, NEW order \in Orders
    PROVE  Recovers(k, order) /\ \E t : RecoversTo(s, k, order, t)
<1> DEFINE R == RestoreOps(k, order)
           c == Base(k)
<1>1. Apt(k, s) /\ k \in Maps /\ Typed(k) /\ Recoverable(k) /\ Selects(k, s, c) /\ c \in Configs
  BY GoodApt, AptGives
<1>2. PICK t1 : Turns(s, R, t1, t1.dir.vis) /\ Reset(t1.dir.vis, k, c)
  <2>1. CASE Restores(k)
    <3>1. R = restore_seal_backups(k, order)
      BY <2>1 DEF RestoreOps, Restores
    <3> QED BY <2>1, <3>1, RestoreRun
  <2>2. CASE ~Restores(k)
    <3>1. R = <<>> /\ c = k["config"] /\ Loads(k)
      BY <2>2, <1>1 DEF RestoreOps, Restores, Base, Recoverable
    <3>2. Reset(k, k, c)
      BY <3>1, <1>1 DEF Reset, Loads
    <3>3. Turns(s, R, s, s.dir.vis)
      BY <3>1, TurnsNothing
    <3> QED BY <3>2, <3>3
  <2> QED BY <2>1, <2>2
<1> DEFINE m == t1.dir.vis
<1>3. Certain(k)
  <2>1. CASE k["seal"] = Absent
    BY <2>1, <1>1 DEF Certain, Restores, Recoverable, Loads, Sealed
  <2>2. CASE k["seal"] # Absent
    <3>1. k["config.bak"] # Absent
      BY <2>2, <1>1 DEF Recoverable, Saved
    <3>2. MustRestore(k) => Restorable(k)
      BY <2>2, RestoreRun DEF Restores
    <3> QED BY <2>2, <3>1, <3>2 DEF Certain
  <2> QED BY <2>1, <2>2
<1>4. Recovers(k, order)
  <2>1. Done(k, R) = m /\ Loads(m)
    BY <1>2, TurnsDone DEF Reset
  <2> QED BY <1>3, <2>1 DEF Recovers
<1>5. Good(t1) /\ SameBooks(t1, s)
  BY <1>2, Leading DEF Turns
<1>6. Loads(m) /\ m["config"] = c /\ SameScratch(k, m)
  BY <1>2, OwnNamed DEF Reset, SameScratch
<1>7. Kin(m, k)
  BY <1>2, StagesNamed DEF Kin, Reset, Own
<1>8. Selects(m, t1, m["config"])
  BY <1>1, <1>5, <1>6, <1>7, KinFacts, SameApt
<1> DEFINE Q == remove_seal_scratch(k, order)
<1>9. PICK t : Turns(t1, Q, t, t.dir.vis) /\ Scrubbed(t.dir.vis, m) /\ t.dir.disk = {t.dir.vis}
  <2>1. m = t1.dir.vis /\ order \in Orders
    OBVIOUS
  <2> HIDE DEF m, Q
  <2>2. \E t : ScratchesTo(t1, k, order, m, t)
    BY ONLY <2>1, <1>5, <1>6, <1>8, ScratchRun
  <2> QED BY <2>2 DEF Q, ScratchesTo
<1>10. Turns(s, R \o Q, t, t.dir.vis)
  <2> HIDE DEF R, Q
  <2> QED BY <1>2, <1>9, TurnsThen
<1>11. Tidy(t.dir.vis, k, c)
  <2> DEFINE w == t.dir.vis
  <2>1. \A x \in Names \ Own : x \notin Data \cup {"config", "complete"} \cup Backups \cup {"seal"}
    BY DEF Own
  <2>2. \A x \in Names \ Own : w[x] = k[x]
    BY <1>2, <1>9, <2>1 DEF Scrubbed, Reset
  <2>3. w["config"] = m["config"] /\ w["complete"] = m["complete"] /\ \A n \in Data : w[n] = m[n]
    BY <1>9, OwnNamed DEF Scrubbed
  <2>4. Loads(w)
    BY <1>6, <2>3, BackupsNamed DEF Loads
  <2> QED BY <1>2, <1>9, <2>2, <2>3, <2>4 DEF Scrubbed, Reset, Tidy
<1>12. recover_seal(k, order) = R \o Q
  BY DEF recover_seal
<1> QED BY <1>4, <1>9, <1>10, <1>11, <1>12 DEF RecoversTo

-----------------------------------------------------------------------------
(* A sealed mutation.                                                      *)

LEMMA ConfigFacts ==
    ASSUME NEW c \in Configs
    PROVE  /\ \A n \in Data : c[n] \in Nat
           /\ c \in Values /\ c # Absent /\ c.serial \in Nat /\ c.gen \in Gens
<1>1. c.conn \in Nat /\ c.leaf \in Nat /\ c.token \in Nat /\ c.serial \in Nat /\ c.gen \in Gens
  BY DEF Configs
<1>2. \A n \in Data : c[n] \in Nat
  BY <1>1 DEF Data
<1> QED BY <1>1, <1>2, FilesAssumption DEF Values

\* A configuration c without any trace of a seal.
Plain(k, c) ==
    /\ k["seal"] = Absent /\ \A b \in Backups : k[b] = Absent
    /\ k["config"] = c /\ k["complete"] = c /\ Loads(k)
\* The files of L take k from configuration c to configuration next.
Replaces(k, L, c, next) ==
    /\ Len(L) \in Nat /\ DOMAIN L = 1..Len(L)
    /\ \A i \in 1..Len(L) : L[i][1] \in Listed(c) /\ L[i][2] = next[L[i][1]]
    /\ \A n \in Listed(next) : k[n] = next[n] \/ \E i \in 1..Len(L) : L[i][1] = n
    /\ next.serial # c.serial
Sealable(s, k, L, c, next) ==
    /\ Apt(k, s) /\ Plain(k, c) /\ Replaces(k, L, c, next)
    /\ c \in Configs /\ next \in Configs /\ Selects(k, s, c) /\ Selects(k, s, next)

\* The backups are written: the old configuration is whole.
Saving(m, k, c) ==
    /\ m \in Maps /\ m["seal"] = Absent /\ m["config"] = c /\ m["complete"] = c
    /\ m["config.bak"] \in {Absent, c}
    /\ \A n \in Data : m[n] = k[n] /\ m[Backup(n)] \in Nat \cup {Absent}
    /\ \A x \in Names \ Own : m[x] = k[x]
\* The files are replaced, then the configuration: the old one is restored.
Replacing(m, k, c, next) ==
    /\ m \in Maps /\ m["seal"] \in {"files", "committing"}
    /\ m["config"] \in {c, next} /\ m["complete"] = c /\ m["config.bak"] = c
    /\ m["seal"] = "files" => m["config"] = c
    /\ \A n \in Data : m[Backup(n)] # Absent => n \in Listed(c) /\ m[Backup(n)] = c[n]
    /\ \A n \in Data : m[n] = k[n] \/ (m[Backup(n)] # Absent /\ m[n] \in Nat)
    /\ \A x \in Names \ Own : m[x] = k[x]
\* The seal is recomputed: the new configuration is whole.
Switched(m, k, c, next) ==
    /\ m \in Maps /\ m["seal"] = "committing"
    /\ m["config"] = next /\ m["complete"] = next /\ m["config.bak"] = c /\ Loads(m)
    /\ \A n \in Data : m[n] \in Nat \cup {Absent} /\ m[Backup(n)] \in Nat \cup {Absent}
    /\ \A x \in Names \ Own : m[x] = k[x]

\* Files of which only the home's own differ from k.
LEMMA OwnTyped ==
    ASSUME NEW m \in Maps, NEW k, Typed(k), \A x \in Names \ Own : m[x] = k[x],
           m["config"] \in Configs, m["complete"] \in Configs,
           m["seal"] \in {Absent, "files", "committing"}, m["config.bak"] \in Configs \cup {Absent},
           \A n \in Data : m[n] \in Nat \cup {Absent} /\ m[Backup(n)] \in Nat \cup {Absent}
    PROVE  Typed(m) /\ Kin(m, k)
<1>1. ASSUME NEW n \in Records
      PROVE  m[n] \in Plans \cup {Absent} /\ m[Stage(n)] \in Plans \cup {Absent} /\ m[n] = k[n]
  <2>1. n \in Names \ Own /\ Stage(n) \in Names \ Own
    BY StagesNamed
  <2> QED BY <2>1 DEF Typed
<1>2. Whole(m)
  BY MapFacts
<1> QED BY <1>1, <1>2 DEF Typed, Kin, Whole
LEMMA SavingApt ==
    ASSUME NEW s, NEW k, NEW L, NEW c, NEW next, Sealable(s, k, L, c, next),
           NEW m, Saving(m, k, c)
    PROVE  Apt(m, s)
<1>1. Apt(k, s) /\ Typed(k) /\ Plain(k, c) /\ c \in Configs /\ Selects(k, s, c)
  BY AptMap DEF Sealable
<1>2. \A n \in Data : k[n] \in Nat \cup {Absent}
  BY <1>1 DEF Typed
<1>3. Typed(m) /\ Kin(m, k)
  BY <1>1, <1>2, OwnTyped DEF Saving
<1>4. Loads(m)
  BY <1>1, BackupsNamed DEF Plain, Loads, Saving
<1>5. ~Restores(m) /\ Recoverable(m) /\ Base(m) = c
  BY <1>4 DEF Restores, Recoverable, Base, Saving
<1>6. Backing(k, s.box, c)
  BY <1>1 DEF Selects
<1> QED BY <1>1, <1>3, <1>5, <1>6, AptKin DEF Saving
LEMMA ReplacingApt ==
    ASSUME NEW s, NEW k, NEW L, NEW c, NEW next, Sealable(s, k, L, c, next),
           NEW m, Replacing(m, k, c, next)
    PROVE  Apt(m, s)
<1>1. /\ Apt(k, s) /\ Typed(k) /\ Plain(k, c) /\ c \in Configs /\ Selects(k, s, c)
      /\ next \in Configs /\ Selects(k, s, next) /\ next.serial # c.serial
  BY AptMap DEF Sealable, Replaces
<1>2. \A n \in Data : m[n] \in Nat \cup {Absent} /\ m[Backup(n)] \in Nat \cup {Absent}
  <2>1. \A n \in Data : c[n] \in Nat
    BY <1>1, ConfigFacts
  <2> QED BY <1>1, <2>1 DEF Typed, Replacing
<1>3. Typed(m) /\ Kin(m, k)
  BY <1>1, <1>2, OwnTyped DEF Replacing
<1>4. c # Absent /\ next # c
  BY <1>1, ConfigFacts
<1>5. Restores(m)
  <2>1. m["seal"] # Absent
    BY FilesAssumption DEF Replacing
  <2>2. MustRestore(m)
    BY <1>4 DEF MustRestore, Sealed, Replacing
  <2> QED BY <2>1, <2>2 DEF Restores
<1>6. Saved(m)
  <2>1. \A n \in Listed(c) : m[n] = c[n] \/ m[Backup(n)] # Absent
    <3>1. \A n \in Listed(c) : k[n] = c[n] /\ n \in Data
      BY <1>1, BackupsNamed DEF Plain, Loads
    <3> QED BY <3>1 DEF Replacing
  <2> QED BY <1>4, <2>1 DEF Saved, Replacing
<1>7. Recoverable(m) /\ Base(m) = c
  BY <1>5, <1>6 DEF Recoverable, Base, Replacing
<1>8. Backing(k, s.box, c) /\ Backing(k, s.box, next)
  BY <1>1 DEF Selects
<1> QED BY <1>1, <1>3, <1>7, <1>8, AptKin DEF Replacing
LEMMA SwitchedApt ==
    ASSUME NEW s, NEW k, NEW L, NEW c, NEW next, Sealable(s, k, L, c, next),
           NEW m, Switched(m, k, c, next)
    PROVE  Apt(m, s) /\ Kin(m, k)
<1>1. /\ Apt(k, s) /\ Typed(k) /\ c \in Configs /\ Selects(k, s, c)
      /\ next \in Configs /\ Selects(k, s, next) /\ next.serial # c.serial
  BY AptMap DEF Sealable, Replaces
<1>2. Typed(m) /\ Kin(m, k)
  BY <1>1, OwnTyped DEF Switched
<1>3. c # Absent /\ next # c /\ next # Absent
  BY <1>1, ConfigFacts
<1>4. ~Restores(m)
  BY <1>3 DEF Restores, MustRestore, Sealed, Switched
<1>5. Recoverable(m) /\ Base(m) = next
  BY <1>3, <1>4 DEF Recoverable, Base, Switched
<1>6. Backing(k, s.box, c) /\ Backing(k, s.box, next)
  BY <1>1 DEF Selects
<1> QED BY <1>1, <1>2, <1>5, <1>6, AptKin DEF Switched

\* The backups and the marker are written.
Ready(m, k, L, c, next) ==
    /\ Replacing(m, k, c, next) /\ m["config"] = c
    /\ \A n \in Data : m[n] = k[n]
    /\ \A i \in 1..Len(L) : m[Backup(L[i][1])] # Absent
BeginsTo(s, k, L, c, next, t) ==
    Turns(s, begin_seal(k, L), t, t.dir.vis) /\ Ready(t.dir.vis, k, L, c, next)
LEMMA OneRewrite ==
    ASSUME NEW s, Good(s), NEW n \in Names, NEW v \in Values, NEW q, SameBooks(s, q),
           NEW m, m = After(s.dir.vis, put(n, v)), Apt(m, q)
    PROVE  \E t : Turns(s, rewrite(n, v), t, m)
<1>1. Apt(m, s)
  BY DEF Apt, SameBooks
<1> QED BY <1>1, TurnsRewrite
LEMMA PutMap ==
    ASSUME NEW m \in Maps, NEW n \in Names, NEW v \in Values, NEW w, w = After(m, put(n, v))
    PROVE  w \in Maps /\ w[n] = v /\ \A x \in Names \ {n} : w[x] = m[x]
<1>1. Whole(m) /\ After(m, put(n, v)) \in Maps
  BY MapFacts
<1> QED BY <1>1, PutFacts
LEMMA BeginRun ==
    ASSUME NEW s, Good(s), NEW k, k = s.dir.vis, NEW L, NEW c, NEW next,
           Sealable(s, k, L, c, next)
    PROVE  \E t : BeginsTo(s, k, L, c, next, t)
<1> DEFINE B == saved(k, L)
<1>0. k \in Maps /\ Typed(k) /\ Plain(k, c) /\ c \in Configs /\ c # Absent /\ c \in Values
  BY AptMap, ConfigFacts DEF Sealable
<1>1. /\ Len(L) \in Nat /\ \A i \in 1..Len(L) : L[i][1] \in Listed(c) /\ L[i][1] \in Data
      /\ \A n \in Data : n \in Listed(c) => k[n] = c[n] /\ k[n] \in Nat
      /\ \A n \in Data : k[n] \in Nat \cup {Absent} /\ k[Backup(n)] = Absent
  <2>1. \A n \in Listed(c) : n \in Data /\ k[n] = c[n]
    BY <1>0, BackupsNamed DEF Plain, Loads
  <2>2. \A n \in Data : c[n] \in Nat
    BY <1>0, ConfigFacts
  <2>3. \A n \in Data : k[n] \in Nat \cup {Absent} /\ k[Backup(n)] = Absent
    BY <1>0, BackupsNamed DEF Typed, Plain
  <2> QED BY <2>1, <2>2, <2>3 DEF Sealable, Replaces
\* The configuration is backed up.
<1> DEFINE m1 == After(k, put("config.bak", c))
<1>2. m1 \in Maps /\ m1["config.bak"] = c /\ \A x \in Names \ {"config.bak"} : m1[x] = k[x]
  <2>1. m1 = After(k, put("config.bak", c)) /\ "config.bak" \in Names
    BY OwnNamed
  <2> HIDE DEF m1
  <2> QED BY <1>0, <2>1, PutMap
<1> HIDE DEF m1
<1>3. Saving(m1, k, c)
  <2>1. \A n \in Data : n \in Names /\ n # "config.bak" /\ Backup(n) \in Names /\ Backup(n) # "config.bak"
    BY OwnNamed, BackupsNamed
  <2> QED BY <1>0, <1>1, <1>2, <2>1, OwnNamed DEF Saving, Plain
<1>4. PICK t1 : Turns(s, rewrite("config.bak", c), t1, m1)
  <2>1. Apt(m1, s) /\ SameBooks(s, s)
    BY <1>3, SavingApt DEF SameBooks
  <2>2. m1 = After(s.dir.vis, put("config.bak", c))
    BY DEF m1
  <2> QED BY <1>0, <2>1, <2>2, OwnNamed, OneRewrite
<1>5. Good(t1) /\ SameBooks(t1, s) /\ t1.dir.vis = m1
  BY <1>4, Leading DEF Turns
\* Then the files that will be replaced.
<1>6. Len(B) = Len(L) /\ \A i \in 1..Len(L) : B[i][1] = Backup(L[i][1]) /\ B[i][2] = k[L[i][1]]
  <2> DEFINE f == [i \in DOMAIN L |-> <<Backup(L[i][1]), k[L[i][1]]>>]
  <2>1. B = f
    BY DEF saved
  <2>2. DOMAIN L = 1..Len(L)
    BY DEF Sealable, Replaces
  <2>3. f = [i \in 1..Len(L) |-> f[i]] /\ \A i \in 1..Len(L) : f[i] = <<Backup(L[i][1]), k[L[i][1]]>>
    BY <2>2
  <2> HIDE DEF f
  <2>4. Len(f) = Len(L)
    <3>1. \A i \in 1..Len(L) : f[i] \in {f[j] : j \in 1..Len(L)}
      OBVIOUS
    <3> QED BY <1>1, <2>3, <3>1, Sequenced
  <2> QED BY <2>1, <2>3, <2>4
<1> HIDE DEF B
<1>7. Pairs(B)
  <2>1. \A n \in Data : Backup(n) \in Names /\ (n \in Listed(c) => k[n] \in Values)
    BY <1>1, OwnNamed, BackupsNamed DEF Values
  <2>2. \A n, h \in Data : Backup(n) = Backup(h) => n = h
    BY BackupsNamed
  <2>3. Len(L) \in Nat /\ \A i \in 1..Len(L) : L[i][1] \in Data /\ L[i][1] \in Listed(c)
    BY <1>1
  <2>4. \A i \in 1..Len(B) : B[i][1] \in Names /\ B[i][2] \in Values
    BY <1>6, <2>1, <2>3
  <2>5. ASSUME NEW i \in 1..Len(B), NEW j \in 1..Len(B), B[i][1] = B[j][1] PROVE B[i][2] = B[j][2]
    <3>1. L[i][1] = L[j][1]
      BY <1>6, <2>2, <2>3, <2>5
    <3> QED BY <1>6, <3>1
  <2> QED BY <1>6, <2>3, <2>4, <2>5 DEF Pairs
<1>8. ASSUME NEW n \in 0..Len(B), NEW m, Rewritten(m, m1, B, n) PROVE Saving(m, k, c)
  <2>1. m \in Maps /\ \A i \in 1..n : i \in 1..Len(L) /\ m[B[i][1]] = B[i][2]
    BY <1>1, <1>6, <1>8 DEF Rewritten
  <2>2. ASSUME NEW x \in Names
        PROVE  m[x] = m1[x] \/ (\E h \in Data : x = Backup(h) /\ m[x] = k[h] /\ h \in Listed(c))
    <3>1. CASE \E i \in 1..n : x = B[i][1]
      <4>1. PICK i \in 1..n : x = B[i][1]
        BY <3>1
      <4>2. x = Backup(L[i][1]) /\ m[x] = k[L[i][1]] /\ L[i][1] \in Data /\ L[i][1] \in Listed(c)
        BY <4>1, <2>1, <1>1, <1>6
      <4> QED BY <4>2
    <3>2. CASE ~\E i \in 1..n : x = B[i][1]
      BY <3>2, <1>8 DEF Rewritten
    <3> QED BY <3>1, <3>2
  <2>3. \A x \in Names : (\A h \in Data : x # Backup(h)) => m[x] = m1[x]
    BY <2>2
  <2>4. \A h \in Data : Backup(h) \in Backups /\ Backup(h) # "config.bak"
    BY BackupsNamed
  <2>5. \A x \in {"config", "complete", "seal", "config.bak"} : m[x] = m1[x]
    BY <2>3, <2>4, OwnNamed
  <2>6. \A x \in Data : m[x] = m1[x]
    BY <2>3, <2>4, OwnNamed
  <2>7. \A x \in Names \ Own : m[x] = m1[x]
    BY <2>3, <2>4, OwnNamed
  <2>8. \A h \in Data : m[Backup(h)] \in Nat \cup {Absent}
    <3>1. ASSUME NEW h \in Data PROVE m[Backup(h)] \in Nat \cup {Absent}
      <4>1. Backup(h) \in Names
        BY <2>4, OwnNamed
      <4>2. m[Backup(h)] = m1[Backup(h)] \/ \E d \in Data : m[Backup(h)] = k[d]
        BY <2>2, <4>1
      <4> QED BY <4>2, <1>1, <1>3 DEF Saving
    <3> QED BY <3>1
  <2> QED BY <2>1, <2>5, <2>6, <2>7, <2>8, <1>3 DEF Saving
<1>9. Rewritable(t1, m1, B)
  BY <1>5, <1>8, SavingApt, SameApt DEF Rewritable
<1>10. PICK t2 : RewritesTo(t1, m1, B, t2)
  <2>1. Good(t1) /\ m1 = t1.dir.vis /\ m1 \in Maps /\ Pairs(B) /\ Rewritable(t1, m1, B)
    BY <1>2, <1>5, <1>7, <1>9
  <2> QED BY ONLY <2>1, RewritesRun
<1> DEFINE m2 == t2.dir.vis
<1>11. Good(t2) /\ SameBooks(t2, s) /\ Turns(t1, rewrites(B), t2, m2)
  BY <1>5, <1>10, Leading DEF RewritesTo, Turns, SameBooks
<1>12. Saving(m2, k, c) /\ m2["config.bak"] = c
  <2>1. Rewritten(m2, m1, B, Len(B)) /\ Len(B) \in 0..Len(B)
    BY <1>1, <1>6, <1>10 DEF RewritesTo
  <2>2. \A i \in 1..Len(B) : B[i][1] # "config.bak"
    BY <1>1, <1>6, BackupsNamed
  <2>3. m2["config.bak"] = m1["config.bak"]
    BY <2>1, <2>2, OwnNamed DEF Rewritten
  <2> QED BY <2>1, <2>3, <1>2, <1>8
<1>13. \A n \in Data : \/ m2[Backup(n)] = Absent /\ \A i \in 1..Len(L) : L[i][1] # n
                       \/ n \in Listed(c) /\ m2[Backup(n)] = c[n] /\ c[n] # Absent
  <2> SUFFICES ASSUME NEW n \in Data
               PROVE  \/ m2[Backup(n)] = Absent /\ \A i \in 1..Len(L) : L[i][1] # n
                      \/ n \in Listed(c) /\ m2[Backup(n)] = c[n] /\ c[n] # Absent
    OBVIOUS
  <2>1. Rewritten(m2, m1, B, Len(B))
    BY <1>10 DEF RewritesTo
  <2>2. Backup(n) \in Names /\ Backup(n) # "config.bak"
    BY OwnNamed, BackupsNamed
  <2>3. CASE \E i \in 1..Len(L) : L[i][1] = n
    <3>1. PICK i \in 1..Len(L) : L[i][1] = n
      BY <2>3
    <3>2. m2[B[i][1]] = B[i][2]
      BY <2>1, <1>6 DEF Rewritten
    <3>3. m2[Backup(n)] = k[n] /\ n \in Listed(c)
      BY <3>1, <3>2, <1>1, <1>6
    <3> QED BY <3>3, <1>1, FilesAssumption
  <2>4. CASE \A i \in 1..Len(L) : L[i][1] # n
    <3>1. \A i \in 1..Len(B) : B[i][1] # Backup(n)
      BY <2>4, <1>1, <1>6, BackupsNamed
    <3>2. m2[Backup(n)] = m1[Backup(n)]
      BY <2>1, <2>2, <3>1 DEF Rewritten
    <3>3. m2[Backup(n)] = Absent
      BY <3>2, <2>2, <1>1, <1>2
    <3> QED BY <2>4, <3>3
  <2> QED BY <2>3, <2>4
\* Then the marker.
<1> HIDE DEF m2
<1> DEFINE m3 == After(m2, put("seal", "files"))
<1>14. m3 \in Maps /\ m3["seal"] = "files" /\ \A x \in Names \ {"seal"} : m3[x] = m2[x]
  <2>1. m2 \in Maps /\ "seal" \in Names /\ "files" \in Values
    BY <1>12, OwnNamed DEF Saving, Values
  <2>2. m3 = After(m2, put("seal", "files"))
    OBVIOUS
  <2> HIDE DEF m3
  <2> QED BY <2>1, <2>2, PutMap
<1> HIDE DEF m3
<1>15. Ready(m3, k, L, c, next)
  <2>1. \A n \in Data : n \in Names /\ n # "seal" /\ Backup(n) \in Names /\ Backup(n) # "seal"
    BY OwnNamed, BackupsNamed
  <2>2. \A n \in Data : m3[n] = k[n] /\ m3[Backup(n)] = m2[Backup(n)]
    BY <2>1, <1>12, <1>14 DEF Saving
  <2>3. m3["config"] = c /\ m3["complete"] = c /\ m3["config.bak"] = c
    BY <1>12, <1>14, OwnNamed DEF Saving
  <2>4. \A x \in Names \ Own : m3[x] = k[x]
    BY <1>12, <1>14, OwnNamed DEF Saving
  <2>5. \A i \in 1..Len(L) : m3[Backup(L[i][1])] # Absent
    BY <1>1, <1>13, <2>2
  <2> QED BY <1>13, <1>14, <2>2, <2>3, <2>4, <2>5 DEF Ready, Replacing
<1>16. PICK t3 : Turns(t2, rewrite("seal", "files"), t3, m3)
  <2>1. Apt(m3, s) /\ m3 = After(t2.dir.vis, put("seal", "files"))
    BY <1>15, ReplacingApt DEF Ready, m3, m2
  <2>2. "seal" \in Names /\ "files" \in Values
    BY OwnNamed DEF Values
  <2> QED BY <1>11, <2>1, <2>2, OneRewrite
<1>17. Turns(s, begin_seal(k, L), t3, m3)
  <2>1. begin_seal(k, L) = rewrite("config.bak", c) \o rewrites(B) \o rewrite("seal", "files")
    BY <1>0 DEF begin_seal, B, Plain
  <2>2. Turns(s, rewrite("config.bak", c) \o rewrites(B), t2, m2)
    BY <1>4, <1>11, TurnsThen
  <2>3. Turns(s, (rewrite("config.bak", c) \o rewrites(B)) \o rewrite("seal", "files"), t3, m3)
    BY <2>2, <1>16, TurnsThen
  <2> QED BY <2>1, <2>3
<1>18. t3.dir.vis = m3
  BY <1>17 DEF Turns
<1> QED BY <1>15, <1>17, <1>18 DEF BeginsTo

\* The files are replaced.
Replaced(m, k, L, c, next) ==
    /\ Replacing(m, k, c, next) /\ m["config"] = c /\ m["seal"] = "committing"
    /\ \A i \in 1..Len(L) : m[L[i][1]] = L[i][2]
    /\ \A n \in Data : (\A i \in 1..Len(L) : L[i][1] # n) => m[n] = k[n]
ReplacesTo(s, k, L, c, next, t) ==
    Turns(s, seal_files(L), t, t.dir.vis) /\ Replaced(t.dir.vis, k, L, c, next)
LEMMA ReplaceRun ==
    ASSUME NEW s, Good(s), NEW k, NEW L, NEW c, NEW next, Sealable(s, k, L, c, next),
           Ready(s.dir.vis, k, L, c, next)
    PROVE  \E t : ReplacesTo(s, k, L, c, next, t)
<1> DEFINE m0 == s.dir.vis
<1>0. c \in Configs /\ next \in Configs /\ m0 \in Maps /\ Replacing(m0, k, c, next)
  BY DEF Sealable, Ready, Replacing
<1>1. /\ Len(L) \in Nat
      /\ \A i \in 1..Len(L) : /\ L[i][1] \in Data /\ L[i][1] \in Names /\ L[i][2] = next[L[i][1]]
                              /\ L[i][2] \in Nat /\ m0[Backup(L[i][1])] # Absent
  <2>1. \A n \in Listed(c) : n \in Data /\ n \in Names /\ next[n] \in Nat
    BY <1>0, ConfigFacts, BackupsNamed, OwnNamed
  <2> QED BY <2>1 DEF Sealable, Replaces, Ready
<1>2. Pairs(L)
  BY <1>1 DEF Pairs, Values
<1> HIDE DEF m0
<1>3. ASSUME NEW n \in 0..Len(L), NEW m, Rewritten(m, m0, L, n)
      PROVE  Replacing(m, k, c, next) /\ m["config"] = c
  <2>1. m \in Maps /\ \A i \in 1..n : i \in 1..Len(L) /\ m[L[i][1]] = L[i][2]
    BY <1>1, <1>3 DEF Rewritten
  <2>2. ASSUME NEW x \in Names
        PROVE  m[x] = m0[x] \/ (x \in Data /\ m[x] \in Nat /\ m0[Backup(x)] # Absent)
    <3>1. CASE \E i \in 1..n : x = L[i][1]
      BY <3>1, <2>1, <1>1
    <3>2. CASE ~\E i \in 1..n : x = L[i][1]
      BY <3>2, <1>3 DEF Rewritten
    <3> QED BY <3>1, <3>2
  <2>3. \A x \in Names : x \notin Data => m[x] = m0[x]
    BY <2>2
  <2>4. \A x \in {"config", "complete", "seal", "config.bak"} : m[x] = m0[x]
    BY <2>3, OwnNamed
  <2>5. \A h \in Data : m[Backup(h)] = m0[Backup(h)]
    BY <2>3, OwnNamed, BackupsNamed
  <2>6. \A x \in Names \ Own : m[x] = k[x]
    BY <2>3, <1>0, OwnNamed DEF Replacing
  <2>7. \A h \in Data : m[h] = k[h] \/ (m[Backup(h)] # Absent /\ m[h] \in Nat)
    BY <2>2, <2>5, <1>0, OwnNamed DEF Replacing
  <2>8. m0["config"] = c
    BY DEF Ready, m0
  <2> QED BY <2>1, <2>4, <2>5, <2>6, <2>7, <2>8, <1>0 DEF Replacing
<1>4. Rewritable(s, m0, L)
  BY <1>3, ReplacingApt DEF Rewritable
<1>5. PICK t1 : RewritesTo(s, m0, L, t1)
  <2>1. Good(s) /\ m0 = s.dir.vis /\ m0 \in Maps /\ Pairs(L) /\ Rewritable(s, m0, L)
    BY <1>0, <1>2, <1>4 DEF m0
  <2> QED BY ONLY <2>1, RewritesRun
<1> DEFINE m1 == t1.dir.vis
<1>6. Good(t1) /\ SameBooks(t1, s) /\ Turns(s, rewrites(L), t1, m1)
  BY <1>5, Leading DEF RewritesTo, Turns
<1>7. /\ Replacing(m1, k, c, next) /\ m1["config"] = c
      /\ \A i \in 1..Len(L) : m1[L[i][1]] = L[i][2]
      /\ \A n \in Data : (\A i \in 1..Len(L) : L[i][1] # n) => m1[n] = k[n]
  <2>1. Rewritten(m1, m0, L, Len(L)) /\ Len(L) \in 0..Len(L)
    BY <1>1, <1>5 DEF RewritesTo
  <2>2. Replacing(m1, k, c, next) /\ m1["config"] = c
    BY <2>1, <1>3
  <2>3. \A n \in Data : m0[n] = k[n] /\ n \in Names
    BY OwnNamed DEF Ready, m0
  <2> QED BY <2>1, <2>2, <2>3 DEF Rewritten
<1> HIDE DEF m1
<1> DEFINE m == After(m1, put("seal", "committing"))
<1>8. m \in Maps /\ m["seal"] = "committing" /\ \A x \in Names \ {"seal"} : m[x] = m1[x]
  <2>1. m1 \in Maps /\ "seal" \in Names /\ "committing" \in Values
    BY <1>7, OwnNamed DEF Replacing, Values
  <2>2. m = After(m1, put("seal", "committing"))
    OBVIOUS
  <2> HIDE DEF m
  <2> QED BY <2>1, <2>2, PutMap
<1> HIDE DEF m
<1>9. Replaced(m, k, L, c, next)
  <2>1. \A n \in Data : n \in Names /\ n # "seal" /\ Backup(n) \in Names /\ Backup(n) # "seal"
    BY OwnNamed, BackupsNamed
  <2>2. \A n \in Data : m[n] = m1[n] /\ m[Backup(n)] = m1[Backup(n)]
    BY <2>1, <1>8
  <2>3. m["config"] = c /\ m["complete"] = c /\ m["config.bak"] = c
    BY <1>7, <1>8, OwnNamed DEF Replacing
  <2>4. \A x \in Names \ Own : m[x] = k[x]
    BY <1>7, <1>8, OwnNamed DEF Replacing
  <2>5. Replacing(m, k, c, next)
    BY <1>7, <1>8, <2>2, <2>3, <2>4 DEF Replacing
  <2> QED BY <1>1, <1>7, <1>8, <2>2, <2>3, <2>5 DEF Replaced
<1>10. PICK t : Turns(t1, rewrite("seal", "committing"), t, m)
  <2>1. Apt(m, s) /\ m = After(t1.dir.vis, put("seal", "committing"))
    BY <1>9, ReplacingApt DEF Replaced, m, m1
  <2>2. "seal" \in Names /\ "committing" \in Values
    BY OwnNamed DEF Values
  <2> QED BY <1>6, <2>1, <2>2, OneRewrite
<1>11. Turns(s, seal_files(L), t, m)
  <2>1. seal_files(L) = rewrites(L) \o rewrite("seal", "committing")
    BY DEF seal_files
  <2> QED BY <2>1, <1>6, <1>10, TurnsThen
<1>12. t.dir.vis = m
  BY <1>11 DEF Turns
<1> QED BY <1>9, <1>11, <1>12 DEF ReplacesTo

\* The configuration, its seal, and the scratch goes.
CommitsTo(s, k, c, order, t) ==
    /\ Turns(s, commit_seal(s.dir.vis, c, order), t, t.dir.vis)
    /\ Tidy(t.dir.vis, k, c) /\ t.dir.disk = {t.dir.vis}
LEMMA CommitRun ==
    ASSUME NEW s, Good(s), NEW k, NEW L, NEW c, NEW next, Sealable(s, k, L, c, next),
           Replaced(s.dir.vis, k, L, c, next), NEW order \in Orders
    PROVE  \E t : CommitsTo(s, k, next, order, t)
<1> DEFINE m0 == s.dir.vis
<1>0. /\ c \in Configs /\ next \in Configs /\ next # Absent /\ next \in Values
      /\ m0 \in Maps /\ Replacing(m0, k, c, next) /\ "config" \in Names /\ "complete" \in Names
  BY ConfigFacts, OwnNamed DEF Sealable, Replaced, Replacing
<1> DEFINE m1 == After(m0, put("config", next))
<1>1. m1 \in Maps /\ m1["config"] = next /\ \A x \in Names \ {"config"} : m1[x] = m0[x]
  <2>1. m1 = After(m0, put("config", next))
    OBVIOUS
  <2> HIDE DEF m1, m0
  <2> QED BY <1>0, <2>1, PutMap
<1> HIDE DEF m1
<1>2. Replacing(m1, k, c, next)
  <2>1. \A n \in Data : n \in Names /\ n # "config" /\ Backup(n) \in Names /\ Backup(n) # "config"
    BY OwnNamed, BackupsNamed
  <2>2. \A n \in Data : m1[n] = m0[n] /\ m1[Backup(n)] = m0[Backup(n)]
    BY <2>1, <1>1
  <2>3. m1["seal"] = "committing" /\ m1["complete"] = c /\ m1["config.bak"] = c
    BY <1>1, <1>0, OwnNamed DEF Replaced, Replacing
  <2>4. \A x \in Names \ Own : m1[x] = k[x]
    BY <1>0, <1>1, OwnNamed DEF Replacing
  <2> QED BY <1>0, <1>1, <2>2, <2>3, <2>4 DEF Replacing
<1>3. PICK t1 : Turns(s, rewrite("config", next), t1, m1)
  <2>1. Apt(m1, s) /\ SameBooks(s, s)
    BY <1>2, ReplacingApt DEF SameBooks
  <2>2. m1 = After(s.dir.vis, put("config", next))
    BY DEF m1
  <2> QED BY <1>0, <2>1, <2>2, OneRewrite
<1>4. Good(t1) /\ SameBooks(t1, s) /\ t1.dir.vis = m1
  BY <1>3, Leading DEF Turns
<1> DEFINE m2 == After(m1, put("complete", next))
<1>5. m2 \in Maps /\ m2["complete"] = next /\ \A x \in Names \ {"complete"} : m2[x] = m1[x]
  <2>1. m2 = After(m1, put("complete", next))
    OBVIOUS
  <2> HIDE DEF m2
  <2> QED BY <1>0, <1>1, <2>1, PutMap
<1> HIDE DEF m2
<1>6. Switched(m2, k, c, next)
  <2>1. \A n \in Data : /\ n \in Names \ {"config", "complete"}
                        /\ Backup(n) \in Names \ {"config", "complete"}
    BY OwnNamed, BackupsNamed
  <2>2. \A n \in Data : m2[n] = m0[n] /\ m2[Backup(n)] = m0[Backup(n)]
    BY <2>1, <1>1, <1>5
  <2>3. m2["seal"] = "committing" /\ m2["config"] = next /\ m2["config.bak"] = c
    BY <1>0, <1>1, <1>5, OwnNamed DEF Replaced, Replacing
  <2>4. \A x \in Names \ Own : m2[x] = k[x]
    BY <1>0, <1>1, <1>5, OwnNamed DEF Replacing
  <2>5. \A n \in Data : m0[n] \in Nat \cup {Absent} /\ m0[Backup(n)] \in Nat \cup {Absent}
    <3>1. Apt(m0, s)
      BY <1>0, ReplacingApt
    <3>2. Typed(m0)
      BY <3>1, AptMap
    <3> QED BY <3>2 DEF Typed
  <2>6. \A n \in Listed(next) : m0[n] = next[n]
    <3> SUFFICES ASSUME NEW n \in Listed(next) PROVE m0[n] = next[n]
      OBVIOUS
    <3>1. n \in Data
      BY BackupsNamed
    <3>2. CASE \E i \in 1..Len(L) : L[i][1] = n
      BY <3>2 DEF Sealable, Replaces, Replaced
    <3>3. CASE ~\E i \in 1..Len(L) : L[i][1] = n
      BY <3>1, <3>3 DEF Sealable, Replaces, Replaced
    <3> QED BY <3>2, <3>3
  <2>7. Loads(m2)
    BY <1>0, <1>5, <2>2, <2>3, <2>6, BackupsNamed DEF Loads
  <2> QED BY <1>5, <2>2, <2>3, <2>4, <2>5, <2>7 DEF Switched
<1>7. Apt(m2, s) /\ Kin(m2, k)
  BY <1>6, SwitchedApt
<1>8. PICK t2 : Turns(t1, rewrite("complete", next), t2, m2)
  <2>1. m2 = After(t1.dir.vis, put("complete", next))
    BY <1>4 DEF m2
  <2> QED BY <1>0, <1>4, <1>7, <2>1, OneRewrite
<1> DEFINE pair == rewrite("config", next) \o rewrite("complete", next)
<1>9. Turns(s, pair, t2, m2)
  BY <1>3, <1>8, TurnsThen
<1>10. Good(t2) /\ SameBooks(t2, s) /\ m2 = t2.dir.vis /\ Done(m0, pair) = m2
  BY <1>9, Leading, TurnsDone DEF Turns
<1>11. Loads(m2) /\ m2["config"] = next /\ m2["complete"] = next /\ \A x \in Names \ Own : m2[x] = k[x]
  BY <1>6 DEF Switched
<1>12. Selects(m2, t2, m2["config"])
  <2>1. Selects(k, s, next)
    BY DEF Sealable
  <2> QED BY <2>1, <1>7, <1>10, <1>11, KinFacts, SameApt
<1>13. PICK t : ScratchesTo(t2, m2, order, m2, t)
  <2>1. SameScratch(m2, m2) /\ order \in Orders
    BY DEF SameScratch
  <2> QED BY ONLY <1>10, <1>11, <1>12, <2>1, ScratchRun
<1>14. commit_seal(m0, next, order) = pair \o remove_seal_scratch(m2, order)
  BY <1>10 DEF commit_seal
<1>15. Turns(s, commit_seal(m0, next, order), t, t.dir.vis)
  <2>1. Turns(t2, remove_seal_scratch(m2, order), t, t.dir.vis)
    BY <1>13 DEF ScratchesTo
  <2> HIDE DEF pair
  <2> QED BY <1>9, <1>14, <2>1, TurnsThen
<1>16. Tidy(t.dir.vis, k, next)
  <2> DEFINE w == t.dir.vis
  <2>1. Scrubbed(w, m2)
    BY <1>13 DEF ScratchesTo
  <2>2. w["config"] = m2["config"] /\ w["complete"] = m2["complete"] /\ \A n \in Data : w[n] = m2[n]
    BY <2>1, OwnNamed DEF Scrubbed
  <2>3. \A x \in Names \ Own : w[x] = k[x]
    BY <2>1, <1>11, OwnNamed DEF Scrubbed
  <2>4. Loads(w)
    BY <1>11, <2>2, BackupsNamed DEF Loads
  <2> QED BY <1>11, <2>1, <2>2, <2>3, <2>4 DEF Scrubbed, Tidy
<1> QED BY <1>13, <1>15, <1>16 DEF CommitsTo, ScratchesTo

SealsTo(s, k, L, next, order, t) ==
    /\ Turns(s, Sealing(k, L, next, order), t, t.dir.vis)
    /\ Tidy(t.dir.vis, k, next) /\ t.dir.disk = {t.dir.vis}
LEMMA SealingRun ==
    ASSUME NEW s, Good(s), NEW k, k = s.dir.vis, NEW L, NEW c, NEW next,
           Sealable(s, k, L, c, next), NEW order \in Orders
    PROVE  \E t : SealsTo(s, k, L, next, order, t)
<1>1. PICK t1 : BeginsTo(s, k, L, c, next, t1)
  BY BeginRun
<1>2. Good(t1) /\ SameBooks(t1, s) /\ Turns(s, begin_seal(k, L), t1, t1.dir.vis)
  BY <1>1, Leading DEF BeginsTo, Turns
<1>3. Sealable(t1, k, L, c, next) /\ Ready(t1.dir.vis, k, L, c, next)
  BY <1>1, <1>2, SameApt DEF Sealable, BeginsTo
<1>4. PICK t2 : ReplacesTo(t1, k, L, c, next, t2)
  BY <1>2, <1>3, ReplaceRun
<1>5. Good(t2) /\ SameBooks(t2, t1) /\ Turns(t1, seal_files(L), t2, t2.dir.vis)
  BY <1>4, Leading DEF ReplacesTo, Turns
<1>6. Sealable(t2, k, L, c, next) /\ Replaced(t2.dir.vis, k, L, c, next)
  BY <1>3, <1>4, <1>5, SameApt DEF Sealable, ReplacesTo
<1>7. PICK t : CommitsTo(t2, k, next, order, t)
  BY <1>5, <1>6, CommitRun
<1> DEFINE begun == begin_seal(k, L) \o seal_files(L)
<1>8. Turns(s, begun, t2, t2.dir.vis)
  BY <1>2, <1>5, TurnsThen
<1>9. Done(k, begun) = t2.dir.vis
  BY <1>8, TurnsDone
<1>10. Sealing(k, L, next, order) = begun \o commit_seal(t2.dir.vis, next, order)
  BY <1>9 DEF Sealing
<1>11. Turns(s, Sealing(k, L, next, order), t, t.dir.vis)
  <2>1. Turns(t2, commit_seal(t2.dir.vis, next, order), t, t.dir.vis)
    BY <1>7 DEF CommitsTo
  <2> HIDE DEF begun
  <2> QED BY <1>8, <1>10, <2>1, TurnsThen
<1> QED BY <1>7, <1>11 DEF CommitsTo, SealsTo

-----------------------------------------------------------------------------
(* A command reports.                                                      *)

\* The one map that the disk may hold has the reported configuration.
LEMMA AckRun ==
    ASSUME NEW s, Good(s), s.dir.disk = {s.dir.vis}, NEW k, NEW c, c \in Configs,
           Tidy(s.dir.vis, k, c)
    PROVE  Leads(s, <<ack(c)>>, Effect(s, ack(c)))
<1> DEFINE m == s.dir.vis
           t == Effect(s, ack(c))
<1>1. ack(c) \in Operations /\ ack(c).op = "ack" /\ ack(c).value = c
  BY DEF ack, Operations
<1>2. t = State(s.dir, s.box, c.serial, s.lossy)
  BY <1>1 DEF Effect, DirAfter, BoxAfter
<1> HIDE DEF t
<1>3. t.dir = s.dir /\ t.box = s.box /\ t.acked = c.serial /\ t.lossy = s.lossy
  BY <1>2, StateFields
<1>4. Fine(m, s.box, s.acked)
  BY DEF Good
<1>5. ~Restores(m) /\ Base(m) = c
  BY DEF Tidy, Restores, Base
<1>6. Fine(m, s.box, c.serial)
  <2>1. c.serial >= c.serial
    BY ConfigFacts
  <2> QED BY <1>4, <1>5, <2>1 DEF Fine
<1>7. Good(t)
  <2>1. t = State(t.dir, t.box, t.acked, t.lossy)
    BY <1>2, <1>3
  <2>2. t.acked \in Nat
    BY <1>3, ConfigFacts
  <2>3. /\ s.dir = [vis |-> s.dir.vis, disk |-> s.dir.disk, dirty |-> {}]
        /\ s.dir.vis \in s.dir.disk /\ Boxes(s.box)
        /\ ~s.lossy => FencedLive(s.dir.vis, s.box)
    BY DEF Good
  <2> QED BY <1>3, <1>6, <2>1, <2>2, <2>3 DEF Good
<1> QED BY <1>1, <1>7, LeadsOne DEF t

-----------------------------------------------------------------------------
(* The records of a transition.                                            *)

Intent(g) == Record.intent[g + 1]
Receipts(g) == Record.receipts[g + 1]
FenceDoc(g) == Record.fence[g + 1]
Moving == 0..(MaxGen - 1)
LEMMA RecordsApart ==
    \A g \in Moving :
        /\ Intent(g) \in Records /\ Receipts(g) \in Records /\ FenceDoc(g) \in Records
        /\ Pending \notin {Intent(g), Receipts(g), FenceDoc(g)}
        /\ g \in Gens /\ g + 1 \in Gens
        /\ \A h \in Moving :
              /\ Intent(g) # Receipts(h) /\ Intent(g) # FenceDoc(h) /\ Receipts(g) # FenceDoc(h)
              /\ g # h => Intent(g) # Intent(h) /\ Receipts(g) # Receipts(h) /\ FenceDoc(g) # FenceDoc(h)
<1>1. \A g \in Moving : (g = 0 \/ g = 1) /\ g \in Gens /\ g + 1 \in Gens
  BY HostAssumption DEF Moving, Gens
<1>2. Pending = "generation.pending"
  BY DEF Pending
<1>3. \A g \in Moving : /\ Intent(g) \in Records /\ Receipts(g) \in Records /\ FenceDoc(g) \in Records
  BY RecordsNamed DEF Moving, Intent, Receipts, FenceDoc
<1>4. \A g \in Moving : /\ Intent(g) = IF g = 0 THEN "intent1" ELSE "intent2"
                        /\ Receipts(g) = IF g = 0 THEN "receipts1" ELSE "receipts2"
                        /\ FenceDoc(g) = IF g = 0 THEN "fence1" ELSE "fence2"
  BY <1>1, RecordsNamed DEF Moving, Intent, Receipts, FenceDoc
<1> QED BY <1>1, <1>2, <1>3, <1>4
LEMMA RecordedFacts ==
    ASSUME NEW m
    PROVE  Recorded(m) <=>
             /\ \A g \in Moving : m[Intent(g)] # Absent =>
                   m[Intent(g)].config.gen = g /\ m[Receipts(g)] = m[Intent(g)]
             /\ m[Pending] # Absent =>
                   m[Pending].config.gen \in Moving /\ m[Intent(m[Pending].config.gen)] = m[Pending]
BY DEF Recorded, Moving, Intent, Receipts
LEMMA EvidentFacts ==
    ASSUME NEW m, NEW b, NEW g
    PROVE  Evident(m, b, g) <=>
             /\ m[Intent(g)] # Absent /\ m[Receipts(g)] = m[Intent(g)] /\ m[FenceDoc(g)] = m[Intent(g)]
             /\ b[g].fence = m[Intent(g)] /\ b[g + 1].phase = "seeded"
BY DEF Evident, Intent, Receipts, FenceDoc

\* Files with the same configuration and other records.
LEMMA OwnSame ==
    ASSUME NEW m, NEW k, \A x \in Own : m[x] = k[x]
    PROVE  /\ Recoverable(k) => Recoverable(m)
           /\ Base(m) = Base(k) /\ (Loads(k) <=> Loads(m))
<1>1. /\ m["config"] = k["config"] /\ m["complete"] = k["complete"] /\ m["seal"] = k["seal"]
      /\ m["config.bak"] = k["config.bak"]
      /\ \A n \in Data : m[n] = k[n] /\ m[Backup(n)] = k[Backup(n)]
  BY OwnNamed, BackupsNamed
<1>2. \A c : \A n \in Listed(c) : m[n] = k[n] /\ m[Backup(n)] = k[Backup(n)]
  BY <1>1, BackupsNamed
<1>3. Restores(m) <=> Restores(k)
  BY <1>1 DEF Restores, MustRestore, Sealed
<1>4. Loads(k) <=> Loads(m)
  BY <1>1, <1>2 DEF Loads
<1>5. Saved(k) => Saved(m)
  BY <1>1, <1>2 DEF Saved
<1> QED BY <1>1, <1>3, <1>4, <1>5 DEF Recoverable, Base
LEMMA RecordApt ==
    ASSUME NEW s, NEW k, Apt(k, s), NEW m, Typed(m), \A x \in Own : m[x] = k[x], Recorded(m),
           \A g \in Moving : Evident(k, s.box, g) => Evident(m, s.box, g),
           ~s.lossy => Waits(m, s.box, Base(k))
    PROVE  Apt(m, s)
<1>1. /\ Recoverable(k) /\ Selects(k, s, Base(k)) /\ Backing(k, s.box, k["config"])
      /\ k["config.bak"] # Absent => Backing(k, s.box, k["config.bak"])
  BY AptGives
<1>2. Recoverable(m) /\ Base(m) = Base(k)
  BY <1>1, OwnSame
<1>3. \A c : Backing(k, s.box, c) => Backing(m, s.box, c)
  BY DEF Backing, Moving
<1>4. m["config"] = k["config"] /\ m["config.bak"] = k["config.bak"]
  BY OwnNamed
<1>5. Backed(m, s.box)
  BY <1>1, <1>3, <1>4 DEF Backed, Backing
<1>6. ~s.lossy => FencedLive(m, s.box)
  BY <1>2 DEF Waits, FencedLive
<1> QED BY <1>1, <1>2, <1>5, <1>6 DEF Apt, Fine, Selects

\* m is k with the record n, the rest of the home as it was.
Noted(m, k, n, v) ==
    /\ m \in Maps /\ m[n] = v
    /\ \A x \in Names \ {n, Stage(n)} : m[x] = k[x]
    /\ m[Stage(n)] \in Plans \cup {Absent}
LEMMA NotedFacts ==
    ASSUME NEW k, Typed(k), NEW n \in Records, NEW v \in Plans \cup {Absent}, NEW m, Noted(m, k, n, v)
    PROVE  /\ Typed(m) /\ m[n] = v
           /\ \A x \in Own : m[x] = k[x]
           /\ \A r \in Records \ {n} : m[r] = k[r]
<1>1. n \in Names /\ n \notin Own /\ Stage(n) \in Names /\ Stage(n) \notin Own /\ Stage(n) \notin Records
  BY StagesNamed
<1>2. TypeOf(n) = Plans \cup {Absent} /\ TypeOf(Stage(n)) = Plans \cup {Absent}
  BY <1>1, OwnNamed DEF TypeOf, Own
<1>3. Typed(m)
  <2>1. \A x \in Names : m[x] = k[x] \/ m[x] \in TypeOf(x)
    BY <1>2 DEF Noted
  <2> QED BY <2>1, TypedLike DEF Noted
<1>4. \A x \in Own : m[x] = k[x]
  BY <1>1, OwnNamed DEF Noted
<1>5. \A r \in Records \ {n} : m[r] = k[r]
  BY <1>1, StagesNamed DEF Noted
<1> QED BY <1>3, <1>4, <1>5 DEF Noted

LEMMA ReceiptsApt ==
    ASSUME NEW s, NEW k, Apt(k, s), NEW g \in Moving, NEW plan \in Plans,
           k[Intent(g)] \in {Absent, plan}, NEW m, Noted(m, k, Receipts(g), plan)
    PROVE  Apt(m, s)
<1>1. Typed(k) /\ Recorded(k) /\ Selects(k, s, Base(k))
  BY AptGives
<1>2. Receipts(g) \in Records
  BY RecordsApart
<1>3. Typed(m) /\ (\A x \in Own : m[x] = k[x]) /\ m[Receipts(g)] = plan
      /\ \A r \in Records \ {Receipts(g)} : m[r] = k[r]
  BY <1>1, <1>2, NotedFacts
<1>4. /\ m[Pending] = k[Pending]
      /\ \A h \in Moving : m[Intent(h)] = k[Intent(h)] /\ m[FenceDoc(h)] = k[FenceDoc(h)]
      /\ \A h \in Moving : h # g => m[Receipts(h)] = k[Receipts(h)]
  BY <1>3, RecordsApart, RecordsNamed
<1>5. Recorded(m)
  BY <1>1, <1>3, <1>4, RecordedFacts
<1>6. \A h \in Moving : Evident(k, s.box, h) => Evident(m, s.box, h)
  BY <1>3, <1>4, EvidentFacts
<1>7. ~s.lossy => Waits(m, s.box, Base(k))
  BY <1>1, <1>4 DEF Selects, Waits
<1> QED BY <1>3, <1>5, <1>6, <1>7, RecordApt
LEMMA IntentApt ==
    ASSUME NEW s, NEW k, Apt(k, s), NEW g \in Moving, NEW plan \in Plans, plan.config.gen = g,
           k[Receipts(g)] = plan, k[Intent(g)] \in {Absent, plan}, NEW m, Noted(m, k, Intent(g), plan)
    PROVE  Apt(m, s)
<1>1. Typed(k) /\ Recorded(k) /\ Selects(k, s, Base(k))
  BY AptGives
<1>2. Intent(g) \in Records
  BY RecordsApart
<1>3. Typed(m) /\ (\A x \in Own : m[x] = k[x]) /\ m[Intent(g)] = plan
      /\ \A r \in Records \ {Intent(g)} : m[r] = k[r]
  BY <1>1, <1>2, NotedFacts
<1>4. /\ m[Pending] = k[Pending]
      /\ \A h \in Moving : m[Receipts(h)] = k[Receipts(h)] /\ m[FenceDoc(h)] = k[FenceDoc(h)]
      /\ \A h \in Moving : h # g => m[Intent(h)] = k[Intent(h)]
  BY <1>3, RecordsApart, RecordsNamed
<1>5. Recorded(m)
  <2>1. /\ \A h \in Moving : k[Intent(h)] # Absent =>
              k[Intent(h)].config.gen = h /\ k[Receipts(h)] = k[Intent(h)]
        /\ k[Pending] # Absent =>
              k[Pending].config.gen \in Moving /\ k[Intent(k[Pending].config.gen)] = k[Pending]
    BY <1>1, RecordedFacts
  <2>2. \A h \in Moving : m[Intent(h)] # Absent =>
              m[Intent(h)].config.gen = h /\ m[Receipts(h)] = m[Intent(h)]
    BY <1>3, <1>4, <2>1
  <2>3. m[Pending] # Absent =>
              m[Pending].config.gen \in Moving /\ m[Intent(m[Pending].config.gen)] = m[Pending]
    BY <1>3, <1>4, <2>1
  <2> QED BY <2>2, <2>3, RecordedFacts
<1>6. \A h \in Moving : Evident(k, s.box, h) => Evident(m, s.box, h)
  BY <1>3, <1>4, EvidentFacts
<1>7. ~s.lossy => Waits(m, s.box, Base(k))
  BY <1>1, <1>4 DEF Selects, Waits
<1> QED BY <1>3, <1>5, <1>6, <1>7, RecordApt
LEMMA PendingApt ==
    ASSUME NEW s, NEW k, Apt(k, s), NEW g \in Moving, NEW plan \in Plans, plan.config.gen = g,
           k[Intent(g)] = plan, k[Pending] \in {Absent, plan}, NEW m, Noted(m, k, Pending, plan)
    PROVE  Apt(m, s)
<1>1. Typed(k) /\ Recorded(k) /\ Selects(k, s, Base(k))
  BY AptGives
<1>2. Pending \in Records
  BY RecordsNamed
<1>3. Typed(m) /\ (\A x \in Own : m[x] = k[x]) /\ m[Pending] = plan
      /\ \A r \in Records \ {Pending} : m[r] = k[r]
  BY <1>1, <1>2, NotedFacts
<1>4. \A h \in Moving : m[Receipts(h)] = k[Receipts(h)] /\ m[FenceDoc(h)] = k[FenceDoc(h)]
                        /\ m[Intent(h)] = k[Intent(h)]
  BY <1>3, RecordsApart
<1>5. Recorded(m)
  <2>1. \A h \in Moving : k[Intent(h)] # Absent =>
              k[Intent(h)].config.gen = h /\ k[Receipts(h)] = k[Intent(h)]
    BY <1>1, RecordedFacts
  <2> QED BY <1>3, <1>4, <2>1, RecordedFacts
<1>6. \A h \in Moving : Evident(k, s.box, h) => Evident(m, s.box, h)
  BY <1>4, EvidentFacts
<1>7. ~s.lossy => Waits(m, s.box, Base(k))
  <2>1. plan # Absent
    BY FilesAssumption
  <2> QED BY <1>1, <1>3, <2>1 DEF Selects, Waits
<1> QED BY <1>3, <1>5, <1>6, <1>7, RecordApt
LEMMA FenceDocApt ==
    ASSUME NEW s, NEW k, Apt(k, s), NEW g \in Moving, NEW plan \in Plans,
           k[FenceDoc(g)] \in {Absent, plan}, NEW m, Noted(m, k, FenceDoc(g), plan)
    PROVE  Apt(m, s)
<1>1. Typed(k) /\ Recorded(k) /\ Selects(k, s, Base(k))
  BY AptGives
<1>2. FenceDoc(g) \in Records
  BY RecordsApart
<1>3. Typed(m) /\ (\A x \in Own : m[x] = k[x]) /\ m[FenceDoc(g)] = plan
      /\ \A r \in Records \ {FenceDoc(g)} : m[r] = k[r]
  BY <1>1, <1>2, NotedFacts
<1>4. /\ m[Pending] = k[Pending]
      /\ \A h \in Moving : m[Intent(h)] = k[Intent(h)] /\ m[Receipts(h)] = k[Receipts(h)]
      /\ \A h \in Moving : h # g => m[FenceDoc(h)] = k[FenceDoc(h)]
  BY <1>3, RecordsApart, RecordsNamed
<1>5. Recorded(m)
  BY <1>1, <1>4, RecordedFacts
<1>6. \A h \in Moving : Evident(k, s.box, h) => Evident(m, s.box, h)
  BY <1>3, <1>4, EvidentFacts
<1>7. ~s.lossy => Waits(m, s.box, Base(k))
  BY <1>1, <1>4 DEF Selects, Waits
<1> QED BY <1>3, <1>5, <1>6, <1>7, RecordApt
\* The marker is forgotten once the successor is selected.
LEMMA ForgottenApt ==
    ASSUME NEW s, NEW k, Apt(k, s), k[Pending] # Absent, k[Pending].config.gen < Base(k).gen,
           NEW m, Noted(m, k, Pending, Absent)
    PROVE  Apt(m, s)
<1>1. Typed(k) /\ Recorded(k) /\ Selects(k, s, Base(k))
  BY AptGives
<1>2. Pending \in Records
  BY RecordsNamed
<1>3. Typed(m) /\ (\A x \in Own : m[x] = k[x]) /\ m[Pending] = Absent
      /\ \A r \in Records \ {Pending} : m[r] = k[r]
  BY <1>1, <1>2, NotedFacts
<1>4. \A h \in Moving : m[Receipts(h)] = k[Receipts(h)] /\ m[FenceDoc(h)] = k[FenceDoc(h)]
                        /\ m[Intent(h)] = k[Intent(h)]
  BY <1>3, RecordsApart
<1>5. Recorded(m)
  BY <1>1, <1>3, <1>4, RecordedFacts
<1>6. \A h \in Moving : Evident(k, s.box, h) => Evident(m, s.box, h)
  BY <1>4, EvidentFacts
<1>7. ~s.lossy => Waits(m, s.box, Base(k))
  BY <1>1, <1>3 DEF Selects, Waits
<1> QED BY <1>3, <1>5, <1>6, <1>7, RecordApt

\* A record is published.
StageKept(q, k, n) == q[n] = k[n] /\ q[Stage(n)] = k[Stage(n)]
Welcome(s, k, n, v) == \A m : Noted(m, k, n, v) => Apt(m, s)
PublishesTo(s, q, k, n, v, t) ==
    /\ Turns(s, publish(q, n, v), t, t.dir.vis)
    /\ Noted(t.dir.vis, k, n, v) /\ t.dir.disk = {t.dir.vis}
LEMMA StageApt ==
    ASSUME NEW s, NEW k, Apt(k, s), NEW n \in Records, NEW m, Noted(m, k, n, k[n])
    PROVE  Apt(m, s)
<1>1. Typed(k) /\ Recorded(k) /\ Selects(k, s, Base(k)) /\ k[n] \in Plans \cup {Absent}
  BY AptGives DEF Typed
<1>2. Typed(m) /\ (\A x \in Own : m[x] = k[x]) /\ Kin(m, k)
  BY <1>1, NotedFacts DEF Kin
<1>3. Recorded(m) /\ (~s.lossy => Waits(m, s.box, Base(k)))
  BY <1>1, <1>2, KinFacts DEF Selects
<1>4. \A g \in Moving : m[Intent(g)] = k[Intent(g)] /\ m[Receipts(g)] = k[Receipts(g)]
                        /\ m[FenceDoc(g)] = k[FenceDoc(g)]
  BY <1>2, RecordsApart DEF Kin
<1>5. \A g \in Moving : Evident(k, s.box, g) => Evident(m, s.box, g)
  BY <1>4, EvidentFacts
<1> QED BY <1>2, <1>3, <1>5, RecordApt
LEMMA PublishRun ==
    ASSUME NEW s, Good(s), NEW k, k = s.dir.vis, NEW n \in Records, NEW v \in Plans,
           NEW q, StageKept(q, k, n), Publishable(k, n, v), Welcome(s, k, n, v)
    PROVE  \E t : PublishesTo(s, q, k, n, v, t)
<1>1. Apt(k, s) /\ k \in Maps /\ Typed(k) /\ q[n] = k[n] /\ q[Stage(n)] = k[Stage(n)]
  BY GoodApt, AptMap DEF StageKept
<1>2. /\ n \in Names /\ Stage(n) \in Names /\ n # Stage(n) /\ v \in Values /\ v # Absent
      /\ k[n] \in {Absent, v} /\ k[Stage(n)] \in {Absent, v}
  BY StagesNamed, FilesAssumption DEF Values, Publishable
<1>3. CASE k[n] # Absent
  <2>1. publish(q, n, v) = <<sync>> /\ k[n] = v
    BY <1>1, <1>2, <1>3 DEF publish
  <2>2. PICK t : Turns(s, <<sync>>, t, k) /\ t.dir.disk = {k}
    BY TurnsSync
  <2>3. t.dir.vis = k
    BY <2>2 DEF Turns
  <2>4. Noted(k, k, n, v)
    BY <1>1, <2>1 DEF Noted, Typed
  <2> QED BY <2>1, <2>2, <2>3, <2>4 DEF PublishesTo
<1>4. CASE k[n] = Absent
  <2> DEFINE A == IF k[Stage(n)] = Absent THEN <<put(Stage(n), v), sync>> ELSE <<>>
             B == <<move(Stage(n), n), sync>>
  <2>1. publish(q, n, v) = A \o B
    BY <1>1, <1>4 DEF publish
  <2>2. PICK t1 : /\ Turns(s, A, t1, t1.dir.vis) /\ t1.dir.vis \in Maps /\ t1.dir.vis[Stage(n)] = v
                  /\ \A x \in Names \ {Stage(n)} : t1.dir.vis[x] = k[x]
    <3>1. CASE k[Stage(n)] # Absent
      <4>1. Turns(s, A, s, s.dir.vis) /\ k[Stage(n)] = v
        BY <1>2, <3>1, TurnsNothing
      <4> QED BY <4>1, <1>1
    <3>2. CASE k[Stage(n)] = Absent
      <4> DEFINE m == After(k, put(Stage(n), v))
      <4>0. m = After(k, put(Stage(n), v)) /\ A = rewrite(Stage(n), v)
        BY <3>2 DEF rewrite
      <4> HIDE DEF m
      <4>1. m \in Maps /\ m[Stage(n)] = v /\ \A x \in Names \ {Stage(n)} : m[x] = k[x]
        BY <1>1, <1>2, <4>0, PutMap
      <4>2. Noted(m, k, n, k[n])
        BY <1>2, <4>1 DEF Noted
      <4>3. Apt(m, s) /\ SameBooks(s, s)
        BY <1>1, <4>2, StageApt DEF SameBooks
      <4>4. PICK t : Turns(s, rewrite(Stage(n), v), t, m)
        BY <1>2, <4>0, <4>3, OneRewrite
      <4>5. t.dir.vis = m
        BY <4>4 DEF Turns
      <4> QED BY <4>0, <4>1, <4>4, <4>5
    <3> QED BY <3>1, <3>2
  <2> DEFINE m1 == t1.dir.vis
             m2 == After(m1, move(Stage(n), n))
  <2>3. Good(t1) /\ SameBooks(t1, s) /\ Whole(m1)
    BY <2>2, Leading, MapFacts DEF Turns
  <2>4. Whole(m2) /\ m2[Stage(n)] = Absent /\ m2[n] = v /\ \A x \in Names \ {Stage(n), n} : m2[x] = k[x]
    <3> DEFINE p == Stage(n)
    <3>0. m2 = After(m1, move(p, n)) /\ p \in Names /\ n \in Names /\ p # n /\ Whole(m1)
      BY <1>2, <2>3
    <3> HIDE DEF m1, m2, p
    <3>1. /\ Whole(m2) /\ m2[p] = Absent /\ m2[n] = m1[p]
          /\ \A x \in Names \ {p, n} : m2[x] = m1[x]
      BY ONLY <3>0 DEF Whole, After, move
    <3> QED BY <2>2, <3>1 DEF p, m1
  <2> HIDE DEF m2
  <2>5. m2 \in Maps
    <3>1. \A x \in Names : k[x] \in Values
      BY <1>1 DEF Maps
    <3>2. \A x \in Names : m2[x] \in Values
      BY <1>2, <2>4, <3>1 DEF Values
    <3> QED BY <2>4, <3>2 DEF Maps, Whole
  <2>6. Noted(m2, k, n, v)
    BY <2>4, <2>5 DEF Noted
  <2>7. Apt(m2, t1)
    BY <2>3, <2>6, SameApt DEF Welcome
  <2> DEFINE o == move(Stage(n), n)
  <2>8. PICK t2 : Turns(t1, <<o>>, t2, m2)
    <3>1. o \in Operations /\ o.op = "move"
      BY <1>2, FileOperations DEF move
    <3>2. m2 = After(t1.dir.vis, o)
      BY DEF m2
    <3> HIDE DEF o
    <3> QED BY <2>3, <2>7, <3>1, <3>2, TurnsOp
  <2>9. Good(t2) /\ t2.dir.vis = m2
    BY <2>8, Leading DEF Turns
  <2>10. PICK t : Turns(t2, <<sync>>, t, m2) /\ t.dir.disk = {m2}
    BY <2>9, TurnsSync
  <2>11. Turns(t1, <<o>> \o <<sync>>, t, m2)
    <3> HIDE DEF o
    <3> QED BY <2>8, <2>10, TurnsThen
  <2>12. B = <<o>> \o <<sync>>
    OBVIOUS
  <2>13. Turns(s, A \o B, t, m2)
    <3> HIDE DEF A, B, o
    <3> QED BY <2>2, <2>11, <2>12, TurnsThen
  <2>14. t.dir.vis = m2
    BY <2>13 DEF Turns
  <2> QED BY <2>1, <2>6, <2>10, <2>13, <2>14 DEF PublishesTo
<1> QED BY <1>3, <1>4

-----------------------------------------------------------------------------
(* Operations on the mailboxes.                                            *)

Box(p, f, l, i, r, a, e) ==
    [phase |-> p, format |-> f, ledger |-> l, items |-> i, prior |-> r, authorized |-> a, fence |-> e]
LEMMA BoxFields ==
    ASSUME NEW cap \in Nat, NEW x \in Mailbox(cap)
    PROVE  /\ x = Box(x.phase, x.format, x.ledger, x.items, x.prior, x.authorized, x.fence)
           /\ x.phase \in {"absent", "marked", "made", "seeded"} /\ x.format \in {2, 3}
           /\ x.ledger \in {1, 2} /\ x.items \in 0..cap /\ x.prior \in Nat /\ x.authorized \in Nat
           /\ x.fence \in Plans \cup {Absent}
BY DEF Mailbox, Box

\* What a store does to the mailbox of its generation.
LEMMA BoxFormat ==
    ASSUME NEW p, NEW f, NEW l, NEW i, NEW r, NEW a, NEW e, NEW v, NEW x, x = Box(p, f, l, i, r, a, e)
    PROVE  [x EXCEPT !.format = v] = Box(p, v, l, i, r, a, e)
BY DEF Box
LEMMA BoxLedger ==
    ASSUME NEW p, NEW f, NEW l, NEW i, NEW r, NEW a, NEW e, NEW v, NEW x, x = Box(p, f, l, i, r, a, e)
    PROVE  [x EXCEPT !.ledger = v] = Box(p, f, v, i, r, a, e)
BY DEF Box
LEMMA BoxFence ==
    ASSUME NEW p, NEW f, NEW l, NEW i, NEW r, NEW a, NEW e, NEW v, NEW x, x = Box(p, f, l, i, r, a, e)
    PROVE  [x EXCEPT !.fence = v] = Box(p, f, l, i, r, a, v)
BY DEF Box
LEMMA BoxPhase ==
    ASSUME NEW p, NEW f, NEW l, NEW i, NEW r, NEW a, NEW e, NEW v, NEW x, x = Box(p, f, l, i, r, a, e)
    PROVE  [x EXCEPT !.phase = v] = Box(v, f, l, i, r, a, e)
BY DEF Box
LEMMA BoxPrior ==
    ASSUME NEW p, NEW f, NEW l, NEW i, NEW r, NEW a, NEW e, NEW v, NEW x, x = Box(p, f, l, i, r, a, e)
    PROVE  [x EXCEPT !.prior = v] = Box(p, f, l, i, v, a, e)
BY DEF Box
LEMMA BoxAuthorized ==
    ASSUME NEW p, NEW f, NEW l, NEW i, NEW r, NEW a, NEW e, NEW v, NEW x, x = Box(p, f, l, i, r, a, e)
    PROVE  [x EXCEPT !.authorized = v] = Box(p, f, l, i, r, v, e)
BY DEF Box
Replace(b, g, r) == [b EXCEPT ![g] = r]
LEMMA StoreEffects ==
    ASSUME NEW b, NEW g, NEW v
    PROVE  /\ BoxAfter(b, store("format", g, v)) = Formatted(b, g)
           /\ BoxAfter(b, store("ledger", g, v)) = Ledgered(b, g)
           /\ BoxAfter(b, store("fence", g, v)) = Fenced(b, g, v)
           /\ BoxAfter(b, store("marked", g, v)) = Marked(b, g)
           /\ BoxAfter(b, store("made", g, v)) = Made(b, g)
           /\ BoxAfter(b, store("seeded", g, v)) = Seeded(b, g, v)
<1>1. \A o : store(o, g, v).op = o /\ store(o, g, v).gen = g /\ store(o, g, v).value = v
  BY DEF store
<1> QED BY <1>1 DEF BoxAfter
LEMMA StoreAfter ==
    ASSUME NEW cap \in Nat, NEW b \in [Gens -> Mailbox(cap)], NEW g \in Gens, NEW v,
           NEW p, NEW f, NEW l, NEW i, NEW r, NEW a, NEW e, b[g] = Box(p, f, l, i, r, a, e)
    PROVE  /\ Formatted(b, g) = Replace(b, g, Box(p, 3, l, i, r, a, e))
           /\ Ledgered(b, g) = Replace(b, g, Box(p, f, 2, i, r, a, e))
           /\ Fenced(b, g, v) = Replace(b, g, Box(p, f, l, i, r, a, v))
           /\ Marked(b, g) = Replace(b, g, Box("marked", f, l, i, r, a, e))
           /\ Made(b, g) = Replace(b, g, Box("made", 3, l, i, r, a, e))
<1>4. b[g] = Box(p, f, l, i, r, a, e)
  OBVIOUS
<1>5. Formatted(b, g) = Replace(b, g, Box(p, 3, l, i, r, a, e))
  <2>1. [b[g] EXCEPT !.format = 3] = Box(p, 3, l, i, r, a, e)
    BY ONLY <1>4, BoxFormat
  <2> QED BY <2>1 DEF Formatted, Replace
<1>6. Ledgered(b, g) = Replace(b, g, Box(p, f, 2, i, r, a, e))
  <2>1. [b[g] EXCEPT !.ledger = 2] = Box(p, f, 2, i, r, a, e)
    BY ONLY <1>4, BoxLedger
  <2> QED BY <2>1 DEF Ledgered, Replace
<1>7. Fenced(b, g, v) = Replace(b, g, Box(p, f, l, i, r, a, v))
  <2>1. [b[g] EXCEPT !.fence = v] = Box(p, f, l, i, r, a, v)
    BY ONLY <1>4, BoxFence
  <2> QED BY <2>1 DEF Fenced, Replace
<1>8. Marked(b, g) = Replace(b, g, Box("marked", f, l, i, r, a, e))
  <2>1. [b[g] EXCEPT !.phase = "marked"] = Box("marked", f, l, i, r, a, e)
    BY ONLY <1>4, BoxPhase
  <2> QED BY <2>1 DEF Marked, Replace
<1>9. Made(b, g) = Replace(b, g, Box("made", 3, l, i, r, a, e))
  <2> DEFINE y == [b[g] EXCEPT !.phase = "made"]
             z == [y EXCEPT !.format = 3]
             w == [b EXCEPT ![g] = y]
  <2>1. y = Box("made", f, l, i, r, a, e)
    BY ONLY <1>4, BoxPhase
  <2>2. z = Box("made", 3, l, i, r, a, e)
    <3> HIDE DEF y
    <3> QED BY ONLY <2>1, BoxFormat
  <2>3. Made(b, g) = [w EXCEPT ![g] = [w[g] EXCEPT !.format = 3]]
    BY Zenon DEF Made
  <2>4. w[g] = y
    <3> HIDE DEF y
    <3> QED OBVIOUS
  <2>5. [w EXCEPT ![g] = z] = [b EXCEPT ![g] = z]
    <3> HIDE DEF y, z
    <3> QED OBVIOUS
  <2>6. [w[g] EXCEPT !.format = 3] = z
    <3> HIDE DEF y, w
    <3> QED BY ONLY <2>4
  <2> HIDE DEF w, y, z
  <2> QED BY <2>2, <2>3, <2>5, <2>6 DEF Replace
<1> QED BY <1>5, <1>6, <1>7, <1>8, <1>9
LEMMA SeededAfter ==
    ASSUME NEW b, NEW g, NEW v, NEW w, w = Box("seeded", w.format, 2, w.items,
               b[g - 1].prior + b[g - 1].items, b[g - 1].authorized + v.grant, w.fence),
           NEW p, NEW l, NEW r, NEW a, b[g] = Box(p, w.format, l, w.items, r, a, w.fence)
    PROVE  Seeded(b, g, v) = Replace(b, g, w)
<1> DEFINE f == w.format
           i == w.items
           e == w.fence
<1>0. b[g] = Box(p, f, l, i, r, a, e)
  OBVIOUS
<1> HIDE DEF f, i, e
<1> DEFINE u == b[g - 1].prior + b[g - 1].items
           q == b[g - 1].authorized + v.grant
           y1 == [b[g] EXCEPT !.phase = "seeded"]
           y2 == [y1 EXCEPT !.ledger = 2]
           y3 == [y2 EXCEPT !.prior = u]
           y4 == [y3 EXCEPT !.authorized = q]
<1>1. SeedOf(b, g, v) = y4
  BY Zenon DEF SeedOf
<1> HIDE DEF u, q
<1>2. y1 = Box("seeded", f, l, i, r, a, e)
  BY ONLY <1>0, BoxPhase
<1>3. y2 = Box("seeded", f, 2, i, r, a, e)
  <2> HIDE DEF y1
  <2> QED BY ONLY <1>2, BoxLedger
<1>4. y3 = Box("seeded", f, 2, i, u, a, e)
  <2> HIDE DEF y2
  <2> QED BY ONLY <1>3, BoxPrior
<1>5. y4 = Box("seeded", f, 2, i, u, q, e)
  <2> HIDE DEF y3
  <2> QED BY ONLY <1>4, BoxAuthorized
<1> HIDE DEF y4
<1>6. y4 = w
  BY <1>5 DEF f, i, e, u, q
<1> QED BY <1>1, <1>6 DEF Seeded, Replace

\* A mailbox of the chain is replaced by another that fits between its neighbours.
Fits(b, g, r) ==
    /\ g = 0 => r.authorized = b[0].authorized /\ r.phase = "seeded" /\ r.prior = 0
    /\ r.fence # Absent => r.items = r.fence.head /\ r.format = 3 /\ r.ledger = 2
    /\ r.phase # "seeded" => r.items = 0
    /\ r.phase = "seeded" /\ r.ledger = 2 => r.prior + r.items <= r.authorized
    /\ g > 0 /\ r.phase = "seeded" =>
          /\ r.ledger = 2 /\ b[g - 1].phase = "seeded" /\ b[g - 1].fence # Absent
          /\ r.prior = b[g - 1].prior + b[g - 1].items
          /\ r.authorized = b[g - 1].authorized + b[g - 1].fence.grant
    /\ g < MaxGen /\ b[g + 1].phase = "seeded" =>
          /\ r.phase = "seeded" /\ r.fence # Absent
          /\ b[g + 1].prior = r.prior + r.items
          /\ b[g + 1].authorized = r.authorized + r.fence.grant
LEMMA BoxesPut ==
    ASSUME NEW b, Boxes(b), NEW g \in Gens, NEW r \in Mailbox(b[0].authorized), Fits(b, g, r),
           NEW c, c = Replace(b, g, r)
    PROVE  Boxes(c)
<1>1. MaxGen \in 0..2 /\ 0 \in Gens
  BY HostAssumption DEF Gens
<1> DEFINE cap == b[0].authorized
<1>2. b \in [Gens -> Mailbox(cap)] /\ cap \in Nat
  BY DEF Boxes
<1>3. c[g] = r /\ \A h \in Gens \ {g} : c[h] = b[h]
  BY <1>2 DEF Replace
<1>4. c \in [Gens -> Mailbox(cap)]
  <2> HIDE DEF cap
  <2> QED BY <1>2 DEF Replace, cap
<1>5. c[0].authorized = cap /\ c[0].phase = "seeded" /\ c[0].prior = 0
  <2>1. CASE g = 0
    BY <2>1, <1>3 DEF Fits
  <2>2. CASE g # 0
    BY <2>2, <1>1, <1>3 DEF Boxes
  <2> QED BY <2>1, <2>2
<1>6. ASSUME NEW h \in Gens
      PROVE  /\ c[h].fence # Absent => c[h].items = c[h].fence.head /\ c[h].format = 3 /\ c[h].ledger = 2
             /\ c[h].phase # "seeded" => c[h].items = 0
             /\ c[h].phase = "seeded" /\ c[h].ledger = 2 => c[h].prior + c[h].items <= c[h].authorized
  <2>1. CASE h = g
    BY <2>1, <1>3 DEF Fits
  <2>2. CASE h # g
    BY <2>2, <1>3 DEF Boxes
  <2> QED BY <2>1, <2>2
<1>7. ASSUME NEW h \in 0..(MaxGen - 1), c[h + 1].phase = "seeded"
      PROVE  /\ c[h + 1].ledger = 2 /\ c[h].phase = "seeded" /\ c[h].fence # Absent
             /\ c[h + 1].prior = c[h].prior + c[h].items
             /\ c[h + 1].authorized = c[h].authorized + c[h].fence.grant
  <2>1. h \in Gens /\ h + 1 \in Gens /\ h + 1 # h /\ h < MaxGen /\ h + 1 > 0 /\ (h + 1) - 1 = h
    BY <1>1 DEF Gens
  <2>2. CASE h = g
    <3>1. c[h] = r /\ c[h + 1] = b[g + 1]
      BY <2>1, <2>2, <1>3
    <3>2. b[g + 1].phase = "seeded" => b[g + 1].ledger = 2
      BY <2>2 DEF Boxes
    <3> QED BY <2>1, <2>2, <3>1, <3>2, <1>7 DEF Fits
  <2>3. CASE h + 1 = g
    <3>1. c[h + 1] = r /\ c[h] = b[g - 1]
      BY <2>1, <2>3, <1>3
    <3> QED BY <2>1, <2>3, <3>1, <1>7 DEF Fits
  <2>4. CASE h # g /\ h + 1 # g
    <3>1. c[h + 1] = b[h + 1] /\ c[h] = b[h]
      BY <2>1, <2>4, <1>3
    <3> QED BY <3>1, <1>7 DEF Boxes
  <2> QED BY <2>2, <2>3, <2>4
<1>8. c[0].authorized = cap
  BY <1>5
<1> QED BY <1>2, <1>4, <1>5, <1>6, <1>7, <1>8 DEF Boxes

\* What a store may do to the mailboxes of a home: fences and seeds are kept.
Keeps(b, c) ==
    \A g \in Gens : /\ b[g].fence # Absent => c[g].fence = b[g].fence
                    /\ b[g].phase = "seeded" => c[g].phase = "seeded"
LEMMA BackedKept ==
    ASSUME NEW m, Typed(m), NEW b, NEW c, Keeps(b, c), Backed(m, b)
    PROVE  Backed(m, c)
<1>1. ASSUME NEW g \in 0..(MaxGen - 1), Evident(m, b, g) PROVE Evident(m, c, g)
  <2>1. g \in Gens /\ g + 1 \in Gens
    BY HostAssumption DEF Gens
  <2> QED BY <2>1, <1>1 DEF Evident, Keeps
<1> QED BY <1>1 DEF Backed
LEMMA StoreGood ==
    ASSUME NEW s, Good(s), NEW o, o.op \in StoreOps, NEW c, c = BoxAfter(s.box, o),
           Boxes(c), Keeps(s.box, c), ~s.lossy => FencedLive(s.dir.vis, c),
           NEW t, t = Effect(s, o)
    PROVE  /\ Good(t) /\ t.dir = s.dir /\ t.acked = s.acked /\ t.lossy = s.lossy /\ t.box = c
<1>1. t = State(s.dir, c, s.acked, s.lossy)
  BY DEF Effect, DirAfter, StoreOps
<1>2. t.dir = s.dir /\ t.box = c /\ t.acked = s.acked /\ t.lossy = s.lossy
  BY <1>1, StateFields
<1>3. t = State(t.dir, t.box, t.acked, t.lossy)
  BY <1>1, <1>2
<1>4. ASSUME NEW m \in s.dir.disk PROVE Fine(m, c, s.acked)
  <2>1. Fine(m, s.box, s.acked)
    BY DEF Good
  <2> QED BY <2>1, BackedKept DEF Fine
<1>5. /\ s.dir = [vis |-> s.dir.vis, disk |-> s.dir.disk, dirty |-> {}]
      /\ s.dir.vis \in s.dir.disk /\ s.acked \in Nat
  BY DEF Good
<1> QED BY <1>2, <1>3, <1>4, <1>5 DEF Good

\* One store: a mailbox is replaced, and nothing else of the home changes.
Fills(s, ops, t, c) ==
    Leads(s, ops, t) /\ t.dir = s.dir /\ t.acked = s.acked /\ t.lossy = s.lossy /\ t.box = c
LEMMA FillsThen ==
    ASSUME NEW s, NEW x, NEW t, NEW b, Fills(s, x, t, b), NEW y, NEW u, NEW c, Fills(t, y, u, c)
    PROVE  Fills(s, x \o y, u, c)
BY Then DEF Fills
LEMMA FillsNothing ==
    ASSUME NEW s, Good(s)
    PROVE  Fills(s, <<>>, s, s.box)
BY LeadsNothing DEF Fills
LEMMA StoreOperations ==
    ASSUME NEW v \in Values
    PROVE  /\ \A g \in Gens : \A o \in {"format", "ledger", "fence", "marked", "made"} :
                 store(o, g, v) \in Operations
           /\ \A g \in 1..MaxGen : store("seeded", g, v) \in Operations
           /\ \A g, o : store(o, g, v).op = o
BY DEF Operations, store
Mends(s, g, r, o) ==
    /\ o \in Operations /\ o.op \in StoreOps /\ BoxAfter(s.box, o) = Replace(s.box, g, r)
    /\ r \in Mailbox(s.box[0].authorized) /\ Fits(s.box, g, r)
    /\ s.box[g].phase = "seeded" => r.phase = "seeded"
    /\ \/ r.fence = s.box[g].fence
       \/ /\ s.box[g].fence = Absent /\ s.dir.vis[Pending] # Absent
          /\ s.dir.vis[Pending].config.gen = g
LEMMA MendRun ==
    ASSUME NEW s, Good(s), NEW g \in Gens, NEW r, NEW o, Mends(s, g, r, o)
    PROVE  \E t : Fills(s, <<o>>, t, Replace(s.box, g, r))
<1> DEFINE b == s.box
           c == Replace(b, g, r)
<1>1. Boxes(b) /\ b \in [Gens -> Mailbox(b[0].authorized)]
  BY DEF Good, Boxes
<1>2. c[g] = r /\ \A h \in Gens \ {g} : c[h] = b[h]
  <2> HIDE DEF b
  <2> QED BY <1>1 DEF Replace
<1>3. Boxes(c)
  <2>1. r \in Mailbox(b[0].authorized) /\ Fits(b, g, r)
    BY DEF Mends
  <2> HIDE DEF b
  <2> QED BY <1>1, <2>1, BoxesPut
<1>4. Keeps(b, c)
  <2>1. /\ b[g].fence # Absent => r.fence = b[g].fence
        /\ b[g].phase = "seeded" => r.phase = "seeded"
    BY DEF Mends
  <2> HIDE DEF b, c
  <2> QED BY <1>2, <2>1 DEF Keeps
<1>5. ASSUME ~s.lossy PROVE FencedLive(s.dir.vis, c)
  <2>1. FencedLive(s.dir.vis, b)
    BY <1>5 DEF Good
  <2>2. \/ r.fence = b[g].fence
        \/ s.dir.vis[Pending] # Absent /\ s.dir.vis[Pending].config.gen = g
    BY DEF Mends
  <2> HIDE DEF b, c
  <2> QED BY <1>2, <2>1, <2>2 DEF FencedLive
<1> DEFINE t == Effect(s, o)
<1>6. o \in Operations /\ o.op \in StoreOps /\ c = BoxAfter(s.box, o)
  BY DEF Mends
<1> HIDE DEF c
<1>7. Good(t) /\ t.dir = s.dir /\ t.acked = s.acked /\ t.lossy = s.lossy /\ t.box = c
  BY <1>3, <1>4, <1>5, <1>6, StoreGood
<1>8. Leads(s, <<o>>, t)
  BY <1>6, <1>7, LeadsOne
<1>9. Fills(s, <<o>>, t, c)
  BY <1>7, <1>8 DEF Fills
<1> QED BY <1>9 DEF c

\* A mailbox as it was, by its fields.
BoxOf(x) == Box(x.phase, x.format, x.ledger, x.items, x.prior, x.authorized, x.fence)
LEMMA BoxesFacts ==
    ASSUME NEW b, Boxes(b), NEW g \in Gens
    PROVE  /\ b[0].authorized \in Nat /\ b \in [Gens -> Mailbox(b[0].authorized)]
           /\ b[g] \in Mailbox(b[0].authorized) /\ b[g] = BoxOf(b[g])
           /\ b[g].phase \in {"absent", "marked", "made", "seeded"} /\ b[g].format \in {2, 3}
           /\ b[g].ledger \in {1, 2} /\ b[g].items \in 0..b[0].authorized /\ b[g].prior \in Nat
           /\ b[g].authorized \in Nat /\ b[g].fence \in Plans \cup {Absent}
<1>1. b[0].authorized \in Nat /\ b \in [Gens -> Mailbox(b[0].authorized)]
  BY DEF Boxes
<1>2. b[g] \in Mailbox(b[0].authorized)
  BY <1>1
<1> QED BY <1>1, <1>2, BoxFields DEF BoxOf

\* A mailbox fits where it is.
LEMMA FitsAsIs ==
    ASSUME NEW b, Boxes(b), NEW g \in Gens
    PROVE  Fits(b, g, b[g])
<1>1. MaxGen \in 0..2
  BY HostAssumption
<1>2. g > 0 => g - 1 \in 0..(MaxGen - 1) /\ (g - 1) + 1 = g
  BY <1>1 DEF Gens
<1>3. g < MaxGen => g \in 0..(MaxGen - 1)
  BY <1>1 DEF Gens
<1>4. b[0].phase = "seeded" /\ b[0].prior = 0
  BY DEF Boxes
<1>5. /\ b[g].fence # Absent => b[g].items = b[g].fence.head /\ b[g].format = 3 /\ b[g].ledger = 2
      /\ b[g].phase # "seeded" => b[g].items = 0
      /\ b[g].phase = "seeded" /\ b[g].ledger = 2 => b[g].prior + b[g].items <= b[g].authorized
  BY DEF Boxes
<1>6. g > 0 /\ b[g].phase = "seeded" =>
        /\ b[g].ledger = 2 /\ b[g - 1].phase = "seeded" /\ b[g - 1].fence # Absent
        /\ b[g].prior = b[g - 1].prior + b[g - 1].items
        /\ b[g].authorized = b[g - 1].authorized + b[g - 1].fence.grant
  BY <1>2 DEF Boxes
<1>7. g < MaxGen /\ b[g + 1].phase = "seeded" =>
        /\ b[g].phase = "seeded" /\ b[g].fence # Absent
        /\ b[g + 1].prior = b[g].prior + b[g].items
        /\ b[g + 1].authorized = b[g].authorized + b[g].fence.grant
  BY <1>3 DEF Boxes
<1> QED BY <1>4, <1>5, <1>6, <1>7 DEF Fits

\* What is known of a mailbox of a good home, before a store mends it.
Known(b, g, x) ==
    /\ x = b[g] /\ x = BoxOf(x) /\ x \in Mailbox(b[0].authorized)
    /\ x.phase \in {"absent", "marked", "made", "seeded"} /\ x.format \in {2, 3}
    /\ x.ledger \in {1, 2} /\ x.items \in 0..b[0].authorized /\ x.prior \in Nat
    /\ x.authorized \in Nat /\ x.fence \in Plans \cup {Absent}
    /\ b[0].authorized \in Nat /\ b \in [Gens -> Mailbox(b[0].authorized)] /\ Fits(b, g, x)
LEMMA KnownFacts ==
    ASSUME NEW s, Good(s), NEW g \in Gens
    PROVE  Boxes(s.box) /\ Known(s.box, g, s.box[g])
<1>1. Boxes(s.box)
  BY DEF Good
<1> QED BY <1>1, BoxesFacts, FitsAsIs DEF Known

\* t is s with another mailbox of g.
Mended(s, g, o, y) == \E t, c :
    Fills(s, <<o>>, t, c) /\ c[g] = y /\ \A h \in Gens \ {g} : c[h] = s.box[h]
LEMMA MendTo ==
    ASSUME NEW s, Good(s), NEW g \in Gens, NEW y, NEW o, Mends(s, g, y, o)
    PROVE  Mended(s, g, o, y)
<1>1. s.box \in [Gens -> Mailbox(s.box[0].authorized)]
  BY DEF Good, Boxes
<1>2. Replace(s.box, g, y)[g] = y /\ \A h \in Gens \ {g} : Replace(s.box, g, y)[h] = s.box[h]
  BY <1>1 DEF Replace
<1> QED BY <1>2, MendRun DEF Mended

\* The formats are raised.
LEMMA FormatRun ==
    ASSUME NEW s, Good(s), NEW g \in Gens, NEW v \in Values
    PROVE  \E y : /\ Mended(s, g, store("format", g, v), y)
                  /\ y.format = 3 /\ y.phase = s.box[g].phase /\ y.items = s.box[g].items
                  /\ y.fence = s.box[g].fence
<1> DEFINE b == s.box
           x == b[g]
           y == Box(x.phase, 3, x.ledger, x.items, x.prior, x.authorized, x.fence)
           o == store("format", g, v)
<1>1. Known(b, g, x)
  BY KnownFacts
<1>2. BoxAfter(b, o) = Replace(b, g, y)
  <2>1. BoxAfter(b, o) = Formatted(b, g)
    BY StoreEffects
  <2>2. b[g] = Box(x.phase, x.format, x.ledger, x.items, x.prior, x.authorized, x.fence)
    BY <1>1 DEF Known, BoxOf
  <2>3. b[0].authorized \in Nat /\ b \in [Gens -> Mailbox(b[0].authorized)]
    BY <1>1 DEF Known
  <2>4. Formatted(b, g) = Replace(b, g, y)
    <3> HIDE DEF b, o
    <3> QED BY <2>2, <2>3, StoreAfter
  <2> QED BY <2>1, <2>4
<1>3. /\ y \in Mailbox(b[0].authorized) /\ y.phase = x.phase /\ y.format = 3 /\ y.ledger = x.ledger
      /\ y.items = x.items /\ y.prior = x.prior /\ y.authorized = x.authorized /\ y.fence = x.fence
  <2> HIDE DEF x, b
  <2> QED BY <1>1 DEF Known, Box, Mailbox
<1> HIDE DEF y
<1>4. Fits(b, g, y)
  <2> HIDE DEF x, b
  <2> QED BY <1>1, <1>3 DEF Fits, Known
<1>5. o \in Operations /\ o.op \in StoreOps
  BY StoreOperations DEF StoreOps
<1>6. Mends(s, g, y, o)
  <2> HIDE DEF o
  <2> QED BY <1>2, <1>3, <1>4, <1>5 DEF Mends
<1>7. Mended(s, g, o, y)
  <2> HIDE DEF o
  <2> QED BY <1>6, MendTo
<1> QED BY <1>3, <1>7

\* The ledger is made cumulative; the first mailbox has room for what it holds.
LEMMA LedgerRun ==
    ASSUME NEW s, Good(s), NEW g \in Gens, NEW v \in Values
    PROVE  \E y : /\ Mended(s, g, store("ledger", g, v), y)
                  /\ y.format = s.box[g].format /\ y.ledger = 2 /\ y.phase = s.box[g].phase
                  /\ y.items = s.box[g].items /\ y.fence = s.box[g].fence
<1> DEFINE b == s.box
           x == b[g]
           y == Box(x.phase, x.format, 2, x.items, x.prior, x.authorized, x.fence)
           o == store("ledger", g, v)
<1>0. g \in Gens
  BY HostAssumption DEF Gens
<1>1. Known(b, g, x) /\ Boxes(b)
  BY <1>0, KnownFacts
<1>2. BoxAfter(b, o) = Replace(b, g, y)
  <2>1. BoxAfter(b, o) = Ledgered(b, g)
    BY StoreEffects
  <2>2. b[g] = Box(x.phase, x.format, x.ledger, x.items, x.prior, x.authorized, x.fence)
    BY <1>1 DEF Known, BoxOf
  <2>3. b[0].authorized \in Nat /\ b \in [Gens -> Mailbox(b[0].authorized)]
    BY <1>1 DEF Known
  <2>4. Ledgered(b, g) = Replace(b, g, y)
    <3> HIDE DEF b, o
    <3> QED BY <1>0, <2>2, <2>3, StoreAfter
  <2> QED BY <2>1, <2>4
<1>3. /\ y \in Mailbox(b[0].authorized) /\ y.phase = x.phase /\ y.format = x.format /\ y.ledger = 2
      /\ y.items = x.items /\ y.prior = x.prior /\ y.authorized = x.authorized /\ y.fence = x.fence
  <2> HIDE DEF x, b
  <2> QED BY <1>1 DEF Known, Box, Mailbox
<1> HIDE DEF y
<1>4. Fits(b, g, y)
  <2>1. x.prior + x.items <= x.authorized \/ x.phase # "seeded"
    <3>1. CASE g = 0
      <4>1. x.prior = 0 /\ x.authorized = b[0].authorized
        BY <3>1, <1>1 DEF Boxes
      <4> QED BY <4>1, <1>1 DEF Known
    <3>2. CASE g > 0
      BY <3>2, <1>1 DEF Known, Fits
    <3> QED BY <1>0, <3>1, <3>2 DEF Gens
  <2> HIDE DEF x, b
  <2> QED BY <1>1, <1>3, <2>1 DEF Fits, Known
<1>5. o \in Operations /\ o.op \in StoreOps
  BY <1>0, StoreOperations DEF StoreOps
<1>6. Mends(s, g, y, o)
  <2> HIDE DEF o
  <2> QED BY <1>2, <1>3, <1>4, <1>5 DEF Mends
<1>7. Mended(s, g, o, y)
  <2> HIDE DEF o
  <2> QED BY <1>0, <1>6, MendTo
<1> QED BY <1>3, <1>7

\* The mailbox is fenced, at its head and with the plan that is pending.
LEMMA FenceRun ==
    ASSUME NEW s, Good(s), NEW g \in Gens, NEW v \in Plans,
           s.box[g].format = 3, s.box[g].ledger = 2, s.box[g].items = v.head,
           s.box[g].fence \in {Absent, v}, s.dir.vis[Pending] = v, v.config.gen = g
    PROVE  \E y : /\ Mended(s, g, store("fence", g, v), y)
                  /\ y.fence = v
<1> DEFINE b == s.box
           x == b[g]
           y == Box(x.phase, x.format, x.ledger, x.items, x.prior, x.authorized, v)
           o == store("fence", g, v)
<1>0. g \in Gens
  BY HostAssumption DEF Gens
<1>1. Known(b, g, x) /\ Boxes(b)
  BY <1>0, KnownFacts
<1>2. BoxAfter(b, o) = Replace(b, g, y)
  <2>1. BoxAfter(b, o) = Fenced(b, g, v)
    BY StoreEffects
  <2>2. b[g] = Box(x.phase, x.format, x.ledger, x.items, x.prior, x.authorized, x.fence)
    BY <1>1 DEF Known, BoxOf
  <2>3. b[0].authorized \in Nat /\ b \in [Gens -> Mailbox(b[0].authorized)]
    BY <1>1 DEF Known
  <2>4. Fenced(b, g, v) = Replace(b, g, y)
    <3> HIDE DEF b, o
    <3> QED BY <1>0, <2>2, <2>3, StoreAfter
  <2> QED BY <2>1, <2>4
<1>3. /\ y \in Mailbox(b[0].authorized) /\ y.phase = x.phase /\ y.format = x.format /\ y.ledger = x.ledger
      /\ y.items = x.items /\ y.prior = x.prior /\ y.authorized = x.authorized /\ y.fence = v
  <2> HIDE DEF x, b
  <2> QED BY <1>1, v \in Plans DEF Known, Box, Mailbox
<1> HIDE DEF y
<1>4. Fits(b, g, y)
  <2>1. x.format = 3 /\ x.ledger = 2 /\ x.items = v.head /\ x.fence \in {Absent, v}
    OBVIOUS
  <2> HIDE DEF x, b
  <2> QED BY <1>1, <1>3, <2>1, FilesAssumption DEF Fits, Known
<1>5. o \in Operations /\ o.op \in StoreOps
  <2>1. v \in Values
    BY DEF Values
  <2> QED BY <1>0, <2>1, StoreOperations DEF StoreOps
<1>6. Mends(s, g, y, o)
  <2>1. x.fence \in {Absent, v} /\ s.dir.vis[Pending] # Absent /\ s.dir.vis[Pending].config.gen = g
    BY FilesAssumption
  <2>2. y.fence = x.fence \/ x.fence = Absent
    BY <1>3, <2>1
  <2> HIDE DEF o
  <2> QED BY <1>2, <1>3, <1>4, <1>5, <2>1, <2>2 DEF Mends
<1>7. Mended(s, g, o, y)
  <2> HIDE DEF o
  <2> QED BY <1>0, <1>6, MendTo
<1> QED BY <1>3, <1>7

\* The marker of a successor is written.
LEMMA MarkRun ==
    ASSUME NEW s, Good(s), NEW g \in 1..MaxGen, NEW v \in Values,
           s.box[g].phase # "seeded"
    PROVE  \E y : /\ Mended(s, g, store("marked", g, v), y)
                  /\ y.phase = "marked" /\ y.fence = s.box[g].fence
<1> DEFINE b == s.box
           x == b[g]
           y == Box("marked", x.format, x.ledger, x.items, x.prior, x.authorized, x.fence)
           o == store("marked", g, v)
<1>0. g \in Gens
  BY HostAssumption DEF Gens
<1>1. Known(b, g, x) /\ Boxes(b)
  BY <1>0, KnownFacts
<1>2. BoxAfter(b, o) = Replace(b, g, y)
  <2>1. BoxAfter(b, o) = Marked(b, g)
    BY StoreEffects
  <2>2. b[g] = Box(x.phase, x.format, x.ledger, x.items, x.prior, x.authorized, x.fence)
    BY <1>1 DEF Known, BoxOf
  <2>3. b[0].authorized \in Nat /\ b \in [Gens -> Mailbox(b[0].authorized)]
    BY <1>1 DEF Known
  <2>4. Marked(b, g) = Replace(b, g, y)
    <3> HIDE DEF b, o
    <3> QED BY <1>0, <2>2, <2>3, StoreAfter
  <2> QED BY <2>1, <2>4
<1>3. /\ y \in Mailbox(b[0].authorized) /\ y.phase = "marked" /\ y.format = x.format /\ y.ledger = x.ledger
      /\ y.items = x.items /\ y.prior = x.prior /\ y.authorized = x.authorized /\ y.fence = x.fence
  <2> HIDE DEF x, b
  <2> QED BY <1>1 DEF Known, Box, Mailbox
<1> HIDE DEF y
<1>4. Fits(b, g, y)
  <2>1. x.phase # "seeded" /\ g > 0
    OBVIOUS
  <2> HIDE DEF x, b
  <2> QED BY <1>1, <1>3, <2>1 DEF Fits, Known
<1>5. o \in Operations /\ o.op \in StoreOps
  BY <1>0, StoreOperations DEF StoreOps
<1>6. Mends(s, g, y, o)
  <2> HIDE DEF o
  <2> QED BY <1>2, <1>3, <1>4, <1>5 DEF Mends
<1>7. Mended(s, g, o, y)
  <2> HIDE DEF o
  <2> QED BY <1>0, <1>6, MendTo
<1> QED BY <1>3, <1>7

\* The database of a successor is made.
LEMMA MakeRun ==
    ASSUME NEW s, Good(s), NEW g \in 1..MaxGen, NEW v \in Values,
           s.box[g].phase # "seeded"
    PROVE  \E y : /\ Mended(s, g, store("made", g, v), y)
                  /\ y.phase = "made" /\ y.fence = s.box[g].fence
<1> DEFINE b == s.box
           x == b[g]
           y == Box("made", 3, x.ledger, x.items, x.prior, x.authorized, x.fence)
           o == store("made", g, v)
<1>0. g \in Gens
  BY HostAssumption DEF Gens
<1>1. Known(b, g, x) /\ Boxes(b)
  BY <1>0, KnownFacts
<1>2. BoxAfter(b, o) = Replace(b, g, y)
  <2>1. BoxAfter(b, o) = Made(b, g)
    BY StoreEffects
  <2>2. b[g] = Box(x.phase, x.format, x.ledger, x.items, x.prior, x.authorized, x.fence)
    BY <1>1 DEF Known, BoxOf
  <2>3. b[0].authorized \in Nat /\ b \in [Gens -> Mailbox(b[0].authorized)]
    BY <1>1 DEF Known
  <2>4. Made(b, g) = Replace(b, g, y)
    <3> HIDE DEF b, o
    <3> QED BY <1>0, <2>2, <2>3, StoreAfter
  <2> QED BY <2>1, <2>4
<1>3. /\ y \in Mailbox(b[0].authorized) /\ y.phase = "made" /\ y.format = 3 /\ y.ledger = x.ledger
      /\ y.items = x.items /\ y.prior = x.prior /\ y.authorized = x.authorized /\ y.fence = x.fence
  <2> HIDE DEF x, b
  <2> QED BY <1>1 DEF Known, Box, Mailbox
<1> HIDE DEF y
<1>4. Fits(b, g, y)
  <2>1. x.phase # "seeded" /\ g > 0
    OBVIOUS
  <2> HIDE DEF x, b
  <2> QED BY <1>1, <1>3, <2>1 DEF Fits, Known
<1>5. o \in Operations /\ o.op \in StoreOps
  BY <1>0, StoreOperations DEF StoreOps
<1>6. Mends(s, g, y, o)
  <2> HIDE DEF o
  <2> QED BY <1>2, <1>3, <1>4, <1>5 DEF Mends
<1>7. Mended(s, g, o, y)
  <2> HIDE DEF o
  <2> QED BY <1>0, <1>6, MendTo
<1> QED BY <1>3, <1>7

\* The ledger of a successor is seeded with its predecessor's spend and allowance.
LEMMA SeedRun ==
    ASSUME NEW s, Good(s), NEW g \in 1..MaxGen, NEW v \in Plans,
           s.box[g].phase # "seeded", s.box[g - 1].phase = "seeded", s.box[g - 1].fence = v
    PROVE  \E y : /\ Mended(s, g, store("seeded", g, v), y)
                  /\ y.phase = "seeded" /\ y.fence = s.box[g].fence
<1> DEFINE b == s.box
           x == b[g]
           y == Box("seeded", x.format, 2, x.items, b[g - 1].prior + b[g - 1].items, b[g - 1].authorized + v.grant, x.fence)
           o == store("seeded", g, v)
<1>0. g \in Gens /\ g - 1 \in Gens /\ v \in Values /\ g > 0
  BY HostAssumption DEF Gens, Values
<1>1. Known(b, g, x) /\ Boxes(b)
  BY <1>0, KnownFacts
<1>2. BoxAfter(b, o) = Replace(b, g, y)
  <2>1. BoxAfter(b, o) = Seeded(b, g, v)
    BY StoreEffects
  <2>2. b[g] = Box(x.phase, x.format, x.ledger, x.items, x.prior, x.authorized, x.fence)
    BY <1>1 DEF Known, BoxOf
  <2>3. b[0].authorized \in Nat /\ b \in [Gens -> Mailbox(b[0].authorized)]
    BY <1>1 DEF Known
  <2>4. Seeded(b, g, v) = Replace(b, g, y)
    <3>1. y.format = x.format /\ y.items = x.items /\ y.fence = x.fence
      BY DEF Box
    <3>2. y = Box("seeded", y.format, 2, y.items, b[g - 1].prior + b[g - 1].items,
                  b[g - 1].authorized + v.grant, y.fence)
      BY <3>1
    <3>3. b[g] = Box(x.phase, y.format, x.ledger, y.items, x.prior, x.authorized, y.fence)
      BY <2>2, <3>1
    <3> HIDE DEF b, x, y
    <3> QED BY ONLY <3>2, <3>3, SeededAfter
  <2> QED BY <2>1, <2>4
<1>9. /\ b[g - 1].prior \in Nat /\ b[g - 1].items \in Nat /\ b[g - 1].authorized \in Nat
      /\ v.grant \in Nat /\ v # Absent
      /\ b[g - 1].prior + b[g - 1].items <= b[g - 1].authorized
  <2>1. Known(b, g - 1, b[g - 1])
    BY <1>0, KnownFacts
  <2>2. v.grant \in Nat /\ v # Absent
    BY FilesAssumption DEF Plans
  <2>3. b[g - 1].ledger = 2
    BY <2>1, <2>2 DEF Known, Fits
  <2>4. b[g - 1].phase = "seeded"
    OBVIOUS
  <2> HIDE DEF b
  <2> QED BY <2>1, <2>2, <2>3, <2>4 DEF Known, Fits
<1>3. /\ y \in Mailbox(b[0].authorized) /\ y.phase = "seeded" /\ y.format = x.format /\ y.ledger = 2
      /\ y.items = x.items /\ y.prior = b[g - 1].prior + b[g - 1].items /\ y.authorized = b[g - 1].authorized + v.grant /\ y.fence = x.fence
  <2> HIDE DEF x, b
  <2> QED BY <1>1, <1>9 DEF Known, Box, Mailbox
<1> HIDE DEF y
<1>4. Fits(b, g, y)
  <2>1. x.phase # "seeded" /\ b[g - 1].phase = "seeded" /\ b[g - 1].fence = v
    OBVIOUS
  <2>2. x.items = 0 /\ (x.fence # Absent => x.items = x.fence.head /\ x.format = 3)
    BY <1>1, <2>1 DEF Fits, Known
  <2>3. g < MaxGen => b[g + 1].phase # "seeded"
    BY <1>1, <2>1 DEF Fits, Known
  <2>4. /\ g # 0
        /\ y.fence # Absent => y.items = y.fence.head /\ y.format = 3 /\ y.ledger = 2
        /\ y.phase = "seeded" /\ y.ledger = 2
    BY <1>0, <1>3, <2>2
  <2>5. y.prior + y.items <= y.authorized
    <3> HIDE DEF x, b
    <3> QED BY <1>3, <1>9, <2>2
  <2> HIDE DEF x, b
  <2> QED BY <1>3, <1>9, <2>1, <2>3, <2>4, <2>5 DEF Fits
<1>5. o \in Operations /\ o.op \in StoreOps
  BY <1>0, StoreOperations DEF StoreOps
<1>6. Mends(s, g, y, o)
  <2> HIDE DEF o
  <2> QED BY <1>2, <1>3, <1>4, <1>5 DEF Mends
<1>7. Mended(s, g, o, y)
  <2> HIDE DEF o
  <2> QED BY <1>0, <1>6, MendTo
<1> QED BY <1>3, <1>7

-----------------------------------------------------------------------------
(* The commands keep the home good, from their first operation to the last. *)

LEMMA MendedLeads ==
    ASSUME NEW s, NEW x, NEW t, NEW b, Fills(s, x, t, b), NEW g \in Gens, NEW o, NEW y, Mended(t, g, o, y)
    PROVE  \E u, c : /\ Fills(s, x \o <<o>>, u, c) /\ c[g] = y /\ Good(u)
                     /\ \A h \in Gens \ {g} : c[h] = b[h]
<1>1. PICK u, c : Fills(t, <<o>>, u, c) /\ c[g] = y /\ \A h \in Gens \ {g} : c[h] = t.box[h]
  BY DEF Mended
<1>2. t.box = b /\ Leads(t, <<o>>, u)
  BY <1>1 DEF Fills
<1>3. Good(u)
  BY <1>2, Leading
<1>4. Fills(s, x \o <<o>>, u, c)
  BY <1>1, FillsThen
<1> QED BY <1>1, <1>2, <1>3, <1>4
LEMMA MendedFirst ==
    ASSUME NEW s, NEW g \in Gens, NEW o, NEW y, Mended(s, g, o, y)
    PROVE  \E u, c : /\ Fills(s, <<o>>, u, c) /\ c[g] = y /\ Good(u)
                     /\ \A h \in Gens \ {g} : c[h] = s.box[h]
<1>1. PICK u, c : Fills(s, <<o>>, u, c) /\ c[g] = y /\ \A h \in Gens \ {g} : c[h] = s.box[h]
  BY DEF Mended
<1>2. Leads(s, <<o>>, u)
  BY <1>1 DEF Fills
<1> QED BY <1>1, <1>2, Leading
LEMMA Joining ==
    ASSUME NEW a, NEW b, NEW c
    PROVE  <<a>> \o <<b>> = <<a, b>> /\ (<<a>> \o <<b>>) \o <<c>> = <<a, b, c>>
<1> DEFINE S == {a, b, c}
           x == <<a>> \o <<b>>
           y == <<a, b>>
           z == <<a, b>> \o <<c>>
           w == <<a, b, c>>
<1>1. x \in Seq(S) /\ y \in Seq(S) /\ Len(x) = 2 /\ Len(y) = 2
  OBVIOUS
<1>2. \A i \in 1..2 : x[i] = y[i]
  OBVIOUS
<1>3. z \in Seq(S) /\ w \in Seq(S) /\ Len(z) = 3 /\ Len(w) = 3
  OBVIOUS
<1>4. \A i \in 1..3 : z[i] = w[i]
  OBVIOUS
<1> HIDE DEF S, x, y, z, w
<1>5. x = y
  <2>1. x = [i \in 1..2 |-> x[i]] /\ y = [i \in 1..2 |-> y[i]]
    BY <1>1
  <2> QED BY <1>2, <2>1
<1>6. z = w
  <2>1. z = [i \in 1..3 |-> z[i]] /\ w = [i \in 1..3 |-> w[i]]
    BY <1>3
  <2> QED BY <1>4, <2>1
<1> QED BY <1>5, <1>6 DEF x, y, z, w

\* A script is not empty when one of its parts is not.
LEMMA More ==
    ASSUME NEW s, NEW x, NEW t, Leads(s, x, t), NEW y, NEW u, Leads(t, y, u), x # <<>> \/ y # <<>>
    PROVE  x \o y # <<>>
<1>1. /\ Len(x) \in Nat /\ Len(y) \in Nat /\ Len(x \o y) = Len(x) + Len(y)
      /\ x # <<>> => Len(x) > 0
      /\ y # <<>> => Len(y) > 0
  BY DEF Leads, Script
<1>2. Len(<<>>) = 0
  OBVIOUS
<1> QED BY <1>1, <1>2

\* fence.
FenceScript(k, g, plan) ==
    <<store("format", g, 3), store("ledger", g, 2), store("fence", g, plan)>> \o publish(k, FenceDoc(g), plan)
LEMMA FenceStays ==
    ASSUME NEW s, Good(s), NEW k, k = s.dir.vis, NEW plan \in Plans, NEW g \in Moving,
           k[Pending] = plan, plan.config.gen = g, s.box[g].items = plan.head,
           s.box[g].fence \in {Absent, plan}, Publishable(k, FenceDoc(g), plan)
    PROVE  FenceScript(k, g, plan) # <<>> /\ \E t : Leads(s, FenceScript(k, g, plan), t)
<1> DEFINE f == store("format", g, 3)
           l == store("ledger", g, 2)
           e == store("fence", g, plan)
<1>0. g \in Gens /\ 3 \in Values /\ 2 \in Values
  BY RecordsApart DEF Values
<1>2. PICK y1 : Mended(s, g, f, y1) /\ y1.format = 3 /\ y1.items = s.box[g].items /\ y1.fence = s.box[g].fence
  BY <1>0, FormatRun
<1> HIDE DEF f, l, e
<1>3. PICK t1, c1 : Fills(s, <<f>>, t1, c1) /\ c1[g] = y1 /\ Good(t1)
  BY <1>0, <1>2, MendedFirst
<1>4. t1.box = c1 /\ t1.dir = s.dir
  BY <1>3 DEF Fills
<1>5. PICK y2 : /\ Mended(t1, g, l, y2) /\ y2.format = t1.box[g].format /\ y2.ledger = 2
                /\ y2.items = t1.box[g].items /\ y2.fence = t1.box[g].fence
  BY <1>0, <1>3, LedgerRun DEF l
<1>6. PICK t2, c2 : Fills(s, <<f>> \o <<l>>, t2, c2) /\ c2[g] = y2 /\ Good(t2)
  BY <1>0, <1>3, <1>5, MendedLeads
<1>7. t2.box = c2 /\ t2.dir = s.dir
  BY <1>6 DEF Fills
<1>8. PICK y3 : Mended(t2, g, e, y3)
  <2>1. /\ t2.box[g].format = 3 /\ t2.box[g].ledger = 2 /\ t2.box[g].items = plan.head
        /\ t2.box[g].fence \in {Absent, plan} /\ t2.dir.vis[Pending] = plan
    BY <1>2, <1>3, <1>4, <1>5, <1>6, <1>7
  <2> QED BY <1>0, <1>6, <2>1, FenceRun DEF e
<1>9. PICK t3, c3 : Fills(s, (<<f>> \o <<l>>) \o <<e>>, t3, c3) /\ Good(t3)
  BY <1>0, <1>6, <1>8, MendedLeads
<1>10. (<<f>> \o <<l>>) \o <<e>> = <<f, l, e>>
  BY Joining
<1>11. Leads(s, <<f, l, e>>, t3) /\ t3.dir.vis = k
  BY <1>9, <1>10 DEF Fills
<1>12. PICK t : PublishesTo(t3, k, k, FenceDoc(g), plan, t)
  <2>1. Apt(k, t3)
    BY <1>9, <1>11, GoodApt
  <2>2. k[FenceDoc(g)] \in {Absent, plan}
    BY DEF Publishable
  <2>3. Welcome(t3, k, FenceDoc(g), plan)
    BY <2>1, <2>2, FenceDocApt DEF Welcome
  <2>4. StageKept(k, k, FenceDoc(g)) /\ FenceDoc(g) \in Records
    BY RecordsApart DEF StageKept
  <2> QED BY <1>9, <1>11, <2>3, <2>4, PublishRun
<1>13. Leads(t3, publish(k, FenceDoc(g), plan), t)
  BY <1>12 DEF PublishesTo, Turns
<1>14. Leads(s, <<f, l, e>> \o publish(k, FenceDoc(g), plan), t)
  BY <1>11, <1>13, Then
<1>15. <<f, l, e>> \o publish(k, FenceDoc(g), plan) # <<>>
  <2>1. <<f, l, e>> # <<>>
    OBVIOUS
  <2> QED BY <1>11, <1>13, <2>1, More
<1> QED BY <1>14, <1>15 DEF FenceScript, f, l, e

\* prepare.
PrepareScript(k, g, plan) ==
    publish(k, Receipts(g), plan) \o publish(k, Intent(g), plan) \o publish(k, Pending, plan)
LEMMA OtherRecord ==
    ASSUME NEW k, NEW m, NEW a \in Records, NEW v, Noted(m, k, a, v), NEW n \in Records, n # a
    PROVE  StageKept(k, m, n) /\ m[n] = k[n] /\ m[Stage(n)] = k[Stage(n)]
<1>1. n \notin {a, Stage(a)} /\ Stage(n) \notin {a, Stage(a)} /\ n \in Names /\ Stage(n) \in Names
  BY StagesNamed
<1> QED BY <1>1 DEF Noted, StageKept
LEMMA PrepareStays ==
    ASSUME NEW s, Good(s), NEW k, k = s.dir.vis, NEW plan \in Plans, NEW g \in Moving,
           plan.config.gen = g, k[Pending] = Absent, Publishable(k, Receipts(g), plan),
           Publishable(k, Intent(g), plan), Publishable(k, Pending, plan)
    PROVE  PrepareScript(k, g, plan) # <<>> /\ \E t : Leads(s, PrepareScript(k, g, plan), t)
<1>0. /\ Receipts(g) \in Records /\ Intent(g) \in Records /\ Pending \in Records
      /\ Receipts(g) # Intent(g) /\ Pending \notin {Receipts(g), Intent(g)}
  BY RecordsApart, RecordsNamed
<1>1. PICK t1 : PublishesTo(s, k, k, Receipts(g), plan, t1)
  <2>1. Apt(k, s) /\ k[Intent(g)] \in {Absent, plan}
    BY GoodApt DEF Publishable
  <2>2. Welcome(s, k, Receipts(g), plan)
    BY <2>1, ReceiptsApt DEF Welcome
  <2>3. StageKept(k, k, Receipts(g))
    BY DEF StageKept
  <2> QED BY <1>0, <2>2, <2>3, PublishRun
<1> DEFINE m1 == t1.dir.vis
<1>2. Noted(m1, k, Receipts(g), plan) /\ Leads(s, publish(k, Receipts(g), plan), t1)
  BY <1>1 DEF PublishesTo, Turns
<1>3. Good(t1)
  BY <1>2, Leading
<1>4. m1[Receipts(g)] = plan
  BY <1>2 DEF Noted
<1>5. /\ StageKept(k, m1, Intent(g)) /\ m1[Intent(g)] = k[Intent(g)]
      /\ m1[Stage(Intent(g))] = k[Stage(Intent(g))]
  <2> HIDE DEF m1
  <2> QED BY <1>0, <1>2, OtherRecord
<1>6. /\ StageKept(k, m1, Pending) /\ m1[Pending] = k[Pending]
      /\ m1[Stage(Pending)] = k[Stage(Pending)]
  <2> HIDE DEF m1
  <2> QED BY <1>0, <1>2, OtherRecord
<1>7. PICK t2 : PublishesTo(t1, k, m1, Intent(g), plan, t2)
  <2>1. Apt(m1, t1)
    BY <1>3, GoodApt
  <2>2. m1[Intent(g)] \in {Absent, plan} /\ Publishable(m1, Intent(g), plan)
    BY <1>5 DEF Publishable
  <2> HIDE DEF m1
  <2>3. Welcome(t1, m1, Intent(g), plan)
    BY <1>4, <2>1, <2>2, IntentApt DEF Welcome
  <2> QED BY <1>0, <1>3, <1>5, <2>2, <2>3, PublishRun DEF m1
<1> DEFINE m2 == t2.dir.vis
<1>8. Noted(m2, m1, Intent(g), plan) /\ Leads(t1, publish(k, Intent(g), plan), t2)
  BY <1>7 DEF PublishesTo, Turns
<1>9. Good(t2)
  BY <1>8, Leading
<1>10. m2[Intent(g)] = plan
  BY <1>8 DEF Noted
<1>11. StageKept(m1, m2, Pending)
  <2> HIDE DEF m1, m2
  <2> QED BY <1>0, <1>8, OtherRecord
<1>12. StageKept(k, m2, Pending)
  BY <1>6, <1>11 DEF StageKept
<1>13. PICK t3 : PublishesTo(t2, k, m2, Pending, plan, t3)
  <2>1. Apt(m2, t2)
    BY <1>9, GoodApt
  <2>2. m2[Pending] \in {Absent, plan} /\ Publishable(m2, Pending, plan)
    BY <1>12 DEF Publishable, StageKept
  <2> HIDE DEF m2
  <2>3. Welcome(t2, m2, Pending, plan)
    BY <1>10, <2>1, <2>2, PendingApt DEF Welcome
  <2> QED BY <1>0, <1>9, <1>12, <2>2, <2>3, PublishRun DEF m2
<1>14. Leads(t2, publish(k, Pending, plan), t3)
  BY <1>13 DEF PublishesTo, Turns
<1>15. Leads(s, publish(k, Receipts(g), plan) \o publish(k, Intent(g), plan), t2)
  BY <1>2, <1>8, Then
<1>16. Leads(s, PrepareScript(k, g, plan), t3)
  BY <1>14, <1>15, Then DEF PrepareScript
<1>17. PrepareScript(k, g, plan) # <<>>
  <2>1. publish(k, Pending, plan) = <<put(Stage(Pending), plan), sync>> \o <<move(Stage(Pending), Pending), sync>>
        \/ publish(k, Pending, plan) = <<>> \o <<move(Stage(Pending), Pending), sync>>
    BY DEF publish
  <2> DEFINE a == put(Stage(Pending), plan)
             b == move(Stage(Pending), Pending)
  <2>2. <<a, sync>> \o <<b, sync>> # <<>> /\ <<>> \o <<b, sync>> # <<>>
    <3> HIDE DEF a, b
    <3>1. <<b, sync>> # <<>> /\ <<b, sync>> \in Seq({a, b, sync}) /\ <<a, sync>> \in Seq({a, b, sync})
      OBVIOUS
    <3>2. Len(<<a, sync>> \o <<b, sync>>) = 4 /\ Len(<<>> \o <<b, sync>>) = 2 /\ Len(<<>>) = 0
      OBVIOUS
    <3> QED BY <3>2
  <2>3. publish(k, Pending, plan) # <<>>
    BY <2>1, <2>2
  <2> QED BY <1>14, <1>15, <2>3, More DEF PrepareScript
<1> QED BY <1>16, <1>17

\* The operations that are left of the creation of a successor.
Lacking(b, phases, o) == IF b[o.gen].phase \in phases THEN <<>> ELSE <<o>>
SuccessorScript(b, g, plan) ==
    Lacking(b, {"marked", "made", "seeded"}, store("marked", g + 1, plan))
    \o Lacking(b, {"made", "seeded"}, store("made", g + 1, plan))
    \o Lacking(b, {"seeded"}, store("seeded", g + 1, plan))
LEMMA SuccessorStays ==
    ASSUME NEW s, Good(s), NEW g \in Moving, NEW plan \in Plans,
           s.box[g].phase = "seeded", s.box[g].fence = plan
    PROVE  \E t, c : /\ Fills(s, SuccessorScript(s.box, g, plan), t, c)
                     /\ c[g + 1].phase = "seeded" /\ c[g].fence = plan
<1> DEFINE h == g + 1
           b == s.box
           M == Lacking(b, {"marked", "made", "seeded"}, store("marked", h, plan))
           D == Lacking(b, {"made", "seeded"}, store("made", h, plan))
           E == Lacking(b, {"seeded"}, store("seeded", h, plan))
           km == store("marked", h, plan)
           kd == store("made", h, plan)
           ks == store("seeded", h, plan)
<1>0. /\ h \in 1..MaxGen /\ h \in Gens /\ g \in Gens /\ g # h /\ h - 1 = g /\ plan \in Values
      /\ g \in Gens \ {h}
  BY RecordsApart, HostAssumption DEF Values, Moving, Gens
<1>1. km.gen = h /\ kd.gen = h /\ ks.gen = h
  BY DEF store
<1>2. /\ M = IF b[h].phase \in {"marked", "made", "seeded"} THEN <<>> ELSE <<km>>
      /\ D = IF b[h].phase \in {"made", "seeded"} THEN <<>> ELSE <<kd>>
      /\ E = IF b[h].phase \in {"seeded"} THEN <<>> ELSE <<ks>>
  BY <1>1 DEF Lacking
<1>3. SuccessorScript(b, g, plan) = (M \o D) \o E
  BY DEF SuccessorScript
<1> HIDE DEF M, D, E, km, kd, ks, h
<1>4. PICK t1, c1 : /\ Fills(s, M, t1, c1) /\ Good(t1) /\ c1[g] = b[g]
                    /\ b[h].phase = "absent" => c1[h].phase = "marked"
                    /\ b[h].phase # "absent" => c1[h].phase = b[h].phase
  <2>1. CASE M = <<>>
    <3>1. Fills(s, M, s, b)
      BY <2>1, FillsNothing
    <3>2. b[h].phase # "absent"
      BY <1>2, <2>1
    <3> QED BY <3>1, <3>2
  <2>2. CASE M = <<km>> /\ b[h].phase \notin {"marked", "made", "seeded"}
    <3>1. b[h].phase # "seeded"
      BY <2>2
    <3>2. PICK y : Mended(s, h, km, y) /\ y.phase = "marked"
      BY <1>0, <3>1, MarkRun DEF km
    <3>3. PICK u, c : Fills(s, <<km>>, u, c) /\ c[h] = y /\ Good(u) /\ \A i \in Gens \ {h} : c[i] = b[i]
      BY <1>0, <3>2, MendedFirst
    <3>4. b[h].phase \in {"absent", "marked", "made", "seeded"}
      BY <1>0, KnownFacts DEF Known
    <3>5. c[g] = b[g] /\ c[h].phase = "marked" /\ b[h].phase = "absent" /\ Fills(s, M, u, c)
      BY <1>0, <2>2, <3>2, <3>3, <3>4
    <3> QED BY <3>3, <3>5
  <2> QED BY <1>2, <2>1, <2>2
<1>5. t1.box = c1
  BY <1>4 DEF Fills
<1>6. PICK t2, c2 : /\ Fills(s, M \o D, t2, c2) /\ Good(t2) /\ c2[g] = b[g]
                    /\ b[h].phase # "seeded" => c2[h].phase = "made"
                    /\ b[h].phase = "seeded" => c2[h].phase = "seeded"
  <2>0. b[h].phase \in {"absent", "marked", "made", "seeded"}
    BY <1>0, KnownFacts DEF Known
  <2>1. CASE D = <<>>
    <3>1. Fills(t1, D, t1, c1)
      BY <2>1, <1>4, <1>5, FillsNothing
    <3>2. b[h].phase \in {"made", "seeded"}
      BY <1>2, <2>1
    <3>3. Fills(s, M \o D, t1, c1)
      BY <1>4, <3>1, FillsThen
    <3> QED BY <1>4, <3>2, <3>3
  <2>2. CASE D = <<kd>> /\ b[h].phase \notin {"made", "seeded"}
    <3>1. t1.box[h].phase # "seeded"
      BY <1>4, <1>5, <2>0, <2>2
    <3>2. PICK y : Mended(t1, h, kd, y) /\ y.phase = "made"
      BY <1>0, <1>4, <3>1, MakeRun DEF kd
    <3>3. PICK u, c : Fills(s, M \o <<kd>>, u, c) /\ c[h] = y /\ Good(u) /\ \A i \in Gens \ {h} : c[i] = c1[i]
      BY <1>0, <1>4, <3>2, MendedLeads
    <3>4. c[g] = b[g] /\ c[h].phase = "made" /\ Fills(s, M \o D, u, c)
      BY <1>0, <1>4, <2>2, <3>2, <3>3
    <3> QED BY <2>2, <3>3, <3>4
  <2> QED BY <1>2, <2>1, <2>2
<1>7. t2.box = c2
  BY <1>6 DEF Fills
<1>8. PICK t3, c3 : Fills(s, (M \o D) \o E, t3, c3) /\ c3[g] = b[g] /\ c3[h].phase = "seeded"
  <2>1. CASE E = <<>>
    <3>1. Fills(t2, E, t2, c2)
      BY <2>1, <1>6, <1>7, FillsNothing
    <3>2. b[h].phase = "seeded"
      BY <1>2, <2>1
    <3>3. Fills(s, (M \o D) \o E, t2, c2)
      BY <1>6, <3>1, FillsThen
    <3> QED BY <1>6, <3>2, <3>3
  <2>2. CASE E = <<ks>> /\ b[h].phase # "seeded"
    <3>1. t2.box[h].phase # "seeded" /\ t2.box[h - 1].phase = "seeded" /\ t2.box[h - 1].fence = plan
      BY <1>0, <1>6, <1>7, <2>2
    <3>2. PICK y : Mended(t2, h, ks, y) /\ y.phase = "seeded"
      BY <1>0, <1>6, <3>1, SeedRun DEF ks
    <3>3. PICK u, c : Fills(s, (M \o D) \o <<ks>>, u, c) /\ c[h] = y /\ Good(u) /\ \A i \in Gens \ {h} : c[i] = c2[i]
      BY <1>0, <1>6, <3>2, MendedLeads
    <3>4. c[g] = b[g] /\ c[h].phase = "seeded" /\ Fills(s, (M \o D) \o E, u, c)
      BY <1>0, <1>6, <2>2, <3>2, <3>3
    <3> QED BY <3>4
  <2> QED BY <1>2, <2>1, <2>2
<1>9. c3[g].fence = plan
  BY <1>8
<1> QED BY <1>3, <1>8, <1>9 DEF h

\* The file of a token that the configuration does not list.
LEMMA TokenApt ==
    ASSUME NEW s, NEW k, Apt(k, s), NEW c, Plain(k, c), c.token = 0, NEW v \in Nat,
           NEW m, m = After(k, put("token", v))
    PROVE  Apt(m, s) /\ Plain(m, c) /\ m["token"] = v /\ Kin(m, k)
<1>1. Typed(k) /\ k \in Maps /\ Base(k) = c /\ Selects(k, s, c) /\ Backing(k, s.box, c) /\ c \in Configs
  <2>1. Typed(k) /\ k \in Maps /\ Selects(k, s, Base(k)) /\ Base(k) \in Configs
    BY AptMap, AptGives
  <2>2. ~Restores(k) /\ Base(k) = c
    BY DEF Plain, Restores, Base
  <2> QED BY <2>1, <2>2 DEF Selects
<1>2. "token" \in Names /\ "token" \in Own /\ "token" \in Data /\ v \in Values
  BY BackupsNamed, OwnNamed DEF Values
<1>3. m \in Maps /\ m["token"] = v /\ \A x \in Names \ {"token"} : m[x] = k[x]
  BY <1>1, <1>2, PutMap
<1>4. /\ m["seal"] = Absent /\ (\A b \in Backups : m[b] = Absent)
      /\ m["config"] = c /\ m["complete"] = c
      /\ \A n \in Data \ {"token"} : m[n] = k[n]
  BY <1>2, <1>3, OwnNamed DEF Plain
<1>5. Loads(m)
  <2>1. Listed(c) = Data \ {"token"}
    BY DEF Listed
  <2>2. c # Absent /\ \A n \in Listed(c) : k[n] = c[n]
    BY DEF Plain, Loads
  <2> QED BY <1>4, <2>1, <2>2 DEF Loads
<1>6. Plain(m, c)
  BY <1>4, <1>5 DEF Plain
<1>7. Typed(m) /\ Kin(m, k)
  <2>1. \A n \in Data : m[n] \in Nat \cup {Absent} /\ m[Backup(n)] \in Nat \cup {Absent}
    <3>1. \A n \in Data : k[n] \in Nat \cup {Absent}
      BY <1>1 DEF Typed
    <3> QED BY <1>2, <1>3, <1>4, <3>1, BackupsNamed
  <2>2. m["config.bak"] = Absent
    BY <1>4, OwnNamed
  <2>3. \A x \in Names \ Own : m[x] = k[x]
    BY <1>2, <1>3
  <2> QED BY <1>1, <1>3, <1>4, <2>1, <2>2, <2>3, OwnTyped
<1>8. Recoverable(m) /\ Base(m) = c /\ m["config.bak"] = Absent
  BY <1>4, <1>5, OwnNamed DEF Recoverable, Base, Restores
<1>9. Apt(m, s)
  BY <1>1, <1>4, <1>7, <1>8, AptKin
<1> QED BY <1>3, <1>6, <1>7, <1>9

\* A mutation.
Fitting(L, c, next, pre) ==
    \A m : Plain(m, c) /\ (pre # <<>> => m["token"] = next.token) => Replaces(m, L, c, next)
MutateScript(k, order, pre, L, next) ==
    LET rec == recover_seal(k, order)
    IN rec \o pre \o Sealing(Done(Done(k, rec), pre), L, next, order) \o <<ack(next)>>
LEMMA TidyPlain ==
    ASSUME NEW m, NEW k, NEW c, Tidy(m, k, c)
    PROVE  Plain(m, c) /\ Kin(m, k) /\ Base(m) = c
<1>1. \A n \in Records : n \in Names \ Own
  BY StagesNamed
<1> QED BY <1>1 DEF Tidy, Plain, Kin, Base, Restores
LEMMA MutateStays ==
    ASSUME NEW s, Good(s), NEW k, k = s.dir.vis, NEW order \in Orders, NEW c, c = Base(k),
           NEW next \in Configs, next.serial = c.serial + 1, next.gen = c.gen,
           NEW pre, pre = <<>> \/ (c.token = 0 /\ pre = rewrite("token", next.token)),
           NEW L, Fitting(L, c, next, pre)
    PROVE  \E t : Leads(s, MutateScript(k, order, pre, L, next), t)
<1> DEFINE rec == recover_seal(k, order)
<1>1. PICK t1 : RecoversTo(s, k, order, t1)
  BY RecoverRun
<1> DEFINE m1 == t1.dir.vis
<1>2. Turns(s, rec, t1, m1) /\ Tidy(m1, k, c) /\ c \in Configs
  BY <1>1, GoodApt, AptGives DEF RecoversTo
<1>3. Good(t1) /\ SameBooks(t1, s) /\ Leads(s, rec, t1) /\ Apt(m1, t1)
  BY <1>2, Leading, GoodApt DEF Turns
<1>4. Done(k, rec) = m1
  BY <1>2, TurnsDone
<1>5. Plain(m1, c) /\ Kin(m1, k)
  BY <1>2, TidyPlain
<1> HIDE DEF rec, m1
<1>6. PICK t2 : /\ Turns(t1, pre, t2, t2.dir.vis) /\ Plain(t2.dir.vis, c)
                /\ pre # <<>> => t2.dir.vis["token"] = next.token
  <2>1. CASE pre = <<>>
    <3>1. Turns(t1, pre, t1, t1.dir.vis)
      BY <1>3, <2>1, TurnsNothing
    <3> QED BY <3>1, <1>5, <2>1 DEF m1
  <2>2. CASE c.token = 0 /\ pre = rewrite("token", next.token)
    <3> DEFINE v == next.token
               m2 == After(m1, put("token", v))
    <3>1. v \in Nat /\ "token" \in Names /\ v \in Values
      BY BackupsNamed, OwnNamed DEF Configs, Values
    <3> HIDE DEF v, m2
    <3>2. Apt(m2, t1) /\ Plain(m2, c) /\ m2["token"] = v
      BY <1>3, <1>5, <2>2, <3>1, TokenApt DEF m2
    <3>3. PICK t : Turns(t1, rewrite("token", v), t, m2)
      BY <1>3, <3>1, <3>2, TurnsRewrite DEF m1, m2
    <3>4. t.dir.vis = m2
      BY <3>3 DEF Turns
    <3> QED BY <2>2, <3>2, <3>3, <3>4 DEF v
  <2> QED BY <2>1, <2>2
<1> DEFINE m2 == t2.dir.vis
<1>7. Good(t2) /\ Leads(t1, pre, t2) /\ Apt(m2, t2)
  BY <1>6, Leading, GoodApt DEF Turns
<1>8. Done(m1, pre) = m2
  BY <1>6, TurnsDone DEF m1
<1> HIDE DEF m2
<1>9. Sealable(t2, m2, L, c, next)
  <2>1. Plain(m2, c) /\ Replaces(m2, L, c, next)
    BY <1>6 DEF Fitting, m2
  <2>2. Base(m2) = c
    BY <2>1 DEF Base, Restores, Plain
  <2>3. Selects(m2, t2, c)
    BY <1>7, <2>2, AptGives
  <2>4. c.serial \in Nat /\ c.gen \in Gens
    BY <1>2, ConfigFacts
  <2>5. t2.acked \in Nat
    BY <1>7 DEF Good
  <2>6. Selects(m2, t2, next)
    <3>1. next.serial >= t2.acked
      BY <2>3, <2>4, <2>5 DEF Selects
    <3>2. Backing(m2, t2.box, next)
      BY <2>3 DEF Selects, Backing
    <3>3. ~t2.lossy => Waits(m2, t2.box, next)
      BY <2>3 DEF Selects, Waits
    <3> QED BY <3>1, <3>2, <3>3 DEF Selects
  <2> QED BY <1>2, <1>7, <2>1, <2>3, <2>6 DEF Sealable
<1>10. PICK t3 : SealsTo(t2, m2, L, next, order, t3)
  BY <1>7, <1>9, SealingRun DEF m2
<1>11. /\ Leads(t2, Sealing(m2, L, next, order), t3) /\ t3.dir.disk = {t3.dir.vis}
       /\ Tidy(t3.dir.vis, m2, next)
  BY <1>10 DEF SealsTo, Turns
<1>12. Good(t3)
  BY <1>11, Leading
<1>13. Leads(t3, <<ack(next)>>, Effect(t3, ack(next)))
  BY <1>11, <1>12, AckRun
<1> DEFINE S == Sealing(m2, L, next, order)
           A == <<ack(next)>>
           t4 == Effect(t3, ack(next))
<1>14. Leads(t2, S, t3) /\ Leads(t3, A, t4)
  BY <1>11, <1>13
<1>15. MutateScript(k, order, pre, L, next) = ((rec \o pre) \o S) \o A
  BY <1>4, <1>8 DEF MutateScript, rec
<1> HIDE DEF S, A, t4
<1>16. Leads(s, rec \o pre, t2)
  BY <1>3, <1>7, Then
<1>17. Leads(s, (rec \o pre) \o S, t3)
  BY <1>14, <1>16, Then
<1>18. Leads(s, ((rec \o pre) \o S) \o A, t4)
  BY <1>14, <1>17, Then
<1> QED BY <1>15, <1>18

\* The configuration of a mutation.
NextOf(c, fields, v) ==
    [f \in DOMAIN c |-> IF f \in fields THEN v ELSE IF f = "serial" THEN c.serial + 1 ELSE c[f]]
LEMMA NextFacts ==
    ASSUME NEW c \in Configs, NEW fields \in SUBSET Data, NEW v \in Nat, NEW next, next = NextOf(c, fields, v)
    PROVE  /\ next \in Configs /\ next.serial = c.serial + 1 /\ next.gen = c.gen
           /\ \A n \in Data : next[n] = IF n \in fields THEN v ELSE c[n]
<1> DEFINE F == {"serial", "gen", "conn", "leaf", "token"}
           R == [serial |-> c.serial + 1, gen |-> c.gen,
                 conn |-> IF "conn" \in fields THEN v ELSE c.conn,
                 leaf |-> IF "leaf" \in fields THEN v ELSE c.leaf,
                 token |-> IF "token" \in fields THEN v ELSE c.token]
<1>1. DOMAIN c = F /\ c.serial \in Nat /\ c.gen \in Gens /\ \A n \in Data : c[n] \in Nat
  BY ConfigFacts DEF Configs
<1>2. next = [f \in F |-> IF f \in fields THEN v ELSE IF f = "serial" THEN c.serial + 1 ELSE c[f]]
  BY <1>1 DEF NextOf
<1>3. "serial" \notin fields /\ "gen" \notin fields
  BY DEF Data
<1>4. /\ next["serial"] = c.serial + 1 /\ next["gen"] = c.gen
      /\ next["conn"] = IF "conn" \in fields THEN v ELSE c.conn
      /\ next["leaf"] = IF "leaf" \in fields THEN v ELSE c.leaf
      /\ next["token"] = IF "token" \in fields THEN v ELSE c.token
  BY <1>2, <1>3
<1>5. R = [f \in F |-> R[f]] /\ next = [f \in F |-> next[f]]
  BY <1>2
<1>6. \A f \in F : R[f] = next[f]
  BY <1>4
<1>7. next = R
  <2> HIDE DEF R, F
  <2>1. [f \in F |-> R[f]] = [f \in F |-> next[f]]
    BY <1>6
  <2> QED BY <1>5, <2>1
<1>8. R \in Configs
  <2>1. "conn" \in Data /\ "leaf" \in Data /\ "token" \in Data
    BY DEF Data
  <2> QED BY <1>1, <2>1 DEF Configs
<1>9. \A n \in Data : n = "conn" \/ n = "leaf" \/ n = "token"
  BY DEF Data
<1> QED BY <1>4, <1>7, <1>8, <1>9

\* What each mutation replaces fits its configuration.
LEMMA RenewFits ==
    ASSUME NEW c \in Configs, NEW v \in Nat, NEW next, next = NextOf(c, {"leaf", "conn"}, v)
    PROVE  next \in Configs /\ Fitting(<<<<"leaf", v>>, <<"conn", v>>>>, c, next, <<>>)
<1> DEFINE L == <<<<"leaf", v>>, <<"conn", v>>>>
<1>1. /\ next \in Configs /\ next.serial = c.serial + 1
      /\ next["leaf"] = v /\ next["conn"] = v /\ next["token"] = c["token"]
  <2> DEFINE F == {"leaf", "conn"}
  <2>1. F \in SUBSET Data /\ "token" \in Data /\ "conn" \in Data /\ "leaf" \in Data
    BY DEF Data
  <2>2. "leaf" \in F /\ "conn" \in F /\ "token" \notin F /\ next = NextOf(c, F, v)
    OBVIOUS
  <2> HIDE DEF F
  <2>3. /\ next \in Configs /\ next.serial = c.serial + 1
        /\ \A n \in Data : next[n] = IF n \in F THEN v ELSE c[n]
    BY ONLY c \in Configs, v \in Nat, <2>1, <2>2, NextFacts
  <2> QED BY <2>1, <2>2, <2>3
<1>2. /\ Len(L) = 2 /\ DOMAIN L = 1..2 /\ L[1][1] = "leaf" /\ L[1][2] = v
      /\ L[2][1] = "conn" /\ L[2][2] = v
  OBVIOUS
<1>3. c.serial \in Nat
  BY ConfigFacts
<1> HIDE DEF L
<1>4. ASSUME NEW m, Plain(m, c) PROVE Replaces(m, L, c, next)
  <2>1. m["config"] = c /\ \A n \in Listed(c) : m[n] = c[n]
    BY <1>4 DEF Plain, Loads
  <2>2. "leaf" \in Listed(c) /\ "conn" \in Listed(c) /\ Listed(next) = Listed(c)
    BY <1>1 DEF Listed, Data
  <2>3. \A i \in 1..2 : i = 1 \/ i = 2
    OBVIOUS
  <2>4. \A i \in 1..Len(L) : L[i][1] \in Listed(c) /\ L[i][2] = next[L[i][1]]
    BY <1>1, <1>2, <2>2, <2>3
  <2>5. ASSUME NEW n \in Listed(next) PROVE m[n] = next[n] \/ \E i \in 1..Len(L) : L[i][1] = n
    <3>1. n = "leaf" \/ n = "conn" \/ n = "token"
      BY DEF Listed, Data
    <3>2. n = "token" => m[n] = next[n]
      BY <1>1, <2>1, <2>2, <2>5
    <3>3. 1 \in 1..Len(L) /\ 2 \in 1..Len(L)
      BY <1>2
    <3> QED BY <1>2, <3>1, <3>2, <3>3
  <2>6. next.serial # c.serial
    BY <1>1, <1>3
  <2> QED BY <1>2, <2>4, <2>5, <2>6 DEF Replaces
<1> QED BY <1>1, <1>4 DEF Fitting, L
LEMMA NoneFits ==
    ASSUME NEW c \in Configs, NEW next \in Configs, next.serial = c.serial + 1,
           NEW m, Plain(m, c), \A n \in Listed(next) : m[n] = next[n]
    PROVE  Replaces(m, <<>>, c, next)
<1>1. next.serial # c.serial
  BY ConfigFacts
<1>2. Len(<<>>) = 0 /\ DOMAIN <<>> = 1..0 /\ \A i \in 1..0 : FALSE
  OBVIOUS
<1> QED BY <1>1, <1>2 DEF Replaces
LEMMA RevokeFits ==
    ASSUME NEW c \in Configs, NEW v \in Nat, NEW next, next = NextOf(c, {}, v)
    PROVE  next \in Configs /\ Fitting(<<>>, c, next, <<>>)
<1>1. next \in Configs /\ next.serial = c.serial + 1 /\ \A n \in Data : next[n] = c[n]
  <2>1. {} \in SUBSET Data
    OBVIOUS
  <2> QED BY <2>1, NextFacts
<1>2. Listed(next) = Listed(c) /\ Listed(c) \subseteq Data
  BY <1>1 DEF Listed, Data
<1>3. ASSUME NEW m, Plain(m, c) PROVE Replaces(m, <<>>, c, next)
  <2>1. \A n \in Listed(c) : m[n] = c[n]
    BY <1>3 DEF Plain, Loads
  <2> QED BY <1>1, <1>2, <1>3, <2>1, NoneFits
<1> QED BY <1>1, <1>3 DEF Fitting
LEMMA AddFits ==
    ASSUME NEW c \in Configs, c.token = 0, NEW v \in Nat, NEW next, next = NextOf(c, {"token"}, v)
    PROVE  next \in Configs /\ next.token = v /\ Fitting(<<>>, c, next, rewrite("token", v))
<1>1. /\ next \in Configs /\ next.serial = c.serial + 1 /\ next["token"] = v
      /\ next["conn"] = c["conn"] /\ next["leaf"] = c["leaf"]
  <2>1. {"token"} \in SUBSET Data /\ "token" \in Data /\ "conn" \in Data /\ "leaf" \in Data
    BY DEF Data
  <2> QED BY <2>1, NextFacts
<1>2. rewrite("token", v) # <<>>
  BY DEF rewrite
<1>3. ASSUME NEW m, Plain(m, c), m["token"] = next.token PROVE Replaces(m, <<>>, c, next)
  <2>1. \A n \in Listed(c) : m[n] = c[n]
    BY <1>3 DEF Plain, Loads
  <2>2. \A n \in Listed(next) : n = "token" \/ (n \in Listed(c) /\ next[n] = c[n])
    BY <1>1 DEF Listed, Data
  <2>3. \A n \in Listed(next) : m[n] = next[n]
    BY <1>3, <2>1, <2>2
  <2> QED BY <1>1, <1>3, <2>3, NoneFits
<1>4. ASSUME NEW m, Plain(m, c), rewrite("token", v) # <<>> => m["token"] = next.token
      PROVE  Replaces(m, <<>>, c, next)
  BY <1>2, <1>3, <1>4
<1> HIDE DEF Fitting
<1>5. Fitting(<<>>, c, next, rewrite("token", v))
  BY <1>4 DEF Fitting
<1> QED BY <1>1, <1>5
LEMMA ReplaceFits ==
    ASSUME NEW c \in Configs, c.token # 0, NEW v \in Nat, NEW next, next = NextOf(c, {"token"}, v)
    PROVE  next \in Configs /\ Fitting(<<<<"token", v>>>>, c, next, <<>>)
<1> DEFINE L == <<<<"token", v>>>>
<1>1. /\ next \in Configs /\ next.serial = c.serial + 1 /\ next["token"] = v
      /\ next["conn"] = c["conn"] /\ next["leaf"] = c["leaf"]
  <2>1. {"token"} \in SUBSET Data /\ "token" \in Data /\ "conn" \in Data /\ "leaf" \in Data
    BY DEF Data
  <2>2. /\ next \in Configs /\ next.serial = c.serial + 1
        /\ \A n \in Data : next[n] = IF n \in {"token"} THEN v ELSE c[n]
    <3>1. c \in Configs /\ v \in Nat /\ next = NextOf(c, {"token"}, v)
      OBVIOUS
    <3> QED BY ONLY <2>1, <3>1, NextFacts
  <2> QED BY <2>1, <2>2
<1>2. Len(L) = 1 /\ DOMAIN L = 1..1 /\ L[1][1] = "token" /\ L[1][2] = v
  OBVIOUS
<1>3. c.serial \in Nat
  BY ConfigFacts
<1> HIDE DEF L
<1>4. ASSUME NEW m, Plain(m, c) PROVE Replaces(m, L, c, next)
  <2>1. \A n \in Listed(c) : m[n] = c[n]
    BY <1>4 DEF Plain, Loads
  <2>2. "token" \in Listed(c) /\ Listed(c) = Data /\ Listed(next) \subseteq Data
    BY DEF Listed, Data
  <2>3. \A i \in 1..Len(L) : L[i][1] \in Listed(c) /\ L[i][2] = next[L[i][1]]
    BY <1>1, <1>2, <2>2
  <2>4. ASSUME NEW n \in Listed(next) PROVE m[n] = next[n] \/ \E i \in 1..Len(L) : L[i][1] = n
    <3>1. n = "leaf" \/ n = "conn" \/ n = "token"
      BY <2>2 DEF Data
    <3>2. n # "token" => m[n] = next[n]
      BY <1>1, <2>1, <2>2, <3>1
    <3>3. 1 \in 1..Len(L)
      BY <1>2
    <3> QED BY <1>2, <3>2, <3>3
  <2>5. next.serial # c.serial
    BY <1>1, <1>3
  <2> QED BY <1>2, <2>3, <2>4, <2>5 DEF Replaces
<1> QED BY <1>1, <1>4 DEF Fitting, L

\* A cutover.
LEMMA PlannedFacts ==
    ASSUME NEW plan \in Plans, plan.config.gen \in Moving, NEW next, next = planned_selection(plan)
    PROVE  /\ plan.config \in Configs /\ plan.head \in Nat /\ plan.grant \in Nat
           /\ next \in Configs /\ next.serial = plan.config.serial + 1
           /\ next.gen = plan.config.gen + 1 /\ next.gen # plan.config.gen
           /\ next["leaf"] = plan.config["leaf"] /\ next["token"] = plan.config["token"]
           /\ next.conn \in Nat /\ next["conn"] = next.conn
<1>1. plan.config \in Configs /\ plan.head \in Nat /\ plan.grant \in Nat
  BY DEF Plans
<1>2. /\ plan.config.serial \in Nat /\ plan.config.gen \in Gens
      /\ plan.config["leaf"] \in Nat /\ plan.config["token"] \in Nat
  BY <1>1, ConfigFacts DEF Data
<1>3. plan.config.gen + 1 \in Gens
  BY RecordsApart
<1>4. plan.config.gen \in Nat
  BY <1>2 DEF Gens
<1>5. next \in Configs
  BY <1>2, <1>3, <1>4 DEF Configs, planned_selection
<1> QED BY <1>1, <1>2, <1>4, <1>5 DEF planned_selection
LEMMA PlannedFits ==
    ASSUME NEW plan \in Plans, plan.config.gen \in Moving, NEW next, next = planned_selection(plan),
           NEW c, c = plan.config, NEW m, Plain(m, c)
    PROVE  Replaces(m, <<<<"conn", next.conn>>>>, c, next)
<1> DEFINE v == next.conn
           L == <<<<"conn", v>>>>
<1>1. /\ next.serial = c.serial + 1 /\ next["conn"] = v
      /\ next["leaf"] = c["leaf"] /\ next["token"] = c["token"] /\ c \in Configs
  BY PlannedFacts
<1> HIDE DEF v
<1>2. Len(L) = 1 /\ DOMAIN L = 1..1 /\ L[1][1] = "conn" /\ L[1][2] = v
  OBVIOUS
<1>3. next.serial # c.serial
  BY <1>1, ConfigFacts
<1> HIDE DEF L
<1>4. \A n \in Listed(c) : m[n] = c[n]
  BY DEF Plain, Loads
<1>5. "conn" \in Listed(c) /\ Listed(next) = Listed(c) /\ Listed(c) \subseteq Data
  BY <1>1 DEF Listed, Data
<1>6. \A i \in 1..Len(L) : L[i][1] \in Listed(c) /\ L[i][2] = next[L[i][1]]
  BY <1>1, <1>2, <1>5
<1>7. ASSUME NEW n \in Listed(next) PROVE m[n] = next[n] \/ \E i \in 1..Len(L) : L[i][1] = n
  <2>1. n = "leaf" \/ n = "conn" \/ n = "token"
    BY <1>5 DEF Data
  <2>2. n # "conn" => m[n] = next[n]
    BY <1>1, <1>4, <1>5, <2>1
  <2>3. 1 \in 1..Len(L)
    BY <1>2
  <2> QED BY <1>2, <2>2, <2>3
<1> QED BY <1>2, <1>3, <1>6, <1>7 DEF Replaces, L, v
SealUnless(k, next, plan, g, order) ==
    IF k["config"].gen > g THEN <<>>
    ELSE Sealing(Done(k, publish(k, FenceDoc(g), plan)), <<<<"conn", next.conn>>>>, next, order)
CutoverScript(k, b, order, g, plan, next) ==
    LET rec == recover_seal(k, order)
        m == Done(k, rec)
    IN rec \o publish(m, FenceDoc(g), plan) \o SuccessorScript(b, g, plan)
           \o SealUnless(m, next, plan, g, order) \o <<remove(Pending), sync, ack(next)>>
\* The selection may move to the successor.
LEMMA SelectsNext ==
    ASSUME NEW s, NEW m, NEW g \in Moving, NEW plan \in Plans, plan.config.gen = g,
           NEW c, c = plan.config, NEW next, next = planned_selection(plan), Selects(m, s, c), s.acked \in Nat,
           m[Intent(g)] = plan, m[Receipts(g)] = plan, m[FenceDoc(g)] = plan,
           s.box[g].fence = plan, s.box[g + 1].phase = "seeded"
    PROVE  Selects(m, s, next)
<1>1. /\ c \in Configs /\ next.serial = c.serial + 1 /\ next.gen = c.gen + 1 /\ c.gen = g
      /\ c.serial \in Nat /\ g \in Nat
  <2>1. plan.config \in Configs /\ next.serial = plan.config.serial + 1 /\ next.gen = plan.config.gen + 1
    BY PlannedFacts
  <2> QED BY <2>1, ConfigFacts DEF Moving
<1>2. next.serial >= s.acked
  BY <1>1 DEF Selects
<1>3. Evident(m, s.box, g)
  <2>1. plan # Absent
    BY FilesAssumption
  <2> QED BY <2>1, EvidentFacts
<1>4. Backing(m, s.box, next)
  <2> SUFFICES ASSUME NEW h \in 0..(MaxGen - 1), next.gen > h PROVE Evident(m, s.box, h)
    BY DEF Backing
  <2>1. h = g \/ c.gen > h
    BY <1>1
  <2> QED BY <2>1, <1>3 DEF Selects, Backing
<1>5. ASSUME ~s.lossy PROVE Waits(m, s.box, next)
  <2>1. Waits(m, s.box, c)
    BY <1>5 DEF Selects
  <2>2. \A h \in Gens : h < c.gen => h < next.gen
    BY <1>1 DEF Gens
  <2> QED BY <2>1, <2>2 DEF Waits
<1> QED BY <1>2, <1>4, <1>5 DEF Selects
\* The marker is removed, and the command reports.
LEMMA ForgetStays ==
    ASSUME NEW s, Good(s), NEW next \in Configs, Plain(s.dir.vis, next),
           s.dir.vis[Pending] # Absent, s.dir.vis[Pending].config.gen < next.gen
    PROVE  \E t : Leads(s, <<remove(Pending), sync, ack(next)>>, t)
<1> DEFINE k == s.dir.vis
           m == After(k, remove(Pending))
           a == remove(Pending)
           z == ack(next)
<1>1. Apt(k, s) /\ k \in Maps /\ Typed(k) /\ Base(k) = next
  <2>1. Apt(k, s) /\ k \in Maps
    BY GoodApt
  <2> QED BY <2>1, AptMap DEF Plain, Base, Restores
<1>2. Pending \in Names /\ Pending \in Records /\ Pending \notin Own /\ Stage(Pending) # Pending
  BY RecordsNamed, StagesNamed
<1>3. m \in Maps /\ m[Pending] = Absent /\ \A x \in Names \ {Pending} : m[x] = k[x]
  <2>1. m \in Maps
    BY <1>1, <1>2, MapFacts
  <2>2. Whole(k)
    BY <1>1, MapFacts
  <2> HIDE DEF k
  <2>3. m[Pending] = Absent /\ \A x \in Names \ {Pending} : m[x] = k[x]
    BY <1>2, <2>2, RemoveFacts
  <2> QED BY <2>1, <2>3
<1>4. Noted(m, k, Pending, Absent)
  <2>1. m[Stage(Pending)] \in Plans \cup {Absent}
    BY <1>1, <1>2, <1>3, StagesNamed DEF Typed
  <2> HIDE DEF m, k
  <2> QED BY <1>3, <2>1 DEF Noted
<1>5. Apt(m, s)
  <2>1. k[Pending] # Absent /\ k[Pending].config.gen < Base(k).gen
    BY <1>1
  <2> HIDE DEF m, k
  <2> QED BY <1>1, <1>4, <2>1, ForgottenApt
<1>6. PICK t1 : Turns(s, <<a>>, t1, m)
  <2>1. a \in Operations /\ a.op = "remove" /\ m = After(s.dir.vis, a)
    BY <1>2, FileOperations DEF remove
  <2> HIDE DEF m, k, a
  <2> QED BY <1>5, <2>1, TurnsOp
<1>7. Good(t1) /\ t1.dir.vis = m /\ Leads(s, <<a>>, t1)
  BY <1>6, Leading DEF Turns
<1>8. PICK t2 : Turns(t1, <<sync>>, t2, m) /\ t2.dir.disk = {m}
  BY <1>7, TurnsSync
<1>9. Good(t2) /\ t2.dir.vis = m /\ Leads(t1, <<sync>>, t2)
  BY <1>8, Leading DEF Turns
<1>10. Tidy(m, m, next)
  <2>1. \A x \in Own : m[x] = k[x]
    BY <1>2, <1>3, OwnNamed
  <2>2. Loads(m)
    <3>1. Loads(k)
      BY DEF Plain
    <3> HIDE DEF m, k
    <3> QED BY <2>1, <3>1, OwnSame
  <2>3. /\ m["seal"] = Absent /\ (\A x \in Backups : m[x] = Absent)
        /\ m["config"] = next /\ m["complete"] = next
    BY <2>1, OwnNamed DEF Plain
  <2> HIDE DEF m, k
  <2> QED BY <1>3, <2>2, <2>3 DEF Tidy
<1> DEFINE t3 == Effect(t2, ack(next))
<1>11. Leads(t2, <<z>>, t3)
  <2> HIDE DEF m, k, z
  <2> QED BY <1>8, <1>9, <1>10, AckRun DEF z
<1>12. Leads(s, (<<a>> \o <<sync>>) \o <<z>>, t3)
  <2> HIDE DEF a, z, t3
  <2>1. Leads(s, <<a>> \o <<sync>>, t2)
    BY <1>7, <1>9, Then
  <2> QED BY <1>11, <2>1, Then
<1>13. (<<a>> \o <<sync>>) \o <<z>> = <<a, sync, z>>
  <2> HIDE DEF a, z
  <2> QED BY Joining
<1> QED BY <1>12, <1>13
LEMMA CutoverStays ==
    ASSUME NEW s, Good(s), NEW k, k = s.dir.vis, NEW order \in Orders, NEW plan \in Plans, NEW g \in Moving,
           k[Pending] = plan, plan.config.gen = g, k[Receipts(g)] = plan, k[Intent(g)] = plan,
           NEW c, c = Base(k), NEW next, next = planned_selection(plan), c \in {plan.config, next},
           s.box[g].fence = plan, Publishable(Done(k, recover_seal(k, order)), FenceDoc(g), plan)
    PROVE  /\ CutoverScript(k, s.box, order, g, plan, next) # <<>>
           /\ \E t : Leads(s, CutoverScript(k, s.box, order, g, plan, next), t)
<1> DEFINE rec == recover_seal(k, order)
           b == s.box
           pub == publish(Done(k, rec), FenceDoc(g), plan)
<1>0. /\ plan.config \in Configs /\ next \in Configs /\ next.gen = g + 1 /\ plan # Absent /\ g \in Nat
      /\ g \in Gens /\ g < next.gen
      /\ FenceDoc(g) \in Records /\ Intent(g) \in Records /\ Receipts(g) \in Records /\ Pending \in Records
      /\ FenceDoc(g) \notin {Intent(g), Receipts(g), Pending}
  <2>1. plan.config \in Configs /\ next \in Configs /\ next.gen = plan.config.gen + 1
    BY PlannedFacts
  <2>2. g \in Nat
    BY DEF Moving
  <2> QED BY <2>1, <2>2, FilesAssumption, RecordsApart, RecordsNamed
<1>1. PICK t1 : RecoversTo(s, k, order, t1)
  BY RecoverRun
<1> DEFINE m1 == t1.dir.vis
<1>2. Turns(s, rec, t1, m1) /\ Tidy(m1, k, c) /\ t1.box = b
  BY <1>1 DEF RecoversTo, Turns, SameBooks
<1>3. Good(t1) /\ SameBooks(t1, s) /\ Leads(s, rec, t1) /\ Apt(m1, t1)
  BY <1>2, Leading, GoodApt DEF Turns
<1>4. Done(k, rec) = m1
  BY <1>2, TurnsDone
<1>5. Plain(m1, c) /\ Kin(m1, k) /\ Base(m1) = c
  BY <1>2, TidyPlain
<1> HIDE DEF rec, m1, b
<1>6. pub = publish(m1, FenceDoc(g), plan) /\ Publishable(m1, FenceDoc(g), plan)
  BY <1>4 DEF rec
<1>7. PICK t2 : PublishesTo(t1, m1, m1, FenceDoc(g), plan, t2)
  <2>1. m1[FenceDoc(g)] \in {Absent, plan}
    BY <1>6 DEF Publishable
  <2>2. Welcome(t1, m1, FenceDoc(g), plan)
    BY <1>3, <2>1, FenceDocApt DEF Welcome
  <2>3. StageKept(m1, m1, FenceDoc(g)) /\ m1 = t1.dir.vis
    BY DEF StageKept, m1
  <2> QED BY <1>0, <1>3, <1>6, <2>2, <2>3, PublishRun
<1> DEFINE m2 == t2.dir.vis
<1>8. /\ Turns(t1, pub, t2, m2) /\ Noted(m2, m1, FenceDoc(g), plan) /\ t2.dir.disk = {m2} /\ t2.box = b
      /\ Done(m1, pub) = m2
  <2>1. Turns(t1, pub, t2, m2) /\ Noted(m2, m1, FenceDoc(g), plan) /\ t2.dir.disk = {m2}
    BY <1>6, <1>7 DEF PublishesTo
  <2>2. Done(m1, pub) = m2
    BY <2>1, TurnsDone DEF m1
  <2> QED BY <1>2, <2>1, <2>2 DEF Turns, SameBooks
<1>9. Good(t2) /\ Leads(t1, pub, t2)
  BY <1>8, Leading DEF Turns
<1> HIDE DEF pub, m2
<1>10. /\ Plain(m2, c) /\ m2[FenceDoc(g)] = plan /\ m2[Intent(g)] = plan /\ m2[Receipts(g)] = plan
       /\ m2[Pending] = plan
  <2>1. Typed(m1)
    BY <1>3, AptGives
  <2>2. /\ m2[FenceDoc(g)] = plan /\ \A x \in Own : m2[x] = m1[x]
        /\ \A r \in Records \ {FenceDoc(g)} : m2[r] = m1[r]
    BY <1>0, <1>8, <2>1, NotedFacts
  <2>3. \A r \in Records : m1[r] = k[r]
    BY <1>5 DEF Kin
  <2>4. m2[Intent(g)] = plan /\ m2[Receipts(g)] = plan /\ m2[Pending] = plan
    BY <1>0, <2>2, <2>3
  <2>5. Plain(m2, c)
    <3>1. Loads(m1)
      BY <1>5 DEF Plain
    <3>2. Loads(m2)
      BY <2>2, <3>1, OwnSame
    <3> QED BY <1>5, <2>2, <3>2, OwnNamed DEF Plain
  <2> QED BY <2>2, <2>4, <2>5
<1>11. b[g].phase = "seeded" /\ b[g].fence = plan
  <2>1. CASE g = 0
    <3>1. Boxes(s.box)
      BY DEF Good
    <3> QED BY <2>1, <3>1 DEF Boxes, b
  <2>2. CASE g # 0
    <3>1. c.gen > g - 1 /\ g - 1 \in 0..(MaxGen - 1) /\ (g - 1) + 1 = g
      BY <1>0, <2>2, HostAssumption DEF Moving
    <3>2. Backing(k, s.box, c)
      BY GoodApt, AptGives DEF Selects
    <3>3. Evident(k, s.box, g - 1)
      BY <3>1, <3>2 DEF Backing
    <3> QED BY <3>1, <3>3, EvidentFacts DEF b
  <2> QED BY <2>1, <2>2
<1>12. PICK t3, d : /\ Fills(t2, SuccessorScript(b, g, plan), t3, d)
                    /\ d[g + 1].phase = "seeded" /\ d[g].fence = plan
  BY <1>8, <1>9, <1>11, SuccessorStays
<1> DEFINE S == SuccessorScript(b, g, plan)
           Q == SealUnless(m1, next, plan, g, order)
           F == <<remove(Pending), sync, ack(next)>>
<1>13. Leads(t2, S, t3) /\ t3.dir.vis = m2 /\ t3.box = d
  BY <1>12 DEF Fills, m2
<1>14. Good(t3)
  BY <1>13, Leading
<1> HIDE DEF S
<1>15. PICK t4 : Leads(t3, Q, t4) /\ Plain(t4.dir.vis, next) /\ t4.dir.vis[Pending] = plan
  <2>1. m1["config"] = c
    BY <1>5 DEF Plain
  <2>2. CASE c.gen > g
    <3>1. Q = <<>> /\ c = next
      BY <1>0, <2>1, <2>2 DEF SealUnless
    <3>2. Leads(t3, Q, t3)
      BY <1>14, <3>1, LeadsNothing
    <3> QED BY <3>1, <3>2, <1>10, <1>13
  <2>3. CASE ~(c.gen > g)
    <3> DEFINE L == <<<<"conn", next.conn>>>>
    <3>1. c = plan.config
      BY <1>0, <2>3
    <3>2. Q = Sealing(m2, L, next, order)
      <4>1. Q = Sealing(Done(m1, publish(m1, FenceDoc(g), plan)), L, next, order)
        BY <2>1, <2>3 DEF SealUnless
      <4> QED BY <1>6, <1>8, <4>1
    <3>3. Apt(m2, t3) /\ Base(m2) = c
      BY <1>10, <1>13, <1>14, GoodApt DEF Plain, Base, Restores
    <3>4. Selects(m2, t3, c)
      BY <3>3, AptGives
    <3>5. Selects(m2, t3, next)
      <4>1. t3.acked \in Nat
        BY <1>14 DEF Good
      <4> QED BY <1>10, <1>12, <1>13, <3>1, <3>4, <4>1, SelectsNext
    <3>6. Replaces(m2, L, c, next)
      BY <1>10, <3>1, PlannedFits
    <3> HIDE DEF L, Q
    <3>7. Sealable(t3, m2, L, c, next)
      BY <1>0, <1>10, <3>1, <3>3, <3>4, <3>5, <3>6 DEF Sealable
    <3>8. PICK t : SealsTo(t3, m2, L, next, order, t)
      BY <1>13, <1>14, <3>7, SealingRun
    <3>9. Leads(t3, Q, t) /\ Tidy(t.dir.vis, m2, next)
      BY <3>2, <3>8 DEF SealsTo, Turns
    <3>10. Plain(t.dir.vis, next) /\ Kin(t.dir.vis, m2)
      BY <3>9, TidyPlain
    <3>11. t.dir.vis[Pending] = plan
      BY <1>0, <1>10, <3>10 DEF Kin
    <3> QED BY <3>9, <3>10, <3>11
  <2> QED BY <2>2, <2>3
<1> HIDE DEF Q
<1>16. Good(t4)
  BY <1>15, Leading
<1>17. PICK t5 : Leads(t4, F, t5)
  BY <1>0, <1>15, <1>16, ForgetStays
<1>23. F # <<>>
  OBVIOUS
<1> HIDE DEF F
<1>18. Leads(s, rec \o pub, t2)
  BY <1>3, <1>9, Then
<1>19. Leads(s, (rec \o pub) \o S, t3)
  BY <1>13, <1>18, Then
<1>20. Leads(s, ((rec \o pub) \o S) \o Q, t4)
  BY <1>15, <1>19, Then
<1>21. Leads(s, (((rec \o pub) \o S) \o Q) \o F, t5)
  BY <1>17, <1>20, Then
<1>22. CutoverScript(k, b, order, g, plan, next) = (((rec \o pub) \o S) \o Q) \o F
  BY <1>4 DEF CutoverScript, rec, pub, S, Q, F
<1>24. (((rec \o pub) \o S) \o Q) \o F # <<>>
  BY <1>17, <1>20, <1>23, More
<1> QED BY <1>21, <1>22, <1>24 DEF b

-----------------------------------------------------------------------------
(* What a mutation or a recovery does, it does beside the mailboxes.        *)

Quiet(x) == \E S : x \in Seq(S) /\ \A o \in S : o.op \notin StoreOps
LEMMA QuietFacts ==
    ASSUME NEW x, Quiet(x)
    PROVE  Len(x) \in Nat /\ Aside(x)
BY DEF Quiet, Aside
LEMMA QuietThen ==
    ASSUME NEW x, Quiet(x), NEW y, Quiet(y)
    PROVE  Quiet(x \o y) /\ (x # <<>> \/ y # <<>> => x \o y # <<>>)
<1>1. PICK S : x \in Seq(S) /\ \A o \in S : o.op \notin StoreOps
  BY DEF Quiet
<1>2. PICK T : y \in Seq(T) /\ \A o \in T : o.op \notin StoreOps
  BY DEF Quiet
<1>3. x \in Seq(S \cup T) /\ y \in Seq(S \cup T)
  BY <1>1, <1>2
<1>4. /\ x \o y \in Seq(S \cup T) /\ \A o \in S \cup T : o.op \notin StoreOps
      /\ Len(x \o y) = Len(x) + Len(y) /\ Len(x) \in Nat /\ Len(y) \in Nat
      /\ x # <<>> => Len(x) > 0
      /\ y # <<>> => Len(y) > 0
  BY <1>1, <1>2, <1>3
<1>5. Len(<<>>) = 0
  OBVIOUS
<1>6. x # <<>> \/ y # <<>> => x \o y # <<>>
  BY <1>4, <1>5
<1> QED BY <1>4, <1>6 DEF Quiet
LEMMA QuietList ==
    ASSUME NEW N \in Nat, NEW f, f = [i \in 1..N |-> f[i]], \A i \in 1..N : f[i].op \notin StoreOps
    PROVE  Quiet(f) /\ (N > 0 => f # <<>>)
<1> DEFINE S == {f[i] : i \in 1..N}
<1>1. \A i \in 1..N : f[i] \in S
  OBVIOUS
<1>2. \A o \in S : o.op \notin StoreOps
  OBVIOUS
<1> HIDE DEF S
<1>3. f \in Seq(S) /\ Len(f) = N
  BY <1>1, Sequenced
<1>4. Len(<<>>) = 0
  OBVIOUS
<1> QED BY <1>2, <1>3, <1>4 DEF Quiet
LEMMA QuietIn ==
    ASSUME NEW x, NEW S, x \in Seq(S), \A o \in S : o.op \notin StoreOps
    PROVE  Quiet(x)
BY DEF Quiet
LEMMA QuietNone ==
    Quiet(<<>>) /\ \A o : o.op \notin StoreOps => Quiet(<<o>>) /\ <<o>> # <<>>
<1>1. Quiet(<<>>)
  <2> DEFINE S == {}
  <2>1. <<>> \in Seq(S) /\ \A o \in S : o.op \notin StoreOps
    OBVIOUS
  <2> HIDE DEF S
  <2> QED BY <2>1, QuietIn
<1>2. ASSUME NEW o, o.op \notin StoreOps PROVE Quiet(<<o>>) /\ <<o>> # <<>>
  <2> DEFINE S == {o}
             x == <<o>>
  <2>1. x \in Seq(S) /\ (\A y \in S : y.op \notin StoreOps) /\ x # <<>>
    BY <1>2
  <2> HIDE DEF S, x
  <2>2. Quiet(x)
    BY <2>1, QuietIn
  <2> QED BY <2>1, <2>2 DEF x
<1> QED BY <1>1, <1>2
LEMMA QuietOps ==
    /\ sync.op \notin StoreOps /\ \A n : remove(n).op \notin StoreOps
    /\ \A n, v : put(n, v).op \notin StoreOps
    /\ \A c : ack(c).op \notin StoreOps
BY DEF sync, remove, put, ack, StoreOps
LEMMA QuietRewrite ==
    ASSUME NEW n, NEW v
    PROVE  Quiet(rewrite(n, v)) /\ rewrite(n, v) # <<>>
<1>1. <<put(n, v)>> \o <<sync>> = <<put(n, v), sync>>
  BY Joining
<1>2. Quiet(<<put(n, v)>> \o <<sync>>) /\ <<put(n, v)>> \o <<sync>> # <<>>
  BY QuietNone, QuietOps, QuietThen
<1> QED BY <1>1, <1>2 DEF rewrite
LEMMA QuietRewrites ==
    ASSUME NEW L, Len(L) \in Nat
    PROVE  Quiet(rewrites(L))
<1> DEFINE f == rewrites(L)
           N == 2 * Len(L)
<1>1. N \in Nat
  OBVIOUS
<1>2. f = [i \in 1..N |-> IF i % 2 = 0 THEN sync ELSE put(L[(i + 1) \div 2][1], L[(i + 1) \div 2][2])]
  BY DEF rewrites
<1>3. f = [i \in 1..N |-> f[i]]
  BY <1>2
<1>4. \A i \in 1..N : f[i] = sync \/ \E n, v : f[i] = put(n, v)
  BY <1>2
<1>5. \A i \in 1..N : f[i].op \notin StoreOps
  BY <1>4, QuietOps
<1> HIDE DEF f, N
<1>6. Quiet(f)
  BY <1>1, <1>3, <1>5, QuietList
<1> QED BY <1>6 DEF f
LEMMA MappedLen ==
    ASSUME NEW L, Len(L) \in Nat, DOMAIN L = 1..Len(L), NEW f, f = [i \in DOMAIN L |-> f[i]]
    PROVE  Len(f) = Len(L) /\ DOMAIN f = 1..Len(L)
<1>1. f = [i \in 1..Len(L) |-> f[i]]
  OBVIOUS
<1>2. \A i \in 1..Len(L) : f[i] \in {f[j] : j \in 1..Len(L)}
  OBVIOUS
<1> QED BY <1>1, <1>2, Sequenced
LEMMA ListingLen ==
    ASSUME NEW m, NEW order \in Orders
    PROVE  LET held == Listing(m, order) IN Len(held) \in Nat /\ DOMAIN held = 1..Len(held)
BY ListingLists DEF Lists
LEMMA QuietScratch ==
    ASSUME NEW m, NEW order \in Orders
    PROVE  Quiet(remove_seal_scratch(m, order)) /\ remove_seal_scratch(m, order) # <<>>
<1> DEFINE a == IF m["seal"] # Absent THEN <<remove("seal")>> ELSE <<>>
           L == Listing(m, order)
           r == [i \in DOMAIN L |-> remove(L[i])]
<1>1. Quiet(a)
  BY QuietNone, QuietOps
<1>2. Len(L) \in Nat /\ DOMAIN L = 1..Len(L)
  BY ListingLen
<1> HIDE DEF a, L
<1>3. r = [i \in 1..Len(L) |-> r[i]] /\ \A i \in 1..Len(L) : r[i] = remove(L[i])
  BY <1>2
<1> HIDE DEF r
<1>4. Quiet(r)
  <2>1. \A i \in 1..Len(L) : r[i].op \notin StoreOps
    BY <1>3, QuietOps
  <2> QED BY <1>2, <1>3, <2>1, QuietList
<1>5. Quiet(<<sync>>) /\ <<sync>> # <<>>
  BY QuietNone, QuietOps
<1>6. Quiet(a \o <<sync>>)
  BY <1>1, <1>5, QuietThen
<1>7. Quiet((a \o <<sync>>) \o r)
  BY <1>4, <1>6, QuietThen
<1>8. Quiet(((a \o <<sync>>) \o r) \o <<sync>>) /\ ((a \o <<sync>>) \o r) \o <<sync>> # <<>>
  BY <1>5, <1>7, QuietThen
<1> QED BY <1>8 DEF remove_seal_scratch, a, r, L
LEMMA QuietRecover ==
    ASSUME NEW m, NEW order \in Orders
    PROVE  Quiet(recover_seal(m, order)) /\ recover_seal(m, order) # <<>>
<1> DEFINE held == Listing(m, order)
           list == [i \in DOMAIN held |-> <<Target(held[i]), m[held[i]]>>]
           R == RestoreOps(m, order)
<1>1. Quiet(R)
  <2>1. CASE m["seal"] # Absent /\ MustRestore(m)
    <3>1. R = rewrites(list) \o rewrite("complete", m["config.bak"])
      BY <2>1 DEF RestoreOps, restore_seal_backups
    <3>2. Len(held) \in Nat /\ DOMAIN held = 1..Len(held)
      BY ListingLen
    <3>3. list = [i \in DOMAIN held |-> list[i]]
      OBVIOUS
    <3> HIDE DEF held, list
    <3>4. Len(list) \in Nat
      BY <3>2, <3>3, MappedLen
    <3>5. Quiet(rewrites(list))
      BY <3>4, QuietRewrites
    <3> HIDE DEF R
    <3> QED BY <3>1, <3>5, QuietRewrite, QuietThen
  <2>2. CASE ~(m["seal"] # Absent /\ MustRestore(m))
    BY <2>2, QuietNone DEF RestoreOps
  <2> QED BY <2>1, <2>2
<1> HIDE DEF R
<1>2. recover_seal(m, order) = R \o remove_seal_scratch(m, order)
  BY DEF recover_seal, R
<1> QED BY <1>1, <1>2, QuietScratch, QuietThen
LEMMA QuietSealing ==
    ASSUME NEW m, NEW new, Len(new) \in Nat, DOMAIN new = 1..Len(new), NEW c, NEW order \in Orders
    PROVE  Quiet(Sealing(m, new, c, order)) /\ Sealing(m, new, c, order) # <<>>
<1> DEFINE s == saved(m, new)
           A == rewrite("config.bak", m["config"])
           B == rewrites(s)
           C == rewrite("seal", "files")
           D == rewrites(new)
           E == rewrite("seal", "committing")
           F == rewrite("config", c)
           G == rewrite("complete", c)
           begun == begin_seal(m, new) \o seal_files(new)
           H == remove_seal_scratch(Done(Done(m, begun), F \o G), order)
<1>1. Quiet(A) /\ A # <<>> /\ Quiet(C) /\ Quiet(E) /\ Quiet(F) /\ Quiet(G)
  BY QuietRewrite
<1>2. Quiet(B)
  <2>1. s = [i \in DOMAIN new |-> s[i]]
    BY DEF saved
  <2> HIDE DEF s
  <2>2. Len(s) \in Nat
    BY <2>1, MappedLen
  <2> QED BY <2>2, QuietRewrites
<1>3. Quiet(D) /\ Quiet(H)
  BY QuietRewrites, QuietScratch
<1>4. /\ begin_seal(m, new) = (A \o B) \o C /\ seal_files(new) = D \o E
      /\ Sealing(m, new, c, order) = (((A \o B) \o C) \o (D \o E)) \o ((F \o G) \o H)
  BY DEF begin_seal, seal_files, Sealing, commit_seal
<1> HIDE DEF A, B, C, D, E, F, G, H, s, begun
<1>5. Quiet(A \o B) /\ Quiet(D \o E) /\ Quiet(F \o G) /\ A \o B # <<>>
  BY <1>1, <1>2, <1>3, QuietThen
<1>6. Quiet((A \o B) \o C) /\ Quiet((F \o G) \o H) /\ (A \o B) \o C # <<>>
  BY <1>1, <1>3, <1>5, QuietThen
<1>7. Quiet(((A \o B) \o C) \o (D \o E)) /\ ((A \o B) \o C) \o (D \o E) # <<>>
  BY <1>5, <1>6, QuietThen
<1>8. /\ Quiet((((A \o B) \o C) \o (D \o E)) \o ((F \o G) \o H))
      /\ (((A \o B) \o C) \o (D \o E)) \o ((F \o G) \o H) # <<>>
  BY <1>6, <1>7, QuietThen
<1> QED BY <1>4, <1>8
LEMMA QuietMutate ==
    ASSUME NEW k, NEW order \in Orders, NEW pre, Quiet(pre), NEW L, Len(L) \in Nat, DOMAIN L = 1..Len(L), NEW next
    PROVE  Quiet(MutateScript(k, order, pre, L, next)) /\ MutateScript(k, order, pre, L, next) # <<>>
<1> DEFINE rec == recover_seal(k, order)
           S == Sealing(Done(Done(k, rec), pre), L, next, order)
           A == <<ack(next)>>
<1>1. Quiet(rec) /\ Quiet(S) /\ Quiet(A) /\ A # <<>>
  BY QuietRecover, QuietSealing, QuietNone, QuietOps
<1>2. MutateScript(k, order, pre, L, next) = ((rec \o pre) \o S) \o A
  BY DEF MutateScript
<1> HIDE DEF rec, S, A
<1>3. Quiet(rec \o pre)
  BY <1>1, QuietThen
<1>4. Quiet((rec \o pre) \o S)
  BY <1>1, <1>3, QuietThen
<1> QED BY <1>1, <1>2, <1>4, QuietThen

-----------------------------------------------------------------------------
(* The invariant.                                                           *)

LEMMA NowFields ==
    Now.dir = dir /\ Now.box = box /\ Now.acked = acked /\ Now.lossy = (losses > 0)
BY StateFields DEF Now
LEMMA NowGood ==
    ASSUME HomeInv
    PROVE  Good(Now) /\ Apt(dir.vis, Now) /\ Boxes(box)
<1>1. Script(todo) /\ Stays(Now, todo)
  BY DEF HomeInv
<1>2. Good(Now)
  BY <1>1, Leading DEF Leads
<1> QED BY <1>2, GoodApt, NowFields DEF Good
LEMMA HomeBounds ==
    ASSUME home \in Homes
    PROVE  /\ MaxMutations \in Nat /\ MaxDeaths \in Nat /\ MaxLosses \in Nat
           /\ MaxItems \in Nat \ {0} /\ Grants \subseteq Nat
           /\ LastGen \in 0..MaxGen
<1>1. \A h \in Homes :
        /\ h.gens \in 0..MaxGen /\ {h.mutations, h.deaths, h.losses} \subseteq Nat
        /\ h.items \in Nat \ {0} /\ h.grants \subseteq Nat
  BY HostAssumption
<1> QED BY <1>1 DEF MaxMutations, MaxDeaths, MaxLosses, MaxItems, Grants, LastGen

\* A command begins.
LEMMA BeginInv ==
    ASSUME HomeInv, cmd = "none", NEW ops, ops # <<>>, NEW t, Leads(Now, ops, t), NEW c,
           c \in {"mutate", "recover", "prepare", "fence", "cutover"}, Begin(c, ops),
           UNCHANGED <<home, dir, box, up, sel, acked, deaths, losses>>,
           nonce' \in 0..MaxMutations, up => Quiet(ops)
    PROVE  HomeInv'
<1>1. Now' = Now
  BY DEF Now
<1>2. Script(ops) /\ Stays(Now, ops)
  BY DEF Leads
<1>3. todo' = ops /\ cmd' = c
  BY DEF Begin
<1>4. Serving'
  <2>1. up => Aside(ops)
    BY QuietFacts
  <2> QED BY <1>3, <2>1 DEF HomeInv, Serving
<1>5. Within'
  BY <1>3 DEF HomeInv, Within, MaxItems, MaxMutations, MaxDeaths, MaxLosses
<1> QED BY <1>1, <1>2, <1>3, <1>4, <1>5 DEF HomeInv
LEMMA MutateInv ==
    ASSUME HomeInv, NEW listed, NEW fields, NEW pre, NEW new,
           Mutate(listed, fields, pre, new), UNCHANGED home, Quiet(pre),
           Len(new) \in Nat, DOMAIN new = 1..Len(new),
           \A next : \A c \in Configs : (c.token # 0) \in listed /\ next = NextOf(c, fields, Fresh) =>
              /\ next \in Configs /\ next.serial = c.serial + 1 /\ next.gen = c.gen
              /\ pre = <<>> \/ (c.token = 0 /\ pre = rewrite("token", next.token))
              /\ Fitting(new, c, next, pre)
    PROVE  HomeInv'
<1> DEFINE k == dir.vis
<1>1. Good(Now) /\ Apt(k, Now) /\ k = Now.dir.vis /\ Base(k) \in Configs
  BY NowGood, NowFields, AptGives
<1>2. PICK order \in Orders :
        LET rec == recover_seal(k, order)
            m == Done(k, rec)
            c == m["config"]
            next == NextOf(c, fields, Fresh)
        IN /\ (c.token # 0) \in listed
           /\ Begin("mutate", rec \o pre \o Sealing(Done(m, pre), new, next, order) \o <<ack(next)>>)
  BY DEF Mutate, NextOf
<1> DEFINE rec == recover_seal(k, order)
           m == Done(k, rec)
           c == Base(k)
           next == NextOf(c, fields, Fresh)
<1>3. m["config"] = c
  <2>1. PICK t : RecoversTo(Now, k, order, t)
    BY <1>1, RecoverRun
  <2>2. Turns(Now, rec, t, t.dir.vis) /\ t.dir.vis["config"] = c
    BY <2>1 DEF RecoversTo, Tidy
  <2>3. m = t.dir.vis
    <3> HIDE DEF rec
    <3> QED BY <1>1, <2>2, TurnsDone
  <2> QED BY <2>2, <2>3
<1>4. (c.token # 0) \in listed /\ Begin("mutate", MutateScript(k, order, pre, new, next))
  BY <1>2, <1>3 DEF MutateScript
<1> HIDE DEF rec, m, c, next
<1>5. /\ next \in Configs /\ next.serial = c.serial + 1 /\ next.gen = c.gen
      /\ pre = <<>> \/ (c.token = 0 /\ pre = rewrite("token", next.token))
      /\ Fitting(new, c, next, pre)
  BY <1>1, <1>4 DEF c, next
<1>6. PICK t : Leads(Now, MutateScript(k, order, pre, new, next), t)
  BY <1>1, <1>5, MutateStays DEF c
<1>7. Quiet(MutateScript(k, order, pre, new, next)) /\ MutateScript(k, order, pre, new, next) # <<>>
  BY QuietMutate
<1>8. cmd = "none" /\ nonce' \in 0..MaxMutations
  <2>1. nonce < MaxMutations /\ nonce' = nonce + 1 /\ cmd = "none"
    BY DEF Mutate, Locked
  <2>2. nonce \in 0..MaxMutations /\ MaxMutations \in Nat
    BY HomeBounds DEF HomeInv, Within
  <2> QED BY <2>1, <2>2
<1>9. UNCHANGED <<dir, box, up, sel, acked, deaths, losses>>
  BY DEF Mutate
<1> QED BY <1>4, <1>6, <1>7, <1>8, <1>9, BeginInv
LEMMA FreshNat ==
    ASSUME HomeInv
    PROVE  Fresh \in Nat /\ "leaf" \in Data /\ "conn" \in Data /\ "token" \in Data
<1>1. nonce \in 0..MaxMutations /\ MaxMutations \in Nat
  BY HomeBounds DEF HomeInv, Within
<1> QED BY <1>1 DEF Fresh, Data
LEMMA RenewInv ==
    ASSUME HomeInv, Renew, UNCHANGED home
    PROVE  HomeInv'
<1> DEFINE L == <<<<"leaf", Fresh>>, <<"conn", Fresh>>>>
           F == {"leaf", "conn"}
<1>1. Mutate(BOOLEAN, F, <<>>, L)
  BY DEF Renew
<1>2. Fresh \in Nat /\ F \in SUBSET Data
  BY FreshNat
<1>3. ASSUME NEW c \in Configs, NEW next, next = NextOf(c, F, Fresh)
      PROVE  /\ next \in Configs /\ next.serial = c.serial + 1 /\ next.gen = c.gen
             /\ Fitting(L, c, next, <<>>)
  <2> HIDE DEF L, F
  <2>1. next \in Configs /\ next.serial = c.serial + 1 /\ next.gen = c.gen
    BY <1>2, <1>3, NextFacts
  <2>2. Fitting(L, c, next, <<>>)
    BY <1>2, <1>3, RenewFits DEF L, F
  <2> QED BY <2>1, <2>2
<1>4. Len(L) \in Nat /\ DOMAIN L = 1..Len(L)
  OBVIOUS
<1> HIDE DEF L, F
<1> QED BY <1>1, <1>3, <1>4, QuietNone, MutateInv
LEMMA RevokeInv ==
    ASSUME HomeInv, Revoke, UNCHANGED home
    PROVE  HomeInv'
<1> DEFINE L == <<>>
           F == {}
<1>1. Mutate(BOOLEAN, F, <<>>, L)
  BY DEF Revoke
<1>2. Fresh \in Nat /\ F \in SUBSET Data
  BY FreshNat
<1>3. ASSUME NEW c \in Configs, NEW next, next = NextOf(c, F, Fresh)
      PROVE  /\ next \in Configs /\ next.serial = c.serial + 1 /\ next.gen = c.gen
             /\ Fitting(L, c, next, <<>>)
  <2>1. next \in Configs /\ next.serial = c.serial + 1 /\ next.gen = c.gen
    <3> HIDE DEF F
    <3> QED BY <1>2, <1>3, NextFacts
  <2>2. Fitting(L, c, next, <<>>)
    BY <1>2, <1>3, RevokeFits
  <2> QED BY <2>1, <2>2
<1>4. Len(L) \in Nat /\ DOMAIN L = 1..Len(L)
  OBVIOUS
<1> HIDE DEF L, F
<1> QED BY <1>1, <1>3, <1>4, QuietNone, MutateInv
LEMMA AddCredentialInv ==
    ASSUME HomeInv, AddCredential, UNCHANGED home
    PROVE  HomeInv'
<1> DEFINE L == <<>>
           F == {"token"}
           P == rewrite("token", Fresh)
           B == {FALSE}
<1>1. Mutate(B, F, P, L)
  BY DEF AddCredential
<1>2. Fresh \in Nat /\ F \in SUBSET Data
  BY FreshNat
<1>3. ASSUME NEW c \in Configs, (c.token # 0) \in B, NEW next, next = NextOf(c, F, Fresh)
      PROVE  /\ next \in Configs /\ next.serial = c.serial + 1 /\ next.gen = c.gen
             /\ c.token = 0 /\ P = rewrite("token", next.token) /\ Fitting(L, c, next, P)
  <2>1. next \in Configs /\ next.serial = c.serial + 1 /\ next.gen = c.gen
    <3> HIDE DEF F
    <3> QED BY <1>2, <1>3, NextFacts
  <2>2. c.token = 0
    BY <1>3
  <2>3. next.token = Fresh /\ Fitting(L, c, next, P)
    BY <1>2, <1>3, <2>2, AddFits
  <2> QED BY <2>1, <2>2, <2>3
<1>4. Len(L) \in Nat /\ DOMAIN L = 1..Len(L) /\ Quiet(P)
  BY QuietRewrite
<1> HIDE DEF L, F, P, B
<1> QED BY <1>1, <1>3, <1>4, MutateInv
LEMMA ReplaceCredentialInv ==
    ASSUME HomeInv, ReplaceCredential, UNCHANGED home
    PROVE  HomeInv'
<1> DEFINE L == <<<<"token", Fresh>>>>
           F == {"token"}
           B == {TRUE}
<1>1. Mutate(B, F, <<>>, L)
  BY DEF ReplaceCredential
<1>2. Fresh \in Nat /\ F \in SUBSET Data
  BY FreshNat
<1>3. ASSUME NEW c \in Configs, (c.token # 0) \in B, NEW next, next = NextOf(c, F, Fresh)
      PROVE  /\ next \in Configs /\ next.serial = c.serial + 1 /\ next.gen = c.gen
             /\ Fitting(L, c, next, <<>>)
  <2>1. next \in Configs /\ next.serial = c.serial + 1 /\ next.gen = c.gen
    <3> HIDE DEF F, L
    <3> QED BY <1>2, <1>3, NextFacts
  <2>2. c.token # 0
    BY <1>3
  <2>3. Fitting(L, c, next, <<>>)
    BY <1>2, <1>3, <2>2, ReplaceFits
  <2> QED BY <2>1, <2>3
<1>4. Len(L) \in Nat /\ DOMAIN L = 1..Len(L)
  OBVIOUS
<1> HIDE DEF L, F, B
<1> QED BY <1>1, <1>3, <1>4, QuietNone, MutateInv
LEMMA RecoverInv ==
    ASSUME HomeInv, Recover, UNCHANGED home
    PROVE  HomeInv'
<1>1. PICK order \in Orders : Begin("recover", recover_seal(dir.vis, order))
  BY DEF Recover
<1>2. PICK t : RecoversTo(Now, dir.vis, order, t)
  BY NowGood, NowFields, RecoverRun
<1>3. Leads(Now, recover_seal(dir.vis, order), t)
  BY <1>2 DEF RecoversTo, Turns
<1>4. /\ cmd = "none" /\ UNCHANGED <<dir, box, up, sel, acked, deaths, losses>>
      /\ nonce' \in 0..MaxMutations
  BY DEF Recover, Locked, HomeInv, Within
<1> QED BY <1>1, <1>3, <1>4, QuietRecover, BeginInv
LEMMA PlanTyped ==
    ASSUME HomeInv
    PROVE  /\ dir.vis["config"] \in Configs
           /\ \A n \in Records : dir.vis[n] \in Plans \cup {Absent}
           /\ Recorded(dir.vis)
BY NowGood, AptGives DEF Typed
LEMMA PendingTyped ==
    ASSUME HomeInv, dir.vis[Pending] # Absent
    PROVE  dir.vis[Pending] \in Plans /\ dir.vis[Pending].config.gen \in Moving
<1>1. dir.vis[Pending] \in Plans
  BY PlanTyped, RecordsNamed
<1>2. Recorded(dir.vis)
  BY PlanTyped
<1> QED BY <1>1, <1>2, RecordedFacts
LEMMA PrepareInv ==
    ASSUME HomeInv, Prepare, UNCHANGED home
    PROVE  HomeInv'
<1> DEFINE k == dir.vis
           c == k["config"]
           g == c.gen
           PlanOf(grant) == [config |-> c, head |-> box[g].items, grant |-> grant]
<1>1. PICK grant \in Grants :
        /\ g < LastGen
        /\ Publishable(k, Record["receipts"][g + 1], PlanOf(grant))
        /\ Publishable(k, Record["intent"][g + 1], PlanOf(grant))
        /\ Publishable(k, Pending, PlanOf(grant))
        /\ Begin("prepare", publish(k, Record["receipts"][g + 1], PlanOf(grant))
                     \o publish(k, Record["intent"][g + 1], PlanOf(grant)) \o publish(k, Pending, PlanOf(grant)))
  BY Zenon DEF Prepare
<1> DEFINE plan == PlanOf(grant)
<1>2. /\ cmd = "none" /\ ~up /\ k[Pending] = Absent
      /\ UNCHANGED <<dir, box, up, sel, acked, nonce, deaths, losses>>
  BY DEF Prepare, Locked, require_idle
<1>3. g \in Moving /\ c \in Configs /\ plan \in Plans /\ plan.config.gen = g
  <2>1. c \in Configs
    BY PlanTyped
  <2>2. g \in Gens
    BY <2>1, ConfigFacts
  <2>3. g \in Moving
    <3>1. LastGen \in 0..MaxGen /\ MaxGen \in 0..2 /\ g < LastGen
      BY <1>1, HomeBounds, HostAssumption DEF HomeInv, Within
    <3> HIDE DEF g
    <3> QED BY <2>2, <3>1 DEF Moving, Gens
  <2>4. box[g].items \in Nat /\ grant \in Nat
    <3>1. Known(box, g, box[g])
      BY <2>2, NowGood, NowFields, KnownFacts
    <3> QED BY <3>1, HomeBounds DEF Known, HomeInv, Within
  <2> QED BY <2>1, <2>3, <2>4 DEF Plans
<1>4. /\ Publishable(k, Receipts(g), plan) /\ Publishable(k, Intent(g), plan)
      /\ Publishable(k, Pending, plan) /\ Begin("prepare", PrepareScript(k, g, plan))
  BY <1>1 DEF Receipts, Intent, PrepareScript
<1>5. Good(Now) /\ k = Now.dir.vis
  BY NowGood, NowFields
<1> HIDE DEF k, plan, g
<1>6. PrepareScript(k, g, plan) # <<>> /\ \E t : Leads(Now, PrepareScript(k, g, plan), t)
  BY <1>2, <1>3, <1>4, <1>5, PrepareStays
<1>7. nonce' \in 0..MaxMutations
  BY <1>2 DEF HomeInv, Within
<1> QED BY <1>2, <1>4, <1>6, <1>7, BeginInv
LEMMA FenceInv ==
    ASSUME HomeInv, Fence, UNCHANGED home
    PROVE  HomeInv'
<1> DEFINE k == dir.vis
           plan == k[Pending]
           g == plan.config.gen
<1>1. /\ cmd = "none" /\ ~up /\ plan # Absent
      /\ box[g].items = plan.head /\ box[g].fence \in {Absent, plan}
      /\ Publishable(k, Record["fence"][g + 1], plan)
  BY Zenon DEF Fence, MayFence, Locked, PendingHolds, PendingPlan
<1>2. /\ Begin("fence", <<store("format", g, 3), store("ledger", g, 2), store("fence", g, plan)>>
                           \o publish(k, Record["fence"][g + 1], plan))
      /\ UNCHANGED <<dir, box, up, sel, acked, nonce, deaths, losses>>
  BY DEF Fence, PendingPlan
<1>3. plan \in Plans /\ g \in Moving
  BY <1>1, PendingTyped
<1>4. Publishable(k, FenceDoc(g), plan) /\ Begin("fence", FenceScript(k, g, plan))
  BY <1>1, <1>2 DEF FenceDoc, FenceScript
<1>5. Good(Now) /\ k = Now.dir.vis /\ Now.box = box
  BY NowGood, NowFields
<1>6. k[Pending] = plan /\ plan.config.gen = g
  OBVIOUS
<1> HIDE DEF k, plan, g
<1>7. FenceScript(k, g, plan) # <<>> /\ \E t : Leads(Now, FenceScript(k, g, plan), t)
  BY <1>1, <1>3, <1>4, <1>5, <1>6, FenceStays
<1>8. nonce' \in 0..MaxMutations
  BY <1>2 DEF HomeInv, Within
<1> QED BY <1>1, <1>2, <1>4, <1>7, <1>8, BeginInv
LEMMA CutoverInv ==
    ASSUME HomeInv, Cutover, UNCHANGED home
    PROVE  HomeInv'
<1> DEFINE k == dir.vis
           plan == k[Pending]
           g == plan.config.gen
           next == planned_selection(plan)
           rec(o) == recover_seal(k, o)
           m(o) == Done(k, rec(o))
<1>1. PICK order \in Orders :
        /\ cmd = "none" /\ ~up /\ plan # Absent
        /\ k[Record["intent"][g + 1]] = plan /\ k[Record["receipts"][g + 1]] = plan
        /\ m(order)["config"] \in {plan.config, next} /\ box[g].fence = plan
        /\ Publishable(m(order), Record["fence"][g + 1], plan)
        /\ Begin("cutover", rec(order) \o publish(m(order), Record["fence"][g + 1], plan) \o Successor(g, plan)
                     \o (IF m(order)["config"].gen > g THEN <<>>
                         ELSE Sealing(Done(m(order), publish(m(order), Record["fence"][g + 1], plan)),
                                      <<<<"conn", next.conn>>>>, next, order))
                     \o <<remove(Pending), sync, ack(next)>>)
  BY Zenon DEF Cutover, MayCutover, Locked, PendingHolds, PendingPlan
<1>2. UNCHANGED <<dir, box, up, sel, acked, nonce, deaths, losses>>
  BY DEF Cutover
<1>3. plan \in Plans /\ g \in Moving
  <2>1. dir.vis[Pending] # Absent
    BY <1>1, Zenon
  <2>2. dir.vis[Pending] \in Plans /\ dir.vis[Pending].config.gen \in Moving
    BY <2>1, PendingTyped, Zenon
  <2> QED BY <2>2, Zenon
<1>4. Good(Now) /\ k = Now.dir.vis /\ Now.box = box
  BY NowGood, NowFields
<1>5. m(order)["config"] = Base(k)
  <2> DEFINE R == rec(order)
  <2>1. PICK t : RecoversTo(Now, k, order, t)
    BY <1>4, RecoverRun
  <2>2. Turns(Now, R, t, t.dir.vis) /\ t.dir.vis["config"] = Base(k)
    BY <2>1 DEF RecoversTo, Tidy
  <2>3. Done(k, R) = t.dir.vis
    <3> HIDE DEF R
    <3> QED BY <1>4, <2>2, TurnsDone
  <2> QED BY <2>2, <2>3
<1>6. Successor(g, plan) = SuccessorScript(box, g, plan)
  BY DEF Successor, SuccessorScript, Unless, Lacking
<1>7. /\ Begin("cutover", CutoverScript(k, box, order, g, plan, next))
      /\ Publishable(Done(k, recover_seal(k, order)), FenceDoc(g), plan)
      /\ Base(k) \in {plan.config, next}
      /\ k[Intent(g)] = plan /\ k[Receipts(g)] = plan
  BY <1>1, <1>5, <1>6 DEF CutoverScript, SealUnless, FenceDoc, Intent, Receipts
<1>8. k[Pending] = plan /\ plan.config.gen = g /\ next = planned_selection(plan)
  OBVIOUS
<1> HIDE DEF k, plan, g, next
<1>9. /\ CutoverScript(k, box, order, g, plan, next) # <<>>
      /\ \E t : Leads(Now, CutoverScript(k, box, order, g, plan, next), t)
  BY <1>1, <1>3, <1>4, <1>7, <1>8, CutoverStays
<1>10. nonce' \in 0..MaxMutations
  BY <1>2 DEF HomeInv, Within
<1> QED BY <1>1, <1>2, <1>7, <1>9, <1>10, BeginInv

\* The operation at the head of a command.
LEMMA AuthorizedKept ==
    ASSUME NEW b, Boxes(b), NEW o \in Operations
    PROVE  BoxAfter(b, o)[0].authorized = b[0].authorized
<1>1. 0 \in Gens /\ b \in [Gens -> Mailbox(b[0].authorized)] /\ b[0].authorized \in Nat
  BY HostAssumption DEF Boxes, Gens
<1>2. CASE o.op \notin StoreOps
  BY <1>2 DEF BoxAfter, StoreOps
<1>3. CASE o.op \in StoreOps
  <2>1. o.gen \in Gens /\ (o.op = "seeded" => o.gen # 0)
    BY <1>3, HostAssumption DEF Operations, StoreOps, sync, Gens
  <2>2. CASE o.gen # 0
    <3>1. \A v : /\ Formatted(b, o.gen)[0] = b[0] /\ Ledgered(b, o.gen)[0] = b[0]
                 /\ Fenced(b, o.gen, v)[0] = b[0] /\ Marked(b, o.gen)[0] = b[0]
                 /\ Made(b, o.gen)[0] = b[0] /\ Seeded(b, o.gen, v)[0] = b[0]
      BY <1>1, <2>2 DEF Formatted, Ledgered, Fenced, Marked, Made, Seeded
    <3>2. BoxAfter(b, o)[0] = b[0]
      BY <1>3, <3>1 DEF BoxAfter, StoreOps
    <3> QED BY <3>2
  <2>3. CASE o.gen = 0
    <3>1. b[0] = BoxOf(b[0])
      BY <1>1, BoxesFacts
    <3>2. o.op # "seeded"
      BY <2>1, <2>3
    <3>3. ASSUME NEW r, r.authorized = b[0].authorized
          PROVE  Replace(b, 0, r)[0].authorized = b[0].authorized
      BY <1>1, <3>3 DEF Replace
    <3>4. \A p, f, l, i, q, a, e : Box(p, f, l, i, q, a, e).authorized = a
      BY DEF Box
    <3>5. \A v : /\ Formatted(b, 0)[0].authorized = b[0].authorized
                 /\ Ledgered(b, 0)[0].authorized = b[0].authorized
                 /\ Fenced(b, 0, v)[0].authorized = b[0].authorized
                 /\ Marked(b, 0)[0].authorized = b[0].authorized
                 /\ Made(b, 0)[0].authorized = b[0].authorized
      BY <1>1, <3>1, <3>3, <3>4, StoreAfter DEF BoxOf
    <3> QED BY <1>3, <2>3, <3>2, <3>5 DEF BoxAfter, StoreOps
  <2> QED BY <2>2, <2>3
<1> QED BY <1>2, <1>3
LEMMA StepEffect ==
    ASSUME HomeInv, Step, UNCHANGED home
    PROVE  /\ Now' = Effect(Now, Head(todo)) /\ todo # <<>> /\ todo' = Tail(todo)
           /\ box' = BoxAfter(box, Head(todo))
<1>1. todo # <<>> /\ todo' = Tail(todo)
  BY DEF Step, Locked, HomeInv
<1> DEFINE o == Head(todo)
<1>2. dir' = DirAfter(dir, o)
  BY DEF Step, DirAfter
<1>3. box' = Committed(o) /\ UNCHANGED losses
      /\ acked' = IF o.op = "ack" THEN o.value.serial ELSE acked
  BY DEF Step
<1> HIDE DEF o
<1>4. Committed(o) = BoxAfter(box, o)
  BY DEF Committed, BoxAfter, Formatted, Ledgered, Fenced, Marked, Made, Seeded, SeedOf, Seed
<1>5. Effect(Now, o) = State(dir', box', acked', losses > 0)
  BY <1>2, <1>3, <1>4, NowFields DEF Effect
<1>6. Now' = State(dir', box', acked', losses' > 0)
  BY DEF Now
<1>7. Now' = Effect(Now, o)
  BY <1>3, <1>5, <1>6
<1>8. Now' = Effect(Now, Head(todo))
  BY <1>7 DEF o
<1>9. box' = BoxAfter(box, Head(todo))
  BY <1>3, <1>4 DEF o
<1> QED BY <1>1, <1>8, <1>9
LEMMA TailFacts ==
    ASSUME NEW S, NEW x \in Seq(S), x # <<>>
    PROVE  /\ Len(x) \in Nat \ {0} /\ Head(x) = x[1] /\ Len(Tail(x)) = Len(x) - 1
           /\ \A i \in 1..(Len(x) - 1) : Tail(x)[i] = x[i + 1]
           /\ DOMAIN x = 1..Len(x) /\ DOMAIN Tail(x) = 1..(Len(x) - 1)
           /\ (Tail(x) = <<>> <=> Len(x) = 1)
<1>1. Len(x) \in Nat \ {0} /\ Head(x) = x[1] /\ Tail(x) \in Seq(S)
  OBVIOUS
<1>2. Len(Tail(x)) = Len(x) - 1
  OBVIOUS
<1>3. DOMAIN x = 1..Len(x) /\ DOMAIN Tail(x) = 1..Len(Tail(x))
  BY <1>1
<1>4. \A i \in 1..(Len(x) - 1) : Tail(x)[i] = x[i + 1]
  OBVIOUS
<1> DEFINE y == Tail(x)
<1>5. y = <<>> <=> Len(y) = 0
  <2>1. y \in Seq(S)
    BY <1>1
  <2> HIDE DEF y
  <2> QED BY <2>1
<1>6. Tail(x) = <<>> <=> Len(x) = 1
  <2>1. Len(y) = 0 <=> Len(x) = 1
    BY <1>1, <1>2
  <2> QED BY <1>5, <2>1, Zenon
<1>7. DOMAIN Tail(x) = 1..(Len(x) - 1)
  BY <1>2, <1>3, Zenon
<1> QED BY <1>1, <1>2, <1>3, <1>4, <1>6, <1>7, Zenon
LEMMA StepInv ==
    ASSUME HomeInv, Step, UNCHANGED home
    PROVE  HomeInv'
<1>1. /\ Now' = Effect(Now, Head(todo)) /\ todo # <<>> /\ todo' = Tail(todo)
      /\ box' = BoxAfter(box, Head(todo))
  BY StepEffect
<1>2. Script(todo) /\ Stays(Now, todo) /\ Boxes(box)
  BY NowGood DEF HomeInv
<1>3. /\ Head(todo) \in Operations /\ Script(Tail(todo))
      /\ Stays(Effect(Now, Head(todo)), Tail(todo))
  BY <1>1, <1>2, Begun
<1>4. Script(todo') /\ Stays(Now', todo')
  BY <1>1, <1>3
<1>5. Good(Now')
  BY <1>1, <1>3, Leading DEF Leads
<1>6. acked' \in Nat
  <2>1. Now'.acked = acked'
    BY StateFields DEF Now
  <2>2. Now'.acked \in Nat
    BY <1>5 DEF Good
  <2> QED BY <2>1, <2>2
<1>7. /\ Len(todo) \in Nat \ {0} /\ Head(todo) = todo[1] /\ Len(Tail(todo)) = Len(todo) - 1
      /\ \A i \in 1..(Len(todo) - 1) : Tail(todo)[i] = todo[i + 1]
      /\ DOMAIN todo = 1..Len(todo) /\ DOMAIN Tail(todo) = 1..(Len(todo) - 1)
      /\ (Tail(todo) = <<>> <=> Len(todo) = 1)
  BY <1>1, <1>2, TailFacts DEF Script
<1>8. cmd' = "none" <=> todo' = <<>>
  BY <1>1, <1>7 DEF Step, Locked
<1>9. UNCHANGED <<up, sel, nonce, deaths, losses>>
  BY DEF Step
<1>10. box[0].authorized = MaxItems /\ box'[0].authorized = MaxItems
  BY <1>1, <1>2, <1>3, AuthorizedKept DEF HomeInv, Within
<1>11. Serving'
  <2>1. SUFFICES ASSUME up' PROVE Serving'
    BY DEF Serving
  <2>2. up /\ Aside(todo)
    BY <1>9, <2>1 DEF HomeInv, Serving
  <2>3. Head(todo).op \notin StoreOps
    BY <1>7, <2>2 DEF Aside
  <2>4. box' = box
    BY <1>1, <2>3 DEF BoxAfter, StoreOps
  <2>5. Aside(todo')
    <3>1. \A i \in 1..(Len(todo) - 1) : i + 1 \in DOMAIN todo
      BY <1>7
    <3> QED BY <1>1, <1>7, <2>2, <3>1 DEF Aside
  <2> QED BY <1>9, <2>2, <2>4, <2>5 DEF HomeInv, Serving
<1>12. cmd' \in {"none", "mutate", "recover", "prepare", "fence", "cutover"}
  BY DEF Step, HomeInv, Within
<1>13. Within'
  BY <1>6, <1>9, <1>10, <1>12 DEF HomeInv, Within, MaxItems, MaxMutations, MaxDeaths, MaxLosses
<1> QED BY <1>4, <1>8, <1>11, <1>13 DEF HomeInv
LEMMA DieInv ==
    ASSUME HomeInv, Die, UNCHANGED home
    PROVE  HomeInv'
<1>1. cmd' = "none" /\ todo' = <<>> /\ UNCHANGED <<dir, box, up, sel, acked, nonce, losses>>
      /\ deaths' = deaths + 1 /\ deaths < MaxDeaths
  BY DEF Die, Begin
<1>2. Now' = Now /\ Good(Now)
  BY <1>1, NowGood DEF Now
<1>3. Script(todo') /\ Stays(Now', todo')
  BY <1>1, <1>2, Nothing
<1>4. Serving'
  <2>1. Aside(<<>>)
    BY DEF Aside
  <2> QED BY <1>1, <2>1 DEF HomeInv, Serving
<1>5. deaths' \in 0..MaxDeaths
  <2>1. deaths \in 0..MaxDeaths /\ MaxDeaths \in Nat
    BY HomeBounds DEF HomeInv, Within
  <2> QED BY <1>1, <2>1
<1>6. Within'
  BY <1>1, <1>5 DEF HomeInv, Within, MaxItems, MaxMutations, MaxDeaths, MaxLosses
<1> QED BY <1>1, <1>3, <1>4, <1>6 DEF HomeInv

\* What the disk may hold is a good home after the loss of power.
LEMMA DiskGood ==
    ASSUME NEW s, Good(s), NEW m \in s.dir.disk, NEW l, l = TRUE, NEW t,
           t = State(Stored(m), s.box, s.acked, l)
    PROVE  Good(t)
<1> DEFINE d == Stored(m)
<1>0. d = [vis |-> m, disk |-> {m}, dirty |-> {}]
  BY DEF Stored
<1> HIDE DEF d
<1>1. t.dir = d /\ t.box = s.box /\ t.acked = s.acked /\ t.lossy = l
  <2>1. t = State(d, s.box, s.acked, l)
    BY DEF d
  <2> QED BY ONLY <2>1, StateFields
<1>2. /\ t.dir.vis = m /\ t.dir.disk = {m}
      /\ t.dir = [vis |-> t.dir.vis, disk |-> t.dir.disk, dirty |-> {}]
  <2>1. d.vis = m /\ d.disk = {m} /\ d = [vis |-> d.vis, disk |-> d.disk, dirty |-> {}]
    BY <1>0
  <2> QED BY <1>1, <2>1
<1>3. t = State(t.dir, t.box, t.acked, t.lossy)
  BY <1>1 DEF d
<1>4. Fine(m, s.box, s.acked) /\ Boxes(s.box) /\ s.acked \in Nat
  BY DEF Good
<1> QED BY <1>1, <1>2, <1>3, <1>4 DEF Good
LEMMA PowerLossInv ==
    ASSUME HomeInv, PowerLoss, UNCHANGED home
    PROVE  HomeInv'
<1>1. /\ cmd' = "none" /\ todo' = <<>> /\ UNCHANGED <<box, sel, acked, nonce, deaths>>
      /\ up' = FALSE /\ losses' = losses + 1 /\ losses < MaxLosses
      /\ dir' \in PowerLossOutcomes(dir)
  BY DEF PowerLoss, Begin
<1>2. Good(Now) /\ Now.dir = dir
  BY NowGood, NowFields
<1>3. PICK m \in dir.disk, T \in SUBSET dir.dirty : dir' = Stored(Tear(m, T))
  BY <1>1 DEF PowerLossOutcomes
<1>4. dir.dirty = {} /\ Typed(m)
  <2>1. dir = [vis |-> dir.vis, disk |-> dir.disk, dirty |-> {}]
    BY <1>2 DEF Good
  <2>2. dir.dirty = {}
    BY <2>1
  <2> QED BY <1>2, <2>2 DEF Good, Fine
<1>5. Tear(m, T) = m
  <2>1. T = {} /\ m = [n \in Names |-> m[n]]
    BY <1>4 DEF Typed
  <2>2. DOMAIN m = Names
    BY <2>1
  <2>3. Tear(m, T) = [n \in Names |-> m[n]]
    BY <2>1, <2>2 DEF Tear
  <2> QED BY <2>1, <2>3
<1>6. losses' \in 0..MaxLosses /\ losses' > 0
  <2>1. losses \in 0..MaxLosses /\ MaxLosses \in Nat
    BY HomeBounds DEF HomeInv, Within
  <2> QED BY <1>1, <2>1
<1>7. Good(Now')
  <2> DEFINE l == losses' > 0
             t == Now'
  <2>1. t = State(Stored(m), Now.box, Now.acked, l)
    BY <1>1, <1>3, <1>5, NowFields DEF Now
  <2>2. l = TRUE
    BY <1>6
  <2> HIDE DEF l, t
  <2>3. Good(t)
    <3> QED BY <1>2, <2>1, <2>2, DiskGood
  <2> QED BY <2>3 DEF t
<1>8. Script(todo') /\ Stays(Now', todo')
  BY <1>1, <1>7, Nothing
<1>9. Serving'
  BY <1>1 DEF Serving
<1>10. Within'
  BY <1>1, <1>6 DEF HomeInv, Within, MaxItems, MaxMutations, MaxDeaths, MaxLosses
<1> QED BY <1>1, <1>8, <1>9, <1>10 DEF HomeInv

\* A home that loads is the one that a recovery ends in.
LEMMA LoadsBase ==
    ASSUME NEW m, Recoverable(m), Loads(m)
    PROVE  Base(m) = m["config"]
<1>1. Sealed(m)
  BY DEF Loads, Sealed
<1>2. Restores(m) => m["config"] = m["config.bak"]
  BY <1>1 DEF Restores, MustRestore, Recoverable, Saved
<1> QED BY <1>2 DEF Base
LEMMA ServeInv ==
    ASSUME HomeInv, Serve, UNCHANGED home
    PROVE  HomeInv'
<1> DEFINE k == dir.vis
           g == k["config"].gen
<1>1. /\ cmd = "none" /\ k[Pending] = Absent /\ Loads(k) /\ box[g].phase = "seeded"
      /\ up' = TRUE /\ sel' = g /\ UNCHANGED <<dir, cmd, todo, box, acked, nonce, deaths, losses>>
  BY DEF Serve, Locked, require_idle
<1>2. Good(Now) /\ Apt(k, Now) /\ Boxes(box) /\ Now.box = box /\ Now.lossy = (losses > 0)
  BY NowGood, NowFields
<1>3. Recoverable(k) /\ k["config"] \in Configs /\ Backing(k, box, k["config"])
  BY <1>2, PlanTyped, AptGives
<1>4. g \in Gens
  BY <1>3, ConfigFacts
<1>5. ASSUME NEW h \in 0..(g - 1) PROVE box[h].phase = "seeded" /\ box[h].fence # Absent
  <2>1. h \in 0..(MaxGen - 1) /\ g > h
    BY <1>4, HostAssumption DEF Gens
  <2>2. Evident(k, box, h)
    BY <1>3, <2>1 DEF Backing
  <2>3. box[h].fence # Absent /\ box[h + 1].phase = "seeded"
    BY <2>2 DEF Evident
  <2>4. box[h].phase = "seeded"
    BY <1>2, <2>1, <2>3 DEF Boxes
  <2> QED BY <2>3, <2>4
<1>6. ASSUME losses = 0 PROVE box[g].fence = Absent
  <2>1. ~Now.lossy
    <3>1. ~(losses > 0)
      BY <1>6
    <3> QED BY <1>2, <3>1, Zenon
  <2>2. FencedLive(k, box) /\ Base(k) = k["config"]
    BY <1>1, <1>2, <1>3, <2>1, LoadsBase DEF Apt
  <2>3. ~(g < g)
    BY <1>4 DEF Gens
  <2> QED BY <1>1, <1>4, <2>2, <2>3 DEF FencedLive
<1>7. todo = <<>>
  BY <1>1 DEF HomeInv
<1>8. \A h \in 0..g : h = g \/ h \in 0..(g - 1)
  BY <1>4, HostAssumption DEF Gens
<1> HIDE DEF k, g
<1>9. Serving'
  <2>1. Aside(<<>>)
    BY DEF Aside
  <2>2. \A h \in 0..g : box[h].phase = "seeded"
    BY <1>1, <1>5, <1>8
  <2> QED BY <1>1, <1>5, <1>6, <1>7, <2>1, <2>2 DEF Serving
<1>10. Within'
  BY <1>1, <1>4 DEF HomeInv, Within, MaxItems, MaxMutations, MaxDeaths, MaxLosses
<1>11. Now' = Now
  BY <1>1 DEF Now
<1>12. Script(todo') /\ Stays(Now', todo') /\ (cmd' = "none" <=> todo' = <<>>)
  BY <1>1, <1>11 DEF HomeInv
<1> QED BY <1>9, <1>10, <1>12 DEF HomeInv
LEMMA StopServingInv ==
    ASSUME HomeInv, StopServing, UNCHANGED home
    PROVE  HomeInv'
<1>1. up' = FALSE /\ UNCHANGED <<dir, cmd, todo, box, sel, acked, nonce, deaths, losses>>
  BY DEF StopServing
<1>2. Now' = Now
  BY <1>1 DEF Now
<1>3. Serving'
  BY <1>1 DEF Serving
<1>4. Within'
  BY <1>1 DEF HomeInv, Within, MaxItems, MaxMutations, MaxDeaths, MaxLosses
<1> QED BY <1>1, <1>2, <1>3, <1>4 DEF HomeInv

\* Items do not disturb a command that works beside the mailboxes.
SameSeals(b, c) == \A g \in Gens : c[g].fence = b[g].fence /\ c[g].phase = b[g].phase
LEMMA GoodBeside ==
    ASSUME NEW s, Good(s), NEW c, Boxes(c), SameSeals(s.box, c),
           NEW t, t = State(s.dir, c, s.acked, s.lossy)
    PROVE  Good(t)
<1>1. t.dir = s.dir /\ t.box = c /\ t.acked = s.acked /\ t.lossy = s.lossy
  BY StateFields
<1>2. t = State(t.dir, t.box, t.acked, t.lossy)
  BY <1>1
<1>3. Keeps(s.box, c)
  BY DEF Keeps, SameSeals
<1>4. ASSUME NEW m \in s.dir.disk PROVE Fine(m, c, s.acked)
  <2>1. Fine(m, s.box, s.acked)
    BY DEF Good
  <2> QED BY <1>3, <2>1, BackedKept DEF Fine
<1>5. ~s.lossy => FencedLive(s.dir.vis, c)
  BY DEF Good, FencedLive, SameSeals
<1>6. /\ s.dir = [vis |-> s.dir.vis, disk |-> s.dir.disk, dirty |-> {}]
      /\ s.dir.vis \in s.dir.disk /\ s.acked \in Nat
  BY DEF Good
<1> QED BY <1>1, <1>2, <1>4, <1>5, <1>6 DEF Good
LEMMA StaysBeside ==
    ASSUME NEW s, NEW ops, Script(ops), Stays(s, ops), Aside(ops), NEW c, Boxes(c), SameSeals(s.box, c),
           NEW t, t = State(s.dir, c, s.acked, s.lossy)
    PROVE  Stays(t, ops)
<1> DEFINE N == Len(ops)
           Alike(u, v) == v = State(u.dir, c, u.acked, u.lossy) /\ u.box = s.box
           S == {j \in 0..N : Alike(StateAt(s, ops, j), StateAt(t, ops, j))}
<1>1. N \in Nat /\ DOMAIN ops = 1..N
  BY ScriptFacts
<1>2. /\ StateAt(s, ops, 0) = s /\ StateAt(t, ops, 0) = t
      /\ \A j \in 1..N : StateAt(s, ops, j) = Effect(StateAt(s, ops, j - 1), ops[j])
      /\ \A j \in 1..N : StateAt(t, ops, j) = Effect(StateAt(t, ops, j - 1), ops[j])
  <2>1. StateAt(s, ops, 0) = s /\ Proceeds(s, ops)
    BY <1>1, RunFacts
  <2>2. StateAt(t, ops, 0) = t /\ Proceeds(t, ops)
    BY <1>1, RunFacts
  <2> QED BY ONLY <2>1, <2>2 DEF Proceeds
<1>3. 0 \in S
  BY <1>1, <1>2
<1>4. ASSUME NEW u, NEW v, Alike(u, v), NEW o, o.op \notin StoreOps
      PROVE  Alike(Effect(u, o), Effect(v, o))
  <2>1. v.dir = u.dir /\ v.box = c /\ v.acked = u.acked /\ v.lossy = u.lossy
    BY <1>4, StateFields
  <2>2. BoxAfter(u.box, o) = u.box /\ BoxAfter(c, o) = c
    BY <1>4 DEF BoxAfter, StoreOps
  <2> DEFINE d == DirAfter(u.dir, o)
             a == IF o.op = "ack" THEN o.value.serial ELSE u.acked
  <2>3. Effect(u, o) = State(d, u.box, a, u.lossy)
    BY <2>2 DEF Effect
  <2>4. Effect(v, o) = State(d, c, a, u.lossy)
    BY <2>1, <2>2 DEF Effect
  <2> HIDE DEF d, a
  <2> QED BY <1>4, <2>3, <2>4, StateFields
<1>5. ASSUME NEW n \in 0..N, n + 1 \in 0..N, n \in S PROVE n + 1 \in S
  <2>1. n + 1 \in 1..N /\ (n + 1) - 1 = n
    BY <1>1, <1>5
  <2>2. /\ StateAt(s, ops, n + 1) = Effect(StateAt(s, ops, n), ops[n + 1])
        /\ StateAt(t, ops, n + 1) = Effect(StateAt(t, ops, n), ops[n + 1])
    BY ONLY <1>2, <2>1
  <2>3. Alike(StateAt(s, ops, n), StateAt(t, ops, n)) /\ ops[n + 1].op \notin StoreOps
    BY <1>1, <1>5, <2>1 DEF Aside
  <2> HIDE DEF Alike
  <2>4. Alike(StateAt(s, ops, n + 1), StateAt(t, ops, n + 1))
    BY <1>4, <2>2, <2>3
  <2> QED BY <1>5, <2>4
<1> HIDE DEF S
<1>6. 0..N \subseteq S
  BY <1>1, <1>3, <1>5, Climb
<1>7. ASSUME NEW j \in 0..N PROVE Good(StateAt(t, ops, j))
  <2>1. /\ StateAt(t, ops, j) = State(StateAt(s, ops, j).dir, c, StateAt(s, ops, j).acked, StateAt(s, ops, j).lossy)
        /\ StateAt(s, ops, j).box = s.box
    BY <1>6 DEF S
  <2>2. Good(StateAt(s, ops, j))
    BY DEF Stays
  <2> QED BY <2>1, <2>2, GoodBeside
<1> QED BY <1>7 DEF Stays
LEMMA PutFits ==
    ASSUME NEW b, Boxes(b), NEW g \in Gens, b[g].phase = "seeded", b[g].fence = Absent,
           b[g].items < b[0].authorized,
           b[g].ledger = 2 => b[g].prior + b[g].items + 1 <= b[g].authorized,
           NEW c, c = [b EXCEPT ![g].items = @ + 1]
    PROVE  Boxes(c) /\ SameSeals(b, c) /\ c[0].authorized = b[0].authorized
<1> DEFINE x == b[g]
           r == Box(x.phase, x.format, x.ledger, x.items + 1, x.prior, x.authorized, x.fence)
<1>1. /\ b[0].authorized \in Nat /\ b \in [Gens -> Mailbox(b[0].authorized)] /\ x = BoxOf(x)
      /\ x.phase \in {"absent", "marked", "made", "seeded"} /\ x.format \in {2, 3}
      /\ x.ledger \in {1, 2} /\ x.items \in 0..b[0].authorized /\ x.prior \in Nat
      /\ x.authorized \in Nat /\ x.fence \in Plans \cup {Absent}
  BY BoxesFacts
<1>2. Fits(b, g, x)
  BY FitsAsIs
<1>3. x.items + 1 \in 0..b[0].authorized
  BY <1>1
<1>4. /\ r \in Mailbox(b[0].authorized) /\ r.phase = x.phase /\ r.format = x.format /\ r.ledger = x.ledger
      /\ r.items = x.items + 1 /\ r.prior = x.prior /\ r.authorized = x.authorized /\ r.fence = x.fence
  <2> HIDE DEF x
  <2> QED BY <1>1, <1>3 DEF Box, Mailbox
<1>5. c = Replace(b, g, r)
  <2>1. [x EXCEPT !.items = x.items + 1] = r
    <3> HIDE DEF x
    <3> QED BY <1>1 DEF Box, BoxOf
  <2>2. c = [b EXCEPT ![g] = [x EXCEPT !.items = x.items + 1]]
    OBVIOUS
  <2> HIDE DEF r
  <2> QED BY <2>1, <2>2 DEF Replace
<1>6. x.phase = "seeded" /\ x.fence = Absent /\ (x.ledger = 2 => x.prior + (x.items + 1) <= x.authorized)
  BY <1>1
<1> HIDE DEF r, x
<1>7. Fits(b, g, r)
  BY <1>1, <1>2, <1>4, <1>6 DEF Fits
<1>8. Boxes(c)
  BY <1>4, <1>5, <1>7, BoxesPut
<1>9. c[g] = r /\ \A h \in Gens \ {g} : c[h] = b[h]
  BY <1>1, <1>5 DEF Replace
<1>10. SameSeals(b, c)
  BY <1>4, <1>9 DEF SameSeals, x
<1>11. c[0].authorized = b[0].authorized
  <2>1. 0 \in Gens
    BY HostAssumption DEF Gens
  <2> QED BY <1>4, <1>9, <2>1 DEF x
<1> QED BY <1>8, <1>10, <1>11
LEMMA PutInv ==
    ASSUME HomeInv, NEW g \in Gens, Put(g), UNCHANGED home
    PROVE  HomeInv'
<1>1. /\ up /\ g <= sel /\ box[g].fence = Absent /\ box[g].items < MaxItems
      /\ box[g].ledger = 2 => box[g].prior + box[g].items + 1 <= box[g].authorized
      /\ box' = [box EXCEPT ![g].items = @ + 1]
      /\ UNCHANGED <<dir, cmd, todo, up, sel, acked, nonce, deaths, losses>>
  BY DEF Put, charge
<1>2. g = sel
  <2>1. g \in 0..(sel - 1) => box[g].fence # Absent
    BY <1>1 DEF HomeInv, Serving
  <2>2. sel \in Gens
    BY DEF HomeInv, Within
  <2> QED BY <1>1, <2>1, <2>2, HostAssumption DEF Gens
<1>3. box[g].phase = "seeded" /\ Aside(todo)
  <2>1. g \in 0..sel
    BY <1>1, HostAssumption DEF Gens
  <2> QED BY <1>1, <2>1 DEF HomeInv, Serving
<1>4. box[0].authorized = MaxItems /\ Boxes(box) /\ Now.box = box
  BY NowGood, NowFields DEF HomeInv, Within
<1>5. Boxes(box') /\ SameSeals(box, box') /\ box'[0].authorized = box[0].authorized
  <2>1. /\ Boxes(box) /\ box[g].phase = "seeded" /\ box[g].fence = Absent
        /\ box[g].items < box[0].authorized
        /\ box[g].ledger = 2 => box[g].prior + box[g].items + 1 <= box[g].authorized
        /\ box' = [box EXCEPT ![g].items = @ + 1]
    BY <1>1, <1>3, <1>4
  <2> QED BY ONLY <2>1, PutFits
<1>6. Now' = State(Now.dir, box', Now.acked, Now.lossy)
  BY <1>1, NowFields DEF Now
<1>7. Script(todo) /\ Stays(Now, todo)
  BY DEF HomeInv
<1>8. Stays(Now', todo)
  BY <1>3, <1>4, <1>5, <1>6, <1>7, StaysBeside
<1>9. Serving'
  <2>1. sel \in Gens /\ \A h \in 0..sel : h \in Gens
    BY HostAssumption DEF HomeInv, Within, Gens
  <2>2. \A h \in 0..(sel - 1) : h \in 0..sel
    BY <2>1, HostAssumption DEF Gens
  <2> QED BY <1>1, <1>5, <2>1, <2>2 DEF HomeInv, Serving, SameSeals
<1>10. Within'
  BY <1>1, <1>4, <1>5 DEF HomeInv, Within, MaxItems, MaxMutations, MaxDeaths, MaxLosses
<1> QED BY <1>1, <1>7, <1>8, <1>9, <1>10 DEF HomeInv

\* The first home.
LEMMA InitInv ==
    ASSUME Init
    PROVE  HomeInv
<1> DEFINE k == [n \in Names |-> IF n \in {"config", "complete"} THEN First
                                 ELSE IF n \in {"conn", "leaf"} THEN 1 ELSE Absent]
           b == [g \in Gens |-> IF g = 0 THEN [NoBox EXCEPT !.phase = "seeded", !.authorized = MaxItems]
                                ELSE NoBox]
<1>1. /\ home \in Homes /\ dir = Stored(k) /\ cmd = "none" /\ todo = <<>> /\ box = b
      /\ up = FALSE /\ sel = 0 /\ acked = 0 /\ nonce = 0 /\ deaths = 0 /\ losses = 0
  BY DEF Init
<1>2. MaxGen \in 0..2 /\ 0 \in Gens /\ MaxItems \in Nat
  BY <1>1, HostAssumption, HomeBounds DEF Gens
<1>3. First \in Configs /\ First.serial = 0 /\ First.gen = 0 /\ First.conn = 1 /\ First.leaf = 1 /\ First.token = 0
  BY <1>2 DEF First, Configs
<1>4. Whole(k) /\ k["config"] = First /\ k["complete"] = First /\ k["conn"] = 1 /\ k["leaf"] = 1
  BY OwnNamed, BackupsNamed DEF Whole
<1>5. \A n \in Names : n \notin {"config", "complete", "conn", "leaf"} => k[n] = Absent
  OBVIOUS
<1> HIDE DEF k
<1>6. Typed(k)
  <2>1. \A n \in Names : k[n] \in TypeOf(n)
    <3>1. TypeOf("conn") = Nat \cup {Absent} /\ TypeOf("leaf") = Nat \cup {Absent}
      BY DEF TypeOf, Data
    <3>2. TypeOf("config") = Configs /\ TypeOf("complete") = Configs
      BY DEF TypeOf
    <3> QED BY <1>3, <1>4, <1>5, <3>1, <3>2, AbsentTyped
  <2> QED BY <1>4, <2>1, TypedFacts
<1>7. k["seal"] = Absent /\ k["config.bak"] = Absent
  BY <1>5, OwnNamed
<1>8. \A n \in Records : k[n] = Absent
  <2>1. \A n \in Records : n \in Names /\ n \notin Own
    BY StagesNamed
  <2> QED BY <1>5, <2>1, OwnNamed, BackupsNamed
<1>9. Loads(k) /\ ~Restores(k)
  <2>1. Listed(First) = {"conn", "leaf"}
    BY <1>3 DEF Listed, Data
  <2>2. First # Absent
    BY <1>3, FilesAssumption
  <2> QED BY <1>3, <1>4, <1>7, <2>1, <2>2 DEF Loads, Restores
<1>10. Fine(k, b, 0)
  <2>1. Recorded(k)
    BY <1>8, RecordsNamed DEF Recorded
  <2>2. Backed(k, b)
    <3>1. \A g \in 0..(MaxGen - 1) : ~(0 > g)
      BY <1>2
    <3> QED BY <1>3, <1>4, <1>7, <3>1 DEF Backed
  <2>3. Base(k) = First
    BY <1>4, <1>9 DEF Base
  <2> QED BY <1>3, <1>6, <1>7, <1>9, <2>1, <2>2, <2>3 DEF Fine, Recoverable
<1>11. /\ b[0] = Box("seeded", 2, 1, 0, 0, MaxItems, Absent)
       /\ \A g \in Gens \ {0} : b[g] = Box("absent", 2, 1, 0, 0, 0, Absent)
  BY <1>2 DEF NoBox, Box
<1>12. b = [g \in Gens |-> b[g]]
  OBVIOUS
<1> HIDE DEF b
<1>13. \A g \in Gens : b[g].fence = Absent /\ b[g].items = 0 /\ b[g].prior = 0 /\ b[g].ledger = 1
  BY <1>11 DEF Box
<1>14. b[0].authorized = MaxItems /\ b[0].phase = "seeded" /\ \A g \in Gens \ {0} : b[g].phase = "absent"
  BY <1>11 DEF Box
<1>15. Boxes(b)
  <2>1. ASSUME NEW g \in Gens PROVE b[g] \in Mailbox(MaxItems)
    <3>1. Box("seeded", 2, 1, 0, 0, MaxItems, Absent) \in Mailbox(MaxItems)
      BY <1>2 DEF Box, Mailbox
    <3>2. Box("absent", 2, 1, 0, 0, 0, Absent) \in Mailbox(MaxItems)
      BY <1>2 DEF Box, Mailbox
    <3> QED BY <1>11, <3>1, <3>2
  <2>2. b \in [Gens -> Mailbox(b[0].authorized)]
    BY <1>12, <1>14, <2>1
  <2>3. \A g \in 0..(MaxGen - 1) : g + 1 \in Gens \ {0}
    BY <1>2 DEF Gens
  <2>4. \A g \in 0..(MaxGen - 1) : b[g + 1].phase # "seeded"
    BY <1>14, <2>3
  <2> QED BY <1>2, <1>13, <1>14, <2>2, <2>4 DEF Boxes
<1>16. Good(Now)
  <2>1. dir.vis = k /\ dir.disk = {k} /\ dir = [vis |-> dir.vis, disk |-> dir.disk, dirty |-> {}]
    BY <1>1 DEF Stored
  <2>2. Now = State(Now.dir, Now.box, Now.acked, Now.lossy)
    BY NowFields DEF Now
  <2>3. FencedLive(k, b)
    BY <1>13 DEF FencedLive
  <2> QED BY <1>1, <1>10, <1>15, <2>1, <2>2, <2>3, NowFields DEF Good
<1>17. Script(todo) /\ Stays(Now, todo)
  BY <1>1, <1>16, Nothing
<1>18. Serving
  BY <1>1 DEF Serving
<1>19. Within
  <2>1. MaxMutations \in Nat /\ MaxDeaths \in Nat /\ MaxLosses \in Nat
    BY <1>1, HomeBounds
  <2>2. nonce \in 0..MaxMutations /\ deaths \in 0..MaxDeaths /\ losses \in 0..MaxLosses
    BY <1>1, <2>1
  <2>3. /\ home \in Homes /\ box[0].authorized = MaxItems /\ cmd = "none" /\ up \in BOOLEAN
        /\ sel \in Gens /\ acked \in Nat
    BY <1>1, <1>2, <1>14
  <2> QED BY <2>2, <2>3 DEF Within
<1> QED BY <1>1, <1>17, <1>18, <1>19 DEF HomeInv

\* HomeInv holds of every life of a home: whatever the commands of the command
\* line have done, wherever one of them died and whenever the power failed, what
\* is left of the running command leads through good homes only.
THEOREM HomeInvariant == Spec => []HomeInv
<1>1. Init => HomeInv
  BY InitInv
<1>2. HomeInv /\ [Next]_vars => HomeInv'
  <2> SUFFICES ASSUME HomeInv, [Next]_vars PROVE HomeInv'
    OBVIOUS
  <2>1. CASE UNCHANGED vars
    <3>1. UNCHANGED <<home, dir, cmd, todo, box, up, sel, acked, nonce, deaths, losses>>
      BY <2>1 DEF vars
    <3>2. Now' = Now
      BY <3>1 DEF Now
    <3>3. Serving' /\ Within'
      BY <3>1 DEF HomeInv, Serving, Within, MaxItems, MaxMutations, MaxDeaths, MaxLosses
    <3> QED BY <3>1, <3>2, <3>3 DEF HomeInv
  <2>2. CASE Next
    <3>1. UNCHANGED home
      BY <2>2 DEF Next
    <3>2. CASE Operator
      BY <3>1, <3>2, RenewInv, RevokeInv, AddCredentialInv, ReplaceCredentialInv, RecoverInv, PrepareInv,
         FenceInv, CutoverInv DEF Operator
    <3>3. CASE Step \/ Die \/ PowerLoss \/ Serve \/ StopServing
      BY <3>1, <3>3, StepInv, DieInv, PowerLossInv, ServeInv, StopServingInv
    <3>4. CASE \E g \in Gens : Put(g)
      BY <3>1, <3>4, PutInv
    <3> QED BY <2>2, <3>2, <3>3, <3>4 DEF Next
  <2> QED BY <2>1, <2>2
<1> QED BY <1>1, <1>2, PTL DEF Spec

-----------------------------------------------------------------------------
(* What the invariant says of the seal.                                     *)

LEMMA TypedHome ==
    ASSUME HomeInv
    PROVE  TypeOK
<1>1. /\ Good(Now) /\ Boxes(box) /\ Now.dir = dir
  BY NowGood, NowFields
<1>2. ASSUME NEW m \in dir.disk PROVE Typed(m) /\ DOMAIN m = Names
  <2>1. Typed(m)
    BY <1>1 DEF Good, Fine
  <2>2. m = [n \in Names |-> m[n]]
    BY <2>1 DEF Typed
  <2>3. DOMAIN m = Names
    BY <2>2
  <2> QED BY <2>1, <2>3
<1>3. dir.vis \in dir.disk
  BY <1>1 DEF Good
<1>4. dir.vis["config"] \in Configs /\ dir.vis["seal"] \in {Absent, "files", "committing"}
  BY <1>2, <1>3 DEF Typed
<1>5. \A g \in Gens :
        /\ box[g].phase \in {"absent", "marked", "made", "seeded"}
        /\ box[g].items \in 0..MaxItems /\ box[g].format \in {2, 3} /\ box[g].ledger \in {1, 2}
  BY <1>1, BoxesFacts DEF HomeInv, Within
<1> QED BY <1>2, <1>3, <1>4, <1>5 DEF TypeOK, HomeInv, Within
LEMMA RecoversHome ==
    ASSUME HomeInv
    PROVE  AlwaysRecovers
BY NowGood, NowFields, RecoverRun DEF AlwaysRecovers
LEMMA ReportedHome ==
    ASSUME HomeInv
    PROVE  ReportedStays
<1> SUFFICES ASSUME NEW m \in dir.disk, NEW order \in Orders
             PROVE  Done(m, recover_seal(m, order))["config"].serial >= acked
  BY DEF ReportedStays
<1> DEFINE s == State(Stored(m), box, acked, TRUE)
           R == recover_seal(m, order)
<1>1. Good(Now) /\ Now.dir = dir /\ Now.box = box /\ Now.acked = acked
  BY NowGood, NowFields
<1>2. Good(s)
  <2> DEFINE l == TRUE
             t == State(Stored(m), Now.box, Now.acked, l)
  <2>1. m \in Now.dir.disk /\ l = TRUE /\ s = t
    BY <1>1
  <2> HIDE DEF s, l
  <2>2. t = State(Stored(m), Now.box, Now.acked, l)
    OBVIOUS
  <2> HIDE DEF t
  <2>3. Good(t)
    BY <1>1, <2>1, <2>2, DiskGood
  <2> QED BY <2>1, <2>3
<1>3. s.dir.vis = m
  <2>1. s.dir = Stored(m)
    <3> DEFINE d == Stored(m)
    <3>1. State(d, box, acked, TRUE).dir = d
      <4> HIDE DEF d
      <4> QED BY DEF State
    <3> QED BY <3>1
  <2> HIDE DEF s
  <2> QED BY <2>1 DEF Stored
<1> HIDE DEF s
<1>4. PICK t : RecoversTo(s, m, order, t)
  BY <1>2, <1>3, RecoverRun
<1>5. Turns(s, R, t, t.dir.vis) /\ t.dir.vis["config"] = Base(m)
  BY <1>4 DEF RecoversTo, Tidy
<1>6. Done(m, R) = t.dir.vis
  <2> HIDE DEF R
  <2> QED BY <1>3, <1>5, TurnsDone
<1>7. Base(m).serial >= acked
  BY <1>1 DEF Good, Fine
<1> QED BY <1>5, <1>6, <1>7

\* A sealed mutation (a renewal, a revocation, a replaced credential, a
\* cutover) is whole or undone after any death and any power loss: recover_seal
\* is never uncertain and ends in a home that loads, and what a command has
\* reported is never undone, neither in the files as they are nor in any map of
\* them that the disk may hold.
THEOREM SealsAreWhole == Spec => []SealIsWhole
<1>1. HomeInv => SealIsWhole
  BY TypedHome, RecoversHome, ReportedHome DEF SealIsWhole
<1> QED BY <1>1, HomeInvariant, PTL

-----------------------------------------------------------------------------
(* What the invariant says of a succession.                                 *)

LEMMA EvidenceHome ==
    ASSUME HomeInv
    PROVE  SelectionHasEvidence
<1>1. Backing(dir.vis, box, dir.vis["config"])
  BY NowGood, NowFields, AptGives
<1> QED BY <1>1 DEF SelectionHasEvidence, Backing, Evident, Retained
LEMMA OpenHome ==
    ASSUME HomeInv
    PROVE  OneOpenMailbox
<1> SUFFICES ASSUME up, losses = 0 PROVE {g \in 0..sel : box[g].fence = Absent} = {sel}
  BY DEF OneOpenMailbox
<1>1. box[sel].fence = Absent /\ \A g \in 0..(sel - 1) : box[g].fence # Absent
  BY DEF HomeInv, Serving
<1>2. sel \in 0..sel /\ \A g \in 0..sel : g = sel \/ g \in 0..(sel - 1)
  BY HostAssumption DEF HomeInv, Within, Gens
<1> QED BY <1>1, <1>2
LEMMA DrainHome ==
    ASSUME HomeInv
    PROVE  FenceIsTheDrain
<1>1. Boxes(box)
  BY NowGood
<1> QED BY <1>1 DEF FenceIsTheDrain, Boxes

\* What is spent and what is granted, generation by generation.
LEMMA SpentFacts ==
    \A g \in Gens : Spent[g] = box[g].items + IF g = 0 THEN 0 ELSE Spent[g - 1]
<1> DEFINE i(g) == box[g].items
           f == [g \in Gens |-> i(g) + IF g = 0 THEN 0 ELSE i(g - 1) + IF g = 1 THEN 0 ELSE i(g - 2) + 0]
<1>1. MaxGen \in 0..2
  BY HostAssumption
<1>2. f = [g \in Gens |-> box[g].items + IF g = 0 THEN 0 ELSE f[g - 1]]
  <2> DEFINE r == [g \in Gens |-> box[g].items + IF g = 0 THEN 0 ELSE f[g - 1]]
  <2>1. ASSUME NEW g \in Gens PROVE f[g] = r[g]
    <3>1. g \in {0, 1, 2}
      BY <1>1 DEF Gens
    <3>2. CASE g = 0
      BY <3>2
    <3>3. CASE g = 1
      <4>1. 0 \in Gens /\ g - 1 = 0
        BY <1>1, <3>3 DEF Gens
      <4>2. f[0] = i(0) + 0
        BY <4>1
      <4>3. f[1] = i(1) + (i(0) + 0)
        BY <3>3
      <4>4. r[1] = i(1) + f[0]
        BY <3>3
      <4> HIDE DEF f, r, i
      <4> QED BY <3>3, <4>2, <4>3, <4>4
    <3>4. CASE g = 2
      <4>1. 1 \in Gens
        BY <1>1, <3>4 DEF Gens
      <4>2. f[1] = i(1) + (i(0) + 0)
        BY <4>1
      <4>3. f[2] = i(2) + (i(1) + (i(0) + 0))
        BY <3>4
      <4>4. r[2] = i(2) + f[1]
        BY <3>4
      <4> HIDE DEF f, r, i
      <4> QED BY <3>4, <4>2, <4>3, <4>4
    <3> QED BY <3>1, <3>2, <3>3, <3>4
  <2>2. f = [g \in Gens |-> f[g]] /\ r = [g \in Gens |-> r[g]]
    OBVIOUS
  <2> HIDE DEF f, r
  <2>3. f = r
    BY <2>1, <2>2
  <2> QED BY <2>3 DEF r
<1> HIDE DEF f
<1>3. Spent = [g \in Gens |-> box[g].items + IF g = 0 THEN 0 ELSE Spent[g - 1]]
  <2> DEFINE P(h) == h = [g \in Gens |-> box[g].items + IF g = 0 THEN 0 ELSE h[g - 1]]
  <2>1. P(f)
    BY <1>2
  <2>2. Spent = CHOOSE h : P(h)
    BY DEF Spent
  <2> HIDE DEF P
  <2>3. P(Spent)
    BY <2>1, <2>2
  <2> QED BY <2>3 DEF P
<1> HIDE DEF i
<1> QED BY ONLY <1>3
LEMMA GrantedFacts ==
    \A g \in Gens : Granted[g] =
        IF g = 0 THEN MaxItems
        ELSE Granted[g - 1] + IF box[g - 1].fence = Absent THEN 0 ELSE box[g - 1].fence.grant
<1> DEFINE i(g) == IF box[g].fence = Absent THEN 0 ELSE box[g].fence.grant
           f == [g \in Gens |-> IF g = 0 THEN MaxItems
                                ELSE (IF g = 1 THEN MaxItems ELSE MaxItems + i(g - 2)) + i(g - 1)]
           G(h) == [g \in Gens |-> IF g = 0 THEN MaxItems
                      ELSE h[g - 1] + IF box[g - 1].fence = Absent THEN 0 ELSE box[g - 1].fence.grant]
<1>1. MaxGen \in 0..2
  BY HostAssumption
<1>2. f = G(f)
  <2> DEFINE r == G(f)
  <2>1. ASSUME NEW g \in Gens PROVE f[g] = r[g]
    <3>1. g \in {0, 1, 2}
      BY <1>1 DEF Gens
    <3>2. CASE g = 0
      BY <3>2
    <3>3. CASE g = 1
      <4>1. 0 \in Gens
        BY <1>1 DEF Gens
      <4>2. f[0] = MaxItems
        BY <4>1
      <4>3. f[1] = MaxItems + i(0)
        BY <3>3
      <4>4. r[1] = f[0] + i(0)
        BY <3>3
      <4> HIDE DEF f, r, i
      <4> QED BY <3>3, <4>2, <4>3, <4>4
    <3>4. CASE g = 2
      <4>1. 1 \in Gens
        BY <1>1, <3>4 DEF Gens
      <4>2. f[1] = MaxItems + i(0)
        BY <4>1
      <4>3. f[2] = (MaxItems + i(0)) + i(1)
        BY <3>4
      <4>4. r[2] = f[1] + i(1)
        BY <3>4
      <4> HIDE DEF f, r, i
      <4> QED BY <3>4, <4>2, <4>3, <4>4
    <3> QED BY <3>1, <3>2, <3>3, <3>4
  <2>2. f = [g \in Gens |-> f[g]] /\ r = [g \in Gens |-> r[g]]
    OBVIOUS
  <2> HIDE DEF f, r
  <2>3. f = r
    BY <2>1, <2>2
  <2> QED BY <2>3 DEF r
<1> HIDE DEF f, i
<1>3. Granted = G(Granted)
  <2> DEFINE P(h) == h = G(h)
  <2>1. P(f)
    BY <1>2
  <2>2. Granted = CHOOSE h : P(h)
    BY DEF Granted
  <2> HIDE DEF P, G
  <2>3. P(Granted)
    BY <2>1, <2>2
  <2> QED BY <2>3 DEF P
<1> QED BY ONLY <1>3
LEMMA SpendHome ==
    ASSUME HomeInv
    PROVE  SpendIsCarried
<1> DEFINE Carried(g) == Spent[g] = box[g].prior + box[g].items /\ Granted[g] = box[g].authorized
<1>1. Boxes(box) /\ box[0].authorized = MaxItems /\ MaxGen \in 0..2 /\ 0 \in Gens
  BY NowGood, HostAssumption DEF HomeInv, Within, Gens
<1>2. \A g \in Gens : /\ box[g].items \in 0..MaxItems /\ box[g].prior \in Nat /\ box[g].authorized \in Nat
                      /\ box[g].fence \in Plans \cup {Absent}
  BY <1>1, BoxesFacts
<1>3. Carried(0) /\ Spent[0] <= Granted[0]
  <2>1. box[0].prior = 0
    BY <1>1 DEF Boxes
  <2>2. Spent[0] = box[0].items + 0 /\ Granted[0] = MaxItems
    BY <1>1, SpentFacts, GrantedFacts
  <2> QED BY <1>1, <1>2, <2>1, <2>2
<1>4. ASSUME NEW h \in 0..(MaxGen - 1), box[h + 1].phase = "seeded", Carried(h)
      PROVE  Carried(h + 1) /\ Spent[h + 1] <= Granted[h + 1]
  <2>1. h \in Gens /\ h + 1 \in Gens /\ h + 1 # 0 /\ (h + 1) - 1 = h
    BY <1>1 DEF Gens
  <2>2. /\ box[h + 1].ledger = 2 /\ box[h].fence # Absent
        /\ box[h + 1].prior = box[h].prior + box[h].items
        /\ box[h + 1].authorized = box[h].authorized + box[h].fence.grant
    BY <1>1, <1>4 DEF Boxes
  <2>3. box[h + 1].prior + box[h + 1].items <= box[h + 1].authorized
    BY <1>1, <1>4, <2>1, <2>2 DEF Boxes
  <2>4. Spent[h + 1] = box[h + 1].items + Spent[h]
    BY <2>1, SpentFacts
  <2>5. Granted[h + 1] = Granted[h] + box[h].fence.grant
    BY <2>1, <2>2, GrantedFacts
  <2>6. box[h].prior \in Nat /\ box[h].items \in Nat /\ box[h + 1].items \in Nat
    BY <1>2, <2>1, HomeBounds DEF HomeInv, Within
  <2>7. Carried(h + 1)
    BY <1>4, <2>2, <2>4, <2>5, <2>6
  <2> QED BY <2>3, <2>7
<1>5. ASSUME NEW h \in 0..(MaxGen - 1), box[h + 1].phase = "seeded" PROVE box[h].phase = "seeded"
  BY <1>1, <1>5 DEF Boxes
<1> HIDE DEF Carried
<1>6. ASSUME NEW g \in Gens, box[g].phase = "seeded" PROVE Spent[g] <= Granted[g]
  <2>1. CASE g = 0
    BY <2>1, <1>3
  <2>2. CASE g = 1
    <3>1. 0 \in 0..(MaxGen - 1) /\ 0 + 1 = 1
      BY <2>2, <1>1 DEF Gens
    <3> QED BY <2>2, <1>3, <1>4, <1>6, <3>1
  <2>3. CASE g = 2
    <3>1. 0 \in 0..(MaxGen - 1) /\ 0 + 1 = 1 /\ 1 \in 0..(MaxGen - 1) /\ 1 + 1 = 2
      BY <2>3, <1>1 DEF Gens
    <3>2. box[1].phase = "seeded"
      BY <2>3, <1>5, <1>6, <3>1
    <3>3. Carried(1)
      BY <1>3, <1>4, <3>1, <3>2
    <3> QED BY <2>3, <1>4, <1>6, <3>1, <3>3
  <2> QED BY <2>1, <2>2, <2>3, <1>1 DEF Gens
<1> QED BY <1>6 DEF SpendIsCarried

\* A drained generation is succeeded safely, wherever commands die: a successor
\* is selected only with its evidence, the service runs with exactly one open
\* mailbox (while no power was lost), a fence seals what its plan drained, and
\* the spend of a credential is carried through the generations.
THEOREM SuccessionHolds == Spec => []SuccessionIsSafe
<1>1. HomeInv => SuccessionIsSafe
  BY EvidenceHome, OpenHome, DrainHome, SpendHome DEF SuccessionIsSafe
<1> QED BY <1>1, HomeInvariant, PTL

-----------------------------------------------------------------------------
(* RelayService from here on.                                              *)

USE ServiceAssumption

-----------------------------------------------------------------------------
(* The inductive invariant.                                                *)

\* Where a worker may be: holding the mutex, with a response that is not yet
\* billed, with an admitted request, at all.
Holding  == {"run", "held", "park"}
Unbilled == Holding \cup {"asleep", "look", "notify", "bill"}
Inside   == Unbilled \cup {"write", "release"}
Working  == Inside \cup {"handshake", "request"}
Pcs      == Working \cup {"absent", "arrived", "refused", "finished", "panicked"}

ConnRecord == [pc : Pcs, src : Origins, op : Ops, key : Keys, after : Nat, expired : BOOLEAN,
               cancelled : {"no", "asked", "told"}, code : {"none", "ok", "status", "unavailable", "failed"},
               admitted : BOOLEAN]

\* The connections that each count stands for.
SlotOf(cn, k) == {c \in Conns : cn[c].key = k /\ cn[c].pc \in Inside}
DueOf(cn, k)  == {c \in Conns : cn[c].key = k /\ cn[c].pc \in Unbilled}
Dues(cn)      == {c \in Conns : cn[c].pc \in Unbilled}
Workers(cn)   == {c \in Conns : cn[c].pc \in Working}
From(cn, s)   == {c \in Conns : cn[c].pc \in Working /\ cn[c].src = s}

\* A worker is owned until it is reaped.
Owning(cn, ow) ==
    /\ Workers(cn) \subseteq ow /\ ow \subseteq Conns
    /\ IsFiniteSet(ow) /\ Cardinality(ow) <= MaxConns
    /\ \A s \in Sources : Cardinality(From(cn, s)) <= Share

\* A credential's count is that of its admitted requests.
Slots(cn, inf) == \A k \in Keys : inf[k] = Cardinality(SlotOf(cn, k)) /\ inf[k] <= MaxInflight

\* What was billed and what is still to be billed fit together.
Budget(cn, by, all) ==
    /\ \A k \in Keys : by[k] + Cardinality(DueOf(cn, k)) <= KeyBytes + MaxInflight
    /\ all + Cardinality(Dues(cn)) <= AllBytes + MaxConns

\* The parts of ServiceTypeOK: what the supervisor has, and what is under the mutex.
Upper ==
    /\ {stop, draining, failure, supRolled} \subseteq BOOLEAN
    /\ sup \in {"check", "accept", "drain", "wake", "join", "done"}
    /\ result \in {"none", "ok", "unavailable"}
    /\ accepted \in 0..Accepts /\ started \in 0..Handshakes
    /\ shareStart \in [Sources -> 0..StartShare]

Lower ==
    /\ {torn, poisoned, rolled} \subseteq BOOLEAN
    /\ lock \in Conns \cup {Free} /\ high \in Nat
    /\ rolls \in 0..MaxRolls /\ faults \in 0..MaxFaults
    /\ inflight \in [Keys -> Nat] /\ requests \in [Keys -> Nat] /\ bytes \in [Keys -> Nat]
    /\ allRequests \in 0..AllRequests /\ allBytes \in Nat

\* The mutex, the flags and where the workers are.
Control(c) ==
    /\ conn[c].pc \in Holding <=> lock = c
    /\ conn[c].admitted <=> conn[c].pc \in Inside
    /\ conn[c].pc = "run" => ~poisoned
    /\ conn[c].pc \in Holding => ~torn
    /\ conn[c].pc = "panicked" => torn
    /\ conn[c].pc = "park" => high <= conn[c].after
    /\ conn[c].pc \in {"park", "asleep"} => conn[c].cancelled # "told"
    /\ conn[c].pc \in Working \cup {"arrived"} => c \in DOMAIN Asks

Supervised ==
    /\ sup = "accept" => accepted < Accepts
    /\ sup = "done" <=> result # "none"
    /\ sup = "done" => owned = {}

ServiceInv ==
    /\ load \in RelayLoads /\ Upper /\ Lower /\ conn \in [Conns -> ConnRecord]
    /\ \A c \in Conns : Control(c)
    /\ HeldPageWoken
    /\ Supervised /\ HonestResult
    /\ Owning(conn, owned)
    /\ ~torn => Slots(conn, inflight)
    /\ Budget(conn, bytes, allBytes)

-----------------------------------------------------------------------------
(* Counting.                                                               *)

LEMMA Shares == Share \in Nat \ {0} /\ StartShare \in Nat \ {0}
<1>1. MaxConns \div 4 \in Nat /\ Handshakes \div 4 \in Nat
  OBVIOUS
<1> QED BY <1>1 DEF Share, StartShare

\* All the counted sets are finite.
LEMMA Counted ==
    ASSUME NEW cn, NEW ow, Owning(cn, ow)
    PROVE  /\ IsFiniteSet(Workers(cn)) /\ Cardinality(Workers(cn)) <= MaxConns
           /\ IsFiniteSet(Dues(cn)) /\ Cardinality(Dues(cn)) \in Nat
           /\ Cardinality(Dues(cn)) <= Cardinality(Workers(cn)) /\ Cardinality(Workers(cn)) \in Nat
           /\ \A k : /\ IsFiniteSet(SlotOf(cn, k)) /\ Cardinality(SlotOf(cn, k)) \in Nat
                     /\ IsFiniteSet(DueOf(cn, k)) /\ Cardinality(DueOf(cn, k)) \in Nat
                     /\ Cardinality(DueOf(cn, k)) <= Cardinality(SlotOf(cn, k))
           /\ \A s : IsFiniteSet(From(cn, s)) /\ Cardinality(From(cn, s)) \in Nat
<1>1. /\ Workers(cn) \subseteq ow /\ IsFiniteSet(ow) /\ Cardinality(ow) <= MaxConns
      /\ Cardinality(ow) \in Nat
  BY FS_CardinalityType DEF Owning
<1>2. IsFiniteSet(Workers(cn)) /\ Cardinality(Workers(cn)) <= Cardinality(ow) /\ Cardinality(Workers(cn)) \in Nat
  BY <1>1, FS_Subset, FS_CardinalityType
<1>3. /\ Dues(cn) \subseteq Workers(cn)
      /\ \A k : SlotOf(cn, k) \subseteq Workers(cn) /\ DueOf(cn, k) \subseteq SlotOf(cn, k)
      /\ \A s : From(cn, s) \subseteq Workers(cn)
  BY DEF Dues, Workers, SlotOf, DueOf, From, Working, Inside
<1>4. ASSUME NEW k
      PROVE /\ IsFiniteSet(SlotOf(cn, k)) /\ Cardinality(SlotOf(cn, k)) \in Nat
            /\ IsFiniteSet(DueOf(cn, k)) /\ Cardinality(DueOf(cn, k)) \in Nat
            /\ Cardinality(DueOf(cn, k)) <= Cardinality(SlotOf(cn, k))
  <2>1. IsFiniteSet(SlotOf(cn, k)) /\ Cardinality(SlotOf(cn, k)) \in Nat
    BY <1>2, <1>3, FS_Subset, FS_CardinalityType
  <2>2. IsFiniteSet(DueOf(cn, k)) /\ Cardinality(DueOf(cn, k)) <= Cardinality(SlotOf(cn, k))
    BY <1>3, <2>1, FS_Subset
  <2> QED BY <2>1, <2>2, FS_CardinalityType
<1>5. \A s : IsFiniteSet(From(cn, s)) /\ Cardinality(From(cn, s)) \in Nat
  BY <1>2, <1>3, FS_Subset, FS_CardinalityType
<1>6. IsFiniteSet(Dues(cn)) /\ Cardinality(Dues(cn)) <= Cardinality(Workers(cn)) /\ Cardinality(Dues(cn)) \in Nat
  BY <1>2, <1>3, FS_Subset, FS_CardinalityType
<1>7. Cardinality(Workers(cn)) <= MaxConns
  BY <1>1, <1>2
<1> QED BY <1>2, <1>4, <1>5, <1>6, <1>7

\* A step that moves no connection into or out of a counted set.
Alike(a, b) ==
    /\ a.pc \in Working <=> b.pc \in Working
    /\ a.pc \in Inside <=> b.pc \in Inside
    /\ a.pc \in Unbilled <=> b.pc \in Unbilled
    /\ a.pc \in Inside => a.key = b.key
    /\ a.pc \in Working => a.src = b.src

Calm(cn, cm) == \A c \in Conns : Alike(cn[c], cm[c])

LEMMA QuietSets ==
    ASSUME NEW cn, NEW cm, Calm(cn, cm)
    PROVE  /\ Workers(cm) = Workers(cn) /\ Dues(cm) = Dues(cn)
           /\ \A k : SlotOf(cm, k) = SlotOf(cn, k) /\ DueOf(cm, k) = DueOf(cn, k)
           /\ \A s : From(cm, s) = From(cn, s)
<1>1. Unbilled \subseteq Inside
  BY DEF Inside
<1> QED BY <1>1 DEF Calm, Alike, Workers, Dues, SlotOf, DueOf, From

LEMMA QuietKeeps ==
    ASSUME NEW cn, NEW cm, Calm(cn, cm), NEW ow, NEW inf, NEW by, NEW all
    PROVE  /\ Owning(cn, ow) => Owning(cm, ow)
           /\ Slots(cn, inf) => Slots(cm, inf)
           /\ Budget(cn, by, all) => Budget(cm, by, all)
  BY QuietSets DEF Owning, Slots, Budget

\* Only c moves.
Others(cn, cm, c) == \A d \in Conns : d # c => cm[d] = cn[d]

\* A worker ends.
Ends(cn, cm, c) == cm[c].pc \notin Working /\ Others(cn, cm, c)

LEMMA EndsSets ==
    ASSUME NEW cn, NEW cm, NEW c \in Conns, Ends(cn, cm, c)
    PROVE  /\ Workers(cm) = Workers(cn) \ {c} /\ Dues(cm) = Dues(cn) \ {c}
           /\ \A k : SlotOf(cm, k) = SlotOf(cn, k) \ {c} /\ DueOf(cm, k) = DueOf(cn, k) \ {c}
           /\ \A s : From(cm, s) = From(cn, s) \ {c}
<1>1. cm[c].pc \notin Working /\ cm[c].pc \notin Inside /\ cm[c].pc \notin Unbilled
  BY DEF Ends, Working, Inside
<1> QED BY <1>1 DEF Ends, Others, Workers, Dues, SlotOf, DueOf, From

\* Taking an element away, or nothing.
LEMMA Without ==
    ASSUME NEW S, IsFiniteSet(S), NEW c
    PROVE  /\ Cardinality(S \ {c}) \in Nat /\ Cardinality(S \ {c}) <= Cardinality(S)
           /\ c \in S => Cardinality(S \ {c}) = Cardinality(S) - 1
           /\ Cardinality(S) \in Nat
<1>1. Cardinality(S) \in Nat
  BY FS_CardinalityType
<1>2. IsFiniteSet(S \ {c}) /\ Cardinality(S \ {c}) <= Cardinality(S)
  BY FS_Subset
<1>3. Cardinality(S \ {c}) \in Nat
  BY <1>2, FS_CardinalityType
<1>4. c \in S => Cardinality(S \ {c}) = Cardinality(S) - 1
  BY FS_RemoveElement
<1> QED BY <1>1, <1>2, <1>3, <1>4

LEMMA EndsKeeps ==
    ASSUME NEW cn, NEW cm, NEW c \in Conns, Ends(cn, cm, c), NEW ow, Owning(cn, ow),
           NEW by \in [Keys -> Nat], NEW all \in Nat
    PROVE  /\ Owning(cm, ow)
           /\ Budget(cn, by, all) => Budget(cm, by, all)
<1>1. /\ Workers(cm) = Workers(cn) \ {c} /\ Dues(cm) = Dues(cn) \ {c}
      /\ \A k : SlotOf(cm, k) = SlotOf(cn, k) \ {c} /\ DueOf(cm, k) = DueOf(cn, k) \ {c}
      /\ \A s : From(cm, s) = From(cn, s) \ {c}
  BY EndsSets
<1>2. /\ IsFiniteSet(Dues(cn)) /\ \A k : IsFiniteSet(DueOf(cn, k))
      /\ \A s : IsFiniteSet(From(cn, s))
  BY Counted
<1>3. Owning(cm, ow)
  <2>1. ASSUME NEW s \in Sources PROVE Cardinality(From(cm, s)) <= Share
    <3>1. Cardinality(From(cm, s)) <= Cardinality(From(cn, s)) /\ Cardinality(From(cn, s)) \in Nat
          /\ Cardinality(From(cm, s)) \in Nat
      BY <1>1, <1>2, Without
    <3> QED BY <3>1, Shares DEF Owning
  <2> QED BY <1>1, <2>1 DEF Owning
<1>4. ASSUME Budget(cn, by, all) PROVE Budget(cm, by, all)
  <2>1. ASSUME NEW k \in Keys PROVE by[k] + Cardinality(DueOf(cm, k)) <= KeyBytes + MaxInflight
    <3>1. Cardinality(DueOf(cm, k)) <= Cardinality(DueOf(cn, k)) /\ Cardinality(DueOf(cn, k)) \in Nat
          /\ Cardinality(DueOf(cm, k)) \in Nat
      BY <1>1, <1>2, Without
    <3>2. by[k] + Cardinality(DueOf(cn, k)) <= KeyBytes + MaxInflight /\ by[k] \in Nat
      BY <1>4 DEF Budget
    <3> QED BY <3>1, <3>2
  <2>2. all + Cardinality(Dues(cm)) <= AllBytes + MaxConns
    <3>1. Cardinality(Dues(cm)) <= Cardinality(Dues(cn)) /\ Cardinality(Dues(cn)) \in Nat
          /\ Cardinality(Dues(cm)) \in Nat
      BY <1>1, <1>2, Without
    <3>2. all + Cardinality(Dues(cn)) <= AllBytes + MaxConns
      BY <1>4 DEF Budget
    <3> QED BY <3>1, <3>2
  <2> QED BY <2>1, <2>2 DEF Budget
<1> QED BY <1>3, <1>4

\* A worker without an admitted request ends.
LEMMA EndsSlotless ==
    ASSUME NEW cn, NEW cm, NEW c \in Conns, Ends(cn, cm, c), cn[c].pc \notin Inside,
           NEW inf, Slots(cn, inf)
    PROVE  Slots(cm, inf)
<1>1. \A k : SlotOf(cm, k) = SlotOf(cn, k)
  BY EndsSets DEF SlotOf
<1> QED BY <1>1 DEF Slots

\* A worker ends and gives its slot back.
LEMMA EndsSlot ==
    ASSUME NEW cn, NEW cm, NEW c \in Conns, Ends(cn, cm, c), cn[c].pc \in Inside, cn[c].key \in Keys,
           NEW ow, Owning(cn, ow), NEW inf \in [Keys -> Nat], Slots(cn, inf)
    PROVE  /\ inf[cn[c].key] - 1 \in Nat
           /\ Slots(cm, [inf EXCEPT ![cn[c].key] = @ - 1])
<1> DEFINE q == cn[c].key
           jnf == [inf EXCEPT ![q] = @ - 1]
<1>1. \A k : SlotOf(cm, k) = SlotOf(cn, k) \ {c} /\ IsFiniteSet(SlotOf(cn, k))
  BY EndsSets, Counted
<1>2. c \in SlotOf(cn, q) /\ \A k : k # q => SlotOf(cn, k) \ {c} = SlotOf(cn, k)
  BY DEF SlotOf
<1>3. \A k \in Keys : inf[k] = Cardinality(SlotOf(cn, k)) /\ inf[k] <= MaxInflight /\ inf[k] \in Nat
  BY DEF Slots
<1>4. Cardinality(SlotOf(cm, q)) = inf[q] - 1 /\ inf[q] - 1 \in Nat
  BY <1>1, <1>2, <1>3, Without
<1>5. ASSUME NEW k \in Keys PROVE jnf[k] = Cardinality(SlotOf(cm, k)) /\ jnf[k] <= MaxInflight
  <2>1. CASE k = q
    BY <1>3, <1>4, <2>1
  <2>2. CASE k # q
    BY <1>1, <1>2, <1>3, <2>2
  <2> QED BY <2>1, <2>2
<1> QED BY <1>4, <1>5 DEF Slots

\* A request is admitted: one more slot, one more response to bill.
Admission(cn, cm, c) ==
    /\ Others(cn, cm, c) /\ cn[c].pc = "request" /\ cm[c].pc \in Unbilled
    /\ cm[c].key = cn[c].key /\ cm[c].src = cn[c].src

\* Adding an element that is not there.
LEMMA OneMore ==
    ASSUME NEW S, IsFiniteSet(S), NEW c, c \notin S
    PROVE  Cardinality(S \cup {c}) = Cardinality(S) + 1 /\ Cardinality(S) \in Nat /\ IsFiniteSet(S \cup {c})
  BY FS_AddElement, FS_CardinalityType

LEMMA AdmissionSets ==
    ASSUME NEW cn, NEW cm, NEW c \in Conns, Admission(cn, cm, c)
    PROVE  /\ Workers(cm) = Workers(cn) /\ c \in Workers(cn)
           /\ Dues(cm) = Dues(cn) \cup {c} /\ c \notin Dues(cn)
           /\ SlotOf(cm, cn[c].key) = SlotOf(cn, cn[c].key) \cup {c} /\ c \notin SlotOf(cn, cn[c].key)
           /\ DueOf(cm, cn[c].key) = DueOf(cn, cn[c].key) \cup {c} /\ c \notin DueOf(cn, cn[c].key)
           /\ \A k : k # cn[c].key => SlotOf(cm, k) = SlotOf(cn, k) /\ DueOf(cm, k) = DueOf(cn, k)
           /\ \A s : From(cm, s) = From(cn, s)
<1>1. cn[c].pc \in Working /\ cn[c].pc \notin Inside /\ cn[c].pc \notin Unbilled
  BY DEF Admission, Working, Inside, Unbilled, Holding
<1>2. cm[c].pc \in Working /\ cm[c].pc \in Inside /\ cm[c].pc \in Unbilled
  BY DEF Admission, Working, Inside
<1> QED BY <1>1, <1>2 DEF Admission, Others, Workers, Dues, SlotOf, DueOf, From

LEMMA AdmissionKeeps ==
    ASSUME NEW cn, NEW cm, NEW c \in Conns, Admission(cn, cm, c), cn[c].key \in Keys,
           NEW ow, Owning(cn, ow), NEW inf \in [Keys -> Nat], Slots(cn, inf),
           inf[cn[c].key] < MaxInflight,
           NEW by \in [Keys -> Nat], NEW all \in Nat, Budget(cn, by, all),
           by[cn[c].key] + 1 <= KeyBytes, all + 1 <= AllBytes
    PROVE  /\ Owning(cm, ow)
           /\ Slots(cm, [inf EXCEPT ![cn[c].key] = @ + 1])
           /\ Budget(cm, [by EXCEPT ![cn[c].key] = @ + 1], all + 1)
<1> DEFINE q == cn[c].key
           jnf == [inf EXCEPT ![q] = @ + 1]
           cy == [by EXCEPT ![q] = @ + 1]
<1>1. /\ Workers(cm) = Workers(cn) /\ c \in Workers(cn)
      /\ Dues(cm) = Dues(cn) \cup {c} /\ c \notin Dues(cn)
      /\ SlotOf(cm, q) = SlotOf(cn, q) \cup {c} /\ c \notin SlotOf(cn, q)
      /\ DueOf(cm, q) = DueOf(cn, q) \cup {c} /\ c \notin DueOf(cn, q)
      /\ \A k : k # q => SlotOf(cm, k) = SlotOf(cn, k) /\ DueOf(cm, k) = DueOf(cn, k)
      /\ \A s : From(cm, s) = From(cn, s)
  BY AdmissionSets
<1>2. Owning(cm, ow)
  BY <1>1 DEF Owning
<1>3. \A k \in Keys : inf[k] = Cardinality(SlotOf(cn, k)) /\ inf[k] <= MaxInflight /\ inf[k] \in Nat
  BY DEF Slots
<1>4. Cardinality(SlotOf(cm, q)) = inf[q] + 1
  BY <1>1, <1>3, Counted, OneMore
<1>5. ASSUME NEW k \in Keys PROVE jnf[k] = Cardinality(SlotOf(cm, k)) /\ jnf[k] <= MaxInflight
  <2>1. CASE k = q
    BY <1>3, <1>4, <2>1
  <2>2. CASE k # q
    BY <1>1, <1>3, <2>2
  <2> QED BY <2>1, <2>2
<1>6. Slots(cm, jnf)
  BY <1>5 DEF Slots
<1>7. ASSUME NEW k \in Keys PROVE cy[k] + Cardinality(DueOf(cm, k)) <= KeyBytes + MaxInflight
  <2>1. CASE k = q
    <3>1. cy[q] <= KeyBytes /\ cy[q] \in Nat
      OBVIOUS
    <3>2. Cardinality(DueOf(cm, q)) <= Cardinality(SlotOf(cm, q)) /\ Cardinality(DueOf(cm, q)) \in Nat
      BY <1>2, Counted
    <3>3. Cardinality(SlotOf(cm, q)) <= MaxInflight /\ Cardinality(SlotOf(cm, q)) \in Nat
      BY <1>3, <1>4
    <3> HIDE DEF cy, q
    <3> QED BY <2>1, <3>1, <3>2, <3>3
  <2>2. CASE k # q
    <3>1. cy[k] = by[k] /\ DueOf(cm, k) = DueOf(cn, k)
      BY <1>1, <2>2
    <3> QED BY <3>1 DEF Budget
  <2> QED BY <2>1, <2>2
<1>8. all + 1 + Cardinality(Dues(cm)) <= AllBytes + MaxConns
  <2>1. Cardinality(Dues(cm)) <= MaxConns /\ Cardinality(Dues(cm)) \in Nat
    <3>1. Cardinality(Dues(cm)) \in Nat /\ Cardinality(Workers(cm)) \in Nat
          /\ Cardinality(Dues(cm)) <= Cardinality(Workers(cm)) /\ Cardinality(Workers(cm)) <= MaxConns
      BY <1>2, Counted
    <3> QED BY <3>1
  <2> QED BY <2>1
<1> QED BY <1>2, <1>6, <1>7, <1>8 DEF Budget

\* The window turns: the bytes spent are forgotten.
LEMMA BudgetTurns ==
    ASSUME NEW cn, NEW ow, Owning(cn, ow), NEW inf \in [Keys -> Nat], Slots(cn, inf)
    PROVE  Budget(cn, [k \in Keys |-> 0], 0)
<1>1. ASSUME NEW k \in Keys PROVE 0 + Cardinality(DueOf(cn, k)) <= KeyBytes + MaxInflight
  <2>1. /\ Cardinality(DueOf(cn, k)) <= Cardinality(SlotOf(cn, k)) /\ Cardinality(DueOf(cn, k)) \in Nat
        /\ Cardinality(SlotOf(cn, k)) \in Nat
    BY Counted
  <2>2. Cardinality(SlotOf(cn, k)) <= MaxInflight
    BY DEF Slots
  <2> QED BY <2>1, <2>2
<1>2. 0 + Cardinality(Dues(cn)) <= AllBytes + MaxConns
  <2>1. Cardinality(Dues(cn)) \in Nat /\ Cardinality(Workers(cn)) \in Nat
        /\ Cardinality(Dues(cn)) <= Cardinality(Workers(cn)) /\ Cardinality(Workers(cn)) <= MaxConns
    BY Counted
  <2> QED BY <2>1
<1> QED BY <1>1, <1>2 DEF Budget

\* A response is billed, or given up unbilled.
Billing(cn, cm, c) ==
    /\ Others(cn, cm, c) /\ cn[c].pc = "bill" /\ cm[c].pc \in {"write", "release"}
    /\ cm[c].key = cn[c].key /\ cm[c].src = cn[c].src

LEMMA BillingKeeps ==
    ASSUME NEW cn, NEW cm, NEW c \in Conns, Billing(cn, cm, c), cn[c].key \in Keys,
           NEW ow, Owning(cn, ow), NEW by \in [Keys -> Nat], NEW all \in Nat, Budget(cn, by, all)
    PROVE  /\ Owning(cm, ow) /\ \A inf : Slots(cn, inf) => Slots(cm, inf)
           /\ Budget(cm, by, all)
           /\ Budget(cm, [by EXCEPT ![cn[c].key] = @ + 1], all + 1)
<1> DEFINE q == cn[c].key
           cy == [by EXCEPT ![q] = @ + 1]
<1>1. cn[c].pc \in Working /\ cn[c].pc \in Inside /\ cn[c].pc \in Unbilled
  BY DEF Billing, Working, Inside, Unbilled
<1>2. cm[c].pc \in Working /\ cm[c].pc \in Inside /\ cm[c].pc \notin Unbilled
  BY DEF Billing, Working, Inside, Unbilled, Holding
<1>3. /\ Workers(cm) = Workers(cn)
      /\ Dues(cm) = Dues(cn) \ {c} /\ c \in Dues(cn)
      /\ DueOf(cm, q) = DueOf(cn, q) \ {c} /\ c \in DueOf(cn, q)
      /\ \A k : k # q => DueOf(cm, k) = DueOf(cn, k)
      /\ \A k : SlotOf(cm, k) = SlotOf(cn, k)
      /\ \A s : From(cm, s) = From(cn, s)
  BY <1>1, <1>2 DEF Billing, Others, Workers, Dues, SlotOf, DueOf, From
<1>4. Owning(cm, ow) /\ \A inf : Slots(cn, inf) => Slots(cm, inf)
  BY <1>3 DEF Owning, Slots
<1>5. ASSUME NEW k \in Keys
      PROVE  /\ by[k] + Cardinality(DueOf(cm, k)) <= KeyBytes + MaxInflight
             /\ cy[k] + Cardinality(DueOf(cm, k)) <= KeyBytes + MaxInflight
  <2>1. by[k] + Cardinality(DueOf(cn, k)) <= KeyBytes + MaxInflight /\ by[k] \in Nat
    BY DEF Budget
  <2>2. IsFiniteSet(DueOf(cn, k)) /\ Cardinality(DueOf(cn, k)) \in Nat
    BY Counted
  <2>3. CASE k = q
    <3>1. Cardinality(DueOf(cm, k)) = Cardinality(DueOf(cn, k)) - 1 /\ Cardinality(DueOf(cm, k)) \in Nat
      BY <1>3, <2>2, <2>3, Without
    <3>2. cy[k] = by[k] + 1
      BY <2>3
    <3> HIDE DEF cy, q
    <3> QED BY <2>1, <2>2, <3>1, <3>2
  <2>4. CASE k # q
    <3>1. cy[k] = by[k] /\ DueOf(cm, k) = DueOf(cn, k)
      BY <1>3, <2>4
    <3> QED BY <2>1, <3>1
  <2> QED BY <2>3, <2>4
<1>6. all + Cardinality(Dues(cm)) <= AllBytes + MaxConns /\ all + 1 + Cardinality(Dues(cm)) <= AllBytes + MaxConns
  <2>1. IsFiniteSet(Dues(cn)) /\ Cardinality(Dues(cn)) \in Nat
    BY Counted
  <2>2. Cardinality(Dues(cm)) = Cardinality(Dues(cn)) - 1 /\ Cardinality(Dues(cm)) \in Nat
    BY <1>3, <2>1, Without
  <2>3. all + Cardinality(Dues(cn)) <= AllBytes + MaxConns
    BY DEF Budget
  <2> QED BY <2>1, <2>2, <2>3
<1> HIDE DEF cy
<1>7. Budget(cm, by, all) /\ Budget(cm, cy, all + 1)
  BY <1>5, <1>6 DEF Budget
<1> QED BY <1>4, <1>7 DEF cy

\* A socket becomes a worker, where there is room for it.
Starting(cn, cm, c) ==
    /\ Others(cn, cm, c) /\ cn[c].pc = "arrived" /\ cm[c].pc = "handshake"
    /\ cm[c].src = cn[c].src

LEMMA StartingKeeps ==
    ASSUME NEW cn, NEW cm, NEW c \in Conns, Starting(cn, cm, c),
           NEW ow, Owning(cn, ow), Cardinality(ow) < MaxConns,
           cn[c].src \in Sources => Cardinality(From(cn, cn[c].src)) < Share
    PROVE  /\ Owning(cm, ow \cup {c})
           /\ \A inf : Slots(cn, inf) => Slots(cm, inf)
           /\ \A by, all : Budget(cn, by, all) => Budget(cm, by, all)
<1>1. cn[c].pc \notin Working /\ cn[c].pc \notin Inside /\ cn[c].pc \notin Unbilled
  BY DEF Starting, Working, Inside, Unbilled, Holding
<1>2. cm[c].pc \in Working /\ cm[c].pc \notin Inside /\ cm[c].pc \notin Unbilled
  BY DEF Starting, Working, Inside, Unbilled, Holding
<1>3. /\ Workers(cm) = Workers(cn) \cup {c} /\ Dues(cm) = Dues(cn)
      /\ \A k : SlotOf(cm, k) = SlotOf(cn, k) /\ DueOf(cm, k) = DueOf(cn, k)
      /\ \A s : s # cn[c].src => From(cm, s) = From(cn, s)
      /\ From(cm, cn[c].src) = From(cn, cn[c].src) \cup {c} /\ c \notin From(cn, cn[c].src)
  BY <1>1, <1>2 DEF Starting, Others, Workers, Dues, SlotOf, DueOf, From
<1>4. IsFiniteSet(ow \cup {c}) /\ Cardinality(ow \cup {c}) <= MaxConns
  <2>1. IsFiniteSet(ow) /\ Cardinality(ow) \in Nat
    BY FS_CardinalityType DEF Owning
  <2>2. IsFiniteSet(ow \cup {c})
        /\ (Cardinality(ow \cup {c}) = Cardinality(ow) \/ Cardinality(ow \cup {c}) = Cardinality(ow) + 1)
    BY <2>1, FS_AddElement
  <2>3. MaxConns \in Nat
    OBVIOUS
  <2> QED BY <2>1, <2>2, <2>3
<1>5. ASSUME NEW s \in Sources PROVE Cardinality(From(cm, s)) <= Share
  <2>1. CASE s = cn[c].src
    <3>1. IsFiniteSet(From(cn, s)) /\ Cardinality(From(cn, s)) < Share
      BY <2>1, Counted
    <3>2. Cardinality(From(cm, s)) = Cardinality(From(cn, s)) + 1 /\ Cardinality(From(cn, s)) \in Nat
      BY <1>3, <2>1, <3>1, OneMore
    <3> QED BY <3>1, <3>2, Shares
  <2>2. CASE s # cn[c].src
    BY <1>3, <2>2 DEF Owning
  <2> QED BY <2>1, <2>2
<1>6. Owning(cm, ow \cup {c})
  BY <1>3, <1>4, <1>5 DEF Owning
<1> QED BY <1>3, <1>6 DEF Slots, Budget

\* Workers that have ended are reaped.
LEMMA ReapingKeeps ==
    ASSUME NEW cn, NEW ow, Owning(cn, ow), NEW ended \in SUBSET ow, ended \cap Workers(cn) = {}
    PROVE  Owning(cn, ow \ ended)
<1>1. IsFiniteSet(ow) /\ Cardinality(ow) \in Nat /\ Cardinality(ow) <= MaxConns
  BY FS_CardinalityType DEF Owning
<1>2. IsFiniteSet(ow \ ended) /\ Cardinality(ow \ ended) <= Cardinality(ow) /\ Cardinality(ow \ ended) \in Nat
  BY <1>1, FS_Subset, FS_CardinalityType
<1>3. Cardinality(ow \ ended) <= MaxConns
  BY <1>1, <1>2
<1> QED BY <1>2, <1>3 DEF Owning

-----------------------------------------------------------------------------
(* One connection moves.                                                   *)

Same(a, b) == b.src = a.src /\ b.key = a.key /\ b.op = a.op /\ b.after = a.after
              /\ b.cancelled = a.cancelled /\ b.admitted = a.admitted

Moved(c, p, v) ==
    /\ conn' \in [Conns -> ConnRecord] /\ Others(conn, conn', c)
    /\ conn'[c].pc = p /\ Same(conn[c], conn'[c]) /\ conn'[c].code = v

LEMMA GoFacts ==
    ASSUME conn \in [Conns -> ConnRecord], NEW c \in Conns, NEW p \in Pcs, conn' = Go(c, p)
    PROVE  Moved(c, p, conn[c].code)
<1>1. conn[c] \in ConnRecord /\ [conn[c] EXCEPT !.pc = p] \in ConnRecord
  BY DEF ConnRecord
<1>2. conn'[c] = [conn[c] EXCEPT !.pc = p]
  BY DEF Go
<1>3. conn' \in [Conns -> ConnRecord] /\ Others(conn, conn', c)
  BY <1>1, <1>2 DEF Others, Go
<1> QED BY <1>1, <1>2, <1>3 DEF Moved, Same, ConnRecord

LEMMA AnswerFacts ==
    ASSUME conn \in [Conns -> ConnRecord], NEW c \in Conns, NEW p \in Pcs,
           NEW v \in {"none", "ok", "status", "unavailable", "failed"}, conn' = Answer(c, p, v)
    PROVE  Moved(c, p, v)
<1>1. conn[c] \in ConnRecord /\ [conn[c] EXCEPT !.pc = p, !.code = v] \in ConnRecord
  BY DEF ConnRecord
<1>2. conn'[c] = [conn[c] EXCEPT !.pc = p, !.code = v]
  BY DEF Answer
<1>3. conn' \in [Conns -> ConnRecord] /\ Others(conn, conn', c)
  BY <1>1, <1>2 DEF Others, Answer
<1> QED BY <1>1, <1>2, <1>3 DEF Moved, Same, ConnRecord

LEMMA IdleFacts ==
    /\ Idle \in ConnRecord
    /\ Idle.pc = "absent" /\ Idle.code = "none" /\ Idle.cancelled = "no" /\ Idle.admitted = FALSE
<1>1. (CHOOSE k \in Keys : TRUE) \in Keys
  OBVIOUS
<1> QED BY <1>1 DEF Idle, ConnRecord, Pcs, Origins, Ops

Ended(c, p) ==
    /\ conn' \in [Conns -> ConnRecord] /\ Others(conn, conn', c) /\ conn'[c].pc = p
    /\ ~conn'[c].admitted /\ conn'[c].code = "none" /\ conn'[c].cancelled = "no"

LEMMA OverFacts ==
    ASSUME conn \in [Conns -> ConnRecord], NEW c \in Conns, NEW p \in Pcs, conn' = Over(c, p)
    PROVE  Ended(c, p)
<1>1. conn[c].src \in Origins
  BY DEF ConnRecord
<1>2. [Idle EXCEPT !.pc = p, !.src = conn[c].src] \in ConnRecord
  BY <1>1, IdleFacts DEF ConnRecord
<1>3. conn'[c] = [Idle EXCEPT !.pc = p, !.src = conn[c].src]
  BY DEF Over
<1>4. conn' \in [Conns -> ConnRecord] /\ Others(conn, conn', c)
  BY <1>2, <1>3 DEF Others, Over
<1> QED BY <1>3, <1>4, IdleFacts DEF Ended, ConnRecord

LEMMA PcsHas == Working \subseteq Pcs /\ {"write", "release", "asleep", "park", "look", "held", "bill",
                "notify", "run", "request", "handshake", "arrived", "refused", "finished", "panicked"} \subseteq Pcs
  BY DEF Pcs, Working, Inside, Unbilled, Holding

LEMMA WokenFacts ==
    ASSUME conn \in [Conns -> ConnRecord]
    PROVE  /\ Woken(conn) \in [Conns -> ConnRecord]
           /\ \A c \in Conns : /\ Same(conn[c], Woken(conn)[c]) /\ Woken(conn)[c].code = conn[c].code
                               /\ conn[c].pc # "asleep" => Woken(conn)[c].pc = conn[c].pc
                               /\ conn[c].pc = "asleep" => Woken(conn)[c].pc = "look"
<1>1. ASSUME NEW c \in Conns
      PROVE  /\ Woken(conn)[c] \in ConnRecord
             /\ Same(conn[c], Woken(conn)[c]) /\ Woken(conn)[c].code = conn[c].code
             /\ conn[c].pc # "asleep" => Woken(conn)[c].pc = conn[c].pc
             /\ conn[c].pc = "asleep" => Woken(conn)[c].pc = "look"
  <2>1. conn[c] \in ConnRecord
    OBVIOUS
  <2>2. CASE conn[c].pc = "asleep"
    <3>1. Woken(conn)[c] = [conn[c] EXCEPT !.pc = "look"]
      BY <2>2 DEF Woken
    <3>2. [conn[c] EXCEPT !.pc = "look"] \in ConnRecord
      BY <2>1 DEF ConnRecord, Pcs, Working, Inside, Unbilled
    <3> QED BY <2>1, <2>2, <3>1, <3>2 DEF Same, ConnRecord
  <2>3. CASE conn[c].pc # "asleep"
    <3>1. Woken(conn)[c] = conn[c]
      BY <2>3 DEF Woken
    <3> QED BY <2>1, <2>3, <3>1 DEF Same
  <2> QED BY <2>2, <2>3
<1>2. Woken(conn) = [c \in Conns |-> Woken(conn)[c]]
  BY DEF Woken
<1> QED BY <1>1, <1>2

-----------------------------------------------------------------------------
(* Steps of a worker.                                                      *)

\* FailsClosed, of one step.
Closed == poisoned \/ torn => \A c \in Conns :
              conn'[c].code \in {"ok", "status"} => conn[c].code = conn'[c].code

ServiceStep == ServiceInv' /\ Closed

\* While a worker runs the service has not returned.
LEMMA Unreturned ==
    ASSUME ServiceInv, NEW c \in Conns, conn[c].pc \in Working
    PROVE  result = "none" /\ sup # "done"
<1>1. c \in owned
  BY DEF ServiceInv, Owning, Workers
<1> QED BY <1>1 DEF ServiceInv, Supervised

\* What every worker's step leaves alone.
LEMMA WorkerKeeps ==
    ASSUME ServiceInv, load' = load, NEW c \in Conns, conn[c].pc \in Working, UNCHANGED supVars,
           Lower', conn' \in [Conns -> ConnRecord], \A d \in Conns : Control(d)', HeldPageWoken',
           Owning(conn', owned), ~torn' => Slots(conn', inflight'), Budget(conn', bytes', allBytes')
    PROVE  ServiceInv'
<1>1. load' \in RelayLoads /\ owned' = owned
  BY DEF ServiceInv, supVars
<1>2. Upper' /\ Supervised'
  BY DEF ServiceInv, supVars, Upper, Supervised
<1>3. HonestResult'
  <2>1. result' = "none"
    BY Unreturned DEF supVars
  <2> QED BY <2>1 DEF HonestResult
<1> QED BY <1>1, <1>2, <1>3 DEF ServiceInv

LEMMA QuietStep ==
    ASSUME ServiceInv, load' = load, NEW c \in Conns, conn[c].pc \in Working, UNCHANGED supVars,
           Lower', conn' \in [Conns -> ConnRecord], \A d \in Conns : Control(d)', HeldPageWoken',
           Calm(conn, conn'), UNCHANGED <<inflight, bytes, allBytes, torn>>
    PROVE  ServiceInv'
<1>1. Owning(conn', owned) /\ (~torn' => Slots(conn', inflight')) /\ Budget(conn', bytes', allBytes')
  BY QuietKeeps DEF ServiceInv
<1> QED BY <1>1, WorkerKeeps

\* The other connections, when c has the mutex before or after the step, or
\* nobody has it.
LEMMA OthersAside ==
    ASSUME ServiceInv, load' = load, NEW c \in Conns, NEW d \in Conns, d # c, Others(conn, conn', c),
           lock \in {c, Free}, lock' \in {c, Free}, torn => torn'
    PROVE  Control(d)'
<1>1. conn'[d] = conn[d] /\ Control(d)
  BY DEF Others, ServiceInv
<1>2. d # Free
  BY DEF Free
<1>3. conn[d].pc \notin Holding /\ lock' # d
  BY <1>1, <1>2 DEF Control
<1>4. conn[d].pc \notin {"run", "park"}
  BY <1>3 DEF Holding
<1> QED BY <1>1, <1>3, <1>4 DEF Control, Asks

\* The other connections, when the step leaves the mutex and the state alone.
LEMMA OthersStill ==
    ASSUME ServiceInv, load' = load, NEW c \in Conns, NEW d \in Conns, d # c, Others(conn, conn', c),
           UNCHANGED <<lock, torn, poisoned, high>>
    PROVE  Control(d)'
<1>1. conn'[d] = conn[d] /\ Control(d)
  BY DEF Others, ServiceInv
<1> QED BY <1>1 DEF Control, Asks

\* No page begins to sleep over a record and no notification is dropped.
LEMMA StillWoken ==
    ASSUME ServiceInv, NEW c \in Conns, Others(conn, conn', c), high' = high,
           conn[c].pc = "notify" => conn'[c].pc = "notify",
           conn'[c].pc = "asleep" => \/ ~(high > conn'[c].after)
                                     \/ conn[c].pc = "asleep" /\ conn'[c].after = conn[c].after
    PROVE  HeldPageWoken'
<1>1. ASSUME NEW d \in Conns, conn'[d].pc = "asleep", high' > conn'[d].after
      PROVE  \E w \in Conns : conn'[w].pc = "notify"
  <2>1. conn[d].pc = "asleep" /\ high > conn[d].after
    BY <1>1 DEF Others
  <2>2. PICK w \in Conns : conn[w].pc = "notify"
    BY <2>1 DEF ServiceInv, HeldPageWoken, At
  <2> QED BY <2>2 DEF Others
<1> QED BY <1>1 DEF HeldPageWoken, At

LEMMA QuietMove ==
    ASSUME NEW cn, NEW cm, NEW c \in Conns, Others(cn, cm, c), Alike(cn[c], cm[c])
    PROVE  Calm(cn, cm)
  BY DEF Others, Alike, Calm

\* A step of c alone that leaves what is under the mutex alone, and the codes.
LEMMA SilentStep ==
    ASSUME ServiceInv, load' = load, NEW c \in Conns, conn[c].pc \in Working, UNCHANGED supVars,
           UNCHANGED <<stateVars, torn, rolls, faults>>, lock' \in Conns \cup {Free},
           conn' \in [Conns -> ConnRecord], Others(conn, conn', c), Alike(conn[c], conn'[c]),
           conn'[c].code = conn[c].code, \A d \in Conns : Control(d)', HeldPageWoken'
    PROVE  ServiceStep
<1>1. Lower'
  BY DEF ServiceInv, Lower, stateVars, MaxRolls, MaxFaults
<1>2. Calm(conn, conn')
  BY QuietMove
<1>3. ServiceInv'
  BY <1>1, <1>2, QuietStep DEF stateVars
<1>4. Closed
  BY DEF Closed, Others
<1> QED BY <1>3, <1>4 DEF ServiceStep

LEMMA WriteStep ==
    ASSUME ServiceInv, load' = load, NEW c \in Conns, Respond(c)
    PROVE  ServiceStep
<1>1. conn[c].pc = "write" /\ conn' = Go(c, "release") /\ conn \in [Conns -> ConnRecord]
  BY DEF Respond, At, ServiceInv
<1>2. Moved(c, "release", conn[c].code)
  BY <1>1, GoFacts, PcsHas
<1>3. Alike(conn[c], conn'[c]) /\ conn[c].pc \in Working
  BY <1>1, <1>2 DEF Moved, Alike, Same, Working, Inside, Unbilled, Holding
<1>4. ASSUME NEW d \in Conns PROVE Control(d)'
  <2>1. CASE d = c
    BY <1>1, <1>2, <2>1 DEF Respond, Moved, ServiceInv, Control, Same, Asks, Working, Inside, Unbilled, Holding
  <2>2. CASE d # c
    BY <1>2, <2>2, OthersStill DEF Respond, Moved, stateVars
  <2> QED BY <2>1, <2>2
<1>5. HeldPageWoken'
  BY <1>1, <1>2, StillWoken DEF Respond, Moved, stateVars
<1>6. lock' \in Conns \cup {Free}
  BY DEF Respond, ServiceInv, Lower
<1> QED BY <1>2, <1>3, <1>4, <1>5, <1>6, SilentStep DEF Respond, Moved

LEMMA WaitStep ==
    ASSUME ServiceInv, load' = load, NEW c \in Conns, Wait(c)
    PROVE  ServiceStep
<1>1. conn[c].pc = "park" /\ conn' = Go(c, "asleep") /\ conn \in [Conns -> ConnRecord]
      /\ lock = c /\ lock' = Free /\ high \in Nat
  BY DEF Wait, At, ServiceInv, Lower
<1>2. Moved(c, "asleep", conn[c].code)
  BY <1>1, GoFacts, PcsHas
<1>3. Alike(conn[c], conn'[c]) /\ conn[c].pc \in Working
  BY <1>1, <1>2 DEF Moved, Alike, Same, Working, Inside, Unbilled, Holding
<1>4. ASSUME NEW d \in Conns PROVE Control(d)'
  <2>1. CASE d = c
    <3>1. lock' # c
      BY <1>1 DEF Free
    <3> QED BY <1>1, <1>2, <2>1, <3>1 DEF Wait, Moved, ServiceInv, Control, Same, Asks, Working, Inside, Unbilled, Holding
  <2>2. CASE d # c
    BY <1>1, <1>2, <2>2, OthersAside DEF Wait, Moved, stateVars
  <2> QED BY <2>1, <2>2
<1>5. HeldPageWoken'
  <2>1. high <= conn[c].after /\ conn[c].after \in Nat
    BY <1>1 DEF ServiceInv, Control, ConnRecord
  <2>2. ~(high > conn'[c].after)
    BY <1>1, <1>2, <2>1 DEF Same, Moved
  <2> QED BY <1>1, <1>2, <2>2, StillWoken DEF Wait, Moved, stateVars
<1>6. lock' \in Conns \cup {Free}
  BY <1>1
<1> QED BY <1>2, <1>3, <1>4, <1>5, <1>6, SilentStep DEF Wait, Moved

LEMMA TimeoutStep ==
    ASSUME ServiceInv, load' = load, NEW c \in Conns, Timeout(c)
    PROVE  ServiceStep
<1>1. PICK e \in {conn[c].expired, TRUE} : conn' = [conn EXCEPT ![c].pc = "look", ![c].expired = e]
  BY DEF Timeout
<1>2. conn[c].pc = "asleep" /\ conn \in [Conns -> ConnRecord] /\ conn[c] \in ConnRecord
  BY DEF Timeout, At, ServiceInv
<1>3. /\ conn' \in [Conns -> ConnRecord] /\ Others(conn, conn', c)
      /\ conn'[c].pc = "look" /\ Same(conn[c], conn'[c]) /\ conn'[c].code = conn[c].code
  <2>1. e \in BOOLEAN
    BY <1>2 DEF ConnRecord
  <2>2. [conn[c] EXCEPT !.pc = "look", !.expired = e] \in ConnRecord
    BY <1>2, <2>1 DEF ConnRecord, Pcs, Working, Inside, Unbilled
  <2>3. conn'[c] = [conn[c] EXCEPT !.pc = "look", !.expired = e]
    BY <1>1, <1>2
  <2>4. conn' \in [Conns -> ConnRecord] /\ Others(conn, conn', c)
    BY <1>1, <1>2, <2>2, <2>3 DEF Others
  <2> QED BY <1>2, <2>3, <2>4 DEF Same, ConnRecord
<1>4. Alike(conn[c], conn'[c]) /\ conn[c].pc \in Working
  BY <1>2, <1>3 DEF Alike, Same, Working, Inside, Unbilled, Holding
<1>5. ASSUME NEW d \in Conns PROVE Control(d)'
  <2>1. CASE d = c
    BY <1>2, <1>3, <2>1 DEF Timeout, ServiceInv, Control, Same, Asks, Working, Inside, Unbilled, Holding
  <2>2. CASE d # c
    BY <1>3, <2>2, OthersStill DEF Timeout, stateVars
  <2> QED BY <2>1, <2>2
<1>6. HeldPageWoken'
  BY <1>2, <1>3, StillWoken DEF Timeout, stateVars
<1>7. lock' \in Conns \cup {Free}
  BY DEF Timeout, ServiceInv, Lower
<1> QED BY <1>3, <1>4, <1>5, <1>6, <1>7, SilentStep DEF Timeout

LEMMA CancelStep ==
    ASSUME ServiceInv, load' = load, NEW c \in Conns, Cancel(c)
    PROVE  ServiceStep
<1>1. conn' = [conn EXCEPT ![c].cancelled = "asked"] /\ conn \in [Conns -> ConnRecord] /\ conn[c] \in ConnRecord
      /\ conn[c].pc \in Working
  BY DEF Cancel, ServiceInv, Working, Inside, Unbilled, Holding
<1>2. conn'[c] = [conn[c] EXCEPT !.cancelled = "asked"] /\ [conn[c] EXCEPT !.cancelled = "asked"] \in ConnRecord
  BY <1>1 DEF ConnRecord
<1>3. conn' \in [Conns -> ConnRecord] /\ Others(conn, conn', c)
  BY <1>1, <1>2 DEF Others
<1>4. /\ conn'[c].pc = conn[c].pc /\ conn'[c].src = conn[c].src /\ conn'[c].key = conn[c].key
      /\ conn'[c].after = conn[c].after /\ conn'[c].admitted = conn[c].admitted
      /\ conn'[c].code = conn[c].code /\ conn'[c].cancelled = "asked"
  BY <1>1, <1>2 DEF ConnRecord
<1>5. Alike(conn[c], conn'[c])
  BY <1>4 DEF Alike
<1>6. ASSUME NEW d \in Conns PROVE Control(d)'
  <2>1. CASE d = c
    BY <1>4, <2>1 DEF Cancel, stateVars, ServiceInv, Control, Asks
  <2>2. CASE d # c
    BY <1>3, <2>2, OthersStill DEF Cancel, stateVars
  <2> QED BY <2>1, <2>2
<1>7. HeldPageWoken'
  BY <1>3, <1>4, StillWoken DEF Cancel, stateVars
<1>8. lock' \in Conns \cup {Free}
  BY DEF Cancel, ServiceInv, Lower
<1> QED BY <1>1, <1>3, <1>4, <1>5, <1>6, <1>7, <1>8, SilentStep DEF Cancel

\* A step that wakes every sleeper and changes nothing under the mutex.
LEMMA WakingStep ==
    ASSUME ServiceInv, load' = load, NEW c \in Conns, conn[c].pc \in Working, UNCHANGED supVars,
           UNCHANGED <<stateVars, torn, rolls, faults, lock>>,
           conn' \in [Conns -> ConnRecord], \A d \in Conns : Alike(conn[d], conn'[d]),
           \A d \in Conns : conn'[d].code = conn[d].code, \A d \in Conns : conn'[d].pc # "asleep",
           \A d \in Conns : Control(d)'
    PROVE  ServiceStep
<1>1. Lower'
  BY DEF ServiceInv, Lower, stateVars, MaxRolls, MaxFaults
<1>2. Calm(conn, conn')
  BY DEF Calm
<1>3. HeldPageWoken'
  BY DEF HeldPageWoken, At
<1>4. ServiceInv'
  BY <1>1, <1>2, <1>3, QuietStep DEF stateVars
<1>5. Closed
  BY DEF Closed
<1> QED BY <1>4, <1>5 DEF ServiceStep

\* What a waking does to one connection.
Awake(a, b) == /\ Same(a, b) /\ b.code = a.code
               /\ a.pc # "asleep" => b.pc = a.pc
               /\ a.pc = "asleep" => b.pc = "look"

LEMMA NotifyStep ==
    ASSUME ServiceInv, load' = load, NEW c \in Conns, Notify(c)
    PROVE  ServiceStep
<1>1. conn[c].pc = "notify" /\ conn \in [Conns -> ConnRecord]
  BY DEF Notify, At, ServiceInv
<1>2. PICK w : w = Woken(conn)
  OBVIOUS
<1>3. w \in [Conns -> ConnRecord] /\ \A d \in Conns : Awake(conn[d], w[d])
  BY <1>1, <1>2, WokenFacts DEF Awake
<1>4. conn' = [w EXCEPT ![c].pc = "bill"]
  BY <1>2 DEF Notify
<1>5. conn'[c] = [w[c] EXCEPT !.pc = "bill"] /\ [w[c] EXCEPT !.pc = "bill"] \in ConnRecord
  BY <1>3, <1>4, PcsHas DEF ConnRecord
<1>6. conn' \in [Conns -> ConnRecord] /\ \A d \in Conns : d # c => conn'[d] = w[d]
  BY <1>3, <1>4, <1>5
<1>7. conn'[c].pc = "bill" /\ Same(conn[c], conn'[c]) /\ conn'[c].code = conn[c].code
  BY <1>3, <1>5 DEF Awake, Same, ConnRecord
<1>8. ASSUME NEW d \in Conns
      PROVE  /\ Alike(conn[d], conn'[d]) /\ conn'[d].code = conn[d].code /\ conn'[d].pc # "asleep"
             /\ Control(d)'
  <2>1. CASE d = c
    <3>1. Alike(conn[d], conn'[d])
      BY <1>1, <1>7, <2>1 DEF Alike, Same, Working, Inside, Unbilled, Holding
    <3>2. Control(d)'
      BY <1>1, <1>7, <2>1 DEF Notify, stateVars, ServiceInv, Control, Same, Asks, Working, Inside, Unbilled, Holding
    <3> QED BY <1>7, <2>1, <3>1, <3>2
  <2>2. CASE d # c
    <3>1. Awake(conn[d], conn'[d])
      BY <1>3, <1>6, <2>2
    <3>2. Alike(conn[d], conn'[d])
      BY <3>1 DEF Awake, Alike, Same, Working, Inside, Unbilled, Holding
    <3>3. Control(d)'
      BY <3>1 DEF Awake, Notify, stateVars, ServiceInv, Control, Same, Asks, Working, Inside, Unbilled, Holding
    <3> QED BY <3>1, <3>2, <3>3 DEF Awake
  <2> QED BY <2>1, <2>2
<1>9. conn[c].pc \in Working
  BY <1>1 DEF Working, Inside, Unbilled
<1> QED BY <1>6, <1>8, <1>9, WakingStep DEF Notify

LEMMA CancelWaitStep ==
    ASSUME ServiceInv, load' = load, NEW c \in Conns, cancel_wait(c)
    PROVE  ServiceStep
<1>1. conn \in [Conns -> ConnRecord] /\ lock = Free /\ conn[c] \in ConnRecord
  BY DEF cancel_wait, ServiceInv
<1>2. PICK w : w = Woken(conn)
  OBVIOUS
<1>3. w \in [Conns -> ConnRecord] /\ \A d \in Conns : Awake(conn[d], w[d])
  BY <1>1, <1>2, WokenFacts DEF Awake
<1>4. conn' = [w EXCEPT ![c].cancelled = "told"]
  BY <1>2 DEF cancel_wait
<1>5. conn'[c] = [w[c] EXCEPT !.cancelled = "told"] /\ [w[c] EXCEPT !.cancelled = "told"] \in ConnRecord
  BY <1>3, <1>4 DEF ConnRecord
<1>6. conn' \in [Conns -> ConnRecord] /\ \A d \in Conns : d # c => conn'[d] = w[d]
  BY <1>3, <1>4, <1>5
<1>7. /\ conn'[c].pc = w[c].pc /\ conn'[c].src = conn[c].src /\ conn'[c].key = conn[c].key
      /\ conn'[c].after = conn[c].after /\ conn'[c].admitted = conn[c].admitted
      /\ conn'[c].code = conn[c].code /\ conn'[c].cancelled = "told"
  BY <1>3, <1>5 DEF Awake, Same, ConnRecord
<1>8. conn[c].pc \in Working
  BY <1>1 DEF cancel_wait, Running, ConnRecord, Pcs
<1>9. ASSUME NEW d \in Conns
      PROVE  /\ Alike(conn[d], conn'[d]) /\ conn'[d].code = conn[d].code /\ conn'[d].pc # "asleep"
             /\ Control(d)'
  <2>0. Awake(conn[d], w[d]) /\ Control(d) /\ conn[d].pc \notin Holding
    <3>1. d # Free
      BY DEF Free
    <3> QED BY <1>1, <1>3, <3>1 DEF ServiceInv, Control
  <2>1. CASE d = c
    <3>1. Alike(conn[d], conn'[d]) /\ conn'[d].pc # "asleep"
      BY <1>7, <2>0, <2>1 DEF Awake, Alike, Same, Working, Inside, Unbilled, Holding
    <3>2. Control(d)'
      BY <1>1, <1>7, <2>0, <2>1 DEF cancel_wait, Awake, stateVars, Control, Asks, Working, Inside, Unbilled, Holding
    <3> QED BY <1>7, <2>1, <3>1, <3>2
  <2>2. CASE d # c
    <3>1. conn'[d] = w[d]
      BY <1>6, <2>2
    <3>2. Alike(conn[d], conn'[d]) /\ conn'[d].pc # "asleep"
      BY <2>0, <3>1 DEF Awake, Alike, Same, Working, Inside, Unbilled, Holding
    <3>3. Control(d)'
      BY <2>0, <3>1 DEF cancel_wait, Awake, stateVars, Control, Same, Asks, Working, Inside, Unbilled, Holding
    <3> QED BY <2>0, <3>1, <3>2, <3>3 DEF Awake
  <2> QED BY <2>1, <2>2
<1> QED BY <1>6, <1>8, <1>9, WakingStep DEF cancel_wait

LEMMA RelockStep ==
    ASSUME ServiceInv, load' = load, NEW c \in Conns, Relock(c)
    PROVE  ServiceStep
<1>1. conn[c].pc = "look" /\ lock = Free /\ conn \in [Conns -> ConnRecord] /\ conn[c].pc \in Working
  BY DEF Relock, At, ServiceInv, Working, Inside, Unbilled
<1>2. \/ torn /\ Moved(c, "bill", "failed") /\ poisoned' = TRUE /\ lock' = lock
      \/ ~torn /\ Moved(c, "held", conn[c].code) /\ lock' = c /\ poisoned' = poisoned
  BY <1>1, GoFacts, AnswerFacts, PcsHas DEF Relock
<1>3. conn' \in [Conns -> ConnRecord] /\ Others(conn, conn', c) /\ Alike(conn[c], conn'[c])
  BY <1>1, <1>2 DEF Moved, Alike, Same, Working, Inside, Unbilled, Holding
<1>4. ASSUME NEW d \in Conns PROVE Control(d)'
  <2>1. CASE d = c
    <3>1. c # Free
      BY DEF Free
    <3> QED BY <1>1, <1>2, <2>1, <3>1 DEF Relock, Moved, ServiceInv, Control, Same, Asks, Working, Inside, Unbilled, Holding
  <2>2. CASE d # c
    <3>1. lock \in {c, Free} /\ lock' \in {c, Free} /\ torn' = torn
      BY <1>1, <1>2 DEF Relock
    <3> QED BY <1>3, <2>2, <3>1, OthersAside
  <2> QED BY <2>1, <2>2
<1>5. HeldPageWoken'
  BY <1>1, <1>2, <1>3, StillWoken DEF Relock, Moved
<1>6. Lower'
  BY <1>2 DEF Relock, ServiceInv, Lower, MaxRolls, MaxFaults
<1>7. ServiceInv'
  BY <1>1, <1>3, <1>4, <1>5, <1>6, QuietMove, QuietStep DEF Relock
<1>8. Closed
  BY <1>2 DEF Closed, Moved, Others
<1> QED BY <1>7, <1>8 DEF ServiceStep

LEMMA LookStep ==
    ASSUME ServiceInv, load' = load, NEW c \in Conns, Look(c)
    PROVE  ServiceStep
<1>1. conn[c].pc = "held" /\ lock = c /\ conn \in [Conns -> ConnRecord] /\ conn[c].pc \in Working
      /\ conn[c].after \in Nat /\ high \in Nat /\ ~torn
  BY DEF Look, At, ServiceInv, Lower, Control, ConnRecord, Working, Inside, Unbilled, Holding
<1>2. \/ /\ Moved(c, "bill", "unavailable") \/ Moved(c, "bill", "failed")
         /\ lock' = Free /\ (poisoned' = poisoned \/ poisoned' = TRUE)
      \/ /\ ~poisoned /\ Moved(c, "bill", "ok") /\ lock' = Free /\ poisoned' = poisoned
      \/ /\ ~poisoned /\ Moved(c, "park", conn[c].code) /\ lock' = lock /\ poisoned' = poisoned
         /\ high <= conn[c].after /\ conn[c].cancelled = "no"
  <2> DEFINE IsReady == high > conn[c].after \/ conn[c].expired \/ draining \/ conn[c].cancelled # "no"
  <2>0. ~IsReady => high <= conn[c].after /\ conn[c].cancelled = "no"
    BY <1>1
  <2>1. \/ /\ conn' = Answer(c, "bill", "unavailable") \/ conn' = Answer(c, "bill", "failed")
           /\ lock' = Free /\ (poisoned' = poisoned \/ poisoned' = TRUE)
        \/ /\ ~poisoned /\ conn' = Answer(c, "bill", "ok") /\ lock' = Free /\ poisoned' = poisoned
        \/ /\ ~poisoned /\ conn' = Go(c, "park") /\ lock' = lock /\ poisoned' = poisoned /\ ~IsReady
    BY Zenon DEF Look
  <2> HIDE DEF IsReady
  <2> QED BY <1>1, <2>0, <2>1, GoFacts, AnswerFacts, PcsHas
<1>3. conn' \in [Conns -> ConnRecord] /\ Others(conn, conn', c) /\ Alike(conn[c], conn'[c])
  BY <1>1, <1>2 DEF Moved, Alike, Same, Working, Inside, Unbilled, Holding
<1>4. ASSUME NEW d \in Conns PROVE Control(d)'
  <2>1. CASE d = c
    <3>1. c # Free
      BY DEF Free
    <3> QED BY <1>1, <1>2, <2>1, <3>1 DEF Look, Moved, ServiceInv, Control, Same, Asks, Working, Inside, Unbilled, Holding
  <2>2. CASE d # c
    <3>1. lock \in {c, Free} /\ lock' \in {c, Free} /\ torn' = torn
      BY <1>1, <1>2 DEF Look
    <3> QED BY <1>3, <2>2, <3>1, OthersAside
  <2> QED BY <2>1, <2>2
<1>5. HeldPageWoken'
  BY <1>1, <1>2, <1>3, StillWoken DEF Look, Moved
<1>6. Lower'
  <2>1. faults' \in 0..MaxFaults' /\ rolls' \in 0..MaxRolls'
    BY DEF Look, ServiceInv, Lower, MaxFaults, MaxRolls
  <2>2. poisoned' \in BOOLEAN /\ lock' \in Conns \cup {Free}
    BY <1>1, <1>2 DEF ServiceInv, Lower
  <2> QED BY <2>1, <2>2 DEF Look, ServiceInv, Lower
<1>7. ServiceInv'
  BY <1>1, <1>3, <1>4, <1>5, <1>6, QuietMove, QuietStep DEF Look
<1>8. Closed
  BY <1>1, <1>2 DEF Closed, Moved, Others
<1> QED BY <1>7, <1>8 DEF ServiceStep

LEMMA RunStep ==
    ASSUME ServiceInv, load' = load, NEW c \in Conns, Run(c)
    PROVE  ServiceStep
<1>1. conn[c].pc = "run" /\ lock = c /\ lock' = Free /\ conn \in [Conns -> ConnRecord] /\ conn[c].pc \in Working
      /\ high \in Nat /\ ~torn /\ ~poisoned
  BY DEF Run, At, ServiceInv, Lower, Control, ConnRecord, Working, Inside, Unbilled, Holding
<1>2. PICK v : \/ Moved(c, "notify", v) /\ (high' = high \/ high' = high + 1)
               \/ Moved(c, "bill", v) /\ high' = high
  <2>1. CASE conn[c].op = "put"
    <3>1. PICK v \in {"none", "ok", "status", "unavailable", "failed"} :
             conn' = Answer(c, "notify", v) /\ (high' = high \/ high' = high + 1)
      <4>1. \/ conn' = Answer(c, "notify", "ok") /\ high' = high + 1
            \/ conn' = Answer(c, "notify", "status") /\ high' = high
            \/ conn' = Answer(c, "notify", "failed") /\ high' \in {high, high + 1}
        BY <2>1 DEF Run
      <4> QED BY <4>1
    <3>2. Moved(c, "notify", v)
      BY <1>1, <3>1, AnswerFacts, PcsHas
    <3> QED BY <3>1, <3>2
  <2>2. CASE conn[c].op # "put"
    <3>1. PICK v \in {"none", "ok", "status", "unavailable", "failed"} : conn' = Answer(c, "bill", v) /\ high' = high
      <4>1. \/ conn' = Answer(c, "bill", "ok") /\ high' = high
            \/ conn' = Answer(c, "bill", "unavailable") /\ high' \in {high}
        BY <2>2 DEF Run
      <4> QED BY <4>1
    <3>2. Moved(c, "bill", v)
      BY <1>1, <3>1, AnswerFacts, PcsHas
    <3> QED BY <3>1, <3>2
  <2> QED BY <2>1, <2>2
<1>3. conn' \in [Conns -> ConnRecord] /\ Others(conn, conn', c) /\ Alike(conn[c], conn'[c])
  BY <1>1, <1>2 DEF Moved, Alike, Same, Working, Inside, Unbilled, Holding
<1>4. ASSUME NEW d \in Conns PROVE Control(d)'
  <2>1. CASE d = c
    <3>1. c # Free
      BY DEF Free
    <3> QED BY <1>1, <1>2, <2>1, <3>1 DEF Run, Moved, ServiceInv, Control, Same, Asks, Working, Inside, Unbilled, Holding
  <2>2. CASE d # c
    <3>1. lock \in {c, Free} /\ lock' \in {c, Free} /\ torn' = torn
      BY <1>1 DEF Run
    <3> QED BY <1>3, <2>2, <3>1, OthersAside
  <2> QED BY <2>1, <2>2
<1>5. HeldPageWoken'
  <2>1. CASE Moved(c, "notify", v)
    BY <2>1 DEF Moved, HeldPageWoken, At
  <2>2. CASE Moved(c, "bill", v) /\ high' = high
    BY <1>1, <1>3, <2>2, StillWoken DEF Moved
  <2> QED BY <1>2, <2>1, <2>2
<1>6. Lower'
  <2>1. faults' \in 0..MaxFaults' /\ rolls' \in 0..MaxRolls'
    BY DEF Run, ServiceInv, Lower, MaxFaults, MaxRolls
  <2>2. high' \in Nat
    BY <1>1, <1>2
  <2>3. poisoned' = poisoned \/ poisoned' = TRUE
    BY Zenon DEF Run
  <2>4. poisoned' \in BOOLEAN
    BY <2>3 DEF ServiceInv, Lower
  <2> QED BY <1>1, <2>1, <2>2, <2>4 DEF Run, ServiceInv, Lower
<1>7. ServiceInv'
  BY <1>1, <1>3, <1>4, <1>5, <1>6, QuietMove, QuietStep DEF Run
<1>8. Closed
  BY <1>1 DEF Closed
<1> QED BY <1>7, <1>8 DEF ServiceStep

LEMMA FrameReads ==
    ASSUME ServiceInv, load' = load, NEW c \in Conns, Frame(c), ~PeerFull(c)
    PROVE  ServiceStep
<1>1. conn[c].pc = "handshake" /\ conn \in [Conns -> ConnRecord] /\ conn[c] \in ConnRecord /\ conn[c].pc \in Working
      /\ high \in Nat
  BY DEF Frame, At, ServiceInv, Lower, Working
<1>2. PICK a \in Nat : conn' = [conn EXCEPT ![c].pc = "request", ![c].op = Asks[c].op, ![c].key = Asks[c].key,
                                           ![c].after = a]
  BY <1>1 DEF Frame
<1>3. Asks[c].op \in Ops /\ Asks[c].key \in Keys
  <2>1. c \in DOMAIN Asks /\ load \in RelayLoads
    BY <1>1 DEF ServiceInv, Control
  <2> QED BY <2>1 DEF Asks, Ops
<1>4. PICK r : r = [conn[c] EXCEPT !.pc = "request", !.op = Asks[c].op, !.key = Asks[c].key, !.after = a]
  OBVIOUS
<1>5. r \in ConnRecord
  BY <1>1, <1>3, <1>4, PcsHas DEF ConnRecord
<1>6. conn'[c] = r /\ conn' \in [Conns -> ConnRecord] /\ Others(conn, conn', c)
  BY <1>1, <1>2, <1>4, <1>5 DEF Others
<1>7. r.pc = "request" /\ r.src = conn[c].src /\ r.admitted = conn[c].admitted /\ r.code = conn[c].code
  BY <1>1, <1>4 DEF ConnRecord
<1>8. Alike(conn[c], conn'[c])
  BY <1>1, <1>6, <1>7 DEF Alike, Working, Inside, Unbilled, Holding
<1>9. ASSUME NEW d \in Conns PROVE Control(d)'
  <2>1. CASE d = c
    BY <1>1, <1>6, <1>7, <2>1 DEF Frame, stateVars, ServiceInv, Control, Asks, Working, Inside, Unbilled, Holding
  <2>2. CASE d # c
    BY <1>6, <2>2, OthersStill DEF Frame, stateVars
  <2> QED BY <2>1, <2>2
<1>10. HeldPageWoken'
  BY <1>1, <1>6, <1>7, StillWoken DEF Frame, stateVars
<1>11. lock' \in Conns \cup {Free}
  BY DEF Frame, ServiceInv, Lower
<1> QED BY <1>1, <1>6, <1>7, <1>8, <1>9, <1>10, <1>11, SilentStep DEF Frame

\* A worker ends: what is left to show is the slots and the budget.
LEMMA EndStep ==
    ASSUME ServiceInv, load' = load, NEW c \in Conns, conn[c].pc \in Working, conn[c].pc # "notify",
           NEW p \in {"finished", "panicked"}, Ended(c, p), p = "panicked" => torn',
           lock \in {c, Free}, lock' = Free, torn => torn', high' = high,
           UNCHANGED supVars, Lower', ~torn' => Slots(conn', inflight'), Budget(conn, bytes', allBytes')
    PROVE  ServiceStep
<1>1. /\ conn' \in [Conns -> ConnRecord] /\ Others(conn, conn', c) /\ conn'[c].pc = p
      /\ ~conn'[c].admitted /\ conn'[c].code = "none" /\ conn'[c].cancelled = "no"
  BY DEF Ended
<1>2. p \notin Working /\ p \notin Inside /\ p \notin Holding
  BY DEF Working, Inside, Unbilled, Holding
<1>3. Ends(conn, conn', c)
  BY <1>1, <1>2 DEF Ends
<1>4. bytes' \in [Keys -> Nat] /\ allBytes' \in Nat /\ Owning(conn, owned)
  BY DEF Lower, ServiceInv
<1>5. Owning(conn', owned) /\ Budget(conn', bytes', allBytes')
  BY <1>3, <1>4, EndsKeeps
<1>6. ASSUME NEW d \in Conns PROVE Control(d)'
  <2>1. CASE d = c
    <3>1. c # Free
      BY DEF Free
    <3> QED BY <1>1, <1>2, <2>1, <3>1 DEF Control
  <2>2. CASE d # c
    BY <1>1, <2>2, OthersAside
  <2> QED BY <2>1, <2>2
<1>7. HeldPageWoken'
  BY <1>1, StillWoken
<1>8. ServiceInv'
  BY <1>1, <1>5, <1>6, <1>7, WorkerKeeps
<1>9. Closed
  BY <1>1 DEF Closed, Others
<1> QED BY <1>8, <1>9 DEF ServiceStep

LEMMA OverStep ==
    ASSUME ServiceInv, load' = load, NEW c \in Conns, conn[c].pc \in {"handshake", "request"},
           conn' = Over(c, "finished"), UNCHANGED supVars, UNCHANGED <<stateVars, lock, torn, rolls, faults>>
    PROVE  ServiceStep
<1>1. conn \in [Conns -> ConnRecord] /\ conn[c].pc \in Working /\ conn[c].pc \notin Inside /\ conn[c].pc # "notify"
  BY DEF ServiceInv, Working, Inside, Unbilled, Holding
<1>2. Ended(c, "finished")
  BY <1>1, OverFacts, PcsHas
<1>3. Lower'
  BY DEF ServiceInv, Lower, stateVars, MaxRolls, MaxFaults
<1>4. Ends(conn, conn', c)
  BY <1>2 DEF Ended, Ends, Working, Inside, Unbilled, Holding
<1>5. ~torn' => Slots(conn', inflight')
  BY <1>1, <1>4, EndsSlotless DEF ServiceInv, stateVars
<1>6. Budget(conn, bytes', allBytes') /\ high' = high
  BY DEF ServiceInv, stateVars
<1>7. /\ conn' \in [Conns -> ConnRecord] /\ Others(conn, conn', c) /\ conn'[c].pc = "finished"
      /\ ~conn'[c].admitted /\ conn'[c].code = "none" /\ conn'[c].cancelled = "no"
  BY <1>2 DEF Ended
<1>8. Owning(conn', owned) /\ Budget(conn', bytes', allBytes')
  BY <1>3, <1>4, <1>6, EndsKeeps DEF Lower, ServiceInv
<1>9. ASSUME NEW d \in Conns PROVE Control(d)'
  <2>1. CASE d = c
    BY <1>1, <1>7, <2>1 DEF ServiceInv, Control, Working, Inside, Unbilled, Holding
  <2>2. CASE d # c
    BY <1>7, <2>2, OthersStill DEF stateVars
  <2> QED BY <2>1, <2>2
<1>10. HeldPageWoken'
  BY <1>1, <1>6, <1>7, StillWoken
<1>11. ServiceInv'
  BY <1>1, <1>3, <1>5, <1>7, <1>8, <1>9, <1>10, WorkerKeeps
<1>12. Closed
  BY <1>7 DEF Closed, Others
<1> QED BY <1>11, <1>12 DEF ServiceStep

LEMMA FrameStep ==
    ASSUME ServiceInv, load' = load, NEW c \in Conns, Frame(c) \/ Hangup(c)
    PROVE  ServiceStep
<1>1. CASE Frame(c) /\ PeerFull(c)
  BY <1>1, OverStep DEF Frame, At
<1>2. CASE Frame(c) /\ ~PeerFull(c)
  BY <1>2, FrameReads
<1>3. CASE Hangup(c)
  BY <1>3, OverStep DEF Hangup, At
<1> QED BY <1>1, <1>2, <1>3

LEMMA PanicStep ==
    ASSUME ServiceInv, load' = load, NEW c \in Conns, Panic(c)
    PROVE  ServiceStep
<1>1. /\ conn[c].pc \in {"run", "held"} /\ lock = c /\ torn' = TRUE /\ lock' = Free
      /\ conn' = Over(c, "panicked") /\ conn \in [Conns -> ConnRecord]
  BY DEF Panic, At, ServiceInv
<1>2. conn[c].pc \in Working /\ conn[c].pc # "notify"
  BY <1>1 DEF Working, Inside, Unbilled, Holding
<1>3. Ended(c, "panicked")
  BY <1>1, OverFacts, PcsHas
<1>4. Lower'
  <2>1. faults' \in 0..MaxFaults' /\ rolls' \in 0..MaxRolls'
    BY DEF Panic, ServiceInv, Lower, MaxFaults, MaxRolls
  <2> QED BY <1>1, <2>1 DEF Panic, ServiceInv, Lower, stateVars
<1>5. Budget(conn, bytes', allBytes') /\ high' = high
  BY DEF Panic, ServiceInv, stateVars
<1> QED BY <1>1, <1>2, <1>3, <1>4, <1>5, EndStep DEF Panic

LEMMA ReleaseStep ==
    ASSUME ServiceInv, load' = load, NEW c \in Conns, Release(c)
    PROVE  ServiceStep
<1>1. /\ conn[c].pc = "release" /\ lock = Free /\ lock' = Free /\ torn' = torn
      /\ conn' = Over(c, "finished") /\ conn \in [Conns -> ConnRecord]
  BY DEF Release, At, ServiceInv
<1>2. conn[c].pc \in Working /\ conn[c].pc \in Inside /\ conn[c].pc # "notify" /\ conn[c].key \in Keys
  BY <1>1 DEF Working, Inside, ConnRecord
<1>3. Ended(c, "finished")
  BY <1>1, OverFacts, PcsHas
<1>4. Ends(conn, conn', c)
  BY <1>3 DEF Ended, Ends, Working, Inside, Unbilled, Holding
<1>5. (~torn' => Slots(conn', inflight')) /\ inflight' \in [Keys -> Nat]
  <2>1. CASE torn
    BY <1>1, <2>1 DEF Release, ServiceInv, Lower
  <2>2. CASE ~torn
    <3>1. inflight' = [inflight EXCEPT ![conn[c].key] = @ - 1]
      BY <2>2 DEF Release
    <3>2. Slots(conn, inflight) /\ Owning(conn, owned) /\ inflight \in [Keys -> Nat]
      BY <2>2 DEF ServiceInv, Lower
    <3>3. PICK cm : cm = conn'
      OBVIOUS
    <3>4. Ends(conn, cm, c)
      BY <1>4, <3>3
    <3>5. /\ inflight[conn[c].key] - 1 \in Nat
          /\ Slots(cm, [inflight EXCEPT ![conn[c].key] = @ - 1])
      BY <1>2, <3>2, <3>4, EndsSlot
    <3> QED BY <3>1, <3>2, <3>3, <3>5
  <2> QED BY <2>1, <2>2
<1>6. Lower'
  BY <1>1, <1>5 DEF Release, ServiceInv, Lower, MaxRolls, MaxFaults
<1>7. Budget(conn, bytes', allBytes') /\ high' = high /\ UNCHANGED supVars
  BY DEF Release, ServiceInv
<1>8. (torn => torn') /\ lock \in {c, Free} /\ lock' = Free
  BY <1>1
<1>9. PICK p \in {"finished", "panicked"} : p = "finished"
  OBVIOUS
<1>10. Ended(c, p) /\ (p = "panicked" => torn')
  BY <1>3, <1>9
<1> HIDE <1>9
<1> QED BY <1>2, <1>5, <1>6, <1>7, <1>8, <1>10, EndStep

LEMMA BillStep ==
    ASSUME ServiceInv, load' = load, NEW c \in Conns, Bill(c)
    PROVE  ServiceStep
<1>1. conn[c].pc = "bill" /\ lock = Free /\ lock' = lock /\ torn' = torn /\ conn \in [Conns -> ConnRecord]
      /\ poisoned' = poisoned /\ high' = high /\ inflight' = inflight
  BY DEF Bill, At, ServiceInv
<1>2. PICK p \in {"write", "release"} : Moved(c, p, conn[c].code)
  <2>1. conn' = Go(c, "write") \/ conn' = Go(c, "release")
    BY DEF Bill
  <2>2. Moved(c, "write", conn[c].code) \/ Moved(c, "release", conn[c].code)
    BY <1>1, <2>1, GoFacts, PcsHas
  <2> QED BY <2>2
<1>3. conn[c].pc \in Working /\ conn[c].key \in Keys
  BY <1>1 DEF Working, Inside, Unbilled, ConnRecord
<1>4. \/ bytes' = bytes /\ allBytes' = allBytes
      \/ bytes' = [bytes EXCEPT ![conn[c].key] = @ + 1] /\ allBytes' = allBytes + 1
  BY DEF Bill
<1>5. bytes \in [Keys -> Nat] /\ allBytes \in Nat /\ Owning(conn, owned) /\ Budget(conn, bytes, allBytes)
  BY DEF ServiceInv, Lower
<1>6. Billing(conn, conn', c)
  BY <1>1, <1>2 DEF Moved, Billing, Same
<1>7. PICK cm : cm = conn'
  OBVIOUS
<1>8. /\ Owning(cm, owned) /\ \A inf : Slots(conn, inf) => Slots(cm, inf)
      /\ Budget(cm, bytes, allBytes)
      /\ Budget(cm, [bytes EXCEPT ![conn[c].key] = @ + 1], allBytes + 1)
  BY <1>3, <1>5, <1>6, <1>7, BillingKeeps
<1>9. Owning(conn', owned) /\ (~torn' => Slots(conn', inflight')) /\ Budget(conn', bytes', allBytes')
  BY <1>1, <1>4, <1>7, <1>8 DEF ServiceInv
<1>10. Lower'
  <2>1. bytes' \in [Keys -> Nat] /\ allBytes' \in Nat
    BY <1>3, <1>4, <1>5
  <2> QED BY <2>1 DEF Bill, ServiceInv, Lower, MaxRolls, MaxFaults
<1>11. ASSUME NEW d \in Conns PROVE Control(d)'
  <2>1. CASE d = c
    BY <1>1, <1>2, <2>1 DEF Moved, ServiceInv, Control, Same, Asks, Working, Inside, Unbilled, Holding
  <2>2. CASE d # c
    BY <1>1, <1>2, <2>2, OthersStill DEF Moved
  <2> QED BY <2>1, <2>2
<1>12. HeldPageWoken'
  BY <1>1, <1>2, StillWoken DEF Moved
<1>13. ServiceInv'
  BY <1>2, <1>3, <1>9, <1>10, <1>11, <1>12, WorkerKeeps DEF Bill, Moved
<1>14. Closed
  BY <1>2 DEF Closed, Moved, Others
<1> QED BY <1>13, <1>14 DEF ServiceStep

\* A request that the window or the credential has no room for.
LEMMA EnterFull ==
    ASSUME ServiceInv, load' = load, NEW c \in Conns, conn[c].pc = "request", lock = Free, ~torn, ~poisoned,
           conn' = Over(c, "finished"), rolled' = FALSE,
           requests' = InWindow(requests), bytes' = InWindow(bytes),
           allRequests' = SpentAll(allRequests), allBytes' = SpentAll(allBytes),
           UNCHANGED <<inflight, lock, poisoned, high, torn, rolls, faults>>, UNCHANGED supVars
    PROVE  ServiceStep
<1>1. conn \in [Conns -> ConnRecord] /\ conn[c].pc \in Working /\ conn[c].pc \notin Inside /\ conn[c].pc # "notify"
  BY DEF ServiceInv, Working, Inside, Unbilled, Holding
<1>2. Ended(c, "finished")
  BY <1>1, OverFacts, PcsHas
<1>3. Ends(conn, conn', c)
  BY <1>2 DEF Ended, Ends, Working, Inside, Unbilled, Holding
<1>4. Slots(conn, inflight) /\ Owning(conn, owned) /\ inflight \in [Keys -> Nat]
      /\ Budget(conn, bytes, allBytes) /\ bytes \in [Keys -> Nat] /\ requests \in [Keys -> Nat]
  BY DEF ServiceInv, Lower
<1>5. Slots(conn', inflight')
  BY <1>1, <1>3, <1>4, EndsSlotless
<1>6. Budget(conn, bytes', allBytes') /\ bytes' \in [Keys -> Nat] /\ requests' \in [Keys -> Nat]
      /\ allBytes' \in Nat /\ allRequests' \in 0..AllRequests
  <2>1. CASE rolled
    <3>1. bytes' = [k \in Keys |-> 0] /\ allBytes' = 0 /\ requests' = [k \in Keys |-> 0] /\ allRequests' = 0
      BY <2>1 DEF InWindow, SpentAll
    <3> QED BY <1>4, <3>1, BudgetTurns
  <2>2. CASE ~rolled
    BY <1>4, <2>2 DEF InWindow, SpentAll, ServiceInv, Lower
  <2> QED BY <2>1, <2>2
<1>7. Lower'
  BY <1>6 DEF ServiceInv, Lower, MaxRolls, MaxFaults
<1> QED BY <1>1, <1>2, <1>5, <1>6, <1>7, EndStep

\* A request that is admitted.
LEMMA EnterAdmits ==
    ASSUME ServiceInv, load' = load, NEW c \in Conns, conn[c].pc = "request", lock = Free, ~torn, ~poisoned,
           ~Full(conn[c].key),
           conn' = [conn EXCEPT ![c].pc = IF conn[c].op = "wait" THEN "held" ELSE "run", ![c].admitted = TRUE],
           rolled' = FALSE, lock' = c,
           inflight' = [inflight EXCEPT ![conn[c].key] = @ + 1],
           requests' = [InWindow(requests) EXCEPT ![conn[c].key] = @ + 1],
           bytes' = [InWindow(bytes) EXCEPT ![conn[c].key] = @ + 1],
           allRequests' = SpentAll(allRequests) + 1, allBytes' = SpentAll(allBytes) + 1,
           UNCHANGED <<poisoned, high, torn, rolls, faults>>, UNCHANGED supVars
    PROVE  ServiceStep
<1>1. conn \in [Conns -> ConnRecord] /\ conn[c] \in ConnRecord /\ conn[c].pc \in Working /\ conn[c].key \in Keys
  BY DEF ServiceInv, Working, ConnRecord
<1>2. PICK p : p = IF conn[c].op = "wait" THEN "held" ELSE "run"
  OBVIOUS
<1>3. PICK r : r = [conn[c] EXCEPT !.pc = p, !.admitted = TRUE]
  OBVIOUS
<1>4. r \in ConnRecord /\ p \in {"held", "run"} /\ p \in Holding /\ p \in Unbilled /\ p \in Inside
  BY <1>1, <1>2, <1>3, PcsHas DEF ConnRecord, Inside, Unbilled, Holding
<1>5. conn'[c] = r /\ conn' \in [Conns -> ConnRecord] /\ Others(conn, conn', c)
  BY <1>1, <1>2, <1>3, <1>4 DEF Others
<1>6. /\ r.pc = p /\ r.src = conn[c].src /\ r.key = conn[c].key /\ r.code = conn[c].code /\ r.admitted
      /\ r.cancelled = conn[c].cancelled
  BY <1>1, <1>3 DEF ConnRecord
<1>7. Admission(conn, conn', c)
  BY <1>4, <1>5, <1>6 DEF Admission
<1>8. Slots(conn, inflight) /\ Owning(conn, owned) /\ inflight \in [Keys -> Nat]
      /\ Budget(conn, bytes, allBytes) /\ bytes \in [Keys -> Nat] /\ requests \in [Keys -> Nat]
      /\ allBytes \in Nat /\ allRequests \in 0..AllRequests
  BY DEF ServiceInv, Lower
<1>9. PICK by, all, rq, arq : by = InWindow(bytes) /\ all = SpentAll(allBytes)
                              /\ rq = InWindow(requests) /\ arq = SpentAll(allRequests)
  OBVIOUS
<1>10. Budget(conn, by, all) /\ by \in [Keys -> Nat] /\ all \in Nat
       /\ rq \in [Keys -> Nat] /\ arq \in Nat
  <2>1. CASE rolled
    <3>1. by = [k \in Keys |-> 0] /\ all = 0 /\ rq = [k \in Keys |-> 0] /\ arq = 0
      BY <1>9, <2>1 DEF InWindow, SpentAll
    <3> QED BY <1>8, <3>1, BudgetTurns
  <2>2. CASE ~rolled
    BY <1>8, <1>9, <2>2 DEF InWindow, SpentAll
  <2> QED BY <2>1, <2>2
<1>11. inflight[conn[c].key] < MaxInflight /\ by[conn[c].key] + 1 <= KeyBytes /\ all + 1 <= AllBytes
       /\ arq < AllRequests
  <2>1. inflight[conn[c].key] \in Nat /\ by[conn[c].key] \in Nat
    BY <1>1, <1>8, <1>10
  <2>2. /\ ~(arq >= AllRequests) /\ ~(all + 1 > AllBytes) /\ ~(inflight[conn[c].key] >= MaxInflight)
        /\ ~(by[conn[c].key] + 1 > KeyBytes)
    BY <1>9 DEF Full
  <2> QED BY <1>10, <2>1, <2>2
<1>12. PICK cm : cm = conn'
  OBVIOUS
<1>13. /\ Owning(cm, owned)
       /\ Slots(cm, [inflight EXCEPT ![conn[c].key] = @ + 1])
       /\ Budget(cm, [by EXCEPT ![conn[c].key] = @ + 1], all + 1)
  <2>1. Admission(conn, cm, c)
    BY <1>7, <1>12
  <2> QED BY <1>1, <1>8, <1>10, <1>11, <2>1, AdmissionKeeps
<1>14. Owning(conn', owned) /\ Slots(conn', inflight') /\ Budget(conn', bytes', allBytes')
  BY <1>9, <1>12, <1>13
<1>15. Lower'
  <2>1. inflight' \in [Keys -> Nat] /\ bytes' \in [Keys -> Nat] /\ requests' \in [Keys -> Nat]
    BY <1>1, <1>8, <1>9, <1>10
  <2>2. allRequests' \in 0..AllRequests /\ allBytes' \in Nat
    BY <1>9, <1>10, <1>11
  <2> QED BY <2>1, <2>2 DEF ServiceInv, Lower, MaxRolls, MaxFaults
<1>16. ASSUME NEW d \in Conns PROVE Control(d)'
  <2>1. CASE d = c
    <3>1. c \in DOMAIN Asks
      BY <1>1 DEF ServiceInv, Control
    <3> QED BY <1>4, <1>5, <1>6, <2>1, <3>1 DEF Control, Asks
  <2>2. CASE d # c
    BY <1>5, <2>2, OthersAside
  <2> QED BY <2>1, <2>2
<1>17. HeldPageWoken'
  BY <1>4, <1>5, <1>6, StillWoken
<1>18. ServiceInv'
  BY <1>1, <1>5, <1>14, <1>15, <1>16, <1>17, WorkerKeeps
<1>19. Closed
  BY <1>5, <1>6 DEF Closed, Others
<1> QED BY <1>18, <1>19 DEF ServiceStep

LEMMA EnterStep ==
    ASSUME ServiceInv, load' = load, NEW c \in Conns, Enter(c)
    PROVE  ServiceStep
<1>1. conn[c].pc = "request" /\ lock = Free /\ UNCHANGED supVars /\ UNCHANGED <<torn, rolls, faults>>
  BY DEF Enter, At
<1>2. CASE conn' = Over(c, "finished") /\ UNCHANGED <<stateVars, lock>>
  BY <1>1, <1>2, OverStep
<1>3. CASE ~torn /\ ~poisoned /\ Full(conn[c].key) /\ ~(conn' = Over(c, "finished") /\ UNCHANGED <<stateVars, lock>>)
  <2>1. /\ conn' = Over(c, "finished") /\ rolled' = FALSE
        /\ requests' = InWindow(requests) /\ bytes' = InWindow(bytes)
        /\ allRequests' = SpentAll(allRequests) /\ allBytes' = SpentAll(allBytes)
        /\ UNCHANGED <<inflight, lock>> /\ UNCHANGED <<poisoned, high>>
    BY <1>3, Zenon DEF Enter
  <2> QED BY <1>1, <1>3, <2>1, EnterFull
<1>4. CASE ~torn /\ ~poisoned /\ ~Full(conn[c].key) /\ ~(conn' = Over(c, "finished") /\ UNCHANGED <<stateVars, lock>>)
  <2>1. /\ conn' = [conn EXCEPT ![c].pc = IF conn[c].op = "wait" THEN "held" ELSE "run", ![c].admitted = TRUE]
        /\ rolled' = FALSE /\ lock' = c
        /\ inflight' = [inflight EXCEPT ![conn[c].key] = @ + 1]
        /\ requests' = [InWindow(requests) EXCEPT ![conn[c].key] = @ + 1]
        /\ bytes' = [InWindow(bytes) EXCEPT ![conn[c].key] = @ + 1]
        /\ allRequests' = SpentAll(allRequests) + 1 /\ allBytes' = SpentAll(allBytes) + 1
        /\ UNCHANGED <<poisoned, high>>
    BY <1>4, Zenon DEF Enter
  <2> QED BY <1>1, <1>4, <2>1, EnterAdmits
<1>5. \/ conn' = Over(c, "finished") /\ UNCHANGED <<stateVars, lock>>
      \/ ~torn /\ ~poisoned
  BY Zenon DEF Enter
<1> QED BY <1>2, <1>3, <1>4, <1>5

-----------------------------------------------------------------------------
(* Steps of the supervisor, of the clients and of the clock.               *)

LEMMA SupStep ==
    ASSUME ServiceInv, load' = load, UNCHANGED <<lock, torn, poisoned, high, inflight, bytes, allBytes>>,
           Upper', Lower', Supervised', HonestResult', conn' \in [Conns -> ConnRecord],
           Owning(conn', owned'), Slots(conn, inflight) => Slots(conn', inflight),
           Budget(conn', bytes, allBytes), \A d \in Conns : Control(d)', HeldPageWoken',
           \A d \in Conns : conn'[d].code \in {conn[d].code, "none"}
    PROVE  ServiceStep
<1>1. ServiceInv'
  BY DEF ServiceInv
<1>2. Closed
  BY DEF Closed
<1> QED BY <1>1, <1>2 DEF ServiceStep

\* No connection moves.
LEMMA StillStep ==
    ASSUME ServiceInv, load' = load, UNCHANGED <<conn, lock, torn, poisoned, high, inflight, bytes, allBytes>>,
           Upper', Lower', Supervised', HonestResult', Owning(conn, owned')
    PROVE  ServiceStep
<1>1. \A d \in Conns : Control(d)'
  BY DEF ServiceInv, Control, Asks
<1>2. HeldPageWoken'
  BY DEF ServiceInv, HeldPageWoken, At
<1>3. ServiceInv'
  BY <1>1, <1>2 DEF ServiceInv
<1>4. Closed
  BY DEF Closed
<1> QED BY <1>3, <1>4 DEF ServiceStep

LEMMA StopStep ==
    ASSUME ServiceInv, load' = load, Stop
    PROVE  ServiceStep
<1>1. Upper'
  BY DEF Stop, ServiceInv, Upper
<1>2. Lower'
  BY DEF Stop, stateVars, ServiceInv, Lower, MaxRolls, MaxFaults
<1>3. Supervised'
  BY DEF Stop, ServiceInv, Supervised
<1>4. HonestResult'
  BY DEF Stop, stateVars, ServiceInv, HonestResult, In, At
<1>5. Owning(conn, owned')
  BY DEF Stop, ServiceInv
<1> QED BY <1>1, <1>2, <1>3, <1>4, <1>5, StillStep DEF Stop, stateVars

LEMMA RollStep ==
    ASSUME ServiceInv, load' = load, Roll
    PROVE  ServiceStep
<1>1. Upper'
  BY DEF Roll, ServiceInv, Upper
<1>2. Lower'
  <2>1. rolls' \in 0..MaxRolls'
    BY DEF Roll, ServiceInv, Lower, MaxRolls
  <2> QED BY <2>1 DEF Roll, ServiceInv, Lower, MaxFaults
<1>3. Supervised'
  BY DEF Roll, ServiceInv, Supervised
<1>4. HonestResult'
  BY DEF Roll, ServiceInv, HonestResult, In, At
<1>5. Owning(conn, owned')
  BY DEF Roll, ServiceInv
<1> QED BY <1>1, <1>2, <1>3, <1>4, <1>5, StillStep DEF Roll

LEMMA ParkStep ==
    ASSUME ServiceInv, load' = load, Park
    PROVE  ServiceStep
<1>1. Upper'
  BY DEF Park, ServiceInv, Upper
<1>2. Lower'
  BY DEF Park, stateVars, ServiceInv, Lower, MaxRolls, MaxFaults
<1>3. Supervised'
  BY DEF Park, ServiceInv, Supervised
<1>4. HonestResult'
  BY DEF Park, ServiceInv, Supervised, HonestResult
<1>5. Owning(conn, owned')
  BY DEF Park, ServiceInv
<1> QED BY <1>1, <1>2, <1>3, <1>4, <1>5, StillStep DEF Park, stateVars

\* The workers are the connections that run.
LEMMA RunningWorks ==
    ASSUME conn \in [Conns -> ConnRecord], NEW c \in Conns
    PROVE  Running(c) <=> conn[c].pc \in Working
<1>1. conn[c].pc \in Pcs
  BY DEF ConnRecord
<1> QED BY <1>1 DEF Running, Pcs, Working, Inside, Unbilled, Holding

LEMMA SuperviseStep ==
    ASSUME ServiceInv, load' = load, Supervise
    PROVE  ServiceStep
<1> DEFINE ended == {c \in owned : ~Running(c)}
<1>1. /\ sup = "check" /\ sup' \in {"drain", "accept"} /\ (sup' = "accept" => accepted < Accepts)
      /\ failure' \in BOOLEAN /\ owned' \in {owned, owned \ ended}
  <2>1. failure' \in BOOLEAN
    BY DEF Supervise
  <2>2. sup' \in {"drain", "accept"} /\ (sup' = "accept" => accepted < Accepts)
    BY DEF Supervise, Admitting
  <2>3. owned' \in {owned, owned \ ended}
    BY DEF Supervise
  <2> QED BY <2>1, <2>2, <2>3 DEF Supervise
<1>2. Upper'
  BY <1>1 DEF Supervise, ServiceInv, Upper
<1>3. Lower'
  BY DEF Supervise, stateVars, ServiceInv, Lower, MaxRolls, MaxFaults
<1>4. result' = result /\ result = "none" /\ accepted' = accepted
  BY <1>1 DEF Supervise, ServiceInv, Supervised
<1>5. Supervised' /\ HonestResult'
  BY <1>1, <1>4 DEF Supervised, HonestResult
<1>6. Owning(conn, owned')
  <2>1. Owning(conn, owned) /\ conn \in [Conns -> ConnRecord] /\ owned \subseteq Conns
    BY DEF ServiceInv, Owning
  <2>2. ended \subseteq owned /\ ended \cap Workers(conn) = {}
    BY <2>1, RunningWorks DEF Workers
  <2>3. Owning(conn, owned \ ended)
    BY <2>1, <2>2, ReapingKeeps
  <2> QED BY <1>1, <2>1, <2>3
<1> QED BY <1>2, <1>3, <1>5, <1>6, StillStep DEF Supervise, stateVars

\* Outside the workers a connection moves without being counted.
Apart(r) == r.pc \notin Working /\ r.pc # "panicked" /\ ~r.admitted

\* Some connections outside the workers move, and nothing else does.
LEMMA ApartStep ==
    ASSUME ServiceInv, load' = load, UNCHANGED <<stateVars, lock, torn, rolls, faults>>,
           Upper', Supervised', HonestResult', owned' = owned, conn' \in [Conns -> ConnRecord],
           \A d \in Conns : conn'[d].code \in {conn[d].code, "none"},
           \A d \in Conns : conn'[d] # conn[d] =>
               /\ conn[d].pc \notin Working /\ Apart(conn'[d])
               /\ conn'[d].pc = "arrived" => d \in DOMAIN Asks
    PROVE  ServiceStep
<1>1. Lower'
  BY DEF stateVars, ServiceInv, Lower, MaxRolls, MaxFaults
<1>2. Calm(conn, conn')
  <2>1. ASSUME NEW d \in Conns PROVE Alike(conn[d], conn'[d])
    <3>1. CASE conn'[d] = conn[d]
      BY <3>1 DEF Alike
    <3>2. CASE conn'[d] # conn[d]
      BY <3>2 DEF Alike, Apart, Working, Inside
    <3> QED BY <3>1, <3>2
  <2> QED BY <2>1 DEF Calm
<1>3. Owning(conn', owned') /\ (Slots(conn, inflight) => Slots(conn', inflight))
      /\ Budget(conn', bytes, allBytes)
  BY <1>2, QuietKeeps DEF ServiceInv
<1>4. ASSUME NEW d \in Conns PROVE Control(d)'
  <2>1. Control(d)
    BY DEF ServiceInv
  <2>2. CASE conn'[d] = conn[d]
    BY <2>1, <2>2 DEF Control, Asks, stateVars
  <2>3. CASE conn'[d] # conn[d]
    <3>1. conn[d].pc \notin Holding
      BY <2>3 DEF Working, Inside, Unbilled
    <3> QED BY <2>1, <2>3, <3>1 DEF Control, Apart, Asks, Working, Inside, Unbilled, Holding
  <2> QED BY <2>2, <2>3
<1>5. HeldPageWoken'
  <2>1. ASSUME NEW d \in Conns
        PROVE  /\ conn'[d].pc = "asleep" => conn'[d] = conn[d]
               /\ conn[d].pc = "notify" => conn'[d] = conn[d]
    BY DEF Apart, Working, Inside, Unbilled
  <2>2. ASSUME NEW d \in Conns, conn'[d].pc = "asleep", high' > conn'[d].after
        PROVE  \E w \in Conns : conn'[w].pc = "notify"
    <3>1. conn'[d] = conn[d] /\ high' = high
      BY <2>1, <2>2 DEF stateVars
    <3>2. PICK w \in Conns : conn[w].pc = "notify"
      BY <2>2, <3>1 DEF ServiceInv, HeldPageWoken, At
    <3>3. conn'[w] = conn[w]
      BY <2>1, <3>2
    <3> QED BY <3>2, <3>3
  <2> QED BY <2>2 DEF HeldPageWoken, At
<1> QED BY <1>1, <1>3, <1>4, <1>5, SupStep DEF stateVars

LEMMA ConnectStep ==
    ASSUME ServiceInv, load' = load, NEW c \in Conns, Connect(c)
    PROVE  ServiceStep
<1>1. /\ conn' = [conn EXCEPT ![c].pc = "arrived", ![c].src = Asks[c].src] /\ conn[c].pc = "absent"
      /\ c \in DOMAIN Asks /\ conn \in [Conns -> ConnRecord] /\ conn[c] \in ConnRecord
      /\ UNCHANGED supVars /\ sup # "done"
  BY DEF Connect, At, ServiceInv
<1>2. Asks[c].src \in Origins
  BY <1>1 DEF ServiceInv, Asks, Origins
<1>3. PICK r : r = [conn[c] EXCEPT !.pc = "arrived", !.src = Asks[c].src]
  OBVIOUS
<1>4. r \in ConnRecord /\ r.pc = "arrived" /\ r.code = conn[c].code /\ r.admitted = conn[c].admitted
  BY <1>1, <1>2, <1>3, PcsHas DEF ConnRecord
<1>5. conn'[c] = r /\ conn' \in [Conns -> ConnRecord] /\ Others(conn, conn', c)
  BY <1>1, <1>3, <1>4 DEF Others
<1>6. conn[c].pc \notin Working /\ Apart(r)
  BY <1>1, <1>4 DEF Apart, ServiceInv, Control, Working, Inside, Unbilled, Holding
<1>7. Upper' /\ Supervised' /\ HonestResult'
  BY <1>1 DEF supVars, ServiceInv, Upper, Supervised, HonestResult
<1>8. \A d \in Conns : conn'[d] # conn[d] =>
               /\ conn[d].pc \notin Working /\ Apart(conn'[d])
               /\ conn'[d].pc = "arrived" => d \in DOMAIN Asks
  BY <1>1, <1>5, <1>6 DEF Others
<1>9. \A d \in Conns : conn'[d].code \in {conn[d].code, "none"}
  BY <1>4, <1>5 DEF Others
<1>10. owned' = owned /\ UNCHANGED <<stateVars, lock, torn, rolls, faults>>
  BY <1>1 DEF Connect, supVars
<1> QED BY <1>5, <1>7, <1>8, <1>9, <1>10, ApartStep

\* A socket that is turned away.
LEMMA RefusedFacts ==
    ASSUME NEW r, r = [Idle EXCEPT !.pc = "refused"]
    PROVE  r \in ConnRecord /\ r.pc = "refused" /\ r.code = "none" /\ Apart(r)
<1>1. r \in ConnRecord /\ r.pc = "refused" /\ r.code = "none" /\ ~r.admitted
  BY IdleFacts, PcsHas DEF ConnRecord
<1> QED BY <1>1 DEF Apart, Working, Inside, Unbilled, Holding

LEMMA DrainStep ==
    ASSUME ServiceInv, load' = load, Drain
    PROVE  ServiceStep
<1>1. PICK r : r = [Idle EXCEPT !.pc = "refused"]
  OBVIOUS
<1>2. r \in ConnRecord /\ r.pc = "refused" /\ r.code = "none" /\ Apart(r)
  BY <1>1, RefusedFacts
<1>3. conn' = [d \in Conns |-> IF conn[d].pc = "arrived" THEN r ELSE conn[d]] /\ conn \in [Conns -> ConnRecord]
  BY <1>1 DEF Drain, At, ServiceInv
<1>4. conn' \in [Conns -> ConnRecord] /\ \A d \in Conns : conn'[d].code \in {conn[d].code, "none"}
  BY <1>2, <1>3
<1>5. \A d \in Conns : conn'[d] # conn[d] =>
               /\ conn[d].pc \notin Working /\ Apart(conn'[d])
               /\ conn'[d].pc = "arrived" => d \in DOMAIN Asks
  BY <1>2, <1>3 DEF Working, Inside, Unbilled, Holding
<1>6. Upper' /\ Supervised' /\ HonestResult'
  BY DEF Drain, ServiceInv, Upper, Supervised, HonestResult
<1>7. owned' = owned /\ UNCHANGED <<stateVars, lock, torn, rolls, faults>>
  BY DEF Drain
<1> QED BY <1>4, <1>5, <1>6, <1>7, ApartStep

LEMMA WakeWaitersStep ==
    ASSUME ServiceInv, load' = load, WakeWaiters
    PROVE  ServiceStep
<1>1. conn' = Woken(conn) /\ conn \in [Conns -> ConnRecord] /\ UNCHANGED <<stateVars, lock, torn, rolls, faults>>
      /\ owned' = owned
  BY DEF WakeWaiters, ServiceInv
<1>2. /\ conn' \in [Conns -> ConnRecord]
      /\ \A c \in Conns : /\ Same(conn[c], conn'[c]) /\ conn'[c].code = conn[c].code
                          /\ conn[c].pc # "asleep" => conn'[c].pc = conn[c].pc
                          /\ conn[c].pc = "asleep" => conn'[c].pc = "look"
  BY <1>1, WokenFacts
<1>3. Upper' /\ Supervised' /\ HonestResult'
  BY DEF WakeWaiters, ServiceInv, Upper, Supervised, HonestResult
<1>4. Lower'
  BY <1>1 DEF stateVars, ServiceInv, Lower, MaxRolls, MaxFaults
<1>5. Calm(conn, conn')
  <2>1. ASSUME NEW d \in Conns PROVE Alike(conn[d], conn'[d])
    BY <1>2 DEF Same, Alike, Working, Inside, Unbilled, Holding
  <2> QED BY <2>1 DEF Calm
<1>6. Owning(conn', owned') /\ (Slots(conn, inflight) => Slots(conn', inflight))
      /\ Budget(conn', bytes, allBytes)
  BY <1>1, <1>5, QuietKeeps DEF ServiceInv
<1>7. ASSUME NEW d \in Conns PROVE Control(d)'
  <2>1. Control(d)
    BY DEF ServiceInv
  <2>2. Same(conn[d], conn'[d]) /\ UNCHANGED <<lock, torn, poisoned, high>>
    BY <1>1, <1>2 DEF stateVars
  <2>3. CASE conn[d].pc # "asleep"
    BY <1>2, <2>1, <2>2, <2>3 DEF Control, Same, Asks
  <2>4. CASE conn[d].pc = "asleep"
    BY <1>2, <2>1, <2>2, <2>4 DEF Control, Same, Asks, Working, Inside, Unbilled, Holding
  <2> QED BY <2>3, <2>4
<1>8. HeldPageWoken'
  BY <1>2 DEF HeldPageWoken, At
<1>9. \A d \in Conns : conn'[d].code \in {conn[d].code, "none"}
  BY <1>2
<1> QED BY <1>1, <1>2, <1>3, <1>4, <1>6, <1>7, <1>8, <1>9, SupStep DEF stateVars

\* When every worker has ended nobody holds the mutex, so unhealthy() sees
\* what happened last.
LEMMA JoinStep ==
    ASSUME ServiceInv, load' = load, Join
    PROVE  ServiceStep
<1>1. /\ sup = "join" /\ sup' = "done" /\ owned' = {} /\ \A c \in owned : ~Running(c)
      /\ result' = IF failure' THEN "unavailable" ELSE "ok"
      /\ failure' = (failure \/ unhealthy \/ \E c \in owned : At(c, "panicked"))
  BY DEF Join
<1>2. conn \in [Conns -> ConnRecord] /\ Owning(conn, owned) /\ owned \subseteq Conns
  BY DEF ServiceInv, Owning
<1>3. Workers(conn) = {}
  BY <1>1, <1>2, RunningWorks DEF Owning, Workers
<1>4. lock = Free
  <2>1. SUFFICES ASSUME lock \in Conns PROVE FALSE
    BY DEF ServiceInv, Lower
  <2>2. conn[lock].pc \in Holding
    BY <2>1 DEF ServiceInv, Control
  <2>3. lock \in Workers(conn)
    BY <2>1, <2>2 DEF Workers, Working, Inside, Unbilled
  <2> QED BY <1>3, <2>3
<1>5. failure' \in BOOLEAN /\ result' \in {"ok", "unavailable"}
  <2>1. failure' \in BOOLEAN
    BY <1>1
  <2> QED BY <1>1, <2>1
<1>6. Upper'
  BY <1>5 DEF Join, ServiceInv, Upper
<1>7. Lower'
  BY DEF Join, stateVars, ServiceInv, Lower, MaxRolls, MaxFaults
<1>8. Supervised'
  BY <1>1, <1>5 DEF Supervised
<1>9. HonestResult'
  <2>1. SUFFICES ASSUME result' = "ok" PROVE ~poisoned' /\ ~torn' /\ In("panicked")' = {}
    BY DEF HonestResult
  <2>2. ~failure'
    BY <1>1, <2>1
  <2>3. ~unhealthy
    BY <1>1, <2>2
  <2>4. ~torn /\ ~poisoned
    BY <1>4, <2>3 DEF unhealthy
  <2>5. \A c \in Conns : conn[c].pc # "panicked"
    BY <2>4 DEF ServiceInv, Control
  <2>6. conn' = conn /\ torn' = torn /\ poisoned' = poisoned
    BY DEF Join, stateVars
  <2> QED BY <2>4, <2>5, <2>6 DEF In, At
<1>10. Owning(conn, owned \ owned)
  <2>1. owned \cap Workers(conn) = {}
    BY <1>3
  <2> QED BY <1>2, <2>1, ReapingKeeps
<1>11. Owning(conn, owned')
  <2>1. owned \ owned = {}
    OBVIOUS
  <2> QED BY <1>1, <1>10, <2>1
<1> QED BY <1>6, <1>7, <1>8, <1>9, <1>11, StillStep DEF Join, stateVars

\* The handshakes counted after a socket was taken stay within the window's
\* and the source's share.
LEMMA AcceptCounts ==
    ASSUME ServiceInv, NEW c \in Conns, Accept(c)
    PROVE  /\ accepted' \in 0..Accepts /\ started' \in 0..Handshakes
           /\ shareStart' \in [Sources -> 0..StartShare]
<1> DEFINE hs == IF supRolled THEN 0 ELSE started
           by == IF supRolled THEN [s \in Sources |-> 0] ELSE shareStart
           s  == conn[c].src
<1>1. accepted' \in 0..Accepts
  BY DEF Accept, ServiceInv, Upper, Supervised
<1>2. hs \in 0..Handshakes /\ by \in [Sources -> 0..StartShare] /\ s \in Origins
  BY Shares DEF ServiceInv, Upper, ConnRecord
<1>3. CASE started' = hs /\ shareStart' = by
  BY <1>1, <1>2, <1>3
<1>4. CASE ~(started' = hs /\ shareStart' = by)
  <2>1. /\ ~(hs >= Handshakes) /\ admit(s, by) /\ started' = hs + 1
        /\ shareStart' = IF s = Local THEN by ELSE [by EXCEPT ![s] = @ + 1]
    BY <1>4 DEF Accept
  <2>2. started' \in 0..Handshakes
    BY <1>2, <2>1
  <2>3. shareStart' \in [Sources -> 0..StartShare]
    <3>1. CASE s = Local
      BY <1>2, <2>1, <3>1
    <3>2. CASE s # Local
      <4>1. s \in Sources /\ by[s] < StartShare /\ by[s] \in Nat
        BY <1>2, <2>1, <3>2 DEF admit, Origins
      <4>2. by[s] + 1 \in 0..StartShare
        BY <4>1, Shares
      <4> QED BY <1>2, <2>1, <3>2, <4>1, <4>2
    <3> QED BY <3>1, <3>2
  <2> QED BY <1>1, <2>2, <2>3
<1> QED BY <1>3, <1>4

\* A source's workers all have a slot in Sources.live, on either transport.
LEMMA LiveHolds ==
    ASSUME ServiceInv, NEW s, Cardinality(Live(s)) < Share
    PROVE  Cardinality(From(conn, s)) < Share
<1>1. conn \in [Conns -> ConnRecord] /\ Owning(conn, owned) /\ owned \subseteq Conns /\ IsFiniteSet(owned)
  BY DEF ServiceInv, Owning
<1>2. From(conn, s) \subseteq Live(s) /\ Live(s) \subseteq owned
  BY <1>1, RunningWorks DEF Live, From, Owning, Workers
<1>3. IsFiniteSet(Live(s)) /\ Cardinality(Live(s)) \in Nat
  BY <1>1, <1>2, FS_Subset, FS_CardinalityType
<1>4. Cardinality(From(conn, s)) <= Cardinality(Live(s)) /\ IsFiniteSet(From(conn, s))
  BY <1>2, <1>3, FS_Subset
<1>5. Cardinality(From(conn, s)) \in Nat
  BY <1>4, FS_CardinalityType
<1> QED BY <1>3, <1>4, <1>5, Shares

LEMMA AcceptStep ==
    ASSUME ServiceInv, load' = load, NEW c \in Conns, Accept(c)
    PROVE  ServiceStep
<1>1. /\ conn[c].pc = "arrived" /\ sup = "accept" /\ sup' = "check" /\ supRolled' = FALSE
      /\ conn \in [Conns -> ConnRecord] /\ conn[c] \in ConnRecord
      /\ UNCHANGED <<stop, draining, failure, result>> /\ UNCHANGED <<stateVars, lock, torn, rolls, faults>>
  BY DEF Accept, At, ServiceInv
<1>2. Upper' /\ Supervised' /\ HonestResult'
  <2>1. Upper'
    BY <1>1, AcceptCounts DEF ServiceInv, Upper
  <2> QED BY <1>1, <2>1 DEF ServiceInv, Supervised, HonestResult
<1>3. PICK r : r = [Idle EXCEPT !.pc = "refused"]
  OBVIOUS
<1>4. CASE conn' = [conn EXCEPT ![c] = r] /\ owned' = owned
  <2>1. r \in ConnRecord /\ r.pc = "refused" /\ r.code = "none" /\ Apart(r)
    BY <1>3, RefusedFacts
  <2>2. conn' \in [Conns -> ConnRecord] /\ conn'[c] = r /\ Others(conn, conn', c)
    BY <1>1, <1>4, <2>1 DEF Others
  <2>3. \A d \in Conns : conn'[d].code \in {conn[d].code, "none"}
    BY <2>1, <2>2 DEF Others
  <2>4. \A d \in Conns : conn'[d] # conn[d] =>
               /\ conn[d].pc \notin Working /\ Apart(conn'[d])
               /\ conn'[d].pc = "arrived" => d \in DOMAIN Asks
    BY <1>1, <2>1, <2>2 DEF Others, Working, Inside, Unbilled, Holding
  <2> QED BY <1>1, <1>2, <1>4, <2>2, <2>3, <2>4, ApartStep
<1>5. CASE ~(conn' = [conn EXCEPT ![c] = r] /\ owned' = owned)
  <2>1. /\ ~(Cardinality(owned) >= MaxConns) /\ conn' = Go(c, "handshake") /\ owned' = owned \cup {c}
        /\ conn[c].src \in Sources => Cardinality(Live(conn[c].src)) < Share
    <3>1. conn[c].src \in Sources => conn[c].src # Local
      OBVIOUS
    <3> QED BY <1>3, <1>5, <3>1 DEF Accept, admit
  <2>2. Moved(c, "handshake", conn[c].code)
    BY <1>1, <2>1, GoFacts, PcsHas
  <2>3. conn' \in [Conns -> ConnRecord] /\ Others(conn, conn', c) /\ conn'[c].pc = "handshake"
        /\ Same(conn[c], conn'[c]) /\ conn'[c].code = conn[c].code
    BY <2>2 DEF Moved
  <2>4. Starting(conn, conn', c)
    BY <1>1, <2>3 DEF Starting, Same
  <2>5. Owning(conn, owned) /\ Cardinality(owned) < MaxConns
    <3>1. Owning(conn, owned) /\ Cardinality(owned) \in Nat
      BY FS_CardinalityType DEF ServiceInv, Owning
    <3> QED BY <2>1, <3>1
  <2>6. conn[c].src \in Sources => Cardinality(From(conn, conn[c].src)) < Share
    BY <2>1, LiveHolds
  <2>7. PICK cm : cm = conn'
    OBVIOUS
  <2>8. /\ Owning(cm, owned \cup {c})
        /\ \A inf : Slots(conn, inf) => Slots(cm, inf)
        /\ \A by, all : Budget(conn, by, all) => Budget(cm, by, all)
    <3>1. Starting(conn, cm, c)
      BY <2>4, <2>7
    <3> QED BY <2>5, <2>6, <3>1, StartingKeeps
  <2>9. Owning(conn', owned') /\ (Slots(conn, inflight) => Slots(conn', inflight))
        /\ Budget(conn', bytes, allBytes)
    BY <2>1, <2>7, <2>8 DEF ServiceInv
  <2>10. ASSUME NEW d \in Conns PROVE Control(d)'
    <3>1. CASE d = c
      BY <1>1, <2>3, <3>1 DEF ServiceInv, Control, Same, Asks, Working, Inside, Unbilled, Holding
    <3>2. CASE d # c
      BY <1>1, <2>3, <3>2, OthersStill DEF stateVars
    <3> QED BY <3>1, <3>2
  <2>11. HeldPageWoken'
    BY <1>1, <2>3, StillWoken DEF stateVars
  <2>12. Lower'
    BY <1>1 DEF stateVars, ServiceInv, Lower, MaxRolls, MaxFaults
  <2>13. \A d \in Conns : conn'[d].code \in {conn[d].code, "none"}
    BY <2>3 DEF Others
  <2> QED BY <1>1, <1>2, <2>3, <2>9, <2>10, <2>11, <2>12, <2>13, SupStep DEF stateVars
<1> QED BY <1>4, <1>5

-----------------------------------------------------------------------------
(* The invariant and what follows from it.                                 *)

LEMMA InvInit == ServiceInit => ServiceInv
<1> SUFFICES ASSUME ServiceInit PROVE ServiceInv
  OBVIOUS
<1>1. conn \in [Conns -> ConnRecord] /\ \A c \in Conns : conn[c] = Idle
  BY IdleFacts DEF ServiceInit
<1>2. \A c \in Conns : /\ conn[c].pc \notin Working /\ conn[c].pc \notin Inside /\ conn[c].pc \notin Unbilled
                       /\ conn[c].pc \notin Holding /\ conn[c].pc = "absent" /\ ~conn[c].admitted
  BY <1>1, IdleFacts DEF Working, Inside, Unbilled, Holding
<1>3. Upper
  <2>1. 0 \in 0..Accepts /\ 0 \in 0..Handshakes /\ 0 \in 0..StartShare
    BY Shares
  <2>2. shareStart \in [Sources -> 0..StartShare]
    BY <2>1 DEF ServiceInit
  <2> QED BY <2>1, <2>2 DEF ServiceInit, Upper
<1>4. Lower
  <2>1. MaxRolls \in Nat /\ MaxFaults \in Nat
    BY DEF ServiceInit, MaxRolls, MaxFaults
  <2>2. 0 \in Nat /\ 0 \in 0..AllRequests /\ 0 \in 0..MaxRolls /\ 0 \in 0..MaxFaults
    BY <2>1
  <2>3. inflight \in [Keys -> Nat] /\ requests \in [Keys -> Nat] /\ bytes \in [Keys -> Nat]
    BY DEF ServiceInit
  <2> QED BY <2>2, <2>3 DEF ServiceInit, Lower
<1>5. \A c \in Conns : Control(c)
  <2>1. \A c \in Conns : lock # c
    BY DEF ServiceInit, Free
  <2> QED BY <1>2, <2>1 DEF Control
<1>6. HeldPageWoken /\ Supervised /\ HonestResult
  BY <1>2 DEF ServiceInit, HeldPageWoken, At, Supervised, HonestResult
<1>7. /\ Workers(conn) = {} /\ Dues(conn) = {}
      /\ \A k : SlotOf(conn, k) = {} /\ DueOf(conn, k) = {}
      /\ \A s : From(conn, s) = {}
  BY <1>2 DEF Workers, Dues, SlotOf, DueOf, From
<1>8. IsFiniteSet({}) /\ Cardinality({}) = 0
  BY FS_EmptySet
<1>9. Owning(conn, owned)
  <2>1. owned = {} /\ 0 <= MaxConns /\ 0 <= Share
    BY Shares DEF ServiceInit
  <2> QED BY <1>7, <1>8, <2>1 DEF Owning
<1>10. Slots(conn, inflight)
  <2>1. \A k \in Keys : inflight[k] = 0
    BY DEF ServiceInit
  <2>2. 0 <= MaxInflight
    OBVIOUS
  <2> QED BY ONLY <1>7, <1>8, <2>1, <2>2 DEF Slots
<1>11. Budget(conn, bytes, allBytes)
  <2>1. \A k \in Keys : bytes[k] = 0
    BY DEF ServiceInit
  <2>2. allBytes = 0 /\ 0 + 0 <= KeyBytes + MaxInflight /\ 0 + 0 <= AllBytes + MaxConns
    BY DEF ServiceInit
  <2> QED BY <1>7, <1>8, <2>1, <2>2 DEF Budget
<1> QED BY <1>1, <1>3, <1>4, <1>5, <1>6, <1>9, <1>10, <1>11 DEF ServiceInit, ServiceInv

LEMMA InvNext == ServiceInv /\ ServiceNext => ServiceStep
<1> SUFFICES ASSUME ServiceInv, ServiceNext PROVE ServiceStep
  OBVIOUS
<1>1. load' = load
  BY DEF ServiceNext
<1>2. CASE Supervisor
  BY <1>1, <1>2, SuperviseStep, ParkStep, DrainStep, WakeWaitersStep, JoinStep, AcceptStep DEF Supervisor
<1>3. CASE Stop \/ Roll
  BY <1>1, <1>3, StopStep, RollStep
<1>4. ASSUME NEW c \in Conns, Worker(c) PROVE ServiceStep
  BY <1>1, <1>4, FrameStep, EnterStep, RunStep, NotifyStep, LookStep, WaitStep, TimeoutStep, RelockStep,
     CancelWaitStep, BillStep, WriteStep, ReleaseStep DEF Worker
<1>5. ASSUME NEW c \in Conns, Connect(c) \/ Cancel(c) \/ Panic(c) PROVE ServiceStep
  BY <1>1, <1>5, ConnectStep, CancelStep, PanicStep
<1> QED BY <1>2, <1>3, <1>4, <1>5 DEF ServiceNext

LEMMA InvStutters == ServiceInv /\ UNCHANGED serviceVars => ServiceInv'
<1> SUFFICES ASSUME ServiceInv, UNCHANGED serviceVars PROVE ServiceInv'
  OBVIOUS
<1>1. \A d \in Conns : Control(d)'
  BY DEF serviceVars, stateVars, ServiceInv, Control, Asks
<1>2. Upper' /\ Supervised'
  BY DEF serviceVars, supVars, ServiceInv, Upper, Supervised
<1>3. Lower'
  BY DEF serviceVars, stateVars, ServiceInv, Lower, MaxRolls, MaxFaults
<1>4. HeldPageWoken' /\ HonestResult'
  BY DEF serviceVars, supVars, stateVars, ServiceInv, HeldPageWoken, HonestResult, At, In
<1> QED BY <1>1, <1>2, <1>3, <1>4 DEF serviceVars, supVars, stateVars, ServiceInv

LEMMA InvAlways == ServiceSpec => []ServiceInv
<1>1. ServiceInv /\ [ServiceNext]_serviceVars => ServiceInv'
  BY InvNext, InvStutters DEF ServiceStep
<1> QED BY <1>1, InvInit, PTL DEF ServiceSpec

\* Connections, shares, credential slots and byte budgets are at every moment
\* what the live workers take: process_request's admission, Admission::drop,
\* the late billing of a response and the supervisor's reaping agree about
\* them, for every number of connections, credentials and sources, every limit
\* and every load, on both transports.
THEOREM SlotsAreExact == ServiceSpec => []Accounted
<1>1. ServiceInv => Accounted
  <2> SUFFICES ASSUME ServiceInv PROVE Accounted
    OBVIOUS
  <2>1. conn \in [Conns -> ConnRecord] /\ Owning(conn, owned)
    BY DEF ServiceInv
  <2>2. ServiceTypeOK
    <3>1. ASSUME NEW c \in Conns
          PROVE  /\ conn[c].pc \in {"absent", "arrived", "refused", "handshake", "request", "run", "held",
                                    "park", "asleep", "look", "notify", "bill", "write", "release",
                                    "finished", "panicked"}
                 /\ conn[c].src \in Origins /\ conn[c].op \in Ops /\ conn[c].key \in Keys
                 /\ conn[c].cancelled \in {"no", "asked", "told"}
      <4>1. conn[c] \in ConnRecord
        BY <2>1
      <4> QED BY <4>1 DEF ConnRecord, Pcs, Working, Inside, Unbilled, Holding
    <3>2. owned \subseteq Conns
      BY <2>1 DEF Owning
    <3>3. Upper /\ Lower
      BY DEF ServiceInv
    <3> QED BY <3>1, <3>2, <3>3 DEF Upper, Lower, ServiceTypeOK
  <2>3. SharesHold
    <3>1. {c \in Conns : Running(c)} = Workers(conn)
      BY <2>1, RunningWorks DEF Workers
    <3>2. ASSUME NEW s \in Sources
          PROVE  Cardinality({c \in Conns : Running(c) /\ conn[c].src = s}) <= Share
      <4>1. {c \in Conns : Running(c) /\ conn[c].src = s} = From(conn, s)
        BY <2>1, RunningWorks DEF From
      <4> QED BY <2>1, <4>1 DEF Owning
    <3>3. Cardinality(Workers(conn)) <= MaxConns
      BY <2>1, Counted
    <3> QED BY <3>1, <3>2, <3>3 DEF SharesHold
  <2>4. SlotsExact
    <3> SUFFICES ASSUME ~torn, NEW k \in Keys
                 PROVE  /\ inflight[k] = Cardinality({c \in Conns : conn[c].key = k /\ conn[c].admitted /\ Running(c)})
                        /\ inflight[k] <= MaxInflight
      BY DEF SlotsExact
    <3>1. \A c \in Conns : conn[c].admitted /\ Running(c) <=> conn[c].pc \in Inside
      BY <2>1, RunningWorks DEF ServiceInv, Control, Working
    <3>2. {c \in Conns : conn[c].key = k /\ conn[c].admitted /\ Running(c)} = SlotOf(conn, k)
      BY <3>1 DEF SlotOf
    <3> QED BY <3>2 DEF ServiceInv, Slots
  <2>5. OverrunBounded
    <3>1. ASSUME NEW k \in Keys PROVE bytes[k] <= KeyBytes + MaxInflight
      <4>1. bytes[k] \in Nat /\ bytes[k] + Cardinality(DueOf(conn, k)) <= KeyBytes + MaxInflight
        BY DEF ServiceInv, Lower, Budget
      <4>2. Cardinality(DueOf(conn, k)) \in Nat
        BY <2>1, Counted
      <4> QED BY <4>1, <4>2
    <3>2. allBytes <= AllBytes + MaxConns
      <4>1. allBytes \in Nat /\ allBytes + Cardinality(Dues(conn)) <= AllBytes + MaxConns
        BY DEF ServiceInv, Lower, Budget
      <4>2. Cardinality(Dues(conn)) \in Nat
        BY <2>1, Counted
      <4> QED BY <4>1, <4>2
    <3> QED BY <3>1, <3>2 DEF OverrunBounded
  <2> QED BY <2>2, <2>3, <2>4, <2>5 DEF Accounted
<1> QED BY <1>1, InvAlways, PTL

\* No notification is lost: a held page never sleeps over a committed record
\* unless a PUT is about to notify, and a request whose cancellation cancel_wait
\* has reported neither sleeps nor is on its way to sleep, however PUTs, waits,
\* timeouts, cancellations and the drain interleave.
THEOREM NoWakeIsLost == ServiceSpec => []WakesReach
<1>1. ServiceInv => WakesReach
  BY DEF ServiceInv, Control, WakesReach, CancelReaches, At
<1> QED BY <1>1, InvAlways, PTL

\* serve_until returns Ok only for a service that is sound and whose workers
\* all ended without a panic, and once the mailbox is uncertain or the mutex
\* poisoned no request is answered as if it were sound.
THEOREM EndsAreHonest == ServiceSpec => ClosesHonestly
<1>1. ServiceInv => HonestResult
  BY DEF ServiceInv
<1>2. ServiceInv /\ [ServiceNext]_serviceVars => [Closed]_serviceVars
  BY InvNext DEF ServiceStep
<1>3. ServiceSpec => []HonestResult
  BY <1>1, InvAlways, PTL
<1>4. ServiceSpec => FailsClosed
  <2>1. ServiceSpec => [][Closed]_serviceVars
    BY <1>2, InvAlways, PTL DEF ServiceSpec
  <2> QED BY <2>1 DEF FailsClosed, Closed
<1>5. ClosesHonestly <=> []HonestResult /\ FailsClosed
  BY DEF ClosesHonestly
<1> QED BY <1>3, <1>4, <1>5, PTL
=============================================================================
