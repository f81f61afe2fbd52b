------------------------- MODULE RelayClientProofs -------------------------
(***************************************************************************)
(* Proofs about the two clients of a relay.                                *)
(*                                                                         *)
(* RelayDelivery, for every set of senders and items, every limit, retry   *)
(* policy and fault bound.  A step of a sender changes one row and the     *)
(* waiting times of its other rows; a step of the service takes one        *)
(* request off the wire.                                                   *)
(*                                                                         *)
(* RelayScan, for every length of the mailbox, every page size and every   *)
(* number of faults.  The inductive invariant speaks of every pair of maps *)
(* that the disk may hold of the two directories at once, so that a power  *)
(* loss at any point is one of its instances.                              *)
(***************************************************************************)
EXTENDS RelayDelivery, RelayScan, FiniteSetTheorems, TLAPS

USE PolicyAssumption, DeliveryAssumption

-----------------------------------------------------------------------------
(* The inductive invariant.                                                *)

Rows    == Job \cup {NoJob}
Replies == [result : {"None", "Ok"} \cup Refusals, position : Nat]

\* The types of the variables that TypeOK does not speak of.
Types ==
    /\ TypeOK
    /\ queue \in [Senders -> Seq(Items)]
    /\ batch \in [Senders -> Seq(Items)]
    /\ elapsed \in [Senders -> Nat]
    /\ prior \in [Senders -> Rows]
    /\ reply \in [Senders -> Replies]
    /\ tally \in [Items -> [refused : Nat, retained : Nat, unknown : Nat]]

\* A set of items whose bytes can be counted.
Cells(S) == UNION {{i} \X (1..Size[i]) : i \in S}
Countable(S) == IsFiniteSet(S) /\ IsFiniteSet(Cells(S))

CapOK(s) ==
    /\ Countable(JobsOf(s))
    /\ Cardinality(Live(s)) <= MaxJobs
    /\ Bytes(JobsOf(s)) <= MaxBytes
Capped == \A s \in Senders : CapOK(s)

AllReadable == \A i \in Items : jobs[i] # NoJob => Readable(i)

\* A job that a tick takes up, and the one whose attempt is open.
Open(i, s) == Sender[i] = s /\ jobs[i].state \in {"Pending", "Uncertain"}
Trying(s)  == pc[s] \in {"send", "await"}

\* The running tick: its jobs are distinct and open; the attempt of the first is
\* charged on top of what its row was before.
TickOK(s) ==
    /\ pc[s] \in {"closed", "idle"} => batch[s] = <<>>
    /\ \A n \in 1..Len(batch[s]) : Open(batch[s][n], s)
    /\ IsInjective(batch[s])
    /\ pc[s] # "await" => reply[s] = NoReply
    /\ Trying(s) =>
         /\ batch[s] # <<>>
         /\ prior[s].state \in {"Pending", "Uncertain"}
         /\ prior[s].uncertain <=> prior[s].state = "Uncertain"
         /\ jobs[Head(batch[s])].state = "Uncertain"
         /\ jobs[Head(batch[s])].attempts = prior[s].attempts + 1
Ticking == \A s \in Senders : TickOK(s)

\* A request is of a queued item; while its client listens, that is the attempt
\* in progress, and it is not answered yet.
Listening(s, i) == pc[s] = "await" /\ Head(batch[s]) = i /\ reply[s] = NoReply
WireOK(r) == jobs[r.item] # NoJob /\ (r.live => Listening(Sender[r.item], r.item))
Wired == \A r \in requests : WireOK(r)

\* A receipt names the position of the item that it answers.
ReplyOK(s) ==
    reply[s].result = "Ok" =>
        /\ reply[s].position \in DOMAIN mailbox
        /\ mailbox[reply[s].position] = Head(batch[s])
Answered == \A s \in Senders : ReplyOK(s)

\* What the mailbox holds was queued, once, and is charged to its sender.
RetainedRows ==
    /\ \A i \in Items : charge[i] = IF i \in ToSet(mailbox) THEN Sender[i] ELSE Nobody
    /\ \A i \in ToSet(mailbox) : jobs[i] # NoJob
    /\ IsInjective(mailbox)
    /\ \A s \in Senders :
         /\ Countable(ChargedTo(s))
         /\ Cardinality(ChargedTo(s)) <= KeyItems
         /\ Bytes(ChargedTo(s)) <= KeyBytes

\* Neither in the mailbox nor on the wire.
Unseen(i) == i \notin ToSet(mailbox) /\ \A r \in requests : r.item # i

\* A job that was certain before its open attempt has left no trace of an earlier
\* one: nothing before it is sent, only its own request while it is unanswered,
\* and nothing again once it is refused.
TraceOK(i) ==
    Sender[i] \notin Quic =>
        /\ jobs[i].state \in {"Pending", "Stopped"} /\ ~jobs[i].uncertain => Unseen(i)
        /\ LET s == Sender[i] IN
           Trying(s) /\ Head(batch[s]) = i /\ ~prior[s].uncertain =>
             /\ pc[s] = "send" \/ reply[s].result \in Refusals => Unseen(i)
             /\ reply[s] = NoReply =>
                  i \notin ToSet(mailbox) /\ \A r \in requests : r.item = i => r.live
Traceless == \A i \in Items : TraceOK(i)

\* The outcomes of a job's attempts.
Outcomes(i) == tally[i].refused + tally[i].retained + tally[i].unknown

\* The charge of one job; Due(i) is that of the attempt in progress.
Due(i) == IF Trying(Sender[i]) /\ Head(batch[Sender[i]]) = i THEN 1 ELSE 0
ChargeOK(i) == jobs[i].attempts + evidence[i].spent = Outcomes(i) + Due(i)
Charged == \A i \in Items : ChargeOK(i)

IInv ==
    /\ Types
    /\ Capped
    /\ AllReadable
    /\ Ticking
    /\ Wired
    /\ Answered
    /\ RetainedRows
    /\ Traceless
    /\ RetainedIsHeld
    /\ Charged

-----------------------------------------------------------------------------
(* Helpers of the model.                                                   *)

\* Two rows that differ at most in their waiting time.
Alike(j, k) ==
    /\ k.state = j.state /\ k.attempts = j.attempts
    /\ k.uncertain = j.uncertain /\ k.position = j.position
    /\ k = NoJob <=> j = NoJob

\* A row without a state is no row.
LEMMA RowShape ==
    ASSUME NEW j \in Rows
    PROVE  /\ j # NoJob <=> j \in Job
           /\ j # NoJob <=> j.state # "None"
           /\ j # NoJob => j.state \in JobStates
           /\ j.attempts \in Nat /\ j.wait \in Int /\ j.uncertain \in BOOLEAN /\ j.position \in Nat
<1>1. CASE j = NoJob
  <2>1. NoJob \notin Job /\ NoJob.state = "None" BY DEF NoJob, Job, JobStates
  <2>2. NoJob.attempts \in Nat /\ NoJob.wait \in Int /\ NoJob.position \in Nat BY DEF NoJob
  <2>3. NoJob.uncertain \in BOOLEAN BY DEF NoJob
  <2> QED BY ONLY <1>1, <2>1, <2>2, <2>3
<1>2. CASE j \in Job
  <2>1. j.state # "None" /\ j.state \in JobStates BY <1>2 DEF Job, JobStates
  <2>2. j # NoJob BY <2>1 DEF NoJob
  <2>3. j.attempts \in Nat /\ j.wait \in Int /\ j.uncertain \in BOOLEAN /\ j.position \in Nat
    BY <1>2 DEF Job
  <2> QED BY <1>2, <2>1, <2>2, <2>3
<1> QED BY <1>1, <1>2 DEF Rows

\* The waiting time that is left never falls below -1.
LEMMA MaxType == ASSUME NEW x \in Int PROVE Max({-1, x}) \in Int
<1>1. \E y \in {-1, x} : \A z \in {-1, x} : y >= z
  <2>1. CASE x >= -1 BY <2>1
  <2>2. CASE ~(x >= -1) BY <2>2
  <2> QED BY <2>1, <2>2
<1> QED BY <1>1 DEF Max

\* The back-off is a time within the policy's limit, whatever power of two the
\* attempts and outages call for.
LEMMA BackoffType == ASSUME NEW i PROVE Backoff(i) \in 1..MaxBackoff
<1>1. PICK c : c = InitialBackoff * 2 ^ (jobs[i].attempts + evidence[i].outages) OBVIOUS
<1>2. PICK B : B = {b \in 1..MaxBackoff : b = MaxBackoff \/ b = c} OBVIOUS
<1>3. \E y \in B : \A z \in B : y =< z
  <2>1. CASE c \in 1..MaxBackoff BY <2>1, <1>2
  <2>2. CASE c \notin 1..MaxBackoff BY <2>2, <1>2
  <2> QED BY <2>1, <2>2
<1>4. Backoff(i) = Min(B) BY <1>1, <1>2 DEF Backoff
<1>5. Min(B) \in B BY <1>3 DEF Min
<1> QED BY <1>2, <1>4, <1>5

\* Committing a later clock changes waiting times only.
LEMMA ElapseAlike ==
    ASSUME NEW rows \in [Items -> Rows], NEW s, NEW d \in Nat
    PROVE  /\ Elapse(rows, s, d) \in [Items -> Rows]
           /\ \A k \in Items : Alike(rows[k], Elapse(rows, s, d)[k])
<1> SUFFICES ASSUME NEW k \in Items
             PROVE  Elapse(rows, s, d)[k] \in Rows /\ Alike(rows[k], Elapse(rows, s, d)[k])
  <2>1. Elapse(rows, s, d) = [i \in Items |-> Elapse(rows, s, d)[i]] BY DEF Elapse
  <2> QED BY <2>1
<1>1. CASE rows[k] # NoJob /\ Sender[k] = s
  <2>1. rows[k] \in Job BY <1>1, RowShape
  <2>2. PICK w : w = Max({-1, rows[k].wait - d}) OBVIOUS
  <2>3. w \in Int BY <2>1, <2>2, MaxType DEF Job
  <2>4. Elapse(rows, s, d)[k] = [rows[k] EXCEPT !.wait = w] BY <1>1, <2>2 DEF Elapse
  <2>5. [rows[k] EXCEPT !.wait = w] \in Job /\ Alike(rows[k], [rows[k] EXCEPT !.wait = w])
    BY <2>1, <2>3 DEF Job, Alike, NoJob, JobStates
  <2> QED BY <2>4, <2>5 DEF Rows
<1>2. CASE ~(rows[k] # NoJob /\ Sender[k] = s)
  <2>1. Elapse(rows, s, d)[k] = rows[k] BY <1>2 DEF Elapse
  <2> QED BY <2>1 DEF Alike
<1> QED BY <1>1, <1>2

\* ORDER BY lists a finite set of jobs without repetition.
LEMMA SortedLists ==
    ASSUME NEW S \in SUBSET Items, IsFiniteSet(S), NEW R, NEW q \in Sorted(S, R)
    PROVE  /\ q \in Seq(Items) /\ IsInjective(q) /\ Len(q) = Cardinality(S)
           /\ \A n \in 1..Len(q) : q[n] \in S
<1>1. Cardinality(S) \in Nat BY FS_CardinalityType
<1>2. PICK c : c = Cardinality(S) OBVIOUS
<1>3. q \in [1..c -> S] /\ \A m, n \in 1..c : m # n => q[m] # q[n]
  BY <1>2 DEF Sorted, SetToSeqs
<1>4. q \in Seq(Items) /\ Len(q) = c BY <1>1, <1>2, <1>3
<1> QED BY <1>2, <1>3, <1>4 DEF IsInjective

\* One more outcome of an item.
LEMMA Counted ==
    ASSUME Types, NEW i \in Items PROVE Outcomes(i) \in Nat
<1>1. tally[i] \in [refused : Nat, retained : Nat, unknown : Nat] BY DEF Types
<1> QED BY <1>1 DEF Outcomes

\* One outcome of i leaves the outcomes of every other item as they were.
LEMMA CountsOne ==
    ASSUME Types, NEW i \in Items,
           \/ tally' = [tally EXCEPT ![i].refused = @ + 1]
           \/ tally' = [tally EXCEPT ![i].retained = @ + 1]
           \/ tally' = [tally EXCEPT ![i].unknown = @ + 1]
    PROVE  /\ tally' \in [Items -> [refused : Nat, retained : Nat, unknown : Nat]]
           /\ Outcomes(i)' = Outcomes(i) + 1
           /\ \A k \in Items : k # i => tally'[k] = tally[k]
<1>1. PICK t \in [refused : Nat, retained : Nat, unknown : Nat] : t = tally[i] BY DEF Types
<1>2. PICK u : /\ tally' = [tally EXCEPT ![i] = u]
               /\ \/ u = [t EXCEPT !.refused = @ + 1]
                  \/ u = [t EXCEPT !.retained = @ + 1]
                  \/ u = [t EXCEPT !.unknown = @ + 1]
  BY <1>1
<1>3. /\ u \in [refused : Nat, retained : Nat, unknown : Nat]
      /\ u.refused + u.retained + u.unknown = t.refused + t.retained + t.unknown + 1
  BY <1>2
<1>4. tally'[i] = u /\ \A k \in Items : k # i => tally'[k] = tally[k] BY <1>2 DEF Types
<1> QED BY <1>1, <1>2, <1>3, <1>4 DEF Types, Outcomes

\* One more outage of an item.
LEMMA CountsOutage ==
    ASSUME Types, NEW i \in Items, evidence' = [evidence EXCEPT ![i].outages = @ + 1]
    PROVE  /\ evidence' \in [Items -> [outages : Nat, resumes : Nat, spent : Nat]]
           /\ evidence'[i].spent = evidence[i].spent /\ evidence[i].spent \in Nat
           /\ evidence'[i].outages = evidence[i].outages + 1 /\ evidence[i].outages \in Nat
           /\ \A k \in Items : k # i => evidence'[k] = evidence[k]
<1>1. PICK e \in [outages : Nat, resumes : Nat, spent : Nat] : e = evidence[i]
  BY DEF Types, TypeOK
<1>2. PICK u : u = [e EXCEPT !.outages = @ + 1] OBVIOUS
<1>3. /\ u \in [outages : Nat, resumes : Nat, spent : Nat]
      /\ u.spent = e.spent /\ u.outages = e.outages + 1 /\ e.spent \in Nat /\ e.outages \in Nat
  BY <1>2
<1>4. evidence' = [evidence EXCEPT ![i] = u] BY <1>1, <1>2
<1>5. evidence'[i] = u /\ \A k \in Items : k # i => evidence'[k] = evidence[k]
  BY <1>4 DEF Types, TypeOK
<1> QED BY <1>1, <1>3, <1>4, <1>5 DEF Types, TypeOK

\* A client that hangs up on its request for i.
Hushed(i) == {IF r.item = i THEN [r EXCEPT !.live = FALSE] ELSE r : r \in requests}
LEMMA HangsUp ==
    ASSUME Types, NEW i
    PROVE  /\ Hushed(i) \subseteq [item : Items, live : BOOLEAN]
           /\ \A r \in Hushed(i) : IF r.item = i THEN ~r.live ELSE r \in requests
           /\ \A r \in Hushed(i) : \E p \in requests : p.item = r.item
<1> SUFFICES ASSUME NEW r \in Hushed(i)
             PROVE  /\ r \in [item : Items, live : BOOLEAN]
                    /\ IF r.item = i THEN ~r.live ELSE r \in requests
                    /\ \E p \in requests : p.item = r.item
  OBVIOUS
<1>1. PICK p \in requests : r = IF p.item = i THEN [p EXCEPT !.live = FALSE] ELSE p BY DEF Hushed
<1>2. p \in [item : Items, live : BOOLEAN] BY DEF Types, TypeOK
<1>3. CASE p.item = i BY <1>1, <1>2, <1>3
<1>4. CASE p.item # i BY <1>1, <1>2, <1>4
<1> QED BY <1>3, <1>4

\* The first of a tick's jobs and the others.
LEMMA TailOf ==
    ASSUME NEW b \in Seq(Items), b # <<>>
    PROVE  /\ Head(b) = b[1] /\ b[1] \in Items /\ 1 \in 1..Len(b)
           /\ Tail(b) \in Seq(Items) /\ Len(Tail(b)) = Len(b) - 1
           /\ \A n \in 1..Len(Tail(b)) : Tail(b)[n] = b[n + 1] /\ n + 1 \in 1..Len(b)
OBVIOUS

\* A tick that does not repeat a job does not repeat one later on.
LEMMA TailInjective ==
    ASSUME NEW b \in Seq(Items), b # <<>>, IsInjective(b)
    PROVE  /\ IsInjective(Tail(b))
           /\ \A n \in 1..Len(Tail(b)) : Tail(b)[n] # Head(b)
<1>1. DOMAIN b = 1..Len(b) /\ DOMAIN Tail(b) = 1..Len(Tail(b)) BY TailOf
<1>2. ASSUME NEW m \in 1..Len(Tail(b)), NEW n \in 1..Len(Tail(b)), Tail(b)[m] = Tail(b)[n]
      PROVE  m = n
  <2>1. m + 1 \in 1..Len(b) /\ n + 1 \in 1..Len(b) /\ b[m + 1] = b[n + 1] BY <1>2, TailOf
  <2>2. m + 1 = n + 1 BY <1>1, <2>1 DEF IsInjective
  <2> QED BY <2>2, TailOf
<1>3. ASSUME NEW n \in 1..Len(Tail(b)) PROVE Tail(b)[n] # Head(b)
  <2>1. n + 1 \in 1..Len(b) /\ 1 \in 1..Len(b) /\ Tail(b)[n] = b[n + 1] /\ Head(b) = b[1]
    BY TailOf
  <2>2. n + 1 # 1 BY TailOf
  <2> QED BY <1>1, <2>1, <2>2 DEF IsInjective
<1> QED BY <1>1, <1>2, <1>3 DEF IsInjective

\* The bytes of one more item.
LEMMA OneMore ==
    ASSUME NEW S \in SUBSET Items, Countable(S), NEW i \in Items \ S
    PROVE  /\ Countable(S \cup {i})
           /\ Cardinality(S \cup {i}) = Cardinality(S) + 1
           /\ Bytes(S \cup {i}) = Bytes(S) + Size[i]
           /\ Bytes(S) \in Nat /\ Cardinality(S) \in Nat
<1> DEFINE C == {i} \X (1..Size[i])
<1>1. Size[i] \in Nat OBVIOUS
<1>2. IsFiniteSet(1..Size[i]) /\ Cardinality(1..Size[i]) = Size[i]
  <2>1. PICK z \in Nat : z = Size[i] BY <1>1
  <2>2. 1 \in Int /\ z \in Int BY <2>1
  <2>3. IsFiniteSet(1..z) BY ONLY <2>2, FS_Interval
  <2>4. Cardinality(1..z) = IF 1 > z THEN 0 ELSE z - 1 + 1 BY ONLY <2>2, FS_Interval
  <2>5. Cardinality(1..z) = z BY ONLY <2>4, z \in Nat
  <2> QED BY <2>1, <2>3, <2>5
<1>3. IsFiniteSet({i}) /\ Cardinality({i}) = 1 BY FS_Singleton
<1>4. IsFiniteSet(C) /\ Cardinality(C) = Size[i]
  <2>1. PICK P, T : P = {i} /\ T = 1..Size[i] OBVIOUS
  <2>2. IsFiniteSet(P) /\ IsFiniteSet(T) BY ONLY <1>2, <1>3, <2>1
  <2>3. IsFiniteSet(P \X T) /\ Cardinality(P \X T) = Cardinality(P) * Cardinality(T)
    BY ONLY <2>2, FS_Product
  <2>4. C = P \X T BY <2>1
  <2>5. Cardinality(P) = 1 /\ Cardinality(T) = Size[i] BY ONLY <1>2, <1>3, <2>1
  <2>6. Cardinality(P) * Cardinality(T) = Size[i] BY ONLY <1>1, <2>5
  <2> QED BY ONLY <2>3, <2>4, <2>6
<1>5. Cells(S \cup {i}) = Cells(S) \cup C BY DEF Cells
<1>6. Cells(S) \cap C = {} BY DEF Cells
<1> HIDE DEF C
<1>7. IsFiniteSet(Cells(S)) /\ IsFiniteSet(S) BY DEF Countable
<1>8. /\ IsFiniteSet(Cells(S) \cup C)
      /\ Cardinality(Cells(S) \cup C) = Cardinality(Cells(S)) + Cardinality(C) - Cardinality(Cells(S) \cap C)
  BY <1>4, <1>7, FS_Union
<1>9. Cardinality(Cells(S) \cap C) = 0 BY <1>6, FS_EmptySet
<1>10. Cardinality(Cells(S)) \in Nat /\ Cardinality(S) \in Nat BY <1>7, FS_CardinalityType
<1>11. Bytes(S) = Cardinality(Cells(S)) /\ Bytes(S \cup {i}) = Cardinality(Cells(S \cup {i}))
  BY DEF Bytes, Cells
<1>12. IsFiniteSet(S \cup {i}) /\ Cardinality(S \cup {i}) = Cardinality(S) + 1
  BY <1>7, FS_AddElement
<1>13. Bytes(S \cup {i}) = Bytes(S) + Size[i]
  <2>1. Cardinality(Cells(S) \cup C) = Cardinality(Cells(S)) + Size[i]
    BY ONLY <1>1, <1>4, <1>8, <1>9, <1>10
  <2> QED BY ONLY <1>5, <1>11, <2>1
<1>14. Countable(S \cup {i}) BY <1>5, <1>8, <1>12 DEF Countable
<1> QED BY <1>10, <1>11, <1>12, <1>13, <1>14

-----------------------------------------------------------------------------
(* What a change of rows leaves as it was.                                 *)

\* The rows of a step that touches the item i only, but for waiting times.
Touches(i) == \A k \in Items : k # i => Alike(jobs[k], jobs'[k])

\* No step takes a row away or reopens a retained job.
Lasting ==
    \A k \in Items : /\ jobs'[k] = NoJob <=> jobs[k] = NoJob
                     /\ jobs[k].state = "Retained" => jobs'[k].state = "Retained"

\* A commit sets one row and lets the others age.
LEMMA CommitRow ==
    ASSUME Types, Capped, NEW s \in Senders, NEW i \in Items, NEW row \in Job, Commit(s, i, row)
    PROVE  /\ jobs' \in [Items -> Rows] /\ jobs'[i] = row
           /\ Touches(i)
           /\ queue' \in [Senders -> Seq(Items)]
<1>1. elapsed[s] \in Nat /\ jobs \in [Items -> Rows] BY DEF Types, TypeOK, Rows
<1>2. PICK rows : rows = Elapse(jobs, s, elapsed[s]) OBVIOUS
<1>3. rows \in [Items -> Rows] /\ \A k \in Items : Alike(jobs[k], rows[k])
  BY <1>1, <1>2, ElapseAlike
<1>4. jobs' = [rows EXCEPT ![i] = row] BY <1>2 DEF Commit
<1>5. PICK R : \E q \in Sorted(JobsOf(s), R) : queue' = [queue EXCEPT ![s] = q]
  BY DEF Commit
<1>6. PICK q \in Sorted(JobsOf(s), R) : queue' = [queue EXCEPT ![s] = q] BY <1>5
<1>7. JobsOf(s) \in SUBSET Items /\ IsFiniteSet(JobsOf(s))
  BY DEF Capped, CapOK, Countable, JobsOf
<1>8. q \in Seq(Items) BY <1>6, <1>7, SortedLists
<1>9. queue' \in [Senders -> Seq(Items)] BY <1>6, <1>8 DEF Types
<1>10. jobs' \in [Items -> Rows] /\ jobs'[i] = row /\ \A k \in Items : k # i => jobs'[k] = rows[k]
  BY <1>3, <1>4 DEF Rows
<1> QED BY <1>3, <1>9, <1>10 DEF Touches

\* A step that keeps the jobs keeps the queue within its limits.
LEMMA CapsLast ==
    ASSUME Types, Capped, Lasting PROVE Capped'
<1> SUFFICES ASSUME NEW s \in Senders PROVE CapOK(s)' BY DEF Capped
<1>1. JobsOf(s)' = JobsOf(s) BY DEF JobsOf, Lasting
<1>2. Live(s)' \subseteq Live(s) BY <1>1 DEF Live, Lasting, JobsOf
<1>3. CapOK(s) BY DEF Capped
<1>4. IsFiniteSet(JobsOf(s)) /\ Live(s) \in SUBSET JobsOf(s) BY <1>3 DEF CapOK, Countable, Live
<1>5. IsFiniteSet(Live(s)) BY <1>4, FS_Subset
<1>6. PICK L : L = Live(s)' OBVIOUS
<1>7. Cardinality(L) <= Cardinality(Live(s)) /\ Cardinality(L) \in Nat /\ Cardinality(Live(s)) \in Nat
  BY <1>2, <1>5, <1>6, FS_Subset, FS_CardinalityType
<1>8. Cardinality(Live(s)') <= MaxJobs BY <1>3, <1>6, <1>7 DEF CapOK
<1>9. Countable(JobsOf(s)') /\ Bytes(JobsOf(s)') <= MaxBytes BY <1>1, <1>3 DEF CapOK
<1> QED BY <1>8, <1>9 DEF CapOK, Countable, Cells, Bytes

\* A row that only ages stays readable, and charged as it was.
LEMMA AgedReadable ==
    ASSUME NEW k, Alike(jobs[k], jobs'[k]), evidence'[k] = evidence[k], Readable(k)
    PROVE  Readable(k)'
BY DEF Alike, Readable

\* A job whose counts are the same keeps its charge.
LEMMA AgedCharge ==
    ASSUME NEW k, Alike(jobs[k], jobs'[k]), evidence'[k].spent = evidence[k].spent,
           tally'[k] = tally[k], Due(k)' = Due(k), ChargeOK(k)
    PROVE  ChargeOK(k)'
BY DEF Alike, ChargeOK, Outcomes

\* The tick of a sender whose jobs only age.
LEMMA OthersTick ==
    ASSUME Types, NEW t \in Senders, TickOK(t),
           \A k \in Items : Sender[k] = t => Alike(jobs[k], jobs'[k]),
           pc'[t] = pc[t], batch'[t] = batch[t], prior'[t] = prior[t], reply'[t] = reply[t]
    PROVE  TickOK(t)'
<1>1. batch[t] \in Seq(Items) BY DEF Types
<1>2. ASSUME NEW n \in 1..Len(batch[t]) PROVE Open(batch[t][n], t)'
  <2>1. batch[t][n] \in Items /\ Open(batch[t][n], t) BY <1>1 DEF TickOK
  <2> QED BY <2>1 DEF Open, Alike
<1>3. ASSUME Trying(t)
      PROVE  /\ jobs'[Head(batch[t])].state = "Uncertain"
             /\ jobs'[Head(batch[t])].attempts = prior[t].attempts + 1
  <2>1. batch[t] # <<>> BY <1>3 DEF TickOK
  <2>2. Head(batch[t]) \in Items /\ Open(Head(batch[t]), t) BY <1>1, <2>1, TailOf DEF TickOK
  <2> QED BY <1>3, <2>2 DEF Open, Alike, TickOK
<1> QED BY <1>2, <1>3 DEF TickOK, Trying

\* Two senders have no item in common, so the attempt of one is not due for
\* the items of another.
LEMMA OthersDue ==
    ASSUME NEW k, pc'[Sender[k]] = pc[Sender[k]], batch'[Sender[k]] = batch[Sender[k]]
    PROVE  Due(k)' = Due(k)
BY DEF Due, Trying

\* The traces of an item that nothing happened to.
LEMMA AgedTrace ==
    ASSUME NEW k, Alike(jobs[k], jobs'[k]), TraceOK(k),
           mailbox' = mailbox, requests' = requests,
           pc'[Sender[k]] = pc[Sender[k]], batch'[Sender[k]] = batch[Sender[k]],
           prior'[Sender[k]] = prior[Sender[k]], reply'[Sender[k]] = reply[Sender[k]]
    PROVE  TraceOK(k)'
BY DEF Alike, TraceOK, Unseen, Trying

-----------------------------------------------------------------------------
(* The steps of a tick.                                                    *)

\* What the invariant says of a tick's first job.
LEMMA HeadJob ==
    ASSUME IInv, NEW s \in Senders, batch[s] # <<>>
    PROVE  LET i == Head(batch[s]) IN
           /\ i \in Items /\ Sender[i] = s /\ jobs[i] \in Job
           /\ jobs[i].state \in {"Pending", "Uncertain"}
           /\ jobs[i].uncertain <=> jobs[i].state = "Uncertain"
           /\ jobs[i].attempts \in Nat /\ jobs[i].attempts <= MaxAttempts
           /\ jobs[i].position = 0
           /\ Readable(i) /\ ChargeOK(i) /\ TraceOK(i)
           /\ \A n \in 1..Len(Tail(batch[s])) : Tail(batch[s])[n] # i
<1>1. PICK i : i = Head(batch[s]) OBVIOUS
<1>2. batch[s] \in Seq(Items) /\ jobs \in [Items -> Rows] BY DEF IInv, Types, TypeOK, Rows
<1>3. i = batch[s][1] /\ i \in Items /\ 1 \in 1..Len(batch[s]) BY <1>1, <1>2, TailOf
<1>4. Open(i, s) BY <1>3 DEF IInv, Ticking, TickOK
<1>5. jobs[i] \in Rows BY <1>2, <1>3
<1>6. jobs[i].state # "None" BY <1>4 DEF Open
<1>7. jobs[i] \in Job /\ jobs[i] # NoJob BY <1>5, <1>6, RowShape
<1>8. Readable(i) BY <1>3, <1>7 DEF IInv, AllReadable
<1>9. jobs[i].attempts \in Nat /\ jobs[i].position \in Nat BY <1>7 DEF Job
<1>10. jobs[i].position = 0 /\ (jobs[i].uncertain <=> jobs[i].state = "Uncertain")
       /\ jobs[i].attempts <= MaxAttempts
  BY <1>4, <1>8, <1>9 DEF Readable, Open
<1>11. ChargeOK(i) /\ TraceOK(i) BY <1>3 DEF IInv, Charged, Traceless
<1>12. IsInjective(batch[s]) BY DEF IInv, Ticking, TickOK
<1>13. \A n \in 1..Len(Tail(batch[s])) : Tail(batch[s])[n] # i BY <1>1, <1>2, <1>12, TailInjective
<1> QED BY <1>1, <1>3, <1>4, <1>7, <1>8, <1>9, <1>10, <1>11, <1>13 DEF Open

\* The intent leaves the tick with the attempt it is about to make.
LEMMA IntendKeeps == ASSUME IInv, NEW s \in Senders, Intend(s) PROVE IInv'
<1>0. PICK i : i = Head(batch[s]) OBVIOUS
<1> USE <1>0 DEF IInv
<1>1. batch[s] # <<>> /\ pc[s] = "tick" BY DEF Intend
<1>2. /\ i \in Items /\ Sender[i] = s /\ jobs[i] \in Job /\ jobs[i] # NoJob
      /\ jobs[i].state \in {"Pending", "Uncertain"}
      /\ jobs[i].uncertain <=> jobs[i].state = "Uncertain"
      /\ jobs[i].attempts \in Nat /\ jobs[i].attempts < MaxAttempts
      /\ jobs[i].position = 0
      /\ Readable(i) /\ ChargeOK(i) /\ TraceOK(i)
  BY <1>1, HeadJob, RowShape DEF Intend, Rows
<1> DEFINE row == [jobs[i] EXCEPT !.state = "Uncertain", !.attempts = @ + 1,
                                  !.wait = Backoff(i), !.uncertain = TRUE]
<1>3. Commit(s, i, row) /\ prior' = [prior EXCEPT ![s] = jobs[i]] BY DEF Intend
<1> HIDE DEF row
<1>4. row \in Job /\ row.state = "Uncertain" /\ row.uncertain = TRUE
      /\ row.attempts = jobs[i].attempts + 1 /\ row.position = 0
  <2>1. PICK j \in Job : j = jobs[i] /\ j.position = 0 BY <1>2
  <2>2. PICK w \in Int : w = Backoff(i) BY BackoffType
  <2>3. row = [j EXCEPT !.state = "Uncertain", !.attempts = j.attempts + 1, !.wait = w, !.uncertain = TRUE]
    BY <2>1, <2>2 DEF row
  <2>4. j.attempts \in Nat /\ j.attempts + 1 \in Nat BY <2>1 DEF Job
  <2>5. PICK m \in Nat : m = j.attempts + 1 BY <2>4
  <2>6. row = [state |-> "Uncertain", attempts |-> m, wait |-> w, uncertain |-> TRUE, position |-> 0]
    BY ONLY <2>1, <2>3, <2>5 DEF Job
  <2>7. row \in Job BY ONLY <2>2, <2>5, <2>6 DEF Job, JobStates
  <2> QED BY ONLY <2>1, <2>5, <2>6, <2>7
<1>5. /\ jobs' \in [Items -> Rows] /\ jobs'[i] = row
      /\ Touches(i)
      /\ queue' \in [Senders -> Seq(Items)]
  BY <1>2, <1>3, <1>4, CommitRow
<1>6. /\ pc' = [pc EXCEPT ![s] = "send"] /\ elapsed' = [elapsed EXCEPT ![s] = 0]
      /\ UNCHANGED <<evidence, batch, relayVars, netVars, faults, tally>>
  BY DEF Intend
<1>7. Types'
  BY <1>2, <1>3, <1>5, <1>6 DEF Types, TypeOK, Rows, relayVars, netVars
<1>8. Capped'
  <2>1. Lasting BY <1>2, <1>4, <1>5, RowShape DEF Lasting, Touches, Alike, Rows
  <2> QED BY <2>1, CapsLast
<1>9. AllReadable'
  <2> SUFFICES ASSUME NEW k \in Items, jobs'[k] # NoJob PROVE Readable(k)' BY DEF AllReadable
  <2>1. CASE k = i 
    <3>1. jobs'[i].attempts <= MaxAttempts /\ jobs'[i].attempts # 0
      BY ONLY <1>2, <1>4, <1>5, PolicyAssumption
    <3> QED BY <1>4, <1>5, <2>1, <3>1 DEF Readable
  <2>2. CASE k # i BY <1>5, <1>6, <2>2, AgedReadable DEF Touches, Alike, AllReadable
  <2> QED BY <2>1, <2>2
<1>10. Ticking'
  <2> SUFFICES ASSUME NEW t \in Senders PROVE TickOK(t)' BY DEF Ticking
  <2>1. CASE t = s
    <3>1. TickOK(s) BY DEF Ticking
    <3>2. /\ pc'[s] = "send" /\ batch'[s] = batch[s] /\ prior'[s] = jobs[i] /\ reply'[s] = reply[s]
      BY <1>3, <1>6 DEF Types, TypeOK, netVars
    <3>3. ASSUME NEW n \in 1..Len(batch[s]) PROVE Open(batch[s][n], s)'
      <4>1. batch[s][n] \in Items /\ Open(batch[s][n], s) BY <3>1 DEF TickOK, Types
      <4>2. CASE batch[s][n] = i BY <1>2, <1>4, <1>5, <1>6, <4>2 DEF Open
      <4>3. CASE batch[s][n] # i BY <1>5, <1>6, <4>1, <4>3 DEF Open, Touches, Alike
      <4> QED BY <4>2, <4>3
    <3> QED BY <1>1, <1>2, <1>4, <1>5, <2>1, <3>1, <3>2, <3>3 DEF TickOK, Trying
  <2>2. CASE t # s
    <3>1. TickOK(t) BY DEF Ticking
    <3>2. pc'[t] = pc[t] /\ batch'[t] = batch[t] /\ prior'[t] = prior[t] /\ reply'[t] = reply[t]
      BY <1>3, <1>6, <2>2 DEF Types, TypeOK, netVars
    <3>3. \A k \in Items : Sender[k] = t => Alike(jobs[k], jobs'[k])
      BY <1>2, <1>5, <2>2 DEF Touches
    <3> QED BY <3>1, <3>2, <3>3, OthersTick
  <2> QED BY <2>1, <2>2
<1>11. Wired'
  <2> SUFFICES ASSUME NEW r \in requests PROVE WireOK(r)' BY <1>6 DEF Wired, netVars
  <2>1. WireOK(r) /\ r.item \in Items BY DEF Wired, Types, TypeOK
  <2>2. jobs'[r.item] # NoJob BY <1>4, <1>5, <2>1, RowShape DEF WireOK, Touches, Alike, Rows
  <2>3. r.live => Sender[r.item] # s /\ Sender[r.item] \in Senders BY <1>1, <2>1 DEF WireOK, Listening
  <2>4. r.live => Listening(Sender[r.item], r.item)'
    BY <1>6, <2>1, <2>3 DEF WireOK, Listening, Types, TypeOK, netVars
  <2> QED BY <2>2, <2>4 DEF WireOK
<1>12. Answered' BY <1>6 DEF Answered, ReplyOK, relayVars, netVars
<1>13. RetainedRows'
  <2>1. \A k \in ToSet(mailbox) : jobs'[k] # NoJob
    <3> SUFFICES ASSUME NEW k \in ToSet(mailbox) PROVE jobs'[k] # NoJob OBVIOUS
    <3>1. jobs[k] # NoJob /\ k \in Items BY DEF RetainedRows, ToSet, Types, TypeOK
    <3>2. jobs'[i] # NoJob BY <1>4, <1>5, RowShape DEF Rows
    <3> QED BY <1>5, <3>1, <3>2 DEF Touches, Alike
  <2> QED BY <1>6, <2>1 DEF RetainedRows, relayVars, ChargedTo, Countable, Cells, Bytes, ToSet
<1>14. Traceless'
  <2> SUFFICES ASSUME NEW k \in Items PROVE TraceOK(k)' BY DEF Traceless
  <2>1. CASE k = i
    <3>1. /\ pc'[s] = "send" /\ batch'[s] = batch[s] /\ prior'[s] = jobs[i] /\ reply'[s] = reply[s]
          /\ reply[s] = NoReply /\ mailbox' = mailbox /\ requests' = requests
      BY <1>1, <1>3, <1>6 DEF Types, TypeOK, netVars, relayVars, Ticking, TickOK
    <3> QED BY <1>2, <1>4, <1>5, <2>1, <3>1 DEF TraceOK, Unseen, Trying, NoReply
  <2>2. CASE k # i /\ Sender[k] = s
    <3>1. TraceOK(k) /\ Alike(jobs[k], jobs'[k]) /\ mailbox' = mailbox /\ requests' = requests
          /\ batch' = batch
      BY <1>5, <1>6, <2>2 DEF Traceless, Touches, relayVars, netVars
    <3> QED BY <2>2, <3>1 DEF TraceOK, Unseen, Alike
  <2>3. CASE Sender[k] # s
    <3>1. /\ TraceOK(k) /\ Alike(jobs[k], jobs'[k]) /\ mailbox' = mailbox /\ requests' = requests
          /\ batch' = batch /\ pc'[Sender[k]] = pc[Sender[k]]
          /\ prior'[Sender[k]] = prior[Sender[k]] /\ reply' = reply
      BY <1>2, <1>3, <1>5, <1>6, <2>3 DEF Traceless, Touches, relayVars, netVars, Types, TypeOK
    <3> QED BY <3>1, AgedTrace
  <2> QED BY <2>1, <2>2, <2>3
<1>15. RetainedIsHeld'
  <2> SUFFICES ASSUME NEW k \in Items, jobs'[k] # NoJob, jobs'[k].state = "Retained"
               PROVE  /\ jobs[k] # NoJob /\ jobs[k].state = "Retained"
                      /\ jobs'[k].position = jobs[k].position /\ mailbox' = mailbox
    BY DEF RetainedIsHeld
  <2>1. k # i BY <1>4, <1>5
  <2> QED BY <1>5, <1>6, <2>1 DEF Touches, Alike, relayVars
<1>16. Charged'
  <2> SUFFICES ASSUME NEW k \in Items PROVE ChargeOK(k)' BY DEF Charged
  <2>1. CASE k = i
    <3>1. Due(i) = 0 /\ Due(i)' = 1
      BY <1>1, <1>2, <1>6 DEF Due, Trying, Types, TypeOK
    <3>2. evidence[i].spent \in Nat /\ Outcomes(i) \in Nat BY <1>2, Counted DEF Types, TypeOK
    <3>3. /\ jobs'[i].attempts = jobs[i].attempts + 1 /\ evidence' = evidence /\ tally' = tally
          /\ jobs[i].attempts + evidence[i].spent = Outcomes(i) + 0
      BY <1>2, <1>4, <1>5, <1>6, <3>1 DEF ChargeOK
    <3>4. jobs[i].attempts + 1 + evidence[i].spent = Outcomes(i) + 1 BY ONLY <1>2, <3>2, <3>3
    <3>5. (jobs[i].attempts + evidence[i].spent = Outcomes(i) + Due(i))'
      BY <1>6, <3>1, <3>3, <3>4 DEF Outcomes
    <3> QED BY <2>1, <3>5 DEF ChargeOK
  <2>2. CASE k # i
    <3>1. Due(k)' = Due(k)
      <4>1. CASE Sender[k] = s BY <1>1, <1>6, <2>2, <4>1 DEF Due, Trying, Types, TypeOK
      <4>2. CASE Sender[k] # s BY <1>6, <4>2, OthersDue DEF Types, TypeOK
      <4> QED BY <4>1, <4>2
    <3>2. Alike(jobs[k], jobs'[k]) /\ ChargeOK(k) /\ evidence' = evidence /\ tally' = tally
      BY <1>5, <1>6, <2>2 DEF Charged, Touches
    <3> QED BY <3>1, <3>2, AgedCharge
  <2> QED BY <2>1, <2>2
<1> QED BY <1>7, <1>8, <1>9, <1>10, <1>11, <1>12, <1>13, <1>14, <1>15, <1>16

\* A step that takes the first job i out of a tick, with a row of its own, and
\* goes on with the rest of the tick.
Settles(s, i) ==
    /\ jobs' \in [Items -> Rows] /\ jobs'[i] \in Job /\ Touches(i)
    /\ pc'[s] = "tick" /\ reply'[s] = NoReply /\ batch'[s] \in {Tail(batch[s]), <<>>}
    /\ \A t \in Senders : t # s =>
         /\ pc'[t] = pc[t] /\ reply'[t] = reply[t]
         /\ batch'[t] = batch[t] /\ prior'[t] = prior[t]
    /\ \A r \in requests' : IF r.item = i THEN ~r.live ELSE r \in requests
    /\ \A k \in Items : k # i => evidence'[k] = evidence[k] /\ tally'[k] = tally[k]
    /\ UNCHANGED relayVars

\* The tick goes on to its next job once the attempt at i is settled.
LEMMA SettleKeeps ==
    ASSUME IInv, NEW s \in Senders, NEW i, batch[s] # <<>>, i = Head(batch[s]), Settles(s, i),
           Types', Readable(i)', TraceOK(i)', ChargeOK(i)',
           jobs'[i].state = "Retained" =>
             jobs'[i].position \in DOMAIN mailbox /\ mailbox[jobs'[i].position] = i
    PROVE  IInv'
<1> USE DEF IInv
<1>1. /\ i \in Items /\ Sender[i] = s /\ jobs[i] \in Job /\ jobs[i] # NoJob
      /\ jobs[i].state \in {"Pending", "Uncertain"}
      /\ \A n \in 1..Len(Tail(batch[s])) : Tail(batch[s])[n] # i
  BY HeadJob, RowShape DEF Rows
<1>2. jobs'[i] # NoJob BY RowShape DEF Settles, Rows
<1>3. ASSUME NEW k \in Items, k # i
      PROVE  /\ Alike(jobs[k], jobs'[k]) /\ evidence'[k] = evidence[k] /\ tally'[k] = tally[k]
             /\ Sender[k] \in Senders
  BY <1>3 DEF Settles, Touches
<1>4. mailbox' = mailbox /\ charge' = charge BY DEF Settles, relayVars
<1>5. Capped'
  <2>1. Lasting BY <1>1, <1>2, <1>3 DEF Lasting, Alike
  <2> QED BY <2>1, CapsLast
<1>6. AllReadable'
  <2> SUFFICES ASSUME NEW k \in Items, k # i, jobs'[k] # NoJob PROVE Readable(k)' BY DEF AllReadable
  <2>1. Readable(k) BY <1>3 DEF AllReadable, Alike
  <2> QED BY <1>3, <2>1, AgedReadable
<1>7. Ticking'
  <2> SUFFICES ASSUME NEW t \in Senders PROVE TickOK(t)' BY DEF Ticking
  <2>1. CASE t = s
    <3>1. TickOK(s) /\ batch[s] \in Seq(Items) BY DEF Ticking, Types
    <3>2. PICK b : b = batch'[s] OBVIOUS
    <3>0. b = Tail(batch[s]) \/ b = <<>> BY <3>2 DEF Settles
    <3>3. IsInjective(b)
      <4>1. IsInjective(Tail(batch[s])) BY <3>1, TailInjective DEF TickOK
      <4>2. IsInjective(<<>>) BY DEF IsInjective
      <4> QED BY <3>0, <4>1, <4>2
    <3>4. ASSUME NEW n \in 1..Len(b) PROVE Open(b[n], s)'
      <4>1. b = Tail(batch[s]) BY <3>0, <3>4
      <4>2. b[n] = batch[s][n + 1] /\ n + 1 \in 1..Len(batch[s]) /\ b[n] # i
        BY <1>1, <3>1, <4>1, TailOf
      <4>3. Open(b[n], s) /\ b[n] \in Items BY <3>1, <4>2 DEF TickOK
      <4> QED BY <1>3, <4>2, <4>3 DEF Open, Alike
    <3> QED BY <2>1, <3>2, <3>3, <3>4 DEF TickOK, Trying, Settles
  <2>2. CASE t # s
    <3>1. \A k \in Items : Sender[k] = t => Alike(jobs[k], jobs'[k]) BY <1>1, <1>3, <2>2
    <3> QED BY <2>2, <3>1, OthersTick DEF Settles, Ticking
  <2> QED BY <2>1, <2>2
<1>8. Wired'
  <2> SUFFICES ASSUME NEW r \in requests' PROVE WireOK(r)' BY DEF Wired
  <2>1. CASE r.item = i BY <1>2, <2>1 DEF WireOK, Settles
  <2>2. CASE r.item # i
    <3>1. r \in requests /\ WireOK(r) /\ r.item \in Items BY <2>2 DEF Settles, Wired, Types, TypeOK
    <3>2. jobs'[r.item] # NoJob BY <1>3, <2>2, <3>1 DEF WireOK, Alike
    <3>3. ASSUME r.live PROVE Listening(Sender[r.item], r.item)'
      <4>1. PICK t \in Senders : t = Sender[r.item] BY <1>3, <2>2, <3>1
      <4>2. Listening(t, r.item) BY <3>1, <3>3, <4>1 DEF WireOK
      <4>3. t # s BY <2>2, <4>2 DEF Listening
      <4> QED BY <4>1, <4>2, <4>3 DEF Settles, Listening
    <3> QED BY <3>2, <3>3 DEF WireOK
  <2> QED BY <2>1, <2>2
<1>9. Answered'
  <2> SUFFICES ASSUME NEW t \in Senders PROVE ReplyOK(t)' BY DEF Answered
  <2>1. CASE t = s BY <2>1 DEF ReplyOK, Settles, NoReply
  <2>2. CASE t # s BY <1>4, <2>2 DEF ReplyOK, Settles, Answered
  <2> QED BY <2>1, <2>2
<1>10. RetainedRows'
  <2>1. \A k \in ToSet(mailbox) : jobs'[k] # NoJob
    <3> SUFFICES ASSUME NEW k \in ToSet(mailbox), k # i PROVE jobs'[k] # NoJob BY <1>2
    <3>1. jobs[k] # NoJob /\ k \in Items BY DEF RetainedRows, ToSet, Types, TypeOK
    <3> QED BY <1>3, <3>1 DEF Alike
  <2> QED BY <1>4, <2>1 DEF RetainedRows, ChargedTo, Countable, Cells, Bytes, ToSet
<1>11. Traceless'
  <2> SUFFICES ASSUME NEW k \in Items, k # i PROVE TraceOK(k)' BY DEF Traceless
  <2>1. TraceOK(k) BY DEF Traceless
  <2>2. Unseen(k) => Unseen(k)' BY <1>4 DEF Unseen, Settles
  <2>3. CASE Sender[k] = s BY <1>3, <2>1, <2>2, <2>3 DEF TraceOK, Alike, Trying, Settles
  <2>4. CASE Sender[k] # s
    <3>1. PICK t \in Senders : t = Sender[k] /\ t # s BY <1>3, <2>4
    <3>2. pc'[t] = pc[t] /\ reply'[t] = reply[t] /\ batch'[t] = batch[t] /\ prior'[t] = prior[t]
      BY <3>1 DEF Settles
    <3>3. \A r \in requests' : r.item = k => r \in requests BY DEF Settles
    <3> QED BY <1>3, <1>4, <2>1, <2>2, <3>1, <3>2, <3>3 DEF TraceOK, Alike, Trying
  <2> QED BY <2>3, <2>4
<1>12. RetainedIsHeld'
  <2> SUFFICES ASSUME NEW k \in Items, k # i, jobs'[k] # NoJob, jobs'[k].state = "Retained"
               PROVE  /\ jobs[k] # NoJob /\ jobs[k].state = "Retained"
                      /\ jobs'[k].position = jobs[k].position
    BY <1>4 DEF RetainedIsHeld
  <2> QED BY <1>3 DEF Alike
<1>13. Charged'
  <2> SUFFICES ASSUME NEW k \in Items, k # i PROVE ChargeOK(k)' BY DEF Charged
  <2>1. Due(k)' = Due(k)
    <3>1. CASE Sender[k] = s BY <3>1 DEF Due, Trying, Settles
    <3>2. CASE Sender[k] # s BY <1>3, <3>2, OthersDue DEF Settles
    <3> QED BY <3>1, <3>2
  <2>2. ChargeOK(k) BY DEF Charged
  <2> QED BY <1>3, <2>1, <2>2, AgedCharge
<1> QED BY <1>5, <1>6, <1>7, <1>8, <1>9, <1>10, <1>11, <1>12, <1>13

\* What the invariant says of the attempt in progress.
LEMMA OpenAttempt ==
    ASSUME IInv, NEW s \in Senders, Trying(s)
    PROVE  LET i == Head(batch[s]) IN
           /\ batch[s] # <<>>
           /\ jobs[i].state = "Uncertain" /\ jobs[i].uncertain = TRUE
           /\ prior[s] \in Job /\ prior[s].state \in {"Pending", "Uncertain"}
           /\ prior[s].attempts \in Nat /\ jobs[i].attempts = prior[s].attempts + 1
           /\ jobs[i].attempts <= MaxAttempts /\ jobs[i].position = 0
           /\ prior[s].uncertain \in BOOLEAN
           /\ jobs[i].attempts + evidence[i].spent = Outcomes(i) + 1
<1>0. PICK i : i = Head(batch[s]) OBVIOUS
<1>1. /\ batch[s] # <<>> /\ prior[s].state \in {"Pending", "Uncertain"}
      /\ jobs[i].state = "Uncertain" /\ jobs[i].attempts = prior[s].attempts + 1
  BY <1>0 DEF IInv, Ticking, TickOK
<1>2. /\ jobs[i] \in Job /\ jobs[i].position = 0 /\ jobs[i].attempts <= MaxAttempts
      /\ jobs[i].uncertain <=> jobs[i].state = "Uncertain"
      /\ i \in Items /\ Sender[i] = s /\ ChargeOK(i)
  BY <1>0, <1>1, HeadJob
<1>3. jobs[i].uncertain = TRUE BY <1>1, <1>2 DEF Job
<1>4. prior[s] \in Rows BY DEF IInv, Types
<1>5. prior[s] \in Job /\ prior[s].attempts \in Nat /\ prior[s].uncertain \in BOOLEAN
  BY <1>1, <1>4, RowShape
<1>6. Due(i) = 1 BY <1>0, <1>2 DEF Due
<1>7. jobs[i] # NoJob BY <1>2, RowShape DEF Rows
<1>8. jobs[i].attempts + evidence[i].spent = Outcomes(i) + 1
  BY <1>2, <1>6, <1>7 DEF ChargeOK
<1> QED BY <1>0, <1>1, <1>2, <1>3, <1>5, <1>8

\* While an attempt is not on the wire, or is answered, no client listens for it.
LEMMA NobodyListens ==
    ASSUME IInv, NEW s \in Senders, pc[s] # "await" \/ reply[s] # NoReply,
           NEW r \in requests, Sender[r.item] = s
    PROVE  ~r.live
BY DEF IInv, Wired, WireOK, Listening

\* A job without attempts left is stopped without having been sent again.
LEMMA ExhaustKeeps == ASSUME IInv, NEW s \in Senders, Exhaust(s) PROVE IInv'
<1>0. PICK i : i = Head(batch[s]) OBVIOUS
<1> USE <1>0
<1>1. batch[s] # <<>> /\ pc[s] = "tick" BY DEF Exhaust
<1>2. /\ i \in Items /\ Sender[i] = s /\ jobs[i] \in Job /\ jobs[i].state \in {"Pending", "Uncertain"}
      /\ jobs[i].uncertain <=> jobs[i].state = "Uncertain"
      /\ jobs[i].attempts \in Nat /\ jobs[i].attempts <= MaxAttempts /\ jobs[i].position = 0
      /\ ChargeOK(i) /\ TraceOK(i)
  BY <1>1, HeadJob
<1>3. jobs[i].attempts >= MaxAttempts BY DEF Exhaust
<1>4. PICK rows : rows = Elapse(jobs, s, elapsed[s]) OBVIOUS
<1>5. rows \in [Items -> Rows] /\ \A k \in Items : Alike(jobs[k], rows[k])
  BY <1>4, ElapseAlike DEF IInv, Types, TypeOK, Rows
<1>6. jobs' = [rows EXCEPT ![i].state = "Stopped"] BY <1>4 DEF Exhaust
<1>7. PICK j : j = rows[i] OBVIOUS
<1>8. j \in Job /\ Alike(jobs[i], j) BY <1>2, <1>5, <1>7, RowShape DEF Alike, Rows
<1>9. PICK row : row = [j EXCEPT !.state = "Stopped"] OBVIOUS
<1>10. /\ row \in Job /\ row.state = "Stopped" /\ row.attempts = jobs[i].attempts
       /\ row.uncertain = jobs[i].uncertain /\ row.position = 0
  BY <1>2, <1>8, <1>9 DEF Job, JobStates, Alike
<1>11. jobs' = [rows EXCEPT ![i] = row] BY <1>2, <1>5, <1>6, <1>7, <1>9
<1>12. /\ jobs' \in [Items -> Rows] /\ jobs'[i] = row
       /\ \A k \in Items : k # i => jobs'[k] = rows[k]
  BY <1>2, <1>5, <1>10, <1>11 DEF Rows
<1>13. Touches(i) BY <1>5, <1>12 DEF Touches
<1>14. /\ batch' = [batch EXCEPT ![s] = Tail(@)] /\ elapsed' = [elapsed EXCEPT ![s] = 0]
       /\ UNCHANGED <<evidence, queue, pc, prior, relayVars, netVars, faults, tally>>
  BY DEF Exhaust
<1>15. Types'
  <2>1. Tail(batch[s]) \in Seq(Items) BY <1>1, TailOf DEF IInv, Types
  <2> QED BY <1>12, <1>14, <2>1 DEF IInv, Types, TypeOK, Rows, relayVars, netVars
<1>16. Settles(s, i)
  <2>1. \A r \in requests : r.item = i => ~r.live BY <1>1, <1>2, NobodyListens
  <2>2. reply[s] = NoReply BY <1>1 DEF IInv, Ticking, TickOK
  <2> QED BY <1>1, <1>10, <1>12, <1>13, <1>14, <2>1, <2>2 DEF Settles, IInv, Types, netVars
<1>17. Readable(i)'
  <2>1. jobs'[i].attempts <= MaxAttempts /\ jobs'[i].attempts # 0
    BY ONLY <1>2, <1>3, <1>10, <1>12, PolicyAssumption
  <2> QED BY <1>10, <1>12, <2>1 DEF Readable
<1>18. Unseen(i) => Unseen(i)' BY <1>14 DEF Unseen, relayVars, netVars
<1>19. TraceOK(i)' BY <1>1, <1>2, <1>10, <1>12, <1>14, <1>18 DEF TraceOK, Trying
<1>20. ChargeOK(i)'
  <2>1. Due(i) = 0 /\ Due(i)' = 0 BY <1>1, <1>2, <1>14 DEF Due, Trying
  <2>2. jobs[i] # NoJob BY <1>2, RowShape DEF Rows
  <2> QED BY <1>2, <1>10, <1>12, <1>14, <2>1, <2>2 DEF ChargeOK, Outcomes
<1>21. jobs'[i].state # "Retained" BY <1>10, <1>12
<1> QED BY <1>1, <1>15, <1>16, <1>17, <1>19, <1>20, <1>21, SettleKeeps

\* A checked receipt.
LEMMA ReceiptKeeps == ASSUME IInv, NEW s \in Senders, Receipt(s) PROVE IInv'
<1>0. PICK i : i = Head(batch[s]) OBVIOUS
<1> USE <1>0
<1>1. pc[s] = "await" /\ reply[s].result = "Ok" /\ Trying(s) BY DEF Receipt, Trying
<1>2. /\ batch[s] # <<>> /\ jobs[i].attempts <= MaxAttempts
      /\ prior[s].attempts \in Nat /\ jobs[i].attempts = prior[s].attempts + 1
      /\ jobs[i].attempts + evidence[i].spent = Outcomes(i) + 1
  BY <1>1, OpenAttempt
<1>3. i \in Items /\ Sender[i] = s /\ jobs[i] \in Job BY <1>2, HeadJob
<1>4. PICK n \in Nat : n = reply[s].position BY DEF IInv, Types, Replies
<1>5. n \in DOMAIN mailbox /\ mailbox[n] = i BY <1>1, <1>4 DEF IInv, Answered, ReplyOK
<1>6. n # 0 BY <1>5 DEF IInv, Types, TypeOK
<1>7. PICK row : row = [jobs[i] EXCEPT !.state = "Retained", !.uncertain = FALSE, !.position = n]
  OBVIOUS
<1>8. /\ row \in Job /\ row.state = "Retained" /\ row.uncertain = FALSE /\ row.position = n
      /\ row.attempts = jobs[i].attempts
  BY <1>3, <1>7 DEF Job, JobStates
<1>9. Commit(s, i, row) BY <1>4, <1>7 DEF Receipt
<1>10. /\ jobs' \in [Items -> Rows] /\ jobs'[i] = row /\ Touches(i)
       /\ queue' \in [Senders -> Seq(Items)]
  BY <1>3, <1>8, <1>9, CommitRow DEF IInv
<1>11. /\ batch' = [batch EXCEPT ![s] = Tail(batch[s])] /\ pc' = [pc EXCEPT ![s] = "tick"]
       /\ reply' = [reply EXCEPT ![s] = NoReply] /\ prior' = [prior EXCEPT ![s] = NoJob]
       /\ tally' = [tally EXCEPT ![i].retained = @ + 1]
       /\ UNCHANGED <<elapsed, relayVars, evidence, requests, faults>>
  BY DEF Receipt, Resolve
<1>12. Types'
  <2>1. Tail(batch[s]) \in Seq(Items) BY <1>2, TailOf DEF IInv, Types
  <2>2. NoReply \in Replies BY DEF NoReply, Replies
  <2>3. tally' \in [Items -> [refused : Nat, retained : Nat, unknown : Nat]]
    BY <1>3, <1>11, CountsOne DEF IInv
  <2> QED BY <1>10, <1>11, <2>1, <2>2, <2>3 DEF IInv, Types, TypeOK, Rows, relayVars
<1>13. Settles(s, i)
  <2>1. \A r \in requests : r.item = i => ~r.live
    BY <1>1, <1>3, NobodyListens DEF NoReply
  <2>2. \A k \in Items : k # i => evidence'[k] = evidence[k] /\ tally'[k] = tally[k]
    BY <1>3, <1>11, CountsOne DEF IInv
  <2> QED BY <1>8, <1>10, <1>11, <2>1, <2>2 DEF Settles, IInv, Types, TypeOK
<1>14. Readable(i)'
  <2>1. jobs'[i].attempts <= MaxAttempts /\ jobs'[i].attempts # 0
    BY ONLY <1>2, <1>8, <1>10, PolicyAssumption
  <2> QED BY <1>6, <1>8, <1>10, <2>1 DEF Readable
<1>15. TraceOK(i)'
  BY <1>3, <1>8, <1>10, <1>11 DEF TraceOK, Trying, IInv, Types, TypeOK
<1>16. ChargeOK(i)'
  <2>1. Due(i)' = 0 BY <1>3, <1>11 DEF Due, Trying, IInv, Types, TypeOK
  <2>2. Outcomes(i)' = Outcomes(i) + 1 /\ Outcomes(i) \in Nat
    BY <1>3, <1>11, CountsOne, Counted DEF IInv
  <2>3. (jobs[i].attempts + evidence[i].spent = Outcomes(i) + Due(i))'
    BY <1>2, <1>8, <1>10, <1>11, <2>1, <2>2
  <2> QED BY <2>3 DEF ChargeOK
<1>17. jobs'[i].position \in DOMAIN mailbox /\ mailbox[jobs'[i].position] = i
  BY <1>5, <1>8, <1>10
<1> QED BY <1>2, <1>12, <1>13, <1>14, <1>15, <1>16, <1>17, SettleKeeps

\* A refusal.  What it says of the item's certainty is what the row said before.
LEMMA RefusedKeeps == ASSUME IInv, NEW s \in Senders, Refused(s) PROVE IInv'
<1>0. PICK i : i = Head(batch[s]) OBVIOUS
<1> USE <1>0
<1>1. pc[s] = "await" /\ reply[s].result \in Refusals /\ Trying(s) BY DEF Refused, Trying
<1>2. /\ batch[s] # <<>> /\ jobs[i].attempts <= MaxAttempts /\ jobs[i].position = 0
      /\ prior[s].uncertain \in BOOLEAN
      /\ prior[s].attempts \in Nat /\ jobs[i].attempts = prior[s].attempts + 1
      /\ jobs[i].attempts + evidence[i].spent = Outcomes(i) + 1
  BY <1>1, OpenAttempt
<1>3. i \in Items /\ Sender[i] = s /\ jobs[i] \in Job /\ TraceOK(i) BY <1>2, HeadJob
<1>4. PICK row : row = AfterRefusal(jobs[i], prior[s], reply[s].result) OBVIOUS
<1>5. /\ row \in Job /\ row.state \in {"Pending", "Uncertain", "Stopped"}
      /\ row.uncertain = prior[s].uncertain /\ row.position = 0
      /\ row.attempts = jobs[i].attempts
      /\ row.state = "Uncertain" => row.uncertain = TRUE
      /\ row.state = "Pending" => row.uncertain = FALSE
  BY <1>2, <1>3, <1>4 DEF Job, JobStates, AfterRefusal
<1>6. Commit(s, i, row) BY <1>4 DEF Refused
<1>7. /\ jobs' \in [Items -> Rows] /\ jobs'[i] = row /\ Touches(i)
      /\ queue' \in [Senders -> Seq(Items)]
  BY <1>3, <1>5, <1>6, CommitRow DEF IInv
<1>8. PICK b \in {Tail(batch[s]), <<>>} : batch' = [batch EXCEPT ![s] = b]
  BY DEF Refused, Resolve
<1>9. /\ pc' = [pc EXCEPT ![s] = "tick"]
      /\ reply' = [reply EXCEPT ![s] = NoReply] /\ prior' = [prior EXCEPT ![s] = NoJob]
      /\ tally' = [tally EXCEPT ![i].refused = @ + 1]
      /\ UNCHANGED <<elapsed, relayVars, evidence, requests, faults>>
  BY DEF Refused, Resolve
<1>10. Types'
  <2>1. b \in Seq(Items)
    <3>1. Tail(batch[s]) \in Seq(Items) /\ <<>> \in Seq(Items) BY <1>2, TailOf DEF IInv, Types
    <3> QED BY <3>1
  <2>2. NoReply \in Replies BY DEF NoReply, Replies
  <2>3. tally' \in [Items -> [refused : Nat, retained : Nat, unknown : Nat]]
    BY <1>3, <1>9, CountsOne DEF IInv
  <2> QED BY <1>7, <1>8, <1>9, <2>1, <2>2, <2>3 DEF IInv, Types, TypeOK, Rows, relayVars
<1>11. Settles(s, i)
  <2>1. \A r \in requests : r.item = i => ~r.live
    BY <1>1, <1>3, NobodyListens DEF NoReply, Refusals, Permanent
  <2>2. \A k \in Items : k # i => evidence'[k] = evidence[k] /\ tally'[k] = tally[k]
    BY <1>3, <1>9, CountsOne DEF IInv
  <2> QED BY <1>5, <1>7, <1>8, <1>9, <2>1, <2>2 DEF Settles, IInv, Types, TypeOK
<1>12. Readable(i)'
  <2>1. jobs'[i].attempts <= MaxAttempts /\ jobs'[i].attempts # 0
    BY ONLY <1>2, <1>5, <1>7, PolicyAssumption
  <2> QED BY <1>5, <1>7, <2>1 DEF Readable
<1>13. TraceOK(i)'
  <2>1. Unseen(i) => Unseen(i)' BY <1>9 DEF Unseen, relayVars
  <2>2. pc'[s] = "tick" BY <1>9 DEF IInv, Types, TypeOK
  <2>3. Sender[i] \notin Quic /\ ~prior[s].uncertain => Unseen(i) BY <1>1, <1>3 DEF TraceOK
  <2> QED BY <1>3, <1>5, <1>7, <2>1, <2>2, <2>3 DEF TraceOK, Trying
<1>14. ChargeOK(i)'
  <2>1. Due(i)' = 0 BY <1>3, <1>9 DEF Due, Trying, IInv, Types, TypeOK
  <2>2. Outcomes(i)' = Outcomes(i) + 1 /\ Outcomes(i) \in Nat
    BY <1>3, <1>9, CountsOne, Counted DEF IInv
  <2>3. (jobs[i].attempts + evidence[i].spent = Outcomes(i) + Due(i))'
    BY <1>2, <1>5, <1>7, <1>9, <2>1, <2>2
  <2> QED BY <2>3 DEF ChargeOK
<1>15. jobs'[i].state # "Retained" BY <1>5, <1>7
<1> QED BY <1>2, <1>10, <1>11, <1>12, <1>13, <1>14, <1>15, SettleKeeps

\* An outage takes the charge back and leaves the outcome unknown.
LEMMA OutageKeeps == ASSUME IInv, NEW s \in Senders, Outage(s) PROVE IInv'
<1>0. PICK i : i = Head(batch[s]) OBVIOUS
<1> USE <1>0
<1>1. pc[s] = "await" /\ Trying(s) BY DEF Outage, Trying
<1>2. /\ batch[s] # <<>> /\ jobs[i].attempts <= MaxAttempts /\ jobs[i].position = 0
      /\ prior[s].attempts \in Nat /\ jobs[i].attempts = prior[s].attempts + 1
      /\ jobs[i].attempts + evidence[i].spent = Outcomes(i) + 1
  BY <1>1, OpenAttempt
<1>3. i \in Items /\ Sender[i] = s /\ jobs[i] \in Job BY <1>2, HeadJob
<1>4. PICK a \in Nat : a = prior[s].attempts BY <1>2
<1>5. PICK row : row = [jobs[i] EXCEPT !.state = "Uncertain", !.uncertain = TRUE, !.attempts = a]
  OBVIOUS
<1>6. /\ row \in Job /\ row.state = "Uncertain" /\ row.uncertain = TRUE /\ row.position = 0
      /\ row.attempts = a
  BY <1>2, <1>3, <1>5 DEF Job, JobStates
<1>7. Commit(s, i, row) BY <1>4, <1>5 DEF Outage
<1>8. /\ jobs' \in [Items -> Rows] /\ jobs'[i] = row /\ Touches(i)
      /\ queue' \in [Senders -> Seq(Items)]
  BY <1>3, <1>6, <1>7, CommitRow DEF IInv
<1>9. /\ batch' = [batch EXCEPT ![s] = Tail(batch[s])] /\ pc' = [pc EXCEPT ![s] = "tick"]
      /\ reply' = [reply EXCEPT ![s] = NoReply] /\ prior' = [prior EXCEPT ![s] = NoJob]
      /\ evidence' = [evidence EXCEPT ![i].outages = @ + 1]
      /\ faults < MaxFaults /\ faults' = faults + 1
      /\ UNCHANGED <<elapsed, relayVars, tally>>
  BY DEF Outage, Resolve
<1>10. requests' = {IF r.item = i THEN [r EXCEPT !.live = FALSE] ELSE r : r \in requests}
  BY DEF Outage
<1>11. /\ \A r \in requests' : IF r.item = i THEN ~r.live ELSE r \in requests
       /\ requests' \subseteq [item : Items, live : BOOLEAN]
  <2>1. Types BY DEF IInv
  <2>2. requests' = Hushed(i) BY <1>10 DEF Hushed
  <2>3. /\ \A r \in Hushed(i) : IF r.item = i THEN ~r.live ELSE r \in requests
        /\ Hushed(i) \subseteq [item : Items, live : BOOLEAN]
    BY ONLY <2>1, HangsUp
  <2> QED BY ONLY <2>2, <2>3
<1>12. /\ evidence' \in [Items -> [outages : Nat, resumes : Nat, spent : Nat]]
       /\ evidence'[i].spent = evidence[i].spent /\ evidence[i].spent \in Nat
       /\ evidence'[i].outages = evidence[i].outages + 1 /\ evidence[i].outages \in Nat
  BY <1>3, <1>9, CountsOutage DEF IInv
<1>13. Types'
  <2>1. Tail(batch[s]) \in Seq(Items) BY <1>2, TailOf DEF IInv, Types
  <2>2. NoReply \in Replies BY DEF NoReply, Replies
  <2>3. faults' \in 0..MaxFaults BY <1>9 DEF IInv, Types, TypeOK
  <2> QED BY <1>8, <1>9, <1>11, <1>12, <2>1, <2>2, <2>3 DEF IInv, Types, TypeOK, Rows, relayVars
<1>14. Settles(s, i)
  <2>1. \A k \in Items : k # i => evidence'[k] = evidence[k] /\ tally'[k] = tally[k]
    BY <1>3, <1>9, CountsOutage DEF IInv
  <2> QED BY <1>6, <1>8, <1>9, <1>11, <2>1 DEF Settles, IInv, Types, TypeOK
<1>15. Readable(i)'
  <2>1. jobs'[i].attempts <= MaxAttempts BY ONLY <1>2, <1>4, <1>6, <1>8, PolicyAssumption
  <2>2. evidence'[i] # NoEvidence
    <3>1. evidence'[i].outages # 0 BY ONLY <1>12
    <3> QED BY <3>1 DEF NoEvidence
  <2> QED BY <1>6, <1>8, <2>1, <2>2 DEF Readable
<1>16. TraceOK(i)'
  BY <1>3, <1>6, <1>8, <1>9 DEF TraceOK, Trying, IInv, Types, TypeOK
<1>17. ChargeOK(i)'
  <2>1. Due(i)' = 0 BY <1>3, <1>9 DEF Due, Trying, IInv, Types, TypeOK
  <2>2. Outcomes(i)' = Outcomes(i) /\ Outcomes(i) \in Nat BY <1>3, <1>9, Counted DEF Outcomes, IInv
  <2>3. a + evidence[i].spent = Outcomes(i) + 0 
    <3>1. PICK o \in Nat : o = Outcomes(i) BY <2>2
    <3>2. PICK e \in Nat : e = evidence[i].spent BY <1>12
    <3>3. a + 1 + e = o + 1 BY <1>2, <1>4, <3>1, <3>2
    <3>4. a + e = o BY ONLY <3>3, a \in Nat, e \in Nat, o \in Nat
    <3> QED BY <3>1, <3>2, <3>4
  <2>4. (jobs[i].attempts + evidence[i].spent = Outcomes(i) + Due(i))'
    BY <1>6, <1>8, <1>12, <2>1, <2>2, <2>3
  <2> QED BY <2>4 DEF ChargeOK
<1>18. jobs'[i].state # "Retained" BY <1>6, <1>8
<1> QED BY <1>2, <1>13, <1>14, <1>15, <1>16, <1>17, <1>18, SettleKeeps

-----------------------------------------------------------------------------
(* Steps that leave every row as it is.                                    *)

\* What depends on rows and evidence alone.
LEMMA RowsKeep ==
    ASSUME IInv, jobs' = jobs, evidence' = evidence
    PROVE  /\ Capped' /\ AllReadable'
           /\ \A k \in Items : Alike(jobs[k], jobs'[k])
<1>1. \A k \in Items : Alike(jobs[k], jobs'[k]) BY DEF Alike
<1>2. Capped' BY CapsLast DEF Lasting, IInv
<1>3. AllReadable' BY DEF AllReadable, Readable, IInv
<1> QED BY <1>1, <1>2, <1>3

\* What depends on the mailbox and the ledger as well.
LEMMA StoreKeeps ==
    ASSUME IInv, jobs' = jobs, mailbox' = mailbox, charge' = charge
    PROVE  RetainedRows' /\ RetainedIsHeld'
<1>1. RetainedIsHeld' BY DEF IInv, RetainedIsHeld
<1>2. ASSUME NEW t \in Senders
      PROVE  (Countable(ChargedTo(t)) /\ Cardinality(ChargedTo(t)) <= KeyItems
              /\ Bytes(ChargedTo(t)) <= KeyBytes)'
  <2>1. ChargedTo(t)' = ChargedTo(t) BY DEF ChargedTo
  <2> QED BY <2>1 DEF IInv, RetainedRows, Countable, Cells, Bytes
<1>3. RetainedRows' BY <1>2 DEF IInv, RetainedRows, ToSet
<1> QED BY <1>1, <1>3

\* A sender that lets go of its tick: the attempt in progress, if there is one,
\* counts as unknown and nobody listens for its answer.
LetsGo(s) ==
    /\ pc'[s] \in {"idle", "closed"} /\ batch'[s] = <<>> /\ reply'[s] = NoReply
    /\ \A t \in Senders : t # s =>
         /\ pc'[t] = pc[t] /\ reply'[t] = reply[t]
         /\ batch'[t] = batch[t] /\ prior'[t] = prior[t]
    /\ \A r \in requests' : IF Sender[r.item] = s THEN ~r.live /\ \E p \in requests : p.item = r.item
                                                  ELSE r \in requests
    /\ \A k \in Items : Outcomes(k)' = Outcomes(k) + IF Sender[k] = s THEN Due(k) ELSE 0
    /\ UNCHANGED <<jobs, evidence, mailbox, charge>>

\* An owner that ends its tick gives up its attempt as one of unknown outcome.
LEMMA LetsGoKeeps == ASSUME IInv, NEW s \in Senders, LetsGo(s), Types' PROVE IInv'
<1> USE DEF IInv
<1>1. jobs' = jobs /\ evidence' = evidence /\ mailbox' = mailbox /\ charge' = charge BY DEF LetsGo
<1>2. Capped' /\ AllReadable' /\ \A k \in Items : Alike(jobs[k], jobs'[k]) BY <1>1, RowsKeep
<1>3. RetainedRows' /\ RetainedIsHeld' BY <1>1, StoreKeeps
<1>4. Ticking'
  <2> SUFFICES ASSUME NEW t \in Senders PROVE TickOK(t)' BY DEF Ticking
  <2>1. CASE t = s
    <3>1. IsInjective(<<>>) BY DEF IsInjective
    <3> QED BY <2>1, <3>1 DEF TickOK, Trying, LetsGo
  <2>2. CASE t # s BY <1>2, <2>2, OthersTick DEF LetsGo, Ticking
  <2> QED BY <2>1, <2>2
<1>5. Wired'
  <2> SUFFICES ASSUME NEW r \in requests' PROVE WireOK(r)' BY DEF Wired
  <2>1. CASE Sender[r.item] = s BY <1>1, <2>1 DEF WireOK, LetsGo, Wired
  <2>2. CASE Sender[r.item] # s
    <3>1. r \in requests /\ WireOK(r) /\ r.item \in Items BY <2>2 DEF LetsGo, Wired, Types, TypeOK
    <3>2. PICK t \in Senders : t = Sender[r.item] /\ t # s BY <2>2, <3>1
    <3> QED BY <1>1, <3>1, <3>2 DEF LetsGo, WireOK, Listening
  <2> QED BY <2>1, <2>2
<1>6. Answered'
  <2> SUFFICES ASSUME NEW t \in Senders PROVE ReplyOK(t)' BY DEF Answered
  <2>1. CASE t = s BY <2>1 DEF ReplyOK, LetsGo, NoReply
  <2>2. CASE t # s BY <1>1, <2>2 DEF ReplyOK, LetsGo, Answered
  <2> QED BY <2>1, <2>2
<1>7. Traceless'
  <2> SUFFICES ASSUME NEW k \in Items PROVE TraceOK(k)' BY DEF Traceless
  <2>1. TraceOK(k) BY DEF Traceless
  <2>2. Unseen(k) => Unseen(k)' BY <1>1 DEF Unseen, LetsGo
  <2>3. CASE Sender[k] = s BY <1>1, <2>1, <2>2, <2>3 DEF TraceOK, Trying, LetsGo
  <2>4. CASE Sender[k] # s
    <3>1. PICK t \in Senders : t = Sender[k] /\ t # s BY <2>4
    <3>2. pc'[t] = pc[t] /\ reply'[t] = reply[t] /\ batch'[t] = batch[t] /\ prior'[t] = prior[t]
      BY <3>1 DEF LetsGo
    <3>3. \A r \in requests' : r.item = k => r \in requests BY <2>4 DEF LetsGo
    <3> QED BY <1>1, <2>1, <2>2, <3>1, <3>2, <3>3 DEF TraceOK, Trying
  <2> QED BY <2>3, <2>4
<1>8. Charged'
  <2> SUFFICES ASSUME NEW k \in Items PROVE ChargeOK(k)' BY DEF Charged
  <2>1. ChargeOK(k) /\ Sender[k] \in Senders BY DEF Charged
  <2>2. Outcomes(k)' = Outcomes(k) + IF Sender[k] = s THEN Due(k) ELSE 0 BY DEF LetsGo
  <2>3. Outcomes(k) \in Nat BY Counted
  <2>4. CASE Sender[k] = s
    <3>1. Due(k)' = 0 BY <2>4 DEF Due, Trying, LetsGo
    <3>2. PICK o \in Nat : o = Outcomes(k) BY <2>3
    <3>3. PICK d \in Nat : d = Due(k) BY DEF Due
    <3>4. Outcomes(k)' + 0 = o + d BY <2>2, <2>4, <3>2, <3>3
    <3>5. (jobs[k].attempts + evidence[k].spent = Outcomes(k) + Due(k))'
      BY <1>1, <2>1, <3>1, <3>2, <3>3, <3>4 DEF ChargeOK
    <3> QED BY <3>5 DEF ChargeOK
  <2>5. CASE Sender[k] # s
    <3>1. PICK t \in Senders : t = Sender[k] /\ t # s BY <2>1, <2>5
    <3>2. Due(k)' = Due(k) BY <3>1, OthersDue DEF LetsGo
    <3>3. Outcomes(k)' = Outcomes(k) BY <2>2, <2>3, <2>5
    <3> QED BY <1>1, <2>1, <3>2, <3>3 DEF ChargeOK
  <2> QED BY <2>4, <2>5
<1> QED BY <1>2, <1>3, <1>4, <1>5, <1>6, <1>7, <1>8

\* The history of a sender that lets go.
LEMMA Unknown ==
    ASSUME IInv, NEW s \in Senders, NEW k \in Items,
           \/ ~Trying(s) /\ tally' = tally
           \/ Trying(s) /\ tally' = [tally EXCEPT ![Head(batch[s])].unknown = @ + 1]
    PROVE  Outcomes(k)' = Outcomes(k) + IF Sender[k] = s THEN Due(k) ELSE 0
<1>1. Outcomes(k) \in Nat BY Counted DEF IInv
<1>2. CASE ~Trying(s)
  <2>1. Outcomes(k)' = Outcomes(k) BY <1>2 DEF Outcomes
  <2>2. Sender[k] = s => Due(k) = 0 BY <1>2 DEF Due
  <2> QED BY <1>1, <2>1, <2>2
<1>3. CASE Trying(s)
  <2>1. PICK i : i = Head(batch[s]) OBVIOUS
  <2>2. batch[s] # <<>> BY <1>3, OpenAttempt
  <2>3. i \in Items /\ Sender[i] = s BY <2>1, <2>2, HeadJob
  <2>4. tally' = [tally EXCEPT ![i].unknown = @ + 1] BY <1>3, <2>1
  <2>5. Outcomes(i)' = Outcomes(i) + 1 /\ \A x \in Items : x # i => tally'[x] = tally[x]
    BY <2>3, <2>4, CountsOne DEF IInv
  <2>6. CASE k = i
    <3>1. Due(k) = 1 BY <1>3, <2>1, <2>3, <2>6 DEF Due
    <3> QED BY <2>3, <2>5, <2>6, <3>1
  <2>7. CASE k # i
    <3>1. Outcomes(k)' = Outcomes(k) BY <2>5, <2>7 DEF Outcomes
    <3>2. Sender[k] = s => Due(k) = 0 BY <2>1, <2>7 DEF Due
    <3> QED BY <1>1, <3>1, <3>2
  <2> QED BY <2>6, <2>7
<1> QED BY <1>2, <1>3

\* A tick ends when its jobs are done.
LEMMA EndTickKeeps == ASSUME IInv, NEW s \in Senders, EndTick(s) PROVE IInv'
<1>1. /\ pc[s] = "tick" /\ ~Trying(s)
      /\ pc' = [pc EXCEPT ![s] = "idle"] /\ batch' = [batch EXCEPT ![s] = <<>>]
      /\ elapsed' = [elapsed EXCEPT ![s] = 0]
      /\ UNCHANGED <<jobs, evidence, queue, prior, mailbox, charge, revoked, requests, reply,
                     faults, tally>>
  BY DEF EndTick, Trying, queueVars, relayVars, netVars
<1>2. \A r \in requests : Sender[r.item] = s => ~r.live BY <1>1, NobodyListens
<1>3. reply[s] = NoReply BY <1>1 DEF IInv, Ticking, TickOK
<1>4. \A k \in Items : Outcomes(k)' = Outcomes(k) + IF Sender[k] = s THEN Due(k) ELSE 0
  BY <1>1, Unknown
<1>5. Types'
  <2>1. <<>> \in Seq(Items) OBVIOUS
  <2>2. batch' \in [Senders -> Seq(Items)] BY <1>1, <2>1 DEF IInv, Types
  <2> QED BY <1>1, <2>2 DEF IInv, Types, TypeOK
<1>6. LetsGo(s) BY <1>1, <1>2, <1>3, <1>4 DEF LetsGo, IInv, Types, TypeOK
<1> QED BY <1>5, <1>6, LetsGoKeeps

\* A queue opens with the rows that were committed.
LEMMA ReopenKeeps == ASSUME IInv, NEW s \in Senders, Reopen(s) PROVE IInv'
<1>1. /\ pc[s] = "closed" /\ ~Trying(s)
      /\ pc' = [pc EXCEPT ![s] = "idle"]
      /\ UNCHANGED <<jobs, evidence, queue, batch, elapsed, prior, mailbox, charge, revoked,
                     requests, reply, faults, tally>>
  BY DEF Reopen, Trying, queueVars, relayVars, netVars
<1>2. \A r \in requests : Sender[r.item] = s => ~r.live BY <1>1, NobodyListens
<1>3. reply[s] = NoReply /\ batch[s] = <<>> BY <1>1 DEF IInv, Ticking, TickOK
<1>4. \A k \in Items : Outcomes(k)' = Outcomes(k) + IF Sender[k] = s THEN Due(k) ELSE 0
  BY <1>1, Unknown
<1>5. Types' BY <1>1 DEF IInv, Types, TypeOK
<1>6. LetsGo(s) BY <1>1, <1>2, <1>3, <1>4 DEF LetsGo, IInv, Types, TypeOK
<1> QED BY <1>5, <1>6, LetsGoKeeps

\* A tick over its deadline leaves its committed intent behind.
LEMMA OverdueKeeps == ASSUME IInv, NEW s \in Senders, Overdue(s) PROVE IInv'
<1>1. /\ pc[s] = "send" /\ Trying(s) /\ faults < MaxFaults /\ faults' = faults + 1
      /\ tally' = [tally EXCEPT ![Head(batch[s])].unknown = @ + 1]
      /\ pc' = [pc EXCEPT ![s] = "idle"] /\ batch' = [batch EXCEPT ![s] = <<>>]
      /\ prior' = [prior EXCEPT ![s] = NoJob]
      /\ UNCHANGED <<jobs, evidence, queue, elapsed, mailbox, charge, revoked, requests, reply>>
  BY DEF Overdue, Trying, queueVars, relayVars, netVars
<1>2. \A r \in requests : Sender[r.item] = s => ~r.live BY <1>1, NobodyListens
<1>3. reply[s] = NoReply BY <1>1 DEF IInv, Ticking, TickOK
<1>4. \A k \in Items : Outcomes(k)' = Outcomes(k) + IF Sender[k] = s THEN Due(k) ELSE 0
  BY <1>1, Unknown
<1>5. Types'
  <2>1. Head(batch[s]) \in Items BY <1>1, OpenAttempt, HeadJob
  <2>2. tally' \in [Items -> [refused : Nat, retained : Nat, unknown : Nat]]
    BY <1>1, <2>1, CountsOne DEF IInv
  <2>3. faults' \in 0..MaxFaults BY <1>1 DEF IInv, Types, TypeOK
  <2>4. <<>> \in Seq(Items) OBVIOUS
  <2>5. batch' \in [Senders -> Seq(Items)] BY <1>1, <2>4 DEF IInv, Types
  <2> QED BY <1>1, <2>2, <2>3, <2>5 DEF IInv, Types, TypeOK, Rows
<1>6. LetsGo(s) BY <1>1, <1>2, <1>3, <1>4 DEF LetsGo, IInv, Types, TypeOK
<1> QED BY <1>5, <1>6, LetsGoKeeps

\* Whatever a crash interrupts is one of the above.
LEMMA CrashKeeps == ASSUME IInv, NEW s \in Senders, Crash(s) PROVE IInv'
<1>1. /\ faults < MaxFaults /\ faults' = faults + 1
      /\ pc' = [pc EXCEPT ![s] = "closed"] /\ batch' = [batch EXCEPT ![s] = <<>>]
      /\ prior' = [prior EXCEPT ![s] = NoJob] /\ reply' = [reply EXCEPT ![s] = NoReply]
      /\ elapsed' = [elapsed EXCEPT ![s] = 0]
      /\ UNCHANGED <<jobs, evidence, queue, mailbox, charge, revoked>>
  BY DEF Crash, queueVars, relayVars
<1>2. \/ ~Trying(s) /\ tally' = tally
      \/ Trying(s) /\ tally' = [tally EXCEPT ![Head(batch[s])].unknown = @ + 1]
  BY DEF Crash, Trying
<1>3. /\ \A r \in requests' : IF Sender[r.item] = s THEN ~r.live /\ \E p \in requests : p.item = r.item
                                                    ELSE r \in requests
      /\ requests' \subseteq [item : Items, live : BOOLEAN]
  <2> SUFFICES ASSUME NEW r \in requests'
               PROVE  /\ r \in [item : Items, live : BOOLEAN]
                      /\ IF Sender[r.item] = s THEN ~r.live /\ \E p \in requests : p.item = r.item
                                               ELSE r \in requests
    OBVIOUS
  <2>1. PICK p \in requests : r = IF Sender[p.item] = s THEN [p EXCEPT !.live = FALSE] ELSE p
    BY DEF Crash
  <2>2. p \in [item : Items, live : BOOLEAN] BY DEF IInv, Types, TypeOK
  <2>3. CASE Sender[p.item] = s BY <2>1, <2>2, <2>3
  <2>4. CASE Sender[p.item] # s BY <2>1, <2>2, <2>4
  <2> QED BY <2>3, <2>4
<1>4. \A k \in Items : Outcomes(k)' = Outcomes(k) + IF Sender[k] = s THEN Due(k) ELSE 0
  BY <1>2, Unknown
<1>5. Types'
  <2>1. tally' \in [Items -> [refused : Nat, retained : Nat, unknown : Nat]]
    <3>1. CASE Trying(s)
      <4>1. Head(batch[s]) \in Items BY <3>1, OpenAttempt, HeadJob
      <4> QED BY <1>2, <3>1, <4>1, CountsOne DEF IInv
    <3>2. CASE ~Trying(s) BY <1>2, <3>2 DEF IInv, Types
    <3> QED BY <3>1, <3>2
  <2>2. faults' \in 0..MaxFaults BY <1>1 DEF IInv, Types, TypeOK
  <2>3. NoReply \in Replies BY DEF NoReply, Replies
  <2>4. <<>> \in Seq(Items) OBVIOUS
  <2>5. batch' \in [Senders -> Seq(Items)] BY <1>1, <2>4 DEF IInv, Types
  <2> QED BY <1>1, <1>3, <2>1, <2>2, <2>3, <2>5 DEF IInv, Types, TypeOK, Rows
<1>6. LetsGo(s) BY <1>1, <1>3, <1>4 DEF LetsGo, IInv, Types, TypeOK
<1> QED BY <1>5, <1>6, LetsGoKeeps

\* A tick takes up distinct jobs that are open.
LEMMA BeginTickKeeps ==
  ASSUME IInv, NEW s \in Senders, NEW only \in SUBSET JobsOf(s), NEW d \in Delays,
         BeginTick(s, only, d)
  PROVE  IInv'
<1> USE DEF IInv
<1>1. PICK due : due = {i \in only : jobs[i].state \in {"Pending", "Uncertain"} /\ jobs[i].wait <= d}
  OBVIOUS
<1>2. PICK q \in Sorted(due, Ahead(queue[s])) :
        batch' = [batch EXCEPT ![s] = SubSeq(q, 1, IF Len(q) < BudgetJobs THEN Len(q) ELSE BudgetJobs)]
  BY <1>1 DEF BeginTick
<1>3. due \in SUBSET Items /\ due \subseteq JobsOf(s) BY <1>1 DEF JobsOf
<1>4. IsFiniteSet(due)
  <2>1. IsFiniteSet(JobsOf(s)) BY DEF Capped, CapOK, Countable
  <2> QED BY <1>3, <2>1, FS_Subset
<1>5. q \in Seq(Items) /\ IsInjective(q) /\ \A n \in 1..Len(q) : q[n] \in due
  BY <1>2, <1>3, <1>4, SortedLists
<1>6. PICK m \in Nat : m = (IF Len(q) < BudgetJobs THEN Len(q) ELSE BudgetJobs) BY <1>5
<1>7. m <= Len(q) BY <1>5, <1>6
<1>8. PICK b : b = SubSeq(q, 1, m) OBVIOUS
<1>9. b \in Seq(Items) /\ Len(b) = m /\ \A n \in 1..m : b[n] = q[n] /\ n \in 1..Len(q)
  BY <1>5, <1>7, <1>8
<1>10. \A n \in 1..Len(b) : Open(b[n], s)
  <2>1. \A i \in due : Open(i, s) BY <1>1 DEF Open, JobsOf
  <2> QED BY <1>5, <1>9, <2>1
<1>11. IsInjective(b)
  <2>1. DOMAIN b = 1..m /\ DOMAIN q = 1..Len(q) BY <1>5, <1>9
  <2> QED BY <1>5, <1>9, <2>1 DEF IsInjective
<1>12. /\ pc[s] = "idle" /\ pc' = [pc EXCEPT ![s] = "tick"]
       /\ batch' = [batch EXCEPT ![s] = b] /\ elapsed' = [elapsed EXCEPT ![s] = d]
       /\ UNCHANGED <<jobs, evidence, queue, prior, mailbox, charge, revoked, requests, reply,
                      faults, tally>>
  BY <1>2, <1>6, <1>8 DEF BeginTick, queueVars, relayVars, netVars
<1>13. d \in Nat BY DEF Delays
<1>14. Types' BY <1>9, <1>12, <1>13 DEF Types, TypeOK
<1>15. Capped' /\ AllReadable' /\ (\A k \in Items : Alike(jobs[k], jobs'[k])) /\ RetainedRows' /\ RetainedIsHeld'
  BY <1>12, RowsKeep, StoreKeeps
<1>16. Ticking'
  <2> SUFFICES ASSUME NEW t \in Senders PROVE TickOK(t)' BY DEF Ticking
  <2>1. CASE t = s
    <3>1. pc'[s] = "tick" /\ batch'[s] = b /\ reply'[s] = NoReply
      BY <1>12 DEF Types, TypeOK, Ticking, TickOK
    <3>2. \A n \in 1..Len(b) : Open(b[n], s)' BY <1>10, <1>12 DEF Open
    <3> QED BY <1>11, <2>1, <3>1, <3>2 DEF TickOK, Trying
  <2>2. CASE t # s
    <3>1. pc'[t] = pc[t] /\ batch'[t] = batch[t] /\ prior'[t] = prior[t] /\ reply'[t] = reply[t]
      BY <1>12, <2>2 DEF Types, TypeOK
    <3> QED BY <1>15, <3>1, OthersTick DEF Ticking
  <2> QED BY <2>1, <2>2
<1>17. \A t \in Senders : t # s => pc'[t] = pc[t] /\ batch'[t] = batch[t]
  BY <1>12 DEF Types, TypeOK
<1>18. pc'[s] = "tick" BY <1>12 DEF Types, TypeOK
<1>19. Wired'
  <2> SUFFICES ASSUME NEW r \in requests PROVE WireOK(r)' BY <1>12 DEF Wired
  <2>1. WireOK(r) /\ Sender[r.item] \in Senders BY DEF Wired, Types, TypeOK
  <2>2. r.live => Sender[r.item] # s BY <1>12, <2>1 DEF WireOK, Listening
  <2> QED BY <1>12, <1>17, <2>1, <2>2 DEF WireOK, Listening
<1>20. Answered'
  <2> SUFFICES ASSUME NEW t \in Senders PROVE ReplyOK(t)' BY DEF Answered
  <2>1. CASE t = s
    <3>1. reply'[s] = NoReply BY <1>12 DEF Ticking, TickOK
    <3> QED BY <2>1, <3>1 DEF ReplyOK, NoReply
  <2>2. CASE t # s BY <1>12, <1>17, <2>2 DEF ReplyOK, Answered
  <2> QED BY <2>1, <2>2
<1>21. Traceless'
  <2> SUFFICES ASSUME NEW k \in Items PROVE TraceOK(k)' BY DEF Traceless
  <2>1. TraceOK(k) BY DEF Traceless
  <2>2. CASE Sender[k] = s BY <1>12, <1>18, <2>1, <2>2 DEF TraceOK, Unseen, Trying
  <2>3. CASE Sender[k] # s
    <3>1. PICK t \in Senders : t = Sender[k] /\ t # s BY <2>3
    <3> QED BY <1>12, <1>17, <2>1, <3>1 DEF TraceOK, Unseen, Trying
  <2> QED BY <2>2, <2>3
<1>22. Charged'
  <2> SUFFICES ASSUME NEW k \in Items PROVE ChargeOK(k)' BY DEF Charged
  <2>1. ChargeOK(k) /\ Sender[k] \in Senders BY DEF Charged
  <2>2. Due(k)' = Due(k)
    <3>1. CASE Sender[k] = s BY <1>12, <1>18, <3>1 DEF Due, Trying
    <3>2. CASE Sender[k] # s BY <1>17, <2>1, <3>2, OthersDue
    <3> QED BY <3>1, <3>2
  <2> QED BY <1>12, <2>1, <2>2 DEF ChargeOK, Outcomes
<1> QED BY <1>14, <1>15, <1>16, <1>19, <1>20, <1>21, <1>22

\* The request goes out with its client listening.
LEMMA SubmitKeeps == ASSUME IInv, NEW s \in Senders, Submit(s) PROVE IInv'
<1> USE DEF IInv
<1>0. PICK i : i = Head(batch[s]) OBVIOUS
<1> USE <1>0
<1>1. pc[s] = "send" /\ Trying(s) BY DEF Submit, Trying
<1>2. batch[s] # <<>> BY <1>1, OpenAttempt
<1>3. i \in Items /\ Sender[i] = s /\ jobs[i] # NoJob BY <1>2, HeadJob, RowShape DEF Rows
<1>4. PICK new : new = [item |-> i, live |-> TRUE] OBVIOUS
<1>5. /\ requests' = requests \cup {new} /\ pc' = [pc EXCEPT ![s] = "await"]
      /\ UNCHANGED <<jobs, evidence, queue, batch, elapsed, prior, mailbox, charge, revoked, reply,
                     faults, tally>>
  BY <1>4 DEF Submit, queueVars, relayVars
<1>6. reply[s] = NoReply BY <1>1 DEF Ticking, TickOK
<1>7. /\ pc'[s] = "await"
      /\ \A t \in Senders : t # s => pc'[t] = pc[t]
  BY <1>5 DEF Types, TypeOK
<1>8. Types'
  <2>1. new \in [item : Items, live : BOOLEAN] BY <1>3, <1>4
  <2> QED BY <1>5, <2>1 DEF Types, TypeOK
<1>9. Capped' /\ AllReadable' /\ (\A k \in Items : Alike(jobs[k], jobs'[k])) /\ RetainedRows' /\ RetainedIsHeld'
  BY <1>5, RowsKeep, StoreKeeps
<1>10. Ticking'
  <2> SUFFICES ASSUME NEW t \in Senders PROVE TickOK(t)' BY DEF Ticking
  <2>1. CASE t = s BY <1>1, <1>5, <1>7, <2>1 DEF Ticking, TickOK, Trying, Open
  <2>2. CASE t # s BY <1>5, <1>7, <1>9, <2>2, OthersTick DEF Ticking
  <2> QED BY <2>1, <2>2
<1>11. Wired'
  <2> SUFFICES ASSUME NEW r \in requests' PROVE WireOK(r)' BY DEF Wired
  <2>1. CASE r = new BY <1>3, <1>4, <1>5, <1>6, <1>7, <2>1 DEF WireOK, Listening
  <2>2. CASE r \in requests
    <3>1. WireOK(r) /\ Sender[r.item] \in Senders BY <2>2 DEF Wired, Types, TypeOK
    <3>2. r.live => Sender[r.item] # s BY <1>1, <3>1 DEF WireOK, Listening
    <3> QED BY <1>5, <1>7, <3>1, <3>2 DEF WireOK, Listening
  <2> QED BY <1>5, <2>1, <2>2
<1>12. Answered' BY <1>5 DEF Answered, ReplyOK
<1>13. Traceless'
  <2> SUFFICES ASSUME NEW k \in Items PROVE TraceOK(k)' BY DEF Traceless
  <2>1. TraceOK(k) BY DEF Traceless
  <2>2. k # i => (Unseen(k) => Unseen(k)') BY <1>4, <1>5 DEF Unseen
  <2>3. CASE k = i
    <3>1. jobs'[k].state = "Uncertain" BY <1>1, <1>5, <2>3, OpenAttempt
    <3>2. Sender[k] \notin Quic /\ ~prior[s].uncertain => Unseen(k)
      BY <1>1, <1>3, <2>1, <2>3 DEF TraceOK
    <3>3. Sender[k] \notin Quic /\ ~prior[s].uncertain =>
            k \notin ToSet(mailbox) /\ \A r \in requests' : r.item = k => r.live
      BY <1>4, <1>5, <3>2 DEF Unseen
    <3>4. reply'[s] = NoReply /\ pc'[s] = "await" /\ Sender[k] = s
          /\ prior' = prior /\ mailbox' = mailbox
      BY <1>3, <1>5, <1>6, <1>7, <2>3
    <3>5. NoReply.result \notin Refusals BY DEF NoReply, Refusals, Permanent
    <3> QED BY <3>1, <3>3, <3>4, <3>5 DEF TraceOK
  <2>4. CASE k # i /\ Sender[k] = s BY <1>5, <2>1, <2>2, <2>4 DEF TraceOK
  <2>5. CASE k # i /\ Sender[k] # s
    <3>1. PICK t \in Senders : t = Sender[k] /\ t # s BY <2>5
    <3>2. \A r \in requests' : r.item = k => r \in requests BY <1>4, <1>5, <2>5
    <3>3. pc'[t] = pc[t] BY <1>7, <3>1
    <3> QED BY <1>5, <2>1, <2>2, <2>5, <3>1, <3>2, <3>3 DEF TraceOK, Trying
  <2> QED BY <2>3, <2>4, <2>5
<1>14. Charged'
  <2> SUFFICES ASSUME NEW k \in Items PROVE ChargeOK(k)' BY DEF Charged
  <2>1. ChargeOK(k) /\ Sender[k] \in Senders BY DEF Charged
  <2>2. Due(k)' = Due(k)
    <3>1. CASE Sender[k] = s BY <1>1, <1>5, <1>7, <3>1 DEF Due, Trying
    <3>2. CASE Sender[k] # s BY <1>5, <1>7, <2>1, <3>2, OthersDue
    <3> QED BY <3>1, <3>2
  <2> QED BY <1>5, <2>1, <2>2 DEF ChargeOK, Outcomes
<1> QED BY <1>8, <1>9, <1>10, <1>11, <1>12, <1>13, <1>14

\* A reply that breaks off is taken for a refusal by the QUIC client only.
LEMMA BrokenKeeps == ASSUME IInv, NEW s \in Senders, Broken(s) PROVE IInv'
<1> USE DEF IInv
<1>0. PICK i : i = Head(batch[s]) OBVIOUS
<1> USE <1>0
<1>1. pc[s] = "await" /\ s \in Quic /\ Trying(s) BY DEF Broken, Trying
<1>2. batch[s] # <<>> BY <1>1, OpenAttempt
<1>3. i \in Items /\ Sender[i] = s /\ jobs[i] # NoJob BY <1>2, HeadJob, RowShape DEF Rows
<1>4. /\ faults < MaxFaults /\ faults' = faults + 1
      /\ reply' = [reply EXCEPT ![s] = Err("Malformed")]
      /\ requests' = Hushed(i)
      /\ UNCHANGED <<jobs, evidence, queue, pc, batch, elapsed, prior, mailbox, charge, revoked, tally>>
  BY DEF Broken, Hushed, queueVars, tickVars, relayVars
<1>5. /\ Hushed(i) \subseteq [item : Items, live : BOOLEAN]
      /\ \A r \in Hushed(i) : IF r.item = i THEN ~r.live ELSE r \in requests
      /\ \A r \in Hushed(i) : \E p \in requests : p.item = r.item
  <2>1. Types OBVIOUS
  <2> QED BY ONLY <2>1, HangsUp
<1>6. /\ reply'[s].result = "Malformed" /\ \A t \in Senders : t # s => reply'[t] = reply[t]
  BY <1>4 DEF Types, Err
<1>7. Types'
  <2>1. Err("Malformed") \in Replies BY DEF Err, Replies, Refusals, Permanent
  <2>2. faults' \in 0..MaxFaults BY <1>4 DEF Types, TypeOK
  <2> QED BY <1>4, <1>5, <2>1, <2>2 DEF Types, TypeOK
<1>8. Capped' /\ AllReadable' /\ (\A k \in Items : Alike(jobs[k], jobs'[k])) /\ RetainedRows' /\ RetainedIsHeld'
  BY <1>4, RowsKeep, StoreKeeps
<1>9. Ticking'
  <2> SUFFICES ASSUME NEW t \in Senders PROVE TickOK(t)' BY DEF Ticking
  <2>1. CASE t = s BY <1>1, <1>4, <2>1 DEF Ticking, TickOK, Trying, Open
  <2>2. CASE t # s BY <1>4, <1>6, <1>8, <2>2, OthersTick DEF Ticking
  <2> QED BY <2>1, <2>2
<1>10. Wired'
  <2> SUFFICES ASSUME NEW r \in requests' PROVE WireOK(r)' BY DEF Wired
  <2>1. CASE r.item = i BY <1>3, <1>4, <1>5, <2>1 DEF WireOK
  <2>2. CASE r.item # i
    <3>1. r \in requests BY <1>4, <1>5, <2>2
    <3>2. WireOK(r) /\ Sender[r.item] \in Senders BY <3>1 DEF Wired, Types, TypeOK
    <3>3. r.live => Sender[r.item] # s BY <2>2, <3>2 DEF WireOK, Listening
    <3> QED BY <1>4, <1>6, <3>2, <3>3 DEF WireOK, Listening
  <2> QED BY <2>1, <2>2
<1>11. Answered'
  <2> SUFFICES ASSUME NEW t \in Senders PROVE ReplyOK(t)' BY DEF Answered
  <2>1. CASE t = s BY <1>6, <2>1 DEF ReplyOK
  <2>2. CASE t # s BY <1>4, <1>6, <2>2 DEF ReplyOK, Answered
  <2> QED BY <2>1, <2>2
<1>12. Traceless'
  <2> SUFFICES ASSUME NEW k \in Items, Sender[k] \notin Quic PROVE TraceOK(k)' BY DEF Traceless, TraceOK
  <2>1. TraceOK(k) BY DEF Traceless
  <2>2. PICK t \in Senders : t = Sender[k] /\ t # s BY <1>1
  <2>3. \A r \in requests' : r.item = k => r \in requests BY <1>3, <1>4, <1>5, <2>2
  <2>4. Unseen(k) => Unseen(k)' BY <1>4, <2>3 DEF Unseen
  <2>5. reply'[t] = reply[t] BY <1>6, <2>2
  <2> QED BY <1>4, <2>1, <2>2, <2>3, <2>4, <2>5 DEF TraceOK, Trying
<1>13. Charged' BY <1>4 DEF Charged, ChargeOK, Outcomes, Due, Trying
<1> QED BY <1>7, <1>8, <1>9, <1>10, <1>11, <1>12, <1>13

\* A revocation touches neither queue nor mailbox.
LEMMA RekeyKeeps == ASSUME IInv, NEW s \in Senders, Rekey(s) PROVE IInv'
<1> USE DEF IInv
<1>1. /\ revoked' \subseteq Senders /\ faults' \in 0..MaxFaults
      /\ UNCHANGED <<jobs, evidence, queue, pc, batch, elapsed, prior, mailbox, charge,
                     requests, reply, tally>>
  <2>1. revoked' \subseteq Senders BY DEF Rekey, Types, TypeOK
  <2>2. faults' \in 0..MaxFaults BY DEF Rekey, Types, TypeOK
  <2> QED BY <2>1, <2>2 DEF Rekey, queueVars, tickVars, netVars
<1>2. Types' BY <1>1 DEF Types, TypeOK
<1>3. Capped' /\ AllReadable' /\ RetainedRows' /\ RetainedIsHeld' BY <1>1, RowsKeep, StoreKeeps
<1>4. Ticking' BY <1>1 DEF Ticking, TickOK, Trying, Open
<1>5. Wired' /\ Answered' BY <1>1 DEF Wired, WireOK, Listening, Answered, ReplyOK
<1>6. Traceless' BY <1>1 DEF Traceless, TraceOK, Unseen, Trying
<1>7. Charged' BY <1>1 DEF Charged, ChargeOK, Outcomes, Due, Trying
<1> QED BY <1>2, <1>3, <1>4, <1>5, <1>6, <1>7

-----------------------------------------------------------------------------
(* The steps of the service.                                               *)

\* A request that is taken off the wire, and answered with a if its client still
\* listens.  What the mailbox held stays where it was.
Replied(r, a) ==
    /\ requests' = requests \ {r}
    /\ reply' = IF r.live THEN [reply EXCEPT ![Sender[r.item]] = a] ELSE reply
    /\ a \in Replies /\ a.result # "None"
    /\ a.result = "Ok" => a.position \in DOMAIN mailbox' /\ mailbox'[a.position] = r.item
    /\ \A n \in DOMAIN mailbox : n \in DOMAIN mailbox' /\ mailbox'[n] = mailbox[n]
    /\ ToSet(mailbox') \subseteq ToSet(mailbox) \cup {r.item}
    /\ a.result # "Ok" => mailbox' = mailbox
    /\ UNCHANGED <<queueVars, tickVars, tally>>

\* An answer reaches the client only while it listens.
LEMMA RepliedKeeps ==
    ASSUME IInv, NEW r \in requests, NEW a, Replied(r, a), Types', RetainedRows' PROVE IInv'
<1> USE DEF IInv
<1>1. /\ UNCHANGED <<jobs, evidence, queue, pc, batch, elapsed, prior, tally>>
      /\ requests' \subseteq requests
  BY DEF Replied, queueVars, tickVars
<1>2. PICK i \in Items, s \in Senders : i = r.item /\ s = Sender[i] BY DEF Types, TypeOK
<1>3. WireOK(r) BY DEF Wired
<1>4. r.live => Listening(s, i) BY <1>2, <1>3 DEF WireOK
<1>5. \A t \in Senders : t # s \/ ~r.live => reply'[t] = reply[t] BY <1>2 DEF Replied, Types
<1>6. r.live => reply'[s] = a BY <1>2 DEF Replied, Types
<1>7. Capped' /\ AllReadable' /\ \A k \in Items : Alike(jobs[k], jobs'[k]) BY <1>1, RowsKeep
<1>8. RetainedIsHeld' BY <1>1 DEF RetainedIsHeld, Replied
<1>9. Ticking'
  <2> SUFFICES ASSUME NEW t \in Senders PROVE TickOK(t)' BY DEF Ticking
  <2>1. pc[t] # "await" => reply'[t] = reply[t] BY <1>4, <1>5 DEF Listening
  <2> QED BY <1>1, <2>1 DEF Ticking, TickOK, Trying, Open
<1>10. ASSUME NEW p \in requests, p.live, p # r PROVE ~r.live \/ Sender[p.item] # s
  <2>1. WireOK(p) BY DEF Wired
  <2>2. p \in [item : Items, live : BOOLEAN] /\ r \in [item : Items, live : BOOLEAN] BY DEF Types, TypeOK
  <2>3. SUFFICES ASSUME r.live, Sender[p.item] = s PROVE FALSE OBVIOUS
  <2>4. p.item = i BY <1>4, <1>10, <2>1, <2>3 DEF WireOK, Listening
  <2>5. p = r BY <1>2, <1>10, <2>2, <2>3, <2>4
  <2> QED BY <1>10, <2>5
<1>11. Wired'
  <2> SUFFICES ASSUME NEW p \in requests, p # r PROVE WireOK(p)' BY DEF Wired, Replied
  <2>1. WireOK(p) /\ Sender[p.item] \in Senders BY DEF Wired, Types, TypeOK
  <2>2. p.live => reply'[Sender[p.item]] = reply[Sender[p.item]] BY <1>5, <1>10, <2>1
  <2> QED BY <1>1, <2>1, <2>2 DEF WireOK, Listening
<1>12. Answered'
  <2> SUFFICES ASSUME NEW t \in Senders PROVE ReplyOK(t)' BY DEF Answered
  <2>1. CASE t = s /\ r.live BY <1>1, <1>2, <1>4, <1>6, <2>1 DEF ReplyOK, Replied, Listening
  <2>2. CASE ~(t = s /\ r.live) BY <1>1, <1>5, <2>2 DEF ReplyOK, Replied, Answered
  <2> QED BY <2>1, <2>2
<1>13. Traceless'
  <2> SUFFICES ASSUME NEW k \in Items, Sender[k] \notin Quic PROVE TraceOK(k)' BY DEF Traceless, TraceOK
  <2>1. TraceOK(k) /\ Sender[k] \in Senders BY DEF Traceless
  <2>2. CASE k # i
    <3>1. Unseen(k) => Unseen(k)' BY <1>1, <1>2, <2>2 DEF Unseen, Replied
    <3>2. k \notin ToSet(mailbox) => k \notin ToSet(mailbox)' BY <1>2, <2>2 DEF Replied
    <3>3. Head(batch[Sender[k]]) = k => reply'[Sender[k]] = reply[Sender[k]]
      BY <1>4, <1>5, <2>1, <2>2 DEF Listening
    <3> QED BY <1>1, <2>1, <3>1, <3>2, <3>3 DEF TraceOK, Trying
  <2>3. CASE k = i
    <3>1. ~Unseen(k) BY <1>2, <2>3 DEF Unseen
    <3>2. ~(jobs[k].state \in {"Pending", "Stopped"} /\ ~jobs[k].uncertain) BY <2>1, <2>3, <3>1 DEF TraceOK
    <3>3. SUFFICES ASSUME Trying(s), Head(batch[s]) = i, ~prior[s].uncertain
                   PROVE  /\ pc[s] = "send" \/ reply'[s].result \in Refusals => Unseen(i)'
                          /\ reply'[s] # NoReply
      BY <1>1, <1>2, <2>3, <3>2 DEF TraceOK, Trying
    <3>4. pc[s] = "await" /\ reply[s].result \notin Refusals
      BY <1>2, <2>1, <2>3, <3>1, <3>3 DEF TraceOK, Trying
    <3>5. CASE reply[s] = NoReply
      <4>1. i \notin ToSet(mailbox) /\ \A p \in requests : p.item = i => p.live
        BY <1>2, <2>1, <2>3, <3>3, <3>5 DEF TraceOK
      <4>2. r.live BY <1>2, <4>1
      <4>3. reply'[s] = a /\ reply'[s] # NoReply BY <1>6, <4>2 DEF Replied, NoReply
      <4>4. \A p \in requests' : p.item # i BY <1>2, <1>10, <4>1, <4>2 DEF Replied
      <4>5. a.result \in Refusals => Unseen(i)'
        <5>1. a.result \in Refusals => mailbox' = mailbox BY DEF Replied, Refusals, Permanent
        <5> QED BY <4>1, <4>4, <5>1 DEF Unseen
      <4> QED BY <1>1, <3>4, <4>3, <4>5
    <3>6. CASE reply[s] # NoReply
      <4>1. ~r.live BY <1>4, <3>6 DEF Listening
      <4>2. reply'[s] = reply[s] BY <1>5, <4>1
      <4> QED BY <3>4, <3>6, <4>2
    <3> QED BY <3>5, <3>6
  <2> QED BY <2>2, <2>3
<1>14. Charged' BY <1>1 DEF Charged, ChargeOK, Outcomes, Due, Trying
<1> QED BY <1>7, <1>8, <1>9, <1>11, <1>12, <1>13, <1>14

\* One more item in the mailbox.
LEMMA AppendOne ==
    ASSUME NEW m \in Seq(Items), NEW i \in Items, i \notin ToSet(m), IsInjective(m)
    PROVE  /\ Append(m, i) \in Seq(Items) /\ IsInjective(Append(m, i))
           /\ ToSet(Append(m, i)) = ToSet(m) \cup {i}
           /\ Len(m) + 1 \in DOMAIN Append(m, i) /\ Append(m, i)[Len(m) + 1] = i
           /\ \A n \in DOMAIN m : n \in DOMAIN Append(m, i) /\ Append(m, i)[n] = m[n]
<1>1. PICK b : b = Append(m, i) OBVIOUS
<1>2. PICK l \in Nat : l = Len(m) OBVIOUS
<1>3. /\ b \in Seq(Items) /\ DOMAIN m = 1..l /\ DOMAIN b = 1..(l + 1)
      /\ b[l + 1] = i /\ \A n \in 1..l : b[n] = m[n]
  BY <1>1, <1>2
<1>4. \A n \in 1..l : b[n] # i BY <1>3 DEF ToSet
<1>5. 1..(l + 1) = (1..l) \cup {l + 1} /\ l + 1 \notin 1..l OBVIOUS
<1>6. IsInjective(b)
  <2> SUFFICES ASSUME NEW x \in 1..(l + 1), NEW y \in 1..(l + 1), b[x] = b[y] PROVE x = y
    BY <1>3 DEF IsInjective
  <2>1. CASE x \in 1..l /\ y \in 1..l BY <1>3, <2>1 DEF IsInjective
  <2>2. CASE x = l + 1 \/ y = l + 1 BY <1>3, <1>4, <1>5, <2>2
  <2> QED BY <1>5, <2>1, <2>2
<1>7. ToSet(b) = ToSet(m) \cup {i}
  <2>1. ASSUME NEW x \in ToSet(b) PROVE x \in ToSet(m) \cup {i}
    <3>1. PICK n \in 1..(l + 1) : x = b[n] BY <1>3 DEF ToSet
    <3>2. CASE n \in 1..l BY <1>3, <3>1, <3>2 DEF ToSet
    <3>3. CASE n = l + 1 BY <1>3, <3>1, <3>3
    <3> QED BY <1>5, <3>2, <3>3
  <2>2. ASSUME NEW x \in ToSet(m) PROVE x \in ToSet(b)
    <3>1. PICK n \in 1..l : x = m[n] BY <1>3 DEF ToSet
    <3> QED BY <1>3, <1>5, <3>1 DEF ToSet
  <2>3. i \in ToSet(b) BY <1>3, <1>5 DEF ToSet
  <2> QED BY <2>1, <2>2, <2>3
<1> QED BY <1>1, <1>2, <1>3, <1>5, <1>6, <1>7

\* What the service says of an item, and when it may.
LEMMA PutSays ==
    ASSUME IInv, NEW i \in Items
    PROVE  LET a == Put(i).answer IN
           /\ a \in Replies /\ a.result \in {"Ok", "Conflict", "Capacity"}
           /\ a.result = "Ok" /\ i \in ToSet(mailbox) =>
                a.position \in DOMAIN mailbox /\ mailbox[a.position] = i
           /\ a.result = "Ok" /\ i \notin ToSet(mailbox) =>
                a.position = Len(mailbox) + 1 /\ MayCharge(Sender[i], i)
<1>1. PICK a : a = Put(i).answer OBVIOUS
<1>2. a = IF charge[i] = Nobody /\ ~MayCharge(Sender[i], i) THEN Err("Capacity") ELSE PutStaged(i)
  BY <1>1 DEF Put
<1>3. mailbox \in Seq(Items) /\ Len(mailbox) \in Nat BY DEF IInv, Types, TypeOK
<1>4. /\ Err("Capacity") \in Replies /\ Err("Conflict") \in Replies
      /\ Err("Capacity").result = "Capacity" /\ Err("Conflict").result = "Conflict"
  BY DEF Err, Replies, Refusals, Permanent
<1>5. \A n \in Nat : Ok(n) \in Replies /\ Ok(n).result = "Ok" /\ Ok(n).position = n
  BY DEF Ok, Replies
<1>6. CASE i \in ToSet(mailbox)
  <2>1. PICK n : n = (CHOOSE m \in DOMAIN mailbox : mailbox[m] = i) OBVIOUS
  <2>2. n \in DOMAIN mailbox /\ mailbox[n] = i BY <1>6, <2>1 DEF ToSet
  <2>3. n \in Nat BY <1>3, <2>2
  <2>4. PutStaged(i) = Ok(n) BY <1>6, <2>1 DEF PutStaged
  <2> QED BY <1>1, <1>2, <1>4, <1>5, <1>6, <2>2, <2>3, <2>4
<1>7. CASE i \notin ToSet(mailbox)
  <2>1. PutStaged(i) \in {Err("Conflict"), Err("Capacity"), Ok(Len(mailbox) + 1)}
    BY <1>7 DEF PutStaged
  <2>2. charge[i] = Nobody BY <1>7 DEF IInv, RetainedRows
  <2>3. Len(mailbox) + 1 \in Nat BY <1>3
  <2>4. a \in {Err("Conflict"), Err("Capacity")} \/ (a = Ok(Len(mailbox) + 1) /\ MayCharge(Sender[i], i))
    BY <1>2, <2>1, <2>2
  <2> QED BY <1>1, <1>4, <1>5, <1>7, <2>3, <2>4
<1> QED BY <1>6, <1>7

\* Retention and charge are one transaction.
LEMMA StoreGrows ==
    ASSUME IInv, NEW i \in Items, i \notin ToSet(mailbox), jobs[i] # NoJob, jobs' = jobs,
           MayCharge(Sender[i], i), mailbox' = Append(mailbox, i),
           charge' = [charge EXCEPT ![i] = Sender[i]]
    PROVE  RetainedRows'
<1> USE DEF IInv
<1>1. PICK s \in Senders : s = Sender[i] OBVIOUS
<1>2. mailbox \in Seq(Items) /\ charge \in [Items -> Senders \cup {Nobody}] BY DEF Types, TypeOK
<1>3. IsInjective(mailbox)' /\ ToSet(mailbox)' = ToSet(mailbox) \cup {i}
  BY <1>2, AppendOne DEF RetainedRows
<1>4. charge[i] = Nobody /\ Nobody \notin Senders BY DEF RetainedRows, Nobody
<1>5. charge'[i] = s /\ \A k \in Items : k # i => charge'[k] = charge[k] BY <1>1, <1>2
<1>6. \A k \in Items : charge'[k] = IF k \in ToSet(mailbox)' THEN Sender[k] ELSE Nobody
  BY <1>1, <1>3, <1>5 DEF RetainedRows
<1>7. \A k \in ToSet(mailbox)' : jobs'[k] # NoJob BY <1>3 DEF RetainedRows
<1>8. ASSUME NEW t \in Senders
      PROVE  (Countable(ChargedTo(t)) /\ Cardinality(ChargedTo(t)) <= KeyItems
              /\ Bytes(ChargedTo(t)) <= KeyBytes)'
  <2>1. /\ Countable(ChargedTo(t)) /\ Cardinality(ChargedTo(t)) <= KeyItems
        /\ Bytes(ChargedTo(t)) <= KeyBytes
    BY DEF RetainedRows
  <2>2. CASE t # s
    <3>1. ChargedTo(t)' = ChargedTo(t) BY <1>4, <1>5, <2>2 DEF ChargedTo
    <3> QED BY <2>1, <3>1 DEF Countable, Cells, Bytes
  <2>3. CASE t = s
    <3>1. PICK S : S = ChargedTo(s) OBVIOUS
    <3>2. S \in SUBSET Items /\ i \in Items \ S BY <1>4, <3>1 DEF ChargedTo
    <3>3. ChargedTo(s)' = S \cup {i} BY <1>5, <3>1 DEF ChargedTo
    <3>4. Countable(S) BY <2>1, <2>3, <3>1
    <3>5. /\ Countable(S \cup {i}) /\ Cardinality(S \cup {i}) = Cardinality(S) + 1
          /\ Bytes(S \cup {i}) = Bytes(S) + Size[i] /\ Cardinality(S) \in Nat
      BY <3>2, <3>4, OneMore
    <3>6. Cardinality(S) < KeyItems /\ Bytes(S) + Size[i] <= KeyBytes
      BY <1>1, <3>1 DEF MayCharge
    <3>7. Cardinality(S \cup {i}) <= KeyItems BY <3>5, <3>6
    <3>8. /\ Countable(ChargedTo(s)') /\ Cardinality(ChargedTo(s)') <= KeyItems
          /\ Bytes(ChargedTo(s)') <= KeyBytes
      BY <3>3, <3>5, <3>6, <3>7
    <3> QED BY <2>3, <3>8 DEF Countable, Cells, Bytes
  <2> QED BY <2>2, <2>3
<1> QED BY <1>3, <1>6, <1>7, <1>8 DEF RetainedRows

\* A served request stores its item at most once and within the caps.
LEMMA ServeKeeps == ASSUME IInv, NEW r \in requests, Serve(r) PROVE IInv'
<1> USE DEF IInv
<1>1. PICK i \in Items : i = r.item BY DEF Types, TypeOK
<1>2. PICK a : a = Put(i).answer OBVIOUS
<1>3. /\ a \in Replies /\ a.result \in {"Ok", "Conflict", "Capacity"}
      /\ a.result = "Ok" /\ i \in ToSet(mailbox) =>
           a.position \in DOMAIN mailbox /\ mailbox[a.position] = i
      /\ a.result = "Ok" /\ i \notin ToSet(mailbox) =>
           a.position = Len(mailbox) + 1 /\ MayCharge(Sender[i], i)
  BY <1>2, PutSays
<1>4. /\ requests' = requests \ {r}
      /\ reply' = IF r.live THEN [reply EXCEPT ![Sender[r.item]] = a] ELSE reply
      /\ UNCHANGED <<jobs, evidence, queue, pc, batch, elapsed, prior, tally, revoked, faults>>
  BY <1>1, <1>2 DEF Serve, Answer, queueVars, tickVars
<1>5. UNCHANGED <<queueVars, tickVars, tally>> BY DEF Serve
<1>6. IF a.result = "Ok" /\ i \notin ToSet(mailbox)
      THEN mailbox' = Append(mailbox, i) /\ charge' = [charge EXCEPT ![i] = Sender[i]]
      ELSE mailbox' = mailbox /\ charge' = charge
  BY <1>1, <1>2 DEF Serve, Put
<1>7. mailbox \in Seq(Items) /\ IsInjective(mailbox) /\ jobs[i] # NoJob
  BY <1>1 DEF Types, TypeOK, RetainedRows, Wired, WireOK
<1>8. /\ a.result = "Ok" => a.position \in DOMAIN mailbox' /\ mailbox'[a.position] = i
      /\ \A n \in DOMAIN mailbox : n \in DOMAIN mailbox' /\ mailbox'[n] = mailbox[n]
      /\ ToSet(mailbox') \subseteq ToSet(mailbox) \cup {i}
      /\ a.result # "Ok" => mailbox' = mailbox
      /\ mailbox' \in Seq(Items)
      /\ charge' \in [Items -> Senders \cup {Nobody}]
      /\ RetainedRows'
  <2>1. CASE a.result = "Ok" /\ i \notin ToSet(mailbox)
    <3>1. RetainedRows' BY <1>3, <1>4, <1>6, <1>7, <2>1, StoreGrows
    <3>2. charge' \in [Items -> Senders \cup {Nobody}] BY <1>6, <2>1 DEF Types, TypeOK
    <3>3. PICK b : b = Append(mailbox, i) OBVIOUS
    <3>4. mailbox' = b /\ a.position = Len(mailbox) + 1 BY <1>3, <1>6, <2>1, <3>3
    <3>5. /\ b \in Seq(Items) /\ ToSet(b) = ToSet(mailbox) \cup {i}
          /\ Len(mailbox) + 1 \in DOMAIN b /\ b[Len(mailbox) + 1] = i
          /\ \A n \in DOMAIN mailbox : n \in DOMAIN b /\ b[n] = mailbox[n]
      BY <1>7, <2>1, <3>3, AppendOne
    <3> QED BY <2>1, <3>1, <3>2, <3>4, <3>5
  <2>2. CASE ~(a.result = "Ok" /\ i \notin ToSet(mailbox))
    <3>1. RetainedRows' BY <1>4, <1>6, <2>2, StoreKeeps
    <3> QED BY <1>3, <1>6, <1>7, <2>2, <3>1 DEF Types, TypeOK
  <2> QED BY <2>1, <2>2
<1>9. Types' BY <1>3, <1>4, <1>8 DEF Types, TypeOK
<1>10. Replied(r, a) BY <1>1, <1>3, <1>4, <1>5, <1>8 DEF Replied
<1> QED BY <1>8, <1>9, <1>10, RepliedKeeps

\* The other answers, and no answer, leave the mailbox alone.
LEMMA UnservedKeeps ==
    ASSUME IInv, NEW r \in requests, Busy(r) \/ Deny(r) \/ Lose(r) PROVE IInv'
<1> USE DEF IInv
<1>1. /\ requests' = requests \ {r}
      /\ UNCHANGED <<jobs, evidence, queue, pc, batch, elapsed, prior, mailbox, charge, revoked, faults, tally>>
      /\ UNCHANGED <<queueVars, tickVars, tally>>
  BY DEF Busy, Deny, Lose, queueVars, tickVars, relayVars
<1>2. PICK a \in {Err("Capacity"), Err("Denied")} :
        reply' = IF r.live THEN [reply EXCEPT ![Sender[r.item]] = a] ELSE reply
  <2>1. CASE Busy(r) BY <2>1 DEF Busy, Answer
  <2>2. CASE Deny(r) BY <2>2 DEF Deny, Answer
  <2>3. CASE Lose(r) BY <2>3 DEF Lose, Answer
  <2> QED BY <2>1, <2>2, <2>3
<1>3. a \in Replies /\ a.result \notin {"None", "Ok"} BY DEF Err, Replies, Refusals, Permanent
<1>4. Types' BY <1>1, <1>2, <1>3 DEF Types, TypeOK
<1>5. RetainedRows' BY <1>1, StoreKeeps
<1>6. Replied(r, a) BY <1>1, <1>2, <1>3 DEF Replied
<1> QED BY <1>4, <1>5, <1>6, RepliedKeeps

-----------------------------------------------------------------------------
(* The steps of an idle queue.                                             *)

\* What an idle sender has under way: nothing.
LEMMA IdleSender ==
    ASSUME IInv, NEW s \in Senders, pc[s] = "idle"
    PROVE  /\ batch[s] = <<>> /\ reply[s] = NoReply /\ ~Trying(s)
           /\ \A k \in Items : Sender[k] = s => Due(k) = 0
BY DEF IInv, Ticking, TickOK, Trying, Due

\* A step that changes rows and evidence of an idle sender s only.
Revises(s) ==
    /\ jobs' \in [Items -> Rows]
    /\ \A k \in Items : Sender[k] # s => Alike(jobs[k], jobs'[k]) /\ evidence'[k] = evidence[k]
    /\ \A k \in Items : /\ jobs[k] # NoJob => jobs'[k] # NoJob
                        /\ jobs'[k].state = "Retained" =>
                             jobs[k].state = "Retained" /\ jobs'[k].position = jobs[k].position
    /\ UNCHANGED <<tickVars, relayVars, netVars, faults, tally>>

\* A change of an idle sender's rows between ticks.
LEMMA RevisesKeeps ==
    ASSUME IInv, NEW s \in Senders, pc[s] = "idle", Revises(s), Types', Capped',
           \A k \in Items : Sender[k] = s =>
             /\ jobs'[k] # NoJob => Readable(k)'
             /\ jobs'[k].attempts + evidence'[k].spent = jobs[k].attempts + evidence[k].spent
             /\ Sender[k] \notin Quic /\ jobs'[k].state \in {"Pending", "Stopped"} /\ ~jobs'[k].uncertain
                  => Unseen(k)
    PROVE  IInv'
<1> USE DEF IInv
<1>1. UNCHANGED <<pc, batch, elapsed, prior, mailbox, charge, revoked, requests, reply, faults, tally>>
  BY DEF Revises, tickVars, relayVars, netVars
<1>2. batch[s] = <<>> /\ reply[s] = NoReply /\ ~Trying(s) /\ \A k \in Items : Sender[k] = s => Due(k) = 0
  BY IdleSender
<1>3. AllReadable'
  <2> SUFFICES ASSUME NEW k \in Items, jobs'[k] # NoJob, Sender[k] # s PROVE Readable(k)'
    BY DEF AllReadable
  <2>1. Alike(jobs[k], jobs'[k]) /\ evidence'[k] = evidence[k] BY DEF Revises
  <2>2. Readable(k) BY <2>1 DEF AllReadable, Alike
  <2> QED BY <2>1, <2>2, AgedReadable
<1>4. Ticking'
  <2> SUFFICES ASSUME NEW t \in Senders PROVE TickOK(t)' BY DEF Ticking
  <2>1. CASE t = s BY <1>1, <1>2, <2>1 DEF Ticking, TickOK, Trying
  <2>2. CASE t # s
    <3>1. \A k \in Items : Sender[k] = t => Alike(jobs[k], jobs'[k]) BY <2>2 DEF Revises
    <3> QED BY <1>1, <3>1, OthersTick DEF Ticking
  <2> QED BY <2>1, <2>2
<1>5. Wired'
  <2> SUFFICES ASSUME NEW r \in requests PROVE WireOK(r)' BY <1>1 DEF Wired
  <2>1. WireOK(r) /\ r.item \in Items BY DEF Wired, Types, TypeOK
  <2>2. jobs'[r.item] # NoJob BY <2>1 DEF Revises, WireOK
  <2> QED BY <1>1, <2>1, <2>2 DEF WireOK, Listening
<1>6. Answered' BY <1>1 DEF Answered, ReplyOK
<1>7. RetainedRows'
  <2>1. \A k \in ToSet(mailbox) : jobs'[k] # NoJob
    <3> SUFFICES ASSUME NEW k \in ToSet(mailbox) PROVE jobs'[k] # NoJob OBVIOUS
    <3>1. jobs[k] # NoJob BY DEF RetainedRows
    <3>2. k \in Items BY DEF ToSet, Types, TypeOK
    <3> QED BY <3>1, <3>2 DEF Revises
  <2> QED BY <1>1, <2>1 DEF RetainedRows, ChargedTo, Countable, Cells, Bytes, ToSet
<1>8. Traceless'
  <2> SUFFICES ASSUME NEW k \in Items PROVE TraceOK(k)' BY DEF Traceless
  <2>1. TraceOK(k) /\ (Unseen(k) => Unseen(k)') BY <1>1 DEF Traceless, Unseen
  <2>2. CASE Sender[k] = s BY <1>1, <1>2, <2>1, <2>2 DEF TraceOK, Trying
  <2>3. CASE Sender[k] # s
    <3>1. Alike(jobs[k], jobs'[k]) BY <2>3 DEF Revises
    <3> QED BY <1>1, <2>1, <3>1, AgedTrace
  <2> QED BY <2>2, <2>3
<1>9. RetainedIsHeld'
  <2> SUFFICES ASSUME NEW k \in Items, jobs'[k] # NoJob, jobs'[k].state = "Retained"
               PROVE  jobs'[k].position \in DOMAIN mailbox /\ mailbox[jobs'[k].position] = k
    BY <1>1 DEF RetainedIsHeld
  <2>1. jobs[k].state = "Retained" /\ jobs'[k].position = jobs[k].position BY DEF Revises
  <2>2. jobs[k] # NoJob BY <2>1 DEF NoJob
  <2> QED BY <2>1, <2>2 DEF RetainedIsHeld
<1>10. Charged'
  <2> SUFFICES ASSUME NEW k \in Items PROVE ChargeOK(k)' BY DEF Charged
  <2>1. ChargeOK(k) BY DEF Charged
  <2>2. Due(k)' = Due(k) BY <1>1 DEF Due, Trying
  <2>3. Outcomes(k)' = Outcomes(k) BY <1>1 DEF Outcomes
  <2>4. CASE Sender[k] = s
    <3>1. (jobs[k].attempts + evidence[k].spent)' = jobs[k].attempts + evidence[k].spent BY <2>4
    <3> QED BY <2>1, <2>2, <2>3, <3>1 DEF ChargeOK
  <2>5. CASE Sender[k] # s
    <3>1. Alike(jobs[k], jobs'[k]) /\ evidence'[k] = evidence[k] /\ tally'[k] = tally[k]
      BY <1>1, <2>5 DEF Revises
    <3> QED BY <2>1, <2>2, <3>1, AgedCharge
  <2> QED BY <2>4, <2>5
<1> QED BY <1>3, <1>4, <1>5, <1>6, <1>7, <1>8, <1>9, <1>10

\* A new item is in nobody's books.
LEMMA EnqueueKeeps ==
    ASSUME IInv, NEW i \in Items, NEW d \in Delays, Enqueue(i, d) PROVE IInv'
<1> USE DEF IInv
<1>1. PICK s \in Senders : s = Sender[i] OBVIOUS
<1>2. PICK new : new = [state |-> "Pending", attempts |-> 0, wait |-> 0, uncertain |-> FALSE,
                        position |-> 0]
  OBVIOUS
<1>3. PICK aged : aged = Elapse(jobs, s, d) OBVIOUS
<1>4. PICK rows : rows = [aged EXCEPT ![i] = new] OBVIOUS
<1>5. /\ pc[s] = "idle" /\ jobs[i] = NoJob /\ jobs' = rows
      /\ Cardinality(Live(s)) < MaxJobs /\ Bytes(JobsOf(s)) + Size[i] <= MaxBytes
      /\ \E q \in Sorted(JobsOf(s) \cup {i}, ByDue(queue[s], rows, {i})) :
           queue' = [queue EXCEPT ![s] = q]
      /\ UNCHANGED <<evidence, tickVars, relayVars, netVars, faults, tally>>
  BY <1>1, <1>2, <1>3, <1>4 DEF Enqueue
<1>6. aged \in [Items -> Rows] /\ \A k \in Items : Alike(jobs[k], aged[k])
  BY <1>3, ElapseAlike DEF Types, TypeOK, Rows, Delays
<1>7. new \in Job /\ new # NoJob BY <1>2 DEF Job, JobStates, NoJob
<1>8. /\ jobs' \in [Items -> Rows] /\ jobs'[i] = new
      /\ \A k \in Items : k # i => Alike(jobs[k], jobs'[k])
  BY <1>4, <1>5, <1>6, <1>7 DEF Rows
<1>9. CapOK(s) /\ JobsOf(s) \in SUBSET Items /\ i \in Items \ JobsOf(s)
  BY <1>5 DEF Capped, JobsOf
<1>10. PICK S : S = JobsOf(s) OBVIOUS
<1>11. /\ Countable(S \cup {i}) /\ Bytes(S \cup {i}) = Bytes(S) + Size[i]
  BY <1>9, <1>10, OneMore DEF CapOK
<1>12. JobsOf(s)' = S \cup {i} BY <1>1, <1>7, <1>8, <1>10 DEF JobsOf, Alike
<1>13. Types'
  <2>1. PICK q \in Sorted(S \cup {i}, ByDue(queue[s], rows, {i})) : queue' = [queue EXCEPT ![s] = q]
    BY <1>5, <1>10
  <2>2. q \in Seq(Items) BY <1>9, <1>10, <1>11, <2>1, SortedLists DEF Countable
  <2>3. queue' \in [Senders -> Seq(Items)] BY <2>1, <2>2 DEF Types
  <2> QED BY <1>5, <1>8, <2>3 DEF Types, TypeOK, Rows, tickVars, relayVars, netVars
<1>14. Capped'
  <2> SUFFICES ASSUME NEW t \in Senders PROVE CapOK(t)' BY DEF Capped
  <2>1. CASE t = s
    <3>1. PICK L : L = Live(s) OBVIOUS
    <3>2. L \in SUBSET Items /\ L \in SUBSET S /\ i \notin L BY <1>9, <1>10, <3>1 DEF Live
    <3>3. Live(s)' \subseteq L \cup {i} BY <1>8, <1>10, <1>12, <3>1 DEF Live, Alike, JobsOf
    <3>4. IsFiniteSet(L)
      <4>1. IsFiniteSet(S) BY <1>9, <1>10 DEF CapOK, Countable
      <4> QED BY <3>2, <4>1, FS_Subset
    <3>5. IsFiniteSet(L \cup {i}) /\ Cardinality(L \cup {i}) = Cardinality(L) + 1 /\ Cardinality(L) \in Nat
      BY <3>2, <3>4, FS_AddElement, FS_CardinalityType
    <3>6. PICK M : M = Live(s)' OBVIOUS
    <3>7. Cardinality(M) <= Cardinality(L \cup {i}) /\ Cardinality(M) \in Nat
      BY <3>3, <3>5, <3>6, FS_Subset, FS_CardinalityType
    <3>8. Cardinality(Live(s)') <= MaxJobs BY <1>5, <3>1, <3>5, <3>6, <3>7
    <3>9. Countable(JobsOf(s)') /\ Bytes(JobsOf(s)') <= MaxBytes BY <1>5, <1>10, <1>11, <1>12
    <3> QED BY <2>1, <3>8, <3>9 DEF CapOK, Countable, Cells, Bytes
  <2>2. CASE t # s
    <3>1. JobsOf(t)' = JobsOf(t) BY <1>1, <1>8, <2>2 DEF JobsOf, Alike
    <3>2. Live(t)' = Live(t) BY <1>1, <1>8, <2>2, <3>1 DEF Live, JobsOf, Alike
    <3> QED BY <3>1, <3>2 DEF Capped, CapOK, Countable, Cells, Bytes
  <2> QED BY <2>1, <2>2
<1>15. Revises(s)
  <2>1. \A k \in Items : Sender[k] # s => Alike(jobs[k], jobs'[k]) /\ evidence'[k] = evidence[k]
    BY <1>1, <1>5, <1>8
  <2>2. ASSUME NEW k \in Items
        PROVE  /\ jobs[k] # NoJob => jobs'[k] # NoJob
               /\ jobs'[k].state = "Retained" =>
                    jobs[k].state = "Retained" /\ jobs'[k].position = jobs[k].position
    BY <1>2, <1>7, <1>8 DEF Alike
  <2> QED BY <1>5, <1>8, <2>1, <2>2 DEF Revises
<1>16. Unseen(i) BY <1>5 DEF Unseen, RetainedRows, Wired, WireOK
<1>17. ASSUME NEW k \in Items, Sender[k] = s
       PROVE  /\ jobs'[k] # NoJob => Readable(k)'
              /\ jobs'[k].attempts + evidence'[k].spent = jobs[k].attempts + evidence[k].spent
              /\ Sender[k] \notin Quic /\ jobs'[k].state \in {"Pending", "Stopped"} /\ ~jobs'[k].uncertain
                   => Unseen(k)
  <2>1. CASE k = i
    <3>1. jobs[k].attempts = jobs'[k].attempts /\ evidence' = evidence
      BY <1>2, <1>5, <1>8, <2>1 DEF NoJob
    <3>2. Readable(k)' BY <1>2, <1>8, <2>1 DEF Readable
    <3> QED BY <1>16, <2>1, <3>1, <3>2
  <2>2. CASE k # i
    <3>1. Alike(jobs[k], jobs'[k]) /\ evidence' = evidence /\ TraceOK(k)
      BY <1>5, <1>8, <2>2 DEF Traceless
    <3>2. jobs'[k] # NoJob => Readable(k)' BY <3>1, AgedReadable DEF AllReadable, Alike
    <3> QED BY <3>1, <3>2 DEF TraceOK, Alike
  <2> QED BY <2>1, <2>2
<1> QED BY <1>5, <1>13, <1>14, <1>15, <1>17, RevisesKeeps

\* The row and the evidence of a re-armed job.
Renewed(i) == [jobs[i] EXCEPT !.state = IF jobs[i].uncertain THEN "Uncertain" ELSE "Pending",
                              !.attempts = 0, !.wait = 0]
Resumed(i) == [evidence[i] EXCEPT !.resumes = @ + 1, !.spent = @ + jobs[i].attempts]

\* A re-armed job keeps its uncertainty and its history: the attempts it spent
\* move into the evidence.
LEMMA ResumeKeeps ==
    ASSUME IInv, NEW s \in Senders, NEW ids \in SUBSET JobsOf(s), NEW d \in Delays, Resume(s, ids, d)
    PROVE  IInv'
<1>1. PICK rearm : rearm = {i \in ids : jobs[i].state = "Stopped"} OBVIOUS
<1>2. PICK aged : aged = Elapse(jobs, s, d) OBVIOUS
<1>5. /\ pc[s] = "idle"
      /\ jobs' = [i \in Items |-> IF i \in rearm THEN Renewed(i) ELSE aged[i]]
      /\ evidence' = [i \in Items |-> IF i \in rearm THEN Resumed(i) ELSE evidence[i]]
      /\ UNCHANGED <<tickVars, relayVars, netVars, faults, tally>>
  <2>1. pc[s] = "idle" BY Zenon DEF Resume
  <2>2. UNCHANGED <<tickVars, relayVars, netVars, faults, tally>> BY Zenon DEF Resume
  <2>3. jobs' = [i \in Items |-> IF i \in rearm THEN Renewed(i) ELSE aged[i]]
    BY <1>1, <1>2, Zenon DEF Resume, Renewed
  <2>4. evidence' = [i \in Items |-> IF i \in rearm THEN Resumed(i) ELSE evidence[i]]
    BY <1>1, Zenon DEF Resume, Resumed
  <2> QED BY ONLY <2>1, <2>2, <2>3, <2>4
<1>3. \E R : \E q \in Sorted(JobsOf(s), R) : queue' = [queue EXCEPT ![s] = q]
  BY Zenon DEF Resume
<1> USE DEF IInv
<1>4. aged \in [Items -> Rows] /\ \A k \in Items : Alike(jobs[k], aged[k])
  <2>1. jobs \in [Items -> Rows] /\ d \in Nat BY DEF Types, TypeOK, Rows, Delays
  <2> QED BY <1>2, <2>1, ElapseAlike
<1>6. ASSUME NEW k \in Items, k \notin rearm
      PROVE  /\ jobs'[k] \in Rows /\ Alike(jobs[k], jobs'[k]) /\ evidence'[k] = evidence[k]
             /\ evidence[k] \in [outages : Nat, resumes : Nat, spent : Nat]
  <2>1. jobs'[k] = aged[k] /\ evidence'[k] = evidence[k] BY ONLY <1>5, <1>6
  <2>2. evidence[k] \in [outages : Nat, resumes : Nat, spent : Nat] BY DEF Types, TypeOK
  <2> QED BY ONLY <1>4, <2>1, <2>2, k \in Items
<1>7. ASSUME NEW k \in rearm
      PROVE  /\ k \in Items /\ Sender[k] = s /\ jobs[k] \in Job /\ jobs[k].state = "Stopped"
             /\ Readable(k) /\ TraceOK(k)
             /\ evidence[k] \in [outages : Nat, resumes : Nat, spent : Nat]
  <2>1. k \in Items /\ Sender[k] = s /\ jobs[k] # NoJob /\ jobs[k].state = "Stopped"
    BY <1>1 DEF JobsOf
  <2>2. jobs[k] \in Rows BY <2>1 DEF Types, TypeOK, Rows
  <2>3. jobs[k] \in Job BY <2>1, <2>2, RowShape
  <2>4. Readable(k) /\ TraceOK(k) BY <2>1 DEF AllReadable, Traceless
  <2> QED BY <2>1, <2>3, <2>4 DEF Types, TypeOK
<1>8. ASSUME NEW k \in rearm
      PROVE  /\ jobs'[k] \in Job /\ jobs'[k].uncertain = jobs[k].uncertain
             /\ jobs'[k].state = IF jobs[k].uncertain THEN "Uncertain" ELSE "Pending"
             /\ jobs'[k].attempts = 0 /\ jobs'[k].position = jobs[k].position
  <2>1. PICK j \in Job : j = jobs[k] BY <1>7
  <2>2. PICK st \in JobStates : st = IF j.uncertain THEN "Uncertain" ELSE "Pending" BY DEF JobStates
  <2>3. jobs'[k] = Renewed(k) BY ONLY <1>5, <1>7, k \in rearm
  <2>4. Renewed(k) = [j EXCEPT !.state = st, !.attempts = 0, !.wait = 0]
    BY ONLY <2>1, <2>2 DEF Renewed
  <2>5. PICK u, o : u = j.uncertain /\ o = j.position OBVIOUS
  <2>6. u \in BOOLEAN /\ o \in Nat BY <2>5 DEF Job
  <2>7. Renewed(k) = [state |-> st, attempts |-> 0, wait |-> 0, uncertain |-> u, position |-> o]
    BY ONLY <2>4, <2>5, j \in Job DEF Job
  <2>8. Renewed(k) \in Job BY ONLY <2>2, <2>6, <2>7 DEF Job
  <2> QED BY ONLY <2>1, <2>2, <2>3, <2>5, <2>7, <2>8
<1>9. ASSUME NEW k \in rearm
      PROVE  /\ evidence'[k] \in [outages : Nat, resumes : Nat, spent : Nat]
             /\ evidence'[k].resumes = evidence[k].resumes + 1
             /\ evidence'[k].spent = evidence[k].spent + jobs[k].attempts
             /\ evidence[k].resumes \in Nat /\ evidence[k].spent \in Nat /\ jobs[k].attempts \in Nat
  <2>1. PICK e \in [outages : Nat, resumes : Nat, spent : Nat] : e = evidence[k] BY <1>7
  <2>2. PICK a \in Nat : a = jobs[k].attempts BY <1>7 DEF Job
  <2>3. evidence'[k] = Resumed(k) BY ONLY <1>5, <1>7, k \in rearm
  <2>4. PICK n \in Nat : n = e.resumes + 1 BY <2>1
  <2>5. PICK m \in Nat : m = e.spent + a BY <2>1, <2>2
  <2>6. Resumed(k) = [e EXCEPT !.resumes = n, !.spent = m]
    BY ONLY <2>1, <2>2, <2>4, <2>5 DEF Resumed
  <2>7. Resumed(k) = [outages |-> e.outages, resumes |-> n, spent |-> m]
    BY ONLY <2>6, e \in [outages : Nat, resumes : Nat, spent : Nat]
  <2>8. e.outages \in Nat /\ e.resumes \in Nat /\ e.spent \in Nat OBVIOUS
  <2>9. Resumed(k) \in [outages : Nat, resumes : Nat, spent : Nat] BY ONLY <2>4, <2>5, <2>7, <2>8
  <2> QED BY ONLY <2>1, <2>2, <2>3, <2>4, <2>5, <2>7, <2>8, <2>9
<1>10. rearm \subseteq Items BY <1>7
<1>11. jobs' \in [Items -> Rows]
  <2>1. jobs' = [k \in Items |-> jobs'[k]] BY ONLY <1>5
  <2>2. \A k \in Items : jobs'[k] \in Rows BY <1>6, <1>8 DEF Rows
  <2> QED BY ONLY <2>1, <2>2
<1>12. evidence' \in [Items -> [outages : Nat, resumes : Nat, spent : Nat]]
  <2>1. evidence' = [k \in Items |-> evidence'[k]] BY ONLY <1>5
  <2>2. \A k \in Items : evidence'[k] \in [outages : Nat, resumes : Nat, spent : Nat] BY <1>6, <1>9
  <2> QED BY ONLY <2>1, <2>2
<1>13. Types'
  <2>0. PICK R : \E q \in Sorted(JobsOf(s), R) : queue' = [queue EXCEPT ![s] = q] BY <1>3
  <2>1. PICK q \in Sorted(JobsOf(s), R) : queue' = [queue EXCEPT ![s] = q] BY <2>0
  <2>2. JobsOf(s) \in SUBSET Items /\ IsFiniteSet(JobsOf(s))
    BY DEF Capped, CapOK, Countable, JobsOf
  <2>3. q \in Seq(Items) BY <2>1, <2>2, SortedLists
  <2>4. queue' \in [Senders -> Seq(Items)] BY <2>1, <2>3 DEF Types
  <2> QED BY <1>5, <1>11, <1>12, <2>4 DEF Types, TypeOK, Rows, tickVars, relayVars, netVars
<1>14. ASSUME NEW k \in Items
       PROVE  /\ jobs'[k] = NoJob <=> jobs[k] = NoJob
              /\ jobs'[k].state = "Retained" <=> jobs[k].state = "Retained"
              /\ jobs'[k].position = jobs[k].position
  <2>1. CASE k \in rearm
    <3>1. jobs'[k] # NoJob /\ jobs[k] # NoJob BY <1>7, <1>8, <2>1, RowShape DEF Rows
    <3>2. jobs'[k].state # "Retained" /\ jobs[k].state # "Retained" BY <1>7, <1>8, <2>1
    <3> QED BY <1>8, <2>1, <3>1, <3>2
  <2>2. CASE k \notin rearm BY <1>6, <2>2 DEF Alike
  <2> QED BY <2>1, <2>2
<1>15. Capped'
  <2>1. Lasting BY <1>14 DEF Lasting
  <2> QED BY <2>1, CapsLast
<1>16. Revises(s)
  <2>1. \A k \in Items : Sender[k] # s => Alike(jobs[k], jobs'[k]) /\ evidence'[k] = evidence[k]
    BY <1>6, <1>7
  <2> QED BY <1>5, <1>11, <1>14, <2>1 DEF Revises
<1>17. ASSUME NEW k \in Items, Sender[k] = s
       PROVE  /\ jobs'[k] # NoJob => Readable(k)'
              /\ jobs'[k].attempts + evidence'[k].spent = jobs[k].attempts + evidence[k].spent
              /\ Sender[k] \notin Quic /\ jobs'[k].state \in {"Pending", "Stopped"} /\ ~jobs'[k].uncertain
                   => Unseen(k)
  <2>1. CASE k \in rearm
    <3>1. jobs'[k].attempts + evidence'[k].spent = jobs[k].attempts + evidence[k].spent
      BY <1>8, <1>9, <2>1
    <3>2. evidence'[k] # NoEvidence
      <4>1. evidence'[k].resumes # 0 BY <1>9, <2>1
      <4> QED BY <4>1 DEF NoEvidence
    <3>3. jobs[k].position = 0
      <4>1. jobs[k].position \in Nat BY <1>7, <2>1 DEF Job
      <4> QED BY <1>7, <2>1, <4>1 DEF Readable
    <3>4. jobs'[k].attempts <= MaxAttempts BY <1>8, <2>1
    <3>5. Readable(k)' BY <1>8, <2>1, <3>2, <3>3, <3>4 DEF Readable
    <3>6. Sender[k] \notin Quic /\ ~jobs'[k].uncertain => Unseen(k) BY <1>7, <1>8, <2>1 DEF TraceOK
    <3> QED BY <3>1, <3>5, <3>6
  <2>2. CASE k \notin rearm
    <3>1. Alike(jobs[k], jobs'[k]) /\ evidence'[k] = evidence[k] /\ TraceOK(k)
      BY <1>6, <2>2 DEF Traceless
    <3>2. jobs'[k] # NoJob => Readable(k)' BY <3>1, AgedReadable DEF AllReadable, Alike
    <3> QED BY <3>1, <3>2 DEF TraceOK, Alike
  <2> QED BY <2>1, <2>2
<1> QED BY <1>5, <1>13, <1>15, <1>16, <1>17, RevisesKeeps

-----------------------------------------------------------------------------
(* The theorems.                                                           *)

\* Empty queues and an empty mailbox.
LEMMA Initially == ASSUME Init PROVE IInv
<1> USE DEF Init
<1>1. Types
  <2>1. <<>> \in Seq(Items) OBVIOUS
  <2>2. NoJob \in Rows /\ NoReply \in Replies BY DEF Rows, NoReply, Replies
  <2> QED BY <2>1, <2>2 DEF Types, TypeOK, Rows, NoEvidence
<1>2. Countable({}) /\ Cardinality({}) = 0 /\ Bytes({}) = 0
  <2>1. Cells({}) = {} /\ Bytes({}) = Cardinality(Cells({})) BY DEF Cells, Bytes
  <2> QED BY <2>1, FS_EmptySet DEF Countable
<1>3. Capped
  <2> SUFFICES ASSUME NEW s \in Senders PROVE CapOK(s) BY DEF Capped
  <2>1. JobsOf(s) = {} BY DEF JobsOf
  <2>2. Live(s) = {} BY <2>1 DEF Live
  <2> QED BY <1>2, <2>1, <2>2 DEF CapOK
<1>4. AllReadable BY DEF AllReadable
<1>5. Ticking BY DEF Ticking, TickOK, Trying, IsInjective
<1>6. Wired BY DEF Wired
<1>7. Answered BY DEF Answered, ReplyOK, NoReply
<1>8. RetainedRows
  <2>1. ToSet(mailbox) = {} /\ IsInjective(mailbox) BY DEF ToSet, IsInjective
  <2>2. \A i \in Items : charge[i] = IF i \in ToSet(mailbox) THEN Sender[i] ELSE Nobody
    BY <2>1
  <2>3. \A i \in ToSet(mailbox) : jobs[i] # NoJob BY <2>1
  <2>4. ASSUME NEW s \in Senders
        PROVE  /\ Countable(ChargedTo(s))
               /\ Cardinality(ChargedTo(s)) <= KeyItems
               /\ Bytes(ChargedTo(s)) <= KeyBytes
    <3>1. ChargedTo(s) = {} BY DEF ChargedTo, Nobody
    <3> QED BY <1>2, <3>1
  <2> QED BY <2>1, <2>2, <2>3, <2>4 DEF RetainedRows
<1>9. Traceless BY DEF Traceless, TraceOK, Trying, NoJob
<1>10. RetainedIsHeld BY DEF RetainedIsHeld
<1>11. Charged BY DEF Charged, ChargeOK, Outcomes, Due, Trying, NoJob, NoEvidence
<1> QED BY <1>1, <1>3, <1>4, <1>5, <1>6, <1>7, <1>8, <1>9, <1>10, <1>11 DEF IInv

\* Every step preserves the invariant.
LEMMA Step == ASSUME IInv, [Next]_vars PROVE IInv'
<1>1. ASSUME NEW i \in Items, NEW d \in Delays, Enqueue(i, d) PROVE IInv' BY <1>1, EnqueueKeeps
<1>2. ASSUME NEW s \in Senders, NEW d \in Delays,
             BeginTick(s, JobsOf(s), d) \/ \E i \in JobsOf(s) : BeginTick(s, {i}, d)
      PROVE  IInv'
  <2>1. CASE BeginTick(s, JobsOf(s), d) BY <2>1, BeginTickKeeps
  <2>2. ASSUME NEW i \in JobsOf(s), BeginTick(s, {i}, d) PROVE IInv'
    <3>1. {i} \in SUBSET JobsOf(s) OBVIOUS
    <3> QED BY <2>2, <3>1, BeginTickKeeps
  <2> QED BY <1>2, <2>1, <2>2
<1>3. ASSUME NEW s \in Senders, TickStep(s) PROVE IInv'
  BY <1>3, ExhaustKeeps, IntendKeeps, SubmitKeeps, ReceiptKeeps, RefusedKeeps DEF TickStep
<1>4. ASSUME NEW s \in Senders, EndTick(s) \/ Overdue(s) \/ Outage(s) \/ Broken(s) PROVE IInv'
  BY <1>4, EndTickKeeps, OverdueKeeps, OutageKeeps, BrokenKeeps
<1>5. ASSUME NEW s \in Senders, NEW d \in Delays, Resume(s, JobsOf(s), d) PROVE IInv'
  BY <1>5, ResumeKeeps
<1>6. ASSUME NEW s \in Senders, NEW d \in Delays, NEW i \in JobsOf(s), Resume(s, {i}, d) PROVE IInv'
  <2>1. {i} \in SUBSET JobsOf(s) OBVIOUS
  <2> QED BY <1>6, <2>1, ResumeKeeps
<1>7. ASSUME NEW s \in Senders, Crash(s) \/ Reopen(s) \/ Rekey(s) PROVE IInv'
  BY <1>7, CrashKeeps, ReopenKeeps, RekeyKeeps
<1>8. ASSUME NEW r \in requests, RelayStep(r) \/ Lose(r) PROVE IInv'
  BY <1>8, ServeKeeps, UnservedKeeps DEF RelayStep
<1>9. ASSUME UNCHANGED vars PROVE IInv'
  <2>1. UNCHANGED <<jobs, evidence, queue, pc, batch, elapsed, prior, mailbox, charge, revoked,
                    requests, reply, faults, tally>>
    BY <1>9 DEF vars, queueVars, tickVars, relayVars, netVars
  <2> USE DEF IInv
  <2>2. Types' BY <2>1 DEF Types, TypeOK
  <2>3. Capped' /\ AllReadable' /\ RetainedRows' /\ RetainedIsHeld' BY <2>1, RowsKeep, StoreKeeps
  <2>4. Ticking' BY <2>1 DEF Ticking, TickOK, Trying, Open
  <2>5. Wired' /\ Answered' BY <2>1 DEF Wired, WireOK, Listening, Answered, ReplyOK
  <2>6. Traceless' BY <2>1 DEF Traceless, TraceOK, Unseen, Trying
  <2>7. Charged' BY <2>1 DEF Charged, ChargeOK, Outcomes, Due, Trying
  <2> QED BY <2>2, <2>3, <2>4, <2>5, <2>6, <2>7
<1> QED BY <1>1, <1>2, <1>3, <1>4, <1>5, <1>6, <1>7, <1>8, <1>9 DEF Next

\* The invariant holds in every reachable state.
LEMMA Always == Spec => []IInv
<1>1. Init => IInv BY Initially
<1>2. IInv /\ [Next]_vars => IInv' BY Step
<1> QED BY <1>1, <1>2, PTL DEF Spec

\* The rows of every queue are ones that reopening accepts, within its limits;
\* each charges exactly the attempts that had an outcome or are in progress, over
\* all crashes, outages and re-arms; a retained job is where its receipt says, and
\* what the mailbox holds is there once and charged once, within the caps.
THEOREM BooksAlwaysBalance == Spec => []BooksBalance
<1>1. ASSUME IInv PROVE BooksBalance
  <2> USE <1>1 DEF IInv
  <2>1. TypeOK BY DEF Types
  <2>2. AlwaysOpens
    <3> SUFFICES ASSUME NEW s \in Senders PROVE Valid(s) BY DEF AlwaysOpens
    <3>1. \A i \in JobsOf(s) : Readable(i) BY DEF AllReadable, JobsOf
    <3> QED BY <3>1 DEF Valid, Capped, CapOK
  <2>3. ChargesExact
    <3> SUFFICES ASSUME NEW i \in Items
                 PROVE  jobs[i].attempts + evidence[i].spent
                          = tally[i].refused + tally[i].retained + tally[i].unknown
                            + (IF pc[Sender[i]] \in {"send", "await"} /\ Head(batch[Sender[i]]) = i
                               THEN 1 ELSE 0)
      BY DEF ChargesExact
    <3> QED BY DEF Charged, ChargeOK, Outcomes, Due, Trying
  <2>4. RetentionIsCharged
    <3>1. \A i \in Items : (charge[i] = Sender[i]) <=> (i \in ToSet(mailbox))
      BY DEF RetainedRows, Nobody
    <3> QED BY <3>1 DEF RetentionIsCharged, RetainedRows
  <2> QED BY <2>1, <2>2, <2>3, <2>4 DEF BooksBalance
<1>2. IInv => BooksBalance BY <1>1
<1> QED BY <1>2, Always, PTL

\* Of the TLS client: between attempts, a job that is not uncertain has left
\* neither an item in the mailbox nor a request that may still be served.
THEOREM CertaintyIsJustified == Spec => []CertainMeansAbsent
<1>1. IInv => CertainMeansAbsent BY DEF IInv, Traceless, TraceOK, Unseen, CertainMeansAbsent
<1> QED BY <1>1, Always, PTL

-----------------------------------------------------------------------------
(* RelayScan.                                                              *)

USE ScanAssumption, AbsentIsNoFile

-----------------------------------------------------------------------------
(* The inductive invariant.                                                *)

\* The file of the cursor: absent before the first, whole after.
CursorFile(m) == m[CURSOR] = Absent \/ \E k \in 1..MaxItems : m[CURSOR] = Whole(k)

\* An item is published whole under its position, and the mailbox has it.
ItemFiles(d) ==
    \A n \in 1..MaxItems : d[n] # Absent => d[n] = Whole(n) /\ n <= head

\* A map m of root and a map d of items belong together: every item up to the
\* cursor is there and at most the next one, and each scratch is a prefix of
\* the next position; the scratch of an item is gone before the cursor's comes.
Agree(m, d) ==
    /\ reported <= CursorOf(m) /\ CursorOf(m) <= head
    /\ \A n \in 1..CursorOf(m) : d[n] = Whole(n)
    /\ \A n \in 1..MaxItems : d[n] # Absent => n <= CursorOf(m) + 1
    /\ d[ITEM_TMP] # Absent => /\ CursorOf(m) + 1 <= head
                               /\ PrefixOf(d[ITEM_TMP], CursorOf(m) + 1)
                               /\ d[CursorOf(m) + 1] = Absent
    /\ m[CURSOR_TMP] # Absent => /\ CursorOf(m) + 1 <= MaxItems
                                 /\ PrefixOf(m[CURSOR_TMP], CursorOf(m) + 1)
                                 /\ d[CursorOf(m) + 1] # Absent

IsDir(d) == d = [vis |-> d.vis, disk |-> d.disk, dirty |-> d.dirty]

\* Both directories, with every map the disk may hold.
Files ==
    /\ IsDir(root) /\ IsDir(items)
    /\ root.vis \in root.disk /\ items.vis \in items.disk
    /\ root.dirty \subseteq RootNames \ {NAMESPACE, CURSOR}
    /\ items.dirty \subseteq {ITEM_TMP}
    /\ \A m \in root.disk : DOMAIN m = RootNames /\ CursorFile(m)
    /\ \A d \in items.disk : DOMAIN d = ItemNames /\ ItemFiles(d)
    /\ \A m \in root.disk, d \in items.disk : Agree(m, d)

CursorSteps == {"cursor", "cursorSync", "cursorRename", "cursorDir"}
ItemSteps == {"item", "itemSync", "itemRename", "itemsDir"} \cup CursorSteps
ScanSteps == ItemSteps \cup {"page", "pageEnd", "open"}
SweepSteps == {"positions", "sigSync", "sigRename", "sigDir"}

\* The binding: settled before the cursor is read, and once open has returned.
Bound ==
    /\ scanPc \in {"bindSync", "bindRename"} => root.vis[NAMESPACE_TMP] = Binding
    /\ scanPc = "bindRename" => NAMESPACE_TMP \notin root.dirty
    /\ scanPc \in {"bindDir", "rootSync"} => root.vis[NAMESPACE] = Binding
    /\ scanPc \in ScanSteps => bound
    /\ scanPc \in SweepSteps \/ bound => \A m \in root.disk : m[NAMESPACE] = Binding

\* The guard's cursor is the one on disk.
Guard ==
    /\ scanPc \in (SweepSteps \cup ScanSteps) \ {"cursorDir"} =>
          \A m \in root.disk : CursorOf(m) = cursor
    /\ scanPc = "cursorDir" => /\ CursorOf(root.vis) = cursor + 1
                           /\ root.vis[CURSOR_TMP] = Absent

\* The page in hand.
Page ==
    /\ scanPc \in ItemSteps => cursor < upto /\ upto <= target
    /\ scanPc \in ItemSteps \cup {"page", "pageEnd"} => cursor <= target /\ target <= head
    /\ scanPc = "page" => cursor < target
    /\ scanPc = "pageEnd" /\ cursor = target =>
          /\ items.vis[ITEM_TMP] = Absent
          /\ cursor < MaxItems => items.vis[cursor + 1] = Absent

\* How far the item after the cursor and the next cursor have come.
Publication ==
    /\ scanPc \in {"itemSync", "itemRename"} => /\ items.vis[ITEM_TMP] = Whole(cursor + 1)
                                            /\ items.vis[cursor + 1] = Absent
    /\ scanPc = "itemRename" => ITEM_TMP \notin items.dirty
    /\ scanPc = "itemsDir" => /\ items.vis[ITEM_TMP] = Absent
                          /\ items.vis[cursor + 1] = Whole(cursor + 1)
    /\ scanPc \in CursorSteps => \A d \in items.disk :
          /\ d[ITEM_TMP] = Absent
          /\ d[cursor + 1] = Whole(cursor + 1)
          /\ \A n \in 1..MaxItems : d[n] # Absent => n <= cursor + 1
    /\ scanPc \in {"cursorSync", "cursorRename"} => root.vis[CURSOR_TMP] = Whole(cursor + 1)
    /\ scanPc = "cursorRename" => CURSOR_TMP \notin root.dirty

Numbers ==
    /\ scanPc \in {"closed", "open"} \cup Steps
    /\ cursor \in 0..MaxItems /\ upto \in 0..MaxItems /\ target \in 0..MaxItems
    /\ head \in 0..MaxItems /\ reported \in 0..MaxItems
    /\ verdict \in {"none", "Legacy"}
    /\ scanFaults \in 0..MaxScanFaults

ScanInv == Numbers /\ Files /\ Bound /\ Guard /\ Page /\ Publication

-----------------------------------------------------------------------------
(* Files, maps and directories.                                            *)

\* Whole and cut files are told apart, and neither is an absent one.
LEMMA FileFacts ==
    /\ \A v, w : Whole(v) # Cut(w)
    /\ \A v, w : Whole(v) = Whole(w) => v = w
    /\ \A v, w : Cut(v) = Cut(w) => v = w
    /\ \A v : "whole" \in DOMAIN Whole(v) /\ Whole(v).whole = v
    /\ \A v : "whole" \notin DOMAIN Cut(v)
    /\ \A v \in -1..MaxItems : Whole(v) # Absent /\ Cut(v) # Absent
<1>1. \A v : DOMAIN Whole(v) = {"whole"} /\ Whole(v).whole = v
  BY DEF Whole
<1>2. \A v : DOMAIN Cut(v) = {"cut"} /\ Cut(v).cut = v
  BY DEF Cut
<1>3. \A v \in -1..MaxItems : Whole(v) # Absent /\ Cut(v) # Absent
  OBVIOUS
<1> QED BY <1>1, <1>2, <1>3

\* The six names of root.
LEMMA NameFacts ==
    /\ {NAMESPACE, NAMESPACE_TMP, CURSOR, CURSOR_TMP, SIGNATURE, SIGNATURE_TMP} = RootNames
    /\ CURSOR \notin {NAMESPACE, NAMESPACE_TMP, CURSOR_TMP, SIGNATURE, SIGNATURE_TMP}
    /\ CURSOR_TMP \notin {NAMESPACE, NAMESPACE_TMP, CURSOR, SIGNATURE, SIGNATURE_TMP}
    /\ NAMESPACE \notin {NAMESPACE_TMP, CURSOR, CURSOR_TMP, SIGNATURE, SIGNATURE_TMP}
    /\ NAMESPACE_TMP \notin {NAMESPACE, CURSOR, CURSOR_TMP, SIGNATURE, SIGNATURE_TMP}
    /\ ITEM_TMP = 0 /\ ITEM_TMP \in ItemNames /\ ItemNames = 0..MaxItems
  BY DEF RootNames, NAMESPACE, NAMESPACE_TMP, CURSOR, CURSOR_TMP, SIGNATURE, SIGNATURE_TMP,
     ITEM_TMP, ItemNames

\* What read_cursor makes of a whole file and of none.
LEMMA CursorValue ==
    ASSUME NEW m
    PROVE  /\ m[CURSOR] = Absent => CursorOf(m) = 0
           /\ \A k \in 1..MaxItems : m[CURSOR] = Whole(k) => CursorOf(m) = k
           /\ CursorFile(m) => CursorOf(m) \in 0..MaxItems
<1>1. m[CURSOR] = Absent => CursorOf(m) = 0
  BY DEF CursorOf, Has
<1>2. ASSUME NEW k \in 1..MaxItems, m[CURSOR] = Whole(k) PROVE CursorOf(m) = k
  <2>1. m[CURSOR] # Absent /\ "whole" \in DOMAIN m[CURSOR] /\ m[CURSOR].whole = k
    BY <1>2, FileFacts
  <2> QED BY <2>1 DEF CursorOf, Has
<1> QED BY <1>1, <1>2 DEF CursorFile

\* Two maps with the same cursor file have the same cursor.
LEMMA SameCursor ==
    ASSUME NEW m, NEW k, k[CURSOR] = m[CURSOR]
    PROVE  CursorOf(k) = CursorOf(m) /\ (CursorFile(m) => CursorFile(k))
  BY DEF CursorOf, CursorFile, Has

\* Syncing a file changes no map.
LEMMA SyncedFile ==
    ASSUME NEW d, IsDir(d), NEW n
    PROVE  /\ SyncFile(d, n).vis = d.vis /\ SyncFile(d, n).disk = d.disk
           /\ SyncFile(d, n).dirty = d.dirty \ {n} /\ IsDir(SyncFile(d, n))
  BY DEF IsDir, SyncFile

\* What a power loss may make of the map m of names N, some of them dirty.
LossOf(r, m, N, dirty) ==
    /\ DOMAIN r = N
    /\ \A n \in N \ dirty : r[n] = m[n]
    /\ \A n \in N : m[n] = Absent => r[n] = Absent
    /\ \A n \in N : \A v \in -1..MaxItems :
          PrefixOf(m[n], v) => PrefixOf(r[n], v) /\ r[n] # Absent

\* The maps a power loss leaves: a name that is not dirty is as some map of the
\* disk has it, and a dirty one that is a prefix of v stays one.
LEMMA Losses ==
    ASSUME NEW d, NEW N, \A m \in d.disk : DOMAIN m = N, d.vis \in d.disk, NEW r \in AnyDisk(d)
    PROVE  \E m \in d.disk : LossOf(r, m, N, d.dirty)
<1>1. PICK m \in d.disk, t \in SUBSET d.dirty :
        r = [n \in DOMAIN d.vis |->
               IF n \in t /\ m[n] # Absent /\ "whole" \in DOMAIN m[n] THEN Cut(m[n].whole) ELSE m[n]]
  <2>1. r \in AnyDisk(d)
    OBVIOUS
  <2> QED BY ONLY <2>1 DEF AnyDisk
<1>2. DOMAIN d.vis = N
  OBVIOUS
<1>3. DOMAIN r = N
  BY <1>1, <1>2
<1>4. \A n \in N : r[n] = IF n \in t /\ m[n] # Absent /\ "whole" \in DOMAIN m[n]
                           THEN Cut(m[n].whole) ELSE m[n]
  BY <1>1, <1>2
<1>5. ASSUME NEW n \in N, NEW v \in -1..MaxItems, PrefixOf(m[n], v)
      PROVE  PrefixOf(r[n], v) /\ r[n] # Absent
  <2>1. CASE m[n] = Whole(v)
    <3>1. r[n] \in {Whole(v), Cut(v)}
      BY <1>4, <2>1, FileFacts
    <3> QED BY <3>1, FileFacts DEF PrefixOf
  <2>2. CASE m[n] = Cut(v)
    <3>1. r[n] = Cut(v)
      BY <1>4, <2>2, FileFacts
    <3> QED BY <3>1, FileFacts DEF PrefixOf
  <2> QED BY <1>5, <2>1, <2>2 DEF PrefixOf
<1>6. \A n \in N \ d.dirty : r[n] = m[n]
  BY <1>4
<1>7. \A n \in N : m[n] = Absent => r[n] = Absent
  BY <1>4
<1> QED BY <1>3, <1>5, <1>6, <1>7 DEF LossOf

-----------------------------------------------------------------------------
(* Updates of one directory.                                               *)

\* A map of root that differs from the visible one in other names only agrees
\* with every map of items.
LEMMA SameAgree ==
    ASSUME Files, NEW m, m[CURSOR] = root.vis[CURSOR],
           m[CURSOR_TMP] \in {root.vis[CURSOR_TMP], Absent}, NEW d \in items.disk
    PROVE  CursorFile(m) /\ CursorOf(m) = CursorOf(root.vis) /\ Agree(m, d)
<1>1. CursorOf(m) = CursorOf(root.vis) /\ CursorFile(m)
  BY SameCursor DEF Files
<1>2. Agree(root.vis, d)
  BY DEF Files
<1> QED BY <1>1, <1>2 DEF Agree

\* New maps of root that agree with what items may be keep the files sound.
LEMMA RootChange ==
    ASSUME Files,
           root'.vis \in root'.disk, root'.dirty \subseteq RootNames \ {NAMESPACE, CURSOR},
           IsDir(root'), UNCHANGED <<items, head, reported>>,
           \A m \in root'.disk \ root.disk :
              DOMAIN m = RootNames /\ CursorFile(m) /\ \A d \in items.disk : Agree(m, d)
    PROVE  Files'
<1>1. \A m \in root'.disk : DOMAIN m = RootNames /\ CursorFile(m) /\ \A d \in items.disk : Agree(m, d)
  BY DEF Files
<1> QED BY <1>1 DEF Files, Agree, ItemFiles, CursorFile, CursorOf, Has

\* The same for items.
LEMMA ItemsChange ==
    ASSUME Files,
           items'.vis \in items'.disk, items'.dirty \subseteq {ITEM_TMP},
           IsDir(items'), UNCHANGED <<root, head, reported>>,
           \A d \in items'.disk \ items.disk :
              DOMAIN d = ItemNames /\ ItemFiles(d) /\ \A m \in root.disk : Agree(m, d)
    PROVE  Files'
<1>1. \A d \in items'.disk : DOMAIN d = ItemNames /\ ItemFiles(d) /\ \A m \in root.disk : Agree(m, d)
  BY DEF Files
<1> QED BY <1>1 DEF Files, Agree, ItemFiles, CursorFile, CursorOf, Has

\* The mailbox may grow and a report return while the files stay as they are.
LEMMA SameFiles ==
    ASSUME ScanInv, UNCHANGED <<root, items>>, head' \in Nat, head' >= head,
           reported' = reported \/ \A m \in root.disk : reported' <= CursorOf(m)
    PROVE  Files'
<1>1. \A m \in root.disk : CursorOf(m) \in 0..MaxItems
  BY CursorValue DEF ScanInv, Files
<1>2. head \in Nat /\ reported \in Nat
  BY DEF ScanInv, Numbers
<1>3. ASSUME NEW d \in items.disk PROVE ItemFiles(d)'
  BY <1>2, <1>3 DEF ScanInv, Files, ItemFiles
<1>4. ASSUME NEW m \in root.disk, NEW d \in items.disk PROVE Agree(m, d)'
  <2>1. Agree(m, d) /\ CursorOf(m) \in 0..MaxItems
    BY <1>1, <1>4 DEF ScanInv, Files
  <2>2. reported' <= CursorOf(m)
    BY <1>4, <2>1 DEF Agree
  <2> QED BY <1>2, <2>1, <2>2 DEF Agree, CursorOf, Has
<1> QED BY <1>3, <1>4 DEF ScanInv, Files, CursorFile, IsDir

-----------------------------------------------------------------------------
(* Steps that change no file.                                              *)

\* The least of three numbers.
LEMMA MinOfThree ==
    ASSUME NEW a \in Int, NEW b \in Int, NEW c \in Int
    PROVE  /\ Min({a, b, c}) \in {a, b, c}
           /\ Min({a, b, c}) <= a /\ Min({a, b, c}) <= b /\ Min({a, b, c}) <= c
<1>1. \E x \in {a, b, c} : \A y \in {a, b, c} : x <= y
  OBVIOUS
<1> QED BY <1>1 DEF Min

LEMMA MaxOfTwo ==
    ASSUME NEW a \in Int, NEW b \in Int
    PROVE  Max({a, b}) \in {a, b} /\ Max({a, b}) >= a /\ Max({a, b}) >= b
<1>1. \E x \in {a, b} : \A y \in {a, b} : x >= y
  OBVIOUS
<1> QED BY <1>1 DEF Max

LEMMA ControlStep ==
    ASSUME ScanInv,
           OpenBound \/ OpenLegacy \/ PositionsIdle \/ NextPage \/ Close \/ Grow \/ Pause \/ Die
    PROVE  ScanInv'
<1>1. UNCHANGED <<root, items, cursor, upto, target, reported>> /\ head' \in Nat /\ head' >= head
  BY DEF OpenBound, OpenLegacy, PositionsIdle, NextPage, Close, Grow, Pause, Die, cursorVars, histVars,
     ScanInv, Numbers
<1>2. Files'
  BY <1>1, SameFiles
<1>3. Numbers'
  <2>1. CASE Grow
    BY <1>1, <2>1 DEF Grow, histVars, ScanInv, Numbers
  <2>2. CASE Pause \/ Die
    BY <1>1, <2>2 DEF Pause, Die, ScanInv, Numbers, Faulty
  <2>3. CASE OpenBound \/ OpenLegacy \/ PositionsIdle \/ NextPage \/ Close
    BY <1>1, <2>3 DEF OpenBound, OpenLegacy, PositionsIdle, NextPage, Close, histVars, ScanInv,
       Numbers, Goto, Steps
  <2> QED BY <2>1, <2>2, <2>3
<1>4. Bound'
  BY <1>1 DEF OpenBound, OpenLegacy, PositionsIdle, NextPage, Close, Grow, Pause, Die, cursorVars,
     histVars, ScanInv, Bound, Goto, Steps, ScanSteps, ItemSteps, CursorSteps, SweepSteps
<1>5. Guard'
  BY <1>1 DEF OpenBound, OpenLegacy, PositionsIdle, NextPage, Close, Grow, Pause, Die,
     ScanInv, Guard, Goto, Steps, ScanSteps, ItemSteps, CursorSteps, SweepSteps, CursorOf, Has
<1>6. Page'
  BY <1>1 DEF OpenBound, OpenLegacy, PositionsIdle, NextPage, Close, Grow, Pause, Die,
     ScanInv, Page, Goto, Steps, ItemSteps, CursorSteps, Numbers
<1>7. Publication'
  BY <1>1 DEF OpenBound, OpenLegacy, PositionsIdle, NextPage, Close, Grow, Pause, Die,
     ScanInv, Publication, Goto, Steps, ItemSteps, CursorSteps
<1> QED BY <1>2, <1>3, <1>4, <1>5, <1>6, <1>7 DEF ScanInv

\* A page is asked for: at the head there is no residue, since an item and its
\* scratch are of positions the mailbox has.
LEMMA FetchStep ==
    ASSUME ScanInv, Fetch
    PROVE  ScanInv'
<1> DEFINE goal == IF scanPc = "page" THEN target ELSE head
           last == Min({cursor + Limit, head, goal})
<1>0. /\ scanPc \in {"open", "page"} /\ target' = goal /\ upto' = last
      /\ scanPc' = IF last > cursor THEN "item" ELSE "pageEnd"
      /\ UNCHANGED <<root, items, cursor, head, bound, reported, scanFaults, verdict>>
  BY DEF Fetch, histVars
<1>1. /\ cursor \in 0..MaxItems /\ head \in 0..MaxItems /\ target \in 0..MaxItems
      /\ \A m \in root.disk : CursorOf(m) = cursor
      /\ bound
      /\ scanPc = "page" => cursor < target /\ target <= head
      /\ root.vis \in root.disk /\ items.vis \in items.disk
  BY <1>0 DEF ScanInv, Numbers, Guard, Bound, Page, ScanSteps, ItemSteps, Files
<1>2. Agree(root.vis, items.vis) /\ CursorOf(root.vis) = cursor /\ ItemFiles(items.vis)
  BY <1>1 DEF ScanInv, Files
<1>3. cursor <= head
  BY <1>2 DEF Agree
<1>g. goal \in 0..MaxItems /\ cursor <= goal /\ goal <= head
  BY <1>1, <1>3
<1>l. /\ last \in {cursor + Limit, head, goal} /\ last <= goal /\ last <= head
  <2>1. cursor + Limit \in Int /\ head \in Int /\ goal \in Int
    BY <1>1, <1>g
  <2> HIDE DEF goal
  <2> QED BY <2>1, MinOfThree
<1>4. /\ goal \in 0..MaxItems /\ cursor <= goal /\ goal <= head
      /\ last \in {cursor + Limit, head, goal} /\ last <= goal /\ last <= head
  BY <1>g, <1>l
<1>5. last \in 0..MaxItems
  BY <1>1, <1>4
<1>6. Files'
  BY <1>0, <1>1, SameFiles
<1>7. Numbers'
  BY <1>0, <1>4, <1>5 DEF ScanInv, Numbers, Steps
<1>8. Bound'
  BY <1>0, <1>1 DEF ScanInv, Bound
<1>9. Guard'
  BY <1>0, <1>1 DEF ScanInv, Guard
<1>10. ASSUME ~(last > cursor), cursor = goal
       PROVE  /\ items.vis[ITEM_TMP] = Absent
              /\ cursor < MaxItems => items.vis[cursor + 1] = Absent
  <2>1. cursor = head
    BY <1>1, <1>4, <1>10
  <2> QED BY <1>1, <1>2, <2>1 DEF Agree, ItemFiles
<1>11. Page'
  BY <1>0, <1>1, <1>4, <1>5, <1>10 DEF Page, ItemSteps, CursorSteps
<1>12. Publication'
  BY <1>0 DEF Publication, CursorSteps
<1> QED BY <1>6, <1>7, <1>8, <1>9, <1>11, <1>12 DEF ScanInv

\* A report: at the target nothing is left over.
LEMMA ReportStep ==
    ASSUME ScanInv, Report
    PROVE  ScanInv'
<1>1. /\ scanPc = "pageEnd" /\ cursor \in 0..MaxItems /\ head \in 0..MaxItems /\ reported \in 0..MaxItems
      /\ \A m \in root.disk : CursorOf(m) = cursor /\ reported <= cursor
      /\ bound
  BY DEF Report, ScanInv, Numbers, Guard, Bound, ScanSteps, Files, Agree
<1>2. /\ scanPc' = "open" /\ reported' = Max({reported, cursor}) /\ target' = 0
      /\ UNCHANGED <<root, items, cursor, upto, head, bound, scanFaults, verdict>>
  BY <1>1 DEF Report, Check, Has, ScanInv, Page
<1>3. reported' = cursor
  <2>1. \E m : m \in root.disk
    BY DEF ScanInv, Files
  <2>2. reported <= cursor
    BY <1>1, <2>1
  <2>3. Max({reported, cursor}) \in {reported, cursor} /\ Max({reported, cursor}) >= cursor
    BY <1>1, MaxOfTwo
  <2> QED BY <1>1, <1>2, <2>2, <2>3
<1>4. Files'
  <2>1. head' \in Nat /\ head' >= head /\ \A m \in root.disk : reported' <= CursorOf(m)
    BY <1>1, <1>2, <1>3
  <2> QED BY <1>2, <2>1, SameFiles
<1>5. Numbers' /\ Bound' /\ Guard' /\ Page' /\ Publication'
  BY <1>1, <1>2, <1>3 DEF ScanInv, Numbers, Bound, Guard, Page, Publication, ItemSteps, CursorSteps
<1> QED BY <1>4, <1>5 DEF ScanInv

-----------------------------------------------------------------------------
(* Steps of an open: the binding and the signature.                        *)

\* Files of root beside the cursor and its scratch do not matter to items.
LEMMA RootOther ==
    ASSUME Files,
           root'.vis \in root'.disk, root'.dirty \subseteq RootNames \ {NAMESPACE, CURSOR},
           IsDir(root'), UNCHANGED <<items, head, reported>>,
           \A m \in root'.disk \ root.disk :
              /\ DOMAIN m = RootNames /\ m[CURSOR] = root.vis[CURSOR]
              /\ m[CURSOR_TMP] \in {root.vis[CURSOR_TMP], Absent}
    PROVE  Files' /\ \A m \in root'.disk : m \in root.disk \/ CursorOf(m) = CursorOf(root.vis)
<1>1. \A m \in root'.disk \ root.disk : CursorFile(m) /\ CursorOf(m) = CursorOf(root.vis)
  BY SameCursor DEF Files
<1>2. \A m \in root'.disk \ root.disk, d \in items.disk : Agree(m, d)
  BY SameAgree
<1>3. Files'
  BY <1>1, <1>2, RootChange
<1> QED BY <1>1, <1>3

\* A sync of a file or of root itself adds no map.
LEMMA RootKeeps ==
    ASSUME Files, root'.disk \subseteq root.disk, root'.vis \in root'.disk,
           root'.dirty \subseteq root.dirty, IsDir(root'), UNCHANGED <<items, head, reported>>
    PROVE  Files'
<1>1. root'.dirty \subseteq RootNames \ {NAMESPACE, CURSOR}
  BY DEF Files
<1> QED BY <1>1, RootChange

\* Scanning has not begun: only the binding and the guard's cursor are at stake.
LEMMA OpenEnds ==
    ASSUME Numbers', Files', Bound', scanPc' \notin ScanSteps,
           scanPc' \in SweepSteps => \A m \in root'.disk : CursorOf(m) = cursor'
    PROVE  ScanInv'
<1>1. Guard'
  BY DEF Guard, ScanSteps, SweepSteps, ItemSteps, CursorSteps, CursorOf, Has
<1>2. Page' /\ Publication'
  BY DEF Page, Publication, ScanSteps, ItemSteps, CursorSteps
<1> QED BY <1>1, <1>2 DEF ScanInv

LEMMA BindStep ==
    ASSUME ScanInv, OpenFresh \/ BindSync \/ BindRename \/ BindDir
    PROVE  ScanInv'
<1>0. /\ Files /\ IsDir(root) /\ root.vis \in root.disk /\ DOMAIN root.vis = RootNames
      /\ root.dirty \subseteq RootNames \ {NAMESPACE, CURSOR}
  BY DEF ScanInv, Files
<1>1. UNCHANGED <<items, cursor, upto, target, head, bound, reported, scanFaults, verdict>>
  BY DEF OpenFresh, BindSync, BindRename, BindDir, cursorVars, histVars
<1>2. CASE OpenFresh
  <2> DEFINE w == [root.vis EXCEPT ![NAMESPACE_TMP] = Binding]
  <2>1. /\ root' = [vis |-> w, disk |-> root.disk \cup {w}, dirty |-> root.dirty \cup {NAMESPACE_TMP}]
        /\ scanPc' = "bindSync" /\ root.vis[NAMESPACE] = Absent
    BY <1>2, NameFacts DEF OpenFresh, Goto, Has, Write, Update
  <2>2. DOMAIN w = RootNames /\ w[CURSOR] = root.vis[CURSOR] /\ w[CURSOR_TMP] = root.vis[CURSOR_TMP]
        /\ w[NAMESPACE_TMP] = Binding
    BY <1>0, NameFacts
  <2> HIDE DEF w
  <2>3. root'.vis = w /\ root'.disk = root.disk \cup {w} /\ root'.dirty = root.dirty \cup {NAMESPACE_TMP}
        /\ IsDir(root')
    BY <2>1 DEF IsDir
  <2>4. Files'
    <3>1. /\ root'.disk \ root.disk \subseteq {w} /\ root'.vis \in root'.disk
          /\ root'.dirty \subseteq RootNames \ {NAMESPACE, CURSOR}
      BY <1>0, <2>3, NameFacts
    <3> QED BY <1>0, <1>1, <2>2, <2>3, <3>1, RootOther
  <2>5. ~bound
    <3>1. root.vis[NAMESPACE] # Binding
      BY <2>1, FileFacts DEF Binding
    <3> QED BY <1>0, <3>1 DEF ScanInv, Bound
  <2>6. Bound'
    BY <1>1, <2>1, <2>2, <2>3, <2>5 DEF Bound, ScanSteps, ItemSteps, CursorSteps, SweepSteps
  <2>7. Numbers'
    BY <1>1, <2>1 DEF ScanInv, Numbers, Steps
  <2> QED BY <2>1, <2>4, <2>6, <2>7, OpenEnds DEF ScanSteps, ItemSteps, CursorSteps, SweepSteps
<1>3. CASE BindSync
  <2>1. /\ root'.vis = root.vis /\ root'.disk = root.disk /\ root'.dirty = root.dirty \ {NAMESPACE_TMP}
        /\ IsDir(root') /\ scanPc = "bindSync" /\ scanPc' = "bindRename"
    BY <1>0, <1>3, SyncedFile DEF BindSync, Goto
  <2>2. Files'
    BY <1>0, <1>1, <2>1, RootKeeps
  <2>3. Bound'
    BY <1>1, <2>1 DEF ScanInv, Bound, ScanSteps, ItemSteps, CursorSteps, SweepSteps
  <2>4. Numbers'
    BY <1>1, <2>1 DEF ScanInv, Numbers, Steps
  <2> QED BY <2>1, <2>2, <2>3, <2>4, OpenEnds DEF ScanSteps, ItemSteps, CursorSteps, SweepSteps
<1>4. CASE BindRename
  <2> DEFINE w == [root.vis EXCEPT ![NAMESPACE] = root.vis[NAMESPACE_TMP], ![NAMESPACE_TMP] = Absent]
  <2>1. /\ root' = [vis |-> w, disk |-> root.disk \cup {w},
                    dirty |-> root.dirty \cup IF NAMESPACE_TMP \in root.dirty THEN {NAMESPACE} ELSE {}]
        /\ scanPc = "bindRename" /\ scanPc' = "bindDir"
    BY <1>4 DEF BindRename, Goto, Rename, Update
  <2>2. root.vis[NAMESPACE_TMP] = Binding /\ NAMESPACE_TMP \notin root.dirty
    BY <2>1 DEF ScanInv, Bound
  <2>3. DOMAIN w = RootNames /\ w[CURSOR] = root.vis[CURSOR] /\ w[CURSOR_TMP] = root.vis[CURSOR_TMP]
        /\ w[NAMESPACE] = Binding
    BY <1>0, <2>2, NameFacts
  <2> HIDE DEF w
  <2>4. root'.vis = w /\ root'.disk = root.disk \cup {w} /\ root'.dirty = root.dirty
        /\ IsDir(root')
    BY <2>1, <2>2 DEF IsDir
  <2>5. Files'
    <3>1. root'.disk \ root.disk \subseteq {w} /\ root'.vis \in root'.disk
      BY <2>4
    <3> QED BY <1>0, <1>1, <2>3, <2>4, <3>1, RootOther
  <2>6. Bound'
    BY <1>1, <2>1, <2>3, <2>4 DEF ScanInv, Bound, ScanSteps, ItemSteps, CursorSteps, SweepSteps
  <2>7. Numbers'
    BY <1>1, <2>1 DEF ScanInv, Numbers, Steps
  <2> QED BY <2>1, <2>5, <2>6, <2>7, OpenEnds DEF ScanSteps, ItemSteps, CursorSteps, SweepSteps
<1>5. CASE BindDir
  <2>1. /\ root'.vis = root.vis /\ root'.disk = {root.vis} /\ root'.dirty \subseteq root.dirty
        /\ IsDir(root') /\ scanPc = "bindDir" /\ scanPc' = "rootSync"
    BY <1>5 DEF BindDir, Goto, IsDir, SyncDir
  <2>2. Files'
    BY <1>0, <1>1, <2>1, RootKeeps
  <2>3. Bound'
    BY <1>0, <1>1, <2>1 DEF ScanInv, Bound, ScanSteps, ItemSteps, CursorSteps, SweepSteps
  <2>4. Numbers'
    BY <1>1, <2>1 DEF ScanInv, Numbers, Steps
  <2> QED BY <2>1, <2>2, <2>3, <2>4, OpenEnds DEF ScanSteps, ItemSteps, CursorSteps, SweepSteps
<1> QED BY <1>2, <1>3, <1>4, <1>5

\* The open forces the visible root, whose cursor the guard then holds.
LEMMA RootSyncStep ==
    ASSUME ScanInv, RootSync
    PROVE  ScanInv'
<1>0. /\ Files /\ root.vis \in root.disk /\ CursorFile(root.vis)
      /\ root.dirty \subseteq RootNames \ {NAMESPACE, CURSOR}
  BY DEF ScanInv, Files
<1>1. /\ root'.vis = root.vis /\ root'.disk = {root.vis} /\ root'.dirty \subseteq root.dirty
      /\ IsDir(root') /\ scanPc = "rootSync" /\ scanPc' = "positions"
      /\ cursor' = CursorOf(root.vis) /\ target' = 0
      /\ UNCHANGED <<items, upto, head, bound, reported, scanFaults, verdict>>
  BY DEF RootSync, Goto, IsDir, SyncDir, histVars
<1>2. Files'
  BY <1>0, <1>1, RootKeeps
<1>3. Bound'
  BY <1>0, <1>1 DEF ScanInv, Bound, ScanSteps, ItemSteps, CursorSteps, SweepSteps
<1>4. Numbers'
  BY <1>0, <1>1, CursorValue DEF ScanInv, Numbers, Steps
<1> QED BY <1>1, <1>2, <1>3, <1>4, OpenEnds DEF ScanSteps, ItemSteps, CursorSteps, SweepSteps

\* A map of root and one of items that agree open: whatever a crash left.
LEMMA AgreeOpens ==
    ASSUME NEW m, NEW d, CursorFile(m), Agree(m, d), m[NAMESPACE] = Binding, head \in 0..MaxItems
    PROVE  Opens(m, d) /\ PendingIsSound(m, d, CursorOf(m))
<1> DEFINE c == CursorOf(m)
<1>1. c \in 0..MaxItems
  BY CursorValue
<1>2. PendingIsSound(m, d, c)
  BY <1>1 DEF PendingIsSound, Agree, Has, ItemNames
<1>3. ASSUME NEW n \in 1..c PROVE n \in ItemNames \ {ITEM_TMP} /\ Has(d, n)
  <2>1. d[n] = Whole(n) /\ n \in -1..MaxItems
    BY <1>1, <1>3 DEF Agree
  <2> QED BY <1>1, <1>3, <2>1, FileFacts DEF Has, ItemNames, ITEM_TMP
<1>4. ASSUME NEW n \in ItemNames \ {ITEM_TMP}, Has(d, n) PROVE n \in 1..(c + 1)
  <2>1. n \in 1..MaxItems
    BY <1>4 DEF ItemNames, ITEM_TMP
  <2> QED BY <1>1, <1>4, <2>1 DEF Agree, Has
<1>5. Contiguous(d, c)
  BY <1>3, <1>4 DEF Contiguous
<1> QED BY <1>1, <1>2, <1>5 DEF Opens

\* The sweep finds the directory in order and writes the signature.
LEMMA SweepStep ==
    ASSUME ScanInv, PositionsSweep \/ SigSync \/ SigRename \/ SigDir
    PROVE  ScanInv'
<1>0. /\ Files /\ IsDir(root) /\ root.vis \in root.disk /\ DOMAIN root.vis = RootNames
      /\ root.dirty \subseteq RootNames \ {NAMESPACE, CURSOR}
      /\ scanPc \in SweepSteps
      /\ \A m \in root.disk : m[NAMESPACE] = Binding /\ CursorOf(m) = cursor
  BY DEF ScanInv, Files, Bound, Guard, PositionsSweep, SigSync, SigRename, SigDir, Goto, SweepSteps,
     ScanSteps, ItemSteps, CursorSteps
<1>1. CASE PositionsSweep
  <2>1. Opens(root.vis, items.vis)
    BY <1>0, AgreeOpens DEF ScanInv, Numbers, Files
  <2> DEFINE s == SignatureOf(items.vis, cursor)
             w == [root.vis EXCEPT ![SIGNATURE_TMP] = Absent]
             x == [w EXCEPT ![SIGNATURE_TMP] = s]
  <2>2. /\ scanPc' = "sigSync"
        /\ UNCHANGED <<items, cursor, upto, target, head, bound, reported, scanFaults, verdict>>
        /\ root' = Write(Delete(root, SIGNATURE_TMP), SIGNATURE_TMP, s)
    BY <1>1, <2>1 DEF PositionsSweep, Check, cursorVars, histVars
  <2>3. /\ root'.vis = x /\ root'.disk = root.disk \cup {w, x}
        /\ root'.dirty = root.dirty \cup {SIGNATURE_TMP} /\ IsDir(root')
    BY <2>2 DEF Write, Delete, Update, IsDir
  <2>4. \A m \in {w, x} : /\ DOMAIN m = RootNames /\ m[CURSOR] = root.vis[CURSOR]
                          /\ m[CURSOR_TMP] = root.vis[CURSOR_TMP] /\ m[NAMESPACE] = root.vis[NAMESPACE]
    BY <1>0, NameFacts
  <2> HIDE DEF w, x, s
  <2>5. root'.dirty \subseteq RootNames \ {NAMESPACE, CURSOR} /\ root'.vis \in root'.disk
    BY <1>0, <2>3, NameFacts
  <2>6. Files' /\ \A m \in root'.disk : m \in root.disk \/ CursorOf(m) = CursorOf(root.vis)
    BY <1>0, <2>2, <2>3, <2>4, <2>5, RootOther
  <2>7. \A m \in root'.disk : CursorOf(m) = cursor'
    BY <1>0, <2>2, <2>6
  <2>8. \A m \in root'.disk : m[NAMESPACE] = Binding
    BY <1>0, <2>3, <2>4
  <2>9. Bound'
    BY <2>2, <2>8 DEF Bound, ScanSteps, ItemSteps, CursorSteps, SweepSteps
  <2>10. Numbers'
    BY <2>2 DEF ScanInv, Numbers, Steps
  <2> QED BY <2>2, <2>6, <2>7, <2>9, <2>10, OpenEnds DEF ScanSteps, ItemSteps, CursorSteps
<1>2. CASE SigSync
  <2>1. /\ root'.vis = root.vis /\ root'.disk = root.disk /\ root'.dirty = root.dirty \ {SIGNATURE_TMP}
        /\ IsDir(root') /\ scanPc' = "sigRename"
        /\ UNCHANGED <<items, cursor, upto, target, head, bound, reported, scanFaults, verdict>>
    BY <1>0, <1>2, SyncedFile DEF SigSync, Goto, cursorVars, histVars
  <2>2. Files'
    BY <1>0, <2>1, RootKeeps
  <2>3. Bound'
    BY <1>0, <2>1 DEF Bound, ScanSteps, ItemSteps, CursorSteps, SweepSteps
  <2>4. Numbers'
    BY <2>1 DEF ScanInv, Numbers, Steps
  <2> QED BY <1>0, <2>1, <2>2, <2>3, <2>4, OpenEnds DEF ScanSteps, ItemSteps, CursorSteps
<1>3. CASE SigRename
  <2> DEFINE w == [root.vis EXCEPT ![SIGNATURE] = root.vis[SIGNATURE_TMP], ![SIGNATURE_TMP] = Absent]
  <2>1. /\ root'.vis = w /\ root'.disk = root.disk \cup {w} /\ IsDir(root') /\ scanPc' = "sigDir"
        /\ root'.dirty \subseteq root.dirty \cup {SIGNATURE}
        /\ UNCHANGED <<items, cursor, upto, target, head, bound, reported, scanFaults, verdict>>
    BY <1>3 DEF SigRename, Goto, Rename, Update, IsDir, cursorVars, histVars
  <2>2. /\ DOMAIN w = RootNames /\ w[CURSOR] = root.vis[CURSOR]
        /\ w[CURSOR_TMP] = root.vis[CURSOR_TMP] /\ w[NAMESPACE] = root.vis[NAMESPACE]
    BY <1>0, NameFacts
  <2> HIDE DEF w
  <2>3. root'.dirty \subseteq RootNames \ {NAMESPACE, CURSOR} /\ root'.vis \in root'.disk
    BY <1>0, <2>1, NameFacts
  <2>4. Files' /\ \A m \in root'.disk : m \in root.disk \/ CursorOf(m) = CursorOf(root.vis)
    BY <1>0, <2>1, <2>2, <2>3, RootOther
  <2>5. \A m \in root'.disk : CursorOf(m) = cursor' /\ m[NAMESPACE] = Binding
    BY <1>0, <2>1, <2>2, <2>4
  <2>6. Bound'
    BY <2>1, <2>5 DEF Bound, ScanSteps, ItemSteps, CursorSteps, SweepSteps
  <2>7. Numbers'
    BY <2>1 DEF ScanInv, Numbers, Steps
  <2> QED BY <2>1, <2>4, <2>5, <2>6, <2>7, OpenEnds DEF ScanSteps, ItemSteps, CursorSteps
<1>4. CASE SigDir
  <2>1. /\ root'.vis = root.vis /\ root'.disk = {root.vis} /\ root'.dirty \subseteq root.dirty
        /\ IsDir(root') /\ scanPc' = "open" /\ bound'
        /\ UNCHANGED <<items, cursor, upto, target, head, reported, scanFaults, verdict>>
    BY <1>4 DEF SigDir, Goto, IsDir, SyncDir, cursorVars
  <2>2. Files'
    BY <1>0, <2>1, RootKeeps
  <2>3. Bound' /\ Numbers'
    BY <1>0, <2>1 DEF ScanInv, Numbers, Bound
  <2>4. Guard'
    BY <1>0, <2>1 DEF Guard
  <2>5. Page' /\ Publication'
    BY <2>1 DEF Page, Publication, ItemSteps, CursorSteps
  <2> QED BY <2>2, <2>3, <2>4, <2>5 DEF ScanInv
<1> QED BY <1>1, <1>2, <1>3, <1>4

-----------------------------------------------------------------------------
(* Publishing the cursor.                                                  *)

LEMMA CursorStep ==
    ASSUME ScanInv, CursorWrite \/ CursorSync
    PROVE  ScanInv'
<1>0. /\ Files /\ IsDir(root) /\ root.vis \in root.disk /\ items.vis \in items.disk
      /\ DOMAIN root.vis = RootNames /\ CursorFile(root.vis)
      /\ root.dirty \subseteq RootNames \ {NAMESPACE, CURSOR}
      /\ scanPc \in {"cursor", "cursorSync"} /\ bound
      /\ \A m \in root.disk : m[NAMESPACE] = Binding /\ CursorOf(m) = cursor
      /\ \A d \in items.disk : /\ d[ITEM_TMP] = Absent
                               /\ d[cursor + 1] = Whole(cursor + 1)
                               /\ \A n \in 1..MaxItems : d[n] # Absent => n <= cursor + 1
      /\ cursor < upto /\ upto <= target /\ target <= head
      /\ cursor \in 0..MaxItems /\ head \in 0..MaxItems /\ target \in 0..MaxItems /\ upto \in 0..MaxItems
  BY DEF ScanInv, Files, Bound, Guard, Publication, Page, CursorWrite, CursorSync, Goto, Numbers,
     ScanSteps, ItemSteps, CursorSteps
<1>1. CASE CursorWrite
  <2>1. PendingIsSound(root.vis, items.vis, cursor)
    BY <1>0, AgreeOpens DEF ScanInv, Files
  <2> DEFINE w == [root.vis EXCEPT ![CURSOR_TMP] = Absent]
             x == [w EXCEPT ![CURSOR_TMP] = Whole(cursor + 1)]
  <2>2. /\ scanPc' = "cursorSync"
        /\ UNCHANGED <<items, cursor, upto, target, head, bound, reported, scanFaults, verdict>>
        /\ root' = Write(Delete(root, CURSOR_TMP), CURSOR_TMP, Whole(cursor + 1))
    BY <1>1, <2>1 DEF CursorWrite, Check, cursorVars, histVars
  <2>3. /\ root'.vis = x /\ root'.disk = root.disk \cup {w, x}
        /\ root'.dirty = root.dirty \cup {CURSOR_TMP} /\ IsDir(root')
    BY <2>2 DEF Write, Delete, Update, IsDir
  <2>4. /\ \A m \in {w, x} : /\ DOMAIN m = RootNames /\ m[CURSOR] = root.vis[CURSOR]
                             /\ m[NAMESPACE] = root.vis[NAMESPACE]
        /\ w[CURSOR_TMP] = Absent /\ x[CURSOR_TMP] = Whole(cursor + 1)
    BY <1>0, NameFacts
  <2> HIDE DEF w, x
  <2>5. \A m \in {w, x} : CursorFile(m) /\ CursorOf(m) = cursor
    BY <1>0, <2>4, SameCursor
  <2>6. ASSUME NEW d \in items.disk PROVE Agree(w, d) /\ Agree(x, d)
    <3>1. Agree(root.vis, d) /\ CursorOf(root.vis) = cursor
      BY <1>0, <2>6 DEF Files
    <3>2. d[cursor + 1] # Absent /\ PrefixOf(x[CURSOR_TMP], cursor + 1) /\ cursor + 1 <= MaxItems
      BY <1>0, <2>4, <2>6, FileFacts DEF PrefixOf
    <3>3. Agree(w, d)
      BY <2>4, <2>5, <3>1 DEF Agree
    <3>4. Agree(x, d)
      BY <2>5, <3>1, <3>2 DEF Agree
    <3> QED BY <3>3, <3>4
  <2>7. Files'
    <3>1. /\ root'.dirty \subseteq RootNames \ {NAMESPACE, CURSOR} /\ root'.vis \in root'.disk
          /\ root'.disk \ root.disk \subseteq {w, x}
      BY <1>0, <2>3, NameFacts
    <3> QED BY <1>0, <2>2, <2>3, <2>4, <2>5, <2>6, <3>1, RootChange
  <2>8. \A m \in root'.disk : CursorOf(m) = cursor /\ m[NAMESPACE] = Binding
    BY <1>0, <2>3, <2>4, <2>5
  <2>9. Bound' /\ Guard'
    BY <1>0, <2>2, <2>8 DEF Bound, Guard
  <2>10. Numbers'
    BY <2>2 DEF ScanInv, Numbers, Steps
  <2>11. Page'
    BY <1>0, <2>2 DEF Page
  <2>12. Publication'
    BY <1>0, <2>2, <2>3, <2>4 DEF Publication
  <2> QED BY <2>7, <2>9, <2>10, <2>11, <2>12 DEF ScanInv
<1>2. CASE CursorSync
  <2>1. /\ root'.vis = root.vis /\ root'.disk = root.disk /\ root'.dirty = root.dirty \ {CURSOR_TMP}
        /\ IsDir(root') /\ scanPc = "cursorSync" /\ scanPc' = "cursorRename"
        /\ UNCHANGED <<items, cursor, upto, target, head, bound, reported, scanFaults, verdict>>
    BY <1>0, <1>2, SyncedFile DEF CursorSync, Goto, cursorVars, histVars
  <2>2. Files'
    BY <1>0, <2>1, RootKeeps
  <2>3. Bound' /\ Guard'
    BY <1>0, <2>1 DEF Bound, Guard
  <2>4. Numbers'
    BY <2>1 DEF ScanInv, Numbers, Steps
  <2>5. Page'
    BY <1>0, <2>1 DEF Page
  <2>6. Publication'
    BY <1>0, <2>1 DEF ScanInv, Publication
  <2> QED BY <2>2, <2>3, <2>4, <2>5, <2>6 DEF ScanInv
<1> QED BY <1>1, <1>2

\* The cursor moves: the old map and the new one may both be on disk, and items
\* agrees with either.
LEMMA CursorRenameStep ==
    ASSUME ScanInv, CursorRename
    PROVE  ScanInv'
<1>0. /\ Files /\ IsDir(root) /\ root.vis \in root.disk /\ DOMAIN root.vis = RootNames
      /\ root.dirty \subseteq RootNames \ {NAMESPACE, CURSOR}
      /\ scanPc = "cursorRename" /\ bound
      /\ \A m \in root.disk : m[NAMESPACE] = Binding /\ CursorOf(m) = cursor
      /\ \A d \in items.disk : /\ d[ITEM_TMP] = Absent
                               /\ d[cursor + 1] = Whole(cursor + 1)
                               /\ \A n \in 1..MaxItems : d[n] # Absent => n <= cursor + 1
      /\ root.vis[CURSOR_TMP] = Whole(cursor + 1) /\ CURSOR_TMP \notin root.dirty
      /\ cursor < upto /\ upto <= target /\ target <= head
      /\ cursor \in 0..MaxItems /\ head \in 0..MaxItems /\ target \in 0..MaxItems /\ upto \in 0..MaxItems
      /\ reported \in 0..MaxItems
  BY DEF ScanInv, Files, Bound, Guard, Publication, Page, CursorRename, Goto, Numbers,
     ScanSteps, ItemSteps, CursorSteps
<1> DEFINE w == [root.vis EXCEPT ![CURSOR] = root.vis[CURSOR_TMP], ![CURSOR_TMP] = Absent]
<1>1. /\ root'.vis = w /\ root'.disk = root.disk \cup {w} /\ IsDir(root') /\ scanPc' = "cursorDir"
      /\ root'.dirty = root.dirty
      /\ UNCHANGED <<items, cursor, upto, target, head, bound, reported, scanFaults, verdict>>
  BY <1>0 DEF CursorRename, Goto, Rename, Update, IsDir, cursorVars, histVars
<1>2. /\ DOMAIN w = RootNames /\ w[CURSOR] = Whole(cursor + 1) /\ w[CURSOR_TMP] = Absent
      /\ w[NAMESPACE] = root.vis[NAMESPACE]
  BY <1>0, NameFacts
<1> HIDE DEF w
<1>3. cursor + 1 \in 1..MaxItems
  BY <1>0
<1>4. CursorFile(w) /\ CursorOf(w) = cursor + 1
  BY <1>2, <1>3, CursorValue DEF CursorFile
<1>5. ASSUME NEW d \in items.disk PROVE Agree(w, d)
  <2>1. Agree(root.vis, d) /\ CursorOf(root.vis) = cursor
    BY <1>0, <1>5 DEF Files
  <2>2. reported <= cursor + 1 /\ cursor + 1 <= head
    BY <1>0, <2>1 DEF Agree
  <2>3. ASSUME NEW n \in 1..(cursor + 1) PROVE d[n] = Whole(n)
    <3>1. CASE n \in 1..cursor
      BY <2>1, <3>1 DEF Agree
    <3>2. CASE n = cursor + 1
      BY <1>0, <1>5, <3>2
    <3> QED BY <1>0, <2>3, <3>1, <3>2
  <2>4. \A n \in 1..MaxItems : d[n] # Absent => n <= (cursor + 1) + 1
    BY <1>0, <1>5
  <2>5. d[ITEM_TMP] = Absent
    BY <1>0, <1>5
  <2> QED BY <1>2, <1>4, <2>2, <2>3, <2>4, <2>5 DEF Agree
<1>6. Files'
  <2>1. root'.disk \ root.disk \subseteq {w} /\ root'.vis \in root'.disk
    BY <1>1
  <2> QED BY <1>0, <1>1, <1>2, <1>4, <1>5, <2>1, RootChange
<1>7. Bound'
  BY <1>0, <1>1, <1>2 DEF Bound
<1>8. Guard'
  BY <1>1, <1>2, <1>4 DEF Guard
<1>9. Numbers'
  BY <1>1 DEF ScanInv, Numbers, Steps
<1>10. Page' /\ Publication'
  BY <1>0, <1>1 DEF Page, Publication
<1> QED BY <1>6, <1>7, <1>8, <1>9, <1>10 DEF ScanInv

LEMMA CursorDirStep ==
    ASSUME ScanInv, CursorDir
    PROVE  ScanInv'
<1>0. /\ Files /\ IsDir(root) /\ root.vis \in root.disk /\ items.vis \in items.disk
      /\ scanPc = "cursorDir" /\ bound /\ root.vis[CURSOR_TMP] = Absent
      /\ \A m \in root.disk : m[NAMESPACE] = Binding
      /\ CursorOf(root.vis) = cursor + 1
      /\ items.vis[ITEM_TMP] = Absent
      /\ \A n \in 1..MaxItems : items.vis[n] # Absent => n <= cursor + 1
      /\ cursor < upto /\ upto <= target /\ target <= head
      /\ cursor \in 0..MaxItems /\ head \in 0..MaxItems /\ target \in 0..MaxItems /\ upto \in 0..MaxItems
  BY DEF ScanInv, Files, Bound, Guard, Publication, Page, CursorDir, Numbers,
     ScanSteps, ItemSteps, CursorSteps
<1>1. /\ root'.vis = root.vis /\ root'.disk = {root.vis} /\ root'.dirty \subseteq root.dirty
      /\ IsDir(root') /\ cursor' = cursor + 1
      /\ scanPc' = IF cursor + 1 < upto THEN "item" ELSE "pageEnd"
      /\ UNCHANGED <<items, upto, target, head, bound, reported, scanFaults, verdict>>
  BY DEF CursorDir, SyncDir, IsDir, histVars
<1>2. Files'
  BY <1>0, <1>1, RootKeeps
<1>3. Bound' /\ Guard'
  BY <1>0, <1>1 DEF Bound, Guard
<1>4. Numbers'
  BY <1>0, <1>1 DEF ScanInv, Numbers, Steps
<1>5. cursor + 1 < MaxItems => items.vis[(cursor + 1) + 1] = Absent
  BY <1>0
<1>6. Page'
  BY <1>0, <1>1, <1>5 DEF Page, ItemSteps, CursorSteps
<1>7. Publication'
  BY <1>1 DEF Publication, CursorSteps
<1> QED BY <1>2, <1>3, <1>4, <1>6, <1>7 DEF ScanInv

-----------------------------------------------------------------------------
(* Publishing an item.                                                     *)

\* What is known while the item after the cursor is being published.
ItemContext ==
    /\ Files /\ IsDir(items) /\ items.vis \in items.disk /\ DOMAIN items.vis = ItemNames
    /\ items.dirty \subseteq {ITEM_TMP}
    /\ root.vis \in root.disk /\ ItemFiles(items.vis)
    /\ scanPc \in ItemSteps /\ bound
    /\ \A m \in root.disk : /\ m[NAMESPACE] = Binding /\ CursorOf(m) = cursor
                            /\ Agree(m, items.vis)
    /\ cursor < upto /\ upto <= target /\ target <= head
    /\ cursor \in 0..MaxItems /\ head \in 0..MaxItems /\ target \in 0..MaxItems /\ upto \in 0..MaxItems
    /\ cursor + 1 \in 1..MaxItems /\ cursor + 1 \in ItemNames /\ cursor + 1 # ITEM_TMP
    /\ ITEM_TMP \in ItemNames

LEMMA InItem ==
    ASSUME ScanInv, scanPc \in {"item", "itemSync", "itemRename", "itemsDir"}
    PROVE  ItemContext
<1>1. /\ cursor < upto /\ upto <= target /\ target <= head /\ bound
      /\ cursor \in 0..MaxItems /\ head \in 0..MaxItems /\ target \in 0..MaxItems /\ upto \in 0..MaxItems
      /\ \A m \in root.disk : CursorOf(m) = cursor /\ m[NAMESPACE] = Binding
      /\ scanPc \in ItemSteps
  BY DEF ScanInv, Numbers, Page, Bound, Guard, ScanSteps, ItemSteps, CursorSteps
<1>2. /\ cursor + 1 \in 1..MaxItems /\ cursor + 1 \in ItemNames /\ cursor + 1 # ITEM_TMP
      /\ ITEM_TMP \in ItemNames
  BY <1>1 DEF ItemNames, ITEM_TMP
<1> QED BY <1>1, <1>2 DEF ItemContext, ScanInv, Files

\* A step that goes on with the same item or to its cursor, root as it was.
LEMMA ItemGoesOn ==
    ASSUME ScanInv, ItemContext, Files', Publication', scanPc' \in ItemSteps \ {"cursorDir"},
           UNCHANGED <<root, cursor, upto, target, head, bound, reported, scanFaults, verdict>>
    PROVE  ScanInv'
<1>1. Numbers'
  BY DEF ScanInv, Numbers, Steps, ItemSteps, CursorSteps
<1>2. Bound'
  BY DEF ItemContext, Bound, ItemSteps, CursorSteps
<1>3. Guard'
  BY DEF ItemContext, Guard, CursorOf, Has
<1>4. Page'
  BY DEF ItemContext, Page, ItemSteps, CursorSteps
<1> QED BY <1>1, <1>2, <1>3, <1>4 DEF ScanInv

\* The item is there already, whole: it gets its barrier.
LEMMA ItemPresentStep ==
    ASSUME ScanInv, ItemPresent
    PROVE  ScanInv'
<1>0. ItemContext /\ scanPc = "item"
  BY InItem DEF ItemPresent
<1>1. items.vis[cursor + 1] # Absent /\ items.vis[cursor + 1] = Whole(cursor + 1)
  BY <1>0 DEF ItemPresent, Has, ItemContext, ItemFiles
<1>2. /\ scanPc' = "cursor" /\ items' = SyncDir(items)
      /\ UNCHANGED <<root, cursor, upto, target, head, bound, reported, scanFaults, verdict>>
  BY <1>1 DEF ItemPresent, Check, cursorVars, histVars
<1>3. /\ items'.vis = items.vis /\ items'.disk = {items.vis} /\ items'.dirty \subseteq items.dirty
      /\ IsDir(items')
  BY <1>2 DEF SyncDir, IsDir
<1>4. Files'
  <2>1. items'.dirty \subseteq {ITEM_TMP} /\ items'.vis \in items'.disk /\ items'.disk \ items.disk = {}
    BY <1>0, <1>3 DEF ItemContext
  <2> QED BY <1>0, <1>2, <1>3, <2>1, ItemsChange DEF ItemContext
<1>5. items.vis[ITEM_TMP] = Absent /\ \A n \in 1..MaxItems : items.vis[n] # Absent => n <= cursor + 1
  BY <1>0, <1>1 DEF ItemContext, Agree
<1>6. Publication'
  BY <1>1, <1>2, <1>3, <1>5 DEF Publication
<1> QED BY <1>0, <1>2, <1>4, <1>6, ItemGoesOn DEF ItemSteps, CursorSteps

\* A scratch is a prefix of this very item, and is replaced.
LEMMA ItemWriteStep ==
    ASSUME ScanInv, ItemWrite
    PROVE  ScanInv'
<1>0. ItemContext /\ scanPc = "item" /\ items.vis[cursor + 1] = Absent
  BY InItem DEF ItemWrite, Has
<1>1. Has(items.vis, ITEM_TMP) => PrefixOf(items.vis[ITEM_TMP], cursor + 1)
  BY <1>0 DEF ItemContext, Agree, Has
<1> DEFINE w == [items.vis EXCEPT ![ITEM_TMP] = Absent]
           x == [w EXCEPT ![ITEM_TMP] = Whole(cursor + 1)]
<1>2. /\ scanPc' = "itemSync"
      /\ items' = Write(Delete(items, ITEM_TMP), ITEM_TMP, Whole(cursor + 1))
      /\ UNCHANGED <<root, cursor, upto, target, head, bound, reported, scanFaults, verdict>>
  BY <1>1 DEF ItemWrite, Check, cursorVars, histVars
<1>3. /\ items'.vis = x /\ items'.disk = items.disk \cup {w, x}
      /\ items'.dirty = items.dirty \cup {ITEM_TMP} /\ IsDir(items')
  BY <1>2 DEF Write, Delete, Update, IsDir
<1>4. /\ \A d \in {w, x} : /\ DOMAIN d = ItemNames
                           /\ \A n \in ItemNames \ {ITEM_TMP} : d[n] = items.vis[n]
      /\ w[ITEM_TMP] = Absent /\ x[ITEM_TMP] = Whole(cursor + 1)
  BY <1>0 DEF ItemContext
<1> HIDE DEF w, x
<1>5. \A n \in 1..MaxItems : n \in ItemNames \ {ITEM_TMP}
  BY NameFacts
<1>6. ASSUME NEW d \in {w, x} PROVE ItemFiles(d)
  BY <1>0, <1>4, <1>5, <1>6 DEF ItemContext, ItemFiles
<1>7. ASSUME NEW d \in {w, x}, NEW m \in root.disk PROVE Agree(m, d)
  <2>1. CursorOf(m) = cursor /\ Agree(m, items.vis) /\ cursor \in 0..MaxItems
    BY <1>0, <1>7 DEF ItemContext
  <2>2. \A n \in 1..MaxItems : d[n] = items.vis[n]
    BY <1>4, <1>5, <1>7
  <2>3. m[CURSOR_TMP] = Absent
    BY <1>0, <2>1 DEF Agree
  <2>4. d[cursor + 1] = Absent
    BY <1>0, <2>2 DEF ItemContext
  <2>5. d[ITEM_TMP] # Absent => PrefixOf(d[ITEM_TMP], cursor + 1) /\ cursor + 1 <= head
    BY <1>0, <1>4, <1>7 DEF PrefixOf, ItemContext
  <2>6. \A n \in 1..cursor : d[n] = Whole(n)
    BY <2>1, <2>2 DEF Agree
  <2> QED BY <2>1, <2>2, <2>3, <2>4, <2>5, <2>6 DEF Agree
<1>8. Files'
  <2>1. /\ items'.dirty \subseteq {ITEM_TMP} /\ items'.vis \in items'.disk
        /\ items'.disk \ items.disk \subseteq {w, x}
    BY <1>0, <1>3 DEF ItemContext
  <2> QED BY <1>0, <1>2, <1>3, <1>4, <1>6, <1>7, <2>1, ItemsChange DEF ItemContext
<1>9. items'.vis[cursor + 1] = Absent
  BY <1>0, <1>3, <1>4 DEF ItemContext
<1>10. Publication'
  BY <1>2, <1>3, <1>4, <1>9 DEF Publication, CursorSteps
<1> QED BY <1>0, <1>2, <1>8, <1>10, ItemGoesOn DEF ItemSteps, CursorSteps

LEMMA ItemSyncStep ==
    ASSUME ScanInv, ItemSync
    PROVE  ScanInv'
<1>0. ItemContext /\ scanPc = "itemSync"
  BY InItem DEF ItemSync, Goto
<1>1. /\ items'.vis = items.vis /\ items'.disk = items.disk /\ items'.dirty = items.dirty \ {ITEM_TMP}
      /\ IsDir(items') /\ scanPc' = "itemRename"
      /\ UNCHANGED <<root, cursor, upto, target, head, bound, reported, scanFaults, verdict>>
  BY <1>0, SyncedFile DEF ItemSync, Goto, cursorVars, histVars, ItemContext
<1>2. Files'
  <2>1. items'.dirty \subseteq {ITEM_TMP} /\ items'.vis \in items'.disk /\ items'.disk \ items.disk = {}
    BY <1>0, <1>1 DEF ItemContext
  <2> QED BY <1>0, <1>1, <2>1, ItemsChange DEF ItemContext
<1>3. Publication'
  BY <1>0, <1>1 DEF ScanInv, Publication, CursorSteps
<1> QED BY <1>0, <1>1, <1>2, <1>3, ItemGoesOn DEF ItemSteps, CursorSteps

LEMMA ItemRenameStep ==
    ASSUME ScanInv, ItemRename
    PROVE  ScanInv'
<1>0. /\ ItemContext /\ scanPc = "itemRename" /\ ITEM_TMP \notin items.dirty
      /\ items.vis[ITEM_TMP] = Whole(cursor + 1) /\ items.vis[cursor + 1] = Absent
  BY InItem DEF ItemRename, Goto, ScanInv, Publication
<1> DEFINE w == [items.vis EXCEPT ![cursor + 1] = items.vis[ITEM_TMP], ![ITEM_TMP] = Absent]
<1>1. /\ items'.vis = w /\ items'.disk = items.disk \cup {w} /\ IsDir(items') /\ scanPc' = "itemsDir"
      /\ items'.dirty = items.dirty
      /\ UNCHANGED <<root, cursor, upto, target, head, bound, reported, scanFaults, verdict>>
  BY <1>0 DEF ItemRename, Goto, Rename, Update, IsDir, cursorVars, histVars
<1>2. /\ DOMAIN w = ItemNames /\ w[ITEM_TMP] = Absent /\ w[cursor + 1] = Whole(cursor + 1)
      /\ \A n \in ItemNames \ {ITEM_TMP, cursor + 1} : w[n] = items.vis[n]
  BY <1>0 DEF ItemContext
<1> HIDE DEF w
<1>3. \A n \in 1..MaxItems : n \in ItemNames \ {ITEM_TMP}
  BY NameFacts
<1>4. ItemFiles(w)
  <2> SUFFICES ASSUME NEW n \in 1..MaxItems, w[n] # Absent PROVE w[n] = Whole(n) /\ n <= head
    BY DEF ItemFiles
  <2>1. CASE n = cursor + 1
    BY <1>0, <1>2, <2>1 DEF ItemContext
  <2>2. CASE n # cursor + 1
    BY <1>0, <1>2, <1>3, <2>2 DEF ItemContext, ItemFiles
  <2> QED BY <2>1, <2>2
<1>5. ASSUME NEW m \in root.disk PROVE Agree(m, w)
  <2>1. CursorOf(m) = cursor /\ Agree(m, items.vis) /\ cursor \in 0..MaxItems /\ cursor + 1 \in 1..MaxItems
    BY <1>0, <1>5 DEF ItemContext
  <2>2. ASSUME NEW n \in 1..cursor PROVE w[n] = Whole(n)
    <3>1. n \in ItemNames \ {ITEM_TMP, cursor + 1} /\ items.vis[n] = Whole(n)
      BY <1>3, <2>1, <2>2 DEF Agree
    <3> QED BY <1>2, <3>1
  <2>3. ASSUME NEW n \in 1..MaxItems, w[n] # Absent PROVE n <= cursor + 1
    <3>1. CASE n # cursor + 1
      BY <1>2, <1>3, <2>1, <2>3, <3>1 DEF Agree
    <3> QED BY <2>1, <3>1
  <2>4. m[CURSOR_TMP] = Absent
    BY <1>0, <2>1 DEF Agree
  <2> QED BY <1>2, <2>1, <2>2, <2>3, <2>4 DEF Agree
<1>6. Files'
  <2>1. items'.vis \in items'.disk /\ items'.disk \ items.disk \subseteq {w}
    BY <1>1
  <2> QED BY <1>0, <1>1, <1>2, <1>4, <1>5, <2>1, ItemsChange DEF ItemContext
<1>7. Publication'
  BY <1>1, <1>2 DEF Publication, CursorSteps
<1> QED BY <1>0, <1>1, <1>6, <1>7, ItemGoesOn DEF ItemSteps, CursorSteps

LEMMA ItemsDirStep ==
    ASSUME ScanInv, ItemsDir
    PROVE  ScanInv'
<1>0. /\ ItemContext /\ scanPc = "itemsDir"
      /\ items.vis[ITEM_TMP] = Absent /\ items.vis[cursor + 1] = Whole(cursor + 1)
  BY InItem DEF ItemsDir, Goto, ScanInv, Publication
<1>1. /\ items'.vis = items.vis /\ items'.disk = {items.vis} /\ items'.dirty \subseteq items.dirty
      /\ IsDir(items') /\ scanPc' = "cursor"
      /\ UNCHANGED <<root, cursor, upto, target, head, bound, reported, scanFaults, verdict>>
  BY DEF ItemsDir, Goto, SyncDir, IsDir, cursorVars, histVars
<1>2. Files'
  <2>1. items'.dirty \subseteq {ITEM_TMP} /\ items'.vis \in items'.disk /\ items'.disk \ items.disk = {}
    BY <1>0, <1>1 DEF ItemContext
  <2> QED BY <1>0, <1>1, <2>1, ItemsChange DEF ItemContext
<1>3. \A n \in 1..MaxItems : items.vis[n] # Absent => n <= cursor + 1
  BY <1>0 DEF ItemContext, Agree
<1>4. Publication'
  BY <1>0, <1>1, <1>3 DEF Publication
<1> QED BY <1>0, <1>1, <1>2, <1>4, ItemGoesOn DEF ItemSteps, CursorSteps

-----------------------------------------------------------------------------
(* Deaths inside a write and power losses.                                 *)

\* A closed directory: the files and the binding are all there is.
LEMMA ClosedEnds ==
    ASSUME ScanInv, scanPc' = "closed", Files', Faulty,
           bound' => \A m \in root'.disk : m[NAMESPACE] = Binding,
           UNCHANGED <<cursor, upto, target, head, bound, reported, verdict>>
    PROVE  ScanInv'
<1>1. Numbers'
  BY DEF ScanInv, Numbers, Faulty
<1>2. Bound' /\ Guard' /\ Page' /\ Publication'
  BY DEF Bound, Guard, Page, Publication, ScanSteps, ItemSteps, CursorSteps, SweepSteps
<1> QED BY <1>1, <1>2 DEF ScanInv

LEMMA DieInWriteStep ==
    ASSUME ScanInv, DieInWrite
    PROVE  ScanInv'
<1>0. /\ Files /\ IsDir(root) /\ root.vis \in root.disk /\ DOMAIN root.vis = RootNames
      /\ root.dirty \subseteq RootNames \ {NAMESPACE, CURSOR}
      /\ bound => \A m \in root.disk : m[NAMESPACE] = Binding
  BY DEF ScanInv, Files, Bound
<1>1. /\ scanPc' = "closed" /\ Faulty
      /\ UNCHANGED <<cursor, upto, target, head, bound, reported, verdict>>
  BY DEF DieInWrite, cursorVars
<1>2. ASSUME NEW n \in {NAMESPACE_TMP, SIGNATURE_TMP}, NEW v, root' = Write(root, n, v), UNCHANGED items
      PROVE  ScanInv'
  <2> DEFINE w == [root.vis EXCEPT ![n] = v]
  <2>1. /\ root'.vis = w /\ root'.disk = root.disk \cup {w} /\ root'.dirty = root.dirty \cup {n}
        /\ IsDir(root')
    BY <1>2 DEF Write, Update, IsDir
  <2>2. /\ DOMAIN w = RootNames /\ w[CURSOR] = root.vis[CURSOR] /\ w[CURSOR_TMP] = root.vis[CURSOR_TMP]
        /\ w[NAMESPACE] = root.vis[NAMESPACE]
    BY <1>0, <1>2, NameFacts
  <2> HIDE DEF w
  <2>3. /\ root'.disk \ root.disk \subseteq {w} /\ root'.vis \in root'.disk
        /\ root'.dirty \subseteq RootNames \ {NAMESPACE, CURSOR}
    BY <1>0, <1>2, <2>1, NameFacts
  <2>4. Files'
    BY <1>0, <1>1, <1>2, <2>1, <2>2, <2>3, RootOther
  <2> QED BY <1>0, <1>1, <2>1, <2>2, <2>4, ClosedEnds
<1>3. ASSUME scanPc = "itemSync", items' = Write(items, ITEM_TMP, Cut(cursor + 1)), UNCHANGED root
      PROVE  ScanInv'
  <2>0. ItemContext /\ items.vis[cursor + 1] = Absent
    BY <1>3, InItem DEF ScanInv, Publication
  <2> DEFINE w == [items.vis EXCEPT ![ITEM_TMP] = Cut(cursor + 1)]
  <2>1. /\ items'.vis = w /\ items'.disk = items.disk \cup {w} /\ IsDir(items')
        /\ items'.dirty = items.dirty \cup {ITEM_TMP}
    BY <1>3 DEF Write, Update, IsDir
  <2>2. /\ DOMAIN w = ItemNames /\ w[ITEM_TMP] = Cut(cursor + 1)
        /\ \A n \in ItemNames \ {ITEM_TMP} : w[n] = items.vis[n]
    BY <2>0 DEF ItemContext
  <2> HIDE DEF w
  <2>3. \A n \in 1..MaxItems : w[n] = items.vis[n]
    BY <2>2, NameFacts
  <2>4. ItemFiles(w)
    BY <2>0, <2>3 DEF ItemContext, ItemFiles
  <2>5. ASSUME NEW m \in root.disk PROVE Agree(m, w)
    <3>1. CursorOf(m) = cursor /\ Agree(m, items.vis) /\ cursor \in 0..MaxItems
      BY <2>0, <2>5 DEF ItemContext
    <3>2. m[CURSOR_TMP] = Absent
      BY <2>0, <3>1 DEF Agree
    <3>3. w[cursor + 1] = Absent /\ PrefixOf(w[ITEM_TMP], cursor + 1) /\ cursor + 1 <= head
      BY <2>0, <2>2, <2>3 DEF ItemContext, PrefixOf
    <3>4. \A n \in 1..cursor : w[n] = Whole(n)
      BY <2>3, <3>1 DEF Agree
    <3> QED BY <2>3, <3>1, <3>2, <3>3, <3>4 DEF Agree
  <2>6. Files'
    <3>1. /\ items'.dirty \subseteq {ITEM_TMP} /\ items'.vis \in items'.disk
          /\ items'.disk \ items.disk \subseteq {w}
      BY <2>0, <2>1 DEF ItemContext
    <3> QED BY <1>1, <1>3, <2>0, <2>1, <2>2, <2>4, <2>5, <3>1, ItemsChange DEF ItemContext
  <2> QED BY <1>0, <1>1, <1>3, <2>6, ClosedEnds
<1>4. ASSUME scanPc = "cursorSync", root' = Write(root, CURSOR_TMP, Cut(cursor + 1)), UNCHANGED items
      PROVE  ScanInv'
  <2>0. /\ \A m \in root.disk : CursorOf(m) = cursor
        /\ \A d \in items.disk : d[cursor + 1] = Whole(cursor + 1)
        /\ cursor \in 0..MaxItems /\ cursor + 1 \in 1..MaxItems
    <3>1. cursor \in 0..MaxItems /\ upto \in 0..MaxItems /\ cursor < upto
      BY <1>4 DEF ScanInv, Numbers, Page, ItemSteps, CursorSteps
    <3>2. cursor + 1 \in 1..MaxItems
      BY <3>1
    <3> QED BY <1>4, <3>1, <3>2 DEF ScanInv, Guard, Publication, ScanSteps, ItemSteps, CursorSteps
  <2> DEFINE w == [root.vis EXCEPT ![CURSOR_TMP] = Cut(cursor + 1)]
  <2>1. /\ root'.vis = w /\ root'.disk = root.disk \cup {w} /\ root'.dirty = root.dirty \cup {CURSOR_TMP}
        /\ IsDir(root')
    BY <1>4 DEF Write, Update, IsDir
  <2>2. /\ DOMAIN w = RootNames /\ w[CURSOR] = root.vis[CURSOR] /\ w[CURSOR_TMP] = Cut(cursor + 1)
        /\ w[NAMESPACE] = root.vis[NAMESPACE]
    BY <1>0, NameFacts
  <2> HIDE DEF w
  <2>3. CursorFile(w) /\ CursorOf(w) = cursor
    BY <1>0, <2>0, <2>2, SameCursor DEF Files
  <2>4. ASSUME NEW d \in items.disk PROVE Agree(w, d)
    <3>1. Agree(root.vis, d) /\ CursorOf(root.vis) = cursor
      BY <1>0, <2>0, <2>4 DEF Files
    <3>2. d[cursor + 1] # Absent /\ PrefixOf(w[CURSOR_TMP], cursor + 1) /\ cursor + 1 <= MaxItems
      BY <2>0, <2>2, <2>4, FileFacts DEF PrefixOf
    <3> QED BY <2>3, <3>1, <3>2 DEF Agree
  <2>5. Files'
    <3>1. /\ root'.dirty \subseteq RootNames \ {NAMESPACE, CURSOR} /\ root'.vis \in root'.disk
          /\ root'.disk \ root.disk \subseteq {w}
      BY <1>0, <2>1, NameFacts
    <3> QED BY <1>0, <1>1, <1>4, <2>1, <2>2, <2>3, <2>4, <3>1, RootChange
  <2> QED BY <1>0, <1>1, <2>1, <2>2, <2>5, ClosedEnds
<1> QED BY <1>2, <1>3, <1>4 DEF DieInWrite

\* Whatever a power loss leaves of the two directories still agrees.
LEMMA LossAgrees ==
    ASSUME ScanInv, NEW r \in AnyDisk(root), NEW e \in AnyDisk(items)
    PROVE  /\ DOMAIN r = RootNames /\ CursorFile(r)
           /\ DOMAIN e = ItemNames /\ ItemFiles(e)
           /\ Agree(r, e)
           /\ bound => r[NAMESPACE] = Binding
<1>0. /\ Files /\ root.vis \in root.disk /\ items.vis \in items.disk
      /\ root.dirty \subseteq RootNames \ {NAMESPACE, CURSOR} /\ items.dirty \subseteq {ITEM_TMP}
      /\ head \in 0..MaxItems /\ reported \in 0..MaxItems
      /\ \A m \in root.disk : DOMAIN m = RootNames
      /\ \A d \in items.disk : DOMAIN d = ItemNames
  BY DEF ScanInv, Files, Numbers
<1>1. PICK m \in root.disk : LossOf(r, m, RootNames, root.dirty)
  BY <1>0, Losses
<1>2. PICK d \in items.disk : LossOf(e, d, ItemNames, items.dirty)
  BY <1>0, Losses
<1>3. r[CURSOR] = m[CURSOR] /\ r[NAMESPACE] = m[NAMESPACE]
  BY <1>0, <1>1, NameFacts DEF LossOf
<1>4. \A n \in 1..MaxItems : e[n] = d[n]
  BY <1>0, <1>2, NameFacts DEF LossOf
<1>5. /\ CursorFile(m) /\ CursorFile(r) /\ CursorOf(r) = CursorOf(m) /\ CursorOf(m) \in 0..MaxItems
  BY <1>0, <1>3, SameCursor, CursorValue DEF Files
<1>6. ItemFiles(e)
  BY <1>0, <1>4 DEF Files, ItemFiles
<1>7. Agree(m, d)
  BY <1>0 DEF Files
<1>8. \A n \in 1..CursorOf(m) : e[n] = Whole(n)
  BY <1>4, <1>5, <1>7 DEF Agree
<1>9. ASSUME e[ITEM_TMP] # Absent
      PROVE  /\ CursorOf(m) + 1 <= head /\ PrefixOf(e[ITEM_TMP], CursorOf(m) + 1)
             /\ e[CursorOf(m) + 1] = Absent
  <2>1. d[ITEM_TMP] # Absent
    BY <1>2, <1>9, NameFacts DEF LossOf
  <2>2. /\ CursorOf(m) + 1 <= head /\ PrefixOf(d[ITEM_TMP], CursorOf(m) + 1)
        /\ d[CursorOf(m) + 1] = Absent
    BY <1>7, <2>1 DEF Agree
  <2>3. CursorOf(m) + 1 \in 1..MaxItems /\ CursorOf(m) + 1 \in -1..MaxItems
    BY <1>0, <1>5, <2>2
  <2> QED BY <1>2, <1>4, <2>2, <2>3, NameFacts DEF LossOf
<1>10. ASSUME r[CURSOR_TMP] # Absent
       PROVE  /\ CursorOf(m) + 1 <= MaxItems /\ PrefixOf(r[CURSOR_TMP], CursorOf(m) + 1)
              /\ e[CursorOf(m) + 1] # Absent
  <2>1. m[CURSOR_TMP] # Absent
    BY <1>1, <1>10, NameFacts DEF LossOf
  <2>2. /\ CursorOf(m) + 1 <= MaxItems /\ PrefixOf(m[CURSOR_TMP], CursorOf(m) + 1)
        /\ d[CursorOf(m) + 1] # Absent
    BY <1>7, <2>1 DEF Agree
  <2>3. CursorOf(m) + 1 \in 1..MaxItems /\ CursorOf(m) + 1 \in -1..MaxItems
    BY <1>5, <2>2
  <2> QED BY <1>1, <1>4, <2>2, <2>3, NameFacts DEF LossOf
<1>11. Agree(r, e)
  BY <1>4, <1>5, <1>7, <1>8, <1>9, <1>10 DEF Agree
<1>12. bound => r[NAMESPACE] = Binding
  BY <1>3 DEF ScanInv, Bound
<1> QED BY <1>1, <1>2, <1>5, <1>6, <1>11, <1>12 DEF LossOf

LEMMA PowerLossStep ==
    ASSUME ScanInv, PowerLoss
    PROVE  ScanInv'
<1>1. PICK r \in AnyDisk(root), e \in AnyDisk(items) : root' = Stored(r) /\ items' = Stored(e)
  BY DEF PowerLoss
<1>2. /\ root'.vis = r /\ root'.disk = {r} /\ root'.dirty = {} /\ IsDir(root')
      /\ items'.vis = e /\ items'.disk = {e} /\ items'.dirty = {} /\ IsDir(items')
  BY <1>1 DEF Stored, IsDir
<1>3. /\ scanPc' = "closed" /\ Faulty
      /\ UNCHANGED <<cursor, upto, target, head, bound, reported, verdict>>
  BY DEF PowerLoss, cursorVars
<1>4. /\ DOMAIN r = RootNames /\ CursorFile(r) /\ DOMAIN e = ItemNames /\ ItemFiles(e) /\ Agree(r, e)
      /\ bound => r[NAMESPACE] = Binding
  BY LossAgrees
<1>5. Files'
  BY <1>2, <1>3, <1>4 DEF Files, ItemFiles, Agree, CursorFile, CursorOf, Has
<1> QED BY <1>2, <1>3, <1>4, <1>5, ClosedEnds

-----------------------------------------------------------------------------
(* The theorems.                                                           *)

LEMMA ScanInvInit == ScanInit => ScanInv
<1> SUFFICES ASSUME ScanInit PROVE ScanInv
  OBVIOUS
<1> DEFINE r == [n \in RootNames |-> Absent]
           e == [n \in ItemNames |-> Absent]
<1>1. /\ root.vis = r /\ root.disk = {r} /\ root.dirty = {} /\ IsDir(root)
      /\ items.vis = e /\ items.disk = {e} /\ items.dirty = {} /\ IsDir(items)
  BY DEF ScanInit, Stored, IsDir
<1>2. /\ DOMAIN r = RootNames /\ r[CURSOR] = Absent /\ r[CURSOR_TMP] = Absent
      /\ DOMAIN e = ItemNames /\ e[ITEM_TMP] = Absent /\ \A n \in 1..MaxItems : e[n] = Absent
  BY NameFacts
<1> HIDE DEF r, e
<1>3. CursorFile(r) /\ CursorOf(r) = 0 /\ ItemFiles(e)
  BY <1>2, CursorValue DEF CursorFile, ItemFiles
<1>4. Agree(r, e)
  BY <1>2, <1>3 DEF Agree, ScanInit
<1>5. Files
  BY <1>1, <1>2, <1>3, <1>4 DEF Files
<1>6. Numbers /\ Bound /\ Guard /\ Page /\ Publication
  BY DEF ScanInit, Numbers, Bound, Guard, Page, Publication, ScanSteps, ItemSteps, CursorSteps, SweepSteps
<1> QED BY <1>5, <1>6 DEF ScanInv

LEMMA ScanInvStep == ScanInv /\ [ScanNext]_scanVars => ScanInv'
<1> SUFFICES ASSUME ScanInv, [ScanNext]_scanVars PROVE ScanInv'
  OBVIOUS
<1>1. CASE OpenBound \/ OpenLegacy \/ PositionsIdle \/ NextPage \/ Close \/ Grow \/ Pause \/ Die
  BY <1>1, ControlStep
<1>2. CASE OpenFresh \/ BindSync \/ BindRename \/ BindDir
  BY <1>2, BindStep
<1>3. CASE RootSync
  BY <1>3, RootSyncStep
<1>4. CASE PositionsSweep \/ SigSync \/ SigRename \/ SigDir
  BY <1>4, SweepStep
<1>5. CASE Fetch \/ Report
  BY <1>5, FetchStep, ReportStep
<1>6. CASE ItemPresent \/ ItemWrite \/ ItemSync \/ ItemRename \/ ItemsDir
  BY <1>6, ItemPresentStep, ItemWriteStep, ItemSyncStep, ItemRenameStep, ItemsDirStep
<1>7. CASE CursorWrite \/ CursorSync \/ CursorRename \/ CursorDir
  BY <1>7, CursorStep, CursorRenameStep, CursorDirStep
<1>8. CASE DieInWrite \/ PowerLoss
  BY <1>8, DieInWriteStep, PowerLossStep
<1>9. CASE UNCHANGED scanVars
  <2>1. head' = head /\ head \in Nat /\ UNCHANGED <<root, items, reported>>
    BY <1>9 DEF scanVars, ScanInv, Numbers
  <2>2. Files'
    BY <2>1, SameFiles
  <2>3. Numbers' /\ Bound' /\ Guard' /\ Page' /\ Publication'
    BY <1>9 DEF scanVars, ScanInv, Numbers, Bound, Guard, Page, Publication, CursorOf, Has
  <2> QED BY <2>2, <2>3 DEF ScanInv
<1> QED BY <1>1, <1>2, <1>3, <1>4, <1>5, <1>6, <1>7, <1>8, <1>9 DEF ScanNext, OpenStep, ScanStep

LEMMA ScanInvAlways == ScanSpec => []ScanInv
  BY ScanInvInit, ScanInvStep, PTL DEF ScanSpec

\* A scan directory is never stranded: once an open has returned, it opens again
\* from every pair of maps a power loss can leave of it, and no call of a scan
\* answers Corrupt to the residue of an earlier one.
THEOREM ScanResumes == ScanSpec => []Resumable
<1>1. ScanInv => Resumable
  <2> SUFFICES ASSUME ScanInv PROVE Resumable
    OBVIOUS
  <2>1. ScanTypeOK
    <3>1. DOMAIN root.vis = RootNames /\ root.dirty \subseteq RootNames
      BY DEF ScanInv, Files
    <3>2. DOMAIN items.vis = ItemNames /\ items.dirty \subseteq ItemNames
      BY NameFacts DEF ScanInv, Files
    <3> QED BY <3>1, <3>2 DEF ScanInv, Numbers, ScanTypeOK
  <2>2. ASSUME bound, NEW r \in AnyDisk(root), NEW e \in AnyDisk(items) PROVE Opens(r, e)
    <3>1. head \in 0..MaxItems
      BY DEF ScanInv, Numbers
    <3> QED BY <2>2, <3>1, LossAgrees, AgreeOpens
  <2>3. ScansNeverFault
    BY DEF ScanInv, Numbers, ScansNeverFault
  <2> QED BY <2>1, <2>2, <2>3 DEF Resumable, AlwaysResumes
<1> QED BY <1>1, ScanInvAlways, PTL

\* The durable cursor is true in every state a power loss can leave: the items up
\* to it are there and whole, and it is not behind the cursor of a report that
\* the consumer was given.
THEOREM CursorStaysTrue == ScanSpec => []CursorIsTrue
<1>1. ScanInv => CursorIsTrue
  <2> SUFFICES ASSUME ScanInv PROVE CursorIsTrue
    OBVIOUS
  <2>1. ASSUME NEW r \in AnyDisk(root), NEW e \in AnyDisk(items)
        PROVE  CursorOf(r) \in 0..MaxItems /\ Agree(r, e)
    BY <2>1, LossAgrees, CursorValue
  <2>2. CursorHasItsItems
    BY <2>1 DEF CursorHasItsItems, Agree
  <2>3. ReportSurvives
    <3> SUFFICES ASSUME NEW r \in AnyDisk(root) PROVE CursorOf(r) >= reported
      BY DEF ReportSurvives
    <3>1. PICK m \in root.disk : LossOf(r, m, RootNames, root.dirty)
      BY Losses DEF ScanInv, Files
    <3>2. r[CURSOR] = m[CURSOR]
      BY <3>1, NameFacts DEF ScanInv, Files, LossOf
    <3>3. CursorOf(r) = CursorOf(m) /\ CursorOf(m) \in 0..MaxItems
      BY <3>2, SameCursor, CursorValue DEF ScanInv, Files
    <3>4. reported <= CursorOf(m) /\ reported \in 0..MaxItems
      BY DEF ScanInv, Files, Agree, Numbers
    <3> QED BY <3>3, <3>4
  <2> QED BY <2>2, <2>3 DEF CursorIsTrue
<1> QED BY <1>1, ScanInvAlways, PTL
=============================================================================
