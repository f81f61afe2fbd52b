--------------------------- MODULE RelayDelivery ---------------------------
(***************************************************************************)
(* The durable delivery queues of several senders (DeliveryStore), the     *)
(* mailbox they share (FileStore behind the TLS service) and the           *)
(* connections between them.                                               *)
(*                                                                         *)
(* A tick commits the intent of an attempt before it submits the item,     *)
(* and commits the outcome afterwards; a sender may stop at any point      *)
(* between.  A request outlives the client that gave up on it and may be   *)
(* served later.  Every commit is one SQLite transaction with one barrier  *)
(* behind it, and is one step here.                                        *)
(*                                                                         *)
(* Time is relative to the clock the queue last committed: wait is         *)
(* next_due minus that clock, with -1 for every earlier time; queue keeps  *)
(* the jobs in the order (next_due, sequence), so nothing is lost by it.   *)
(***************************************************************************)
EXTENDS Integers, Sequences, SequencesExt, FiniteSets, FiniteSetsExt

CONSTANTS
    Senders,        \* owners of a queue; each is one credential of the service
    Items,          \* exact ciphertexts; an item is its digest
    Sender,         \* Sender[i]: whose queue carries item i
    Operation,      \* Operation[i]: the kernel operation of item i
    Sequence,       \* Sequence[i]: its position in its sender's outbox
    Size,           \* Size[i]: its bytes
    MaxJobs, MaxBytes,              \* Limits of a queue
    MaxAttempts,                    \* RetryPolicy
    InitialBackoff, MaxBackoff,
    BudgetJobs,                     \* TickBudget.max_jobs
    MailItems, MailBytes,           \* Limits of the mailbox
    KeyItems, KeyBytes,             \* storage cap of each credential
    Quic,           \* the senders whose RelayClient is the QUIC client, not the TLS one
    Outboxes,       \* bound: the sets of items that are in play together
    MaxFaults,      \* bound on crashes, outages and revocations
    MaxResumes      \* bound on re-arms of one job

ASSUME PolicyAssumption ==
    /\ MaxAttempts \in Nat \ {0}
    /\ InitialBackoff \in Nat \ {0}
    /\ MaxBackoff \in Nat /\ MaxBackoff >= InitialBackoff

ASSUME DeliveryAssumption ==
    /\ Sender \in [Items -> Senders] /\ "nobody" \notin Senders /\ Size \in [Items -> Nat]
    /\ {MaxJobs, MaxBytes, MailItems, MailBytes, KeyItems, KeyBytes} \subseteq Nat
    /\ BudgetJobs \in Nat \ {0} /\ MaxFaults \in Nat

VARIABLES
    jobs,      \* jobs[i]: the row of item i, or NoJob
    evidence,  \* evidence[i]: its job_evidence row
    queue,     \* queue[s]: its jobs in the order (next_due, sequence)
    pc,        \* pc[s]: where its owner is
    batch,     \* batch[s]: ids of the running tick that are still to do
    elapsed,   \* elapsed[s]: tick clock minus the committed clock
    prior,     \* prior[s]: the row as it was before the intent
    mailbox,   \* retained items by position
    charge,    \* charge[i]: the credential item i is charged to, or Nobody
    revoked,   \* credentials whose token is refused
    requests,  \* PUTs on their way; live while the client still listens
    reply,     \* reply[s]: the answer that reached the client
    faults,
    tally      \* history: tally[i] counts the outcomes of its attempts

queueVars == <<jobs, evidence, queue>>
tickVars  == <<pc, batch, elapsed, prior>>
relayVars == <<mailbox, charge, revoked>>
netVars   == <<requests, reply>>
vars == <<queueVars, tickVars, relayVars, netVars, faults, tally>>

-----------------------------------------------------------------------------
(* The rows of a queue.                                                    *)

Nobody == "nobody"

JobStates == {"Pending", "Uncertain", "Retained", "Stopped"}
Job == [state : JobStates, attempts : Nat, wait : Int, uncertain : BOOLEAN,
        position : Nat]
NoJob == [state |-> "None", attempts |-> 0, wait |-> 0, uncertain |-> FALSE,
          position |-> 0]

\* an answer: the receipt's position, or an error
NoReply == [result |-> "None", position |-> 0]
Ok(n) == [result |-> "Ok", position |-> n]
Err(e) == [result |-> e, position |-> 0]

NoEvidence == [outages |-> 0, resumes |-> 0, spent |-> 0]

JobsOf(s) == {i \in Items : Sender[i] = s /\ jobs[i] # NoJob}
Live(s)   == {i \in JobsOf(s) : jobs[i].state # "Retained"}

\* first_unretained: the job with the least sequence of those without a receipt,
\* a stopped one too; no job if there is none
FirstUnretained(s) == {i \in Live(s) : \A k \in Live(s) : Sequence[i] <= Sequence[k]}

\* the bytes of a set of items
Bytes(S) == Cardinality(UNION {{i} \X (1..Size[i]) : i \in S})

\* find: what a row must satisfy to be read at all
Readable(i) ==
    LET j == jobs[i] IN
    /\ j.attempts <= MaxAttempts
    /\ (j.state = "Retained") <=> (j.position # 0)
    /\ j.state = "Retained" => ~j.uncertain
    /\ j.state = "Uncertain" => j.uncertain
    /\ j.state = "Pending" => ~j.uncertain
    /\ j.attempts = 0 /\ j.state # "Pending" => evidence[i] # NoEvidence

\* validate: what reopening a queue checks
Valid(s) ==
    /\ Cardinality(Live(s)) <= MaxJobs
    /\ Bytes(JobsOf(s)) <= MaxBytes
    /\ \A i \in JobsOf(s) : Readable(i)

\* the wait of every job of s once the clock is committed d later
Elapse(rows, s, d) ==
    [i \in Items |-> IF rows[i] # NoJob /\ Sender[i] = s
                     THEN [rows[i] EXCEPT !.wait = Max({-1, @ - d})]
                     ELSE rows[i]]

\* the pairs of jobs in the order of q, and those in the order (next_due,
\* sequence) when the jobs of S have a new due time
Ahead(q) == {x \in ToSet(q) \X ToSet(q) :
               \E m, n \in DOMAIN q : m < n /\ x = <<q[m], q[n]>>}
ByDue(q, rows, S) ==
    {x \in Items \X Items :
       LET k == x[1]  l == x[2] IN
       \/ rows[k].wait < rows[l].wait
       \/ rows[k].wait = rows[l].wait /\ IF {k, l} \cap S = {} THEN x \in Ahead(q)
                                        ELSE Sequence[k] < Sequence[l]}

\* ORDER BY: the jobs of S in the order R
Sorted(S, R) == {p \in SetToSeqs(S) : \A m, n \in DOMAIN p : m < n => <<p[m], p[n]>> \in R}

\* exponential backoff, grown by outages as well as by attempts
Backoff(i) ==
    Min({b \in 1..MaxBackoff : \/ b = MaxBackoff
                              \/ b = InitialBackoff * 2 ^ (jobs[i].attempts + evidence[i].outages)})

\* one committed transaction that sets the row of i at the tick's clock
Commit(s, i, row) ==
    LET rows == [Elapse(jobs, s, elapsed[s]) EXCEPT ![i] = row] IN
    /\ jobs' = rows
    /\ \E q \in Sorted(JobsOf(s), ByDue(queue[s], rows, {i})) : queue' = [queue EXCEPT ![s] = q]

-----------------------------------------------------------------------------
Init ==
    /\ jobs = [i \in Items |-> NoJob]
    /\ evidence = [i \in Items |-> NoEvidence]
    /\ queue = [s \in Senders |-> <<>>]
    /\ pc = [s \in Senders |-> "idle"]
    /\ batch = [s \in Senders |-> <<>>]
    /\ elapsed = [s \in Senders |-> 0]
    /\ prior = [s \in Senders |-> NoJob]
    /\ mailbox = <<>>
    /\ charge = [i \in Items |-> Nobody]
    /\ revoked = {}
    /\ requests = {}
    /\ reply = [s \in Senders |-> NoReply]
    /\ faults = 0
    /\ tally = [i \in Items |-> [refused |-> 0, retained |-> 0, unknown |-> 0]]

\* enqueue: an exact retry is a pure read, a reused sequence or operation
\* conflicts, a full queue refuses; otherwise the row is committed as due now
Enqueue(i, d) ==
    LET s == Sender[i]
        rows == [Elapse(jobs, s, d) EXCEPT ![i] =
                   [state |-> "Pending", attempts |-> 0, wait |-> 0,
                    uncertain |-> FALSE, position |-> 0]]
    IN
    /\ pc[s] = "idle"
    /\ jobs[i] = NoJob
    /\ \E o \in Outboxes : {i} \union {k \in Items : jobs[k] # NoJob} \subseteq o
    /\ \A k \in JobsOf(s) : Sequence[k] # Sequence[i] /\ Operation[k] # Operation[i]
    /\ Cardinality(Live(s)) < MaxJobs
    /\ Bytes(JobsOf(s)) + Size[i] <= MaxBytes
    /\ jobs' = rows
    /\ \E q \in Sorted(JobsOf(s) \union {i}, ByDue(queue[s], rows, {i})) :
         queue' = [queue EXCEPT ![s] = q]
    /\ UNCHANGED <<evidence, tickVars, relayVars, netVars, faults, tally>>

\* Mutant: a tick looks for pending jobs only.
BeginTickPending(s, only, d) ==
    LET due == {i \in only : jobs[i].state = "Pending" /\ jobs[i].wait <= d} IN
    /\ pc[s] = "idle"
    /\ due # {}
    /\ pc' = [pc EXCEPT ![s] = "tick"]
    /\ \E q \in Sorted(due, Ahead(queue[s])) :
         batch' = [batch EXCEPT ![s] = SubSeq(q, 1, IF Len(q) < BudgetJobs THEN Len(q) ELSE BudgetJobs)]
    /\ elapsed' = [elapsed EXCEPT ![s] = d]
    /\ UNCHANGED <<queueVars, prior, relayVars, netVars, faults, tally>>

\* tick_selected: of the jobs it is asked for (tick: all; tick_only: one), the due
\* ones in order, at most BudgetJobs of them; no job due, no write
BeginTick(s, only, d) ==
    LET due == {i \in only : jobs[i].state \in {"Pending", "Uncertain"} /\ jobs[i].wait <= d} IN
    /\ pc[s] = "idle"
    /\ due # {}
    /\ pc' = [pc EXCEPT ![s] = "tick"]
    /\ \E q \in Sorted(due, Ahead(queue[s])) :
         batch' = [batch EXCEPT ![s] = SubSeq(q, 1, IF Len(q) < BudgetJobs THEN Len(q) ELSE BudgetJobs)]
    /\ elapsed' = [elapsed EXCEPT ![s] = d]
    /\ UNCHANGED <<queueVars, prior, relayVars, netVars, faults, tally>>

\* a job whose budget is gone is stopped without another attempt and keeps its
\* due time, so the order of the jobs stays as it is
Exhaust(s) ==
    /\ pc[s] = "tick" /\ batch[s] # <<>>
    /\ LET i == Head(batch[s]) IN
       /\ jobs[i].attempts >= MaxAttempts
       /\ jobs' = [Elapse(jobs, s, elapsed[s]) EXCEPT ![i].state = "Stopped"]
    /\ batch' = [batch EXCEPT ![s] = Tail(@)]
    /\ elapsed' = [elapsed EXCEPT ![s] = 0]
    /\ UNCHANGED <<evidence, queue, pc, prior, relayVars, netVars, faults, tally>>

\* the intent of an attempt is durable before anything is sent
Intend(s) ==
    /\ pc[s] = "tick" /\ batch[s] # <<>>
    /\ LET i == Head(batch[s]) IN
       /\ jobs[i].attempts < MaxAttempts
       /\ prior' = [prior EXCEPT ![s] = jobs[i]]
       /\ Commit(s, i, [jobs[i] EXCEPT !.state = "Uncertain", !.attempts = @ + 1,
                                       !.wait = Backoff(i), !.uncertain = TRUE])
    /\ pc' = [pc EXCEPT ![s] = "send"]
    /\ elapsed' = [elapsed EXCEPT ![s] = 0]
    /\ UNCHANGED <<evidence, batch, relayVars, netVars, faults, tally>>

\* submit_until puts the exact committed bytes on a connection of its own
Submit(s) ==
    /\ pc[s] = "send"
    /\ requests' = requests \union {[item |-> Head(batch[s]), live |-> TRUE]}
    /\ pc' = [pc EXCEPT ![s] = "await"]
    /\ UNCHANGED <<queueVars, batch, elapsed, prior, relayVars, reply, faults, tally>>

\* the tick ends: nothing left, or its deadline passed between two jobs
EndTick(s) ==
    /\ pc[s] = "tick"
    /\ pc' = [pc EXCEPT ![s] = "idle"]
    /\ batch' = [batch EXCEPT ![s] = <<>>]
    /\ elapsed' = [elapsed EXCEPT ![s] = 0]
    /\ UNCHANGED <<queueVars, prior, relayVars, netVars, faults, tally>>

\* the deadline passed after the intent: the attempt stays recorded as unknown
Overdue(s) ==
    /\ pc[s] = "send"
    /\ faults < MaxFaults
    /\ faults' = faults + 1
    /\ tally' = [tally EXCEPT ![Head(batch[s])].unknown = @ + 1]
    /\ pc' = [pc EXCEPT ![s] = "idle"]
    /\ batch' = [batch EXCEPT ![s] = <<>>]
    /\ prior' = [prior EXCEPT ![s] = NoJob]
    /\ UNCHANGED <<queueVars, elapsed, relayVars, netVars>>

-----------------------------------------------------------------------------
(* Outcomes.                                                               *)

Permanent == {"Conflict", "Malformed"}
Refusals  == Permanent \union {"Denied", "Capacity"}

\* Mutant: a refusal is taken as proof that nothing was ever retained.
AfterRefusalForgets(row, was, error) ==
    [row EXCEPT
        !.uncertain = FALSE,
        !.state = IF error \in Permanent \/ row.attempts >= MaxAttempts
                  THEN "Stopped" ELSE "Pending"]

\* the row that a refusal leaves
AfterRefusal(row, was, error) ==
    [row EXCEPT
        !.uncertain = was.uncertain,
        !.state = IF error \in Permanent \/ row.attempts >= MaxAttempts
                  THEN "Stopped"
                  ELSE IF was.uncertain THEN "Uncertain" ELSE "Pending"]

\* after an outcome the tick goes on with the next job
Resolve(s, rest) ==
    /\ batch' = [batch EXCEPT ![s] = rest]
    /\ pc' = [pc EXCEPT ![s] = "tick"]
    /\ reply' = [reply EXCEPT ![s] = NoReply]
    /\ prior' = [prior EXCEPT ![s] = NoJob]
    /\ UNCHANGED <<elapsed, relayVars>>

\* a checked receipt: the job is retained at the mailbox's position
Receipt(s) ==
    /\ pc[s] = "await" /\ reply[s].result = "Ok"
    /\ LET i == Head(batch[s]) IN
       /\ Commit(s, i, [jobs[i] EXCEPT !.state = "Retained", !.uncertain = FALSE,
                                       !.position = reply[s].position])
       /\ tally' = [tally EXCEPT ![i].retained = @ + 1]
    /\ Resolve(s, Tail(batch[s]))
    /\ UNCHANGED <<evidence, requests, faults>>

\* a refusal keeps its charge; a denied credential ends the tick
Refused(s) ==
    /\ pc[s] = "await" /\ reply[s].result \in Refusals
    /\ LET i == Head(batch[s]) IN
       /\ Commit(s, i, AfterRefusal(jobs[i], prior[s], reply[s].result))
       /\ tally' = [tally EXCEPT ![i].refused = @ + 1]
    /\ Resolve(s, IF reply[s].result = "Denied" THEN <<>> ELSE Tail(batch[s]))
    /\ UNCHANGED <<evidence, requests, faults>>

\* Connect, Timeout, Unavailable: the charge is reverted, the outage counted,
\* the outcome uncertain; the request may still be on its way
Outage(s) ==
    /\ pc[s] = "await"
    /\ faults < MaxFaults
    /\ faults' = faults + 1
    /\ LET i == Head(batch[s]) IN
       /\ Commit(s, i, [jobs[i] EXCEPT !.state = "Uncertain", !.uncertain = TRUE,
                                       !.attempts = prior[s].attempts])
       /\ evidence' = [evidence EXCEPT ![i].outages = @ + 1]
       /\ requests' = {IF r.item = i THEN [r EXCEPT !.live = FALSE] ELSE r : r \in requests}
    /\ Resolve(s, Tail(batch[s]))
    /\ UNCHANGED tally

\* The QUIC client reports a stream that ends while it reads the reply as
\* Malformed, whatever the relay has done with the request by then; the TLS
\* client reports it as Unavailable, which is Outage.
Broken(s) ==
    /\ pc[s] = "await" /\ reply[s] = NoReply
    /\ s \in Quic
    /\ faults < MaxFaults
    /\ faults' = faults + 1
    /\ reply' = [reply EXCEPT ![s] = Err("Malformed")]
    /\ requests' = {IF r.item = Head(batch[s]) THEN [r EXCEPT !.live = FALSE] ELSE r :
                      r \in requests}
    /\ UNCHANGED <<queueVars, tickVars, relayVars, tally>>

\* Mutant: the spent attempts are dropped with the budget.
ResumeUncounted(s, ids, d) ==
    LET rearm == {i \in ids : jobs[i].state = "Stopped"}
        rows == [i \in Items |->
                   IF i \in rearm
                   THEN [jobs[i] EXCEPT
                           !.state = IF jobs[i].uncertain THEN "Uncertain" ELSE "Pending",
                           !.attempts = 0, !.wait = 0]
                   ELSE Elapse(jobs, s, d)[i]]
    IN
    /\ pc[s] = "idle"
    /\ rearm # {}
    /\ \A i \in rearm : evidence[i].resumes < MaxResumes
    /\ jobs' = rows
    /\ \E q \in Sorted(JobsOf(s), ByDue(queue[s], rows, rearm)) : queue' = [queue EXCEPT ![s] = q]
    /\ evidence' = [i \in Items |->
                      IF i \in rearm THEN [evidence[i] EXCEPT !.resumes = @ + 1]
                      ELSE evidence[i]]
    /\ UNCHANGED <<tickVars, relayVars, netVars, faults, tally>>

\* resume: stopped jobs get a fresh budget and keep their uncertainty; the
\* attempts they spent move into the evidence
Resume(s, ids, d) ==
    LET rearm == {i \in ids : jobs[i].state = "Stopped"}
        rows == [i \in Items |->
                   IF i \in rearm
                   THEN [jobs[i] EXCEPT
                           !.state = IF jobs[i].uncertain THEN "Uncertain" ELSE "Pending",
                           !.attempts = 0, !.wait = 0]
                   ELSE Elapse(jobs, s, d)[i]]
    IN
    /\ pc[s] = "idle"
    /\ rearm # {}
    /\ \A i \in rearm : evidence[i].resumes < MaxResumes
    /\ jobs' = rows
    /\ \E q \in Sorted(JobsOf(s), ByDue(queue[s], rows, rearm)) : queue' = [queue EXCEPT ![s] = q]
    /\ evidence' = [i \in Items |->
                      IF i \in rearm
                      THEN [evidence[i] EXCEPT !.resumes = @ + 1,
                                               !.spent = @ + jobs[i].attempts]
                      ELSE evidence[i]]
    /\ UNCHANGED <<tickVars, relayVars, netVars, faults, tally>>

-----------------------------------------------------------------------------
(* A process ends, or a storage error leaves a handle that needs to be     *)
(* reopened: what is in memory is gone, what was committed stays.          *)

Crash(s) ==
    /\ pc[s] # "closed"
    /\ faults < MaxFaults
    /\ faults' = faults + 1
    /\ pc' = [pc EXCEPT ![s] = "closed"]
    /\ tally' = IF pc[s] \in {"send", "await"}
                THEN [tally EXCEPT ![Head(batch[s])].unknown = @ + 1]
                ELSE tally
    /\ requests' = {IF Sender[r.item] = s THEN [r EXCEPT !.live = FALSE] ELSE r : r \in requests}
    /\ reply' = [reply EXCEPT ![s] = NoReply]
    /\ batch' = [batch EXCEPT ![s] = <<>>]
    /\ elapsed' = [elapsed EXCEPT ![s] = 0]
    /\ prior' = [prior EXCEPT ![s] = NoJob]
    /\ UNCHANGED <<queueVars, relayVars>>

Reopen(s) ==
    /\ pc[s] = "closed"
    /\ Valid(s)
    /\ pc' = [pc EXCEPT ![s] = "idle"]
    /\ UNCHANGED <<queueVars, batch, elapsed, prior, relayVars, netVars, faults, tally>>

-----------------------------------------------------------------------------
(* The service.                                                            *)

ChargedTo(s) == {i \in Items : charge[i] = s}

\* ledger::charge: room left in the credential's own cap
MayCharge(s, i) ==
    /\ Cardinality(ChargedTo(s)) < KeyItems
    /\ Bytes(ChargedTo(s)) + Size[i] <= KeyBytes

\* FileStore::put_staged: an exact retry keeps its position, a reused operation
\* conflicts, a full mailbox refuses
PutStaged(i) ==
    LET held == ToSet(mailbox) IN
    CASE i \in held -> Ok(CHOOSE n \in DOMAIN mailbox : mailbox[n] = i)
      [] i \notin held /\ \E k \in held : Operation[k] = Operation[i] -> Err("Conflict")
      [] OTHER -> IF \/ Len(mailbox) >= MailItems
                     \/ Bytes(held) + Size[i] > MailBytes
                  THEN Err("Capacity") ELSE Ok(Len(mailbox) + 1)

\* put: charge and retention in one transaction, an exact retry changes nothing
Put(i) ==
    LET s == Sender[i]
        answer == IF charge[i] = Nobody /\ ~MayCharge(s, i)
                  THEN Err("Capacity") ELSE PutStaged(i)
        fresh == answer.result = "Ok" /\ i \notin ToSet(mailbox)
    IN
    [mailbox |-> IF fresh THEN Append(mailbox, i) ELSE mailbox,
     charge  |-> IF fresh THEN [charge EXCEPT ![i] = s] ELSE charge,
     answer  |-> answer]

Answer(r, a) ==
    reply' = IF r.live THEN [reply EXCEPT ![Sender[r.item]] = a] ELSE reply

\* process_request: the credential is known and the work window has room
Serve(r) ==
    LET out == Put(r.item) IN
    /\ Sender[r.item] \notin revoked
    /\ requests' = requests \ {r}
    /\ mailbox' = out.mailbox
    /\ charge' = out.charge
    /\ Answer(r, out.answer)
    /\ UNCHANGED <<queueVars, tickVars, revoked, faults, tally>>

\* the window or the credential's share of it is used up
Busy(r) ==
    /\ Sender[r.item] \notin revoked
    /\ requests' = requests \ {r}
    /\ Answer(r, Err("Capacity"))
    /\ UNCHANGED <<queueVars, tickVars, relayVars, faults, tally>>

Deny(r) ==
    /\ Sender[r.item] \in revoked
    /\ requests' = requests \ {r}
    /\ Answer(r, Err("Denied"))
    /\ UNCHANGED <<queueVars, tickVars, relayVars, faults, tally>>

\* the connection broke before the service read the request
Lose(r) ==
    /\ ~r.live
    /\ requests' = requests \ {r}
    /\ UNCHANGED <<queueVars, tickVars, relayVars, reply, faults, tally>>

\* a restarted service has another set of tokens
Rekey(s) ==
    /\ \/ s \in revoked /\ UNCHANGED faults
       \/ s \notin revoked /\ faults < MaxFaults /\ faults' = faults + 1
    /\ revoked' = IF s \in revoked THEN revoked \ {s} ELSE revoked \union {s}
    /\ UNCHANGED <<queueVars, tickVars, mailbox, charge, netVars, tally>>

-----------------------------------------------------------------------------
Delays == {0, 1, MaxBackoff}

TickStep(s) == Exhaust(s) \/ Intend(s) \/ Submit(s) \/ Receipt(s) \/ Refused(s)
RelayStep(r) == Serve(r) \/ Busy(r) \/ Deny(r)

Next ==
    \/ \E i \in Items, d \in Delays : Enqueue(i, d)
    \/ \E s \in Senders :
         \/ \E d \in Delays :
              \/ BeginTick(s, JobsOf(s), d)
              \/ \E i \in JobsOf(s) : BeginTick(s, {i}, d)
         \/ TickStep(s) \/ EndTick(s) \/ Overdue(s) \/ Outage(s) \/ Broken(s)
         \/ \E d \in Delays :
              \/ Resume(s, JobsOf(s), d)
              \/ \E i \in JobsOf(s) : Resume(s, {i}, d)
         \/ Crash(s) \/ Reopen(s) \/ Rekey(s)
    \/ \E r \in requests : RelayStep(r) \/ Lose(r)

Spec == Init /\ [][Next]_vars

\* What deliver_ordered of the driver does with a queue whose turn it is: it asks
\* again and again for the first job without a receipt, and for no other one, so
\* that behind a stopped job nothing is attempted.  Nothing is assumed of tick,
\* which has no caller there.  A host reopens a closed queue, not every tick is over
\* its deadline before it takes up its job, and the service works off what it reads.
Fairness ==
    /\ \A s \in Senders :
         /\ SF_vars(TickStep(s))
         /\ WF_vars(pc[s] = "tick" /\ batch[s] = <<>> /\ EndTick(s))
         /\ WF_vars(Reopen(s))
         /\ SF_vars(BeginTick(s, FirstUnretained(s), MaxBackoff))
    /\ WF_vars(\E r \in requests : RelayStep(r))

LiveSpec == Spec /\ Fairness

-----------------------------------------------------------------------------
TypeOK ==
    /\ jobs \in [Items -> Job \union {NoJob}]
    /\ evidence \in [Items -> [outages : Nat, resumes : Nat, spent : Nat]]
    /\ \A s \in Senders : queue[s] \in Seq(Items) /\ batch[s] \in Seq(Items)
    /\ pc \in [Senders -> {"closed", "idle", "tick", "send", "await"}]
    /\ mailbox \in Seq(Items)
    /\ charge \in [Items -> Senders \union {Nobody}]
    /\ revoked \subseteq Senders
    /\ requests \subseteq [item : Items, live : BOOLEAN]
    /\ faults \in 0..MaxFaults

\* A queue can always be reopened: whatever mixture of intents, reverted
\* charges, refusals and re-arms a crash leaves, find and validate accept it.
AlwaysOpens == \A s \in Senders : Valid(s)

\* A job is called retained only at the position where the mailbox holds it,
\* whichever of several attempts the receipt answers.
RetainedIsHeld ==
    \A i \in Items : jobs[i] # NoJob /\ jobs[i].state = "Retained" =>
        jobs[i].position \in DOMAIN mailbox /\ mailbox[jobs[i].position] = i

\* Between attempts, a job without uncertainty has left no trace: its item is
\* neither in the mailbox nor in a request that may still be served.  (Of the
\* TLS client; the QUIC client reports a reply stream that breaks as Malformed,
\* which stops the job as if it had been refused.)
CertainMeansAbsent ==
    \A i \in Items :
        /\ Sender[i] \notin Quic
        /\ jobs[i] # NoJob
        /\ jobs[i].state \in {"Pending", "Stopped"}
        /\ ~jobs[i].uncertain
        => i \notin ToSet(mailbox) /\ \A r \in requests : r.item # i

\* Every attempt is charged exactly once, whatever crashes and re-arms
\* happened: refusals, receipts and unknown outcomes are all of it, outages none.
ChargesExact ==
    \A i \in Items : jobs[i] # NoJob =>
        jobs[i].attempts + evidence[i].spent
          = tally[i].refused + tally[i].retained + tally[i].unknown
            + (IF /\ pc[Sender[i]] \in {"send", "await"}
                  /\ Head(batch[Sender[i]]) = i THEN 1 ELSE 0)

\* Retention and quota move together: an item is in the mailbox once exactly
\* when it is charged to its sender, and nobody exceeds the cap, however many
\* times and over however many connections it was put.
RetentionIsCharged ==
    /\ \A i \in Items : (charge[i] = Sender[i]) <=> (i \in ToSet(mailbox))
    /\ IsInjective(mailbox)
    /\ \A s \in Senders :
         /\ Cardinality(ChargedTo(s)) <= KeyItems
         /\ Bytes(ChargedTo(s)) <= KeyBytes

\* The driver attempts only the first job without a receipt, and never goes past
\* one that is stopped (deliver_ordered).  So the work of a queue always ends, with
\* every job retained or with the operator's turn to resume the first that is not:
\* no mixture of refusals, outages and crashes leaves that job pending or uncertain
\* for ever, with everything behind it waiting for nobody.
HeadSettles ==
    []<>(\A s \in Senders : \A i \in FirstUnretained(s) : jobs[i].state = "Stopped")

-----------------------------------------------------------------------------
(* The parts above together, as the run checks them.                       *)

\* The rows of a queue are always ones that find accepts, and the attempts they
\* charge are the attempts that were made; what a queue reports retained is in
\* the mailbox, and what is in the mailbox was charged to its credential once.
BooksBalance ==
    /\ TypeOK
    /\ AlwaysOpens
    /\ ChargesExact
    /\ RetainedIsHeld
    /\ RetentionIsCharged
=============================================================================
