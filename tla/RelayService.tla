---------------------------- MODULE RelayService ----------------------------
(***************************************************************************)
(* The relay's request service: one mailbox behind one mutex, a condition   *)
(* variable for held pages, one worker per connection and a supervisor that *)
(* accepts, reaps and drains.                                               *)
(*   src/crates/vhalla-private-native/src/relay/tls/service.rs   (TLS)      *)
(*   src/crates/vhalla-private-native/src/relay/iroh.rs          (QUIC)     *)
(* Both transports share process_request; Quic selects the accept loop, the *)
(* guards and the cancellation of the second one.                           *)
(*                                                                          *)
(* A connection is a member of Conns and is used once. Bytes are counted in *)
(* frames (a request is one unit, a response at most one unit); time is the *)
(* choice of an action: a window rolls, a wait expires, a deadline passes.  *)
(***************************************************************************)
EXTENDS Naturals, FiniteSets

CONSTANTS Conns,        \* connections that may arrive
          Keys,         \* credential identities
          Sources,      \* remote sources with a share of the service
          Local,        \* the source of this machine: no share (remote_source None)
          MaxConns,     \* limits.max_connections
          Handshakes,   \* limits.requests_per_window * 2
          MaxInflight,  \* a credential's max_inflight
          KeyRequests,  \* a credential's requests_per_window
          KeyBytes,     \* a credential's bytes_per_window
          AllRequests,  \* limits.requests_per_window
          AllBytes,     \* limits.bytes_per_window
          Accepts,      \* serve's limit of accepted sockets
          RelayLoads         \* the loads that are considered: see load, below

ASSUME ServiceAssumption ==
    /\ MaxConns \in Nat \ {0, 1} /\ Handshakes \in Nat \ {0} /\ Accepts \in Nat
    /\ MaxInflight \in Nat \ {0} /\ 2 * MaxInflight <= MaxConns
    /\ KeyRequests \in Nat /\ KeyBytes \in Nat
    /\ AllRequests \in Nat /\ AllBytes \in Nat
    /\ Local \notin Sources /\ "free" \notin Conns /\ Keys # {}
    /\ \A l \in RelayLoads :
        /\ l.quic \in BOOLEAN /\ l.rolls \in Nat /\ l.faults \in Nat
        /\ DOMAIN l.of \subseteq Conns
        /\ \A c \in DOMAIN l.of : /\ l.of[c].src \in Sources \cup {Local} /\ l.of[c].key \in Keys
                                /\ l.of[c].op \in {"put", "page", "wait"}

VARIABLES
    load,                    \* the transport, the clients and the bounds; fixed
    stop, draining,          \* the caller's flag and the workers' flag
    sup,                     \* where the supervisor is
    accepted, started,       \* sockets accepted; handshakes of this window
    shareStart,              \* Sources.started: handshakes per source
    supRolled,               \* the supervisor's window has elapsed
    failure, result,         \* what serve_until has met; what it returned
    conn,                    \* per connection: pc, src, op, key, after, ...
    owned,                   \* connections whose worker is not reaped
    lock, torn,              \* the mutex's holder; the mutex is poisoned
    poisoned,                \* State.poisoned
    high,                    \* the mailbox's high position
    rolled,                  \* the service's window has elapsed
    inflight, requests, bytes,   \* State.keys
    allRequests, allBytes,       \* State.global
    rolls, faults            \* the bounds' counters

Quic      == load.quic      \* TRUE: iroh.rs's transport, FALSE: the TLS one
Asks      == load.of        \* Asks[c]: source, operation and credential of c
MaxRolls  == load.rolls     \* bound: windows that turn
MaxFaults == load.faults    \* bound: storage failures and panics

supVars  == <<stop, draining, sup, accepted, started, shareStart, supRolled, failure, result, owned>>
stateVars == <<poisoned, high, rolled, inflight, requests, bytes, allRequests, allBytes>>
serviceVars == <<load, supVars, stateVars, conn, lock, torn, rolls, faults>>

Free == "free"
Origins == Sources \cup {Local}
Ops == {"put", "page", "wait"}

Idle == [pc |-> "absent", src |-> Local, op |-> "page", key |-> CHOOSE k \in Keys : TRUE,
         after |-> 0, expired |-> FALSE, cancelled |-> "no", code |-> "none", admitted |-> FALSE]

At(c, p) == conn[c].pc = p
In(p) == {c \in Conns : At(c, p)}
\* A worker from its spawn to its end.
Running(c) == conn[c].pc \notin {"absent", "arrived", "refused", "finished", "panicked"}
Go(c, p) == [conn EXCEPT ![c].pc = p]
\* The connection is over; its source is still on the books until it is reaped.
Over(c, p) == [conn EXCEPT ![c] = [Idle EXCEPT !.pc = p, !.src = conn[c].src]]
Share == IF MaxConns \div 4 = 0 THEN 1 ELSE MaxConns \div 4
StartShare == IF Handshakes \div 4 = 0 THEN 1 ELSE Handshakes \div 4

ServiceInit ==
    /\ load \in RelayLoads
    /\ stop = FALSE /\ draining = FALSE /\ sup = "check"
    /\ accepted = 0 /\ started = 0 /\ shareStart = [s \in Sources |-> 0] /\ supRolled = FALSE
    /\ failure = FALSE /\ result = "none"
    /\ conn = [c \in Conns |-> Idle] /\ owned = {}
    /\ lock = Free /\ torn = FALSE /\ poisoned = FALSE /\ high = 0 /\ rolled = FALSE
    /\ inflight = [k \in Keys |-> 0] /\ requests = [k \in Keys |-> 0] /\ bytes = [k \in Keys |-> 0]
    /\ allRequests = 0 /\ allBytes = 0 /\ rolls = 0 /\ faults = 0

-----------------------------------------------------------------------------
(* The environment: clients connect, the operator stops, windows turn.      *)

Connect(c) ==
    /\ c \in DOMAIN Asks
    /\ At(c, "absent") /\ sup \in {"check", "accept"}
    /\ conn' = [conn EXCEPT ![c].pc = "arrived", ![c].src = Asks[c].src]
    /\ UNCHANGED <<supVars, stateVars, lock, torn, rolls, faults>>

Stop ==
    /\ ~stop /\ stop' = TRUE
    /\ UNCHANGED <<draining, sup, accepted, started, shareStart, supRolled, failure, result, owned,
                   stateVars, conn, lock, torn, rolls, faults>>

Roll ==
    /\ rolls < MaxRolls /\ rolls' = rolls + 1
    /\ rolled' = TRUE /\ supRolled' = TRUE
    /\ UNCHANGED <<stop, draining, sup, accepted, started, shareStart, failure, result, owned,
                   poisoned, high, inflight, requests, bytes, allRequests, allBytes,
                   conn, lock, torn, faults>>

-----------------------------------------------------------------------------
(* The supervisor.                                                          *)

\* Service::unhealthy: a busy mutex is not yet a failure.
unhealthy == lock = Free /\ (torn \/ poisoned)

Admitting == ~stop /\ accepted < Accepts

\* The head of the loop: the stop flag and the limit, unhealthy(), and the
\* reaping of finished workers, whose source slots come back.
Supervise ==
    /\ sup = "check"
    /\ LET ended == {c \in owned : ~Running(c)}
           broke == unhealthy \/ \E c \in ended : At(c, "panicked")
       IN IF ~Admitting \/ unhealthy
          THEN /\ sup' = "drain" /\ failure' = (failure \/ (Admitting /\ unhealthy))
               /\ UNCHANGED owned
          ELSE /\ owned' = owned \ ended
               /\ failure' = (failure \/ broke)
               /\ sup' = IF broke THEN "drain" ELSE "accept"
    /\ UNCHANGED <<stop, draining, accepted, started, shareStart, supRolled, result,
                   stateVars, conn, lock, torn, rolls, faults>>

\* Sources.live: TLS returns a source's slot when the worker is reaped, QUIC
\* when its SourceGuard drops.
Live(s) == {c \in owned : conn[c].src = s /\ (Quic => Running(c))}

\* Sources::admit for a peer that is not on this machine.
admit(s, n) == s # Local => Cardinality(Live(s)) < Share /\ n[s] < StartShare

\* listener.accept() finds a socket: the window turns, the bounds are asked,
\* the socket is refused or a worker owns it.
Accept(c) ==
    /\ sup = "accept" /\ At(c, "arrived")
    /\ accepted' = accepted + 1
    /\ LET hs == IF supRolled THEN 0 ELSE started
           by == IF supRolled THEN [s \in Sources |-> 0] ELSE shareStart
           s  == conn[c].src
       IN IF Cardinality(owned) >= MaxConns \/ hs >= Handshakes \/ ~admit(s, by)
          THEN /\ conn' = [conn EXCEPT ![c] = [Idle EXCEPT !.pc = "refused"]]
               /\ started' = hs /\ shareStart' = by /\ UNCHANGED owned
          ELSE /\ conn' = Go(c, "handshake")
               /\ started' = hs + 1 /\ owned' = owned \cup {c}
               /\ shareStart' = IF s = Local THEN by ELSE [by EXCEPT ![s] = @ + 1]
    /\ supRolled' = FALSE /\ sup' = "check"
    /\ UNCHANGED <<stop, draining, failure, result, stateVars, lock, torn, rolls, faults>>

\* listener.accept() would block: park and look again.
Park ==
    /\ sup = "accept" /\ sup' = "check"
    /\ UNCHANGED <<stop, draining, accepted, started, shareStart, supRolled, failure, result, owned,
                   stateVars, conn, lock, torn, rolls, faults>>

\* The listener is closed and the workers' flag raised ...
Drain ==
    /\ sup = "drain" /\ sup' = "wake" /\ draining' = TRUE
    /\ conn' = [c \in Conns |-> IF At(c, "arrived") THEN [Idle EXCEPT !.pc = "refused"] ELSE conn[c]]
    /\ UNCHANGED <<stop, accepted, started, shareStart, supRolled, failure, result, owned,
                   stateVars, lock, torn, rolls, faults>>

\* Condvar::notify_all: every sleeping waiter contends for the mutex again.
Woken(w) == [c \in Conns |-> IF w[c].pc = "asleep" THEN [w[c] EXCEPT !.pc = "look"] ELSE w[c]]

\* ... and the held pages are notified, without the mutex.
WakeWaiters ==
    /\ sup = "wake" /\ sup' = "join" /\ conn' = Woken(conn)
    /\ UNCHANGED <<stop, draining, accepted, started, shareStart, supRolled, failure, result, owned,
                   stateVars, lock, torn, rolls, faults>>

\* Every owned worker is joined, then the state is asked once more.
Join ==
    /\ sup = "join" /\ \A c \in owned : ~Running(c)
    /\ sup' = "done"
    /\ failure' = (failure \/ unhealthy \/ \E c \in owned : At(c, "panicked"))
    /\ result' = IF failure' THEN "unavailable" ELSE "ok"
    /\ owned' = {}
    /\ UNCHANGED <<stop, draining, accepted, started, shareStart, supRolled, stateVars, conn, lock,
                   torn, rolls, faults>>

-----------------------------------------------------------------------------
(* A worker: serve_one around process_request.                              *)

\* PeerGuard: QUIC counts the authenticated peer too, this machine's included.
PeerFull(c) == Quic /\ Cardinality({d \in Conns \ {c} :
    /\ conn[d].src = conn[c].src /\ Running(d) /\ ~At(d, "handshake")}) >= Share

\* The handshake and the request frame arrive within their deadlines.
Frame(c) ==
    /\ At(c, "handshake")
    /\ IF PeerFull(c) THEN conn' = Over(c, "finished")
       ELSE \E a \in 0..high :
              conn' = [conn EXCEPT ![c].pc = "request", ![c].op = Asks[c].op, ![c].key = Asks[c].key,
                                   ![c].after = IF Asks[c].op = "put" THEN 0 ELSE a]
    /\ UNCHANGED <<supVars, stateVars, lock, torn, rolls, faults>>

\* The handshake or the frame fails, is late or names another protocol.
Hangup(c) ==
    /\ At(c, "handshake") /\ conn' = Over(c, "finished")
    /\ UNCHANGED <<supVars, stateVars, lock, torn, rolls, faults>>

Answer(c, p, code) == [conn EXCEPT ![c].pc = p, ![c].code = code]

\* The requests and bytes spent in the present window.
InWindow(f) == IF rolled THEN [k \in Keys |-> 0] ELSE f
SpentAll(n) == IF rolled THEN 0 ELSE n

\* The window of the service or of the credential has no room for the request.
Full(k) ==
    \/ SpentAll(allRequests) >= AllRequests \/ SpentAll(allBytes) + 1 > AllBytes
    \/ inflight[k] >= MaxInflight
    \/ InWindow(requests)[k] >= KeyRequests \/ InWindow(bytes)[k] + 1 > KeyBytes

\* process_request takes the mutex and asks, in order: the deadline, the
\* poison flag, the credential and its permission, the capacity of the window
\* and of the credential. An admitted request keeps the mutex.
Enter(c) ==
    /\ At(c, "request") /\ lock = Free
    /\ \/ /\ torn \/ poisoned          \* lock() fails, or the state is poisoned
          /\ conn' = Over(c, "finished")
          /\ UNCHANGED <<stateVars, lock>>
       \/ /\ ~torn /\ ~poisoned        \* the deadline passed, or DENIED
          /\ conn' = Over(c, "finished")
          /\ UNCHANGED <<stateVars, lock>>
       \/ /\ ~torn /\ ~poisoned
          /\ LET k == conn[c].key
             IN /\ rolled' = FALSE
                /\ IF Full(k)
                   THEN /\ conn' = Over(c, "finished")
                        /\ requests' = InWindow(requests) /\ bytes' = InWindow(bytes)
                        /\ allRequests' = SpentAll(allRequests) /\ allBytes' = SpentAll(allBytes)
                        /\ UNCHANGED <<inflight, lock>>
                   ELSE /\ conn' = [conn EXCEPT ![c].pc = IF conn[c].op = "wait" THEN "held" ELSE "run",
                                                ![c].admitted = TRUE]
                        /\ lock' = c
                        /\ inflight' = [inflight EXCEPT ![k] = @ + 1]
                        /\ requests' = [InWindow(requests) EXCEPT ![k] = @ + 1]
                        /\ bytes' = [InWindow(bytes) EXCEPT ![k] = @ + 1]
                        /\ allRequests' = SpentAll(allRequests) + 1
                        /\ allBytes' = SpentAll(allBytes) + 1
          /\ UNCHANGED <<poisoned, high>>
    /\ UNCHANGED <<supVars, torn, rolls, faults>>

\* Mutant: the admission is declared after the guard, so unwinding drops it
\* first and it waits for the mutex its own thread holds.
PanicHolds(c) ==
    /\ At(c, "run") \/ At(c, "held")
    /\ lock = c
    /\ faults < MaxFaults /\ faults' = faults + 1
    /\ conn' = Go(c, "release")
    /\ UNCHANGED <<supVars, stateVars, lock, torn, rolls>>

\* A handler panic unwinds: the guard poisons and frees the mutex first, then
\* Admission::drop finds it poisoned and leaves the count.
Panic(c) ==
    /\ At(c, "run") \/ At(c, "held")
    /\ lock = c
    /\ faults < MaxFaults /\ faults' = faults + 1
    /\ torn' = TRUE /\ lock' = Free /\ conn' = Over(c, "panicked")
    /\ UNCHANGED <<supVars, stateVars, rolls>>

\* A PUT or an immediate PAGE under the mutex. A put commits and syncs, is
\* refused by the mailbox, or leaves durable uncertainty; the response decides
\* State.poisoned before the mutex is released.
Run(c) ==
    /\ At(c, "run") /\ lock = c /\ lock' = Free
    /\ LET next == IF conn[c].op = "put" THEN "notify" ELSE "bill"
       IN \/ /\ high' = high + 1 /\ conn[c].op = "put"
             /\ conn' = Answer(c, next, "ok") /\ UNCHANGED <<poisoned, faults>>
          \/ /\ conn' = Answer(c, next, IF conn[c].op = "put" THEN "status" ELSE "ok")
             /\ UNCHANGED <<high, poisoned, faults>>
          \/ /\ faults < MaxFaults /\ faults' = faults + 1 /\ poisoned' = TRUE
             /\ conn' = Answer(c, next, IF conn[c].op = "put" THEN "failed" ELSE "unavailable")
             /\ high' \in IF conn[c].op = "put" THEN {high, high + 1} ELSE {high}
    /\ UNCHANGED <<supVars, rolled, inflight, requests, bytes, allRequests, allBytes, torn, rolls>>

\* notify_all after a PUT, once the mutex is released, whatever its outcome.
Notify(c) ==
    /\ At(c, "notify")
    /\ conn' = [Woken(conn) EXCEPT ![c].pc = "bill"]
    /\ UNCHANGED <<supVars, stateVars, lock, torn, rolls, faults>>

\* Mutant: a page that was held is answered without asking the poison flag.
LookTrusts(c) ==
    /\ At(c, "held") /\ lock = c
    /\ IF high > conn[c].after \/ conn[c].expired \/ draining \/ conn[c].cancelled # "no"
       THEN lock' = Free /\ conn' = Answer(c, "bill", "ok")
       ELSE conn' = Go(c, "park") /\ UNCHANGED lock
    /\ UNCHANGED <<supVars, stateVars, torn, rolls, faults>>

\* waited_page's test under the mutex: the page is read again, then the poison
\* flag, the records, the bound, the drain and the cancellation are asked; with
\* none of them the worker goes on to wait, still holding the mutex.
Look(c) ==
    /\ At(c, "held") /\ lock = c
    /\ \/ /\ poisoned
          /\ lock' = Free /\ conn' = Answer(c, "bill", "failed")
          /\ UNCHANGED <<poisoned, faults>>
       \/ /\ faults < MaxFaults /\ faults' = faults + 1      \* store.page fails
          /\ lock' = Free /\ conn' = Answer(c, "bill", "unavailable") /\ poisoned' = TRUE
       \/ /\ ~poisoned
          /\ IF \/ high > conn[c].after \/ conn[c].expired
                \/ draining \/ conn[c].cancelled # "no"
             THEN lock' = Free /\ conn' = Answer(c, "bill", "ok")
             ELSE conn' = Go(c, "park") /\ UNCHANGED lock
          /\ UNCHANGED <<poisoned, faults>>
    /\ UNCHANGED <<supVars, high, rolled, inflight, requests, bytes, allRequests, allBytes, torn, rolls>>

\* Condvar::wait_timeout releases the mutex and sleeps in one step.
Wait(c) ==
    /\ At(c, "park") /\ lock = c /\ lock' = Free /\ conn' = Go(c, "asleep")
    /\ UNCHANGED <<supVars, stateVars, torn, rolls, faults>>

\* The sleep ends: after WAIT_WAKE, or when the page's own bound has passed.
Timeout(c) ==
    /\ At(c, "asleep")
    /\ \E e \in {conn[c].expired, TRUE} :
          conn' = [conn EXCEPT ![c].pc = "look", ![c].expired = e]
    /\ UNCHANGED <<supVars, stateVars, lock, torn, rolls, faults>>

\* The woken waiter has the mutex again; wait_timeout reports a poisoned one,
\* and the caller then poisons the state.
Relock(c) ==
    /\ At(c, "look") /\ lock = Free
    /\ IF torn
       THEN conn' = Answer(c, "bill", "failed") /\ poisoned' = TRUE /\ UNCHANGED lock
       ELSE conn' = Go(c, "held") /\ lock' = c /\ UNCHANGED poisoned
    /\ UNCHANGED <<supVars, high, rolled, inflight, requests, bytes, allRequests, allBytes, torn, rolls, faults>>

\* QUIC: the peer closes or stops its stream while the request is processed.
Cancel(c) ==
    /\ Quic /\ conn[c].pc \in {"request", "run", "notify", "held", "park", "asleep", "look", "bill"}
    /\ conn[c].cancelled = "no"
    /\ conn' = [conn EXCEPT ![c].cancelled = "asked"]
    /\ UNCHANGED <<supVars, stateVars, lock, torn, rolls, faults>>

\* Mutant: the cancellation notifies without the mutex.
cancel_wait_unlocked(c) ==
    /\ conn[c].cancelled = "asked" /\ Running(c)
    /\ conn' = [Woken(conn) EXCEPT ![c].cancelled = "told"]
    /\ UNCHANGED <<supVars, stateVars, lock, torn, rolls, faults>>

\* cancel_wait notifies only with the mutex in hand; a busy one is retried.
cancel_wait(c) ==
    /\ conn[c].cancelled = "asked" /\ Running(c)
    /\ lock = Free
    /\ conn' = [Woken(conn) EXCEPT ![c].cancelled = "told"]
    /\ UNCHANGED <<supVars, stateVars, lock, torn, rolls, faults>>

\* Mutant: a failed response leaves its slot taken.
BillLeaks(c) ==
    /\ At(c, "bill") /\ lock = Free
    /\ conn' = IF conn[c].code = "failed" THEN Over(c, "finished") ELSE Go(c, "write")
    /\ UNCHANGED <<supVars, stateVars, lock, torn, rolls, faults>>

\* The response's exact frame, that of a page that is unavailable too, is billed
\* to the window that is now running; a failed response (`response?`) is not, and
\* ends the worker.
Bill(c) ==
    /\ At(c, "bill") /\ lock = Free
    /\ IF conn[c].code = "failed"
       THEN conn' = Go(c, "release") /\ UNCHANGED <<bytes, allBytes>>
       ELSE /\ conn' = Go(c, "write")
            /\ IF torn THEN UNCHANGED <<bytes, allBytes>>
               ELSE /\ bytes' = [bytes EXCEPT ![conn[c].key] = @ + 1]
                    /\ allBytes' = allBytes + 1
    /\ UNCHANGED <<supVars, poisoned, high, rolled, inflight, requests, allRequests, lock, torn, rolls, faults>>

\* The reply is written, or its deadline passes, without the mutex.
Respond(c) ==
    /\ At(c, "write") /\ conn' = Go(c, "release")
    /\ UNCHANGED <<supVars, stateVars, lock, torn, rolls, faults>>

\* Admission::drop: the credential's slot comes back under the mutex.
Release(c) ==
    /\ At(c, "release") /\ lock = Free
    /\ conn' = Over(c, "finished")
    /\ inflight' = IF torn THEN inflight ELSE [inflight EXCEPT ![conn[c].key] = @ - 1]
    /\ UNCHANGED <<supVars, poisoned, high, rolled, requests, bytes, allRequests, allBytes,
                   lock, torn, rolls, faults>>

-----------------------------------------------------------------------------
Supervisor == Supervise \/ Park \/ Drain \/ WakeWaiters \/ Join \/ \E c \in Conns : Accept(c)
Worker(c) ==
    \/ Frame(c) \/ Hangup(c) \/ Enter(c) \/ Run(c) \/ Notify(c) \/ Look(c) \/ Wait(c)
    \/ Timeout(c) \/ Relock(c) \/ cancel_wait(c) \/ Bill(c) \/ Respond(c) \/ Release(c)
ServiceNext ==
    /\ UNCHANGED load
    /\ \/ Supervisor \/ Stop \/ Roll
       \/ \E c \in Conns : Worker(c) \/ Connect(c) \/ Cancel(c) \/ Panic(c)
ServiceSpec == ServiceInit /\ [][ServiceNext]_serviceVars

\* The scheduler runs the supervisor and every worker, and sleeps and socket
\* deadlines end; nothing obliges clients to come or the operator to stop.
ServiceFairness ==
    /\ WF_serviceVars(UNCHANGED load /\ Supervisor)
    /\ \A c \in Conns : WF_serviceVars(UNCHANGED load /\ Worker(c))
ServiceLiveSpec == ServiceSpec /\ ServiceFairness

-----------------------------------------------------------------------------
ServiceTypeOK ==
    /\ {stop, draining, failure, supRolled, torn, poisoned, rolled} \subseteq BOOLEAN
    /\ sup \in {"check", "accept", "drain", "wake", "join", "done"}
    /\ result \in {"none", "ok", "unavailable"}
    /\ accepted \in 0..Accepts /\ started \in 0..Handshakes
    /\ shareStart \in [Sources -> 0..StartShare]
    /\ owned \subseteq Conns /\ lock \in Conns \cup {Free}
    /\ high \in Nat /\ rolls \in 0..MaxRolls /\ faults \in 0..MaxFaults
    /\ {inflight, requests, bytes} \subseteq [Keys -> Nat]
    /\ allRequests \in 0..AllRequests /\ allBytes \in Nat
    /\ \A c \in Conns :
          /\ conn[c].pc \in {"absent", "arrived", "refused", "handshake", "request", "run", "held",
                             "park", "asleep", "look", "notify", "bill", "write", "release",
                             "finished", "panicked"}
          /\ conn[c].src \in Origins /\ conn[c].op \in Ops /\ conn[c].key \in Keys
          /\ conn[c].cancelled \in {"no", "asked", "told"}

\* A credential's in-flight count is exactly its requests that are admitted and
\* not yet released (process_request, Admission::drop), whatever path the
\* request took: answered, refused by the mailbox, failed, held and cancelled.
\* So no slot leaks and no credential goes over its cap.
SlotsExact ==
    ~torn => \A k \in Keys :
        /\ inflight[k] = Cardinality({c \in Conns : conn[c].key = k /\ conn[c].admitted /\ Running(c)})
        /\ inflight[k] <= MaxInflight

\* The service never runs more workers than max_connections, and a remote
\* source never more than its share, although a finished worker's slot comes
\* back only when the supervisor reaps it (TLS) or its guard drops (QUIC).
SharesHold ==
    /\ Cardinality({c \in Conns : Running(c)}) <= MaxConns
    /\ \A s \in Sources : Cardinality({c \in Conns : Running(c) /\ conn[c].src = s}) <= Share

\* A held page never sleeps over a record that is already in the mailbox,
\* unless the PUT that put it there is about to notify: the page is read under
\* the mutex the PUT commits under, and the notification follows the commit.
HeldPageWoken ==
    \A c \in Conns : At(c, "asleep") /\ high > conn[c].after => \E w \in Conns : At(w, "notify")

\* Once cancel_wait has reported success the cancelled request's wait does not
\* sleep: "cancellation cannot land between the waiter's predicate check and
\* its atomic unlock-and-wait".
CancelReaches == \A c \in Conns : conn[c].cancelled = "told" => ~At(c, "asleep") /\ ~At(c, "park")

\* After durable uncertainty or a handler panic no request is answered as if
\* the mailbox were sound, not even a page that was held before it.
FailsClosed ==
    [][poisoned \/ torn => \A c \in Conns :
          conn'[c].code \in {"ok", "status"} => conn[c].code = conn'[c].code]_serviceVars

\* serve_until returns Ok only for a service that is not poisoned and whose
\* workers all ended without a panic, however late in the drain it broke.
HonestResult == result = "ok" => ~poisoned /\ ~torn /\ In("panicked") = {}

\* The response is billed after the mutex was given up, possibly to another
\* window; a window is still overrun by at most one response per request that
\* a credential, or the service, may have in flight.
OverrunBounded ==
    /\ \A k \in Keys : bytes[k] <= KeyBytes + MaxInflight
    /\ allBytes <= AllBytes + MaxConns

\* Stopping, durable uncertainty and a panic all end the service: the held
\* pages are answered, every worker is joined and serve_until returns.
Drains == stop \/ poisoned \/ torn ~> result # "none"

-----------------------------------------------------------------------------
(* The parts above together, as the run checks them.                       *)

\* Connections, shares, slots and byte budgets are what the live workers take.
Accounted ==
    /\ ServiceTypeOK
    /\ SharesHold
    /\ SlotsExact
    /\ OverrunBounded

\* No notification is lost between a held page's last look and its sleep.
WakesReach ==
    /\ HeldPageWoken
    /\ CancelReaches

\* After durable uncertainty nothing is served, and the service says how it ended.
ClosesHonestly ==
    /\ []HonestResult
    /\ FailsClosed
=============================================================================
