------------------------------- MODULE Throttle -------------------------------
(***************************************************************************)
(* Admission of QnA requests (services/qna/app.py): the per-key sliding    *)
(* window rate limiter, whose dependency runs on a threadpool thread, and  *)
(* the in-flight concurrency gate that follows it.  Time is a number of    *)
(* ticks, TicksPerSec of them to a second, so that rounding shows.         *)
(***************************************************************************)
EXTENDS Integers, FiniteSets, SequencesExt

CONSTANTS
    Reqs,           \* requests
    Keys,           \* throttle keys: a tenant id, else a client address
    KeyOf,          \* the key of every request
    Limit,          \* QNA_RATE_LIMIT_PER_MIN; <= 0 disables the limiter
    Window,         \* length of the window, in ticks
    TicksPerSec,
    MaxConcurrency, \* QNA_MAX_CONCURRENCY; <= 0 disables the gate
    MaxNow          \* bound: the clock stops here

ASSUME LimitsInt == Limit \in Int /\ MaxConcurrency \in Int
ASSUME TimePos == {Window, TicksPerSec, MaxNow} \subseteq Nat \ {0}
ASSUME ReqsFinite == IsFiniteSet(Reqs)
ASSUME KeyOfType == KeyOf \in [Reqs -> Keys]

VARIABLES
    now,      \* time.monotonic()
    hits,     \* the deque of every key
    ts,       \* the clock value a request's check works with
    retry,    \* the Retry-After of a rate-limited request, in seconds
    pc,
    inflight, \* the gate's counter
    newest    \* history: the latest clock value a check of the key used

vars == <<now, hits, ts, retry, pc, inflight, newest>>

-----------------------------------------------------------------------------
TheLater(x, y) == IF x > y THEN x ELSE y

\* The deque after the eviction loop: hits are popped from the left while they
\* are outside the window, and the loop stops at the first one inside.
Kept(dq, t) ==
    LET inside == {i \in 1..Len(dq) : dq[i] > t - Window}
    IN  IF inside = {} THEN <<>>
        ELSE SubSeq(dq, CHOOSE i \in inside : \A j \in inside : i <= j, Len(dq))

\* Faulty form: rounded down, without the second that makes up for it.
RetryAfterTruncated(dq, t) == TheLater(1, (Head(dq) + Window - t) \div TicksPerSec)

\* Seconds until the oldest hit ages out: max(1, int(...) + 1).
RetryAfter(dq, t) == TheLater(1, (Head(dq) + Window - t) \div TicksPerSec + 1)

-----------------------------------------------------------------------------
Init ==
    /\ now = 0
    /\ hits = [k \in Keys |-> <<>>]
    /\ ts = [r \in Reqs |-> 0]
    /\ retry = [r \in Reqs |-> 0]
    /\ pc = [r \in Reqs |-> "new"]
    /\ inflight = 0
    /\ newest = [k \in Keys |-> 0]

Tick ==
    /\ now < MaxNow
    /\ now' = now + 1
    /\ UNCHANGED <<hits, ts, retry, pc, inflight, newest>>

\* check() reads the clock before it takes the lock.
ReadClock(r) ==
    /\ pc[r] = "new"
    /\ ts' = [ts EXCEPT ![r] = now]
    /\ pc' = [pc EXCEPT ![r] = "check"]
    /\ UNCHANGED <<now, hits, retry, inflight, newest>>

\* Faulty form: one hit too many fits.
AdmitLoose(r) ==
    LET k == KeyOf[r]
        dq == Kept(hits[k], ts[r])
    IN  /\ pc[r] = "check"
        /\ Limit <= 0 \/ Len(dq) <= Limit
        /\ IF Limit <= 0 THEN UNCHANGED <<hits, newest>>
           ELSE /\ hits' = [hits EXCEPT ![k] = Append(dq, ts[r])]
                /\ newest' = [newest EXCEPT ![k] = TheLater(@, ts[r])]
        /\ pc' = [pc EXCEPT ![r] = "gate"]
        /\ UNCHANGED <<now, ts, retry, inflight>>

\* Under the lock, there is room in the window: the hit is recorded.
Admit(r) ==
    LET k == KeyOf[r]
        dq == Kept(hits[k], ts[r])
    IN  /\ pc[r] = "check"
        /\ Limit <= 0 \/ Len(dq) < Limit
        /\ IF Limit <= 0 THEN UNCHANGED <<hits, newest>>
           ELSE /\ hits' = [hits EXCEPT ![k] = Append(dq, ts[r])]
                /\ newest' = [newest EXCEPT ![k] = TheLater(@, ts[r])]
        /\ pc' = [pc EXCEPT ![r] = "gate"]
        /\ UNCHANGED <<now, ts, retry, inflight>>

\* ... or there is none: 429 with the time until the oldest hit ages out.
RateLimited(r) ==
    LET k == KeyOf[r]
        dq == Kept(hits[k], ts[r])
    IN  /\ pc[r] = "check"
        /\ Limit > 0 /\ Len(dq) >= Limit
        /\ hits' = [hits EXCEPT ![k] = dq]
        /\ newest' = [newest EXCEPT ![k] = TheLater(@, ts[r])]
        /\ retry' = [retry EXCEPT ![r] = RetryAfter(dq, ts[r])]
        /\ pc' = [pc EXCEPT ![r] = "limited"]
        /\ UNCHANGED <<now, ts, inflight>>

\* The yield-dependency takes a slot of the gate.
AcquireSlot(r) ==
    /\ pc[r] = "gate"
    /\ MaxConcurrency <= 0 \/ inflight < MaxConcurrency
    /\ inflight' = IF MaxConcurrency <= 0 THEN inflight ELSE inflight + 1
    /\ pc' = [pc EXCEPT ![r] = "running"]
    /\ UNCHANGED <<now, hits, ts, retry, newest>>

\* ... or is rejected with 429; the rate limiter's hit stays counted.
Rejected(r) ==
    /\ pc[r] = "gate"
    /\ MaxConcurrency > 0 /\ inflight >= MaxConcurrency
    /\ pc' = [pc EXCEPT ![r] = "rejected"]
    /\ UNCHANGED <<now, hits, ts, retry, inflight, newest>>

\* Faulty form: the slot is given back on success only.
TearDownOnSuccess(r, how) ==
    /\ pc[r] = "running"
    /\ inflight' = IF how = "answered" /\ inflight > 0 THEN inflight - 1 ELSE inflight
    /\ pc' = [pc EXCEPT ![r] = how]
    /\ UNCHANGED <<now, hits, ts, retry, newest>>

\* The finally of the dependency, when the response is out, the handler raised
\* or the client went away.
TearDown(r, how) ==
    /\ pc[r] = "running"
    /\ inflight' = IF inflight > 0 THEN inflight - 1 ELSE inflight
    /\ pc' = [pc EXCEPT ![r] = how]
    /\ UNCHANGED <<now, hits, ts, retry, newest>>

Next ==
    \/ Tick
    \/ \E r \in Reqs :
          \/ ReadClock(r) \/ Admit(r) \/ RateLimited(r)
          \/ AcquireSlot(r) \/ Rejected(r)
          \/ \E how \in {"answered", "raised"} : TearDown(r, how)

Spec == Init /\ [][Next]_vars

-----------------------------------------------------------------------------
TypeOK ==
    /\ now \in 0..MaxNow
    /\ hits \in [Keys -> Seq(0..MaxNow)]
    /\ ts \in [Reqs -> 0..MaxNow]
    /\ retry \in [Reqs -> Nat]
    /\ inflight \in Nat
    /\ newest \in [Keys -> 0..MaxNow]
    /\ pc \in [Reqs -> {"new", "check", "limited", "gate", "rejected",
                        "running", "answered", "raised"}]

\* Requests of a key the limiter let through.
Passed(k) == {r \in Reqs : KeyOf[r] = k /\ pc[r] \notin {"new", "check", "limited"}}

\* The limit holds in the window that ends at the newest check of a key, in
\* whatever order the threads got the lock: no hit inside it was evicted.
NewestWindowBounded ==
    Limit > 0 =>
        \A k \in Keys :
            Cardinality({r \in Passed(k) : ts[r] > newest[k] - Window}) <= Limit

\* A client that waits the Retry-After it was told finds room, if nobody used
\* the key meanwhile: rounding to seconds never sends it back too early, nor
\* does a deque whose hits are out of order.
RetryAfterSuffices ==
    [][\A r \in Reqs : pc[r] = "check" /\ pc'[r] = "limited" =>
          Len(Kept(hits'[KeyOf[r]], ts[r] + retry'[r] * TicksPerSec)) < Limit]_vars

\* The gate counts the requests in flight, on every way out of the handler,
\* and never lets in more than it should.
GateExact ==
    MaxConcurrency > 0 =>
        /\ inflight = Cardinality({r \in Reqs : pc[r] = "running"})
        /\ inflight <= MaxConcurrency

\* The limiter: its deques are typed, and no check lets the newest window exceed
\* the limit.
LimiterSound == TypeOK /\ NewestWindowBounded

=============================================================================
