---------------------------- MODULE AdmissionProofs ----------------------------
(***************************************************************************)
(* Proofs about what a QnA request passes before it is answered: the rate  *)
(* limiter and the concurrency gate of Throttle, for any requests, keys,   *)
(* limits, window and clock, and the token check of TokenKeys, for any key *)
(* schedule, tokens, settings, times and outages.                          *)
(***************************************************************************)
EXTENDS Throttle, TokenKeys, FiniteSetTheorems, SequenceTheorems, TLAPS

Running == {r \in Reqs : pc[r] = "running"}

\* The gate's counter, with what its inductiveness needs.
GateInv ==
    /\ DOMAIN pc = Reqs
    /\ MaxConcurrency > 0 => /\ inflight = Cardinality(Running)
                             /\ inflight <= MaxConcurrency

\* The requests in flight can be counted.
LEMMA RunningFinite == IsFiniteSet(Running) /\ Cardinality(Running) \in Nat
BY ReqsFinite, FS_Subset, FS_CardinalityType DEF Running

\* A step outside of the gate.
LEMMA GateStep ==
    ASSUME GateInv, NEW r \in Reqs, NEW s,
           pc' = [pc EXCEPT ![r] = s], inflight' = inflight,
           pc[r] # "running", s # "running"
    PROVE  GateInv'
<1>1. Running' = Running
  BY DEF Running, GateInv
<1> QED
  BY <1>1 DEF GateInv

\* The steps together, entering and leaving the gate among them.
LEMMA GateNext == GateInv /\ [Next]_vars => GateInv'
<1> SUFFICES ASSUME GateInv, [Next]_vars PROVE GateInv'
  OBVIOUS
<1>1. CASE UNCHANGED vars \/ Tick
  <2>1. Running' = Running
    BY <1>1 DEF vars, Tick, Running
  <2> QED
    BY <1>1, <2>1 DEF GateInv, vars, Tick
<1>2. ASSUME NEW r \in Reqs, ReadClock(r) \/ Admit(r) \/ RateLimited(r) \/ Rejected(r)
      PROVE  GateInv'
  <2>1. \E s \in {"check", "gate", "limited", "rejected"} : pc' = [pc EXCEPT ![r] = s]
    BY <1>2 DEF ReadClock, Admit, RateLimited, Rejected
  <2>2. pc[r] # "running" /\ inflight' = inflight
    BY <1>2 DEF ReadClock, Admit, RateLimited, Rejected
  <2> QED
    BY <2>1, <2>2, GateStep
<1>3. ASSUME NEW r \in Reqs, AcquireSlot(r)
      PROVE  GateInv'
  <2>1. pc[r] = "gate" /\ pc' = [pc EXCEPT ![r] = "running"]
    BY <1>3 DEF AcquireSlot
  <2>2. r \notin Running /\ Running' = Running \cup {r}
    BY <2>1 DEF Running, GateInv
  <2>3. Cardinality(Running') = Cardinality(Running) + 1
    BY <2>2, RunningFinite, FS_AddElement
  <2>4. MaxConcurrency > 0 => inflight < MaxConcurrency /\ inflight' = inflight + 1
    BY <1>3, LimitsInt DEF AcquireSlot
  <2> QED
    BY <2>1, <2>3, <2>4, RunningFinite, LimitsInt DEF GateInv
<1>4. ASSUME NEW r \in Reqs, NEW how \in {"answered", "raised"}, TearDown(r, how)
      PROVE  GateInv'
  <2>1. /\ pc[r] = "running" /\ pc' = [pc EXCEPT ![r] = how]
        /\ inflight' = IF inflight > 0 THEN inflight - 1 ELSE inflight
    BY <1>4 DEF TearDown
  <2>2. r \in Running /\ Running' = Running \ {r}
    BY <2>1 DEF Running, GateInv
  <2>3. Cardinality(Running') = Cardinality(Running) - 1
    BY <2>2, RunningFinite, FS_RemoveElement
  <2>4. Cardinality(Running) > 0
    BY <2>2, RunningFinite, FS_EmptySet
  <2> QED
    BY <2>1, <2>3, <2>4, RunningFinite, LimitsInt DEF GateInv
<1> QED
  BY <1>1, <1>2, <1>3, <1>4 DEF Next

\* The counter of the gate is the number of requests in flight, on every way out
\* of the handler, and never above QNA_MAX_CONCURRENCY (app.py, concurrency_gate).
THEOREM SpecGateExact == Spec => []GateExact
<1>1. Init => GateInv
  <2> SUFFICES ASSUME Init PROVE GateInv
    OBVIOUS
  <2>1. Running = {}
    BY DEF Init, Running
  <2> QED
    BY <2>1, FS_EmptySet, LimitsInt DEF Init, GateInv
<1>2. GateInv => GateExact
  BY DEF GateInv, GateExact, Running
<1> QED
  BY <1>1, <1>2, GateNext, PTL DEF Spec

-----------------------------------------------------------------------------
\* A deque keeps a suffix, and everything before it is outside the window.
LEMMA LeastIndex ==
    ASSUME NEW S, S \subseteq Nat, S # {}
    PROVE  \E i \in S : \A j \in S : i <= j
<1>1. PICK i \in S : \A j \in S : ~(<<j, i>> \in OpToRel(<, Nat))
  BY NatLessThanWellFounded, WFMin
<1>2. ASSUME NEW j \in S, j < i PROVE FALSE
  <2>1. <<j, i>> \in Nat \X Nat /\ <<j, i>>[1] = j /\ <<j, i>>[2] = i
    OBVIOUS
  <2>2. <<j, i>> \in OpToRel(<, Nat)
    BY <1>2, <2>1 DEF OpToRel
  <2> QED
    BY <1>1, <2>2
<1> QED
  BY <1>2

\* What an eviction leaves is the end of the deque, and what it takes is old.
LEMMA KeptSuffix ==
    ASSUME NEW S, S \subseteq Nat, NEW dq \in Seq(S), NEW t \in Nat
    PROVE  /\ Kept(dq, t) \in Seq(S)
           /\ \E m \in 0..Len(dq) :
                /\ Len(Kept(dq, t)) = Len(dq) - m
                /\ \A i \in 1..Len(dq) - m : Kept(dq, t)[i] = dq[i + m]
                /\ \A i \in 1..m : dq[i] <= t - Window
<1> DEFINE inside == {i \in 1..Len(dq) : dq[i] > t - Window}
           first == CHOOSE i \in inside : \A j \in inside : i <= j
<1>0. Len(dq) \in Nat /\ Window \in Nat /\ \A i \in 1..Len(dq) : dq[i] \in Nat /\ dq[i] \in S
  <2>1. Window \in Nat
    BY TimePos
  <2>2. ASSUME NEW i \in 1..Len(dq) PROVE dq[i] \in S
    OBVIOUS
  <2>3. Len(dq) \in Nat
    OBVIOUS
  <2> HIDE DEF inside, first
  <2> QED
    BY <2>1, <2>2, <2>3
<1>1. CASE inside = {}
  <2>1. Kept(dq, t) = <<>>
    BY <1>1 DEF Kept
  <2>2. \A i \in 1..Len(dq) : dq[i] <= t - Window
    BY <1>0, <1>1
  <2>3. Len(dq) \in 0..Len(dq) /\ Len(dq) - Len(dq) = 0
    BY <1>0
  <2> QED
    BY <1>0, <2>1, <2>2, <2>3
<1>2. CASE inside # {}
  <2>1. first \in inside /\ \A j \in inside : first <= j
    <3>1. inside \subseteq Nat
      BY <1>0
    <3>2. \E i \in inside : \A j \in inside : i <= j
      BY <1>2, <3>1, LeastIndex
    <3> QED
      BY <3>2
  <2>2. Kept(dq, t) = SubSeq(dq, first, Len(dq))
    BY <1>2 DEF Kept
  <2> HIDE DEF first
  <2>3. first \in 1..Len(dq)
    BY <2>1
  <2>4. \A i \in first..Len(dq) : dq[i] \in S
    BY <1>0, <2>3
  <2>5. /\ SubSeq(dq, first, Len(dq)) \in Seq(S)
        /\ Len(SubSeq(dq, first, Len(dq))) = Len(dq) - first + 1
        /\ \A i \in 1..Len(dq) - first + 1 : SubSeq(dq, first, Len(dq))[i] = dq[first + i - 1]
    BY <1>0, <2>3, <2>4, SubSeqProperties
  <2>6. \A i \in 1..first - 1 : dq[i] <= t - Window
    BY <1>0, <2>1, <2>3
  <2>7. first - 1 \in 0..Len(dq) /\ Len(dq) - (first - 1) = Len(dq) - first + 1
    BY <1>0, <2>3
  <2>8. \A i \in 1..Len(dq) - (first - 1) : first + i - 1 = i + (first - 1)
    BY <1>0, <2>3
  <2> QED
    BY <2>2, <2>5, <2>6, <2>7, <2>8
<1> QED
  BY <1>1, <1>2

-----------------------------------------------------------------------------
\* Types.
LEMMA KeptTyped ==
    ASSUME TypeOK, NEW r \in Reqs
    PROVE  /\ ts[r] \in 0..MaxNow /\ KeyOf[r] \in Keys
           /\ hits[KeyOf[r]] \in Seq(0..MaxNow)
           /\ Kept(hits[KeyOf[r]], ts[r]) \in Seq(0..MaxNow)
<1>1. ts[r] \in 0..MaxNow /\ KeyOf[r] \in Keys /\ hits[KeyOf[r]] \in Seq(0..MaxNow)
  BY KeyOfType DEF TypeOK
<1>2. 0..MaxNow \subseteq Nat /\ ts[r] \in Nat
  BY <1>1
<1> QED
  BY <1>1, <1>2, KeptSuffix

\* Every step keeps the types.
LEMMA TypeNext == TypeOK /\ [Next]_vars => TypeOK'
<1> SUFFICES ASSUME TypeOK, [Next]_vars PROVE TypeOK'
  OBVIOUS
<1> USE DEF TypeOK
<1>0. Window \in Nat /\ MaxNow \in Nat /\ TicksPerSec \in Nat \ {0}
  BY TimePos
<1>1. CASE UNCHANGED vars \/ Tick
  BY <1>0, <1>1 DEF vars, Tick
<1>2. ASSUME NEW r \in Reqs,
             ReadClock(r) \/ AcquireSlot(r) \/ Rejected(r)
               \/ \E how \in {"answered", "raised"} : TearDown(r, how)
      PROVE  TypeOK'
  <2>1. CASE ReadClock(r)
    BY <2>1 DEF ReadClock
  <2>2. CASE AcquireSlot(r)
    BY <2>2 DEF AcquireSlot
  <2>3. CASE Rejected(r)
    BY <2>3 DEF Rejected
  <2>4. ASSUME NEW how \in {"answered", "raised"}, TearDown(r, how) PROVE TypeOK'
    BY <2>4 DEF TearDown
  <2> QED
    BY <1>2, <2>1, <2>2, <2>3, <2>4
<1>3. ASSUME NEW r \in Reqs, Admit(r) PROVE TypeOK'
  <2>1. ts[r] \in 0..MaxNow /\ KeyOf[r] \in Keys
    BY KeptTyped
  <2>2. Append(Kept(hits[KeyOf[r]], ts[r]), ts[r]) \in Seq(0..MaxNow)
    BY KeptTyped, AppendProperties
  <2>3. hits' \in [Keys -> Seq(0..MaxNow)]
    BY <1>3, <2>2 DEF Admit
  <2>4. newest' \in [Keys -> 0..MaxNow]
    BY <1>3, <2>1 DEF Admit, TheLater
  <2> QED
    BY <1>3, <2>3, <2>4 DEF Admit
<1>4. ASSUME NEW r \in Reqs, RateLimited(r) PROVE TypeOK'
  <2> DEFINE dq == Kept(hits[KeyOf[r]], ts[r])
  <2>1. ts[r] \in 0..MaxNow /\ KeyOf[r] \in Keys /\ dq \in Seq(0..MaxNow)
    BY KeptTyped
  <2>2. dq # <<>>
    BY <1>4, LimitsInt DEF RateLimited
  <2>3. Head(dq) \in 0..MaxNow
    BY <2>1, <2>2, HeadTailProperties
  <2>4. RetryAfter(dq, ts[r]) \in Nat
    <3> HIDE DEF dq
    <3>1. (Head(dq) + Window - ts[r]) \div TicksPerSec \in Int
      BY <1>0, <2>1, <2>3
    <3> QED
      BY <3>1 DEF RetryAfter, TheLater
  <2>5. hits' \in [Keys -> Seq(0..MaxNow)]
    BY <1>4, <2>1 DEF RateLimited
  <2>6. newest' \in [Keys -> 0..MaxNow]
    BY <1>4, <2>1 DEF RateLimited, TheLater
  <2>7. retry' \in [Reqs -> Nat]
    BY <1>4, <2>4 DEF RateLimited
  <2> QED
    BY <1>4, <2>5, <2>6, <2>7 DEF RateLimited
<1> QED
  BY <1>1, <1>2, <1>3, <1>4 DEF Next

-----------------------------------------------------------------------------
\* The window.  Every admitted request inside the newest window of its key still
\* has a hit of its own in the deque, and a deque is never longer than the limit.
Windowed(k, end) == {r \in Passed(k) : ts[r] > end - Window}

Matched(W, dq, f) ==
    /\ f \in [W -> 1..Len(dq)]
    /\ \A q, r \in W : f[q] = f[r] => q = r
    /\ \A r \in W : dq[f[r]] = ts[r]

Fits(k) ==
    /\ Len(hits[k]) <= Limit
    /\ \E f : Matched(Windowed(k, newest[k]), hits[k], f)

WindowInv == Limit > 0 => \A k \in Keys : Fits(k)

\* A matching bounds the window by the deque.
LEMMA MatchedBounds ==
    ASSUME TypeOK, NEW k \in Keys, NEW W, NEW f, Matched(W, hits[k], f)
    PROVE  Cardinality(W) <= Len(hits[k])
<1>1. Len(hits[k]) \in Nat
  BY DEF TypeOK
<1>2. f \in Injection(W, 1..Len(hits[k]))
  BY DEF Matched, Injection, IsInjective
<1>3. IsFiniteSet(1..Len(hits[k])) /\ Cardinality(1..Len(hits[k])) = Len(hits[k])
  BY <1>1, FS_Interval
<1> QED
  BY <1>2, <1>3, FS_Injection

\* What a check evicts is no longer in the window that ends at it, or later.
LEMMA EvictMatched ==
    ASSUME TypeOK, NEW k \in Keys, NEW t \in 0..MaxNow, NEW f,
           Matched(Windowed(k, newest[k]), hits[k], f)
    PROVE  /\ Len(Kept(hits[k], t)) <= Len(hits[k])
           /\ \E g : Matched(Windowed(k, TheLater(newest[k], t)), Kept(hits[k], t), g)
<1> DEFINE dq == Kept(hits[k], t)
           end == TheLater(newest[k], t)
           W == Windowed(k, end)
<1>1. /\ hits[k] \in Seq(0..MaxNow) /\ Len(hits[k]) \in Nat
      /\ 0..MaxNow \subseteq Nat /\ t \in Nat /\ newest[k] \in Nat /\ Window \in Nat
  BY TimePos DEF TypeOK
<1>2. PICK m \in 0..Len(hits[k]) :
        /\ Len(dq) = Len(hits[k]) - m
        /\ \A i \in 1..Len(hits[k]) - m : dq[i] = hits[k][i + m]
        /\ \A i \in 1..m : hits[k][i] <= t - Window
  BY <1>1, KeptSuffix
<1>3. end \in Nat /\ end >= t /\ end >= newest[k]
  BY <1>1 DEF TheLater
<1>4. \A r \in Passed(k) : r \in Reqs /\ ts[r] \in Nat
  BY DEF Passed, TypeOK
<1> HIDE DEF dq, end
<1>5. \A r \in W : r \in Windowed(k, newest[k]) /\ ts[r] > t - Window /\ r \in Passed(k)
  BY <1>1, <1>3, <1>4 DEF Windowed
<1> DEFINE g == [r \in W |-> f[r] - m]
<1>6. \A r \in W : f[r] \in m + 1..Len(hits[k]) /\ hits[k][f[r]] = ts[r]
  <2> SUFFICES ASSUME NEW r \in W PROVE f[r] \in m + 1..Len(hits[k]) /\ hits[k][f[r]] = ts[r]
    OBVIOUS
  <2>1. f[r] \in 1..Len(hits[k]) /\ hits[k][f[r]] = ts[r]
    BY <1>5 DEF Matched
  <2>2. ~(f[r] \in 1..m)
    BY <1>1, <1>2, <1>4, <1>5, <2>1
  <2> QED
    BY <1>1, <1>2, <2>1, <2>2
<1> HIDE DEF W
<1>7. g \in [W -> 1..Len(dq)]
  BY <1>1, <1>2, <1>6
<1>8. \A q, r \in W : g[q] = g[r] => q = r
  BY <1>1, <1>2, <1>5, <1>6 DEF Matched
<1>9. \A r \in W : dq[g[r]] = ts[r]
  <2> SUFFICES ASSUME NEW r \in W PROVE dq[g[r]] = ts[r]
    OBVIOUS
  <2>1. g[r] \in 1..Len(hits[k]) - m /\ g[r] + m = f[r]
    BY <1>1, <1>2, <1>6
  <2> QED
    BY <1>2, <1>6, <2>1
<1>10. Matched(W, dq, g)
  BY <1>7, <1>8, <1>9 DEF Matched
<1> QED
  BY <1>1, <1>2, <1>10 DEF W, dq, end

\* Steps that touch neither a deque nor who passed leave the window as it is.
LEMMA QuietStep ==
    ASSUME WindowInv, hits' = hits, newest' = newest,
           \A k \in Keys : Passed(k)' = Passed(k) /\ \A r \in Passed(k) : ts'[r] = ts[r]
    PROVE  WindowInv'
<1>1. ASSUME NEW k \in Keys, NEW f, Matched(Windowed(k, newest[k]), hits[k], f)
      PROVE  Matched(Windowed(k, newest[k]), hits[k], f)'
  <2>1. Windowed(k, newest[k])' = Windowed(k, newest[k])
    BY DEF Windowed
  <2>2. \A r \in Windowed(k, newest[k]) : ts'[r] = ts[r]
    BY DEF Windowed
  <2> QED
    BY <1>1, <2>1, <2>2 DEF Matched
<1> QED
  BY <1>1 DEF WindowInv, Fits

\* Every step keeps the matching: checks evict, append or refuse.
LEMMA WindowNext == TypeOK /\ WindowInv /\ [Next]_vars => WindowInv'
<1> SUFFICES ASSUME TypeOK, WindowInv, [Next]_vars, Limit > 0
             PROVE  WindowInv'
  BY DEF WindowInv
<1> USE DEF TypeOK
<1>1. CASE UNCHANGED vars \/ Tick
  <2>1. hits' = hits /\ newest' = newest /\ ts' = ts /\ pc' = pc
    BY <1>1 DEF vars, Tick
  <2> QED
    BY <2>1, QuietStep DEF Passed
<1>2. ASSUME NEW r \in Reqs, ReadClock(r) PROVE WindowInv'
  <2>1. /\ hits' = hits /\ newest' = newest
        /\ pc[r] = "new" /\ pc' = [pc EXCEPT ![r] = "check"]
        /\ ts' = [ts EXCEPT ![r] = now]
    BY <1>2 DEF ReadClock
  <2>2. \A k \in Keys : Passed(k)' = Passed(k) /\ r \notin Passed(k)
    BY <2>1 DEF Passed
  <2>3. \A k \in Keys : \A q \in Passed(k) : ts'[q] = ts[q]
    BY <2>1, <2>2 DEF Passed
  <2> QED
    BY <2>1, <2>2, <2>3, QuietStep
<1>3. ASSUME NEW r \in Reqs,
             AcquireSlot(r) \/ Rejected(r) \/ \E how \in {"answered", "raised"} : TearDown(r, how)
      PROVE  WindowInv'
  <2>1. hits' = hits /\ newest' = newest /\ ts' = ts /\ pc[r] \in {"gate", "running"}
    BY <1>3 DEF AcquireSlot, Rejected, TearDown
  <2>2. PICK s \in {"running", "rejected", "answered", "raised"} : pc' = [pc EXCEPT ![r] = s]
    BY <1>3 DEF AcquireSlot, Rejected, TearDown
  <2>3. \A k \in Keys : Passed(k)' = Passed(k)
    BY <2>1, <2>2 DEF Passed
  <2> QED
    BY <2>1, <2>3, QuietStep
<1>4. ASSUME NEW r \in Reqs, Admit(r) \/ RateLimited(r) PROVE WindowInv'
  <2> DEFINE k == KeyOf[r]
             t == ts[r]
             dq == Kept(hits[k], t)
             end == TheLater(newest[k], t)
             W == Windowed(k, end)
  <2>0. k \in Keys /\ t \in 0..MaxNow /\ hits[k] \in Seq(0..MaxNow) /\ dq \in Seq(0..MaxNow)
    BY KeptTyped
  <2>1. /\ newest' = [newest EXCEPT ![k] = end]
        /\ ts' = ts /\ pc[r] = "check"
    BY <1>4, LimitsInt DEF Admit, RateLimited
  <2>2. PICK f : Matched(Windowed(k, newest[k]), hits[k], f)
    BY <2>0 DEF WindowInv, Fits
  <2>3. PICK g : Matched(W, dq, g)
    BY <2>0, <2>2, EvictMatched
  <2>4. Len(dq) \in Nat /\ Len(dq) <= Limit
    BY <2>0, <2>2, EvictMatched, LimitsInt DEF WindowInv, Fits
  <2>5. newest'[k] = end
    BY <2>0, <2>1
  <2> HIDE DEF dq, end, t
  <2>6. ASSUME NEW j \in Keys \ {k} PROVE Fits(j)'
    <3>1. hits'[j] = hits[j] /\ newest'[j] = newest[j]
      BY <1>4, <2>0, <2>1 DEF Admit, RateLimited
    <3>2. Passed(j)' = Passed(j)
      BY <1>4, <2>6 DEF Admit, RateLimited, Passed
    <3>3. Windowed(j, newest[j])' = Windowed(j, newest[j])
      BY <2>1, <3>1, <3>2 DEF Windowed
    <3>4. PICK e : Matched(Windowed(j, newest[j]), hits[j], e)
      BY DEF WindowInv, Fits
    <3>5. Matched(Windowed(j, newest[j]), hits[j], e)'
      BY <2>1, <3>1, <3>3, <3>4 DEF Matched
    <3> QED
      BY <3>1, <3>5 DEF WindowInv, Fits
  <2>7. ASSUME RateLimited(r) PROVE Fits(k)'
    <3>1. hits'[k] = dq
      BY <2>0, <2>7 DEF RateLimited, dq, t
    <3>2. Passed(k)' = Passed(k)
      BY <2>1, <2>7 DEF RateLimited, Passed
    <3>3. Windowed(k, newest[k])' = W
      BY <2>1, <2>5, <3>2 DEF Windowed
    <3>4. Matched(Windowed(k, newest[k]), hits[k], g)'
      BY <2>1, <2>3, <3>1, <3>3 DEF Matched
    <3> QED
      BY <2>4, <3>1, <3>4 DEF Fits
  <2>8. ASSUME Admit(r) PROVE Fits(k)'
    <3>1. hits'[k] = Append(dq, t) /\ Len(dq) < Limit /\ pc' = [pc EXCEPT ![r] = "gate"]
      BY <2>0, <2>8, LimitsInt DEF Admit, dq, t
    <3>2. Passed(k)' = Passed(k) \cup {r} /\ r \notin Passed(k)
      BY <2>1, <3>1 DEF Passed
    <3> DEFINE V == {q \in Passed(k) \cup {r} : ts[q] > end - Window}
               h == [q \in V |-> IF q = r THEN Len(dq) + 1 ELSE g[q]]
    <3>3. Windowed(k, newest[k])' = V
      BY <2>1, <2>5, <3>2 DEF Windowed
    <3>4. /\ Len(Append(dq, t)) = Len(dq) + 1
          /\ \A i \in 1..Len(dq) : Append(dq, t)[i] = dq[i]
          /\ Append(dq, t)[Len(dq) + 1] = t
      BY <2>0, AppendProperties
    <3>5. \A q \in V \ {r} : q \in W
      BY DEF Windowed
    <3> HIDE DEF V, W
    <3>6. \A q \in V \ {r} : g[q] \in 1..Len(dq) /\ dq[g[q]] = ts[q]
      BY <2>3, <3>5 DEF Matched
    <3>7. h \in [V -> 1..Len(dq) + 1]
      BY <2>4, <3>6
    <3>8. \A p, q \in V : h[p] = h[q] => p = q
      BY <2>3, <2>4, <3>5, <3>6 DEF Matched
    <3>9. \A q \in V : Append(dq, t)[h[q]] = ts[q]
      BY <2>4, <3>4, <3>6 DEF t
    <3>10. PICK e : e = h
      OBVIOUS
    <3> HIDE DEF h
    <3>11. Matched(Windowed(k, newest[k]), hits[k], e)'
      BY <2>1, <3>1, <3>3, <3>4, <3>7, <3>8, <3>9, <3>10 DEF Matched
    <3> QED
      BY <2>4, <3>1, <3>4, <3>11, LimitsInt DEF Fits
  <2> QED
    BY <1>4, <2>6, <2>7, <2>8 DEF WindowInv
<1> QED
  BY <1>1, <1>2, <1>3, <1>4 DEF Next

\* The service starts with empty deques.
LEMMA WindowInit == Init => TypeOK /\ WindowInv
<1> SUFFICES ASSUME Init PROVE TypeOK /\ WindowInv
  OBVIOUS
<1>1. TypeOK
  BY TimePos DEF Init, TypeOK
<1>2. ASSUME NEW k \in Keys, Limit > 0 PROVE Fits(k)
  <2>1. Windowed(k, newest[k]) = {} /\ hits[k] = <<>>
    BY DEF Init, Windowed, Passed
  <2>2. Matched(Windowed(k, newest[k]), hits[k], [x \in {} |-> 0])
    BY <2>1 DEF Matched
  <2> QED
    BY <1>2, <2>1, <2>2, LimitsInt DEF Fits
<1> QED
  BY <1>1, <1>2 DEF WindowInv

\* In whatever order threads get the lock with the clock values they read before,
\* no window that ends at the newest check of a key holds more than the limit
\* (app.py, _SlidingWindowLimiter.check); and the state is typed.
THEOREM SpecLimiterSound == Spec => []LimiterSound
<1>2. TypeOK /\ WindowInv => LimiterSound
  <2> SUFFICES ASSUME TypeOK, WindowInv, Limit > 0, NEW k \in Keys
               PROVE  Cardinality({r \in Passed(k) : ts[r] > newest[k] - Window}) <= Limit
    BY DEF LimiterSound, NewestWindowBounded
  <2>1. PICK f : Matched(Windowed(k, newest[k]), hits[k], f)
    BY DEF WindowInv, Fits
  <2>2. Cardinality(Windowed(k, newest[k])) <= Len(hits[k])
    BY <2>1, MatchedBounds
  <2>3. Windowed(k, newest[k]) \subseteq Reqs
    BY DEF Windowed, Passed
  <2>4. Cardinality(Windowed(k, newest[k])) \in Nat
    BY <2>3, ReqsFinite, FS_Subset, FS_CardinalityType
  <2>5. Len(hits[k]) \in Nat /\ Len(hits[k]) <= Limit
    BY DEF WindowInv, Fits, TypeOK
  <2> QED
    BY <2>2, <2>4, <2>5, LimitsInt DEF Windowed
<1> QED
  BY <1>2, WindowInit, TypeNext, WindowNext, PTL DEF Spec

-----------------------------------------------------------------------------
\* The Retry-After.

\* The first hit that an eviction leaves is inside the window.
LEMMA KeptHead ==
    ASSUME NEW dq \in Seq(Nat), NEW t \in Nat, Kept(dq, t) # <<>>
    PROVE  Kept(dq, t)[1] > t - Window
<1> DEFINE inside == {i \in 1..Len(dq) : dq[i] > t - Window}
           first == CHOOSE i \in inside : \A j \in inside : i <= j
<1>1. inside # {} /\ Kept(dq, t) = SubSeq(dq, first, Len(dq))
  BY DEF Kept
<1>2. inside \subseteq Nat /\ Len(dq) \in Nat
  OBVIOUS
<1>3. \E i \in inside : \A j \in inside : i <= j
  <2> HIDE DEF inside
  <2> QED
    BY <1>1, <1>2, LeastIndex
<1>4. first \in inside
  BY <1>3
<1> HIDE DEF first
<1>5. first \in 1..Len(dq) /\ dq[first] > t - Window
  BY <1>4
<1>6. \A i \in first..Len(dq) : dq[i] \in Nat
  BY <1>2, <1>5, ElementOfSeq
<1>7. \A i \in 1..(Len(dq) - first + 1) : SubSeq(dq, first, Len(dq))[i] = dq[first + i - 1]
  BY <1>2, <1>5, <1>6, SubSeqProperties
<1>8. 1 \in 1..(Len(dq) - first + 1) /\ first + 1 - 1 = first
  BY <1>2, <1>5
<1> QED
  BY <1>1, <1>5, <1>7, <1>8

\* Once the oldest hit is outside the window, a check evicts it.
LEMMA OldestGoes ==
    ASSUME NEW dq \in Seq(Nat), dq # <<>>, NEW t \in Nat, dq[1] <= t - Window
    PROVE  Len(Kept(dq, t)) < Len(dq)
<1>1. Len(dq) \in Nat /\ dq[1] \in Nat /\ Window \in Nat
  <2>1. Len(dq) \in Nat /\ Len(dq) # 0
    BY EmptySeq, LenProperties
  <2> QED
    BY <2>1, TimePos, ElementOfSeq
<1>2. PICK m \in 0..Len(dq) :
        /\ Len(Kept(dq, t)) = Len(dq) - m
        /\ \A i \in 1..(Len(dq) - m) : Kept(dq, t)[i] = dq[i + m]
  BY KeptSuffix
<1>3. Len(dq) # 0
  BY EmptySeq
<1>4. m # 0
  <2> SUFFICES ASSUME m = 0 PROVE FALSE
    OBVIOUS
  <2>1. Len(Kept(dq, t)) = Len(dq) /\ Kept(dq, t)[1] = dq[1]
    BY <1>1, <1>2, <1>3
  <2>2. Kept(dq, t) # <<>>
    BY <1>3, <2>1
  <2>3. dq[1] > t - Window
    BY <2>1, <2>2, KeptHead
  <2> QED
    BY <1>1, <2>3
<1> QED
  BY <1>1, <1>2, <1>4

\* The second that is added makes up for the division that rounds down.
LEMMA RetryLongEnough ==
    ASSUME NEW dq, Head(dq) \in Nat, NEW t \in Nat
    PROVE  /\ RetryAfter(dq, t) \in Nat
           /\ Head(dq) <= t + RetryAfter(dq, t) * TicksPerSec - Window
<1> DEFINE x == Head(dq) + Window - t
           up == x \div TicksPerSec + 1
<1>1. Window \in Nat /\ TicksPerSec \in Nat \ {0} /\ x \in Int
  BY TimePos
<1>2. up \in Int /\ up * TicksPerSec > x
  <2> HIDE DEF x
  <2> QED
    BY <1>1
<1>3. RetryAfter(dq, t) = IF 1 > up THEN 1 ELSE up
  BY DEF RetryAfter, TheLater
<1>4. RetryAfter(dq, t) \in Nat /\ RetryAfter(dq, t) * TicksPerSec >= up * TicksPerSec
  <2> HIDE DEF x, up
  <2>1. CASE 1 > up
    <3>1. 1 * TicksPerSec >= up * TicksPerSec
      BY <1>1, <1>2, <2>1
    <3> QED
      BY <1>3, <2>1, <3>1
  <2>2. CASE ~(1 > up)
    <3>1. up * TicksPerSec >= up * TicksPerSec
      BY <1>1, <1>2
    <3> QED
      BY <1>2, <1>3, <2>2, <3>1
  <2> QED
    BY <2>1, <2>2
<1>5. up * TicksPerSec \in Int /\ RetryAfter(dq, t) * TicksPerSec \in Int
  <2> HIDE DEF x, up
  <2> QED
    BY <1>1, <1>2, <1>4
<1> HIDE DEF up
<1> QED
  BY <1>1, <1>2, <1>4, <1>5

\* A client that waits the Retry-After it was told finds room if nobody used the
\* key meanwhile (app.py, _SlidingWindowLimiter.check), whatever the order of the
\* hits, the length of the window and the ticks of a second.
THEOREM SpecRetryAfterSuffices == Spec => RetryAfterSuffices
<1>2. ASSUME TypeOK, WindowInv, [Next]_vars, NEW r \in Reqs, pc[r] = "check", pc'[r] = "limited"
      PROVE  Len(Kept(hits'[KeyOf[r]], ts[r] + retry'[r] * TicksPerSec)) < Limit
  <2>1. RateLimited(r)
    <3>1. pc \in [Reqs -> {"new", "check", "limited", "gate", "rejected",
                           "running", "answered", "raised"}]
      BY <1>2 DEF TypeOK
    <3> QED
      BY <1>2, <3>1 DEF Next, vars, Tick, ReadClock, Admit, RateLimited, AcquireSlot, Rejected, TearDown
  <2> DEFINE k == KeyOf[r]
             t == ts[r]
             dq == Kept(hits[k], t)
             wait == RetryAfter(dq, t)
  <2>2. k \in Keys /\ t \in 0..MaxNow /\ hits[k] \in Seq(0..MaxNow) /\ dq \in Seq(0..MaxNow)
    BY <1>2, KeptTyped
  <2>3. Limit > 0 /\ Len(dq) >= Limit /\ hits'[k] = dq /\ retry'[r] = wait
    BY <1>2, <2>1, <2>2 DEF RateLimited, TypeOK
  <2>4. PICK f : Matched(Windowed(k, newest[k]), hits[k], f)
    BY <1>2, <2>2, <2>3 DEF WindowInv, Fits
  <2>5. Len(dq) <= Limit
    <3>1. Len(dq) <= Len(hits[k])
      BY <1>2, <2>2, <2>4, EvictMatched
    <3>2. Len(hits[k]) <= Limit
      BY <1>2, <2>2, <2>3 DEF WindowInv, Fits
    <3>3. Len(dq) \in Nat /\ Len(hits[k]) \in Nat
      BY <2>2, LenProperties
    <3> QED
      BY <3>1, <3>2, <3>3, LimitsInt
  <2> HIDE DEF dq
  <2>6. dq \in Seq(Nat) /\ t \in Nat /\ Len(dq) \in Nat
    <3>1. 0..MaxNow \subseteq Nat
      OBVIOUS
    <3> QED
      BY <2>2, <3>1, LenProperties, SeqMonotonic
  <2>7. dq # <<>> /\ Head(dq) = dq[1] /\ dq[1] \in Nat
    <3>1. Len(dq) # 0
      BY <2>3, <2>6, LimitsInt
    <3> QED
      BY <2>6, <3>1, ElementOfSeq
  <2>8. wait \in Nat /\ dq[1] <= t + wait * TicksPerSec - Window
    BY <2>6, <2>7, RetryLongEnough
  <2>9. t + wait * TicksPerSec \in Nat
    <3> HIDE DEF wait
    <3> QED
      BY <2>6, <2>8, TimePos
  <2>10. Len(Kept(dq, t + wait * TicksPerSec)) < Len(dq)
    <3>0. PICK w \in Int : w = wait * TicksPerSec
      <4> HIDE DEF wait
      <4> QED
        BY <2>8, TimePos
    <3>1. PICK then \in Nat : then = t + w
      BY <2>9, <3>0
    <3>2. dq[1] <= then - Window
      <4>1. dq[1] <= t + w - Window
        BY <2>8, <3>0
      <4>2. Window \in Nat
        BY TimePos
      <4> HIDE DEF t
      <4> QED
        BY <2>6, <2>7, <3>1, <4>1, <4>2
    <3>3. Len(Kept(dq, then)) < Len(dq)
      BY <2>6, <2>7, <3>2, OldestGoes
    <3> QED
      BY <3>0, <3>1, <3>3
  <2>11. Len(Kept(dq, t + wait * TicksPerSec)) \in Nat
    BY <2>6, <2>9, KeptSuffix, LenProperties
  <2> QED
    BY <2>3, <2>5, <2>6, <2>10, <2>11, LimitsInt
<1>3. TypeOK /\ WindowInv /\ [Next]_vars =>
        [\A r \in Reqs : pc[r] = "check" /\ pc'[r] = "limited" =>
            Len(Kept(hits'[KeyOf[r]], ts[r] + retry'[r] * TicksPerSec)) < Limit]_vars
  BY <1>2
<1> QED
  BY <1>3, WindowInit, TypeNext, WindowNext, PTL DEF Spec, RetryAfterSuffices

-----------------------------------------------------------------------------
\* The list without entry e.
LEMMA RemoveAtShape ==
    ASSUME NEW S, NEW l \in Seq(S), NEW e \in 1..Len(l)
    PROVE  /\ RemoveAt(l, e) \in Seq(S) /\ Len(RemoveAt(l, e)) = Len(l) - 1
           /\ \A i \in 1..(Len(l) - 1) : RemoveAt(l, e)[i] = IF i < e THEN l[i] ELSE l[i + 1]
<1> DEFINE n == Len(l)
           front == SubSeq(l, 1, e - 1)
           back == SubSeq(l, e + 1, n)
<1>0. n \in Nat /\ e \in 1..n /\ \A i \in 1..n : l[i] \in S
  BY LenProperties, ElementOfSeq
<1>1. front \in Seq(S) /\ Len(front) = e - 1 /\ \A i \in 1..(e - 1) : front[i] = l[i]
  <2>1. \A i \in 1..(e - 1) : l[i] \in S
    BY <1>0
  <2>2. \A h \in Int : h = e - 1 =>
         front \in Seq(S) /\ Len(front) = e - 1 /\ \A i \in 1..(e - 1) : front[i] = l[i]
    <3> SUFFICES ASSUME NEW h \in Int, h = e - 1
                 PROVE  LET f == SubSeq(l, 1, h) IN
                        f \in Seq(S) /\ Len(f) = h /\ \A i \in 1..h : f[i] = l[i]
      OBVIOUS
    <3>1. \A i \in 1..h : l[i] \in S
      BY <2>1
    <3>2. /\ SubSeq(l, 1, h) \in Seq(S)
          /\ Len(SubSeq(l, 1, h)) = IF 1 <= h THEN h - 1 + 1 ELSE 0
          /\ \A i \in 1..(h - 1 + 1) : SubSeq(l, 1, h)[i] = l[1 + i - 1]
      BY <3>1, SubSeqProperties
    <3>3. h >= 0 /\ h - 1 + 1 = h /\ \A i \in 1..h : 1 + i - 1 = i
      BY <1>0
    <3> QED
      BY <3>2, <3>3
  <2> QED
    BY <1>0, <2>2
<1>2. back \in Seq(S) /\ Len(back) = n - e /\ \A i \in 1..(n - e) : back[i] = l[e + i]
  <2> SUFFICES ASSUME NEW h \in Int, h = e + 1, NEW m \in Int, m = n
               PROVE  LET f == SubSeq(l, h, m) IN
                      f \in Seq(S) /\ Len(f) = n - e /\ \A i \in 1..(n - e) : f[i] = l[e + i]
    BY <1>0
  <2>1. \A i \in h..m : l[i] \in S
    BY <1>0
  <2>2. /\ SubSeq(l, h, m) \in Seq(S)
        /\ Len(SubSeq(l, h, m)) = IF h <= m THEN m - h + 1 ELSE 0
        /\ \A i \in 1..(m - h + 1) : SubSeq(l, h, m)[i] = l[h + i - 1]
    BY <2>1, SubSeqProperties
  <2>3. m - h + 1 = n - e /\ \A i \in 1..(n - e) : h + i - 1 = e + i
    BY <1>0
  <2>4. (IF h <= m THEN m - h + 1 ELSE 0) = n - e
    BY <1>0
  <2> QED
    BY <2>2, <2>3, <2>4
<1> HIDE DEF front, back
<1>3. /\ front \o back \in Seq(S) /\ Len(front \o back) = Len(front) + Len(back)
      /\ \A i \in 1..(Len(front) + Len(back)) :
            (front \o back)[i] = IF i <= Len(front) THEN front[i] ELSE back[i - Len(front)]
  BY <1>1, <1>2, ConcatProperties
<1>4. RemoveAt(l, e) = front \o back
  BY DEF RemoveAt, front, back
<1>5. Len(front) + Len(back) = n - 1
  BY <1>0, <1>1, <1>2
<1>6. ASSUME NEW i \in 1..(n - 1) PROVE (front \o back)[i] = IF i < e THEN l[i] ELSE l[i + 1]
  <2>1. (front \o back)[i] = IF i <= Len(front) THEN front[i] ELSE back[i - Len(front)]
    BY <1>3, <1>5
  <2>2. CASE i < e
    BY <1>0, <1>1, <2>1, <2>2
  <2>3. CASE ~(i < e)
    <3>1. i - (e - 1) \in 1..(n - e) /\ e + (i - (e - 1)) = i + 1 /\ ~(i <= e - 1)
      BY <1>0, <2>3
    <3>2. back[i - (e - 1)] = l[e + (i - (e - 1))]
      BY <1>2, <3>1
    <3> QED
      BY <1>1, <2>1, <2>3, <3>1, <3>2
  <2> QED
    BY <2>2, <2>3
<1> QED
  BY <1>3, <1>4, <1>5, <1>6

-----------------------------------------------------------------------------
(* Token validation. *)

\* The keys that are published at a time.
PublishedAt(lf, t) == {k \in Kids : lf[k].from <= t /\ t < lf[k].to}

\* A request, at time tm: its fetch is not overdue, and answered with what was
\* published at some moment of the fetch.
ReqOK(s, tm, lf) ==
    /\ s.pc \in Pcs /\ s.started \in Nat /\ s.started <= tm /\ s.reply.keys \in SUBSET Kids
    /\ s.pc \in {"load", "refresh", "loaded", "refreshed"} => tm <= s.started + FetchMax
    /\ s.pc \in {"loaded", "refreshed"} /\ s.reply.ok =>
         \E t \in Nat : s.started <= t /\ t <= tm /\ s.reply.keys = PublishedAt(lf, t)

\* The cached keys were published not longer before their time than a fetch takes.
CacheOK(c, tm, lf) ==
    /\ \A d, e \in c : d = e
    /\ \A e \in c : /\ e.at \in Nat /\ e.at <= tm /\ e.keys \in SUBSET Kids
                    /\ \E t \in Nat : t <= tm /\ e.at <= t + FetchMax /\ e.keys = PublishedAt(lf, t)

\* A kid is recorded while its key is new, or not published any more.
NegativeOK(n, tm, lf) ==
    /\ n \in Seq([kid : Kids, at : Nat]) /\ Len(n) <= NegCap
    /\ \A i, j \in 1..Len(n) : n[i].kid = n[j].kid => i = j
    /\ \A i \in 1..Len(n) :
         /\ n[i].at <= tm
         /\ n[i].at < lf[n[i].kid].from + (Interval + FetchMax) \/ lf[n[i].kid].to <= n[i].at

\* A key that is still published is in the cache since it was last heard of.
HeardOK(h, c, tm, lf) ==
    \A k \in Kids : /\ h[k] \in Int /\ h[k] <= tm
                    /\ tm < lf[k].to /\ lf[k].from + FetchMax <= h[k] =>
                         \E e \in c : k \in e.keys /\ h[k] <= e.at + FetchMax

\* What holds of the key cache, the negative cache and the requests at every step.
KeyInv ==
    /\ clock \in Nat /\ clock <= MaxClock
    /\ life \in [Kids -> [from : Nat, to : Nat]]
    /\ \A r \in Calls : toks[r].kid \in Kids
    /\ DOMAIN calls = Calls /\ DOMAIN heard = Kids
    /\ \A r \in Calls : DOMAIN calls[r] = {"pc", "started", "reply"} /\ ReqOK(calls[r], clock, life)
    /\ CacheOK(cache, clock, life)
    /\ NegativeOK(negative, clock, life)
    /\ HeardOK(heard, cache, clock, life)
    /\ OnlyOptOutUnbinds

\* The life of a key is two natural numbers.
LEMMA LifeTyped ==
    ASSUME KeyInv, NEW k \in Kids
    PROVE  life[k].from \in Nat /\ life[k].to \in Nat
BY DEF KeyInv

\* No request has come yet.
LEMMA InitKeyInv ==
    ASSUME KeysInit
    PROVE  KeyInv
<1>1. PICK c \in Cases : life = c.life /\ toks = c.toks /\ cfg = c.cfg
  BY DEF KeysInit
<1>2. /\ clock = 0 /\ cache = {} /\ negative = <<>> /\ MaxClock \in Nat /\ NegCap \in Nat /\ Ttl \in Nat
      /\ calls = [r \in Calls |-> [pc |-> "new", started |-> 0, reply |-> NoReply]]
      /\ heard = [k \in Kids |-> 0 - Ttl - 1]
  BY TimesNat DEF KeysInit
<1>3. life \in [Kids -> [from : Nat, to : Nat]] /\ \A r \in Calls : toks[r].kid \in Kids
  BY <1>1, CasesTyped
<1>4. \A r \in Calls : DOMAIN calls[r] = {"pc", "started", "reply"} /\ ReqOK(calls[r], clock, life)
  BY <1>2 DEF ReqOK, NoReply, Pcs
<1>5. CacheOK(cache, clock, life)
  BY <1>2 DEF CacheOK
<1>6. NegativeOK(negative, clock, life)
  BY <1>2 DEF NegativeOK
<1>7. HeardOK(heard, cache, clock, life)
  <2>1. ASSUME NEW k \in Kids
        PROVE  heard[k] \in Int /\ heard[k] <= 0 /\ ~(life[k].from + FetchMax <= heard[k])
    <3>1. life[k].from \in Nat /\ FetchMax \in Nat
      BY <1>3, TimesNat
    <3> QED
      BY <1>2, <3>1
  <2> QED
    BY <1>2, <2>1 DEF HeardOK
<1>8. OnlyOptOutUnbinds
  BY <1>2 DEF OnlyOptOutUnbinds, In
<1> QED
  BY <1>2, <1>3, <1>4, <1>5, <1>6, <1>7, <1>8 DEF KeyInv

-----------------------------------------------------------------------------
\* What is recorded: the other entries and, at the end, this one.
LEMMA RecordedOK ==
    ASSUME KeyInv, NEW k \in Kids,
           clock < life[k].from + (Interval + FetchMax) \/ life[k].to <= clock
    PROVE  NegativeOK(Recorded(k), clock, life)
<1>0. /\ clock \in Nat /\ NegCap \in Nat /\ Interval \in Nat /\ FetchMax \in Nat
      /\ NegativeOK(negative, clock, life)
  BY TimesNat DEF KeyInv
<1> DEFINE Entries == [kid : Kids, at : Nat]
           Good(e) == /\ e.at <= clock
                      /\ (e.at < life[e.kid].from + (Interval + FetchMax) \/ life[e.kid].to <= e.at)
           old == {i \in DOMAIN negative : negative[i].kid = k}
           e == CHOOSE i \in old : TRUE
           o == Others(k)
<1>1. /\ negative \in Seq(Entries) /\ Len(negative) \in Nat /\ Len(negative) <= NegCap
      /\ \A i, j \in 1..Len(negative) : negative[i].kid = negative[j].kid => i = j
      /\ \A i \in 1..Len(negative) : Good(negative[i])
      /\ DOMAIN negative = 1..Len(negative)
  BY <1>0, LenProperties DEF NegativeOK
<1> HIDE DEF Good, Entries
<1>2. /\ o \in Seq(Entries) /\ Len(o) \in Nat /\ Len(o) <= NegCap
      /\ \A i, j \in 1..Len(o) : o[i].kid = o[j].kid => i = j
      /\ \A i \in 1..Len(o) : Good(o[i]) /\ o[i].kid # k
  <2>1. CASE old = {}
    <3>1. o = negative /\ \A i \in 1..Len(negative) : negative[i].kid # k
      BY <1>1, <2>1 DEF Others
    <3> QED
      BY <1>1, <3>1
  <2>2. CASE old # {}
    <3>1. e \in 1..Len(negative) /\ negative[e].kid = k
      BY <1>1, <2>2
    <3>2. o = RemoveAt(negative, e)
      BY <2>2 DEF Others
    <3> HIDE DEF e, o, old
    <3>3. /\ o \in Seq(Entries) /\ Len(o) = Len(negative) - 1
          /\ \A i \in 1..(Len(negative) - 1) : o[i] = IF i < e THEN negative[i] ELSE negative[i + 1]
      BY <1>1, <3>1, <3>2, RemoveAtShape
    <3>4. PICK n \in Nat : n = Len(negative)
      BY <1>1
    <3>5. \A i \in 1..(n - 1) : o[i] = negative[IF i < e THEN i ELSE i + 1]
      BY <3>3, <3>4
    <3>6. \A i \in 1..(n - 1) : (IF i < e THEN i ELSE i + 1) \in 1..n /\ (IF i < e THEN i ELSE i + 1) # e
      BY <3>1, <3>4
    <3>7. \A i \in 1..(n - 1) : Good(o[i]) /\ o[i].kid # k
      BY <1>1, <3>1, <3>4, <3>5, <3>6
    <3>8. ASSUME NEW i \in 1..(n - 1), NEW j \in 1..(n - 1), o[i].kid = o[j].kid
          PROVE  i = j
      <4>1. (IF i < e THEN i ELSE i + 1) = (IF j < e THEN j ELSE j + 1)
        BY <1>1, <3>4, <3>5, <3>6, <3>8
      <4> QED
        BY <3>1, <4>1
    <3> QED
      BY <1>0, <1>1, <3>3, <3>4, <3>7, <3>8
  <2> QED
    BY <2>1, <2>2
<1> DEFINE x == [kid |-> k, at |-> clock]
           all == Append(o, x)
<1>3. x \in Entries /\ Good(x) /\ x.kid = k
  BY <1>0 DEF Entries, Good
<1> HIDE DEF o, x
<1>4. PICK n \in Nat : n = Len(o)
  BY <1>2
<1>5. /\ all \in Seq(Entries) /\ Len(all) = n + 1
      /\ \A i \in 1..n : all[i] = o[i]
      /\ all[n + 1] = x
  BY <1>2, <1>3, <1>4, AppendProperties
<1>6. /\ \A i, j \in 1..(n + 1) : all[i].kid = all[j].kid => i = j
      /\ \A i \in 1..(n + 1) : Good(all[i])
  <2>1. \A i \in 1..(n + 1) : i \in 1..n \/ i = n + 1
    OBVIOUS
  <2> HIDE DEF all
  <2> QED
    BY <1>2, <1>3, <1>4, <1>5, <2>1
<1> HIDE DEF all
<1>7. PICK m : m = Recorded(k)
  OBVIOUS
<1>8. m = IF Len(all) > NegCap THEN Tail(all) ELSE all
  BY <1>7 DEF Recorded, all, o, x
<1>9. /\ m \in Seq(Entries) /\ Len(m) <= NegCap
      /\ \A i, j \in 1..Len(m) : m[i].kid = m[j].kid => i = j
      /\ \A i \in 1..Len(m) : Good(m[i])
  <2>1. CASE Len(all) > NegCap
    <3>1. n = NegCap /\ all # <<>>
      BY <1>0, <1>2, <1>4, <1>5, <2>1, EmptySeq
    <3>2. /\ m \in Seq(Entries) /\ Len(m) = n
          /\ \A i \in 1..n : m[i] = all[i + 1]
      <4>1. m = Tail(all)
        BY <1>8, <2>1
      <4>2. /\ Tail(all) \in Seq(Entries) /\ Len(Tail(all)) = Len(all) - 1
            /\ \A i \in 1..Len(Tail(all)) : Tail(all)[i] = all[i + 1]
        BY <1>5, <3>1, HeadTailProperties
      <4>3. Len(m) = n
        BY <1>5, <4>1, <4>2
      <4> QED
        BY <4>1, <4>2, <4>3
    <3>3. \A i \in 1..n : i + 1 \in 1..(n + 1)
      OBVIOUS
    <3>4. \A i \in 1..n : Good(m[i])
      BY <1>6, <3>2, <3>3
    <3>5. ASSUME NEW i \in 1..n, NEW j \in 1..n, m[i].kid = m[j].kid
          PROVE  i = j
      <4>1. PICK a \in 1..(n + 1), b \in 1..(n + 1) : a = i + 1 /\ b = j + 1
        BY <3>3
      <4>2. m[i] = all[a] /\ m[j] = all[b]
        BY <3>2, <4>1
      <4>3. a = b
        BY <1>6, <3>5, <4>2
      <4> QED
        BY <4>1, <4>3
    <3> QED
      BY <3>1, <3>2, <3>4, <3>5
  <2>2. CASE ~(Len(all) > NegCap)
    <3>1. m = all /\ n + 1 <= NegCap
      BY <1>0, <1>5, <1>8, <2>2
    <3> QED
      BY <1>5, <1>6, <3>1
  <2> QED
    BY <2>1, <2>2
<1>10. NegativeOK(m, clock, life)
  BY <1>9 DEF NegativeOK, Good, Entries
<1> QED
  BY <1>7, <1>10
-----------------------------------------------------------------------------
\* A key is known: published, and heard of so lately that its fetch is in the cache.
Known(k) ==
    /\ Published(k, clock) /\ clock - heard[k] < Ttl - FetchMax
    /\ life[k].from + FetchMax <= heard[k]

Served(r) == toks[r].tag \in Allowed(toks[r].tid) \/ cfg.flag \in FalsyLiterals

\* The record s that a step gives to request r is well-formed and was not told amiss.
Told(r, s) ==
    LET k == toks[r].kid
    IN  /\ DOMAIN s = {"pc", "started", "reply"} /\ ReqOK(s, clock, life)
        /\ s.pc = "served" => Served(r)
        /\ s.pc = "accepted" =>
             /\ Acceptable(toks[r])
             /\ \E t \in Nat : /\ t <= clock /\ clock < t + (Ttl + FetchMax)
                               /\ life[k].from <= t /\ t < life[k].to
        /\ s.pc = "401" /\ calls[r].pc # "401" /\ toks[r].shape = "token" /\ Acceptable(toks[r])
             /\ Published(k, clock) => clock < life[k].from + (Interval + NegTtl + FetchMax)
        /\ In(r, "new") /\ toks[r].shape = "token" /\ Known(k) =>
             s.pc = "accepted" \/ ~Acceptable(toks[r])

\* A step of a request that is told so keeps the invariant when the caches do.
LEMMA ToldKeyInv ==
    ASSUME KeyInv, NEW r \in Calls, NEW s, Becomes(r, s), Told(r, s),
           UNCHANGED <<clock, life, toks, cfg>>, DOMAIN heard' = Kids,
           CacheOK(cache', clock, life), NegativeOK(negative', clock, life),
           HeardOK(heard', cache', clock, life)
    PROVE  KeyInv'
<1>1. /\ DOMAIN calls' = Calls /\ calls'[r] = s
      /\ \A q \in Calls \ {r} : calls'[q] = calls[q]
  BY DEF KeyInv, Becomes
<1>2. \A q \in Calls : DOMAIN calls'[q] = {"pc", "started", "reply"} /\ ReqOK(calls'[q], clock, life)
  BY <1>1 DEF KeyInv, Told
<1>3. OnlyOptOutUnbinds'
  <2>1. ASSUME NEW q \in Calls, calls'[q].pc = "served" PROVE Served(q)
    BY <1>1, <2>1 DEF KeyInv, OnlyOptOutUnbinds, In, Told, Served
  <2>2. \A q \in Calls : Served(q)' <=> Served(q)
    BY DEF Served, Allowed
  <2> QED
    BY <2>1, <2>2 DEF OnlyOptOutUnbinds, In, Served
<1>4. KeyInv' <=> /\ clock \in Nat /\ clock <= MaxClock
                  /\ life \in [Kids -> [from : Nat, to : Nat]]
                  /\ \A q \in Calls : toks[q].kid \in Kids
                  /\ DOMAIN calls' = Calls /\ DOMAIN heard' = Kids
                  /\ \A q \in Calls : /\ DOMAIN calls'[q] = {"pc", "started", "reply"}
                                     /\ ReqOK(calls'[q], clock, life)
                  /\ CacheOK(cache', clock, life)
                  /\ NegativeOK(negative', clock, life)
                  /\ HeardOK(heard', cache', clock, life)
                  /\ OnlyOptOutUnbinds'
  BY DEF KeyInv
<1> QED
  BY <1>1, <1>2, <1>3, <1>4 DEF KeyInv

\* A key that a fetch did not bring, at most FetchMax and Interval ago, is new or
\* not published any more.
LEMMA NewOrWithdrawn ==
    ASSUME KeyInv, NEW k \in Kids, NEW t \in Nat, t <= clock,
           clock <= t + (Interval + FetchMax), k \notin PublishedAt(life, t)
    PROVE  clock < life[k].from + (Interval + FetchMax) \/ life[k].to <= clock
<1>1. life[k].from \in Nat /\ life[k].to \in Nat /\ clock \in Nat /\ Interval \in Nat /\ FetchMax \in Nat
  BY LifeTyped, TimesNat DEF KeyInv
<1>2. t < life[k].from \/ life[k].to <= t
  BY <1>1 DEF PublishedAt
<1> QED
  BY <1>1, <1>2

\* What Resolve makes of the keys.
LEMMA ResolveTells ==
    ASSUME KeyInv, NEW r \in Calls, NEW keys, NEW c, Resolve(r, keys, c)
    PROVE  LET k == toks[r].kid
               young == \E e \in c : clock - e.at < Interval
           IN  /\ negative' = negative \/ (negative' = Recorded(k) /\ k \notin keys /\ young)
               /\ \E s : /\ Becomes(r, s) /\ DOMAIN s = {"pc", "started", "reply"} /\ ReqOK(s, clock, life)
                         /\ s.pc \in {"accepted", "401", "refresh"}
                         /\ s.pc = "accepted" => k \in keys /\ Acceptable(toks[r])
                         /\ s.pc = "401" /\ Acceptable(toks[r]) => k \notin keys /\ (Denied(k) \/ young)
                         /\ k \in keys /\ Acceptable(toks[r]) => s.pc = "accepted"
<1> DEFINE k == toks[r].kid
           young == \E e \in c : clock - e.at < Interval
<1>0. clock \in Nat /\ FetchMax \in Nat /\ NoReply.keys = {}
  BY TimesNat DEF KeyInv, NoReply
<1>1. ASSUME NEW v \in {"accepted", "401"}, NEW s, s = [pc |-> v, started |-> 0, reply |-> NoReply]
      PROVE  DOMAIN s = {"pc", "started", "reply"} /\ ReqOK(s, clock, life) /\ s.pc = v
  <2>1. DOMAIN s = {"pc", "started", "reply"} /\ s.pc = v /\ s.started = 0 /\ s.reply = NoReply
    BY <1>1
  <2> QED
    BY <1>0, <2>1 DEF ReqOK, Pcs
<1>2. ASSUME NEW s, s = [pc |-> "refresh", started |-> clock, reply |-> NoReply]
      PROVE  DOMAIN s = {"pc", "started", "reply"} /\ ReqOK(s, clock, life) /\ s.pc = "refresh"
  <2>1. DOMAIN s = {"pc", "started", "reply"} /\ s.pc = "refresh" /\ s.started = clock /\ s.reply = NoReply
    BY <1>2
  <2> QED
    BY <1>0, <2>1 DEF ReqOK, Pcs
<1>3. CASE k \in keys /\ Acceptable(toks[r])
  <2>1. PICK s : s = [pc |-> "accepted", started |-> 0, reply |-> NoReply]
    OBVIOUS
  <2>2. Becomes(r, s) /\ negative' = negative
    BY <1>3, <2>1 DEF Resolve, Goes
  <2> QED
    BY <1>1, <1>3, <2>1, <2>2
<1>4. CASE k \in keys /\ ~Acceptable(toks[r])
  <2>1. PICK s : s = [pc |-> "401", started |-> 0, reply |-> NoReply]
    OBVIOUS
  <2>2. Becomes(r, s) /\ negative' = negative
    BY <1>4, <2>1 DEF Resolve, Goes
  <2> QED
    BY <1>1, <1>4, <2>1, <2>2
<1>5. CASE k \notin keys /\ (Denied(k) \/ young)
  <2>1. PICK s : s = [pc |-> "401", started |-> 0, reply |-> NoReply]
    OBVIOUS
  <2>2. Becomes(r, s) /\ (negative' = negative \/ (negative' = Recorded(k) /\ young))
    BY <1>5, <2>1 DEF Resolve, Goes, Refused
  <2> QED
    BY <1>1, <1>5, <2>1, <2>2
<1>6. CASE k \notin keys /\ ~(Denied(k) \/ young)
  <2>1. PICK s : s = [pc |-> "refresh", started |-> clock, reply |-> NoReply]
    OBVIOUS
  <2>2. Becomes(r, s) /\ negative' = negative
    BY <1>6, <2>1 DEF Resolve
  <2> QED
    BY <1>2, <1>6, <2>1, <2>2
<1> QED
  BY <1>3, <1>4, <1>5, <1>6

\* A kid on the list has not been refused for longer than it may be.
LEMMA DeniedInTime ==
    ASSUME KeyInv, NEW k \in Kids, Denied(k), Published(k, clock)
    PROVE  clock < life[k].from + (Interval + NegTtl + FetchMax)
<1>1. /\ life[k].from \in Nat /\ life[k].to \in Nat /\ clock \in Nat
      /\ Interval \in Nat /\ FetchMax \in Nat /\ NegTtl \in Nat
  BY LifeTyped, TimesNat DEF KeyInv
<1>6. negative \in Seq([kid : Kids, at : Nat]) /\ DOMAIN negative = 1..Len(negative)
  BY LenProperties DEF KeyInv, NegativeOK
<1>2. PICK i \in 1..Len(negative) : negative[i].kid = k /\ clock - negative[i].at < NegTtl
  BY <1>6 DEF Denied
<1>3. PICK a \in Nat : a = negative[i].at
  <2>1. negative[i] \in [kid : Kids, at : Nat]
    BY <1>6, ElementOfSeq
  <2> QED
    BY <2>1
<1>4. a <= clock /\ (a < life[k].from + (Interval + FetchMax) \/ life[k].to <= a)
  BY <1>2, <1>3 DEF KeyInv, NegativeOK
<1>5. clock < life[k].to /\ clock - a < NegTtl
  BY <1>2, <1>3 DEF Published
<1> QED
  BY <1>1, <1>4, <1>5

\* What Resolve tells of keys that are those of a moment t not long ago.
LEMMA ResolveTold ==
    ASSUME KeyInv, NEW r \in Calls, NEW c, NEW t \in Nat, t <= clock,
           clock < t + (Ttl + FetchMax),
           NEW keys, keys = PublishedAt(life, t), Resolve(r, keys, c),
           \A e \in c : clock - e.at < Interval => clock <= t + (Interval + FetchMax),
           In(r, "new") /\ Known(toks[r].kid) => toks[r].kid \in keys
    PROVE  /\ \E s : Becomes(r, s) /\ Told(r, s)
           /\ NegativeOK(negative', clock, life)
<1> DEFINE k == toks[r].kid
           young == \E e \in c : clock - e.at < Interval
<1>0. k \in Kids /\ NegTtl \in Nat /\ Interval \in Nat /\ FetchMax \in Nat /\ clock \in Nat
      /\ life[k].from \in Nat /\ life[k].to \in Nat
  BY LifeTyped, TimesNat DEF KeyInv
<1>1. k \notin keys /\ young => clock < life[k].from + (Interval + FetchMax) \/ life[k].to <= clock
  BY <1>0, NewOrWithdrawn
<1>2. /\ negative' = negative \/ (negative' = Recorded(k) /\ k \notin keys /\ young)
      /\ \E s : /\ Becomes(r, s) /\ DOMAIN s = {"pc", "started", "reply"} /\ ReqOK(s, clock, life)
                /\ s.pc \in {"accepted", "401", "refresh"}
                /\ s.pc = "accepted" => k \in keys /\ Acceptable(toks[r])
                /\ s.pc = "401" /\ Acceptable(toks[r]) => k \notin keys /\ (Denied(k) \/ young)
                /\ k \in keys /\ Acceptable(toks[r]) => s.pc = "accepted"
  BY ResolveTells
<1>3. NegativeOK(negative', clock, life)
  <2>1. CASE negative' = negative
    BY <2>1 DEF KeyInv
  <2>2. CASE negative' = Recorded(k) /\ k \notin keys /\ young
    BY <1>0, <1>1, <2>2, RecordedOK
  <2> QED
    BY <1>2, <2>1, <2>2
<1>4. PICK s : /\ Becomes(r, s) /\ DOMAIN s = {"pc", "started", "reply"} /\ ReqOK(s, clock, life)
               /\ s.pc \in {"accepted", "401", "refresh"}
               /\ s.pc = "accepted" => k \in keys /\ Acceptable(toks[r])
               /\ s.pc = "401" /\ Acceptable(toks[r]) => k \notin keys /\ (Denied(k) \/ young)
               /\ k \in keys /\ Acceptable(toks[r]) => s.pc = "accepted"
  BY <1>2
<1> HIDE DEF k, young
<1>5. s.pc = "accepted" => Acceptable(toks[r]) /\ life[k].from <= t /\ t < life[k].to
  BY <1>4 DEF PublishedAt
<1>6. s.pc = "401" /\ Acceptable(toks[r]) /\ Published(k, clock) =>
         clock < life[k].from + (Interval + NegTtl + FetchMax)
  <2>1. SUFFICES ASSUME s.pc = "401", Acceptable(toks[r]), Published(k, clock)
                 PROVE  clock < life[k].from + (Interval + NegTtl + FetchMax)
    OBVIOUS
  <2>2. CASE Denied(k)
    BY <1>0, <2>1, <2>2, DeniedInTime
  <2>3. CASE ~Denied(k)
    <3>1. clock < life[k].from + (Interval + FetchMax) \/ life[k].to <= clock
      BY <1>1, <1>4, <2>1, <2>3
    <3>2. clock < life[k].to
      BY <2>1 DEF Published
    <3> QED
      BY <1>0, <3>1, <3>2
  <2> QED
    BY <2>2, <2>3
<1>7. In(r, "new") /\ Known(k) => s.pc = "accepted" \/ ~Acceptable(toks[r])
  BY <1>4 DEF k
<1>8. Told(r, s)
  BY <1>4, <1>5, <1>6, <1>7 DEF Told, k
<1> QED
  BY <1>3, <1>4, <1>8
-----------------------------------------------------------------------------
\* What a fetch of keys published at t, from time b to now, leaves in the caches.
LEMMA FetchedOK ==
    ASSUME KeyInv, NEW t \in Nat, NEW b \in Nat, b <= t, t <= clock, clock <= b + FetchMax,
           NEW keys, keys = PublishedAt(life, t), NEW a \in {b, clock}, NEW e, e.keys = keys, e.at = a,
           cache' = {e}, heard' = [k \in Kids |-> IF k \in keys THEN clock ELSE heard[k]]
    PROVE  CacheOK(cache', clock, life) /\ HeardOK(heard', cache', clock, life) /\ DOMAIN heard' = Kids
<1>0. /\ clock \in Nat /\ FetchMax \in Nat /\ a \in Nat /\ a <= clock
      /\ a <= t + FetchMax /\ clock <= a + FetchMax
  BY TimesNat DEF KeyInv
<1>1. CacheOK(cache', clock, life)
  <2>1. keys \in SUBSET Kids
    BY DEF PublishedAt
  <2> QED
    BY <1>0, <2>1 DEF CacheOK
<1>2. ASSUME NEW k \in Kids
      PROVE  /\ heard'[k] \in Int /\ heard'[k] <= clock
             /\ clock < life[k].to /\ life[k].from + FetchMax <= heard'[k] =>
                  k \in keys /\ heard'[k] <= a + FetchMax
  <2>1. life[k].from \in Nat /\ life[k].to \in Nat /\ heard[k] \in Int /\ heard[k] <= clock
    BY LifeTyped DEF KeyInv, HeardOK
  <2>2. CASE k \in keys
    BY <1>0, <2>1, <2>2
  <2>3. CASE k \notin keys
    <3>1. t < life[k].from \/ life[k].to <= t
      BY <2>1, <2>3 DEF PublishedAt
    <3>2. heard'[k] = heard[k]
      BY <2>3
    <3>3. ~(clock < life[k].to /\ life[k].from + FetchMax <= heard[k])
      BY <1>0, <2>1, <3>1
    <3> QED
      BY <2>1, <3>2, <3>3
  <2> QED
    BY <2>2, <2>3
<1> QED
  BY <1>1, <1>2 DEF HeardOK

\* A step that changes one request only.
LEMMA OnlyTold ==
    ASSUME KeyInv, NEW r \in Calls, NEW s, Becomes(r, s), Told(r, s),
           UNCHANGED <<World, cache, negative, heard>>
    PROVE  KeyInv'
<1>1. UNCHANGED <<clock, life, toks, cfg>> /\ UNCHANGED <<cache, negative, heard>>
  BY DEF World
<1>2. /\ DOMAIN heard' = Kids /\ CacheOK(cache', clock, life) /\ NegativeOK(negative', clock, life)
      /\ HeardOK(heard', cache', clock, life)
  BY <1>1 DEF KeyInv
<1> QED
  BY <1>1, <1>2, ToldKeyInv

\* A request ends with a status other than that it is served or let through.
LEMMA EndTold ==
    ASSUME KeyInv, NEW r \in Calls, NEW v \in {"public", "401", "403", "503"},
           v = "401" => toks[r].shape # "token",
           ~(In(r, "new") /\ toks[r].shape = "token"), Goes(r, v)
    PROVE  \E s : Becomes(r, s) /\ Told(r, s)
<1>1. PICK s : s = [pc |-> v, started |-> 0, reply |-> NoReply]
  OBVIOUS
<1>2. DOMAIN s = {"pc", "started", "reply"} /\ s.pc = v /\ s.started = 0 /\ s.reply.keys = {}
  BY <1>1 DEF NoReply
<1>3. ReqOK(s, clock, life)
  BY <1>2 DEF ReqOK, Pcs, KeyInv
<1>4. Told(r, s)
  BY <1>2, <1>3 DEF Told
<1> QED
  BY <1>1, <1>4 DEF Goes

\* Every step of a request.
LEMMA RequestSteps ==
    ASSUME KeyInv, NEW r \in Calls,
           \/ Bypass(r) \/ NoBearer(r) \/ Unreadable(r) \/ UseCache(r) \/ StartLoad(r)
           \/ Reply(r) \/ FetchFailed(r) \/ Loaded(r) \/ Refreshed(r) \/ Bind(r)
    PROVE  (\E s : Becomes(r, s) /\ Told(r, s)) /\ KeyInv'
<1> DEFINE k == toks[r].kid
<1>0. /\ k \in Kids /\ clock \in Nat /\ FetchMax \in Nat /\ Interval \in Nat /\ NegTtl \in Nat
      /\ Ttl \in Nat /\ Ttl > 0 /\ heard[k] \in Int
      /\ life[k].from \in Nat /\ life[k].to \in Nat
  BY LifeTyped, TimesNat DEF KeyInv, HeardOK
<1>1. ReqOK(calls[r], clock, life) /\ DOMAIN calls[r] = {"pc", "started", "reply"}
  BY DEF KeyInv
<1>2. Known(k) => \E e \in cache : k \in e.keys /\ clock - e.at < Ttl /\ e.at \in Nat
  <2>1. SUFFICES ASSUME Known(k) PROVE \E e \in cache : k \in e.keys /\ clock - e.at < Ttl /\ e.at \in Nat
    OBVIOUS
  <2>2. clock < life[k].to /\ life[k].from + FetchMax <= heard[k] /\ clock - heard[k] < Ttl - FetchMax
    BY <2>1 DEF Known, Published
  <2>3. PICK e \in cache : k \in e.keys /\ heard[k] <= e.at + FetchMax
    BY <1>0, <2>2 DEF KeyInv, HeardOK
  <2>4. e.at \in Nat
    BY DEF KeyInv, CacheOK
  <2> QED
    BY <1>0, <2>2, <2>3, <2>4
<1> HIDE DEF k
<1>3. CASE Bypass(r)
  <2>1. ~(In(r, "new") /\ toks[r].shape = "token") /\ Goes(r, "public")
    BY <1>3 DEF Bypass
  <2>2. \E s : Becomes(r, s) /\ Told(r, s)
    BY <2>1, EndTold
  <2> QED
    BY <1>3, <2>2, OnlyTold DEF Bypass
<1>4. CASE NoBearer(r)
  <2>1. toks[r].shape # "token" /\ Goes(r, "401")
    BY <1>4 DEF NoBearer, Refused
  <2>2. \E s : Becomes(r, s) /\ Told(r, s)
    BY <2>1, EndTold
  <2> QED
    BY <1>4, <2>2, OnlyTold DEF NoBearer
<1>5. CASE Unreadable(r)
  <2>1. toks[r].shape # "token" /\ Goes(r, "401")
    BY <1>5 DEF Unreadable, Refused
  <2>2. \E s : Becomes(r, s) /\ Told(r, s)
    BY <2>1, EndTold
  <2> QED
    BY <1>5, <2>2, OnlyTold DEF Unreadable
<1>6. CASE UseCache(r)
  <2>1. PICK e \in cache : Resolve(r, e.keys, cache)
    BY <1>6 DEF UseCache
  <2>2. clock - e.at < Ttl
    BY <1>6 DEF UseCache, Fresh, KeyInv, CacheOK
  <2>3. PICK t \in Nat : t <= clock /\ e.at <= t + FetchMax /\ e.keys = PublishedAt(life, t)
    BY DEF KeyInv, CacheOK
  <2>4. PICK a \in Nat : a = e.at
    BY DEF KeyInv, CacheOK
  <2>5. clock < t + (Ttl + FetchMax)
    BY <1>0, <2>2, <2>3, <2>4
  <2>6. \A d \in cache : clock - d.at < Interval => clock <= t + (Interval + FetchMax)
    <3>1. \A d \in cache : d = e
      BY DEF KeyInv, CacheOK
    <3>2. clock - a < Interval => clock <= t + (Interval + FetchMax)
      BY <1>0, <2>3, <2>4
    <3> QED
      BY <2>4, <3>1, <3>2
  <2>7. Known(k) => k \in e.keys
    BY <1>2 DEF KeyInv, CacheOK
  <2>8. (\E s : Becomes(r, s) /\ Told(r, s)) /\ NegativeOK(negative', clock, life)
    BY <2>1, <2>3, <2>5, <2>6, <2>7, ResolveTold DEF k
  <2>9. UNCHANGED <<clock, life, toks, cfg>> /\ UNCHANGED <<cache, heard>>
    BY <1>6 DEF UseCache, World
  <2>10. DOMAIN heard = Kids /\ CacheOK(cache, clock, life) /\ HeardOK(heard, cache, clock, life)
    BY DEF KeyInv
  <2>11. cache' = cache /\ heard' = heard
    BY <2>9
  <2>12. DOMAIN heard' = Kids /\ CacheOK(cache', clock, life) /\ HeardOK(heard', cache', clock, life)
    BY <2>10, <2>11
  <2> QED
    BY <2>8, <2>9, <2>12, ToldKeyInv
<1>7. CASE StartLoad(r)
  <2>1. PICK s : s = [pc |-> "load", started |-> clock, reply |-> NoReply]
    OBVIOUS
  <2>2. DOMAIN s = {"pc", "started", "reply"} /\ s.pc = "load" /\ s.started = clock /\ s.reply.keys = {}
    BY <2>1 DEF NoReply
  <2>3. ReqOK(s, clock, life)
    BY <1>0, <2>2 DEF ReqOK, Pcs
  <2>4. ~Known(k)
    BY <1>2, <1>7 DEF StartLoad, Fresh
  <2>5. Told(r, s)
    BY <2>2, <2>3, <2>4 DEF Told, k
  <2>6. Becomes(r, s)
    BY <1>7, <2>1 DEF StartLoad
  <2> QED
    BY <1>7, <2>5, <2>6, OnlyTold DEF StartLoad
<1>8. CASE Reply(r)
  <2>1. calls[r].pc \in {"load", "refresh"}
    BY <1>8 DEF Reply
  <2>2. PICK reply \in {NoReply, [ok |-> TRUE, keys |-> {j \in Kids : Published(j, clock)}]} :
          Becomes(r, [calls[r] EXCEPT
                         !.pc = IF @ = "load" THEN "loaded" ELSE "refreshed",
                         !.reply = [reply EXCEPT !.ok = @ /\ reply.keys # {}]])
    BY <1>8 DEF Reply
  <2>3. PICK s : s = [calls[r] EXCEPT !.pc = IF @ = "load" THEN "loaded" ELSE "refreshed",
                                     !.reply = [reply EXCEPT !.ok = @ /\ reply.keys # {}]]
    OBVIOUS
  <2>4. /\ DOMAIN s = {"pc", "started", "reply"} /\ s.pc \in {"loaded", "refreshed"}
        /\ s.started = calls[r].started /\ s.reply.keys = reply.keys
        /\ reply.keys = {} \/ reply.keys = PublishedAt(life, clock)
        /\ s.reply.ok => reply.keys # {}
    <3>1. reply.keys = {} \/ reply.keys = PublishedAt(life, clock)
      BY DEF NoReply, Published, PublishedAt
    <3>2. DOMAIN reply = {"ok", "keys"}
      BY DEF NoReply
    <3>3. DOMAIN s = {"pc", "started", "reply"} /\ s.pc \in {"loaded", "refreshed"}
          /\ s.started = calls[r].started /\ s.reply = [reply EXCEPT !.ok = @ /\ reply.keys # {}]
      BY <1>1, <2>3
    <3>4. s.reply.keys = reply.keys /\ (s.reply.ok => reply.keys # {})
      BY <3>2, <3>3
    <3> QED
      BY <3>1, <3>3, <3>4
  <2>5. ReqOK(s, clock, life)
    <3>1. s.reply.keys \in SUBSET Kids
      BY <2>4 DEF PublishedAt
    <3>2. s.reply.ok => s.reply.keys = PublishedAt(life, clock)
      BY <2>4
    <3> QED
      BY <1>0, <1>1, <2>1, <2>4, <3>1, <3>2 DEF ReqOK, Pcs
  <2>6. Told(r, s)
    BY <2>1, <2>4, <2>5 DEF Told, In
  <2> QED
    BY <1>8, <2>2, <2>3, <2>6, OnlyTold DEF Reply
<1>9. CASE FetchFailed(r)
  <2>1. ~(In(r, "new") /\ toks[r].shape = "token") /\ Goes(r, "503")
    BY <1>9 DEF FetchFailed, In
  <2>2. \E s : Becomes(r, s) /\ Told(r, s)
    BY <2>1, EndTold
  <2> QED
    BY <1>9, <2>2, OnlyTold DEF FetchFailed
<1>10. CASE Loaded(r)
  <2>1. PICK keys, b : keys = calls[r].reply.keys /\ b = calls[r].started
    OBVIOUS
  <2>2. /\ calls[r].pc = "loaded" /\ calls[r].reply.ok
        /\ cache' = {[keys |-> keys, at |-> b]}
        /\ Resolve(r, keys, cache')
        /\ heard' = [j \in Kids |-> IF j \in keys THEN clock ELSE heard[j]]
        /\ UNCHANGED <<clock, life, toks, cfg>>
    BY <1>10, <2>1 DEF Loaded, In, Heard, World
  <2>3. PICK t \in Nat : b <= t /\ t <= clock /\ keys = PublishedAt(life, t)
    BY <1>1, <2>1, <2>2 DEF ReqOK
  <2>4. b \in Nat /\ clock <= b + FetchMax
    BY <1>1, <2>1, <2>2 DEF ReqOK
  <2>5. PICK e : e = [keys |-> keys, at |-> b]
    OBVIOUS
  <2>6. e.keys = keys /\ e.at = b /\ cache' = {e}
    BY <2>2, <2>5
  <2>7. CacheOK(cache', clock, life) /\ HeardOK(heard', cache', clock, life) /\ DOMAIN heard' = Kids
    <3>1. b \in {b, clock} /\ heard' = [j \in Kids |-> IF j \in keys THEN clock ELSE heard[j]]
      BY <2>2
    <3> QED
      BY ONLY KeyInv, t \in Nat, <2>3, <2>4, <2>6, <3>1, FetchedOK
  <2>8. Resolve(r, keys, {e})
    BY <2>2, <2>6
  <2>9. clock < t + (Ttl + FetchMax) /\ clock <= t + (Interval + FetchMax)
    BY <1>0, <2>3, <2>4
  <2>10. ~In(r, "new")
    BY <2>2 DEF In
  <2>11. (\E s : Becomes(r, s) /\ Told(r, s)) /\ NegativeOK(negative', clock, life)
    BY <2>3, <2>8, <2>9, <2>10, ResolveTold
  <2> QED
    BY <2>2, <2>7, <2>11, ToldKeyInv
<1>11. CASE Refreshed(r)
  <2>1. PICK keys, b : keys = calls[r].reply.keys /\ b = calls[r].started
    OBVIOUS
  <2>2. /\ calls[r].pc = "refreshed" /\ calls[r].reply.ok
        /\ cache' = {[keys |-> keys, at |-> clock]}
        /\ Goes(r, IF k \in keys /\ Acceptable(toks[r]) THEN "accepted" ELSE "401")
        /\ negative' = IF k \in keys THEN negative ELSE Recorded(k)
        /\ heard' = [j \in Kids |-> IF j \in keys THEN clock ELSE heard[j]]
        /\ UNCHANGED <<clock, life, toks, cfg>>
    BY <1>11, <2>1 DEF Refreshed, In, Heard, World, k
  <2>3. PICK t \in Nat : b <= t /\ t <= clock /\ keys = PublishedAt(life, t)
    BY <1>1, <2>1, <2>2 DEF ReqOK
  <2>4. b \in Nat /\ clock <= b + FetchMax
    BY <1>1, <2>1, <2>2 DEF ReqOK
  <2>5. PICK e : e = [keys |-> keys, at |-> clock]
    OBVIOUS
  <2>6. e.keys = keys /\ e.at = clock /\ cache' = {e}
    BY <2>2, <2>5
  <2>7. CacheOK(cache', clock, life) /\ HeardOK(heard', cache', clock, life) /\ DOMAIN heard' = Kids
    BY <2>2, <2>3, <2>4, <2>6, FetchedOK
  <2>8. clock < t + (Ttl + FetchMax) /\ clock <= t + (Interval + FetchMax)
    BY <1>0, <2>3, <2>4
  <2>9. k \notin keys => clock < life[k].from + (Interval + FetchMax) \/ life[k].to <= clock
    BY <1>0, <2>3, <2>8, NewOrWithdrawn
  <2>10. NegativeOK(negative', clock, life)
    <3>1. CASE k \in keys
      BY <2>2, <3>1 DEF KeyInv
    <3>2. CASE k \notin keys
      BY <1>0, <2>2, <2>9, <3>2, RecordedOK
    <3> QED
      BY <3>1, <3>2
  <2>11. PICK v : v = IF k \in keys /\ Acceptable(toks[r]) THEN "accepted" ELSE "401"
    OBVIOUS
  <2>12. PICK s : s = [pc |-> v, started |-> 0, reply |-> NoReply]
    OBVIOUS
  <2>13. DOMAIN s = {"pc", "started", "reply"} /\ s.pc = v /\ s.started = 0 /\ s.reply.keys = {}
    BY <2>12 DEF NoReply
  <2>14. ReqOK(s, clock, life) /\ Becomes(r, s)
    BY <1>0, <2>2, <2>11, <2>12, <2>13 DEF ReqOK, Pcs, Goes
  <2>15. v = "accepted" => Acceptable(toks[r]) /\ life[k].from <= t /\ t < life[k].to
    BY <2>3, <2>11 DEF PublishedAt
  <2>16. v = "401" /\ Acceptable(toks[r]) /\ Published(k, clock) =>
           clock < life[k].from + (Interval + NegTtl + FetchMax)
    <3>1. SUFFICES ASSUME v = "401", Acceptable(toks[r]), Published(k, clock)
                   PROVE  clock < life[k].from + (Interval + NegTtl + FetchMax)
      OBVIOUS
    <3>2. k \notin keys
      BY <2>11, <3>1
    <3>3. clock < life[k].to
      BY <3>1 DEF Published
    <3> QED
      BY <1>0, <2>9, <3>2, <3>3
  <2>17. ~In(r, "new") /\ v # "served"
    BY <2>2, <2>11 DEF In
  <2>18. Told(r, s)
    BY <2>3, <2>8, <2>13, <2>14, <2>15, <2>16, <2>17 DEF Told, k
  <2> QED
    BY <2>2, <2>7, <2>10, <2>14, <2>18, ToldKeyInv
<1>12. CASE Bind(r)
  <2>1. PICK v : v = IF ~Enforced \/ toks[r].tag \in Allowed(toks[r].tid) THEN "served" ELSE "403"
    OBVIOUS
  <2>2. In(r, "accepted") /\ Goes(r, v) /\ UNCHANGED <<World, cache, negative, heard>>
    BY <1>12, <2>1 DEF Bind
  <2>3. PICK s : s = [pc |-> v, started |-> 0, reply |-> NoReply]
    OBVIOUS
  <2>4. DOMAIN s = {"pc", "started", "reply"} /\ s.pc = v /\ s.started = 0 /\ s.reply.keys = {}
    BY <2>3 DEF NoReply
  <2>5. ReqOK(s, clock, life)
    BY <1>0, <2>1, <2>4 DEF ReqOK, Pcs
  <2>6. v = "served" => Served(r)
    BY <2>1 DEF Served, Enforced
  <2>7. Told(r, s)
    BY <2>1, <2>2, <2>4, <2>5, <2>6 DEF Told, In
  <2> QED
    BY <2>2, <2>3, <2>7, OnlyTold DEF Goes
<1> QED
  BY <1>3, <1>4, <1>5, <1>6, <1>7, <1>8, <1>9, <1>10, <1>11, <1>12

\* Time passes.
LEMMA TickKeyInv ==
    ASSUME KeyInv, ClockTick
    PROVE  KeyInv'
<1>0. /\ clock \in Nat /\ MaxClock \in Nat /\ FetchMax \in Nat /\ clock < MaxClock /\ clock' = clock + 1
      /\ UNCHANGED <<life, toks, cfg, cache, negative, calls, heard>>
  BY TimesNat DEF KeyInv, ClockTick
<1>1. clock' \in Nat /\ clock' <= MaxClock /\ \A x \in Int : x <= clock => x <= clock'
  BY <1>0
<1>2. ASSUME NEW r \in Calls PROVE ReqOK(calls[r], clock', life)
  <2>1. ReqOK(calls[r], clock, life)
    BY DEF KeyInv
  <2>2. calls[r].pc \in {"load", "refresh", "loaded", "refreshed"} => clock' <= calls[r].started + FetchMax
    <3>1. calls[r].pc \in {"load", "refresh", "loaded", "refreshed"} => clock < calls[r].started + FetchMax
      BY DEF ClockTick
    <3> QED
      BY <1>0, <2>1, <3>1 DEF ReqOK
  <2> QED
    BY <1>0, <1>1, <2>1, <2>2 DEF ReqOK
<1>3. CacheOK(cache, clock', life)
  BY <1>1 DEF KeyInv, CacheOK
<1>4. NegativeOK(negative, clock', life)
  <2>1. /\ negative \in Seq([kid : Kids, at : Nat]) /\ Len(negative) <= NegCap
        /\ \A i, j \in 1..Len(negative) : negative[i].kid = negative[j].kid => i = j
        /\ \A i \in 1..Len(negative) :
             /\ negative[i].at <= clock
             /\ negative[i].at < life[negative[i].kid].from + (Interval + FetchMax)
                  \/ life[negative[i].kid].to <= negative[i].at
    BY DEF KeyInv, NegativeOK
  <2>2. \A i \in 1..Len(negative) : negative[i].at <= clock'
    <3>1. \A i \in 1..Len(negative) : negative[i] \in [kid : Kids, at : Nat]
      BY <2>1, ElementOfSeq
    <3> QED
      BY <1>1, <2>1, <3>1
  <2> QED
    BY <2>1, <2>2 DEF NegativeOK
<1>5. HeardOK(heard, cache, clock', life)
  <2>1. ASSUME NEW k \in Kids
        PROVE  /\ heard[k] \in Int /\ heard[k] <= clock'
               /\ clock' < life[k].to => clock < life[k].to
    BY <1>0, <1>1, LifeTyped DEF KeyInv, HeardOK
  <2>2. HeardOK(heard, cache, clock, life)
    BY DEF KeyInv
  <2> QED
    BY <2>1, <2>2 DEF HeardOK
<1>6. OnlyOptOutUnbinds'
  BY <1>0 DEF KeyInv, OnlyOptOutUnbinds, In, Allowed
<1> QED
  BY <1>0, <1>1, <1>2, <1>3, <1>4, <1>5, <1>6 DEF KeyInv

\* A stutter.
LEMMA StutterKeyInv == KeyInv /\ UNCHANGED keyVars => KeyInv'
BY DEF KeyInv, keyVars, OnlyOptOutUnbinds, In, Allowed

\* Every step tells requests as it should.
LEMMA NextTells ==
    ASSUME KeyInv, [KeysNext]_keyVars
    PROVE  KeyInv' /\ (calls' = calls \/ \E r \in Calls : \E s : Becomes(r, s) /\ Told(r, s))
<1>1. CASE UNCHANGED keyVars
  <2>1. calls' = calls
    BY <1>1 DEF keyVars
  <2> QED
    BY <1>1, <2>1, StutterKeyInv
<1>2. CASE ClockTick
  <2>1. calls' = calls
    BY <1>2 DEF ClockTick
  <2> QED
    BY <1>2, <2>1, TickKeyInv
<1>3. CASE \E r \in Calls : \/ Bypass(r) \/ NoBearer(r) \/ Unreadable(r) \/ UseCache(r) \/ StartLoad(r)
                           \/ Reply(r) \/ FetchFailed(r) \/ Loaded(r) \/ Refreshed(r) \/ Bind(r)
  BY <1>3, RequestSteps
<1> QED
  BY <1>1, <1>2, <1>3 DEF KeysNext

-----------------------------------------------------------------------------
\* The invariant has the types and the binding.
LEMMA KeyInvBound == KeyInv => TenantsBound
<1> SUFFICES ASSUME KeyInv PROVE TenantsBound
  OBVIOUS
<1>1. clock \in 0..MaxClock
  BY TimesNat DEF KeyInv
<1>2. \A d, e \in cache : d = e
  BY DEF KeyInv, CacheOK
<1>3. \A c \in cache : c.keys \in SUBSET Kids /\ c.at \in 0..clock
  BY <1>1 DEF KeyInv, CacheOK
<1>4. \A r \in Calls : /\ calls[r].pc \in Pcs
                      /\ calls[r].started \in 0..clock
                      /\ calls[r].reply.keys \in SUBSET Kids
  BY <1>1 DEF KeyInv, ReqOK
<1>5. /\ Len(negative) <= NegCap
      /\ \A i, j \in DOMAIN negative : negative[i].kid = negative[j].kid => i = j
  BY LenProperties DEF KeyInv, NegativeOK
<1> QED
  BY <1>1, <1>2, <1>3, <1>4, <1>5 DEF TenantsBound, KeysTyped, KeyInv

\* What is told of the requests is what the properties ask for.
LEMMA ToldExpires ==
    ASSUME KeyInv, calls' = calls \/ \E r \in Calls : \E s : Becomes(r, s) /\ Told(r, s)
    PROVE  \A r \in Calls : calls'[r].pc = "accepted" /\ calls[r].pc # "accepted" =>
              /\ Acceptable(toks[r])
              /\ clock - LastPublished(toks[r].kid) < Ttl + FetchMax
<1> SUFFICES ASSUME NEW r \in Calls, calls'[r].pc = "accepted", calls[r].pc # "accepted"
             PROVE  /\ Acceptable(toks[r])
                    /\ clock - LastPublished(toks[r].kid) < Ttl + FetchMax
  OBVIOUS
<1>0. PICK q \in Calls : \E s : Becomes(q, s) /\ Told(q, s)
  OBVIOUS
<1>1. PICK s : Becomes(q, s) /\ Told(q, s)
  BY <1>0
<1>2. q = r /\ s.pc = "accepted"
  BY <1>1 DEF Becomes, KeyInv
<1> DEFINE k == toks[r].kid
<1>3. /\ life[k].to \in Nat /\ clock \in Nat /\ Ttl \in Nat /\ Ttl > 0 /\ FetchMax \in Nat
  BY LifeTyped, TimesNat DEF KeyInv
<1> HIDE DEF k
<1>4. /\ Acceptable(toks[r])
      /\ \E t \in Nat : t <= clock /\ clock < t + (Ttl + FetchMax) /\ t < life[k].to
  BY <1>1, <1>2 DEF Told, k
<1>5. clock - LastPublished(k) < Ttl + FetchMax
  <2>1. CASE clock < life[k].to
    BY <1>3, <2>1 DEF LastPublished
  <2>2. CASE ~(clock < life[k].to)
    <3>1. LastPublished(k) = life[k].to - 1
      BY <2>2 DEF LastPublished
    <3> QED
      BY <1>3, <1>4, <3>1
  <2> QED
    BY <2>1, <2>2
<1> QED
  BY <1>4, <1>5 DEF k

\* A request whose key the cache holds is answered from it.
LEMMA ToldSurvives ==
    ASSUME KeyInv, calls' = calls \/ \E r \in Calls : \E s : Becomes(r, s) /\ Told(r, s)
    PROVE  \A r \in Calls :
              LET k == toks[r].kid
              IN  /\ In(r, "new") /\ toks[r].shape = "token"
                  /\ Published(k, clock) /\ clock - heard[k] < Ttl - FetchMax
                  /\ life[k].from + FetchMax <= heard[k]
                  => calls'[r].pc \in {"new", "accepted"} \/ ~Acceptable(toks[r])
<1> SUFFICES ASSUME NEW r \in Calls, In(r, "new"), toks[r].shape = "token", Known(toks[r].kid)
             PROVE  calls'[r].pc \in {"new", "accepted"} \/ ~Acceptable(toks[r])
  BY DEF Known
<1>1. CASE calls' = calls
  BY <1>1 DEF In
<1>2. CASE \E q \in Calls : \E s : Becomes(q, s) /\ Told(q, s)
  <2>0. PICK q \in Calls : \E s : Becomes(q, s) /\ Told(q, s)
    BY <1>2
  <2>1. PICK s : Becomes(q, s) /\ Told(q, s)
    BY <2>0
  <2>2. CASE q = r
    <3>1. calls'[r] = s
      BY <2>1, <2>2 DEF Becomes, KeyInv
    <3> QED
      BY <2>1, <2>2, <3>1 DEF Told
  <2>3. CASE q # r
    <3>1. calls'[r] = calls[r]
      BY <2>1, <2>3 DEF Becomes, KeyInv
    <3> QED
      BY <3>1 DEF In
  <2> QED
    BY <2>2, <2>3
<1> QED
  BY <1>1, <1>2

\* A refused request carries a kid that is new, or its key is withdrawn.
LEMMA ToldPickedUp ==
    ASSUME KeyInv, calls' = calls \/ \E r \in Calls : \E s : Becomes(r, s) /\ Told(r, s)
    PROVE  \A r \in Calls : KeyUnknownTo(r) /\ Published(toks[r].kid, clock) =>
              clock - life[toks[r].kid].from < Interval + NegTtl + FetchMax
<1> SUFFICES ASSUME NEW r \in Calls, KeyUnknownTo(r), Published(toks[r].kid, clock)
             PROVE  clock - life[toks[r].kid].from < Interval + NegTtl + FetchMax
  OBVIOUS
<1>1. calls'[r].pc = "401" /\ calls[r].pc # "401" /\ toks[r].shape = "token" /\ Acceptable(toks[r])
  BY DEF KeyUnknownTo
<1>0. PICK q \in Calls : \E s : Becomes(q, s) /\ Told(q, s)
  BY <1>1
<1>2. PICK s : Becomes(q, s) /\ Told(q, s)
  BY <1>0
<1>3. q = r /\ s.pc = "401"
  BY <1>1, <1>2 DEF Becomes, KeyInv
<1> DEFINE k == toks[r].kid
<1>4. /\ life[k].from \in Nat /\ clock \in Nat /\ Interval \in Nat /\ NegTtl \in Nat /\ FetchMax \in Nat
  BY LifeTyped, TimesNat DEF KeyInv
<1>5. clock < life[k].from + (Interval + NegTtl + FetchMax)
  BY <1>1, <1>2, <1>3 DEF Told
<1> QED
  BY <1>4, <1>5

\* Only the opt-out lets a request out of its tenant, and the caches keep to
\* their sizes with one entry for a kid, for any keys, tokens, settings and times.
THEOREM SpecTenantsBound == KeysSpec => []TenantsBound
<1>1. KeysInit => KeyInv
  BY InitKeyInv
<1>2. KeyInv /\ [KeysNext]_keyVars => KeyInv'
  BY NextTells
<1>3. KeyInv => TenantsBound
  BY KeyInvBound
<1> QED
  BY <1>1, <1>2, <1>3, PTL DEF KeysSpec

\* A withdrawn key is trusted for the lifetime of an entry and one fetch at most,
\* and one that is published and was heard of lately is served from the cache,
\* whatever fetches overlap, fail or answer late (_get_jwks).
THEOREM SpecKeysTracked == KeysSpec => KeysTracked
<1>1. KeysInit => KeyInv
  BY InitKeyInv
<1>2. KeyInv /\ [KeysNext]_keyVars => KeyInv'
  BY NextTells
<1>3. KeyInv /\ [KeysNext]_keyVars =>
        [\A r \in Calls : calls'[r].pc = "accepted" /\ calls[r].pc # "accepted" =>
              /\ Acceptable(toks[r])
              /\ clock - LastPublished(toks[r].kid) < Ttl + FetchMax]_keyVars
  BY NextTells, ToldExpires
<1>4. KeyInv /\ [KeysNext]_keyVars =>
        [\A r \in Calls :
              LET k == toks[r].kid
              IN  /\ In(r, "new") /\ toks[r].shape = "token"
                  /\ Published(k, clock) /\ clock - heard[k] < Ttl - FetchMax
                  /\ life[k].from + FetchMax <= heard[k]
                  => calls'[r].pc \in {"new", "accepted"} \/ ~Acceptable(toks[r])]_keyVars
  BY NextTells, ToldSurvives
<1> QED
  BY <1>1, <1>2, <1>3, <1>4, PTL DEF KeysSpec, KeysTracked, WithdrawnKeysExpire, KnownKeySurvivesOutage

\* A good token under a new key is refused for its kid only while the throttle and
\* the negative cache, one after the other, may hold the fetch back.
THEOREM SpecRotationPickedUp == KeysSpec => RotationPickedUp
<1>1. KeysInit => KeyInv
  BY InitKeyInv
<1>2. KeyInv /\ [KeysNext]_keyVars => KeyInv'
  BY NextTells
<1>3. KeyInv /\ [KeysNext]_keyVars =>
        [\A r \in Calls : KeyUnknownTo(r) /\ Published(toks[r].kid, clock) =>
              clock - life[toks[r].kid].from < Interval + NegTtl + FetchMax]_keyVars
  BY NextTells, ToldPickedUp
<1> QED
  BY <1>1, <1>2, <1>3, PTL DEF KeysSpec, RotationPickedUp

=============================================================================
