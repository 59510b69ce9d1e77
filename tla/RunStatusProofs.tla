---------------------------- MODULE RunStatusProofs ----------------------------
(***************************************************************************)
(* Proofs about the store of run records, for any runs, processes,         *)
(* capacity and bounds: it holds the newest runs of its process, each      *)
(* record has the status its run has come to, what a process tells of a    *)
(* run never goes backwards, and its 404 means that the run is another     *)
(* process's, evicted or lost.                                             *)
(***************************************************************************)
EXTENDS RunStatus, FiniteSetTheorems, SequenceTheorems, TLAPS

-----------------------------------------------------------------------------
\* How many runs of a log its store has evicted.
Evicted(l) == IF Len(l) > MaxRuns THEN Len(l) - MaxRuns ELSE 0

\* The store s holds what is left of the log l, one record for each run.
Tracks(s, l) ==
    /\ Len(s) = Len(l) - Evicted(l)
    /\ \A i \in 1..Len(s) : s[i].run = l[i + Evicted(l)]

\* No run is in a log twice.
Distinct(l) == \A i, j \in 1..Len(l) : l[i] = l[j] => i = j

\* A run that was triggered has a process; the log of a process lists runs of
\* its own, each once, and the store tracks it.
Homes ==
    \A r \in Runs : /\ phase[r] = "new" => home[r] = NoProc
                    /\ phase[r] # "new" => home[r] \in Procs

LogTruthful ==
    \A p \in Procs : \A i \in 1..Len(log[p]) :
        phase[log[p][i]] # "new" /\ home[log[p][i]] = p

LogDistinct == \A p \in Procs : Distinct(log[p])

StoreTracks == \A p \in Procs : Tracks(store[p], log[p])

StoreInv ==
    TypeOK /\ Homes /\ LogTruthful /\ LogDistinct /\ StoreTracks /\ RecordsTruthful

\* A run that is not lost is in the log of its process.
Logged ==
    \A r \in Runs :
        phase[r] # "new" /\ r \notin lost => \E i \in 1..Len(log[home[r]]) : log[home[r]][i] = r

\* What a process told a client: nothing before it can ask; something else than
\* 404 only where the run is at home; a terminal status only when the run ended
\* so; 404 only of a run without a record here, that is another process's, lost
\* or far back in the log.
AnswersKept ==
    \A r \in Runs, p \in Procs :
        /\ phase[r] \in {"new", "accepted"} => answer[r][p] = "none"
        /\ answer[r][p] \notin {"none", Unknown} => home[r] = p
        /\ answer[r][p] \in {"completed", "failed"} => phase[r] \in {answer[r][p], "gone"}
        /\ answer[r][p] = Unknown =>
              /\ ~ Has(store[p], r)
              /\ \/ home[r] # p
                 \/ r \in lost
                 \/ \E i \in 1..Len(log[p]) : log[p][i] = r /\ i + MaxRuns <= Len(log[p])

PollInv == StoreInv /\ Logged /\ AnswersKept

-----------------------------------------------------------------------------
(* Lemmas about the operators of the store. *)

\* The last n elements of a sequence, one by one.
LEMMA LastElements ==
    ASSUME NEW S, NEW s \in Seq(S), NEW n \in Nat,
           NEW k \in Nat, k = IF Len(s) > n THEN Len(s) - n ELSE 0
    PROVE  /\ Last_n(s, n) \in Seq(S)
           /\ Len(Last_n(s, n)) = Len(s) - k
           /\ \A i \in 1..Len(s) - k : Last_n(s, n)[i] = s[i + k]
<1>1. Last_n(s, n) = SubSeq(s, k + 1, Len(s))
  BY DEF Last_n
<1>2. Len(s) \in Nat /\ k <= Len(s) /\ \A i \in (k+1)..Len(s) : s[i] \in S
  BY LenProperties, ElementOfSeq
<1>3. k + 1 \in Int /\ Len(s) \in Int
  BY <1>2
<1>4. /\ SubSeq(s, k + 1, Len(s)) \in Seq(S)
      /\ Len(SubSeq(s, k + 1, Len(s))) = IF k + 1 <= Len(s) THEN Len(s) - (k + 1) + 1 ELSE 0
      /\ \A i \in 1 .. Len(s) - (k + 1) + 1 : SubSeq(s, k + 1, Len(s))[i] = s[k + 1 + i - 1]
  <2> DEFINE a == k + 1
             b == Len(s)
  <2>1. a \in Int /\ b \in Int /\ \A i \in a..b : s[i] \in S
    BY <1>2, <1>3
  <2> HIDE DEF a, b
  <2>2. /\ SubSeq(s, a, b) \in Seq(S)
        /\ Len(SubSeq(s, a, b)) = IF a <= b THEN b - a + 1 ELSE 0
        /\ \A i \in 1 .. b - a + 1 : SubSeq(s, a, b)[i] = s[a + i - 1]
    BY <2>1, SubSeqProperties
  <2> QED
    BY <2>2 DEF a, b
<1>5. /\ Len(s) - (k + 1) + 1 = Len(s) - k
      /\ (IF k + 1 <= Len(s) THEN Len(s) - (k + 1) + 1 ELSE 0) = Len(s) - k
  <2>1. \A a, b \in Nat : a <= b => /\ b - (a + 1) + 1 = b - a
                                    /\ (IF a + 1 <= b THEN b - (a + 1) + 1 ELSE 0) = b - a
    OBVIOUS
  <2> QED
    BY <1>2, <2>1
<1>6. \A i \in 1..Len(s) - k : k + 1 + i - 1 = i + k
  BY <1>2
<1> QED
  BY <1>1, <1>4, <1>5, <1>6

\* Reversal, one element at a time.
LEMMA ReverseElements ==
    ASSUME NEW S, NEW s \in Seq(S)
    PROVE  /\ Reverse(s) \in Seq(S)
           /\ Len(Reverse(s)) = Len(s)
           /\ \A i \in 1..Len(s) : Reverse(s)[i] = s[(Len(s) - i) + 1]
<1>1. Len(s) \in Nat /\ \A i \in 1..Len(s) : s[(Len(s) - i) + 1] \in S
  <2>1. Len(s) \in Nat /\ \A i \in 1..Len(s) : (Len(s) - i) + 1 \in 1..Len(s)
    BY LenProperties
  <2> QED
    BY <2>1, ElementOfSeq
<1>2. Reverse(s) \in [1..Len(s) -> S]
  BY <1>1 DEF Reverse
<1>3. Reverse(s) \in Seq(S) /\ Len(Reverse(s)) = Len(s)
  BY <1>1, <1>2
<1> QED
  BY <1>3 DEF Reverse

\* A store and the log it tracks hold the same runs.
LEMMA IdsAreLast ==
    ASSUME NEW s \in Seq(Records), NEW l \in Seq(Runs), Tracks(s, l)
    PROVE  Ids(s) = Last_n(l, MaxRuns) /\ Len(s) <= MaxRuns /\ Ids(s) \in Seq(Runs)
<1>1. Len(l) \in Nat /\ MaxRuns \in Nat /\ Evicted(l) \in Nat /\ Evicted(l) <= Len(l)
      /\ Len(l) - Evicted(l) <= MaxRuns
  BY MaxRunsPos, LenProperties DEF Evicted
<1>2. /\ Last_n(l, MaxRuns) \in Seq(Runs)
      /\ Len(Last_n(l, MaxRuns)) = Len(l) - Evicted(l)
      /\ \A i \in 1..Len(l) - Evicted(l) : Last_n(l, MaxRuns)[i] = l[i + Evicted(l)]
  BY <1>1, LastElements DEF Evicted
<1>3. Last_n(l, MaxRuns) = [i \in 1..Len(s) |-> Last_n(l, MaxRuns)[i]]
  BY <1>2, LenProperties DEF Tracks
<1>4. \A i \in 1..Len(s) : s[i].run = Last_n(l, MaxRuns)[i]
  BY <1>2 DEF Tracks
<1>5. Ids(s) = Last_n(l, MaxRuns)
  BY <1>3, <1>4 DEF Ids
<1> QED
  BY <1>1, <1>2, <1>5 DEF Tracks

\* Recording a run the store does not know: the record goes to the newest end,
\* the others keep their order, the oldest leaves when the store was full.
LEMMA InsertedElements ==
    ASSUME NEW s \in Seq(Records), NEW l \in Seq(Runs), Tracks(s, l),
           NEW rec \in Records, ~ Has(s, rec.run)
    PROVE  /\ Inserted(s, rec) \in Seq(Records)
           /\ Tracks(Inserted(s, rec), Append(l, rec.run))
           /\ \A i \in 1..Len(Inserted(s, rec)) :
                 Inserted(s, rec)[i] = rec \/ \E j \in 1..Len(s) : Inserted(s, rec)[i] = s[j]
<1> DEFINE t == Append(s, rec)
           m == Append(l, rec.run)
           k == IF Len(t) > MaxRuns THEN Len(t) - MaxRuns ELSE 0
<1>0. Inserted(s, rec) = Last_n(t, MaxRuns)
  BY DEF Inserted, Without
<1>1. rec.run \in Runs
  BY DEF Records
<1>2. /\ t \in Seq(Records) /\ Len(t) = Len(s) + 1 /\ t[Len(s) + 1] = rec
      /\ \A i \in 1..Len(s) : t[i] = s[i]
  BY AppendProperties
<1>3. /\ m \in Seq(Runs) /\ Len(m) = Len(l) + 1 /\ m[Len(l) + 1] = rec.run
      /\ \A i \in 1..Len(l) : m[i] = l[i]
  BY <1>1, AppendProperties
<1>4. Len(s) \in Nat /\ Len(l) \in Nat /\ MaxRuns \in Nat /\ MaxRuns > 0
  BY LenProperties, MaxRunsPos
<1>5. k \in Nat /\ k <= 1 /\ k + Evicted(l) = Evicted(m)
  <2> HIDE DEF t, m
  <2>1. k = IF Len(s) + 1 > MaxRuns THEN Len(s) + 1 - MaxRuns ELSE 0
    BY <1>2, <1>4
  <2>2. Evicted(m) = IF Len(l) + 1 > MaxRuns THEN Len(l) + 1 - MaxRuns ELSE 0
    BY <1>3, <1>4 DEF Evicted
  <2> HIDE DEF k
  <2>3. CASE Len(l) >= MaxRuns
    <3>1. Evicted(l) = Len(l) - MaxRuns
      BY <1>4, <2>3 DEF Evicted
    <3>2. Len(s) = MaxRuns
      BY <1>4, <3>1 DEF Tracks
    <3>3. k = 1 /\ Evicted(m) = Len(l) + 1 - MaxRuns
      BY <1>4, <2>1, <2>2, <2>3, <3>2
    <3> QED
      BY <1>4, <3>1, <3>3
  <2>4. CASE Len(l) < MaxRuns
    <3>1. Evicted(l) = 0
      BY <1>4, <2>4 DEF Evicted
    <3>2. Len(s) = Len(l)
      BY <1>4, <3>1 DEF Tracks
    <3>3. k = 0 /\ Evicted(m) = 0
      BY <1>4, <2>1, <2>2, <2>4, <3>2
    <3> QED
      BY <3>1, <3>3
  <2> QED
    BY <1>4, <2>3, <2>4
<1> HIDE DEF t, m
<1>6. /\ Last_n(t, MaxRuns) \in Seq(Records)
      /\ Len(Last_n(t, MaxRuns)) = Len(t) - k
      /\ \A i \in 1..Len(t) - k : Last_n(t, MaxRuns)[i] = t[i + k]
  BY <1>2, <1>4, <1>5, LastElements
<1> HIDE DEF k
<1>7. Evicted(l) \in Nat /\ Evicted(m) \in Nat /\ Len(s) = Len(l) - Evicted(l)
  BY <1>3, <1>4 DEF Evicted, Tracks
<1>8. ASSUME NEW i \in 1..Len(t) - k
      PROVE  t[i + k].run = m[i + Evicted(m)]
             /\ (t[i + k] = rec \/ \E j \in 1..Len(s) : t[i + k] = s[j])
  <2>1. i + k \in 1..Len(s) + 1 /\ i + Evicted(m) = (i + k) + Evicted(l)
    BY <1>2, <1>4, <1>5, <1>7
  <2>2. CASE i + k = Len(s) + 1
    <3>1. i + Evicted(m) = Len(l) + 1
      BY <1>4, <1>7, <2>1, <2>2
    <3> QED
      BY <1>2, <1>3, <2>2, <3>1
  <2>3. CASE i + k \in 1..Len(s)
    <3>1. i + Evicted(m) \in 1..Len(l)
      BY <1>4, <1>7, <2>1, <2>3
    <3> QED
      BY <1>2, <1>3, <2>1, <2>3, <3>1 DEF Tracks
  <2> QED
    BY <1>4, <2>1, <2>2, <2>3
<1>9. Len(t) - k = Len(m) - Evicted(m)
  BY <1>2, <1>3, <1>4, <1>5, <1>7
<1>10. Tracks(Last_n(t, MaxRuns), m)
  BY <1>6, <1>8, <1>9 DEF Tracks
<1> QED
  BY <1>0, <1>6, <1>8, <1>10 DEF m

\* Updating the record of a run: in place, nothing else moves or appears.
LEMMA UpdatedElements ==
    ASSUME NEW s \in Seq(Records), NEW l \in Seq(Runs), Tracks(s, l), NEW rec \in Records,
           Distinct(l)
    PROVE  /\ Updated(s, rec) \in Seq(Records)
           /\ Tracks(Updated(s, rec), l)
           /\ Len(Updated(s, rec)) = Len(s)
           /\ \A i \in 1..Len(s) :
                 Updated(s, rec)[i] = IF s[i].run = rec.run THEN rec ELSE s[i]
<1>1. CASE ~ Has(s, rec.run)
  BY <1>1 DEF Updated, Has
<1>2. CASE Has(s, rec.run)
  <2> DEFINE j == RecordOf(s, rec.run)
             u == [s EXCEPT ![j] = rec]
  <2>1. j \in 1..Len(s) /\ s[j].run = rec.run
    BY <1>2 DEF Has, RecordOf
  <2> HIDE DEF j
  <2>2. /\ u \in Seq(Records) /\ Len(u) = Len(s)
        /\ \A i \in 1..Len(s) : u[i] = IF i = j THEN rec ELSE s[i]
    BY <2>1, ExceptSeq
  <2>3. Updated(s, rec) = u
    BY <1>2 DEF Updated, j
  <2> HIDE DEF u
  <2>4. ASSUME NEW i \in 1..Len(s), s[i].run = rec.run PROVE i = j
    <3>1. /\ Len(s) \in Nat /\ Len(l) \in Nat /\ Evicted(l) \in Nat
          /\ Len(s) = Len(l) - Evicted(l)
      BY LenProperties, MaxRunsPos DEF Evicted, Tracks
    <3>2. i + Evicted(l) \in 1..Len(l) /\ j + Evicted(l) \in 1..Len(l)
      BY <2>1, <3>1
    <3>3. l[i + Evicted(l)] = rec.run /\ l[j + Evicted(l)] = rec.run
      BY <2>1, <2>4 DEF Tracks
    <3>4. i + Evicted(l) = j + Evicted(l)
      BY <3>2, <3>3 DEF Distinct
    <3> QED
      BY <2>1, <3>1, <3>4
  <2>5. \A i \in 1..Len(s) : /\ u[i] = IF s[i].run = rec.run THEN rec ELSE s[i]
                             /\ u[i].run = s[i].run
    BY <2>1, <2>2, <2>4
  <2>6. Tracks(u, l)
    BY <2>2, <2>5 DEF Tracks
  <2> QED
    BY <2>2, <2>3, <2>5, <2>6
<1> QED
  BY <1>1, <1>2

\* What a client is told is the status of a record, or 404 where there is none.
LEMMA LookUpValue ==
    ASSUME NEW s, NEW r
    PROVE  \/ ~ Has(s, r) /\ LookUp(s, r) = Unknown
           \/ Has(s, r) /\ \E i \in 1..Len(s) : s[i].run = r /\ LookUp(s, r) = s[i].status
BY DEF Has, RecordOf, LookUp

-----------------------------------------------------------------------------
(* Every step keeps the store. *)

\* A record of a store is of a run that was triggered in that process.
LEMMA RecordsKnown ==
    ASSUME StoreInv, NEW p \in Procs, NEW i \in 1..Len(store[p])
    PROVE  /\ store[p][i] \in Records /\ store[p][i].run \in Runs
           /\ phase[store[p][i].run] # "new" /\ home[store[p][i].run] = p
<1>1. store[p] \in Seq(Records) /\ log[p] \in Seq(Runs) /\ Tracks(store[p], log[p])
  BY DEF StoreInv, TypeOK, StoreTracks
<1>2. /\ Len(store[p]) \in Nat /\ Len(log[p]) \in Nat /\ Evicted(log[p]) \in Nat
      /\ Len(store[p]) = Len(log[p]) - Evicted(log[p])
  BY <1>1, LenProperties, MaxRunsPos DEF Evicted, Tracks
<1>3. i + Evicted(log[p]) \in 1..Len(log[p])
  BY <1>2
<1>4. store[p][i].run = log[p][i + Evicted(log[p])]
  BY <1>1 DEF Tracks
<1>5. store[p][i] \in Records
  BY <1>1, ElementOfSeq
<1>6. store[p][i].run \in Runs
  BY <1>5 DEF Records
<1> QED
  BY <1>3, <1>4, <1>5, <1>6 DEF StoreInv, LogTruthful

\* What the rest of the state must keep for the store to keep its promise.
LEMMA StoreKept ==
    ASSUME StoreInv, UNCHANGED <<store, home, log>>,
           phase' \in [Runs -> Phases],
           ingested' \in [Runs -> 0..MaxItems],
           answer' \in [Runs -> [Procs -> Answers]],
           UNCHANGED <<lost, restarts>>,
           \A r \in Runs : /\ phase'[r] = "new" <=> phase[r] = "new"
                           /\ StatusOf(phase'[r]) = StatusOf(phase[r])
                           /\ ingested'[r] = ingested[r] \/ phase[r] = "running"
    PROVE  StoreInv'
<1>1. TypeOK'
  BY DEF StoreInv, TypeOK, Records
<1>2. Homes' /\ LogDistinct' /\ StoreTracks'
  BY DEF StoreInv, Homes, LogDistinct, StoreTracks
<1>3. LogTruthful'
  <2>1. \A p \in Procs : \A i \in 1..Len(log[p]) : log[p][i] \in Runs
    BY ElementOfSeq DEF StoreInv, TypeOK
  <2> QED
    BY <2>1 DEF StoreInv, LogTruthful
<1>4. RecordsTruthful'
  <2>1. ASSUME NEW p \in Procs, NEW i \in 1..Len(store[p])
        PROVE  /\ store[p][i].status = StatusOf(phase'[store[p][i].run])
               /\ store[p][i].processed = IF store[p][i].status = "completed"
                                           THEN ingested'[store[p][i].run] ELSE 0
    <3> DEFINE q == store[p][i].run
    <3>1. q \in Runs
      BY RecordsKnown
    <3>2. /\ store[p][i].status = StatusOf(phase[q])
          /\ store[p][i].processed = IF store[p][i].status = "completed" THEN ingested[q] ELSE 0
      BY DEF StoreInv, RecordsTruthful
    <3>3. store[p][i].status = "completed" => phase[q] # "running"
      BY <3>2 DEF StatusOf
    <3> QED
      BY <3>1, <3>2, <3>3
  <2> QED
    BY <2>1 DEF RecordsTruthful
<1> QED
  BY <1>1, <1>2, <1>3, <1>4 DEF StoreInv

\* A trigger puts its run at the newest end of the store of its process.
LEMMA TriggerStore ==
    ASSUME StoreInv, NEW r \in Runs, NEW p \in Procs, Trigger(r, p)
    PROVE  StoreInv'
<1> DEFINE s == store[p]
           n == Inserted(s, Fresh(r))
           m == Append(log[p], r)
<1>1. /\ s \in Seq(Records) /\ log[p] \in Seq(Runs) /\ Tracks(s, log[p])
      /\ Fresh(r) \in Records /\ Fresh(r).run = r /\ Fresh(r).status = "started"
  <2>1. Fresh(r) \in Records /\ Fresh(r).run = r /\ Fresh(r).status = "started"
    BY BoundsNat DEF Fresh, Records
  <2>2. store[p] \in Seq(Records) /\ log[p] \in Seq(Runs) /\ Tracks(store[p], log[p])
    BY DEF StoreInv, TypeOK, StoreTracks
  <2> QED
    BY <2>1, <2>2
<1>2. phase[r] = "new"
  BY DEF Trigger
<1>3. \A q \in Procs : \A i \in 1..Len(store[q]) : store[q][i].run # r
  BY <1>2, RecordsKnown
<1>4. ~ Has(s, Fresh(r).run)
  BY <1>1, <1>3 DEF Has
<1>5. /\ n \in Seq(Records) /\ Tracks(n, m)
      /\ \A i \in 1..Len(n) : n[i] = Fresh(r) \/ \E j \in 1..Len(s) : n[i] = s[j]
  <2>1. /\ Inserted(s, Fresh(r)) \in Seq(Records)
        /\ Tracks(Inserted(s, Fresh(r)), Append(log[p], Fresh(r).run))
        /\ \A i \in 1..Len(Inserted(s, Fresh(r))) :
              \/ Inserted(s, Fresh(r))[i] = Fresh(r)
              \/ \E j \in 1..Len(s) : Inserted(s, Fresh(r))[i] = s[j]
    BY <1>1, <1>4, InsertedElements
  <2> QED
    BY <1>1, <2>1
<1>6. /\ m \in Seq(Runs) /\ Len(m) = Len(log[p]) + 1 /\ m[Len(log[p]) + 1] = r
      /\ \A i \in 1..Len(log[p]) : m[i] = log[p][i]
  BY <1>1, AppendProperties
<1>7. Len(n) <= MaxRuns
  BY <1>5, <1>6, IdsAreLast
<1>8. /\ store' = [store EXCEPT ![p] = n] /\ log' = [log EXCEPT ![p] = m]
      /\ home' = [home EXCEPT ![r] = p] /\ phase' = [phase EXCEPT ![r] = "accepted"]
      /\ UNCHANGED <<ingested, answer, lost, restarts>>
  BY DEF Trigger
<1> HIDE DEF n, m
<1>9. /\ store'[p] = n /\ log'[p] = m /\ home'[r] = p /\ phase'[r] = "accepted"
      /\ \A q \in Procs : q # p => store'[q] = store[q] /\ log'[q] = log[q]
      /\ \A q \in Runs : q # r => home'[q] = home[q] /\ phase'[q] = phase[q]
  BY <1>8 DEF StoreInv, TypeOK
<1>10. TypeOK'
  <2>1. store' \in [Procs -> Seq(Records)] /\ log' \in [Procs -> Seq(Runs)]
    BY <1>5, <1>6, <1>8 DEF StoreInv, TypeOK
  <2>2. \A q \in Procs : Len(store'[q]) <= MaxRuns
    BY <1>7, <1>9 DEF StoreInv, TypeOK
  <2>3. /\ home' \in [Runs -> Procs \cup {NoProc}]
        /\ phase' \in [Runs -> Phases]
    BY <1>8 DEF StoreInv, TypeOK, Phases
  <2> QED
    BY <1>8, <2>1, <2>2, <2>3 DEF StoreInv, TypeOK, Records
<1>11. Homes'
  BY <1>9 DEF StoreInv, Homes
<1>12. \A q \in Procs : \A i \in 1..Len(log[q]) : log[q][i] \in Runs /\ log[q][i] # r
  BY <1>2, ElementOfSeq DEF StoreInv, TypeOK, LogTruthful
<1>13. Len(log[p]) \in Nat
  BY <1>1, LenProperties
<1>14. LogTruthful'
  <2>1. ASSUME NEW i \in 1..Len(m) PROVE phase'[m[i]] # "new" /\ home'[m[i]] = p
    <3>1. CASE i = Len(log[p]) + 1
      BY <1>6, <1>9, <3>1
    <3>2. CASE i \in 1..Len(log[p])
      BY <1>6, <1>9, <1>12, <3>2 DEF StoreInv, LogTruthful
    <3> QED
      BY <1>6, <1>13, <3>1, <3>2
  <2>2. ASSUME NEW q \in Procs, q # p, NEW i \in 1..Len(log[q])
        PROVE  phase'[log[q][i]] # "new" /\ home'[log[q][i]] = q
    BY <1>9, <1>12, <2>2 DEF StoreInv, LogTruthful
  <2> QED
    BY <1>9, <2>1, <2>2 DEF LogTruthful
<1>15. LogDistinct'
  <2>1. ASSUME NEW i \in 1..Len(m), NEW j \in 1..Len(m), m[i] = m[j] PROVE i = j
    <3>1. CASE i \in 1..Len(log[p]) /\ j \in 1..Len(log[p])
      BY <1>6, <2>1, <3>1 DEF StoreInv, LogDistinct, Distinct
    <3>2. CASE i = Len(log[p]) + 1 \/ j = Len(log[p]) + 1
      BY <1>6, <1>12, <1>13, <2>1, <3>2
    <3> QED
      BY <1>6, <1>13, <3>1, <3>2
  <2> QED
    BY <1>9, <2>1 DEF StoreInv, LogDistinct, Distinct
<1>16. StoreTracks'
  BY <1>5, <1>9 DEF StoreInv, StoreTracks
<1>17. RecordsTruthful'
  <2>1. ASSUME NEW i \in 1..Len(n)
        PROVE  /\ n[i].processed = IF n[i].status = "completed" THEN ingested'[n[i].run] ELSE 0
               /\ n[i].status = StatusOf(phase'[n[i].run])
    <3>1. CASE n[i] = Fresh(r)
      BY <1>1, <1>9, <3>1 DEF StatusOf, Fresh
    <3>2. ASSUME NEW j \in 1..Len(s), n[i] = s[j]
          PROVE  /\ n[i].processed = IF n[i].status = "completed"
                                     THEN ingested'[n[i].run] ELSE 0
                 /\ n[i].status = StatusOf(phase'[n[i].run])
      <4>1. s[j].run \in Runs /\ s[j].run # r
        BY <1>3, <3>2, RecordsKnown
      <4> QED
        BY <1>8, <1>9, <3>2, <4>1 DEF StoreInv, RecordsTruthful
    <3> QED
      BY <1>5, <3>1, <3>2
  <2>2. ASSUME NEW q \in Procs, q # p, NEW i \in 1..Len(store[q])
        PROVE  store[q][i].run \in Runs /\ store[q][i].run # r
    BY <1>3, RecordsKnown
  <2> QED
    BY <1>8, <1>9, <2>1, <2>2 DEF StoreInv, RecordsTruthful
<1> QED
  BY <1>10, <1>11, <1>14, <1>15, <1>16, <1>17 DEF StoreInv

\* The end of a run: its record, if the store still has one, is updated in place.
LEMMA RecordStore ==
    ASSUME StoreInv, NEW r \in Runs, NEW rec \in Records, rec.run = r,
           phase[r] = "running", rec.status \in {"completed", "failed"},
           rec.processed = IF rec.status = "completed" THEN ingested[r] ELSE 0,
           store' = [store EXCEPT ![home[r]] = Updated(@, rec)],
           phase' = [phase EXCEPT ![r] = rec.status],
           UNCHANGED <<home, ingested, answer, log, lost, restarts>>
    PROVE  StoreInv'
<1> DEFINE p == home[r]
           n == Updated(store[p], rec)
<1>1. p \in Procs
  BY DEF StoreInv, Homes
<1> HIDE DEF p
<1>2. /\ store[p] \in Seq(Records) /\ log[p] \in Seq(Runs) /\ Tracks(store[p], log[p])
      /\ Distinct(log[p])
  BY <1>1 DEF StoreInv, TypeOK, StoreTracks, LogDistinct
<1>3. /\ n \in Seq(Records) /\ Tracks(n, log[p]) /\ Len(n) = Len(store[p])
      /\ \A i \in 1..Len(n) : n[i] = IF store[p][i].run = rec.run THEN rec ELSE store[p][i]
  <2> DEFINE s == store[p]
             l == log[p]
  <2>1. /\ s \in Seq(Records) /\ l \in Seq(Runs) /\ Tracks(s, l)
        /\ Distinct(l)
    BY <1>2
  <2> HIDE DEF s, l
  <2>2. /\ Updated(s, rec) \in Seq(Records) /\ Tracks(Updated(s, rec), l)
        /\ Len(Updated(s, rec)) = Len(s)
        /\ \A i \in 1..Len(s) :
              Updated(s, rec)[i] = IF s[i].run = rec.run THEN rec ELSE s[i]
    BY <2>1, UpdatedElements
  <2> QED
    BY <2>2 DEF s, l
<1>4. store' = [store EXCEPT ![p] = n]
  BY DEF p
<1> HIDE DEF n
<1>5. /\ store'[p] = n /\ phase'[r] = rec.status
      /\ \A q \in Procs : q # p => store'[q] = store[q]
      /\ \A q \in Runs : q # r => phase'[q] = phase[q]
  BY <1>1, <1>4 DEF StoreInv, TypeOK
<1>6. TypeOK'
  <2>1. store' \in [Procs -> Seq(Records)]
    BY <1>3, <1>4 DEF StoreInv, TypeOK
  <2>2. \A q \in Procs : Len(store'[q]) <= MaxRuns
    BY <1>1, <1>3, <1>5 DEF StoreInv, TypeOK
  <2>3. phase' \in [Runs -> Phases]
    BY DEF StoreInv, TypeOK, Phases
  <2> QED
    BY <2>1, <2>2, <2>3 DEF StoreInv, TypeOK, Records
<1>7. Homes'
  BY <1>5 DEF StoreInv, Homes
<1>8. LogTruthful'
  <2>1. \A q \in Procs : \A i \in 1..Len(log[q]) : log[q][i] \in Runs
    BY ElementOfSeq DEF StoreInv, TypeOK
  <2> QED
    BY <1>5, <2>1 DEF StoreInv, LogTruthful
<1>9. LogDistinct'
  BY DEF StoreInv, LogDistinct, Distinct
<1>10. StoreTracks'
  BY <1>3, <1>5 DEF StoreInv, StoreTracks
<1>11. RecordsTruthful'
  <2>1. ASSUME NEW i \in 1..Len(n)
        PROVE  /\ n[i].processed = IF n[i].status = "completed" THEN ingested[n[i].run] ELSE 0
               /\ n[i].status = StatusOf(phase'[n[i].run])
    <3>1. i \in 1..Len(store[p]) /\ store[p][i].run \in Runs
      BY <1>1, <1>3, <2>1, RecordsKnown
    <3>2. CASE store[p][i].run = r
      <4>1. n[i] = rec /\ StatusOf(rec.status) = rec.status
        BY <1>3, <3>1, <3>2 DEF StatusOf
      <4> QED
        BY <1>5, <4>1
    <3>3. CASE store[p][i].run # r
      BY <1>1, <1>3, <1>5, <3>1, <3>3 DEF StoreInv, RecordsTruthful
    <3> QED
      BY <3>2, <3>3
  <2>2. ASSUME NEW q \in Procs, q # p, NEW i \in 1..Len(store[q])
        PROVE  store[q][i].run \in Runs /\ store[q][i].run # r
    BY <2>2, RecordsKnown DEF p
  <2> QED
    BY <1>5, <2>1, <2>2 DEF StoreInv, RecordsTruthful
<1> QED
  BY <1>6, <1>7, <1>8, <1>9, <1>10, <1>11 DEF StoreInv

\* A restart empties the store and the log of one process.
LEMMA RestartStore ==
    ASSUME StoreInv, NEW p \in Procs, Restart(p)
    PROVE  StoreInv'
<1>1. /\ store'[p] = <<>> /\ log'[p] = <<>>
      /\ \A q \in Procs : q # p => store'[q] = store[q] /\ log'[q] = log[q]
      /\ \A r \in Runs : phase'[r] = IF home[r] = p THEN "gone" ELSE phase[r]
      /\ UNCHANGED <<home, ingested, answer>>
  BY DEF Restart, StoreInv, TypeOK
<1>2. Len(<<>>) = 0 /\ \A q : q \notin 1..0
  OBVIOUS
<1>3. TypeOK'
  <2>1. store' \in [Procs -> Seq(Records)] /\ log' \in [Procs -> Seq(Runs)]
    BY DEF Restart, StoreInv, TypeOK
  <2>2. \A q \in Procs : Len(store'[q]) <= MaxRuns
    BY <1>1, <1>2, MaxRunsPos DEF StoreInv, TypeOK
  <2>3. /\ phase' \in [Runs -> Phases]
        /\ lost' \subseteq Runs /\ restarts' \in 0..MaxRestarts
    BY BoundsNat DEF Restart, StoreInv, TypeOK, Phases
  <2> QED
    BY <1>1, <2>1, <2>2, <2>3 DEF StoreInv, TypeOK, Records
<1>4. Homes'
  BY <1>1, NoProcOutside DEF StoreInv, Homes
<1>5. \A q \in Procs : \A i \in 1..Len(log[q]) : log[q][i] \in Runs
  BY ElementOfSeq DEF StoreInv, TypeOK
<1>6. LogTruthful' /\ LogDistinct'
  BY <1>1, <1>2, <1>5 DEF StoreInv, LogTruthful, LogDistinct, Distinct
<1>7. Tracks(<<>>, <<>>)
  BY <1>2, MaxRunsPos DEF Tracks, Evicted
<1>8. StoreTracks'
  BY <1>1, <1>7 DEF StoreInv, StoreTracks
<1>9. RecordsTruthful'
  <2>1. ASSUME NEW q \in Procs, q # p, NEW i \in 1..Len(store[q])
        PROVE  store[q][i].run \in Runs /\ home[store[q][i].run] # p
    BY <2>1, RecordsKnown
  <2> QED
    BY <1>1, <1>2, <2>1 DEF StoreInv, RecordsTruthful
<1> QED
  BY <1>3, <1>4, <1>6, <1>8, <1>9 DEF StoreInv

\* Every step keeps the store's invariant.
LEMMA NextStore == StoreInv /\ [Next]_vars => StoreInv'
<1> SUFFICES ASSUME StoreInv, [Next]_vars PROVE StoreInv'
  OBVIOUS
<1> USE DEF StoreInv
<1>1. ASSUME NEW r \in Runs, Respond(r) PROVE StoreInv'
  <2>1. /\ phase' = [phase EXCEPT ![r] = "running"] /\ phase[r] = "accepted"
        /\ StatusOf("running") = StatusOf("accepted")
    BY <1>1 DEF Respond, StatusOf
  <2>2. UNCHANGED <<store, home, log, lost, restarts, ingested, answer>>
    BY <1>1 DEF Respond
  <2> QED
    BY <2>1, <2>2, StoreKept DEF TypeOK, Phases
<1>2. ASSUME NEW r \in Runs, ItemReturns(r) PROVE StoreInv'
  <2>1. ingested' = [ingested EXCEPT ![r] = ingested[r] + 1] /\ phase[r] = "running"
        /\ ingested[r] < MaxItems
    BY <1>2 DEF ItemReturns
  <2>2. UNCHANGED <<store, home, log, lost, restarts, phase, answer>>
    BY <1>2 DEF ItemReturns
  <2>3. ingested' \in [Runs -> 0..MaxItems]
    BY <2>1, BoundsNat DEF TypeOK
  <2> QED
    BY <2>1, <2>2, <2>3, StoreKept DEF TypeOK
<1>4. ASSUME NEW r \in Runs, RecordCompleted(r) PROVE StoreInv'
  <2> DEFINE rec == [Fresh(r) EXCEPT !.status = "completed", !.processed = ingested[r]]
  <2>1. /\ rec \in Records /\ rec.run = r /\ rec.status = "completed"
        /\ rec.processed = ingested[r]
    BY DEF TypeOK, Fresh, Records
  <2>2. /\ phase[r] = "running" /\ phase' = [phase EXCEPT ![r] = "completed"]
        /\ store' = [store EXCEPT ![home[r]] = Updated(@, rec)]
        /\ UNCHANGED <<home, ingested, answer, log, lost, restarts>>
    BY <1>4 DEF RecordCompleted
  <2> HIDE DEF rec
  <2> QED
    BY <2>1, <2>2, RecordStore
<1>5. ASSUME NEW r \in Runs, RecordFailed(r) PROVE StoreInv'
  <2> DEFINE rec == [Fresh(r) EXCEPT !.status = "failed"]
  <2>1. rec \in Records /\ rec.run = r /\ rec.status = "failed" /\ rec.processed = 0
    BY BoundsNat DEF Fresh, Records
  <2>2. /\ phase[r] = "running" /\ phase' = [phase EXCEPT ![r] = "failed"]
        /\ store' = [store EXCEPT ![home[r]] = Updated(@, rec)]
        /\ UNCHANGED <<home, ingested, answer, log, lost, restarts>>
    BY <1>5 DEF RecordFailed
  <2> HIDE DEF rec
  <2> QED
    BY <2>1, <2>2, RecordStore
<1>6. ASSUME NEW r \in Runs, NEW p \in Procs, Poll(r, p) PROVE StoreInv'
  <2>1. /\ answer' = [answer EXCEPT ![r][p] = LookUp(store[p], r)]
        /\ UNCHANGED <<store, phase, home, ingested, log, lost, restarts>>
    BY <1>6 DEF Poll
  <2>2. LookUp(store[p], r) \in Answers
    BY LookUpValue, RecordsKnown DEF Records, Answers
  <2>3. answer' \in [Runs -> [Procs -> Answers]]
    BY <2>1, <2>2 DEF TypeOK
  <2> QED
    BY <2>1, <2>3, StoreKept DEF TypeOK
<1>7. CASE UNCHANGED vars
  BY <1>7, StoreKept DEF vars, TypeOK
<1> QED
  BY <1>1, <1>2, <1>4, <1>5, <1>6, <1>7, TriggerStore, RestartStore
  DEF Next, RunStep

-----------------------------------------------------------------------------
(* Every step keeps what the clients were told. *)

\* A run of the log that has no record in the store is far back in the log.
LEMMA Gone ==
    ASSUME StoreInv, NEW p \in Procs, NEW i \in 1..Len(log[p]), ~ Has(store[p], log[p][i])
    PROVE  i + MaxRuns <= Len(log[p])
<1> DEFINE l == log[p]
<1>1. /\ store[p] \in Seq(Records) /\ l \in Seq(Runs) /\ Tracks(store[p], l)
  BY DEF StoreInv, TypeOK, StoreTracks
<1>2. i \in 1..Len(l) /\ ~ Has(store[p], l[i])
  OBVIOUS
<1> HIDE DEF l
<1>3. /\ Len(store[p]) \in Nat /\ Len(l) \in Nat /\ Evicted(l) \in Nat /\ MaxRuns \in Nat
      /\ Len(store[p]) = Len(l) - Evicted(l)
  BY <1>1, LenProperties, MaxRunsPos DEF Evicted, Tracks
<1>4. CASE i > Evicted(l)
  <2>1. i - Evicted(l) \in 1..Len(store[p]) /\ (i - Evicted(l)) + Evicted(l) = i
    BY <1>2, <1>3, <1>4
  <2>2. store[p][i - Evicted(l)].run = l[i]
    BY <1>1, <2>1 DEF Tracks
  <2> QED
    BY <1>2, <2>1, <2>2 DEF Has
<1>5. CASE i <= Evicted(l)
  BY <1>2, <1>3, <1>5 DEF Evicted, l
<1> QED
  BY <1>2, <1>3, <1>4, <1>5

\* A step that leaves the stores, the logs and the answers alone.
LEMMA AnswersStay ==
    ASSUME PollInv, UNCHANGED <<store, home, log, lost, answer>>,
           \A r \in Runs : /\ phase'[r] = "new" <=> phase[r] = "new"
                           /\ phase'[r] = "accepted" => phase[r] = "accepted"
                           /\ phase[r] \in {"completed", "failed", "gone"} =>
                                 phase'[r] = phase[r]
    PROVE  Logged' /\ AnswersKept'
BY DEF PollInv, Logged, AnswersKept, Has

\* A trigger: the new run is not asked about yet, the others keep their place.
LEMMA TriggerAnswers ==
    ASSUME PollInv, NEW r \in Runs, NEW p \in Procs, Trigger(r, p)
    PROVE  Logged' /\ AnswersKept'
<1> DEFINE s == store[p]
           n == Inserted(s, Fresh(r))
           l == log[p]
           m == Append(l, r)
<1>0. StoreInv /\ Logged /\ AnswersKept
  BY DEF PollInv
<1>1. /\ s \in Seq(Records) /\ l \in Seq(Runs) /\ Tracks(s, l)
  BY <1>0 DEF StoreInv, TypeOK, StoreTracks
<1>2. Fresh(r) \in Records /\ Fresh(r).run = r
  BY BoundsNat DEF Fresh, Records
<1>3. phase[r] = "new" /\ \A c \in Procs : answer[r][c] = "none"
  BY <1>0 DEF Trigger, AnswersKept
<1>4. ~ Has(s, Fresh(r).run)
  BY <1>0, <1>2, <1>3, RecordsKnown DEF Has
<1>5. \A i \in 1..Len(n) : n[i].run = r \/ \E j \in 1..Len(s) : n[i] = s[j]
  BY <1>1, <1>2, <1>4, InsertedElements
<1>6. /\ Len(m) = Len(l) + 1 /\ m[Len(l) + 1] = r
      /\ \A i \in 1..Len(l) : m[i] = l[i]
  BY <1>1, AppendProperties
<1>7. /\ store' = [store EXCEPT ![p] = n] /\ log' = [log EXCEPT ![p] = m]
      /\ home' = [home EXCEPT ![r] = p] /\ phase' = [phase EXCEPT ![r] = "accepted"]
      /\ UNCHANGED <<ingested, answer, lost, restarts>>
  BY DEF Trigger
<1> HIDE DEF n, m
<1>8. /\ store'[p] = n /\ log'[p] = m /\ home'[r] = p /\ phase'[r] = "accepted"
      /\ \A q \in Procs : q # p => store'[q] = store[q] /\ log'[q] = log[q]
      /\ \A q \in Runs : q # r => home'[q] = home[q] /\ phase'[q] = phase[q]
      /\ answer' = answer /\ lost' = lost
  BY <1>0, <1>7 DEF StoreInv, TypeOK
<1>9. Len(l) \in Nat /\ MaxRuns \in Nat
  BY <1>1, LenProperties, MaxRunsPos
<1>10. \A i \in 1..Len(l) : i \in 1..Len(m)
  BY <1>6, <1>9
<1>11. Logged'
  <2>1. ASSUME NEW q \in Runs, phase'[q] # "new", q \notin lost'
        PROVE  \E i \in 1..Len(log'[home'[q]]) : log'[home'[q]][i] = q
    <3>1. CASE q = r
      <4>1. Len(l) + 1 \in 1..Len(m)
        BY <1>6, <1>9
      <4> QED
        BY <1>6, <1>8, <3>1, <4>1
    <3>2. CASE q # r
      <4>1. phase[q] # "new" /\ q \notin lost /\ home'[q] = home[q] /\ home[q] \in Procs
        BY <1>0, <1>8, <2>1, <3>2 DEF StoreInv, Homes
      <4>2. PICK i \in 1..Len(log[home[q]]) : log[home[q]][i] = q
        BY <1>0, <4>1 DEF Logged
      <4>3. CASE home[q] = p
        BY <1>6, <1>8, <1>10, <4>1, <4>2, <4>3
      <4>4. CASE home[q] # p
        BY <1>8, <4>1, <4>2, <4>4
      <4> QED
        BY <4>3, <4>4
    <3> QED
      BY <3>1, <3>2
  <2> QED
    BY <2>1 DEF Logged
<1>12. ASSUME NEW q \in Runs, q # r, NEW c \in Procs, NEW i \in 1..Len(store'[c]),
              store'[c][i].run = q
       PROVE  \E j \in 1..Len(store[c]) : store'[c][i] = store[c][j]
  <2>1. CASE c = p
    BY <1>5, <1>8, <1>12, <2>1
  <2>2. CASE c # p
    BY <1>8, <1>12, <2>2
  <2> QED
    BY <2>1, <2>2
<1>13. AnswersKept'
  <2>1. ASSUME NEW c \in Procs
        PROVE  /\ phase'[r] \in {"new", "accepted"} /\ answer'[r][c] = "none"
    BY <1>3, <1>8
  <2>2. ASSUME NEW q \in Runs, q # r, NEW c \in Procs
        PROVE  /\ answer'[q][c] = answer[q][c] /\ phase'[q] = phase[q] /\ home'[q] = home[q]
    BY <1>8, <2>2
  <2>3. ASSUME NEW q \in Runs, q # r, NEW c \in Procs, ~ Has(store[c], q)
        PROVE  ~ Has(store'[c], q)
    BY <1>12, <2>3 DEF Has
  <2>4. ASSUME NEW q \in Runs, NEW c \in Procs, NEW i \in 1..Len(log[c]), log[c][i] = q,
               i + MaxRuns <= Len(log[c])
        PROVE  \E j \in 1..Len(log'[c]) : log'[c][j] = q /\ j + MaxRuns <= Len(log'[c])
    <3>1. CASE c = p
      <4>1. i \in 1..Len(l) /\ l[i] = q /\ i + MaxRuns <= Len(l)
        BY <2>4, <3>1
      <4>2. i \in 1..Len(m) /\ m[i] = q /\ i + MaxRuns <= Len(m)
        BY <1>6, <1>9, <1>10, <4>1
      <4> QED
        BY <1>8, <3>1, <4>2
    <3>2. CASE c # p
      BY <1>8, <2>4, <3>2
    <3> QED
      BY <3>1, <3>2
  <2>5. ASSUME NEW q \in Runs, q # r, NEW c \in Procs
        PROVE  /\ phase'[q] \in {"new", "accepted"} => answer'[q][c] = "none"
               /\ answer'[q][c] \notin {"none", Unknown} => home'[q] = c
               /\ answer'[q][c] \in {"completed", "failed"} =>
                     phase'[q] \in {answer'[q][c], "gone"}
               /\ answer'[q][c] = Unknown =>
                     /\ ~ Has(store'[c], q)
                     /\ \/ home'[q] # c
                        \/ q \in lost'
                        \/ \E i \in 1..Len(log'[c]) :
                              log'[c][i] = q /\ i + MaxRuns <= Len(log'[c])
    BY <1>0, <1>8, <2>2, <2>3, <2>4, <2>5 DEF AnswersKept
  <2> QED
    BY <2>1, <2>5 DEF AnswersKept, Unknown
<1> QED
  BY <1>11, <1>13

\* The end of a run: the client was told nothing final of it before.
LEMMA RecordAnswers ==
    ASSUME PollInv, NEW r \in Runs, NEW rec \in Records, rec.run = r,
           phase[r] = "running", rec.status \in {"completed", "failed"},
           store' = [store EXCEPT ![home[r]] = Updated(@, rec)],
           phase' = [phase EXCEPT ![r] = rec.status],
           UNCHANGED <<home, ingested, answer, log, lost, restarts>>
    PROVE  Logged' /\ AnswersKept'
<1> DEFINE p == home[r]
           s == store[p]
           n == Updated(s, rec)
<1>0. StoreInv /\ Logged /\ AnswersKept
  BY DEF PollInv
<1>1. p \in Procs
  BY <1>0 DEF StoreInv, Homes
<1>2. store' = [store EXCEPT ![p] = n]
  OBVIOUS
<1> HIDE DEF p
<1>3. s \in Seq(Records) /\ log[p] \in Seq(Runs) /\ Tracks(s, log[p]) /\ Distinct(log[p])
  BY <1>0, <1>1 DEF StoreInv, TypeOK, StoreTracks, LogDistinct
<1>4. /\ Len(n) = Len(s)
      /\ \A i \in 1..Len(s) : n[i] = IF s[i].run = rec.run THEN rec ELSE s[i]
  <2> DEFINE l == log[p]
  <2>1. s \in Seq(Records) /\ l \in Seq(Runs) /\ Tracks(s, l) /\ Distinct(l)
    BY <1>3
  <2> HIDE DEF s, l
  <2>2. /\ Len(Updated(s, rec)) = Len(s)
        /\ \A i \in 1..Len(s) :
              Updated(s, rec)[i] = IF s[i].run = rec.run THEN rec ELSE s[i]
    BY <2>1, UpdatedElements
  <2> QED
    BY <2>2
<1> HIDE DEF n
<1>5. /\ store'[p] = n /\ \A q \in Procs : q # p => store'[q] = store[q]
      /\ phase'[r] = rec.status /\ \A q \in Runs : q # r => phase'[q] = phase[q]
  BY <1>0, <1>1, <1>2 DEF StoreInv, TypeOK
<1>6. \A c \in Procs : /\ Len(store'[c]) = Len(store[c])
                       /\ \A i \in 1..Len(store[c]) :
                             /\ store'[c][i].run = store[c][i].run
                             /\ store[c][i].run # r => store'[c][i] = store[c][i]
  BY <1>4, <1>5
<1>7. phase[r] # "new" /\ \A c \in Procs : answer[r][c] \notin {"completed", "failed"}
  BY <1>0 DEF AnswersKept
<1>8. Logged'
  BY <1>0, <1>5, <1>7 DEF Logged
<1>9. \A q \in Runs : \A c \in Procs : ~ Has(store[c], q) => ~ Has(store'[c], q)
  BY <1>6 DEF Has
<1>10. AnswersKept'
  <2>1. ASSUME NEW q \in Runs, NEW c \in Procs, answer[q][c] \in {"completed", "failed"}
        PROVE  phase'[q] \in {answer[q][c], "gone"}
    BY <1>0, <1>5, <1>7, <2>1 DEF AnswersKept
  <2>2. \A q \in Runs, c \in Procs : phase'[q] \in {"new", "accepted"} => answer[q][c] = "none"
    BY <1>0, <1>5 DEF AnswersKept
  <2> QED
    BY <1>0, <1>9, <2>1, <2>2 DEF AnswersKept
<1> QED
  BY <1>8, <1>10

\* A poll: the process answers from its own store.
LEMMA PollAnswers ==
    ASSUME PollInv, NEW r \in Runs, NEW p \in Procs, Poll(r, p)
    PROVE  Logged' /\ AnswersKept'
<1>0. StoreInv /\ Logged /\ AnswersKept
  BY DEF PollInv
<1> DEFINE a == LookUp(store[p], r)
<1>1. /\ answer' = [answer EXCEPT ![r][p] = a] /\ phase[r] \notin {"new", "accepted"}
      /\ UNCHANGED <<store, phase, home, ingested, log, lost, restarts>>
  BY DEF Poll
<1>2. \/ ~ Has(store[p], r) /\ a = Unknown
      \/ Has(store[p], r) /\ \E i \in 1..Len(store[p]) :
                                store[p][i].run = r /\ a = store[p][i].status
  BY LookUpValue
<1> HIDE DEF a
<1>3. /\ answer'[r][p] = a
      /\ \A q \in Runs, c \in Procs : q # r \/ c # p => answer'[q][c] = answer[q][c]
  BY <1>0, <1>1 DEF StoreInv, TypeOK
<1>4. a # Unknown => home[r] = p
  BY <1>0, <1>2, RecordsKnown
<1>5. a \in {"completed", "failed"} => phase[r] = a
  BY <1>0, <1>2 DEF StoreInv, RecordsTruthful, StatusOf, Unknown
<1>6. ASSUME a = Unknown, home[r] = p, r \notin lost
      PROVE  \E i \in 1..Len(log[p]) : log[p][i] = r /\ i + MaxRuns <= Len(log[p])
  <2>1. ~ Has(store[p], r)
    BY <1>0, <1>2, <1>6, RecordsKnown DEF Unknown, Records
  <2>2. PICK i \in 1..Len(log[p]) : log[p][i] = r
    BY <1>0, <1>1, <1>6 DEF Logged, StoreInv, TypeOK
  <2> QED
    BY <1>0, <2>1, <2>2, Gone
<1>7. a = Unknown => ~ Has(store[p], r)
  BY <1>0, <1>2, RecordsKnown DEF Unknown, Records
<1>8. Logged'
  BY <1>0, <1>1 DEF Logged
<1>9. AnswersKept'
  <2>1. ASSUME NEW q \in Runs, NEW c \in Procs, q # r \/ c # p
        PROVE  answer'[q][c] = answer[q][c]
    BY <1>3, <2>1
  <2> QED
    BY <1>0, <1>1, <1>3, <1>4, <1>5, <1>6, <1>7, <2>1 DEF AnswersKept
<1> QED
  BY <1>8, <1>9

\* A restart loses the runs of its process, whatever their clients were told.
LEMMA RestartAnswers ==
    ASSUME PollInv, NEW p \in Procs, Restart(p)
    PROVE  Logged' /\ AnswersKept'
<1>0. StoreInv /\ Logged /\ AnswersKept
  BY DEF PollInv
<1>1. /\ store'[p] = <<>> /\ log'[p] = <<>>
      /\ \A q \in Procs : q # p => store'[q] = store[q] /\ log'[q] = log[q]
      /\ \A r \in Runs : phase'[r] = IF home[r] = p THEN "gone" ELSE phase[r]
      /\ lost' = lost \cup {r \in Runs : home[r] = p}
      /\ UNCHANGED <<home, ingested, answer>>
  BY <1>0 DEF Restart, StoreInv, TypeOK
<1>2. Len(<<>>) = 0 /\ \A q : q \notin 1..0
  OBVIOUS
<1>3. \A r \in Runs : phase[r] = "new" => phase'[r] = "new"
  BY <1>0, <1>1, NoProcOutside DEF StoreInv, Homes
<1>4. \A q \in Procs, r \in Runs : ~ Has(store[q], r) => ~ Has(store'[q], r)
  BY <1>1, <1>2 DEF Has
<1>5. \A r \in Runs : phase[r] # "new" /\ r \notin lost' =>
         home[r] \in Procs /\ home[r] # p /\ log'[home[r]] = log[home[r]]
  BY <1>0, <1>1 DEF StoreInv, Homes
<1>6. Logged'
  <2>1. ASSUME NEW r \in Runs, phase'[r] # "new", r \notin lost'
        PROVE  \E i \in 1..Len(log'[home[r]]) : log'[home[r]][i] = r
    BY <1>0, <1>1, <1>3, <1>5, <2>1 DEF Logged
  <2> QED
    BY <1>1, <2>1 DEF Logged
<1>7. AnswersKept'
  <2>1. ASSUME NEW r \in Runs, NEW c \in Procs
        PROVE  /\ phase'[r] \in {"new", "accepted"} => answer[r][c] = "none"
               /\ answer[r][c] \in {"completed", "failed"} => phase'[r] \in {answer[r][c], "gone"}
    BY <1>0, <1>1 DEF AnswersKept
  <2>2. ASSUME NEW r \in Runs, NEW c \in Procs, answer[r][c] = Unknown
        PROVE  /\ ~ Has(store'[c], r)
               /\ \/ home[r] # c
                  \/ r \in lost'
                  \/ \E i \in 1..Len(log'[c]) :
                        log'[c][i] = r /\ i + MaxRuns <= Len(log'[c])
    <3>1. CASE home[r] = p \/ home[r] # c
      BY <1>0, <1>1, <1>4, <2>2, <3>1 DEF AnswersKept
    <3>2. CASE home[r] = c /\ c # p
      BY <1>0, <1>1, <1>4, <2>2, <3>2 DEF AnswersKept
    <3> QED
      BY <3>1, <3>2
  <2>3. \A r \in Runs, c \in Procs : answer[r][c] \notin {"none", Unknown} => home[r] = c
    BY <1>0 DEF AnswersKept
  <2> QED
    BY <1>1, <2>1, <2>2, <2>3 DEF AnswersKept
<1> QED
  BY <1>6, <1>7

\* Every step keeps what the clients were told.
LEMMA NextAnswers == PollInv /\ [Next]_vars => PollInv'
<1> SUFFICES ASSUME PollInv, [Next]_vars PROVE PollInv'
  OBVIOUS
<1>0. StoreInv /\ StoreInv' /\ TypeOK
  BY NextStore DEF PollInv, StoreInv
<1>1. ASSUME NEW r \in Runs, Respond(r) PROVE Logged' /\ AnswersKept'
  BY <1>0, <1>1, AnswersStay DEF Respond, TypeOK
<1>2. ASSUME NEW r \in Runs, ItemReturns(r) PROVE Logged' /\ AnswersKept'
  BY <1>0, <1>2, AnswersStay DEF ItemReturns, TypeOK
<1>4. ASSUME NEW r \in Runs, RecordCompleted(r) PROVE Logged' /\ AnswersKept'
  <2> DEFINE rec == [Fresh(r) EXCEPT !.status = "completed", !.processed = ingested[r]]
  <2>1. rec \in Records /\ rec.run = r /\ rec.status = "completed"
    BY <1>0 DEF TypeOK, Fresh, Records
  <2>2. /\ phase[r] = "running" /\ phase' = [phase EXCEPT ![r] = "completed"]
        /\ store' = [store EXCEPT ![home[r]] = Updated(@, rec)]
        /\ UNCHANGED <<home, ingested, answer, log, lost, restarts>>
    BY <1>4 DEF RecordCompleted
  <2> HIDE DEF rec
  <2> QED
    BY <2>1, <2>2, RecordAnswers
<1>5. ASSUME NEW r \in Runs, RecordFailed(r) PROVE Logged' /\ AnswersKept'
  <2> DEFINE rec == [Fresh(r) EXCEPT !.status = "failed"]
  <2>1. rec \in Records /\ rec.run = r /\ rec.status = "failed"
    BY BoundsNat DEF Fresh, Records
  <2>2. /\ phase[r] = "running" /\ phase' = [phase EXCEPT ![r] = "failed"]
        /\ store' = [store EXCEPT ![home[r]] = Updated(@, rec)]
        /\ UNCHANGED <<home, ingested, answer, log, lost, restarts>>
    BY <1>5 DEF RecordFailed
  <2> HIDE DEF rec
  <2> QED
    BY <2>1, <2>2, RecordAnswers
<1>6. ASSUME UNCHANGED vars PROVE Logged' /\ AnswersKept'
  BY <1>6, AnswersStay DEF vars
<1>7. Logged' /\ AnswersKept'
  BY <1>1, <1>2, <1>4, <1>5, <1>6, TriggerAnswers, PollAnswers, RestartAnswers
  DEF Next, RunStep
<1> QED
  BY <1>0, <1>7 DEF PollInv

-----------------------------------------------------------------------------
(* From the invariants to the properties the run checks. *)

\* The store and its listing are the newest runs, in order.
LEMMA TracksNewest == StoreInv => StoreIsNewest
<1> SUFFICES ASSUME StoreInv, NEW p \in Procs
             PROVE  /\ Ids(store[p]) = Last_n(log[p], MaxRuns)
                    /\ \A limit \in 1..MaxRuns :
                          ListRecent(store[p], limit)
                          = Reverse(Last_n(Last_n(log[p], MaxRuns), limit))
  BY DEF StoreIsNewest
<1> DEFINE L == Ids(store[p])
<1>1. L = Last_n(log[p], MaxRuns) /\ L \in Seq(Runs)
  BY IdsAreLast DEF StoreInv, TypeOK, StoreTracks
<1>2. Len(L) = Len(store[p]) /\ Len(L) \in Nat
  BY <1>1, LenProperties DEF Ids, StoreInv, TypeOK
<1> HIDE DEF L
<1>3. ASSUME NEW limit \in 1..MaxRuns
      PROVE  ListRecent(store[p], limit) = Reverse(Last_n(L, limit))
  <2> DEFINE w == IF limit < Len(L) THEN limit ELSE Len(L)
             k == IF Len(L) > limit THEN Len(L) - limit ELSE 0
             A == SubSeq(Reverse(L), 1, w)
             B == Last_n(L, limit)
  <2>1. /\ limit \in Nat /\ w \in Nat /\ k \in Nat /\ w = Len(L) - k /\ k <= Len(L)
    BY <1>2, MaxRunsPos
  <2>2. /\ Reverse(L) \in Seq(Runs) /\ Len(Reverse(L)) = Len(L)
        /\ \A i \in 1..Len(L) : Reverse(L)[i] = L[(Len(L) - i) + 1]
    BY <1>1, ReverseElements
  <2> HIDE DEF w
  <2>3. /\ B \in Seq(Runs) /\ Len(B) = Len(L) - k
        /\ \A i \in 1..Len(L) - k : B[i] = L[i + k]
    <3>1. k = IF Len(L) > limit THEN Len(L) - limit ELSE 0
      OBVIOUS
    <3>2. L \in Seq(Runs) /\ limit \in Nat /\ k \in Nat
      BY <1>1, <2>1
    <3> HIDE DEF k
    <3>3. /\ Last_n(L, limit) \in Seq(Runs)
          /\ Len(Last_n(L, limit)) = Len(L) - k
          /\ \A i \in 1..Len(L) - k : Last_n(L, limit)[i] = L[i + k]
      BY ONLY <3>1, <3>2, LastElements
    <3> QED
      BY <3>3
  <2> HIDE DEF k, B
  <2>4. /\ A \in Seq(Runs) /\ Len(A) = w /\ \A i \in 1..w : A[i] = Reverse(L)[i]
    <3>1. \A i \in 1..w : Reverse(L)[i] \in Runs
      BY <1>2, <2>1, <2>2, ElementOfSeq
    <3>2. /\ A \in Seq(Runs) /\ Len(A) = (IF 1 <= w THEN w - 1 + 1 ELSE 0)
          /\ \A i \in 1..w - 1 + 1 : A[i] = Reverse(L)[1 + i - 1]
      BY <2>1, <3>1, SubSeqProperties
    <3>3. w - 1 + 1 = w /\ \A i \in 1..w : 1 + i - 1 = i
      BY <2>1
    <3> QED
      BY <2>1, <3>2, <3>3
  <2>5. /\ Reverse(B) \in Seq(Runs) /\ Len(Reverse(B)) = w
        /\ \A i \in 1..w : Reverse(B)[i] = B[(w - i) + 1]
    <3>1. Len(B) = w
      BY <2>1, <2>3
    <3> QED
      BY <2>3, <3>1, ReverseElements
  <2>6. ASSUME NEW i \in 1..w PROVE A[i] = Reverse(B)[i]
    <3>1. /\ i \in 1..Len(L) /\ (w - i) + 1 \in 1..Len(L) - k
          /\ ((w - i) + 1) + k = (Len(L) - i) + 1
      BY <1>2, <2>1
    <3> QED
      BY <2>2, <2>3, <2>4, <2>5, <3>1
  <2> HIDE DEF A
  <2>7. A = Reverse(B)
    BY <2>4, <2>5, <2>6, SeqEqual
  <2>8. ListRecent(store[p], limit) = A
    BY <1>2 DEF ListRecent, A, w, L
  <2> QED
    BY <2>7, <2>8 DEF B
<1> QED
  BY <1>1, <1>3 DEF L

\* A run MaxRuns or more places back in its log has that many newer runs.
LEMMA FarBack ==
    ASSUME NEW l \in Seq(Runs), Distinct(l), NEW i \in 1..Len(l), i + MaxRuns <= Len(l)
    PROVE  LET N == {q \in Runs : \E a, b \in 1..Len(l) : a < b /\ l[a] = l[i] /\ l[b] = q}
           IN  IsFiniteSet(N) /\ Cardinality(N) >= MaxRuns
<1> DEFINE N == {q \in Runs : \E a, b \in 1..Len(l) : a < b /\ l[a] = l[i] /\ l[b] = q}
           T == {l[j] : j \in 1..Len(l)}
           g == [j \in 1..Len(l) |-> l[j]]
           f == [j \in 1..MaxRuns |-> l[i + j]]
<1>1. Len(l) \in Nat /\ MaxRuns \in Nat
  BY LenProperties, MaxRunsPos
<1>2. IsFiniteSet(N)
  <2>1. IsFiniteSet(1..Len(l))
    BY <1>1, FS_Interval
  <2>2. g \in Surjection(1..Len(l), T)
    BY DEF Surjection
  <2>3. IsFiniteSet(T)
    BY <2>1, <2>2, FS_Surjection
  <2>4. N \in SUBSET T
    OBVIOUS
  <2> QED
    BY <2>3, <2>4, FS_Subset
<1>3. \A j \in 1..MaxRuns : i + j \in 1..Len(l) /\ i < i + j
  BY <1>1
<1>4. \A j \in 1..MaxRuns : l[i + j] \in N
  BY <1>3, ElementOfSeq
<1>5. \A j, k \in 1..MaxRuns : l[i + j] = l[i + k] => j = k
  <2>1. \A j, k \in 1..MaxRuns : l[i + j] = l[i + k] => i + j = i + k
    BY <1>3 DEF Distinct
  <2> QED
    BY <1>1, <2>1
<1>6. f \in Injection(1..MaxRuns, N)
  <2> HIDE DEF N
  <2>1. f \in [1..MaxRuns -> N]
    BY <1>4
  <2>2. \A j, k \in 1..MaxRuns : f[j] = f[k] => j = k
    BY <1>5
  <2> HIDE DEF f
  <2> QED
    BY <2>1, <2>2 DEF Injection, IsInjective
<1>7. Cardinality(1..MaxRuns) <= Cardinality(N)
  BY <1>2, <1>6, FS_Injection
<1>8. Cardinality(1..MaxRuns) = MaxRuns
  BY <1>1, MaxRunsPos, FS_Interval
<1>9. Cardinality(N) \in Nat
  BY <1>2, FS_CardinalityType
<1> QED
  BY <1>1, <1>2, <1>7, <1>8, <1>9

\* Whoever was told 404 asked another process, or for a run that was lost or
\* evicted.
LEMMA GoneIsOld == PollInv => AnswersMean
<1> SUFFICES ASSUME PollInv, NEW r \in Runs, NEW p \in Procs, answer[r][p] = Unknown,
                    home[r] = p, r \notin lost
             PROVE  Cardinality(Newer(r)) >= MaxRuns
  BY DEF AnswersMean, PollInv, AnswersKept
<1>1. home[r] \in Procs
  OBVIOUS
<1> DEFINE l == log[home[r]]
<1>2. l \in Seq(Runs) /\ Distinct(l)
  BY <1>1 DEF PollInv, StoreInv, TypeOK, LogDistinct
<1>3. PICK i \in 1..Len(l) : l[i] = r /\ i + MaxRuns <= Len(l)
  BY DEF PollInv, AnswersKept
<1> HIDE DEF l
<1> DEFINE N == {q \in Runs : \E a, b \in 1..Len(l) : a < b /\ l[a] = l[i] /\ l[b] = q}
<1>4. Cardinality(N) >= MaxRuns
  BY <1>2, <1>3, FarBack
<1>5. Newer(r) = N
  BY <1>3 DEF Newer, l
<1> QED
  BY <1>4, <1>5

\* The invariants hold initially.
LEMMA InitPolls == Init => PollInv
<1> SUFFICES ASSUME Init PROVE PollInv
  OBVIOUS
<1>1. Len(<<>>) = 0 /\ \A q : q \notin 1..0
  OBVIOUS
<1>2. TypeOK
  BY <1>1, MaxRunsPos, BoundsNat DEF Init, TypeOK, Phases, Answers
<1>3. Tracks(<<>>, <<>>)
  BY <1>1, MaxRunsPos DEF Tracks, Evicted
<1>4. Homes /\ LogTruthful /\ LogDistinct /\ StoreTracks /\ RecordsTruthful
  BY <1>1, <1>3 DEF Init, Homes, LogTruthful, LogDistinct, Distinct, StoreTracks,
                    RecordsTruthful
<1>5. Logged /\ AnswersKept
  BY DEF Init, Logged, AnswersKept, Unknown
<1> QED
  BY <1>2, <1>4, <1>5 DEF PollInv, StoreInv

-----------------------------------------------------------------------------
\* However triggers, completions, evictions and restarts interleave, in however
\* many processes, a store is the newest runs of its process in order, and each
\* record has the status its run has come to (run_status.py, _RunStatusStore).
THEOREM SpecStoreIsNewest == Spec => [](TypeOK /\ StoreIsNewest /\ RecordsTruthful)
<1>1. Init => StoreInv
  BY InitPolls DEF PollInv
<1>2. StoreInv => TypeOK /\ StoreIsNewest /\ RecordsTruthful
  BY TracksNewest DEF StoreInv
<1> QED
  BY <1>1, <1>2, NextStore, PTL DEF Spec

\* Whichever process serves a poll, its 404 means that the run was triggered in
\* another process, evicted, or lost on restart (routes.py, get_connector_run).
THEOREM SpecStoreTruthful == Spec => []StoreTruthful
<1>1. PollInv => StoreTruthful
  BY TracksNewest, GoneIsOld DEF PollInv, StoreInv, StoreTruthful
<1> QED
  BY <1>1, NextAnswers, InitPolls, PTL DEF Spec

\* What one process tells of a run never leaves a terminal status but for 404,
\* and never comes back from 404 (get_connector_run; record_completed).
THEOREM SpecPollsMoveForward == Spec => PollsMoveForward
<1> DEFINE Forward == \A r \in Runs, p \in Procs :
              /\ answer[r][p] \in {"completed", "failed"} =>
                    answer'[r][p] \in {answer[r][p], Unknown}
              /\ answer[r][p] = Unknown => answer'[r][p] = Unknown
<1>1. PollInv /\ [Next]_vars => [Forward]_vars
  <2> SUFFICES ASSUME PollInv, Next PROVE Forward
    BY DEF vars
  <2>1. ASSUME NEW r \in Runs, NEW p \in Procs, Poll(r, p) PROVE Forward
    <3>1. answer' = [answer EXCEPT ![r][p] = LookUp(store[p], r)]
      BY <2>1 DEF Poll
    <3>2. /\ answer'[r][p] = LookUp(store[p], r)
          /\ \A q \in Runs, c \in Procs : q # r \/ c # p => answer'[q][c] = answer[q][c]
      BY <3>1 DEF PollInv, StoreInv, TypeOK
    <3>3. \/ ~ Has(store[p], r) /\ LookUp(store[p], r) = Unknown
          \/ Has(store[p], r) /\ \E i \in 1..Len(store[p]) :
                 store[p][i].run = r /\ LookUp(store[p], r) = store[p][i].status
      BY LookUpValue
    <3>4. ASSUME answer[r][p] \in {"completed", "failed"}, Has(store[p], r)
          PROVE  LookUp(store[p], r) = answer[r][p]
      <4>1. PICK i \in 1..Len(store[p]) :
               store[p][i].run = r /\ LookUp(store[p], r) = store[p][i].status
        BY <3>3, <3>4
      <4>2. /\ phase[r] \in {answer[r][p], "gone"}
            /\ store[p][i].status = StatusOf(phase[r])
            /\ store[p][i].status \in {"started", "completed", "failed"}
        BY <3>4, <4>1, RecordsKnown DEF PollInv, StoreInv, AnswersKept, RecordsTruthful, Records
      <4> QED
        BY <3>4, <4>1, <4>2 DEF StatusOf
    <3>5. answer[r][p] = Unknown => LookUp(store[p], r) = Unknown
      BY <3>3 DEF PollInv, AnswersKept
    <3> QED
      BY <3>2, <3>3, <3>4, <3>5
  <2>2. ASSUME answer' = answer PROVE Forward
    BY <2>2
  <2> QED
    BY <2>1, <2>2 DEF Next, RunStep, Respond, ItemReturns, RecordCompleted,
                      RecordFailed, Trigger, Restart
<1> QED
  BY <1>1, NextAnswers, InitPolls, PTL DEF Spec, PollsMoveForward
=============================================================================
