---------------------------- MODULE QnaAnswerProofs ----------------------------
(***************************************************************************)
(* Proofs about answers.  Of the service that gives them, for any          *)
(* requests, flags, sizes and clock: what the verifier leaves of an        *)
(* answer, where failures stay, and what the answer cache serves and       *)
(* keeps.  Of the harness that evaluates them, for any jobs, metrics,      *)
(* rows, command lines and tolerance: what the gate lets pass, and what    *)
(* the history of its runs can be relied on for.                           *)
(***************************************************************************)
EXTENDS QnaAnswer, Evaluation, WellFoundedInduction, FiniteSetTheorems, SequenceTheorems, TLAPS

Fields == {"pc", "route", "within", "iter", "evidence", "calls", "draft", "candidate",
           "answer", "cites", "verdict", "hits", "stored", "raised"}

\* A request with a draft: it does not go back to a strategy or to the pipeline.
Late == {"verify", "refine", "regrade", "done"}

\* How far a request is, and what its record therefore holds.
Answering(s) ==
    /\ DOMAIN s = Fields
    /\ s.pc \in PCs /\ s.route \in Routes \cup {None} /\ s.within \in {"node", "try", "except"}
    /\ s.iter \in 1..(MaxIters + 1) /\ s.evidence \subseteq Chunks
    /\ \A b \in DOMAIN s.calls : s.calls[b].st \in CallStates /\ s.calls[b].attempt \in 1..MapAttempts
    /\ {s.draft, s.answer, s.cites, s.candidate} \subseteq Texts \cup {None}
    /\ s.pc \in {"classify", "reason", "search"} => s.iter <= MaxIters
    /\ s.pc = "failed" => "standard" \in s.raised
    /\ s.within = "except" => \E what \in s.raised : what # "search"
    /\ s.pc = "map" => \A b \in DOMAIN s.calls : s.calls[b].st # "failed"
    /\ s.pc \in {"reduce", "reducing"} \/ s.draft = "map_reduce" =>
         \A b \in DOMAIN s.calls : s.calls[b].st = "done"
    /\ s.pc \notin Late => s.draft = None /\ s.stored = {}
    /\ s.pc \in Late \ {"done"} => s.draft = s.answer /\ s.cites = s.answer
    /\ s.pc = "regrade" => s.candidate = "refined"
    /\ s.pc = "done" => /\ s.cites = s.answer
                        /\ s.answer # s.draft => s.answer = "refined" /\ s.verdict = "verified"

AnswerInv == DOMAIN state = DOMAIN job /\ \A r \in DOMAIN job : Answering(state[r])

-----------------------------------------------------------------------------
\* The cache.

Distinct(l) == \A i, j \in DOMAIN l : l[i].key = l[j].key => i = j

\* The cache c is a part of what was used, r, in the same order.
Ordered(c, r) ==
    /\ \A i \in DOMAIN c : \E j \in DOMAIN r : r[j].key = c[i].key /\ r[j].by = c[i].by
    /\ \A i, k \in DOMAIN c : \A j, l \in DOMAIN r :
          r[j].key = c[i].key /\ r[l].key = c[k].key /\ i < k => j < l

\* The requests whose answer, stored when st says, is still to be served at tm.
Alive(st, tm) == {q \in DOMAIN st : \E t \in st[q] : tm < t + TTL}

\* Of what was used last, the cache has the answers of the requests of set alive.
Stays(c, r, alive) ==
    \A i \in DOMAIN r : i + MaxEntries > Len(r) /\ r[i].by \in alive =>
        \E j \in DOMAIN c : c[j].key = r[i].key /\ c[j].by = r[i].by

\* The cache c, the history r, the clock, and per request its key, the times it
\* stored its answer at and its hits.
Sound(ck, c, r, tm, st, ht) ==
    /\ tm \in 0..MaxTime /\ DOMAIN st = DOMAIN ck /\ DOMAIN ht = DOMAIN ck
    /\ c \in Seq([key : {ck[q] : q \in DOMAIN ck}, expiry : Nat, by : DOMAIN ck])
    /\ r \in Seq([key : {ck[q] : q \in DOMAIN ck}, by : DOMAIN ck])
    /\ Len(c) <= MaxEntries /\ Distinct(c) /\ Distinct(r)
    /\ \A i \in DOMAIN c : /\ c[i].key = ck[c[i].by]
                           /\ \E t \in st[c[i].by] : c[i].expiry = t + TTL
    /\ \A i \in DOMAIN r : r[i].key = ck[r[i].by] /\ st[r[i].by] # {}
    /\ \A q \in DOMAIN ck : \E t \in 0..tm : st[q] \in {{}, {t}}
    /\ \A q \in DOMAIN ck : \A h \in ht[q] :
          /\ h.by \in DOMAIN ck /\ ck[h.by] = ck[q]
          /\ \E t \in st[h.by] : t <= h.when /\ h.when < t + TTL
    /\ Ordered(c, r)
    /\ Stays(c, r, Alive(st, tm))

CacheInv == Sound([q \in DOMAIN job |-> CacheKey(q)], cache, recent, now,
                  [q \in DOMAIN job |-> state[q].stored], [q \in DOMAIN job |-> state[q].hits])

-----------------------------------------------------------------------------
\* A request's record keeps its shape through every step.

\* The fields of s that n has kept.
Same(s, n, changed) == DOMAIN n = Fields /\ \A f \in Fields \ changed : n[f] = s[f]

\* What Drafted, FellBack, Delegated, Graded and WithCall write, field by field.
LEMMA DraftedFields ==
    ASSUME NEW s, DOMAIN s = Fields, NEW text, NEW evidence, NEW n, n = Drafted(s, text, evidence)
    PROVE  /\ Same(s, n, {"pc", "draft", "answer", "cites", "evidence"})
           /\ n.pc \in {"verify", "done"} /\ n.draft = text /\ n.answer = text /\ n.cites = text
           /\ n.evidence = evidence
BY DEF Drafted, Same, Fields

\* The except clause of a strategy: the fields it writes.
LEMMA FellBackFields ==
    ASSUME NEW s, DOMAIN s = Fields, NEW what, NEW n, n = FellBack(s, what)
    PROVE  /\ Same(s, n, {"pc", "within", "evidence", "raised"})
           /\ n.pc = "lookup" /\ n.within = "except" /\ n.evidence = {}
           /\ n.raised = s.raised \cup {what}
BY DEF FellBack, Same, Fields

\* The delegation to standard_route: the fields it writes.
LEMMA DelegatedFields ==
    ASSUME NEW s, DOMAIN s = Fields, NEW n, n = Delegated(s)
    PROVE  Same(s, n, {"pc", "within"}) /\ n.pc = "lookup" /\ n.within = "try"
BY DEF Delegated, Same, Fields

\* The verifier's verdict: the fields it writes.
LEMMA GradedFields ==
    ASSUME NEW s, DOMAIN s = Fields, NEW verdict, NEW n, n = Graded(s, verdict)
    PROVE  Same(s, n, {"pc", "verdict"}) /\ n.pc = "done" /\ n.verdict = verdict
BY DEF Graded, Same, Fields

\* A step of a map call: the field it writes.
LEMMA CallFields ==
    ASSUME NEW r, DOMAIN state[r] = Fields, NEW b, NEW st, NEW k, NEW n, n = WithCall(r, b, st, k)
    PROVE  /\ Same(state[r], n, {"calls"})
           /\ n.calls = [state[r].calls EXCEPT ![b] = Call(st, k)]
BY DEF WithCall, Same, Fields

\* An answer node returns.
LEMMA DraftedKeeps ==
    ASSUME NEW s, Answering(s), s.pc \notin Late, NEW text \in Texts, NEW evidence \in SUBSET Chunks,
           text = "map_reduce" => \A b \in DOMAIN s.calls : s.calls[b].st = "done",
           NEW n, Same(s, n, {"pc", "draft", "answer", "cites", "evidence"}),
           n.pc \in {"verify", "done"}, n.draft = text, n.answer = text, n.cites = text,
           n.evidence = evidence
    PROVE  Answering(n) /\ n.stored = s.stored /\ n.hits = s.hits
<1>1. /\ n.route = s.route /\ n.within = s.within /\ n.iter = s.iter /\ n.calls = s.calls
      /\ n.candidate = s.candidate /\ n.hits = s.hits /\ n.stored = s.stored /\ n.raised = s.raised
  BY DEF Same, Fields
<1> QED
  BY <1>1 DEF Answering, Late, PCs, Same

\* A step that goes back to the standard pipeline: what raised is not a search alone.
LEMMA FellBackKeeps ==
    ASSUME NEW s, Answering(s), s.pc \notin Late, NEW what, what # "search",
           NEW n, Same(s, n, {"pc", "within", "evidence", "raised"}),
           n.pc = "lookup", n.within = "except", n.evidence = {}, n.raised = s.raised \cup {what}
    PROVE  Answering(n) /\ n.stored = s.stored /\ n.hits = s.hits
<1>1. /\ n.route = s.route /\ n.iter = s.iter /\ n.calls = s.calls /\ n.draft = s.draft
      /\ n.candidate = s.candidate /\ n.hits = s.hits /\ n.stored = s.stored
      /\ n.answer = s.answer /\ n.cites = s.cites /\ n.verdict = s.verdict
  BY DEF Same, Fields
<1> QED
  BY <1>1 DEF Answering, Late, PCs, Same, None, Texts

\* A step that only moves on, and perhaps notes how the standard pipeline is called.
LEMMA MovesKeep ==
    ASSUME NEW s, Answering(s), s.pc \notin Late,
           NEW n, Same(s, n, {"pc", "within"}) \/ Same(s, n, {"pc"}) \/ Same(s, n, {"pc", "route"}),
           n.pc \in PCs \ (Late \cup {"classify", "failed", "map", "reduce", "reducing"}),
           n.pc \in {"reason", "search"} => s.iter <= MaxIters,
           n.route \in Routes \cup {None}, n.within \in {s.within, "try"}
    PROVE  Answering(n) /\ n.stored = s.stored /\ n.hits = s.hits
<1>1. /\ n.iter = s.iter /\ n.calls = s.calls /\ n.draft = s.draft
      /\ n.candidate = s.candidate /\ n.hits = s.hits /\ n.stored = s.stored
      /\ n.answer = s.answer /\ n.cites = s.cites /\ n.verdict = s.verdict
      /\ n.evidence = s.evidence /\ n.raised = s.raised /\ DOMAIN n = Fields
  BY DEF Same, Fields
<1> QED
  BY <1>1 DEF Answering, Late, PCs, None

\* The verifier's verdict.
LEMMA GradedKeeps ==
    ASSUME NEW s, Answering(s), s.pc \in Late \ {"done"}, NEW verdict,
           NEW n, Same(s, n, {"pc", "verdict"}), n.pc = "done", n.verdict = verdict
    PROVE  Answering(n) /\ n.stored = s.stored /\ n.hits = s.hits
<1>1. /\ n.iter = s.iter /\ n.calls = s.calls /\ n.draft = s.draft /\ n.route = s.route
      /\ n.candidate = s.candidate /\ n.hits = s.hits /\ n.stored = s.stored
      /\ n.answer = s.answer /\ n.cites = s.cites /\ n.within = s.within
      /\ n.evidence = s.evidence /\ n.raised = s.raised /\ DOMAIN n = Fields
  BY DEF Same, Fields
<1> QED
  BY <1>1 DEF Answering, Late, PCs

\* What a step makes of request r, its stored answers and hits left alone.
Keeps(r) ==
    \E n : /\ Becomes(r, n) /\ Answering(n)
           /\ n.stored = state[r].stored /\ n.hits = state[r].hits

\* The standard pipeline and the classifier, but for the lookup and the answer.
LEMMA PipelineKeeps ==
    ASSUME NEW r, Answering(state[r]),
           Classify(r) \/ Rephrase(r) \/ Retrieve(r) \/ StandardRaises(r)
    PROVE  Keeps(r)
<1> DEFINE s == state[r]
<1>0. Answering(s) /\ DOMAIN s = Fields /\ s.within \in {"node", "try", "except"}
  BY DEF Answering
<1>1. CASE Classify(r)
  <2>1. PICK route \in Routes :
          Becomes(r, [s EXCEPT !.route = route, !.pc = FirstStep[RouteSelector(route)]])
    BY <1>1 DEF Classify
  <2> DEFINE n == [s EXCEPT !.route = route, !.pc = FirstStep[RouteSelector(route)]]
  <2>2. FirstStep[RouteSelector(route)] \in {"lookup", "fetch", "reason"}
    BY DEF FirstStep, RouteSelector, Routes
  <2>3. Same(s, n, {"pc", "route"}) /\ n.pc \in {"lookup", "fetch", "reason"} /\ n.route = route
    BY <1>0, <2>2 DEF Same, Fields
  <2>4. n.within = s.within
    BY <2>3 DEF Same, Fields
  <2>5. s.pc = "classify" /\ s.iter <= MaxIters
    BY <1>0, <1>1 DEF Classify, Answering
  <2>6. Becomes(r, n)
    BY <2>1
  <2> HIDE DEF n
  <2>7. Answering(n) /\ n.stored = s.stored /\ n.hits = s.hits
    BY <1>0, <2>3, <2>4, <2>5, MovesKeep DEF Late, PCs
  <2> QED
    BY <2>6, <2>7 DEF Keeps
<1>2. CASE Rephrase(r) \/ Retrieve(r)
  <2>1. PICK pc \in {"retrieve", "generate"} : Becomes(r, [s EXCEPT !.pc = pc])
    BY <1>2 DEF Rephrase, Retrieve
  <2> DEFINE n == [s EXCEPT !.pc = pc]
  <2>2. Same(s, n, {"pc"}) /\ n.pc = pc
    BY <1>0 DEF Same, Fields
  <2>3. Becomes(r, n) /\ s.pc \in {"rephrase", "retrieve"}
    BY <1>2, <2>1 DEF Rephrase, Retrieve
  <2>4. n.within = s.within /\ n.route = s.route
    BY <1>0 DEF Fields
  <2> HIDE DEF n
  <2>5. Answering(n) /\ n.stored = s.stored /\ n.hits = s.hits
    BY <1>0, <2>2, <2>3, <2>4, MovesKeep DEF Late, PCs, Answering
  <2> QED
    BY <2>3, <2>5 DEF Keeps
<1>3. CASE StandardRaises(r) /\ s.within = "try"
  <2> DEFINE n == FellBack(s, "standard")
  <2>1. Becomes(r, n) /\ s.pc \in {"retrieve", "generate"}
    BY <1>3 DEF StandardRaises
  <2>2. /\ Same(s, n, {"pc", "within", "evidence", "raised"})
        /\ n.pc = "lookup" /\ n.within = "except" /\ n.evidence = {}
        /\ n.raised = s.raised \cup {"standard"}
    BY <1>0, FellBackFields
  <2> HIDE DEF n
  <2>3. Answering(n) /\ n.stored = s.stored /\ n.hits = s.hits
    BY <1>0, <2>1, <2>2, FellBackKeeps DEF Late
  <2> QED
    BY <2>1, <2>3 DEF Keeps
<1>4. CASE StandardRaises(r) /\ s.within # "try"
  <2> DEFINE n == [s EXCEPT !.pc = "failed", !.raised = @ \cup {"standard"}]
  <2>1. Becomes(r, n) /\ s.pc \in {"retrieve", "generate"}
    BY <1>4 DEF StandardRaises
  <2>2. /\ n.iter = s.iter /\ n.calls = s.calls /\ n.draft = s.draft /\ n.route = s.route
        /\ n.candidate = s.candidate /\ n.hits = s.hits /\ n.stored = s.stored
        /\ n.answer = s.answer /\ n.cites = s.cites /\ n.within = s.within
        /\ n.evidence = s.evidence /\ n.raised = s.raised \cup {"standard"} /\ DOMAIN n = Fields
        /\ n.pc = "failed"
    BY <1>0 DEF Fields
  <2> HIDE DEF n
  <2>3. Answering(n)
    BY <1>0, <2>1, <2>2 DEF Answering, Late, PCs, None
  <2> QED
    BY <2>1, <2>2, <2>3 DEF Keeps
<1> QED
  BY <1>1, <1>2, <1>3, <1>4

\* The calls of a map: each of them on its own.
LEMMA MapKeeps ==
    ASSUME NEW r, Answering(state[r]), NEW b \in DOMAIN state[r].calls,
           MapAcquires(r, b) \/ MapStarts(r, b) \/ MapReturns(r, b) \/ MapRaises(r, b)
    PROVE  Keeps(r)
<1> DEFINE s == state[r]
           k == s.calls[b].attempt
<1>0. Answering(s) /\ DOMAIN s = Fields /\ k \in 1..MapAttempts /\ MapAttempts \in Nat
  BY AgentSizesPos DEF Answering
<1>1. s.calls[b].st \in {"waiting", "ready", "running"}
  BY DEF MapAcquires, MapStarts, MapReturns, MapRaises
<1>2. ASSUME NEW st \in CallStates, NEW a \in 1..MapAttempts, st = "failed" => s.pc # "map",
             Becomes(r, WithCall(r, b, st, a))
      PROVE  Keeps(r)
  <2> DEFINE n == WithCall(r, b, st, a)
  <2>1. Same(s, n, {"calls"}) /\ n.calls = [s.calls EXCEPT ![b] = Call(st, a)] /\ Becomes(r, n)
    BY <1>0, <1>2, CallFields
  <2> HIDE DEF n
  <2>2. /\ n.iter = s.iter /\ n.pc = s.pc /\ n.draft = s.draft /\ n.route = s.route
        /\ n.candidate = s.candidate /\ n.hits = s.hits /\ n.stored = s.stored
        /\ n.answer = s.answer /\ n.cites = s.cites /\ n.within = s.within
        /\ n.evidence = s.evidence /\ n.raised = s.raised /\ n.verdict = s.verdict /\ DOMAIN n = Fields
    BY <2>1 DEF Same, Fields
  <2>3. /\ DOMAIN n.calls = DOMAIN s.calls
        /\ \A c \in DOMAIN s.calls : IF c = b THEN n.calls[c].st = st /\ n.calls[c].attempt = a
                                      ELSE n.calls[c] = s.calls[c]
    BY <2>1 DEF Call
  <2>4. ~(s.pc \in {"reduce", "reducing"} \/ s.draft = "map_reduce")
    BY <1>0, <1>1 DEF Answering
  <2>5. Answering(n)
    BY <1>0, <1>2, <2>2, <2>3, <2>4 DEF Answering
  <2> QED
    BY <2>1, <2>2, <2>5 DEF Keeps
<1>3. CASE MapAcquires(r, b)
  BY <1>0, <1>2, <1>3 DEF MapAcquires, CallStates
<1>4. CASE MapStarts(r, b) \/ MapReturns(r, b)
  BY <1>0, <1>2, <1>4 DEF MapStarts, MapReturns, CallStates
<1>5. CASE MapRaises(r, b) /\ k < MapAttempts
  <2>1. Becomes(r, WithCall(r, b, "ready", k + 1)) /\ k + 1 \in 1..MapAttempts
    BY <1>0, <1>5 DEF MapRaises
  <2> QED
    BY <1>2, <2>1 DEF CallStates
<1>6. CASE MapRaises(r, b) /\ ~(k < MapAttempts) /\ s.pc # "map"
  <2>1. Becomes(r, WithCall(r, b, "failed", k))
    BY <1>6 DEF MapRaises
  <2> QED
    BY <1>0, <1>2, <1>6, <2>1 DEF CallStates
<1>7. CASE MapRaises(r, b) /\ ~(k < MapAttempts) /\ s.pc = "map"
  <2> DEFINE m == WithCall(r, b, "failed", k)
             n == FellBack(m, "map")
  <2>1. Becomes(r, n)
    BY <1>7 DEF MapRaises
  <2>2. Same(s, m, {"calls"}) /\ m.calls = [s.calls EXCEPT ![b] = Call("failed", k)]
    BY <1>0, CallFields
  <2>3. /\ Same(m, n, {"pc", "within", "evidence", "raised"})
        /\ n.pc = "lookup" /\ n.within = "except" /\ n.evidence = {}
        /\ n.raised = m.raised \cup {"map"}
    BY <2>2, FellBackFields DEF Same
  <2> HIDE DEF m, n
  <2>4. /\ n.iter = s.iter /\ n.draft = s.draft /\ n.route = s.route /\ n.calls = m.calls
        /\ n.candidate = s.candidate /\ n.hits = s.hits /\ n.stored = s.stored
        /\ n.answer = s.answer /\ n.cites = s.cites /\ n.verdict = s.verdict /\ DOMAIN n = Fields
    BY <2>2, <2>3 DEF Same, Fields
  <2>5. \A c \in DOMAIN n.calls : n.calls[c].st \in CallStates /\ n.calls[c].attempt \in 1..MapAttempts
    BY <1>0, <2>2, <2>4 DEF Answering, Call, CallStates
  <2>6. s.draft = None /\ s.stored = {}
    BY <1>0, <1>7 DEF Answering, Late
  <2>7. Answering(n)
    BY <1>0, <2>3, <2>4, <2>5, <2>6 DEF Answering, Late, PCs, None
  <2> QED
    BY <2>1, <2>4, <2>7 DEF Keeps
<1> QED
  BY <1>3, <1>4, <1>5, <1>6, <1>7

\* The strategies, but for their calls of the standard pipeline's answer.
LEMMA StrategyKeeps ==
    ASSUME NEW r, Answering(state[r]),
           \/ FetchAll(r) \/ GatherReturns(r) \/ ReduceStarts(r) \/ ReduceReturns(r)
           \/ Reason(r) \/ Search(r) \/ Synthesise(r) \/ StrategyRaises(r)
    PROVE  Keeps(r)
<1> DEFINE s == state[r]
<1>0. Answering(s) /\ DOMAIN s = Fields /\ MapAttempts \in Nat \ {0} /\ MaxIters \in Nat \ {0}
  BY AgentSizesPos DEF Answering
<1>1. ASSUME s.pc \in {"fetch", "reason", "search"}, Becomes(r, Delegated(s)) PROVE Keeps(r)
  <2> DEFINE n == Delegated(s)
  <2>1. Same(s, n, {"pc", "within"}) /\ n.pc = "lookup" /\ n.within = "try"
    BY <1>0, DelegatedFields
  <2>2. n.route = s.route
    BY <2>1 DEF Same, Fields
  <2> HIDE DEF n
  <2>3. Answering(n) /\ n.stored = s.stored /\ n.hits = s.hits
    BY <1>0, <1>1, <2>1, <2>2, MovesKeep DEF Late, PCs, Answering
  <2> QED
    BY <1>1, <2>3 DEF Keeps, n
<1>2. ASSUME NEW pc \in {"search", "synthesise"}, s.pc = "reason", Becomes(r, [s EXCEPT !.pc = pc])
      PROVE  Keeps(r)
  <2> DEFINE n == [s EXCEPT !.pc = pc]
  <2>1. Same(s, n, {"pc"}) /\ n.pc = pc /\ n.within = s.within /\ n.route = s.route
    BY <1>0 DEF Same, Fields
  <2> HIDE DEF n
  <2>2. Answering(n) /\ n.stored = s.stored /\ n.hits = s.hits
    BY <1>0, <1>2, <2>1, MovesKeep DEF Late, PCs, Answering
  <2> QED
    BY <1>2, <2>2 DEF Keeps, n
<1>3. CASE FetchAll(r)
  <2>1. PICK k \in 0..MaxBatches :
          Becomes(r, IF k = 0 THEN Delegated(s)
                     ELSE [s EXCEPT !.pc = "map", !.calls = [b \in 1..k |-> Call("waiting", 1)]])
    BY <1>3 DEF FetchAll
  <2>2. s.pc = "fetch"
    BY <1>3 DEF FetchAll
  <2>3. CASE k = 0
    BY <1>1, <2>1, <2>2, <2>3
  <2>4. CASE k # 0
    <3> DEFINE n == [s EXCEPT !.pc = "map", !.calls = [b \in 1..k |-> Call("waiting", 1)]]
    <3>1. Becomes(r, n)
      BY <2>1, <2>4
    <3>2. /\ n.iter = s.iter /\ n.pc = "map" /\ n.draft = s.draft /\ n.route = s.route
          /\ n.candidate = s.candidate /\ n.hits = s.hits /\ n.stored = s.stored
          /\ n.answer = s.answer /\ n.cites = s.cites /\ n.within = s.within
          /\ n.evidence = s.evidence /\ n.raised = s.raised /\ n.verdict = s.verdict /\ DOMAIN n = Fields
          /\ n.calls = [b \in 1..k |-> Call("waiting", 1)]
      BY <1>0 DEF Fields
    <3> HIDE DEF n
    <3>3. \A b \in DOMAIN n.calls : n.calls[b].st = "waiting" /\ n.calls[b].attempt = 1
      BY <3>2 DEF Call
    <3>4. Answering(n)
      BY <1>0, <2>2, <3>2, <3>3 DEF Answering, Late, PCs, CallStates, None
    <3> QED
      BY <3>1, <3>2, <3>4 DEF Keeps
  <2> QED
    BY <2>3, <2>4
<1>4. ASSUME NEW pc \in {"reduce", "reducing"}, s.pc \in {"map", "reduce"}, Becomes(r, [s EXCEPT !.pc = pc]),
             \A b \in DOMAIN s.calls : s.calls[b].st = "done"
      PROVE  Keeps(r)
  <2> DEFINE n == [s EXCEPT !.pc = pc]
  <2>1. /\ n.iter = s.iter /\ n.pc = pc /\ n.draft = s.draft /\ n.route = s.route
        /\ n.candidate = s.candidate /\ n.hits = s.hits /\ n.stored = s.stored
        /\ n.answer = s.answer /\ n.cites = s.cites /\ n.within = s.within /\ n.calls = s.calls
        /\ n.evidence = s.evidence /\ n.raised = s.raised /\ n.verdict = s.verdict /\ DOMAIN n = Fields
    BY <1>0 DEF Fields
  <2> HIDE DEF n
  <2>2. Answering(n)
    BY <1>0, <1>4, <2>1 DEF Answering, Late, PCs
  <2> QED
    BY <1>4, <2>1, <2>2 DEF Keeps, n
<1>5. CASE GatherReturns(r)
  BY <1>0, <1>4, <1>5 DEF GatherReturns, Settled, Answering
<1>6. CASE ReduceStarts(r)
  BY <1>0, <1>4, <1>6 DEF ReduceStarts, Answering
<1>7. ASSUME NEW text \in Texts, NEW evidence \in SUBSET Chunks, s.pc \in {"reducing", "synthesise"},
             text = "map_reduce" => s.pc = "reducing",
             Becomes(r, Drafted(s, text, evidence))
      PROVE  Keeps(r)
  <2> DEFINE n == Drafted(s, text, evidence)
  <2>1. /\ Same(s, n, {"pc", "draft", "answer", "cites", "evidence"})
        /\ n.pc \in {"verify", "done"} /\ n.draft = text /\ n.answer = text /\ n.cites = text
        /\ n.evidence = evidence
    BY <1>0, DraftedFields
  <2> HIDE DEF n
  <2>2. text = "map_reduce" => \A b \in DOMAIN s.calls : s.calls[b].st = "done"
    BY <1>0, <1>7 DEF Answering
  <2>3. Answering(n) /\ n.stored = s.stored /\ n.hits = s.hits
    BY <1>0, <1>7, <2>1, <2>2, DraftedKeeps DEF Late
  <2> QED
    BY <1>7, <2>3 DEF Keeps, n
<1>8. CASE ReduceReturns(r)
  BY <1>7, <1>8 DEF ReduceReturns, Texts
<1>9. CASE Synthesise(r)
  BY <1>0, <1>7, <1>9 DEF Synthesise, Texts, Answering
<1>10. CASE Reason(r)
  BY <1>1, <1>2, <1>10 DEF Reason, Concluded
<1>11. CASE Search(r)
  <2>1. PICK found \in SUBSET Chunks, failed \in SUBSET {"search"} :
         LET m == [s EXCEPT !.evidence = @ \cup found, !.iter = @ + 1, !.raised = @ \cup failed]
         IN  Becomes(r, IF m.iter > MaxIters THEN Concluded(m) ELSE [m EXCEPT !.pc = "reason"])
    BY <1>11 DEF Search
  <2> DEFINE m == [s EXCEPT !.evidence = @ \cup found, !.iter = @ + 1, !.raised = @ \cup failed]
             n == IF m.iter > MaxIters THEN Concluded(m) ELSE [m EXCEPT !.pc = "reason"]
  <2>2. Becomes(r, n) /\ s.pc = "search"
    BY <1>11, <2>1 DEF Search
  <2>3. /\ DOMAIN m = Fields /\ m.iter = s.iter + 1 /\ m.pc = s.pc /\ m.draft = s.draft
        /\ m.route = s.route /\ m.candidate = s.candidate /\ m.hits = s.hits /\ m.stored = s.stored
        /\ m.answer = s.answer /\ m.cites = s.cites /\ m.within = s.within /\ m.calls = s.calls
        /\ m.evidence = s.evidence \cup found /\ m.raised = s.raised \cup failed
        /\ m.verdict = s.verdict
    BY <1>0 DEF Fields
  <2> HIDE DEF m
  <2>4. /\ n.pc \in {"lookup", "synthesise", "reason"} /\ (n.pc = "reason" => m.iter <= MaxIters)
        /\ n.within \in {m.within, "try"}
        /\ DOMAIN n = Fields /\ n.iter = m.iter /\ n.draft = m.draft
        /\ n.route = m.route /\ n.candidate = m.candidate /\ n.hits = m.hits /\ n.stored = m.stored
        /\ n.answer = m.answer /\ n.cites = m.cites /\ n.calls = m.calls
        /\ n.evidence = m.evidence /\ n.raised = m.raised /\ n.verdict = m.verdict
    <3>1. CASE ~(m.iter > MaxIters)
      BY <1>0, <2>3, <3>1 DEF Fields, Answering
    <3>2. CASE m.iter > MaxIters
      BY <2>3, <3>2 DEF Fields, Concluded, Delegated
    <3> QED
      BY <3>1, <3>2
  <2> HIDE DEF n
  <2>5. Answering(n)
    BY <1>0, <2>2, <2>3, <2>4 DEF Answering, Late, PCs, None
  <2> QED
    BY <2>2, <2>3, <2>4, <2>5 DEF Keeps
<1>12. CASE StrategyRaises(r)
  <2> DEFINE n == FellBack(s, s.pc)
  <2>1. Becomes(r, n) /\ s.pc \in {"fetch", "reducing", "reason", "synthesise"}
    BY <1>12 DEF StrategyRaises
  <2>2. /\ Same(s, n, {"pc", "within", "evidence", "raised"})
        /\ n.pc = "lookup" /\ n.within = "except" /\ n.evidence = {}
        /\ n.raised = s.raised \cup {s.pc}
    BY <1>0, FellBackFields
  <2> HIDE DEF n
  <2>3. Answering(n) /\ n.stored = s.stored /\ n.hits = s.hits
    BY <1>0, <2>1, <2>2, FellBackKeeps DEF Late
  <2> QED
    BY <2>1, <2>3 DEF Keeps
<1> QED
  BY <1>3, <1>5, <1>6, <1>8, <1>9, <1>10, <1>11, <1>12

\* The verifier.
LEMMA VerifierKeeps ==
    ASSUME NEW r, Answering(state[r]), Verify(r) \/ Refine(r) \/ Regrade(r) \/ VerifierRaises(r)
    PROVE  Keeps(r)
<1> DEFINE s == state[r]
<1>0. Answering(s) /\ DOMAIN s = Fields
  BY DEF Answering
<1>1. ASSUME NEW verdict, s.pc \in {"verify", "refine", "regrade"}, Becomes(r, Graded(s, verdict))
      PROVE  Keeps(r)
  <2> DEFINE n == Graded(s, verdict)
  <2>1. Same(s, n, {"pc", "verdict"}) /\ n.pc = "done" /\ n.verdict = verdict
    BY <1>0, GradedFields
  <2> HIDE DEF n
  <2>2. Answering(n) /\ n.stored = s.stored /\ n.hits = s.hits
    BY <1>0, <1>1, <2>1, GradedKeeps DEF Late
  <2> QED
    BY <1>1, <2>2 DEF Keeps, n
<1>2. CASE Verify(r) /\ ~Becomes(r, [s EXCEPT !.pc = "refine"])
  BY <1>1, <1>2 DEF Verify
<1>3. CASE VerifierRaises(r)
  BY <1>1, <1>3 DEF VerifierRaises
<1>4. ASSUME NEW n, Becomes(r, n), s.pc \in {"verify", "refine"}, n.pc \in {"refine", "regrade"},
             Same(s, n, {"pc", "candidate"}), n.candidate \in {s.candidate, "refined"},
             n.pc = "regrade" => n.candidate = "refined"
      PROVE  Keeps(r)
  <2>1. /\ n.iter = s.iter /\ n.draft = s.draft /\ n.route = s.route
        /\ n.hits = s.hits /\ n.stored = s.stored /\ n.verdict = s.verdict
        /\ n.answer = s.answer /\ n.cites = s.cites /\ n.within = s.within /\ n.calls = s.calls
        /\ n.evidence = s.evidence /\ n.raised = s.raised /\ DOMAIN n = Fields
    BY <1>4 DEF Same, Fields
  <2>2. Answering(n)
    BY <1>0, <1>4, <2>1 DEF Answering, Late, PCs, Texts
  <2> QED
    BY <1>4, <2>1, <2>2 DEF Keeps
<1>5. CASE Verify(r) /\ Becomes(r, [s EXCEPT !.pc = "refine"])
  <2> DEFINE n == [s EXCEPT !.pc = "refine"]
  <2>1. n.pc = "refine" /\ Same(s, n, {"pc", "candidate"}) /\ n.candidate = s.candidate
    BY <1>0 DEF Same, Fields
  <2>2. s.pc = "verify" /\ Becomes(r, n)
    BY <1>5 DEF Verify
  <2> HIDE DEF n
  <2> QED
    BY <1>4, <2>1, <2>2
<1>6. CASE Refine(r)
  <2>1. CASE Becomes(r, Graded(s, "unverified"))
    BY <1>1, <1>6, <2>1 DEF Refine
  <2>2. CASE Becomes(r, [s EXCEPT !.pc = "regrade", !.candidate = "refined"])
    <3> DEFINE n == [s EXCEPT !.pc = "regrade", !.candidate = "refined"]
    <3>1. n.pc = "regrade" /\ Same(s, n, {"pc", "candidate"}) /\ n.candidate = "refined"
      BY <1>0 DEF Same, Fields
    <3>2. s.pc = "refine" /\ Becomes(r, n)
      BY <1>6, <2>2 DEF Refine
    <3> HIDE DEF n
    <3> QED
      BY <1>4, <3>1, <3>2
  <2> QED
    BY <1>6, <2>1, <2>2 DEF Refine
<1>7. CASE Regrade(r)
  <2>1. CASE Becomes(r, Graded(s, "unverified"))
    BY <1>1, <1>7, <2>1 DEF Regrade
  <2>2. CASE Becomes(r, [Graded(s, "verified") EXCEPT !.answer = s.candidate, !.cites = s.candidate])
    <3> DEFINE m == Graded(s, "verified")
               n == [m EXCEPT !.answer = s.candidate, !.cites = s.candidate]
    <3>1. Same(s, m, {"pc", "verdict"}) /\ m.pc = "done" /\ m.verdict = "verified"
      BY <1>0, GradedFields
    <3>2. s.pc = "regrade" /\ Becomes(r, n)
      BY <1>7, <2>2 DEF Regrade
    <3> HIDE DEF m
    <3>3. /\ n.iter = s.iter /\ n.draft = s.draft /\ n.route = s.route /\ n.pc = "done"
          /\ n.hits = s.hits /\ n.stored = s.stored /\ n.verdict = "verified"
          /\ n.answer = s.candidate /\ n.cites = s.candidate /\ n.within = s.within
          /\ n.calls = s.calls /\ n.candidate = s.candidate
          /\ n.evidence = s.evidence /\ n.raised = s.raised /\ DOMAIN n = Fields
      BY <3>1 DEF Same, Fields
    <3> HIDE DEF n
    <3>4. Answering(n)
      BY <1>0, <3>2, <3>3 DEF Answering, Late, PCs, Texts
    <3> QED
      BY <3>2, <3>3, <3>4 DEF Keeps
  <2> QED
    BY <1>7, <2>1, <2>2 DEF Regrade
<1> QED
  BY <1>2, <1>3, <1>5, <1>6, <1>7

\* A step that answers request r: what it stores and what it is served are new.
Answers(r, stored, hits) ==
    \E n : Becomes(r, n) /\ Answering(n) /\ n.stored = stored /\ n.hits = hits

\* A lookup answers the request from the cache, or leaves its record in shape.
LEMMA LookupAnswers ==
    ASSUME NEW r, Answering(state[r]), Lookup(r)
    PROVE  IF "cache" \in flags /\ Live(cache, CacheKey(r), now)
           THEN Answers(r, state[r].stored,
                        {[by |-> cache[EntryOf(cache, CacheKey(r))].by, when |-> now]})
           ELSE Keeps(r)
<1> DEFINE s == state[r]
           hits == {[by |-> cache[EntryOf(cache, CacheKey(r))].by, when |-> now]}
<1>0. Answering(s) /\ DOMAIN s = Fields /\ s.pc = "lookup"
  BY DEF Answering, Lookup
<1>1. CASE "cache" \in flags /\ Live(cache, CacheKey(r), now)
  <2> DEFINE m == Drafted(s, "standard", {})
             n == [m EXCEPT !.hits = hits]
  <2>1. Becomes(r, n)
    BY <1>1 DEF Lookup
  <2>2. /\ Same(s, m, {"pc", "draft", "answer", "cites", "evidence"})
        /\ m.pc \in {"verify", "done"} /\ m.draft = "standard" /\ m.answer = "standard"
        /\ m.cites = "standard" /\ m.evidence = {}
    BY <1>0, DraftedFields
  <2> HIDE DEF m
  <2>3. Answering(m) /\ m.stored = s.stored
    BY <1>0, <2>2, DraftedKeeps DEF Late, Texts
  <2>4. /\ n.iter = m.iter /\ n.pc = m.pc /\ n.draft = m.draft /\ n.route = m.route
        /\ n.candidate = m.candidate /\ n.hits = hits /\ n.stored = m.stored
        /\ n.answer = m.answer /\ n.cites = m.cites /\ n.within = m.within /\ n.calls = m.calls
        /\ n.evidence = m.evidence /\ n.raised = m.raised /\ n.verdict = m.verdict
        /\ DOMAIN n = Fields
    BY <2>2 DEF Same, Fields
  <2> HIDE DEF n
  <2>5. Answering(n)
    BY <2>3, <2>4 DEF Answering
  <2> QED
    BY <1>1, <2>1, <2>3, <2>4, <2>5 DEF Answers
<1>2. CASE ~("cache" \in flags /\ Live(cache, CacheKey(r), now))
  <2> DEFINE n == [s EXCEPT !.pc = "rephrase"]
  <2>1. Becomes(r, n)
    BY <1>2 DEF Lookup
  <2>2. Same(s, n, {"pc"}) /\ n.pc = "rephrase" /\ n.within = s.within /\ n.route = s.route
    BY <1>0 DEF Same, Fields
  <2> HIDE DEF n
  <2>3. Answering(n) /\ n.stored = s.stored /\ n.hits = s.hits
    BY <1>0, <2>2, MovesKeep DEF Late, PCs, Answering
  <2>4. Keeps(r)
    BY <2>1, <2>3 DEF Keeps
  <2> QED
    BY <1>2, <2>4
<1> QED
  BY <1>1, <1>2

\* The answer of the standard pipeline, stored when the cache is on.
LEMMA GenerateAnswers ==
    ASSUME NEW r, Answering(state[r]), Generate(r)
    PROVE  Answers(r, IF "cache" \in flags THEN {now} ELSE state[r].stored, state[r].hits)
<1> DEFINE s == state[r]
           m == Drafted(s, "standard", {})
           n == IF "cache" \in flags THEN [m EXCEPT !.stored = {now}] ELSE m
<1>0. Answering(s) /\ DOMAIN s = Fields /\ s.pc = "generate"
  BY DEF Answering, Generate
<1>1. Becomes(r, n)
  BY DEF Generate
<1>2. /\ Same(s, m, {"pc", "draft", "answer", "cites", "evidence"})
      /\ m.pc \in {"verify", "done"} /\ m.draft = "standard" /\ m.answer = "standard"
      /\ m.cites = "standard" /\ m.evidence = {}
  BY <1>0, DraftedFields
<1> HIDE DEF m
<1>3. Answering(m) /\ m.stored = s.stored /\ m.hits = s.hits
  BY <1>0, <1>2, DraftedKeeps DEF Late, Texts
<1>4. /\ n.iter = m.iter /\ n.pc = m.pc /\ n.draft = m.draft /\ n.route = m.route
      /\ n.candidate = m.candidate /\ n.hits = m.hits
      /\ n.stored = (IF "cache" \in flags THEN {now} ELSE m.stored)
      /\ n.answer = m.answer /\ n.cites = m.cites /\ n.within = m.within /\ n.calls = m.calls
      /\ n.evidence = m.evidence /\ n.raised = m.raised /\ n.verdict = m.verdict
      /\ DOMAIN n = Fields
  BY <1>2 DEF Same, Fields
<1> HIDE DEF n
<1>5. Answering(n)
  BY <1>2, <1>3, <1>4 DEF Answering, Late
<1> QED
  BY <1>1, <1>3, <1>4, <1>5 DEF Answers

\* What a step of the process is, as the two invariants see it.
LEMMA StepShape ==
    ASSUME AnswerInv, Next
    PROVE  \/ \E r \in DOMAIN job : Keeps(r) /\ Private
           \/ \E r \in DOMAIN job : Lookup(r)
           \/ \E r \in DOMAIN job : Generate(r)
           \/ Tick
<1>1. \A r \in DOMAIN job : Answering(state[r])
  BY DEF AnswerInv
<1>2. ASSUME NEW r \in DOMAIN job, RequestStep(r), ~Lookup(r), ~Generate(r) PROVE Keeps(r) /\ Private
  <2>1. CASE Classify(r) \/ Rephrase(r) \/ Retrieve(r) \/ StandardRaises(r)
    <3>1. Private
      BY <2>1 DEF Classify, Rephrase, Retrieve, StandardRaises
    <3> QED
      BY <1>1, <2>1, <3>1, PipelineKeeps
  <2>2. CASE \/ FetchAll(r) \/ GatherReturns(r) \/ ReduceStarts(r) \/ ReduceReturns(r)
             \/ Reason(r) \/ Search(r) \/ Synthesise(r) \/ StrategyRaises(r)
    <3>1. Private
      BY <2>2 DEF FetchAll, GatherReturns, ReduceStarts, ReduceReturns, Reason, Search, Synthesise,
                  StrategyRaises
    <3> QED
      BY <1>1, <2>2, <3>1, StrategyKeeps
  <2>3. CASE Verify(r) \/ Refine(r) \/ Regrade(r) \/ VerifierRaises(r)
    <3>1. Private
      BY <2>3 DEF Verify, Refine, Regrade, VerifierRaises
    <3> QED
      BY <1>1, <2>3, <3>1, VerifierKeeps
  <2> QED
    BY <1>2, <2>1, <2>2, <2>3 DEF RequestStep
<1>3. ASSUME NEW r \in Reqs, NEW b, CallStep(r, b) PROVE r \in DOMAIN job /\ Keeps(r) /\ Private
  <2>1. /\ r \in DOMAIN job /\ b \in DOMAIN state[r].calls
        /\ MapAcquires(r, b) \/ MapStarts(r, b) \/ MapReturns(r, b) \/ MapRaises(r, b)
    BY <1>3 DEF CallStep
  <2>2. Private
    BY <2>1 DEF MapAcquires, MapStarts, MapReturns, MapRaises
  <2> QED
    BY <1>1, <2>1, <2>2, MapKeeps
<1> QED
  BY <1>2, <1>3 DEF Next

\* Every request starts in shape.
LEMMA InitAnswer == Init => AnswerInv
<1> SUFFICES ASSUME Init PROVE AnswerInv
  OBVIOUS
<1>1. DOMAIN state = DOMAIN job
  BY DEF Init
<1>2. ASSUME NEW r \in DOMAIN job PROVE Answering(state[r])
  <2>1. PICK pc \in {"classify", "lookup"} : state[r] = Fresh(pc)
    BY DEF Init
  <2>2. MaxIters \in Nat \ {0}
    BY AgentSizesPos
  <2>3. DOMAIN Fresh(pc) = Fields
    BY DEF Fresh, Fields
  <2> QED
    BY <2>1, <2>2, <2>3 DEF Fresh, Answering, PCs, Late, None
<1> QED
  BY <1>1, <1>2 DEF AnswerInv

\* Every step keeps every record in shape.
LEMMA NextAnswer == AnswerInv /\ [Next]_vars => AnswerInv'
<1> SUFFICES ASSUME AnswerInv, [Next]_vars PROVE AnswerInv'
  OBVIOUS
<1>1. DOMAIN state = DOMAIN job /\ \A r \in DOMAIN job : Answering(state[r])
  BY DEF AnswerInv
<1>2. CASE UNCHANGED <<job, state>>
  BY <1>1, <1>2 DEF AnswerInv
<1>3. ASSUME NEW r \in DOMAIN job, NEW n, Becomes(r, n), Answering(n), job' = job PROVE AnswerInv'
  <2>1. state' = [state EXCEPT ![r] = n]
    BY <1>3 DEF Becomes
  <2>2. DOMAIN state' = DOMAIN job' /\ \A q \in DOMAIN job' : Answering(state'[q])
    BY <1>1, <1>3, <2>1
  <2> QED
    BY <2>2 DEF AnswerInv
<1>4. CASE \E r \in DOMAIN job : Keeps(r) /\ Private
  BY <1>3, <1>4 DEF Keeps, Private
<1>5. CASE \E r \in DOMAIN job : Lookup(r)
  <2>1. PICK r \in DOMAIN job : Lookup(r)
    BY <1>5
  <2>2. job' = job /\ Answering(state[r])
    BY <1>1, <2>1 DEF Lookup
  <2>3. \E n : Becomes(r, n) /\ Answering(n)
    BY <2>1, <2>2, LookupAnswers DEF Keeps, Answers
  <2> QED
    BY <1>3, <2>2, <2>3
<1>6. CASE \E r \in DOMAIN job : Generate(r)
  <2>1. PICK r \in DOMAIN job : Generate(r)
    BY <1>6
  <2>2. job' = job /\ Answering(state[r])
    BY <1>1, <2>1 DEF Generate
  <2>3. \E n : Becomes(r, n) /\ Answering(n)
    BY <2>1, <2>2, GenerateAnswers DEF Answers
  <2> QED
    BY <1>3, <2>2, <2>3
<1> QED
  BY <1>2, <1>4, <1>5, <1>6, StepShape DEF vars, Tick

\* A strategy, the classifier or the verifier that fails costs a lookup or a
\* fallback, never the request; a search that raises never ends the multi-hop
\* answer; and an answer over the whole slice has an extract of every batch:
\* qna_pipeline.py and src/agents/nodes, for any number of requests and batches.
THEOREM SpecFailuresContained == Spec => []FailuresContained
<1>1. AnswerInv => FailuresContained
  BY DEF AnswerInv, Answering, FailuresContained, FailsOnlyWithStandard, SearchFailureTolerated,
         ReducesWholeSlice
<1> QED
  BY <1>1, InitAnswer, NextAnswer, PTL DEF Spec

\* The verifier leaves the draft, or puts a refined answer in its place that
\* cleared the bar, with the citations of the text it returns.
THEOREM SpecVerifierKeepsAnswer == Spec => []VerifierKeepsAnswer
<1>1. AnswerInv => VerifierKeepsAnswer
  BY DEF AnswerInv, Answering, VerifierKeepsAnswer
<1> QED
  BY <1>1, InitAnswer, NextAnswer, PTL DEF Spec

-----------------------------------------------------------------------------
\* What is left of a list without a key: where its entries were.

From(l, key) ==
    [i \in 1..Len(Others(l, key)) |-> IF Has(l, key) /\ i >= EntryOf(l, key) THEN i + 1 ELSE i]

\* Each entry of o is that of l which f says, and no other entry of l but those of
\* key is missing.
Embeds(f, o, l, key) ==
    /\ f \in [1..Len(o) -> 1..Len(l)]
    /\ \A i \in 1..Len(o) : o[i] = l[f[i]] /\ o[i].key # key /\ f[i] \in {i, i + 1}
    /\ \A i, k \in 1..Len(o) : i < k => f[i] < f[k]
    /\ \A j \in 1..Len(l) : l[j].key # key => \E i \in 1..Len(o) : f[i] = j
    /\ ~Has(l, key) => \A i \in 1..Len(o) : f[i] = i

\* The entry of a key is where it is said to be.
LEMMA EntryFound ==
    ASSUME NEW l, NEW key, Has(l, key)
    PROVE  EntryOf(l, key) \in DOMAIN l /\ l[EntryOf(l, key)].key = key
BY DEF Has, EntryOf

\* The list without entry e.
LEMMA RemoveAtShape ==
    ASSUME NEW S, NEW l \in Seq(S), NEW e \in 1..Len(l)
    PROVE  /\ RemoveAt(l, e) \in Seq(S) /\ Len(RemoveAt(l, e)) = Len(l) - 1
           /\ \A i \in 1..(Len(l) - 1) : RemoveAt(l, e)[i] = IF i < e THEN l[i] ELSE l[i + 1]
<1> DEFINE n == Len(l)
           front == SubSeq(l, 1, e - 1)
           back == SubSeq(l, e + 1, n)
<1>0. n \in Nat /\ e \in 1..n /\ \A i \in 1..n : l[i] \in S
  BY LenProperties, ElementOfSeq
<1>1. front \in Seq(S) /\ Len(front) = e - 1 /\ \A i \in 1..(e - 1) : front[i] = l[i]
  <2>1. \A i \in 1..(e - 1) : l[i] \in S
    BY <1>0
  <2>2. \A h \in Int : h = e - 1 => front \in Seq(S) /\ Len(front) = e - 1 /\ \A i \in 1..(e - 1) : front[i] = l[i]
    <3> SUFFICES ASSUME NEW h \in Int, h = e - 1
                 PROVE  LET f == SubSeq(l, 1, h) IN
                        f \in Seq(S) /\ Len(f) = h /\ \A i \in 1..h : f[i] = l[i]
      OBVIOUS
    <3>1. \A i \in 1..h : l[i] \in S
      BY <2>1
    <3>2. /\ SubSeq(l, 1, h) \in Seq(S)
          /\ Len(SubSeq(l, 1, h)) = IF 1 <= h THEN h - 1 + 1 ELSE 0
          /\ \A i \in 1..(h - 1 + 1) : SubSeq(l, 1, h)[i] = l[1 + i - 1]
      BY <3>1, SubSeqProperties
    <3>3. h >= 0 /\ h - 1 + 1 = h /\ \A i \in 1..h : 1 + i - 1 = i
      BY <1>0
    <3> QED
      BY <3>2, <3>3
  <2> QED
    BY <1>0, <2>2
<1>2. back \in Seq(S) /\ Len(back) = n - e /\ \A i \in 1..(n - e) : back[i] = l[e + i]
  <2> SUFFICES ASSUME NEW h \in Int, h = e + 1, NEW m \in Int, m = n
               PROVE  LET f == SubSeq(l, h, m) IN
                      f \in Seq(S) /\ Len(f) = n - e /\ \A i \in 1..(n - e) : f[i] = l[e + i]
    BY <1>0
  <2>1. \A i \in h..m : l[i] \in S
    BY <1>0
  <2>2. /\ SubSeq(l, h, m) \in Seq(S)
        /\ Len(SubSeq(l, h, m)) = IF h <= m THEN m - h + 1 ELSE 0
        /\ \A i \in 1..(m - h + 1) : SubSeq(l, h, m)[i] = l[h + i - 1]
    BY <2>1, SubSeqProperties
  <2>3. m - h + 1 = n - e /\ \A i \in 1..(n - e) : h + i - 1 = e + i
    BY <1>0
  <2>4. (IF h <= m THEN m - h + 1 ELSE 0) = n - e
    BY <1>0
  <2> QED
    BY <2>2, <2>3, <2>4
<1> HIDE DEF front, back
<1>3. /\ front \o back \in Seq(S) /\ Len(front \o back) = Len(front) + Len(back)
      /\ \A i \in 1..(Len(front) + Len(back)) :
            (front \o back)[i] = IF i <= Len(front) THEN front[i] ELSE back[i - Len(front)]
  BY <1>1, <1>2, ConcatProperties
<1>4. RemoveAt(l, e) = front \o back
  BY DEF RemoveAt, front, back
<1>5. Len(front) + Len(back) = n - 1
  BY <1>0, <1>1, <1>2
<1>6. ASSUME NEW i \in 1..(n - 1) PROVE (front \o back)[i] = IF i < e THEN l[i] ELSE l[i + 1]
  <2>1. (front \o back)[i] = IF i <= Len(front) THEN front[i] ELSE back[i - Len(front)]
    BY <1>3, <1>5
  <2>2. CASE i < e
    BY <1>0, <1>1, <2>1, <2>2
  <2>3. CASE ~(i < e)
    <3>1. i - (e - 1) \in 1..(n - e) /\ e + (i - (e - 1)) = i + 1 /\ ~(i <= e - 1)
      BY <1>0, <2>3
    <3>2. back[i - (e - 1)] = l[e + (i - (e - 1))]
      BY <1>2, <3>1
    <3> QED
      BY <1>1, <2>1, <2>3, <3>1, <3>2
  <2> QED
    BY <2>2, <2>3
<1> QED
  BY <1>3, <1>4, <1>5, <1>6

\* Others keeps every other entry, in order.
LEMMA OthersShape ==
    ASSUME NEW S, NEW l \in Seq(S), Distinct(l), NEW key, NEW o, o = Others(l, key)
    PROVE  /\ o \in Seq(S) /\ Len(o) = IF Has(l, key) THEN Len(l) - 1 ELSE Len(l)
           /\ \E f : Embeds(f, o, l, key)
<1> DEFINE n == Len(l)
           e == EntryOf(l, key)
<1>0. n \in Nat /\ DOMAIN l = 1..n
  BY LenProperties
<1>1. CASE ~Has(l, key)
  <2>1. o = l
    BY <1>1 DEF Others
  <2>2. From(l, key) = [i \in 1..n |-> i]
    BY <1>1, <2>1 DEF From, Others
  <2>3. \A i \in DOMAIN l : l[i].key # key
    BY <1>1 DEF Has
  <2>4. Embeds(From(l, key), o, l, key)
    BY <1>0, <2>1, <2>2, <2>3 DEF Embeds
  <2> QED
    BY <1>1, <2>1, <2>4
<1>2. CASE Has(l, key)
  <2>1. e \in 1..n /\ l[e].key = key
    BY <1>0, <1>2, EntryFound
  <2>2. o = RemoveAt(l, e)
    BY <1>2 DEF Others
  <2>5. From(l, key) = [i \in 1..Len(o) |-> IF i >= e THEN i + 1 ELSE i]
    BY <1>2 DEF From
  <2> HIDE DEF e
  <2>3. o \in Seq(S) /\ Len(o) = n - 1 /\ \A i \in 1..(n - 1) : o[i] = IF i < e THEN l[i] ELSE l[i + 1]
    BY <2>1, <2>2, RemoveAtShape
  <2>4. DOMAIN o = 1..(n - 1)
    BY <2>3, LenProperties
  <2>6. \A j \in 1..n : l[j].key = key => j = e
    BY <1>0, <2>1 DEF Distinct
  <2> DEFINE f == [i \in 1..(n - 1) |-> IF i >= e THEN i + 1 ELSE i]
  <2>7. ASSUME NEW i \in 1..(n - 1)
        PROVE  f[i] \in 1..n /\ f[i] \in {i, i + 1} /\ o[i] = l[f[i]] /\ o[i].key # key
    <3>1. f[i] \in 1..n /\ f[i] # e /\ f[i] \in {i, i + 1}
      BY <1>0, <2>1
    <3>2. o[i] = l[f[i]]
      BY <1>0, <2>1, <2>3
    <3> QED
      BY <1>0, <2>6, <3>1, <3>2
  <2>8. \A i, k \in 1..(n - 1) : i < k => f[i] < f[k]
    BY <1>0, <2>1
  <2>9. ASSUME NEW j \in 1..n, l[j].key # key PROVE \E i \in 1..(n - 1) : f[i] = j
    <3>1. j # e
      BY <2>1, <2>9
    <3>2. CASE j < e
      BY <1>0, <2>1, <3>2
    <3>3. CASE j > e
      <4>1. j - 1 \in 1..(n - 1) /\ f[j - 1] = j
        BY <1>0, <2>1, <3>3
      <4> QED
        BY <4>1
    <3> QED
      BY <1>0, <2>1, <3>1, <3>2, <3>3
  <2>10. f \in [1..(n - 1) -> 1..n]
    BY <2>7
  <2>11. f = From(l, key)
    BY <2>3, <2>5
  <2> HIDE DEF f
  <2>12. Embeds(f, o, l, key)
    BY <1>2, <2>3, <2>7, <2>8, <2>9, <2>10 DEF Embeds
  <2> QED
    BY <1>2, <2>3, <2>12
<1> QED
  BY <1>1, <1>2

\* The two lists as they fit together.
Fit(C, R, c, r, alive) ==
    /\ c \in Seq(C) /\ r \in Seq(R) /\ Distinct(c) /\ Distinct(r)
    /\ Ordered(c, r) /\ Stays(c, r, alive)

\* The use of key, whose entries in them are then x and u.
Used(c, r, key, x, u, c2, r2) ==
    /\ x.key = key /\ u.key = key /\ x.by = u.by
    /\ c2 = Append(Others(c, key), x) /\ r2 = Append(Others(r, key), u)

AliveFor(r, alive2, alive) == \A i \in DOMAIN r : r[i].by \in alive2 => r[i].by \in alive

\* What the lists c2 and r2 have of c and r.
PartOf(c, c2) == \A i \in DOMAIN c2 : \E j \in DOMAIN c : c2[i] = c[j]
WithNew(c, x, c2) == \A i \in DOMAIN c2 : c2[i] = x \/ \E j \in DOMAIN c : c2[i] = c[j]

\* A function that increases tells places apart.
LEMMA Increasing ==
    ASSUME NEW a \in Nat, NEW f \in [1..a -> Nat], \A i, k \in 1..a : i < k => f[i] < f[k]
    PROVE  /\ \A i, k \in 1..a : f[i] = f[k] => i = k
           /\ \A i, k \in 1..a : f[i] < f[k] => i < k
<1> SUFFICES ASSUME NEW i \in 1..a, NEW k \in 1..a
             PROVE  (f[i] = f[k] => i = k) /\ (f[i] < f[k] => i < k)
  OBVIOUS
<1>1. i < k \/ i = k \/ k < i
  OBVIOUS
<1>2. (i < k => f[i] < f[k]) /\ (k < i => f[k] < f[i]) /\ f[i] \in Nat /\ f[k] \in Nat
  OBVIOUS
<1> QED
  BY <1>1, <1>2

\* The lists that a use of key leaves: it is the last one used, of both lists.
LEMMA UseKeeps ==
    ASSUME NEW C, NEW R, NEW c, NEW r, NEW alive, Fit(C, R, c, r, alive),
           NEW key, NEW x \in C, NEW u \in R, NEW c2, NEW r2, Used(c, r, key, x, u, c2, r2),
           NEW alive2, AliveFor(r, alive2, alive)
    PROVE  /\ Fit(C, R, c2, r2, alive2) /\ WithNew(c, x, c2) /\ WithNew(r, u, r2)
           /\ Len(c2) = IF Has(c, key) THEN Len(c) ELSE Len(c) + 1
<1> USE DEF Fit, Used, AliveFor, WithNew
<1>0. /\ c \in Seq(C) /\ r \in Seq(R) /\ Distinct(c) /\ Distinct(r) /\ Ordered(c, r)
      /\ Stays(c, r, alive) /\ x.key = key /\ u.key = key /\ x.by = u.by
      /\ c2 = Append(Others(c, key), x) /\ r2 = Append(Others(r, key), u) /\ MaxEntries \in Nat
      /\ \A i \in DOMAIN r : r[i].by \in alive2 => r[i].by \in alive
  BY CacheSizesPos
<1> USE <1>0
<1> HIDE DEF Fit, Used, AliveFor, WithNew
<1> SUFFICES ASSUME NEW oc, oc = Others(c, key), NEW or, or = Others(r, key) PROVE
           /\ c2 \in Seq(C) /\ r2 \in Seq(R) /\ Distinct(c2) /\ Distinct(r2)
           /\ Ordered(c2, r2) /\ Stays(c2, r2, alive2)
           /\ \A i \in DOMAIN c2 : c2[i] = x \/ \E j \in DOMAIN c : c2[i] = c[j]
           /\ \A i \in DOMAIN r2 : r2[i] = u \/ \E j \in DOMAIN r : r2[i] = r[j]
           /\ Len(c2) = IF Has(c, key) THEN Len(c) ELSE Len(c) + 1
  BY DEF Fit, WithNew
<1>1. /\ oc \in Seq(C) /\ Len(oc) = (IF Has(c, key) THEN Len(c) - 1 ELSE Len(c))
      /\ or \in Seq(R) /\ Len(or) = (IF Has(r, key) THEN Len(r) - 1 ELSE Len(r))
      /\ \E f : Embeds(f, oc, c, key)
      /\ \E g : Embeds(g, or, r, key)
  BY OthersShape
<1>2. PICK f : Embeds(f, oc, c, key)
  BY <1>1
<1>3. PICK g : Embeds(g, or, r, key)
  BY <1>1
<1>4. PICK n \in Nat, m \in Nat, a \in Nat, b \in Nat :
        /\ n = Len(c) /\ m = Len(r) /\ a = Len(oc) /\ b = Len(or)
        /\ DOMAIN c = 1..n /\ DOMAIN r = 1..m /\ DOMAIN oc = 1..a /\ DOMAIN or = 1..b
  BY <1>1, LenProperties
<1>5. /\ f \in [1..a -> 1..n] /\ \A i \in 1..a : oc[i] = c[f[i]] /\ oc[i].key # key
      /\ \A i, k \in 1..a : i < k => f[i] < f[k]
      /\ \A j \in 1..n : c[j].key # key => \E i \in 1..a : f[i] = j
  BY <1>2, <1>4 DEF Embeds
<1>6. /\ g \in [1..b -> 1..m] /\ \A i \in 1..b : or[i] = r[g[i]] /\ or[i].key # key /\ g[i] \in {i, i + 1}
      /\ \A i, k \in 1..b : i < k => g[i] < g[k]
      /\ \A j \in 1..m : r[j].key # key => \E i \in 1..b : g[i] = j
      /\ ~Has(r, key) => \A i \in 1..b : g[i] = i
  BY <1>3, <1>4 DEF Embeds
<1>7. /\ c2 \in Seq(C) /\ Len(c2) = a + 1 /\ DOMAIN c2 = 1..(a + 1)
      /\ (\A i \in 1..a : c2[i] = oc[i]) /\ c2[a + 1] = x
  <2>1. c2 = Append(oc, x)
    OBVIOUS
  <2> QED
    BY <1>1, <1>4, <2>1, AppendProperties, LenProperties
<1>8. /\ r2 \in Seq(R) /\ Len(r2) = b + 1 /\ DOMAIN r2 = 1..(b + 1)
      /\ (\A i \in 1..b : r2[i] = or[i]) /\ r2[b + 1] = u
  <2>1. r2 = Append(or, u)
    OBVIOUS
  <2> QED
    BY <1>1, <1>4, <2>1, AppendProperties, LenProperties
<1>9. /\ \A i \in 1..a : c2[i] = c[f[i]] /\ f[i] \in 1..n /\ c2[i].key # key
      /\ \A i \in 1..b : r2[i] = r[g[i]] /\ g[i] \in 1..m /\ r2[i].key # key
  BY <1>5, <1>6, <1>7, <1>8
<1>10. /\ \A i \in 1..(a + 1) : i \in 1..a \/ i = a + 1
       /\ \A i \in 1..(b + 1) : i \in 1..b \/ i = b + 1
       /\ a + 1 \in 1..(a + 1) /\ b + 1 \in 1..(b + 1)
       /\ (\A i \in 1..a : i \in 1..(a + 1)) /\ \A i \in 1..b : i \in 1..(b + 1)
  BY <1>4
<1>11. /\ \A i, k \in 1..a : f[i] = f[k] => i = k
       /\ \A i, k \in 1..b : g[i] = g[k] => i = k
       /\ \A i, k \in 1..b : g[i] < g[k] => i < k
  <2>1. f \in [1..a -> Nat] /\ g \in [1..b -> Nat]
    BY <1>5, <1>6
  <2>0. \A i, k \in 1..a : i < k => f[i] < f[k]
    BY <1>5
  <2>2. /\ \A i, k \in 1..a : f[i] = f[k] => i = k
        /\ \A i, k \in 1..a : f[i] < f[k] => i < k
    BY ONLY a \in Nat, <2>0, <2>1, Increasing
  <2>3. \A i, k \in 1..b : i < k => g[i] < g[k]
    BY <1>6
  <2>4. /\ \A i, k \in 1..b : g[i] = g[k] => i = k
        /\ \A i, k \in 1..b : g[i] < g[k] => i < k
    BY ONLY b \in Nat, <2>1, <2>3, Increasing
  <2> QED
    BY <2>2, <2>4
<1>12. c2[a + 1].key = key /\ r2[b + 1].key = key
  BY <1>7, <1>8
<1>13. Distinct(c2) /\ Distinct(r2)
  <2>1. ASSUME NEW i \in 1..(a + 1), NEW k \in 1..(a + 1), c2[i].key = c2[k].key PROVE i = k
    <3>1. CASE i \in 1..a /\ k \in 1..a
      <4>1. c[f[i]].key = c[f[k]].key /\ f[i] \in DOMAIN c /\ f[k] \in DOMAIN c
        BY <1>4, <1>9, <2>1, <3>1
      <4> QED
        BY <1>11, <3>1, <4>1 DEF Distinct
    <3> QED
      BY <1>9, <1>10, <1>12, <2>1, <3>1
  <2>2. ASSUME NEW i \in 1..(b + 1), NEW k \in 1..(b + 1), r2[i].key = r2[k].key PROVE i = k
    <3>1. CASE i \in 1..b /\ k \in 1..b
      <4>1. r[g[i]].key = r[g[k]].key /\ g[i] \in DOMAIN r /\ g[k] \in DOMAIN r
        BY <1>4, <1>9, <2>2, <3>1
      <4> QED
        BY <1>11, <3>1, <4>1 DEF Distinct
    <3> QED
      BY <1>9, <1>10, <1>12, <2>2, <3>1
  <2> QED
    BY <1>7, <1>8, <2>1, <2>2 DEF Distinct
<1>14. ASSUME NEW i \in 1..(a + 1)
       PROVE  \E j \in 1..(b + 1) : r2[j].key = c2[i].key /\ r2[j].by = c2[i].by
  <2>1. CASE i = a + 1
    BY <1>7, <1>8, <1>10, <2>1
  <2>2. CASE i \in 1..a
    <3>1. PICK l \in 1..m : r[l].key = c[f[i]].key /\ r[l].by = c[f[i]].by
      BY <1>4, <1>9, <2>2 DEF Ordered
    <3>2. r[l].key # key
      BY <1>9, <2>2, <3>1
    <3>3. PICK j \in 1..b : g[j] = l
      BY <1>6, <3>1, <3>2
    <3> QED
      BY <1>9, <1>10, <2>2, <3>1, <3>3
  <2> QED
    BY <1>10, <2>1, <2>2
<1>15. ASSUME NEW i \in 1..(a + 1), NEW k \in 1..(a + 1), NEW j \in 1..(b + 1), NEW l \in 1..(b + 1),
              r2[j].key = c2[i].key, r2[l].key = c2[k].key, i < k
       PROVE  j < l
  <2>1. i \in 1..a
    BY <1>4, <1>10, <1>15
  <2>2. j \in 1..b
    <3>1. r2[j].key # key
      BY <1>9, <1>15, <2>1
    <3> QED
      BY <1>10, <1>12, <3>1
  <2>3. CASE k = a + 1
    <3>1. l = b + 1
      BY <1>9, <1>10, <1>12, <1>15, <2>3
    <3> QED
      BY <1>4, <2>2, <3>1
  <2>4. CASE k \in 1..a
    <3>1. l \in 1..b
      BY <1>9, <1>10, <1>12, <1>15, <2>4
    <3>2. f[i] < f[k] /\ f[i] \in DOMAIN c /\ f[k] \in DOMAIN c /\ g[j] \in DOMAIN r /\ g[l] \in DOMAIN r
      BY <1>4, <1>5, <1>9, <1>15, <2>1, <2>2, <2>4, <3>1
    <3>3. r[g[j]].key = c[f[i]].key /\ r[g[l]].key = c[f[k]].key
      BY <1>9, <1>15, <2>1, <2>2, <2>4, <3>1
    <3>4. g[j] < g[l]
      BY <3>2, <3>3 DEF Ordered
    <3> QED
      BY <1>11, <2>2, <3>1, <3>4
  <2> QED
    BY <1>10, <2>3, <2>4
<1>16. ASSUME NEW i \in 1..(b + 1), i + MaxEntries > b + 1, r2[i].by \in alive2
       PROVE  \E j \in 1..(a + 1) : c2[j].key = r2[i].key /\ c2[j].by = r2[i].by
  <2>1. CASE i = b + 1
    BY <1>7, <1>8, <1>10, <2>1
  <2>2. CASE i \in 1..b
    <3>1. r2[i] = r[g[i]] /\ g[i] \in 1..m /\ r2[i].key # key
      BY <1>9, <2>2
    <3>2. g[i] + MaxEntries > m
      <4>0. g[i] \in {i, i + 1} /\ i + MaxEntries > b + 1 /\ i \in Nat /\ b \in Nat /\ m \in Nat
        BY <1>4, <1>6, <1>16, <2>2
      <4>1. CASE Has(r, key)
        <5>1. b = m - 1
          BY <1>1, <1>4, <4>1
        <5> QED
          BY <4>0, <5>1
      <4>2. CASE ~Has(r, key)
        <5>1. b = m /\ g[i] = i
          BY <1>1, <1>4, <1>6, <2>2, <4>2
        <5> QED
          BY <4>0, <5>1
      <4> QED
        BY <4>1, <4>2
    <3>3. PICK j \in 1..n : c[j].key = r[g[i]].key /\ c[j].by = r[g[i]].by
      BY <1>4, <1>16, <3>1, <3>2 DEF Stays
    <3>4. PICK k \in 1..a : f[k] = j
      BY <1>5, <3>1, <3>3
    <3> QED
      BY <1>9, <1>10, <3>1, <3>3, <3>4
  <2> QED
    BY <1>10, <2>1, <2>2
<1>17. Len(c2) = IF Has(c, key) THEN Len(c) ELSE Len(c) + 1
  BY <1>1, <1>4, <1>7
<1>18. /\ \A i \in DOMAIN c2 : c2[i] = x \/ \E j \in DOMAIN c : c2[i] = c[j]
       /\ \A i \in DOMAIN r2 : r2[i] = u \/ \E j \in DOMAIN r : r2[i] = r[j]
  <2>1. \A i \in 1..a : c2[i] = c[f[i]] /\ f[i] \in DOMAIN c
    BY <1>4, <1>9
  <2>2. \A i \in 1..b : r2[i] = r[g[i]] /\ g[i] \in DOMAIN r
    BY <1>4, <1>9
  <2>3. ASSUME NEW i \in DOMAIN c2 PROVE c2[i] = x \/ \E j \in DOMAIN c : c2[i] = c[j]
    BY <1>7, <1>10, <2>1, <2>3
  <2>4. ASSUME NEW i \in DOMAIN r2 PROVE r2[i] = u \/ \E j \in DOMAIN r : r2[i] = r[j]
    BY <1>8, <1>10, <2>2, <2>4
  <2> QED
    BY <2>3, <2>4
<1>19. Ordered(c2, r2)
  <2>1. \A i \in DOMAIN c2 : \E j \in DOMAIN r2 : r2[j].key = c2[i].key /\ r2[j].by = c2[i].by
    BY <1>7, <1>8, <1>14
  <2>2. \A i, k \in DOMAIN c2 : \A j, l \in DOMAIN r2 :
          r2[j].key = c2[i].key /\ r2[l].key = c2[k].key /\ i < k => j < l
    BY <1>7, <1>8, <1>15
  <2> QED
    BY <2>1, <2>2 DEF Ordered
<1>20. Stays(c2, r2, alive2)
  BY <1>7, <1>8, <1>16 DEF Stays
<1> QED
  BY <1>7, <1>8, <1>13, <1>17, <1>18, <1>19, <1>20

\* A key that is forgotten: nothing to be served of it is lost.
LEMMA DropKeeps ==
    ASSUME NEW C, NEW R, NEW c, NEW r, NEW alive, Fit(C, R, c, r, alive), NEW key,
           Has(c, key) => c[EntryOf(c, key)].by \notin alive,
           NEW c2, c2 = Others(c, key)
    PROVE  /\ Fit(C, R, c2, r, alive) /\ PartOf(c, c2) /\ Len(c2) <= Len(c)
<1>0. /\ c \in Seq(C) /\ r \in Seq(R) /\ Distinct(c) /\ Distinct(r) /\ Ordered(c, r)
      /\ Stays(c, r, alive)
  BY DEF Fit
<1> USE <1>0
<1>1. /\ c2 \in Seq(C) /\ Len(c2) = (IF Has(c, key) THEN Len(c) - 1 ELSE Len(c))
      /\ \E f : Embeds(f, c2, c, key)
  BY OthersShape
<1>2. PICK f : Embeds(f, c2, c, key)
  BY <1>1
<1>3. PICK n \in Nat, a \in Nat : n = Len(c) /\ a = Len(c2) /\ DOMAIN c = 1..n /\ DOMAIN c2 = 1..a
  BY <1>1, LenProperties
<1>4. /\ f \in [1..a -> 1..n] /\ \A i \in 1..a : c2[i] = c[f[i]] /\ c2[i].key # key
      /\ \A i, k \in 1..a : i < k => f[i] < f[k]
      /\ \A j \in 1..n : c[j].key # key => \E i \in 1..a : f[i] = j
  BY <1>2, <1>3 DEF Embeds
<1>5. \A i, k \in 1..a : f[i] = f[k] => i = k
  <2>1. f \in [1..a -> Nat]
    BY <1>4
  <2>2. \A i, k \in 1..a : i < k => f[i] < f[k]
    BY <1>4
  <2>3. /\ \A i, k \in 1..a : f[i] = f[k] => i = k
        /\ \A i, k \in 1..a : f[i] < f[k] => i < k
    BY ONLY a \in Nat, <2>1, <2>2, Increasing
  <2> QED
    BY <2>3
<1>6. Distinct(c2)
  <2>1. ASSUME NEW i \in 1..a, NEW k \in 1..a, c2[i].key = c2[k].key PROVE i = k
    <3>1. c[f[i]].key = c[f[k]].key /\ f[i] \in DOMAIN c /\ f[k] \in DOMAIN c
      BY <1>3, <1>4, <2>1
    <3> QED
      BY <1>5, <3>1 DEF Distinct
  <2> QED
    BY <1>3, <2>1 DEF Distinct
<1>7. Ordered(c2, r)
  <2>1. \A i \in 1..a : f[i] \in DOMAIN c /\ c2[i] = c[f[i]]
    BY <1>3, <1>4
  <2>2. ASSUME NEW i \in 1..a PROVE \E j \in DOMAIN r : r[j].key = c2[i].key /\ r[j].by = c2[i].by
    <3>1. PICK j \in DOMAIN r : r[j].key = c[f[i]].key /\ r[j].by = c[f[i]].by
      BY <2>1 DEF Ordered
    <3> QED
      BY <2>1, <3>1
  <2>3. ASSUME NEW i \in 1..a, NEW k \in 1..a, NEW j \in DOMAIN r, NEW l \in DOMAIN r,
               r[j].key = c2[i].key, r[l].key = c2[k].key, i < k
        PROVE  j < l
    <3>1. f[i] < f[k] /\ r[j].key = c[f[i]].key /\ r[l].key = c[f[k]].key
      BY <1>4, <2>1, <2>3
    <3> QED
      BY <2>1, <3>1 DEF Ordered
  <2> QED
    BY <1>3, <2>2, <2>3 DEF Ordered
<1>8. Stays(c2, r, alive)
  <2> SUFFICES ASSUME NEW i \in DOMAIN r, i + MaxEntries > Len(r), r[i].by \in alive
               PROVE  \E k \in DOMAIN c2 : c2[k].key = r[i].key /\ c2[k].by = r[i].by
    BY DEF Stays
  <2>1. PICK j \in DOMAIN c : c[j].key = r[i].key /\ c[j].by = r[i].by
    BY DEF Stays
  <2>2. c[j].key # key
    <3> SUFFICES ASSUME c[j].key = key PROVE FALSE
      OBVIOUS
    <3>1. Has(c, key)
      BY DEF Has
    <3>2. EntryOf(c, key) = j
      BY <3>1, EntryFound DEF Distinct
    <3> QED
      BY <2>1, <3>1, <3>2
  <2>3. PICK k \in 1..a : f[k] = j
    BY <1>3, <1>4, <2>2
  <2>4. k \in DOMAIN c2 /\ c2[k] = c[j]
    BY <1>3, <1>4, <2>3
  <2> QED
    BY <2>1, <2>4
<1>9. \A i \in DOMAIN c2 : \E j \in DOMAIN c : c2[i] = c[j]
  BY <1>3, <1>4
<1>10. Len(c2) <= Len(c)
  BY <1>1, <1>3
<1> QED
  BY <1>1, <1>6, <1>7, <1>8, <1>9, <1>10 DEF Fit, PartOf

\* A set of natural numbers has a least element: induction, as a fact that the
\* provers can use.
LEMMA NatMin ==
    ASSUME NEW T \in SUBSET Nat, T # {}
    PROVE  \E m \in T : \A k \in T : m <= k
<1> DEFINE R == OpToRel(<, Nat)
<1>1. IsWellFoundedOn(R, Nat)
  BY NatLessThanWellFounded
<1>2. \A x, y \in Nat : y < x => <<y, x>> \in R
  BY DEF OpToRel
<1> HIDE DEF R
<1>3. \E x \in T : \A y \in T : ~ (<<y, x>> \in R)
  BY <1>1, WFMin
<1>4. PICK m \in T : \A y \in T : ~ (<<y, m>> \in R)
  BY <1>3
<1>5. \A k \in T : m <= k
  <2> SUFFICES ASSUME NEW k \in T PROVE m <= k
    OBVIOUS
  <2>1. ~ (k < m) /\ k \in Nat /\ m \in Nat
    BY <1>2, <1>4
  <2> QED
    BY <2>1
<1> QED
  BY <1>5

\* What increases from place to place gains one at each.
LEMMA IncreasesByOne ==
    ASSUME NEW n \in Nat, NEW p \in [1..n -> Nat], \A i, k \in 1..n : i < k => p[i] < p[k]
    PROVE  \A k \in 1..n : p[1] + (k - 1) <= p[k]
<1> DEFINE T == {k \in 1..n : ~(p[1] + (k - 1) <= p[k])}
<1> SUFFICES ASSUME T # {} PROVE FALSE
  OBVIOUS
<1>1. T \in SUBSET Nat
  OBVIOUS
<1>2. PICK m \in T : \A k \in T : m <= k
  <2> HIDE DEF T
  <2> QED
    BY <1>1, NatMin
<1>3. m \in 1..n /\ ~(p[1] + (m - 1) <= p[m]) /\ p[m] \in Nat /\ p[1] \in Nat
  BY <1>2
<1>4. m # 1
  BY <1>3
<1>5. m - 1 \in 1..n /\ m - 1 < m
  BY <1>3, <1>4
<1>6. p[1] + ((m - 1) - 1) <= p[m - 1] /\ p[m - 1] \in Nat
  <2>1. m - 1 \notin T
    <3>1. m \in Nat /\ (m - 1 \in T => m <= m - 1)
      BY <1>1, <1>2
    <3> HIDE DEF T
    <3> QED
      BY <3>1
  <2> QED
    BY <1>5, <2>1
<1>7. p[m - 1] < p[m]
  BY <1>3, <1>5
<1> QED
  BY <1>3, <1>5, <1>6, <1>7

\* A cache that has grown past its size evicts what was used before the last
\* MaxEntries keys.
LEMMA EvictKeeps ==
    ASSUME NEW C, NEW R, NEW c, NEW r, NEW alive, Fit(C, R, c, r, alive),
           Len(c) = MaxEntries + 1, NEW c2, c2 = Tail(c)
    PROVE  Fit(C, R, c2, r, alive) /\ PartOf(c, c2) /\ Len(c2) = MaxEntries
<1>0. /\ c \in Seq(C) /\ r \in Seq(R) /\ Distinct(c) /\ Distinct(r) /\ Ordered(c, r)
      /\ Stays(c, r, alive) /\ MaxEntries \in Nat
  BY CacheSizesPos DEF Fit
<1> USE <1>0
<1>1. PICK n \in Nat, m \in Nat : n = Len(c) /\ m = Len(r) /\ DOMAIN c = 1..n /\ DOMAIN r = 1..m
  BY LenProperties
<1>2. c # <<>> /\ n = MaxEntries + 1
  BY <1>1, EmptySeq
<1>3. c2 \in Seq(C) /\ Len(c2) = n - 1 /\ \A i \in 1..(n - 1) : c2[i] = c[i + 1]
  BY <1>1, <1>2, HeadTailProperties
<1>4. DOMAIN c2 = 1..(n - 1) /\ \A i \in 1..(n - 1) : i + 1 \in 1..n
  BY <1>1, <1>3, LenProperties
<1>5. Distinct(c2)
  <2>1. ASSUME NEW i \in 1..(n - 1), NEW k \in 1..(n - 1), c2[i].key = c2[k].key PROVE i = k
    <3>1. c[i + 1].key = c[k + 1].key /\ i + 1 \in DOMAIN c /\ k + 1 \in DOMAIN c
      BY <1>1, <1>3, <1>4, <2>1
    <3>2. i + 1 = k + 1
      BY <3>1 DEF Distinct
    <3> QED
      BY <3>2
  <2> QED
    BY <1>4, <2>1 DEF Distinct
<1>6. Ordered(c2, r)
  <2>1. ASSUME NEW i \in 1..(n - 1) PROVE \E j \in DOMAIN r : r[j].key = c2[i].key /\ r[j].by = c2[i].by
    BY <1>1, <1>3, <1>4 DEF Ordered
  <2>2. ASSUME NEW i \in 1..(n - 1), NEW k \in 1..(n - 1), NEW j \in DOMAIN r, NEW l \in DOMAIN r,
               r[j].key = c2[i].key, r[l].key = c2[k].key, i < k
        PROVE  j < l
    <3>1. /\ i + 1 < k + 1 /\ i + 1 \in DOMAIN c /\ k + 1 \in DOMAIN c
          /\ r[j].key = c[i + 1].key /\ r[l].key = c[k + 1].key
      BY <1>1, <1>3, <1>4, <2>2
    <3> QED
      BY <3>1 DEF Ordered
  <2> QED
    BY <1>4, <2>1, <2>2 DEF Ordered
<1>7. PICK p \in [1..n -> 1..m] : \A i \in 1..n : r[p[i]].key = c[i].key
  <2>1. \A i \in 1..n : \E j \in 1..m : r[j].key = c[i].key
    BY <1>1 DEF Ordered
  <2> DEFINE p == [i \in 1..n |-> CHOOSE j \in 1..m : r[j].key = c[i].key]
  <2>2. \A i \in 1..n : p[i] \in 1..m /\ r[p[i]].key = c[i].key
    BY <2>1
  <2>3. p \in [1..n -> 1..m]
    BY <2>2
  <2> QED
    BY <2>2, <2>3
<1>8. p[1] + MaxEntries <= m
  <2>1. p \in [1..n -> Nat]
    BY <1>1, <1>7
  <2>2. ASSUME NEW i \in 1..n, NEW k \in 1..n, i < k PROVE p[i] < p[k]
    <3>1. p[i] \in DOMAIN r /\ p[k] \in DOMAIN r /\ i \in DOMAIN c /\ k \in DOMAIN c
      BY <1>1, <1>7
    <3> QED
      BY <1>7, <2>2, <3>1 DEF Ordered
  <2>3. p[1] + (n - 1) <= p[n]
    <3>1. \A i, k \in 1..n : i < k => p[i] < p[k]
      BY <2>2
    <3>2. \A k \in 1..n : p[1] + (k - 1) <= p[k]
      BY <1>1, <2>1, <3>1, IncreasesByOne
    <3> QED
      BY <1>1, <1>2, <3>2
  <2>4. p[n] \in 1..m /\ p[1] \in 1..m
    BY <1>1, <1>2, <1>7
  <2> QED
    BY <1>1, <1>2, <2>3, <2>4
<1>9. Stays(c2, r, alive)
  <2> SUFFICES ASSUME NEW i \in DOMAIN r, i + MaxEntries > Len(r), r[i].by \in alive
               PROVE  \E k \in DOMAIN c2 : c2[k].key = r[i].key /\ c2[k].by = r[i].by
    BY DEF Stays
  <2>1. PICK j \in DOMAIN c : c[j].key = r[i].key /\ c[j].by = r[i].by
    BY DEF Stays
  <2>2. j # 1
    <3> SUFFICES ASSUME j = 1 PROVE FALSE
      OBVIOUS
    <3>1. p[1] \in DOMAIN r /\ r[p[1]].key = r[i].key
      BY <1>1, <1>2, <1>7, <2>1
    <3>2. p[1] = i
      BY <3>1 DEF Distinct
    <3>3. i \in Nat /\ i + MaxEntries <= m /\ i + MaxEntries > m
      BY <1>1, <1>8, <3>2
    <3> QED
      BY <1>1, <3>3
  <2>3. j - 1 \in 1..(n - 1) /\ (j - 1) + 1 = j
    BY <1>1, <2>1, <2>2
  <2>4. j - 1 \in DOMAIN c2 /\ c2[j - 1] = c[j]
    BY <1>3, <1>4, <2>3
  <2> QED
    BY <2>1, <2>4
<1>10. \A i \in DOMAIN c2 : \E j \in DOMAIN c : c2[i] = c[j]
  BY <1>1, <1>3, <1>4
<1>11. Len(c2) = MaxEntries
  BY <1>1, <1>2, <1>3
<1> QED
  BY <1>3, <1>5, <1>6, <1>9, <1>10, <1>11 DEF Fit, PartOf

-----------------------------------------------------------------------------
\* What the clock, a lookup and an answer make of the cache.

CacheEntries(ck) == [key : {ck[q] : q \in DOMAIN ck}, expiry : Nat, by : DOMAIN ck]
Uses(ck) == [key : {ck[q] : q \in DOMAIN ck}, by : DOMAIN ck]

\* What the invariant says of the lists and of an entry.
Known(ck, c, r, tm, st) ==
    /\ Fit(CacheEntries(ck), Uses(ck), c, r, Alive(st, tm)) /\ tm \in Nat /\ TTL \in Nat \ {0}
    /\ Len(c) \in Nat /\ Len(c) <= MaxEntries /\ MaxEntries \in Nat
    /\ \A i \in DOMAIN c :
         /\ c[i] \in CacheEntries(ck) /\ c[i].by \in DOMAIN ck /\ c[i].key = ck[c[i].by]
         /\ \E t \in 0..tm : st[c[i].by] = {t} /\ c[i].expiry = t + TTL
    /\ \A i \in DOMAIN r : r[i].by \in DOMAIN ck /\ r[i].key = ck[r[i].by] /\ st[r[i].by] # {}

\* The parts of the invariant that the steps below use.
LEMMA SoundParts ==
    ASSUME NEW ck, NEW c, NEW r, NEW tm, NEW st, NEW ht, Sound(ck, c, r, tm, st, ht)
    PROVE  Known(ck, c, r, tm, st)
<1>1. /\ c \in Seq(CacheEntries(ck)) /\ r \in Seq(Uses(ck)) /\ tm \in Nat /\ TTL \in Nat \ {0}
      /\ Len(c) \in Nat /\ Len(r) \in Nat /\ Len(c) <= MaxEntries /\ MaxEntries \in Nat
      /\ DOMAIN c = 1..Len(c) /\ DOMAIN r = 1..Len(r)
  BY CacheSizesPos, LenProperties DEF Sound, CacheEntries, Uses
<1>2. \A i \in DOMAIN c : c[i] \in CacheEntries(ck)
  BY <1>1, ElementOfSeq
<1>3. \A i \in DOMAIN r : r[i] \in Uses(ck)
  BY <1>1, ElementOfSeq
<1>4. \A i \in DOMAIN c : c[i].by \in DOMAIN ck
  BY <1>2 DEF CacheEntries
<1>5. \A i \in DOMAIN r : r[i].by \in DOMAIN ck
  BY <1>3 DEF Uses
<1>6. ASSUME NEW i \in DOMAIN c PROVE \E t \in 0..tm : st[c[i].by] = {t} /\ c[i].expiry = t + TTL
  <2>1. PICK s \in st[c[i].by] : c[i].expiry = s + TTL
    BY DEF Sound
  <2>2. PICK t \in 0..tm : st[c[i].by] \in {{}, {t}}
    BY <1>4 DEF Sound
  <2> QED
    BY <2>1, <2>2
<1>7. Fit(CacheEntries(ck), Uses(ck), c, r, Alive(st, tm))
  BY <1>1 DEF Fit, Sound
<1>8. \A i \in DOMAIN c : c[i].key = ck[c[i].by]
  BY DEF Sound
<1>9. \A i \in DOMAIN r : r[i].key = ck[r[i].by] /\ st[r[i].by] # {}
  BY DEF Sound
<1> QED
  BY <1>1, <1>2, <1>4, <1>5, <1>6, <1>7, <1>8, <1>9 DEF Known

\* The clock ticks: fewer answers are still to be served.
LEMMA SoundTick ==
    ASSUME NEW ck, NEW c, NEW r, NEW tm, NEW st, NEW ht, Sound(ck, c, r, tm, st, ht), tm < MaxTime
    PROVE  Sound(ck, c, r, tm + 1, st, ht)
<1>1. tm \in Nat /\ tm + 1 \in 0..MaxTime /\ TTL \in Nat /\ 0..tm \subseteq 0..(tm + 1)
  BY CacheSizesPos, AgentBoundsNat DEF Sound
<1>2. ASSUME NEW q \in DOMAIN ck PROVE \E t \in 0..(tm + 1) : st[q] \in {{}, {t}}
  BY <1>1 DEF Sound
<1>3. Alive(st, tm + 1) \subseteq Alive(st, tm)
  <2> SUFFICES ASSUME NEW q \in DOMAIN st, NEW t \in st[q], tm + 1 < t + TTL PROVE tm < t + TTL
    BY DEF Alive
  <2>1. t \in Nat
    BY <1>1 DEF Sound
  <2> QED
    BY <1>1, <2>1
<1>4. Stays(c, r, Alive(st, tm + 1))
  BY <1>3 DEF Sound, Stays
<1> QED
  BY <1>1, <1>2, <1>4 DEF Sound

\* A lookup that finds nothing takes out an entry past its time.
LEMMA SoundDrop ==
    ASSUME NEW ck, NEW c, NEW r, NEW tm, NEW st, NEW ht, Sound(ck, c, r, tm, st, ht),
           NEW key, ~Live(c, key, tm), NEW c2, c2 = Others(c, key)
    PROVE  Sound(ck, c2, r, tm, st, ht)
<1>1. /\ Fit(CacheEntries(ck), Uses(ck), c, r, Alive(st, tm)) /\ MaxEntries \in Nat
      /\ Len(c) \in Nat /\ Len(c) <= MaxEntries
      /\ \A i \in DOMAIN c : \E t \in 0..tm : st[c[i].by] = {t} /\ c[i].expiry = t + TTL
  <2>1. Known(ck, c, r, tm, st)
    BY SoundParts
  <2> QED
    BY <2>1 DEF Known
<1>2. ASSUME Has(c, key) PROVE c[EntryOf(c, key)].by \notin Alive(st, tm)
  <2> DEFINE e == EntryOf(c, key)
  <2>1. e \in DOMAIN c
    BY <1>2, EntryFound
  <2>2. ~(tm < c[e].expiry)
    BY <1>2 DEF Live
  <2> HIDE DEF e
  <2>3. c[e].by \notin Alive(st, tm)
    BY <1>1, <2>1, <2>2 DEF Alive
  <2> QED
    BY <2>3 DEF e
<1>3. /\ Fit(CacheEntries(ck), Uses(ck), c2, r, Alive(st, tm)) /\ PartOf(c, c2)
      /\ Len(c2) <= Len(c)
  BY <1>1, <1>2, DropKeeps
<1>4. Len(c2) <= MaxEntries
  <2>1. Len(c2) \in Nat
    BY <1>3, LenProperties DEF Fit
  <2> QED
    BY <1>1, <1>3, <2>1
<1>5. \A i \in DOMAIN c2 : c2[i].key = ck[c2[i].by] /\ \E t \in st[c2[i].by] : c2[i].expiry = t + TTL
  <2> SUFFICES ASSUME NEW i \in DOMAIN c2
               PROVE  c2[i].key = ck[c2[i].by] /\ \E t \in st[c2[i].by] : c2[i].expiry = t + TTL
    OBVIOUS
  <2>1. PICK j \in DOMAIN c : c2[i] = c[j]
    BY <1>3 DEF PartOf
  <2>2. c[j].key = ck[c[j].by] /\ \E t \in st[c[j].by] : c[j].expiry = t + TTL
    BY DEF Sound
  <2> QED
    BY <2>1, <2>2
<1> QED
  BY <1>3, <1>4, <1>5 DEF Sound, Fit, CacheEntries

\* A hit: the answer is of the same key, and was stored less than TTL ago.
LEMMA SoundHit ==
    ASSUME NEW ck, NEW c, NEW r, NEW tm, NEW st, NEW ht, Sound(ck, c, r, tm, st, ht),
           NEW q \in DOMAIN ck, Live(c, ck[q], tm), NEW x, x = c[EntryOf(c, ck[q])],
           NEW c2, c2 = Append(Others(c, ck[q]), x),
           NEW r2, r2 = Append(Others(r, ck[q]), [key |-> ck[q], by |-> x.by]),
           NEW ht2, ht2 = [ht EXCEPT ![q] = {[by |-> x.by, when |-> tm]}]
    PROVE  Sound(ck, c2, r2, tm, st, ht2)
<1> DEFINE key == ck[q]
           u == [key |-> key, by |-> x.by]
<1>1. /\ Fit(CacheEntries(ck), Uses(ck), c, r, Alive(st, tm)) /\ MaxEntries \in Nat
      /\ Len(c) \in Nat /\ Len(c) <= MaxEntries /\ tm \in Nat /\ TTL \in Nat \ {0}
      /\ \A i \in DOMAIN c :
           /\ c[i] \in CacheEntries(ck) /\ c[i].by \in DOMAIN ck /\ c[i].key = ck[c[i].by]
           /\ \E t \in 0..tm : st[c[i].by] = {t} /\ c[i].expiry = t + TTL
      /\ \A i \in DOMAIN r : r[i].by \in DOMAIN ck /\ r[i].key = ck[r[i].by] /\ st[r[i].by] # {}
  <2>1. Known(ck, c, r, tm, st)
    BY SoundParts
  <2> QED
    BY <2>1 DEF Known
<1>2. Has(c, key) /\ tm < x.expiry
  BY DEF Live
<1>3. PICK e \in DOMAIN c : x = c[e] /\ x.key = key
  BY <1>2, EntryFound
<1>4. x \in CacheEntries(ck) /\ x.by \in DOMAIN ck /\ ck[x.by] = key
  BY <1>1, <1>3
<1>5. PICK t \in 0..tm : st[x.by] = {t} /\ x.expiry = t + TTL
  BY <1>1, <1>3
<1>6. u \in Uses(ck) /\ u.key = key /\ u.by = x.by
  BY <1>4 DEF Uses
<1>7. Used(c, r, key, x, u, c2, r2)
  BY <1>3, <1>6 DEF Used
<1>8. AliveFor(r, Alive(st, tm), Alive(st, tm))
  BY DEF AliveFor
<1> HIDE DEF u
<1>9. /\ Fit(CacheEntries(ck), Uses(ck), c2, r2, Alive(st, tm))
      /\ WithNew(c, x, c2) /\ WithNew(r, u, r2)
      /\ Len(c2) = IF Has(c, key) THEN Len(c) ELSE Len(c) + 1
  <2>1. Fit(CacheEntries(ck), Uses(ck), c, r, Alive(st, tm)) /\ x \in CacheEntries(ck) /\ u \in Uses(ck)
    BY <1>1, <1>4, <1>6
  <2>2. ASSUME NEW xx \in CacheEntries(ck), NEW uu \in Uses(ck), NEW c3, NEW r3,
               Used(c, r, key, xx, uu, c3, r3)
        PROVE  /\ Fit(CacheEntries(ck), Uses(ck), c3, r3, Alive(st, tm))
               /\ WithNew(c, xx, c3) /\ WithNew(r, uu, r3)
               /\ Len(c3) = IF Has(c, key) THEN Len(c) ELSE Len(c) + 1
    BY <1>8, <2>1, <2>2, UseKeeps
  <2> QED
    BY <1>7, <2>1, <2>2
<1>10. Len(c2) <= MaxEntries
  BY <1>1, <1>2, <1>9
<1>11. ASSUME NEW i \in DOMAIN c2
       PROVE  c2[i].key = ck[c2[i].by] /\ \E s \in st[c2[i].by] : c2[i].expiry = s + TTL
  <2>1. PICK j \in DOMAIN c : c2[i] = c[j]
    BY <1>3, <1>9 DEF WithNew
  <2> QED
    BY <1>1, <2>1
<1>12. ASSUME NEW i \in DOMAIN r2 PROVE r2[i].key = ck[r2[i].by] /\ st[r2[i].by] # {}
  <2>1. CASE r2[i] = u
    BY <1>4, <1>5, <1>6, <2>1
  <2>2. CASE \E j \in DOMAIN r : r2[i] = r[j]
    BY <1>1, <2>2
  <2> QED
    BY <1>9, <2>1, <2>2 DEF WithNew
<1>13. ASSUME NEW p \in DOMAIN ck, NEW h \in ht2[p]
       PROVE  /\ h.by \in DOMAIN ck /\ ck[h.by] = ck[p]
              /\ \E s \in st[h.by] : s <= h.when /\ h.when < s + TTL
  <2>1. CASE p = q
    <3>1. h = [by |-> x.by, when |-> tm]
      BY <1>13, <2>1 DEF Sound
    <3>2. t <= tm /\ tm < t + TTL
      BY <1>1, <1>2, <1>5
    <3> QED
      BY <1>4, <1>5, <2>1, <3>1, <3>2
  <2>2. CASE p # q
    BY <1>13, <2>2 DEF Sound
  <2> QED
    BY <2>1, <2>2
<1>14. DOMAIN ht2 = DOMAIN ck
  BY DEF Sound
<1>15. /\ \A i \in DOMAIN c2 : /\ c2[i].key = ck[c2[i].by]
                               /\ \E s \in st[c2[i].by] : c2[i].expiry = s + TTL
       /\ \A i \in DOMAIN r2 : r2[i].key = ck[r2[i].by] /\ st[r2[i].by] # {}
       /\ \A p \in DOMAIN ck : \A h \in ht2[p] :
            /\ h.by \in DOMAIN ck /\ ck[h.by] = ck[p]
            /\ \E s \in st[h.by] : s <= h.when /\ h.when < s + TTL
  BY <1>11, <1>12, <1>13
<1> QED
  BY <1>9, <1>10, <1>14, <1>15 DEF Sound, Fit, CacheEntries, Uses

\* An answer is stored, by a request that has stored none.
LEMMA SoundSet ==
    ASSUME NEW ck, NEW c, NEW r, NEW tm, NEW st, NEW ht, Sound(ck, c, r, tm, st, ht),
           NEW q \in DOMAIN ck, st[q] = {},
           NEW c2, c2 = Set(c, ck[q], q, tm),
           NEW r2, r2 = Append(Others(r, ck[q]), [key |-> ck[q], by |-> q]),
           NEW st2, st2 = [st EXCEPT ![q] = {tm}]
    PROVE  Sound(ck, c2, r2, tm, st2, ht)
<1> DEFINE key == ck[q]
           x == [key |-> key, expiry |-> tm + TTL, by |-> q]
           u == [key |-> key, by |-> q]
           g == Append(Others(c, key), x)
<1>1. /\ Fit(CacheEntries(ck), Uses(ck), c, r, Alive(st, tm)) /\ MaxEntries \in Nat
      /\ Len(c) \in Nat /\ Len(c) <= MaxEntries /\ tm \in Nat /\ TTL \in Nat \ {0}
      /\ \A i \in DOMAIN c :
           /\ c[i] \in CacheEntries(ck) /\ c[i].by \in DOMAIN ck /\ c[i].key = ck[c[i].by]
           /\ \E t \in 0..tm : st[c[i].by] = {t} /\ c[i].expiry = t + TTL
      /\ \A i \in DOMAIN r : r[i].by \in DOMAIN ck /\ r[i].key = ck[r[i].by] /\ st[r[i].by] # {}
  <2>1. Known(ck, c, r, tm, st)
    BY SoundParts
  <2> QED
    BY <2>1 DEF Known
<1>2. x \in CacheEntries(ck) /\ u \in Uses(ck) /\ x.key = key /\ u.key = key /\ x.by = q /\ u.by = q
      /\ x.expiry = tm + TTL
  BY <1>1 DEF CacheEntries, Uses
<1>3. /\ DOMAIN st2 = DOMAIN ck /\ DOMAIN st = DOMAIN ck /\ st2[q] = {tm}
      /\ \A p \in DOMAIN ck : p # q => st2[p] = st[p]
  BY DEF Sound
<1>4. Used(c, r, key, x, u, g, r2)
  BY <1>2 DEF Used
<1>5. c2 = IF Len(g) > MaxEntries THEN Tail(g) ELSE g
  BY DEF Set
<1> HIDE DEF x, u, g
<1>6. AliveFor(r, Alive(st2, tm), Alive(st, tm))
  <2> SUFFICES ASSUME NEW i \in DOMAIN r, r[i].by \in Alive(st2, tm) PROVE r[i].by \in Alive(st, tm)
    BY DEF AliveFor
  <2>1. r[i].by \in DOMAIN ck /\ r[i].by # q
    BY <1>1
  <2> QED
    BY <1>3, <2>1 DEF Alive
<1>7. /\ Fit(CacheEntries(ck), Uses(ck), g, r2, Alive(st2, tm))
      /\ WithNew(c, x, g) /\ WithNew(r, u, r2)
      /\ Len(g) = IF Has(c, key) THEN Len(c) ELSE Len(c) + 1
  BY <1>1, <1>2, <1>4, <1>6, UseKeeps
<1>8. Len(g) \in Nat /\ Len(g) <= MaxEntries + 1
  BY <1>1, <1>7
<1>9. /\ Fit(CacheEntries(ck), Uses(ck), c2, r2, Alive(st2, tm))
      /\ Len(c2) <= MaxEntries /\ PartOf(g, c2)
  <2>1. CASE Len(g) > MaxEntries
    <3>1. Len(g) = MaxEntries + 1 /\ c2 = Tail(g)
      BY <1>1, <1>5, <1>8, <2>1
    <3>2. /\ Fit(CacheEntries(ck), Uses(ck), c2, r2, Alive(st2, tm))
          /\ Len(c2) = MaxEntries /\ PartOf(g, c2)
      BY <1>7, <3>1, EvictKeeps
    <3> QED
      BY <1>1, <3>2
  <2>2. CASE ~(Len(g) > MaxEntries)
    <3>1. c2 = g
      BY <1>5, <2>2
    <3>2. PartOf(g, g)
      BY DEF PartOf
    <3> QED
      BY <1>1, <1>7, <1>8, <2>2, <3>1, <3>2
  <2> QED
    BY <2>1, <2>2
<1>10. \A i \in DOMAIN c2 : c2[i] = x \/ \E j \in DOMAIN c : c2[i] = c[j]
  BY <1>7, <1>9 DEF PartOf, WithNew
<1>11. ASSUME NEW i \in DOMAIN c2
       PROVE  c2[i].key = ck[c2[i].by] /\ \E t \in st2[c2[i].by] : c2[i].expiry = t + TTL
  <2>1. CASE c2[i] = x
    BY <1>2, <1>3, <2>1
  <2>2. CASE \E j \in DOMAIN c : c2[i] = c[j]
    <3>1. PICK j \in DOMAIN c : c2[i] = c[j]
      BY <2>2
    <3>2. PICK t \in 0..tm : st[c[j].by] = {t} /\ c[j].expiry = t + TTL
      BY <1>1
    <3>3. c[j].by \in DOMAIN ck /\ c[j].by # q /\ c[j].key = ck[c[j].by]
      BY <1>1, <3>2
    <3> QED
      BY <1>3, <3>1, <3>2, <3>3
  <2> QED
    BY <1>10, <2>1, <2>2
<1>12. ASSUME NEW i \in DOMAIN r2 PROVE r2[i].key = ck[r2[i].by] /\ st2[r2[i].by] # {}
  <2>1. CASE r2[i] = u
    BY <1>2, <1>3, <2>1
  <2>2. CASE \E j \in DOMAIN r : r2[i] = r[j]
    BY <1>1, <1>3, <2>2
  <2> QED
    BY <1>7, <2>1, <2>2 DEF WithNew
<1>13. ASSUME NEW p \in DOMAIN ck PROVE \E t \in 0..tm : st2[p] \in {{}, {t}}
  BY <1>1, <1>3 DEF Sound
<1>14. ASSUME NEW p \in DOMAIN ck, NEW h \in ht[p]
       PROVE  /\ h.by \in DOMAIN ck /\ ck[h.by] = ck[p]
              /\ \E s \in st2[h.by] : s <= h.when /\ h.when < s + TTL
  <2>1. /\ h.by \in DOMAIN ck /\ ck[h.by] = ck[p]
        /\ \E s \in st[h.by] : s <= h.when /\ h.when < s + TTL
    BY DEF Sound
  <2> QED
    BY <1>3, <2>1
<1>15. /\ \A i \in DOMAIN c2 : /\ c2[i].key = ck[c2[i].by]
                               /\ \E s \in st2[c2[i].by] : c2[i].expiry = s + TTL
       /\ \A i \in DOMAIN r2 : r2[i].key = ck[r2[i].by] /\ st2[r2[i].by] # {}
       /\ \A p \in DOMAIN ck : \E t \in 0..tm : st2[p] \in {{}, {t}}
       /\ \A p \in DOMAIN ck : \A h \in ht[p] :
            /\ h.by \in DOMAIN ck /\ ck[h.by] = ck[p]
            /\ \E s \in st2[h.by] : s <= h.when /\ h.when < s + TTL
  BY <1>11, <1>12, <1>13, <1>14
<1>16. tm \in 0..MaxTime /\ DOMAIN ht = DOMAIN ck
  BY DEF Sound
<1> QED
  BY <1>3, <1>9, <1>15, <1>16 DEF Sound, Fit, CacheEntries, Uses

-----------------------------------------------------------------------------
\* The invariant of the cache is inductive.

\* The cache starts empty.
LEMMA InitCache == Init => CacheInv
<1> SUFFICES ASSUME Init PROVE CacheInv
  OBVIOUS
<1> DEFINE ck == [q \in DOMAIN job |-> CacheKey(q)]
           st == [q \in DOMAIN job |-> state[q].stored]
           ht == [q \in DOMAIN job |-> state[q].hits]
<1>1. \A q \in DOMAIN job : state[q].stored = {} /\ state[q].hits = {}
  BY DEF Init, Fresh
<1>2. \A q \in DOMAIN ck : st[q] = {} /\ ht[q] = {}
  BY <1>1
<1>3. DOMAIN st = DOMAIN ck /\ DOMAIN ht = DOMAIN ck
  OBVIOUS
<1>4. cache = <<>> /\ recent = <<>> /\ now = 0 /\ 0 \in 0..MaxTime /\ MaxEntries \in Nat /\ Len(<<>>) = 0
  BY CacheSizesPos, AgentBoundsNat DEF Init
<1> HIDE DEF ck, st, ht
<1>5. Sound(ck, <<>>, <<>>, 0, st, ht)
  BY <1>2, <1>3, <1>4, EmptySeq DEF Sound, Distinct, Ordered, Stays
<1> QED
  BY <1>4, <1>5 DEF CacheInv, ck, st, ht

\* A step that leaves the requests alone but for what r stores and is served.
LEMMA CacheAfter ==
    ASSUME AnswerInv, job' = job, NEW r \in DOMAIN job, NEW stored, NEW hits, Answers(r, stored, hits),
           Sound([q \in DOMAIN job |-> CacheKey(q)], cache', recent', now',
                 [[q \in DOMAIN job |-> state[q].stored] EXCEPT ![r] = stored],
                 [[q \in DOMAIN job |-> state[q].hits] EXCEPT ![r] = hits])
    PROVE  CacheInv'
<1>1. PICK n : Becomes(r, n) /\ n.stored = stored /\ n.hits = hits
  BY DEF Answers
<1>2. state' = [state EXCEPT ![r] = n] /\ DOMAIN state = DOMAIN job
  BY <1>1 DEF Becomes, AnswerInv
<1>3. /\ [q \in DOMAIN job' |-> state'[q].stored]
         = [[q \in DOMAIN job |-> state[q].stored] EXCEPT ![r] = stored]
      /\ [q \in DOMAIN job' |-> state'[q].hits]
         = [[q \in DOMAIN job |-> state[q].hits] EXCEPT ![r] = hits]
  BY <1>1, <1>2
<1>4. [q \in DOMAIN job |-> CacheKey(q)]' = [q \in DOMAIN job |-> CacheKey(q)]
  BY DEF CacheKey
<1>5. CacheInv' <=> Sound([q \in DOMAIN job |-> CacheKey(q)]', cache', recent', now',
                          [q \in DOMAIN job' |-> state'[q].stored], [q \in DOMAIN job' |-> state'[q].hits])
  BY DEF CacheInv, Sound
<1> QED
  BY <1>3, <1>4, <1>5

\* Every step keeps the cache sound.
LEMMA NextCache == AnswerInv /\ CacheInv /\ [Next]_vars => CacheInv'
<1> SUFFICES ASSUME AnswerInv, CacheInv, [Next]_vars PROVE CacheInv'
  OBVIOUS
<1> DEFINE ck == [q \in DOMAIN job |-> CacheKey(q)]
           st == [q \in DOMAIN job |-> state[q].stored]
           ht == [q \in DOMAIN job |-> state[q].hits]
<1>0. Sound(ck, cache, recent, now, st, ht)
  BY DEF CacheInv
<1>1. /\ \A q \in DOMAIN job : ck[q] = CacheKey(q) /\ st[q] = state[q].stored /\ ht[q] = state[q].hits
      /\ DOMAIN ck = DOMAIN job /\ DOMAIN st = DOMAIN job /\ DOMAIN ht = DOMAIN job
  OBVIOUS
<1>2. ASSUME job' = job, state' = state, Sound(ck, cache', recent', now', st, ht) PROVE CacheInv'
  <2>1. /\ [q \in DOMAIN job |-> CacheKey(q)]' = [q \in DOMAIN job |-> CacheKey(q)]
        /\ [q \in DOMAIN job' |-> state'[q].stored] = [q \in DOMAIN job |-> state[q].stored]
        /\ [q \in DOMAIN job' |-> state'[q].hits] = [q \in DOMAIN job |-> state[q].hits]
    BY <1>2 DEF CacheKey
  <2>2. CacheInv' <=> Sound([q \in DOMAIN job |-> CacheKey(q)]', cache', recent', now',
                            [q \in DOMAIN job' |-> state'[q].stored],
                            [q \in DOMAIN job' |-> state'[q].hits])
    BY DEF CacheInv, Sound
  <2> QED
    BY <1>2, <2>1, <2>2
<1>3. ASSUME job' = job, NEW r \in DOMAIN job, NEW stored, NEW hits, Answers(r, stored, hits),
             Sound(ck, cache', recent', now', [st EXCEPT ![r] = stored], [ht EXCEPT ![r] = hits])
      PROVE  CacheInv'
  BY <1>3, CacheAfter
<1> HIDE DEF ck, st, ht
<1>4. ASSUME job' = job, NEW r \in DOMAIN job, Keeps(r), Sound(ck, cache', recent', now', st, ht)
      PROVE  CacheInv'
  <2>1. Answers(r, state[r].stored, state[r].hits)
    BY <1>4 DEF Keeps, Answers
  <2>2. [st EXCEPT ![r] = state[r].stored] = st /\ [ht EXCEPT ![r] = state[r].hits] = ht
    <3>1. st = [q \in DOMAIN st |-> st[q]] /\ ht = [q \in DOMAIN ht |-> ht[q]]
      BY DEF st, ht
    <3> QED
      BY <1>1, <3>1
  <2> QED
    BY <1>3, <1>4, <2>1, <2>2
<1>5. CASE UNCHANGED vars
  BY <1>0, <1>2, <1>5 DEF vars
<1>6. CASE Tick
  <2>1. /\ job' = job /\ state' = state /\ cache' = cache /\ recent' = recent /\ now' = now + 1
        /\ now < MaxTime
    BY <1>6 DEF Tick
  <2>2. Sound(ck, cache, recent, now + 1, st, ht)
    BY <1>0, <2>1, SoundTick
  <2> QED
    BY <1>2, <2>1, <2>2
<1>7. CASE \E r \in DOMAIN job : Keeps(r) /\ Private
  BY <1>0, <1>4, <1>7 DEF Private
<1>8. CASE \E r \in DOMAIN job : Lookup(r)
  <2>1. PICK r \in DOMAIN job : Lookup(r)
    BY <1>8
  <2> DEFINE key == CacheKey(r)
             x == cache[EntryOf(cache, key)]
  <2>2. job' = job /\ now' = now /\ Answering(state[r]) /\ key = ck[r] /\ r \in DOMAIN ck
    BY <1>1, <2>1 DEF Lookup, AnswerInv
  <2>3. CASE "cache" \in flags /\ Live(cache, key, now)
    <3> DEFINE hits == {[by |-> x.by, when |-> now]}
    <3>1. /\ cache' = Append(Others(cache, key), x)
          /\ recent' = Append(Others(recent, key), [key |-> key, by |-> x.by])
      BY <2>1, <2>3 DEF Lookup, Get
    <3>2. Answers(r, state[r].stored, hits)
      BY <2>1, <2>2, <2>3, LookupAnswers
    <3>3. Sound(ck, cache', recent', now, st, [ht EXCEPT ![r] = hits])
      BY <1>0, <2>2, <2>3, <3>1, SoundHit
    <3>4. [st EXCEPT ![r] = state[r].stored] = st
      <4>1. st = [q \in DOMAIN st |-> st[q]]
        BY DEF st
      <4> QED
        BY <1>1, <4>1
    <3> QED
      BY <1>3, <2>2, <3>2, <3>3, <3>4
  <2>4. CASE ~("cache" \in flags /\ Live(cache, key, now))
    <3>1. Keeps(r) /\ recent' = recent
      BY <2>1, <2>2, <2>4, LookupAnswers DEF Lookup
    <3>2. CASE "cache" \in flags
      <4>1. cache' = Others(cache, key) /\ ~Live(cache, key, now)
        BY <2>1, <2>4, <3>2 DEF Lookup, Get
      <4>2. Sound(ck, cache', recent, now, st, ht)
        BY <1>0, <4>1, SoundDrop
      <4> QED
        BY <1>4, <2>2, <3>1, <4>2
    <3>3. CASE "cache" \notin flags
      <4>1. cache' = cache
        BY <2>1, <3>3 DEF Lookup
      <4> QED
        BY <1>0, <1>4, <2>2, <3>1, <4>1
    <3> QED
      BY <3>2, <3>3
  <2> QED
    BY <2>3, <2>4
<1>9. CASE \E r \in DOMAIN job : Generate(r)
  <2>1. PICK r \in DOMAIN job : Generate(r)
    BY <1>9
  <2> DEFINE key == CacheKey(r)
  <2>2. job' = job /\ now' = now /\ Answering(state[r]) /\ key = ck[r] /\ r \in DOMAIN ck
    BY <1>1, <2>1 DEF Generate, AnswerInv
  <2>3. Answers(r, IF "cache" \in flags THEN {now} ELSE state[r].stored, state[r].hits)
    BY <2>1, <2>2, GenerateAnswers
  <2>4. [ht EXCEPT ![r] = state[r].hits] = ht
    <3>1. ht = [q \in DOMAIN ht |-> ht[q]]
      BY DEF ht
    <3> QED
      BY <1>1, <3>1
  <2>5. CASE "cache" \in flags
    <3>1. /\ cache' = Set(cache, key, r, now)
          /\ recent' = Append(Others(recent, key), [key |-> key, by |-> r])
      BY <2>1, <2>5 DEF Generate
    <3>2. st[r] = {}
      BY <1>1, <2>1, <2>2 DEF Generate, Answering, Late
    <3>3. Sound(ck, cache', recent', now, [st EXCEPT ![r] = {now}], ht)
      BY <1>0, <2>2, <3>1, <3>2, SoundSet
    <3>4. Answers(r, {now}, state[r].hits)
      BY <2>3, <2>5
    <3> QED
      BY <1>3, <2>2, <2>4, <3>3, <3>4
  <2>6. CASE "cache" \notin flags
    <3>1. cache' = cache /\ recent' = recent
      BY <2>1, <2>6 DEF Generate
    <3>2. Keeps(r)
      BY <2>3, <2>6 DEF Keeps, Answers
    <3> QED
      BY <1>0, <1>4, <2>2, <3>1, <3>2
  <2> QED
    BY <2>5, <2>6
<1> QED
  BY <1>5, <1>6, <1>7, <1>8, <1>9, StepShape

\* A request is served only what was made for its own tenant, mode and question,
\* less than TTL ago; the cache keeps to its size with one entry for a key, and the
\* answers of the MaxEntries keys used last stay in it until their time is over:
\* answer_cache.py as generate_answer uses it, for any requests, sizes and clock.
THEOREM SpecCacheSound == Spec => []CacheSound
<1>1. AnswerInv /\ CacheInv => CacheSound
  <2> SUFFICES ASSUME AnswerInv, CacheInv PROVE CacheSound
    OBVIOUS
  <2> DEFINE ck == [q \in DOMAIN job |-> CacheKey(q)]
             st == [q \in DOMAIN job |-> state[q].stored]
             ht == [q \in DOMAIN job |-> state[q].hits]
  <2>0. Sound(ck, cache, recent, now, st, ht)
    BY DEF CacheInv
  <2>1. /\ \A q \in DOMAIN job : ck[q] = CacheKey(q) /\ st[q] = state[q].stored /\ ht[q] = state[q].hits
        /\ DOMAIN ck = DOMAIN job /\ DOMAIN st = DOMAIN job
    OBVIOUS
  <2> HIDE DEF ck, st, ht
  <2>2. TypeOK
    BY <2>0 DEF TypeOK, AnswerInv, Answering, Sound, Distinct
  <2>3. HitsOwnAndFresh
    <3> SUFFICES ASSUME NEW r \in DOMAIN job, NEW h \in state[r].hits
                 PROVE  /\ job[h.by].tag = job[r].tag /\ job[h.by].mode = job[r].mode
                        /\ Normal[job[h.by].query] = Normal[job[r].query]
                        /\ \E t \in state[h.by].stored : t <= h.when /\ h.when < t + TTL
      BY DEF HitsOwnAndFresh
    <3>1. /\ h.by \in DOMAIN ck /\ ck[h.by] = ck[r]
          /\ \E t \in st[h.by] : t <= h.when /\ h.when < t + TTL
      BY <2>0, <2>1 DEF Sound
    <3>2. CacheKey(h.by) = CacheKey(r)
      BY <2>1, <3>1
    <3> QED
      BY <2>1, <3>1, <3>2 DEF CacheKey
  <2>4. RecentKeysStay
    <3> SUFFICES ASSUME NEW i \in DOMAIN recent, i + MaxEntries > Len(recent),
                        \E t \in state[recent[i].by].stored : now < t + TTL
                 PROVE  \E j \in DOMAIN cache : cache[j].key = recent[i].key
                                                /\ cache[j].by = recent[i].by
      BY DEF RecentKeysStay
    <3>1. Known(ck, cache, recent, now, st)
      BY <2>0, SoundParts
    <3>2. recent[i].by \in DOMAIN job
      BY <2>1, <3>1 DEF Known
    <3>3. recent[i].by \in Alive(st, now)
      BY <2>1, <3>2 DEF Alive
    <3> QED
      BY <2>0, <3>3 DEF Sound, Stays
  <2> QED
    BY <2>2, <2>3, <2>4 DEF CacheSound
<1> QED
  BY <1>1, InitAnswer, NextAnswer, InitCache, NextCache, PTL DEF Spec

-----------------------------------------------------------------------------
(* The evaluation. *)

\* The fields of a job.
JobFields == {"at", "case", "base", "results", "rows", "aggregate", "counts",
              "stamp", "trend", "end"}

\* What becomes of a record: the numbers of its row, or an error.
Outcomes ==
    [scores : Aggregates,
     error : {"none", "failed", "invalid_record", "score_count_mismatch", "scoring_failed"}]

\* Records that are assembled: no scores yet.
Assembled(results) ==
    results \in Seq(Outcomes) /\ \A i \in DOMAIN results : results[i].scores = NoMeans

\* Records that are settled: none has both scores and an error.
Accounted(results) ==
    /\ results \in Seq(Outcomes)
    /\ \A i \in DOMAIN results : results[i].error # "none" => DOMAIN results[i].scores = {}

\* Records without scores or an error, and those that a metric has no number for.
Blank(results) == {i \in DOMAIN results : results[i].error = "none" /\ DOMAIN results[i].scores = {}}
BlankRows(rows) == {n \in DOMAIN rows : Numeric(rows[n]) = {}}
RowsWith(rows, m) == {n \in DOMAIN rows : m \in Numeric(rows[n])}

\* What the rows hold is in the records, once.
Kept(results, rows) ==
    /\ Cardinality(Blank(results)) = Cardinality(BlankRows(rows))
    /\ \A m \in Metrics : Cardinality(Scored(results, m)) = Cardinality(RowsWith(rows, m))

\* The counts are the numbers of records with a score.
Counted(results, counts) ==
    \A m \in Metrics : IF m \in DOMAIN counts THEN counts[m] = Cardinality(Scored(results, m))
                       ELSE Cardinality(Scored(results, m)) = 0

\* A job that has its records, and then its means, over as many of them as have a score.
JobOK(s, time) ==
    /\ DOMAIN s = JobFields
    /\ s.at = "assembling" => Assembled(s.results)
    /\ s.at \in {"scored", "reporting"} =>
        Accounted(s.results) /\ Kept(s.results, s.rows) /\ Counted(s.results, s.counts)
    /\ DOMAIN s.counts = DOMAIN s.aggregate
    /\ \A m \in DOMAIN s.counts : s.counts[m] \in Nat /\ s.counts[m] > 0
    /\ s.at # "ended" => s.end = "none"
    /\ s.end = "exit0" => Misses(s.aggregate, s.case.floors) = {}
    /\ s.at \in {"archiving", "archived"} => s.stamp \in Nat /\ 1 <= s.stamp /\ s.stamp <= time

\* A job that will compare itself with the history.
Comparing(s) ==
    /\ s.at \in {"assembling", "scored", "reporting", "reported", "archiving"}
    /\ s.case.baseline = "history"

\* The history as one gate after the other leaves it: the one that runs compares itself with
\* what is the newest run still, and is archived behind it.
Orderly ==
    /\ \A i, j \in Jobs : Running(i) /\ Running(j) => i = j
    /\ \A j \in Jobs : Comparing(jobs[j]) => jobs[j].base = LatestBaseline(history)
    /\ \A j \in Jobs : In(j, "archiving") =>
        history[jobs[j].stamp] = Torn /\ \A t \in UsableFiles(history) : t < jobs[j].stamp

\* What holds of the jobs and their directories in every state.
EvalInv ==
    /\ DOMAIN jobs = Jobs /\ \A j \in Jobs : JobOK(jobs[j], clock)
    /\ DOMAIN history = 0..MaxClock /\ clock \in Nat /\ 1 <= clock /\ clock <= MaxClock
    /\ \A t \in 0..MaxClock : t > clock => history[t] = Missing
    /\ tangled \in BOOLEAN
    /\ ~tangled => Orderly
    /\ NeighboursHold
-----------------------------------------------------------------------------
\* In a finite set of numbers, the place of one is the number of those up to it: the places are
\* those from 1 on, each taken once, and in order.
Rank(S) == [t \in S |-> Cardinality({u \in S : u <= t})]

LEMMA RanksInOrder ==
    ASSUME NEW S \in SUBSET Nat, IsFiniteSet(S)
    PROVE  /\ Cardinality(S) \in Nat
           /\ Rank(S) \in Bijection(S, 1..Cardinality(S))
           /\ \A t, u \in S : t < u => Rank(S)[t] < Rank(S)[u]
<1> DEFINE Upto(t) == {u \in S : u <= t}
           rank == [t \in S |-> Cardinality(Upto(t))]
<1>1. PICK n \in Nat : n = Cardinality(S)
  BY FS_CardinalityType
<1>2. \A t \in S : IsFiniteSet(Upto(t)) /\ Cardinality(Upto(t)) \in Nat /\ Cardinality(Upto(t)) <= n
  <2> TAKE t \in S
  <2>1. Upto(t) \in SUBSET S
    OBVIOUS
  <2>2. IsFiniteSet(Upto(t)) /\ Cardinality(Upto(t)) <= Cardinality(S)
    BY ONLY <2>1, IsFiniteSet(S), FS_Subset
  <2> QED
    BY <1>1, <2>2, FS_CardinalityType
<1>3. \A t \in S : Cardinality(Upto(t)) >= 1
  <2> TAKE t \in S
  <2>1. t \in Upto(t)
    OBVIOUS
  <2>2. Cardinality(Upto(t)) # 0
    BY <1>2, <2>1, FS_EmptySet
  <2> QED
    BY <1>2, <2>2
<1>4. ASSUME NEW t \in S, NEW u \in S, t < u PROVE Cardinality(Upto(t)) < Cardinality(Upto(u))
  <2>1. u \notin Upto(t) /\ Upto(t) \cup {u} \in SUBSET Upto(u)
    <3>1. t \in Nat /\ u \in Nat /\ ~(u <= t) /\ u <= u
      BY <1>4
    <3>2. ASSUME NEW v \in S, v <= t PROVE v <= u
      <4>1. v \in Nat /\ v <= t /\ t < u
        BY <1>4, <3>2
      <4> QED
        BY ONLY <3>1, <4>1
    <3> QED
      BY <3>1, <3>2
  <2>2. IsFiniteSet(Upto(t)) /\ IsFiniteSet(Upto(u))
    BY <1>2
  <2>3. PICK T : T = Upto(t) \cup {u}
    OBVIOUS
  <2>4. Cardinality(T) = Cardinality(Upto(t)) + 1
    BY ONLY <2>1, <2>2, <2>3, FS_AddElement
  <2>5. Cardinality(T) <= Cardinality(Upto(u))
    BY ONLY <2>1, <2>2, <2>3, FS_Subset
  <2>6. Cardinality(Upto(t)) \in Nat /\ Cardinality(Upto(u)) \in Nat
    BY <1>2
  <2> QED
    BY ONLY <2>4, <2>5, <2>6
<1> HIDE DEF Upto
<1>5. rank \in [S -> 1..n]
  <2>1. \A t \in S : Cardinality(Upto(t)) \in 1..n
    BY <1>1, <1>2, <1>3
  <2> QED
    BY <2>1
<1>6. ASSUME NEW t \in S, NEW u \in S, t < u PROVE rank[t] < rank[u]
  BY <1>4, <1>6
<1> HIDE DEF rank
<1>7. ASSUME NEW t \in S, NEW u \in S, rank[t] = rank[u] PROVE t = u
  <2>1. t \in Nat /\ u \in Nat /\ rank[t] \in Nat /\ rank[u] \in Nat
    BY <1>1, <1>5
  <2>2. ~(t < u) /\ ~(u < t)
    BY <1>6, <1>7, <2>1
  <2> QED
    BY <2>1, <2>2
<1>8. rank \in Injection(S, 1..n)
  BY <1>5, <1>7 DEF Injection, IsInjective
<1>9. IsFiniteSet(1..n) /\ Cardinality(1..n) = n
  BY <1>1, FS_Interval
<1>10. rank \in Surjection(S, 1..n)
  BY ONLY <1>1, <1>8, <1>9, FS_Injection
<1>12. Rank(S) = rank
  BY DEF rank, Upto, Rank
<1> QED
  BY <1>1, <1>6, <1>8, <1>10, <1>12 DEF Bijection

\* Such a set has a sequence in increasing order.
LEMMA SortedExists ==
    ASSUME NEW S \in SUBSET Nat, IsFiniteSet(S)
    PROVE  \E files \in [1..Cardinality(S) -> S] :
             \A m, n \in DOMAIN files : m < n => files[m] < files[n]
<1>1. PICK n \in Nat : n = Cardinality(S)
  BY FS_CardinalityType
<1>2. PICK rank : rank = Rank(S)
  OBVIOUS
<1>3. rank \in Bijection(S, 1..n) /\ \A t, u \in S : t < u => rank[t] < rank[u]
  BY <1>1, <1>2, RanksInOrder
<1>11. \A m \in 1..n : \E t \in S : rank[t] = m
  BY <1>3 DEF Bijection, Surjection
<1> DEFINE Files == [m \in 1..n |-> CHOOSE t \in S : rank[t] = m]
<1>12. \A m \in 1..n : Files[m] \in S /\ rank[Files[m]] = m
  BY <1>11
<1>13. Files \in [1..n -> S]
  BY <1>11
<1> HIDE DEF Files
<1>14. ASSUME NEW m \in 1..n, NEW k \in 1..n, m < k PROVE Files[m] < Files[k]
  <2>1. PICK t \in S, u \in S : t = Files[m] /\ u = Files[k] /\ rank[t] = m /\ rank[u] = k
    BY <1>12
  <2>2. t \in Nat /\ u \in Nat /\ m \in Nat /\ k \in Nat
    BY <1>1
  <2>3. ~(u < t) /\ u # t
    BY <1>3, <1>14, <2>1, <2>2
  <2> QED
    BY <2>1, <2>2, <2>3
<1>15. DOMAIN Files = 1..n
  BY <1>13
<1> QED
  BY <1>1, <1>13, <1>14, <1>15

\* The history in the order of its runs.
LEMMA HistorySorted ==
    ASSUME NEW h, DOMAIN h \subseteq Nat, IsFiniteSet(DOMAIN h)
    PROVE  \E n \in Nat :
             /\ n = Cardinality(UsableFiles(h))
             /\ LoadHistory(h) \in [1..n -> UsableFiles(h)]
             /\ \A m, k \in 1..n : m < k => LoadHistory(h)[m] < LoadHistory(h)[k]
             /\ \A t \in UsableFiles(h) : \E m \in 1..n : LoadHistory(h)[m] = t
<1>1. PICK S \in SUBSET Nat : S = UsableFiles(h)
  BY DEF UsableFiles
<1>2. IsFiniteSet(S)
  <2>1. S \in SUBSET (DOMAIN h)
    BY <1>1 DEF UsableFiles
  <2> QED
    BY ONLY <2>1, IsFiniteSet(DOMAIN h), FS_Subset
<1>3. PICK n \in Nat : n = Cardinality(S)
  BY <1>2, FS_CardinalityType
<1>4. \E files \in [1..n -> S] : \A m, k \in DOMAIN files : m < k => files[m] < files[k]
  BY ONLY <1>2, <1>3, SortedExists
<1>5. PICK files : files = LoadHistory(h)
  OBVIOUS
<1>6. files \in [1..n -> S] /\ \A m, k \in DOMAIN files : m < k => files[m] < files[k]
  BY <1>1, <1>3, <1>4, <1>5 DEF LoadHistory
<1>7. DOMAIN files = 1..n
  BY <1>6
<1>8. files \in Injection(1..n, S)
  <2>1. ASSUME NEW m \in 1..n, NEW k \in 1..n, files[m] = files[k] PROVE m = k
    <3>1. files[m] \in Nat /\ files[k] \in Nat /\ m \in Nat /\ k \in Nat
      BY <1>1, <1>6
    <3>2. ~(m < k) /\ ~(k < m)
      BY <1>6, <1>7, <2>1, <3>1
    <3> QED
      BY <3>1, <3>2
  <2> QED
    BY <1>6, <1>7, <2>1 DEF Injection, IsInjective
<1>9. IsFiniteSet(1..n) /\ Cardinality(1..n) = n
  BY FS_Interval
<1>10. files \in Surjection(1..n, S)
  BY ONLY <1>2, <1>3, <1>8, <1>9, FS_Injection
<1>11. \A t \in S : \E m \in 1..n : files[m] = t
  BY <1>10 DEF Surjection
<1> QED
  BY <1>1, <1>3, <1>5, <1>6, <1>7, <1>11

\* Where there is a usable run, the last of the history is the newest of them.
LEMMA NewestIsLast ==
    ASSUME NEW h, DOMAIN h \subseteq Nat, IsFiniteSet(DOMAIN h)
    PROVE  /\ UsableFiles(h) = {} => LoadHistory(h) = <<>>
           /\ UsableFiles(h) # {} =>
                /\ LoadHistory(h) # <<>> /\ Len(LoadHistory(h)) \in Nat /\ Len(LoadHistory(h)) > 0
                /\ Last(LoadHistory(h)) \in UsableFiles(h)
                /\ \A t \in UsableFiles(h) : t <= Last(LoadHistory(h))
<1>1. PICK S \in SUBSET Nat : S = UsableFiles(h)
  BY DEF UsableFiles
<1>2. PICK files : files = LoadHistory(h)
  OBVIOUS
<1>3. PICK n \in Nat : /\ n = Cardinality(S) /\ files \in [1..n -> S]
                       /\ \A m, k \in 1..n : m < k => files[m] < files[k]
                       /\ \A t \in S : \E m \in 1..n : files[m] = t
  BY <1>1, <1>2, HistorySorted
<1>4. files \in Seq(S) /\ Len(files) = n
  BY <1>3
<1>5. ASSUME S = {} PROVE files = <<>>
  <2>1. n = 0
    BY <1>3, <1>5, FS_EmptySet
  <2> QED
    BY <1>4, <2>1
<1>6. ASSUME S # {}
      PROVE  /\ files # <<>> /\ Len(files) \in Nat /\ Len(files) > 0
             /\ Last(files) \in S /\ \A t \in S : t <= Last(files)
  <2>1. n > 0 /\ n \in 1..n
    <3>1. PICK t \in S : TRUE
      BY <1>6
    <3>2. PICK m \in 1..n : files[m] = t
      BY <1>3, <3>1
    <3> QED
      BY <3>2
  <2>2. Last(files) = files[n] /\ files[n] \in S
    BY <1>3, <1>4, <2>1 DEF Last
  <2>3. ASSUME NEW t \in S PROVE t <= files[n]
    <3>1. PICK m \in 1..n : files[m] = t
      BY <1>3
    <3>2. m = n \/ m < n
      OBVIOUS
    <3>3. t \in Nat /\ files[n] \in Nat
      BY <2>2
    <3> QED
      BY <1>3, <2>1, <3>1, <3>2, <3>3
  <2> QED
    BY <1>4, <2>1, <2>2, <2>3
<1> QED
  BY <1>1, <1>2, <1>5, <1>6

\* What a gate compares itself with are the means of the newest run, if there is one.
LEMMA BaselineIsNewest ==
    ASSUME NEW h, DOMAIN h \subseteq Nat, IsFiniteSet(DOMAIN h)
    PROVE  /\ UsableFiles(h) = {} => LatestBaseline(h) = {}
           /\ \A t \in UsableFiles(h) :
                (\A u \in UsableFiles(h) : u <= t) => LatestBaseline(h) = {h[t].aggregate}
<1>1. CASE UsableFiles(h) = {}
  BY <1>1, NewestIsLast DEF LatestBaseline
<1>2. CASE UsableFiles(h) # {}
  <2>1. /\ LoadHistory(h) # <<>> /\ Last(LoadHistory(h)) \in UsableFiles(h)
        /\ \A t \in UsableFiles(h) : t <= Last(LoadHistory(h))
    BY <1>2, NewestIsLast
  <2>2. PICK last \in UsableFiles(h) : last = Last(LoadHistory(h)) /\ \A t \in UsableFiles(h) : t <= last
    BY <2>1
  <2>3. LatestBaseline(h) = {h[last].aggregate}
    BY <2>1, <2>2 DEF LatestBaseline
  <2>4. ASSUME NEW t \in UsableFiles(h), \A u \in UsableFiles(h) : u <= t PROVE t = last
    <3>1. t <= last /\ last <= t /\ t \in Nat /\ last \in Nat
      BY <2>2, <2>4 DEF UsableFiles
    <3> QED
      BY <3>1
  <2> QED
    BY <1>2, <2>3, <2>4
<1> QED
  BY <1>1, <1>2

\* A file that is not usable can be replaced by another such, the history as a list of runs and
\* what a gate compares itself with stay.
LEMMA SameRuns ==
    ASSUME NEW h, NEW g, DOMAIN h \subseteq Nat, IsFiniteSet(DOMAIN h),
           UsableFiles(g) = UsableFiles(h), \A t \in UsableFiles(h) : g[t] = h[t]
    PROVE  LatestBaseline(g) = LatestBaseline(h)
<1>1. LoadHistory(g) = LoadHistory(h)
  BY DEF LoadHistory
<1>2. CASE UsableFiles(h) = {}
  BY <1>1, <1>2, NewestIsLast DEF LatestBaseline
<1>3. CASE UsableFiles(h) # {}
  <2>1. LoadHistory(h) # <<>> /\ Last(LoadHistory(h)) \in UsableFiles(h)
    BY <1>3, NewestIsLast
  <2> QED
    BY <1>1, <2>1 DEF LatestBaseline
<1> QED
  BY <1>2, <1>3

\* The means and their counts are of the same metrics: those that some record has a score of.
LEMMA CountsAreScores ==
    ASSUME NEW results, Accounted(results)
    PROVE  /\ DOMAIN Summarize(results) = DOMAIN Aggregate(results)
           /\ Counted(results, Summarize(results))
           /\ \A m \in DOMAIN Summarize(results) :
                Summarize(results)[m] \in Nat /\ Summarize(results)[m] > 0
<1>1. DOMAIN Summarize(results) = DOMAIN Aggregate(results)
  BY DEF Summarize, Aggregate
<1>2. IsFiniteSet(DOMAIN results)
  <2>1. PICK n \in Nat : n = Len(results)
    BY LenProperties DEF Accounted
  <2>2. DOMAIN results = 1..n
    BY <2>1, LenProperties DEF Accounted
  <2> QED
    BY <2>2, FS_Interval
<1>3. ASSUME NEW m \in Metrics
      PROVE  /\ m \in DOMAIN Summarize(results) <=> Cardinality(Scored(results, m)) # 0
             /\ Cardinality(Scored(results, m)) \in Nat
             /\ m \in DOMAIN Summarize(results) =>
                  Summarize(results)[m] = Cardinality(Scored(results, m))
  <2>1. PICK K : K = Scored(results, m)
    OBVIOUS
  <2>2. K \in SUBSET (DOMAIN results)
    BY <2>1 DEF Scored
  <2>3. IsFiniteSet(K)
    BY ONLY <1>2, <2>2, FS_Subset
  <2>4. Cardinality(K) \in Nat /\ (Cardinality(K) = 0 <=> K = {})
    BY ONLY <2>3, FS_CardinalityType, FS_EmptySet
  <2> QED
    BY <2>1, <2>4 DEF Summarize
<1>4. DOMAIN Summarize(results) \subseteq Metrics
  BY DEF Summarize
<1> QED
  BY <1>1, <1>3, <1>4 DEF Counted

\* What a row holds: numbers of some of the metrics, and no more.
LEMMA RowsHaveScores ==
    /\ DOMAIN NoMeans = {} /\ NoMeans \in Aggregates
    /\ \A row \in Rows : Scores(row) \in Aggregates /\ DOMAIN Scores(row) = Numeric(row)
    /\ \A what : Result(what).scores = NoMeans /\ Result(what).error = what
<1>1. NoMeans \in [{} -> Numbers] /\ {} \in SUBSET Metrics /\ DOMAIN NoMeans = {}
  BY DEF NoMeans
<1>2. ASSUME NEW row \in Rows PROVE Scores(row) \in Aggregates /\ DOMAIN Scores(row) = Numeric(row)
  <2>1. PICK S \in SUBSET Metrics : row \in [S -> Numbers \cup {NoNumber}]
    BY ScoresGiven
  <2>2. Numeric(row) \in SUBSET Metrics /\ \A m \in Numeric(row) : row[m] \in Numbers
    BY <2>1 DEF Numeric
  <2>3. PICK T : T = Numeric(row)
    OBVIOUS
  <2>4. Scores(row) = [m \in T |-> row[m]]
    BY <2>3 DEF Scores
  <2>5. Scores(row) \in [T -> Numbers]
    BY <2>2, <2>3, <2>4
  <2> QED
    BY <2>2, <2>3, <2>5 DEF Aggregates
<1> QED
  BY <1>1, <1>2 DEF Result, Aggregates

\* The samples at some of their places.
SamplesAt(results, k, P, A) ==
    /\ k \in Nat /\ DOMAIN results = 1..k /\ P \subseteq 1..Samples(results)
    /\ A = {i \in 1..k : results[i].error = "none" /\ Place(results, i) \in P}

\* The places of the samples are 1 to their number: those at some of these places are as many.
LEMMA PlacesMatch ==
    ASSUME NEW results, NEW k, NEW P, NEW A, SamplesAt(results, k, P, A)
    PROVE  Cardinality(A) = Cardinality(P)
<1> USE DEF SamplesAt
<1>1. PICK S : S = {i \in DOMAIN results : results[i].error = "none"}
  OBVIOUS
<1>2. S \in SUBSET Nat /\ S \in SUBSET (1..k) /\ IsFiniteSet(1..k)
  BY <1>1, FS_Interval
<1>3. IsFiniteSet(S)
  BY ONLY <1>2, FS_Subset
<1>4. PICK n \in Nat : n = Samples(results) /\ n = Cardinality(S)
  BY <1>1, <1>3, FS_CardinalityType DEF Samples
<1>5. PICK rank : rank = Rank(S)
  OBVIOUS
<1>6. rank \in Bijection(S, 1..n)
  BY <1>2, <1>3, <1>4, <1>5, RanksInOrder
<1>7. ASSUME NEW i \in S PROVE Place(results, i) = rank[i]
  <2>1. {u \in S : u <= i} = {h \in 1..i : results[h].error = "none"}
    BY <1>1, <1>2
  <2> QED
    BY <1>5, <2>1 DEF Rank, Place
<1>8. PICK R : R = {i \in S : rank[i] \in P}
  OBVIOUS
<1>9. R = A
  BY <1>1, <1>7, <1>8
<1>10. PICK part : part = [i \in R |-> rank[i]]
  OBVIOUS
<1>11. part \in Bijection(R, P)
  <2>1. part \in [R -> P]
    BY <1>8, <1>10
  <2>2. \A a, b \in R : part[a] = part[b] => a = b
    BY <1>6, <1>8, <1>10 DEF Bijection, Injection, IsInjective
  <2>3. \A p \in P : \E i \in R : part[i] = p
    BY <1>4, <1>6, <1>8, <1>10 DEF Bijection, Surjection
  <2> QED
    BY <2>1, <2>2, <2>3 DEF Bijection, Injection, Surjection, IsInjective
<1>12. R \in SUBSET S
  BY <1>8
<1>13. IsFiniteSet(R)
  BY ONLY <1>3, <1>12, FS_Subset
<1>14. Cardinality(R) = Cardinality(P)
  BY ONLY <1>11, <1>13, FS_Bijection DEF ExistsBijection
<1> QED
  BY <1>9, <1>14

\* Each record takes the row of its place; beyond the rows, an error.
LEMMA RowsArePlaced ==
    ASSUME NEW results, Assembled(results), NEW n \in 0..Samples(results),
           NEW rows \in [1..n -> Rows]
    PROVE  /\ Accounted(WithRows(results, rows)) /\ Kept(WithRows(results, rows), rows)
<1>1. PICK k \in Nat : k = Len(results) /\ DOMAIN results = 1..k
  BY LenProperties DEF Assembled
<1>10. 1..n \subseteq 1..Samples(results)
  <2>1. PICK K : K = {i \in DOMAIN results : results[i].error = "none"}
    OBVIOUS
  <2>2. K \in SUBSET (1..k)
    BY <1>1, <2>1
  <2>9. IsFiniteSet(1..k)
    BY FS_Interval
  <2>3. IsFiniteSet(K)
    BY ONLY <2>2, <2>9, FS_Subset
  <2>4. Samples(results) \in Nat
    BY <2>1, <2>3, FS_CardinalityType DEF Samples
  <2> QED
    BY <2>4
<1>2. \A i \in 1..k : results[i] \in Outcomes /\ results[i].scores = NoMeans
  BY <1>1, ElementOfSeq DEF Assembled
<1>3. Len(rows) = n /\ n \in Nat /\ DOMAIN rows = 1..n
  BY LenProperties
<1>4. PICK after : after = WithRows(results, rows)
  OBVIOUS
<1>5. DOMAIN after = 1..k
  BY <1>1, <1>4 DEF WithRows
<1>6. ASSUME NEW i \in 1..k
      PROVE  /\ after[i] \in Outcomes
             /\ after[i].error = "none" <=> results[i].error = "none" /\ Place(results, i) \in 1..n
             /\ after[i].error = "none" =>
                  after[i].scores = Scores(rows[Place(results, i)]) /\ rows[Place(results, i)] \in Rows
             /\ after[i].error # "none" => after[i].scores = NoMeans
  <2>1. PICK place : place = Place(results, i)
    OBVIOUS
  <2>2. after[i] = IF results[i].error # "none" THEN results[i]
                   ELSE IF place <= n THEN [results[i] EXCEPT !.scores = Scores(rows[place])]
                   ELSE Result("score_count_mismatch")
    BY <1>1, <1>3, <1>4, <2>1 DEF WithRows
  <2>3. results[i].error = "none" => place \in Nat /\ place # 0
    <3>1. PICK K : K = {m \in 1..i : results[m].error = "none"}
      OBVIOUS
    <3>2. i \in 1..i /\ K \in SUBSET (1..i) /\ IsFiniteSet(1..i)
      BY <3>1, FS_Interval
    <3>3. IsFiniteSet(K)
      BY ONLY <3>2, FS_Subset
    <3>4. Cardinality(K) \in Nat /\ (Cardinality(K) = 0 <=> K = {})
      BY ONLY <3>3, FS_CardinalityType, FS_EmptySet
    <3> QED
      BY <2>1, <3>1, <3>2, <3>4 DEF Place
  <2>4. CASE results[i].error # "none"
    BY <1>2, <2>2, <2>4
  <2>5. CASE results[i].error = "none" /\ place <= n
    <3>1. place \in 1..n /\ rows[place] \in Rows
      BY <1>3, <2>3, <2>5
    <3>2. PICK scores : scores = Scores(rows[place])
      OBVIOUS
    <3>3. scores \in Aggregates
      BY <3>1, <3>2, RowsHaveScores
    <3>4. after[i] = [results[i] EXCEPT !.scores = scores]
      BY <2>2, <2>5, <3>2
    <3>5. after[i] \in Outcomes /\ after[i].error = "none" /\ after[i].scores = scores
      BY <1>2, <2>5, <3>3, <3>4 DEF Outcomes
    <3> QED
      BY <2>1, <2>5, <3>1, <3>2, <3>5
  <2>6. CASE results[i].error = "none" /\ ~(place <= n)
    <3>1. Result("score_count_mismatch") \in Outcomes
      BY RowsHaveScores DEF Result, Outcomes
    <3> QED
      BY <1>3, <2>1, <2>2, <2>3, <2>6, <3>1, RowsHaveScores
  <2> QED
    BY <2>4, <2>5, <2>6
<1>7. Accounted(after)
  <2>1. after = [i \in 1..k |-> after[i]]
    BY <1>1, <1>4 DEF WithRows
  <2>2. after \in Seq(Outcomes)
    BY <1>6, <2>1
  <2> QED
    BY <1>5, <1>6, <2>2, RowsHaveScores DEF Accounted
<1>8. Cardinality(Blank(after)) = Cardinality(BlankRows(rows))
  <2>1. PICK P : P = BlankRows(rows)
    OBVIOUS
  <2>2. P \subseteq 1..Samples(results) /\ P = {p \in 1..n : Numeric(rows[p]) = {}}
    <3>1. P = {p \in 1..n : Numeric(rows[p]) = {}}
      BY <1>3, <2>1 DEF BlankRows
    <3> QED
      BY <1>10, <3>1
  <2>3. PICK A : A = {i \in 1..k : results[i].error = "none" /\ Place(results, i) \in P}
    OBVIOUS
  <2>4. Blank(after) = A
    BY <1>5, <1>6, <2>2, <2>3, RowsHaveScores DEF Blank
  <2>6. SamplesAt(results, k, P, A)
    BY <1>1, <2>2, <2>3 DEF SamplesAt
  <2>5. Cardinality(A) = Cardinality(P)
    BY <2>6, PlacesMatch
  <2> QED
    BY <2>1, <2>4, <2>5
<1>9. ASSUME NEW m \in Metrics PROVE Cardinality(Scored(after, m)) = Cardinality(RowsWith(rows, m))
  <2>1. PICK P : P = RowsWith(rows, m)
    OBVIOUS
  <2>2. P \subseteq 1..Samples(results) /\ P = {p \in 1..n : m \in Numeric(rows[p])}
    <3>1. P = {p \in 1..n : m \in Numeric(rows[p])}
      BY <1>3, <2>1 DEF RowsWith
    <3> QED
      BY <1>10, <3>1
  <2>3. PICK A : A = {i \in 1..k : results[i].error = "none" /\ Place(results, i) \in P}
    OBVIOUS
  <2>4. Scored(after, m) = A
    BY <1>5, <1>6, <2>2, <2>3, RowsHaveScores DEF Scored
  <2>6. SamplesAt(results, k, P, A)
    BY <1>1, <2>2, <2>3 DEF SamplesAt
  <2>5. Cardinality(A) = Cardinality(P)
    BY <2>6, PlacesMatch
  <2> QED
    BY <2>1, <2>4, <2>5
<1> QED
  BY <1>4, <1>7, <1>8, <1>9 DEF Kept

\* The scoring settles every record: without a sample, when it raises, and however few rows
\* come back, with whatever numbers in them.
LEMMA ScoringSettles ==
    ASSUME NEW results, Assembled(results), NEW scoring \in Scorings(results)
    PROVE  Accounted(scoring.results) /\ Kept(scoring.results, scoring.rows)
<1>1. PICK k \in Nat : k = Len(results) /\ DOMAIN results = 1..k
  BY LenProperties DEF Assembled
<1>2. \A i \in 1..k : results[i] \in Outcomes /\ results[i].scores = NoMeans
  BY <1>1, ElementOfSeq DEF Assembled
<1>3. ASSUME NEW after, Accounted(after), \A i \in DOMAIN after : after[i].error # "none"
      PROVE  Kept(after, <<>>)
  <2>1. Blank(after) = {} /\ BlankRows(<<>>) = {}
    BY <1>3 DEF Blank, BlankRows
  <2>2. \A m : Scored(after, m) = {} /\ RowsWith(<<>>, m) = {}
    BY <1>3 DEF Scored, RowsWith, Accounted
  <2> QED
    BY <2>1, <2>2 DEF Kept
<1>4. CASE Samples(results) = 0
  <2>1. PICK K : K = {i \in DOMAIN results : results[i].error = "none"}
    OBVIOUS
  <2>2. K \in SUBSET (1..k)
    BY <1>1, <2>1
  <2>9. IsFiniteSet(1..k)
    BY FS_Interval
  <2>3. IsFiniteSet(K)
    BY ONLY <2>2, <2>9, FS_Subset
  <2>4. Cardinality(K) = 0
    BY <1>4, <2>1 DEF Samples
  <2>5. K = {}
    BY ONLY <2>3, <2>4, FS_EmptySet
  <2>6. Accounted(results) /\ \A i \in DOMAIN results : results[i].error # "none"
    BY <1>1, <1>2, <2>1, <2>5, RowsHaveScores DEF Accounted, Assembled
  <2>7. scoring = [results |-> results, rows |-> <<>>]
    BY <1>4 DEF Scorings
  <2> QED
    BY <1>3, <2>6, <2>7
<1>5. CASE scoring = [results |-> AllFailed(results), rows |-> <<>>]
  <2>1. PICK after : after = AllFailed(results)
    OBVIOUS
  <2>2. DOMAIN after = 1..k
    BY <1>1, <2>1 DEF AllFailed
  <2>3. ASSUME NEW i \in 1..k
        PROVE  after[i] \in Outcomes /\ after[i].error # "none" /\ after[i].scores = NoMeans
    <3>1. after[i] = IF results[i].error = "none" THEN Result("scoring_failed") ELSE results[i]
      BY <1>1, <2>1 DEF AllFailed
    <3>2. Result("scoring_failed") \in Outcomes
      BY RowsHaveScores DEF Result, Outcomes
    <3> QED
      BY <1>2, <3>1, <3>2, RowsHaveScores
  <2>4. after \in Seq(Outcomes)
    <3>1. after = [i \in 1..k |-> after[i]]
      BY <1>1, <2>1 DEF AllFailed
    <3> QED
      BY <2>3, <3>1
  <2>5. Accounted(after) /\ \A i \in DOMAIN after : after[i].error # "none"
    BY <2>2, <2>3, <2>4, RowsHaveScores DEF Accounted
  <2> QED
    BY <1>3, <1>5, <2>1, <2>5
<1>6. CASE \E n \in 0..Samples(results) : \E rows \in [1..n -> Rows] :
             scoring = [results |-> WithRows(results, rows), rows |-> rows]
  <2>1. PICK n \in 0..Samples(results) : \E rows \in [1..n -> Rows] :
          scoring = [results |-> WithRows(results, rows), rows |-> rows]
    BY <1>6
  <2>4. PICK rows \in [1..n -> Rows] :
          scoring = [results |-> WithRows(results, rows), rows |-> rows]
    BY <2>1
  <2>2. PICK after : after = WithRows(results, rows)
    OBVIOUS
  <2>3. Accounted(after) /\ Kept(after, rows)
    BY <2>2, RowsArePlaced
  <2> QED
    BY <2>2, <2>3, <2>4
<1>7. Samples(results) # 0 =>
        \/ scoring = [results |-> AllFailed(results), rows |-> <<>>]
        \/ \E n \in 0..Samples(results) : \E rows \in [1..n -> Rows] :
             scoring = [results |-> WithRows(results, rows), rows |-> rows]
  BY DEF Scorings
<1> QED
  BY <1>4, <1>5, <1>6, <1>7

\* What one job becomes, and that the others stay.
LEMMA TurnsOne ==
    ASSUME DOMAIN jobs = Jobs, NEW j \in Jobs, NEW s, Turns(j, s)
    PROVE  DOMAIN jobs' = Jobs /\ jobs'[j] = s /\ \A i \in Jobs \ {j} : jobs'[i] = jobs[i]
BY DEF Turns

\* A step of a job that leaves the history alone keeps the invariant, when the job is in order
\* afterwards: another one that runs, or a comparison with what is not the newest run, is tangled.
LEMMA JobSteps ==
    ASSUME EvalInv, NEW j \in Jobs, NEW s, Turns(j, s), JobOK(s, clock), s.at # "archiving",
           UNCHANGED <<history, clock>>, tangled' \in BOOLEAN, tangled => tangled',
           ~tangled' /\ ~(s.at \in {"idle", "ended"}) => \A i \in Jobs \ {j} : ~Running(i),
           ~tangled' /\ Comparing(s) => s.base = LatestBaseline(history)
    PROVE  EvalInv'
<1>1. DOMAIN jobs = Jobs /\ \A i \in Jobs : JobOK(jobs[i], clock)
  BY DEF EvalInv
<1>2. DOMAIN jobs' = Jobs /\ jobs'[j] = s /\ \A i \in Jobs \ {j} : jobs'[i] = jobs[i]
  BY <1>1, TurnsOne
<1>3. history' = history /\ clock' = clock
  OBVIOUS
<1>4. \A i \in Jobs : JobOK(jobs'[i], clock')
  BY <1>1, <1>2, <1>3
<1>5. ASSUME ~tangled' PROVE Orderly'
  <2>1. ~tangled /\ Orderly
    BY <1>5 DEF EvalInv
  <2>2. \A i \in Jobs \ {j} : Running(i)' <=> Running(i)
    BY <1>2 DEF Running, In
  <2>3. Running(j)' => ~(s.at \in {"idle", "ended"})
    BY <1>2 DEF Running, In
  <2>4. \A i, k \in Jobs : Running(i)' /\ Running(k)' => i = k
    BY <1>5, <2>1, <2>2, <2>3 DEF Orderly
  <2>5. \A i \in Jobs : Comparing(jobs'[i]) => jobs'[i].base = LatestBaseline(history')
    BY <1>2, <1>3, <1>5, <2>1 DEF Orderly
  <2>6. ASSUME NEW i \in Jobs, jobs'[i].at = "archiving"
        PROVE  history'[jobs'[i].stamp] = Torn /\ \A t \in UsableFiles(history') : t < jobs'[i].stamp
    <3>1. i # j /\ jobs'[i] = jobs[i]
      BY <1>2, <2>6
    <3> QED
      BY <1>3, <2>1, <2>6, <3>1 DEF Orderly, In
  <2> QED
    BY <2>4, <2>5, <2>6 DEF Orderly, In
<1>6. NeighboursHold'
  <2>1. tangled' \/ (~tangled /\ NeighboursHold)
    BY DEF EvalInv
  <2> QED
    BY <1>3, <2>1 DEF NeighboursHold
<1> QED
  BY <1>2, <1>3, <1>4, <1>5, <1>6 DEF EvalInv

\* A job that goes on within its run stays in order.
LEMMA JobGoesOn ==
    ASSUME EvalInv, NEW j \in Jobs, Running(j), NEW s, Turns(j, s), JobOK(s, clock),
           s.at # "archiving", UNCHANGED <<history, clock, tangled>>,
           Comparing(s) => Comparing(jobs[j]) /\ s.base = jobs[j].base
    PROVE  EvalInv'
<1>1. tangled \in BOOLEAN /\ tangled' \in BOOLEAN /\ (tangled => tangled')
  BY DEF EvalInv
<1>2. ~tangled' => Orderly
  BY DEF EvalInv
<1>3. ~tangled' /\ ~(s.at \in {"idle", "ended"}) => \A i \in Jobs \ {j} : ~Running(i)
  BY <1>2 DEF Orderly
<1>4. ~tangled' /\ Comparing(s) => s.base = LatestBaseline(history)
  BY <1>2 DEF Orderly
<1> QED
  BY <1>1, <1>3, <1>4, JobSteps

\* A job that has not begun is in order, and so is one that ends with nothing.
LEMMA FreshJob ==
    ASSUME NEW time
    PROVE  /\ JobOK(NoJob, time)
           /\ \A case, base :
                JobOK([[NoJob EXCEPT !.case = case] EXCEPT !.at = "assembling", !.base = base], time)
           /\ \A case :
                JobOK([[NoJob EXCEPT !.case = case] EXCEPT !.at = "ended", !.end = "aborted"], time)
           /\ JobOK([NoJob EXCEPT !.at = "ended", !.end = "killed"], time)
<1>1. Assembled(<<>>)
  BY DEF Assembled
<1>2. DOMAIN NoMeans = {}
  BY DEF NoMeans
<1> QED
  BY <1>1, <1>2 DEF NoJob, JobOK, JobFields

\* A start reads the baseline at the newest run, or is tangled with another job.
LEMMA StartKeeps ==
    ASSUME EvalInv, NEW j \in Jobs, Start(j) PROVE EvalInv'
<1>1. UNCHANGED <<history, clock>> /\ tangled' = (tangled \/ \E i \in Jobs \ {j} : Running(i))
  BY DEF Start
<1>2. tangled' \in BOOLEAN /\ (tangled => tangled') /\ (~tangled' => \A i \in Jobs \ {j} : ~Running(i))
  BY <1>1 DEF EvalInv
<1>3. PICK case \in Cases :
        LET base == CASE case.baseline = "report" -> {report.aggregate}
                      [] case.baseline = "history" -> LatestBaseline(history)
                      [] OTHER -> {}
        IN IF Unreadable(case) \/ Unparsable(case)
           THEN Turns(j, [[NoJob EXCEPT !.case = case] EXCEPT !.at = "ended", !.end = "aborted"])
           ELSE Turns(j, [[NoJob EXCEPT !.case = case] EXCEPT !.at = "assembling", !.base = base])
  BY DEF Start
<1>4. PICK base : base = CASE case.baseline = "report" -> {report.aggregate}
                           [] case.baseline = "history" -> LatestBaseline(history)
                           [] OTHER -> {}
  OBVIOUS
<1>5. CASE Unreadable(case) \/ Unparsable(case)
  <2>1. PICK s : s = [[NoJob EXCEPT !.case = case] EXCEPT !.at = "ended", !.end = "aborted"]
    OBVIOUS
  <2>2. Turns(j, s)
    BY <1>3, <1>5, <2>1
  <2>4. JobOK(s, clock)
    BY <2>1, FreshJob
  <2>5. s.at = "ended" /\ ~Comparing(s)
    BY <2>1 DEF NoJob, Comparing
  <2> QED
    BY <1>1, <1>2, <2>2, <2>4, <2>5, JobSteps
<1>6. CASE ~(Unreadable(case) \/ Unparsable(case))
  <2>1. PICK s : s = [[NoJob EXCEPT !.case = case] EXCEPT !.at = "assembling", !.base = base]
    OBVIOUS
  <2>2. Turns(j, s)
    BY <1>3, <1>4, <1>6, <2>1
  <2>3. JobOK(s, clock)
    BY <2>1, FreshJob
  <2>4. s.at = "assembling" /\ s.base = base /\ s.case = case
    BY <2>1 DEF NoJob
  <2>5. Comparing(s) => s.base = LatestBaseline(history)
    BY <1>4, <2>4 DEF Comparing
  <2> QED
    BY <1>1, <1>2, <2>2, <2>3, <2>4, <2>5, JobSteps
<1> QED
  BY <1>5, <1>6

\* A record is appended without scores.
LEMMA AssembleKeeps ==
    ASSUME EvalInv, NEW j \in Jobs, Assemble(j) PROVE EvalInv'
<1>1. JobOK(jobs[j], clock) /\ jobs[j].at = "assembling" /\ UNCHANGED <<history, clock, tangled>>
  BY DEF EvalInv, Assemble, In
<1>2. Running(j)
  BY <1>1 DEF Running, In
<1>3. PICK result \in {Result("invalid_record"), Result("none"), Result("failed")} :
        Turns(j, [jobs[j] EXCEPT !.results = Append(@, result)])
  BY DEF Assemble
<1>4. PICK s : s = [jobs[j] EXCEPT !.results = Append(@, result)]
  OBVIOUS
<1>5. result \in Outcomes /\ result.scores = NoMeans
  BY <1>3, RowsHaveScores DEF Result, Outcomes
<1>6. PICK old : old = jobs[j].results
  OBVIOUS
<1>7. Assembled(old)
  BY <1>1, <1>6 DEF JobOK
<1>8. Assembled(Append(old, result))
  <2>1. old \in Seq(Outcomes) /\ \A i \in DOMAIN old : old[i].scores = NoMeans
    BY <1>7 DEF Assembled
  <2>2. PICK new : new = Append(old, result)
    OBVIOUS
  <2>3. /\ new \in Seq(Outcomes) /\ Len(new) = Len(old) + 1 /\ Len(old) \in Nat
        /\ \A i \in 1..Len(old) : new[i] = old[i]
        /\ new[Len(old) + 1] = result /\ DOMAIN new = 1..Len(new) /\ DOMAIN old = 1..Len(old)
    BY <1>5, <2>1, <2>2, AppendProperties, LenProperties
  <2>4. PICK n \in Nat : n = Len(old)
    BY <2>3
  <2>5. \A i \in 1..(n + 1) : i \in 1..n \/ i = n + 1
    OBVIOUS
  <2>6. \A i \in DOMAIN new : new[i].scores = NoMeans
    BY <1>5, <2>1, <2>3, <2>4, <2>5
  <2> QED
    BY <2>2, <2>3, <2>6 DEF Assembled
<1>9. /\ DOMAIN s = JobFields /\ s.results = Append(old, result) /\ s.at = "assembling"
      /\ s.case = jobs[j].case /\ s.base = jobs[j].base /\ s.end = jobs[j].end
      /\ s.aggregate = jobs[j].aggregate /\ s.counts = jobs[j].counts
  BY <1>1, <1>4, <1>6 DEF JobOK, JobFields
<1>10. JobOK(s, clock)
  BY <1>1, <1>8, <1>9 DEF JobOK
<1>11. Comparing(s) => Comparing(jobs[j]) /\ s.base = jobs[j].base
  BY <1>1, <1>9 DEF Comparing
<1> QED
  BY <1>1, <1>2, <1>3, <1>4, <1>9, <1>10, <1>11, JobGoesOn

\* The scoring settles the records, and the means are over those it scored.
LEMMA ScoreKeeps ==
    ASSUME EvalInv, NEW j \in Jobs, Score(j) PROVE EvalInv'
<1>1. JobOK(jobs[j], clock) /\ jobs[j].at = "assembling" /\ UNCHANGED <<history, clock, tangled>>
  BY DEF EvalInv, Score, In
<1>2. Running(j)
  BY <1>1 DEF Running, In
<1>3. PICK old : old = jobs[j].results
  OBVIOUS
<1>4. Assembled(old)
  BY <1>1, <1>3 DEF JobOK
<1>5. PICK scoring \in Scorings(old) :
        Turns(j, [jobs[j] EXCEPT !.at = "scored",
                                 !.results = scoring.results, !.rows = scoring.rows,
                                 !.aggregate = Aggregate(scoring.results),
                                 !.counts = Summarize(scoring.results)])
  BY <1>3 DEF Score
<1>14. PICK results, rows : results = scoring.results /\ rows = scoring.rows
  OBVIOUS
<1>6. Accounted(results) /\ Kept(results, rows)
  BY <1>4, <1>14, ScoringSettles
<1>7. PICK means, counts : means = Aggregate(results) /\ counts = Summarize(results)
  OBVIOUS
<1>8. /\ DOMAIN counts = DOMAIN means
      /\ Counted(results, counts) /\ \A m \in DOMAIN counts : counts[m] \in Nat /\ counts[m] > 0
  BY <1>6, <1>7, CountsAreScores
<1>9. PICK s : s = [jobs[j] EXCEPT !.at = "scored", !.results = results, !.rows = rows,
                                   !.aggregate = means, !.counts = counts]
  OBVIOUS
<1>10. Turns(j, s)
  BY <1>5, <1>7, <1>9, <1>14
<1>11. /\ DOMAIN s = JobFields /\ s.results = results /\ s.rows = rows /\ s.at = "scored"
       /\ s.case = jobs[j].case /\ s.base = jobs[j].base /\ s.end = jobs[j].end
       /\ s.aggregate = means /\ s.counts = counts
  BY <1>1, <1>9 DEF JobOK, JobFields
<1>12. JobOK(s, clock)
  BY <1>1, <1>6, <1>8, <1>11 DEF JobOK
<1>13. Comparing(s) => Comparing(jobs[j]) /\ s.base = jobs[j].base
  BY <1>1, <1>11 DEF Comparing
<1> QED
  BY <1>1, <1>2, <1>10, <1>11, <1>12, <1>13, JobGoesOn

\* A job that ends, with an exit code that its floors allow.
LEMMA EndKeeps ==
    ASSUME EvalInv, NEW j \in Jobs, Running(j), NEW s, Turns(j, s), s.at = "ended",
           DOMAIN s = JobFields, s.case = jobs[j].case, s.counts = jobs[j].counts,
           s.aggregate = jobs[j].aggregate,
           s.end = "exit0" => Misses(jobs[j].aggregate, jobs[j].case.floors) = {},
           UNCHANGED <<history, clock, tangled>>
    PROVE  EvalInv'
<1>1. JobOK(jobs[j], clock)
  BY DEF EvalInv
<1>2. JobOK(s, clock) /\ ~Comparing(s) /\ s.at # "archiving"
  BY <1>1 DEF JobOK, Comparing
<1> QED
  BY <1>2, JobGoesOn

\* A job that takes one of the steps after the scoring.
LEMMA AfterScoring ==
    ASSUME EvalInv, NEW j \in Jobs, NEW s, Turns(j, s),
           \/ /\ jobs[j].at = "scored" /\ s = [jobs[j] EXCEPT !.at = "reporting"]
           \/ /\ jobs[j].at = "reporting"
              /\ s = [jobs[j] EXCEPT !.at = "reported", !.results = <<>>, !.rows = <<>>],
           UNCHANGED <<history, clock, tangled>>
    PROVE  EvalInv'
<1>1. JobOK(jobs[j], clock) /\ Running(j)
  BY DEF EvalInv, Running, In
<1>2. /\ DOMAIN s = JobFields /\ s.case = jobs[j].case /\ s.base = jobs[j].base
      /\ s.counts = jobs[j].counts /\ s.aggregate = jobs[j].aggregate /\ s.end = jobs[j].end
      /\ s.at = "reporting" =>
           jobs[j].at = "scored" /\ s.results = jobs[j].results /\ s.rows = jobs[j].rows
      /\ s.at \in {"reporting", "reported"} /\ jobs[j].at \in {"scored", "reporting"}
  BY <1>1 DEF JobOK, JobFields
<1>3. JobOK(s, clock)
  BY <1>1, <1>2 DEF JobOK
<1>4. s.at # "archiving" /\ (Comparing(s) => Comparing(jobs[j]) /\ s.base = jobs[j].base)
  BY <1>2 DEF Comparing
<1> QED
  BY <1>1, <1>3, <1>4, JobGoesOn

\* A job that gets no clients ends with neither means nor an exit code of 0.
LEMMA NoClientsKeeps ==
    ASSUME EvalInv, NEW j \in Jobs, NoClients(j) PROVE EvalInv'
<1>1. JobOK(jobs[j], clock) /\ jobs[j].at = "assembling" /\ UNCHANGED <<history, clock, tangled>>
  BY DEF EvalInv, NoClients, In
<1>2. PICK s : s = [jobs[j] EXCEPT !.at = "ended", !.end = "noclient", !.results = <<>>, !.rows = <<>>, !.base = {}]
  OBVIOUS
<1>3. Turns(j, s)
  BY <1>2 DEF NoClients, Ends
<1>4. /\ DOMAIN s = JobFields /\ s.at = "ended" /\ s.end = "noclient" /\ s.case = jobs[j].case
      /\ s.counts = jobs[j].counts /\ s.aggregate = jobs[j].aggregate
  BY <1>1, <1>2 DEF JobOK, JobFields
<1>5. Running(j)
  BY <1>1 DEF Running, In
<1>6. s.end # "exit0"
  BY <1>4
<1> QED
  BY <1>1, <1>3, <1>4, <1>5, <1>6, EndKeeps

\* ragas_eval ends with the code its floors give; the gate goes on.
LEMMA SaveReportKeeps ==
    ASSUME EvalInv, NEW j \in Jobs, SaveReport(j) PROVE EvalInv'
<1>1. JobOK(jobs[j], clock) /\ jobs[j].at = "reporting" /\ UNCHANGED <<history, clock, tangled>>
  BY DEF EvalInv, SaveReport, In
<1>2. CASE jobs[j].case.tool = "gate"
  <2>1. PICK s : s = [jobs[j] EXCEPT !.at = "reported", !.results = <<>>, !.rows = <<>>]
    OBVIOUS
  <2>2. Turns(j, s)
    BY <1>2, <2>1 DEF SaveReport
  <2> QED
    BY <1>1, <2>1, <2>2, AfterScoring
<1>3. CASE jobs[j].case.tool # "gate"
  <2>1. PICK how : how = EvalExit(jobs[j])
    OBVIOUS
  <2>2. PICK s : s = [jobs[j] EXCEPT !.at = "ended", !.end = how, !.results = <<>>, !.rows = <<>>, !.base = {}]
    OBVIOUS
  <2>3. Turns(j, s)
    BY <1>3, <2>1, <2>2 DEF SaveReport, Ends
  <2>4. /\ DOMAIN s = JobFields /\ s.at = "ended" /\ s.end = how /\ s.case = jobs[j].case
        /\ s.counts = jobs[j].counts /\ s.aggregate = jobs[j].aggregate
    BY <1>1, <2>2 DEF JobOK, JobFields
  <2>5. Running(j)
    BY <1>1 DEF Running, In
  <2>6. s.end = "exit0" => Misses(jobs[j].aggregate, jobs[j].case.floors) = {}
    BY <2>1, <2>4 DEF EvalExit
  <2> QED
    BY <1>1, <2>3, <2>4, <2>5, <2>6, EndKeeps
<1> QED
  BY <1>2, <1>3

\* The gate ends with the code its floors and its baseline give.
LEMMA RenderTrendKeeps ==
    ASSUME EvalInv, NEW j \in Jobs, RenderTrend(j) PROVE EvalInv'
<1>1. JobOK(jobs[j], clock) /\ jobs[j].at = "archived" /\ UNCHANGED <<history, clock, tangled>>
  BY DEF EvalInv, RenderTrend, In
<1>2. Running(j)
  BY <1>1 DEF Running, In
<1>3. CASE HistoryRaises(history)
  <2>1. PICK s : s = [jobs[j] EXCEPT !.at = "ended", !.end = "aborted", !.results = <<>>,
                                     !.rows = <<>>, !.base = {}]
    OBVIOUS
  <2>2. Turns(j, s)
    BY <1>3, <2>1 DEF RenderTrend, Ends
  <2>3. /\ DOMAIN s = JobFields /\ s.at = "ended" /\ s.end = "aborted" /\ s.case = jobs[j].case
        /\ s.counts = jobs[j].counts /\ s.aggregate = jobs[j].aggregate
    BY <1>1, <2>1 DEF JobOK, JobFields
  <2>4. s.end # "exit0"
    BY <2>3
  <2> QED
    BY <1>1, <1>2, <2>2, <2>3, <2>4, EndKeeps
<1>4. CASE ~HistoryRaises(history)
  <2>1. PICK how, trend : how = GateExit(jobs[j]) /\ trend = Trend(history, jobs[j].case.floors)
    OBVIOUS
  <2>2. PICK s : s = [jobs[j] EXCEPT !.at = "ended", !.base = {}, !.trend = trend, !.end = how]
    OBVIOUS
  <2>3. Turns(j, s)
    BY <1>4, <2>1, <2>2 DEF RenderTrend
  <2>4. /\ DOMAIN s = JobFields /\ s.at = "ended" /\ s.end = how /\ s.case = jobs[j].case
        /\ s.counts = jobs[j].counts /\ s.aggregate = jobs[j].aggregate
    BY <1>1, <2>2 DEF JobOK, JobFields
  <2>5. s.end = "exit0" => Misses(jobs[j].aggregate, jobs[j].case.floors) = {}
    BY <2>1, <2>4 DEF GateExit, Passes
  <2> QED
    BY <1>1, <1>2, <2>3, <2>4, <2>5, EndKeeps
<1> QED
  BY <1>3, <1>4

\* A killed job leaves the order of the others, and its torn files.
LEMMA KillKeeps ==
    ASSUME EvalInv, NEW j \in Jobs, Kill(j) PROVE EvalInv'
<1>1. PICK s : s = [NoJob EXCEPT !.at = "ended", !.end = "killed"]
  OBVIOUS
<1>2. Turns(j, s) /\ Running(j) /\ UNCHANGED <<history, clock, tangled>>
  BY <1>1 DEF Kill
<1>3. JobOK(s, clock)
  BY <1>1, FreshJob
<1>4. s.at = "ended" /\ s.at # "archiving" /\ ~Comparing(s)
  BY <1>1 DEF NoJob, Comparing
<1> QED
  BY <1>2, <1>3, <1>4, JobGoesOn

\* Time passes: what is stamped so far is not later than before.
LEMMA ClockTickKeeps ==
    ASSUME EvalInv, ClockTick PROVE EvalInv'
<1>1. /\ clock < MaxClock /\ clock' = clock + 1 /\ jobs' = jobs /\ history' = history
      /\ tangled' = tangled /\ clock \in Nat /\ MaxClock \in Nat
  BY BoundsNat DEF ClockTick, EvalInv
<1>2. ASSUME NEW i \in Jobs PROVE JobOK(jobs'[i], clock')
  <2>1. JobOK(jobs[i], clock)
    BY DEF EvalInv
  <2>2. jobs[i].at \in {"archiving", "archived"} =>
          jobs[i].stamp \in Nat /\ 1 <= jobs[i].stamp /\ jobs[i].stamp <= clock'
    BY <1>1, <2>1 DEF JobOK
  <2> QED
    BY <1>1, <2>1, <2>2 DEF JobOK
<1>3. \A t \in 0..MaxClock : t > clock' => history'[t] = Missing
  BY <1>1 DEF EvalInv
<1>4. (~tangled' => Orderly') /\ NeighboursHold'
  <2>1. Orderly' <=> Orderly
    BY <1>1 DEF Orderly, Running, In
  <2>2. NeighboursHold' <=> NeighboursHold
    BY <1>1 DEF NeighboursHold
  <2> QED
    BY <1>1, <2>1, <2>2 DEF EvalInv
<1>5. clock' \in Nat /\ 1 <= clock' /\ clock' <= MaxClock
  BY <1>1
<1> QED
  BY <1>1, <1>2, <1>3, <1>4, <1>5 DEF EvalInv

\* The history is finite, and none of its runs is stamped later than now.
LEMMA HistoryBounded ==
    ASSUME EvalInv
    PROVE  /\ DOMAIN history \subseteq Nat /\ IsFiniteSet(DOMAIN history)
           /\ UsableFiles(history) \subseteq 0..MaxClock
           /\ \A t \in UsableFiles(history) : t <= clock
<1>1. DOMAIN history = 0..MaxClock /\ MaxClock \in Nat /\ clock \in Nat
  BY BoundsNat DEF EvalInv
<1>2. IsFiniteSet(0..MaxClock)
  BY <1>1, FS_Interval
<1>3. ~Usable(Missing) /\ ~Usable(Torn)
  BY DEF Usable
<1>4. \A t \in 0..MaxClock : t > clock => ~Usable(history[t])
  BY <1>3 DEF EvalInv
<1>5. \A t \in UsableFiles(history) : t <= clock
  BY <1>1, <1>4 DEF UsableFiles
<1> QED
  BY <1>1, <1>2, <1>5 DEF UsableFiles

\* One file of the history is written by a job that is the only one to run, and behind the runs
\* that are there: no other neighbours come about than the new run with the newest before it.
LEMMA ArchiveKeeps ==
    ASSUME EvalInv, NEW j \in Jobs, NEW s, Turns(j, s), JobOK(s, clock), Running(j),
           NEW file \in 0..MaxClock, file <= clock, NEW content,
           history' = [history EXCEPT ![file] = content], clock' = clock,
           tangled' \in BOOLEAN, tangled => tangled',
           s.at \in {"archiving", "archived"}, s.case = jobs[j].case, s.base = jobs[j].base,
           s.at = "archiving" => /\ jobs[j].at = "reported" /\ s.stamp = file /\ content = Torn,
           ~tangled' => ~Usable(history[file]) /\ \A t \in UsableFiles(history) : t < file,
           ~tangled' /\ Usable(content) /\ content.gated /\ content.passed =>
               \A t \in UsableFiles(history) :
                 (\A u \in UsableFiles(history) : u <= t) =>
                   \A m \in DOMAIN history[t].aggregate \cap DOMAIN content.aggregate :
                     ~Drops(content.aggregate[m], history[t].aggregate[m], Tolerance)
    PROVE  EvalInv'
<1>1. /\ DOMAIN jobs = Jobs /\ DOMAIN history = 0..MaxClock /\ MaxClock \in Nat /\ clock \in Nat
      /\ \A i \in Jobs : JobOK(jobs[i], clock)
  BY BoundsNat DEF EvalInv
<1>2. DOMAIN jobs' = Jobs /\ jobs'[j] = s /\ \A i \in Jobs \ {j} : jobs'[i] = jobs[i]
  BY <1>1, TurnsOne
<1>3. \A i \in Jobs : JobOK(jobs'[i], clock')
  BY <1>1, <1>2
<1>4. /\ DOMAIN history' = 0..MaxClock /\ history'[file] = content
      /\ \A t \in 0..MaxClock : t # file => history'[t] = history[t]
  BY <1>1
<1>5. ASSUME NEW t \in 0..MaxClock, t > clock' PROVE history'[t] = Missing
  <2>1. t # file /\ t > clock
    BY <1>1, <1>5
  <2> QED
    BY <1>4, <2>1 DEF EvalInv
<1>6. ~tangled' => ~tangled /\ Orderly /\ NeighboursHold
  BY DEF EvalInv
<1>7. ~Usable(Torn)
  BY DEF Usable
<1>8. ASSUME ~tangled' PROVE Orderly'
  <2>1. \A i \in Jobs \ {j} : ~Running(i)
    BY <1>6, <1>8 DEF Orderly
  <2>2. \A i \in Jobs \ {j} : ~Running(i)'
    BY <1>2, <2>1 DEF Running, In
  <2>3. \A i, k \in Jobs : Running(i)' /\ Running(k)' => i = k
    BY <2>2
  <2>4. ASSUME NEW i \in Jobs, Comparing(jobs'[i]) PROVE jobs'[i].base = LatestBaseline(history')
    <3>1. i = j
      BY <2>2, <2>4 DEF Comparing, Running, In
    <3>2. s.at = "archiving" /\ s.case.baseline = "history"
      BY <1>2, <2>4, <3>1 DEF Comparing
    <3>3. jobs[j].at = "reported" /\ Comparing(jobs[j]) /\ content = Torn
      BY <3>2 DEF Comparing
    <3>4. s.base = LatestBaseline(history)
      BY <1>6, <1>8, <3>3 DEF Orderly
    <3>5. UsableFiles(history') = UsableFiles(history)
      BY <1>1, <1>4, <1>7, <1>8, <3>3 DEF UsableFiles
    <3>6. \A t \in UsableFiles(history) : history'[t] = history[t]
      BY <1>1, <1>4, <1>8 DEF UsableFiles
    <3>7. LatestBaseline(history') = LatestBaseline(history)
      BY <3>5, <3>6, SameRuns, HistoryBounded
    <3> QED
      BY <1>2, <3>1, <3>4, <3>7
  <2>5. ASSUME NEW i \in Jobs, jobs'[i].at = "archiving"
        PROVE  history'[jobs'[i].stamp] = Torn /\ \A t \in UsableFiles(history') : t < jobs'[i].stamp
    <3>1. i = j
      BY <2>2, <2>5 DEF Running, In
    <3>2. s.at = "archiving" /\ s.stamp = file /\ content = Torn
      BY <1>2, <2>5, <3>1
    <3>3. UsableFiles(history') = UsableFiles(history)
      BY <1>1, <1>4, <1>7, <1>8, <3>2 DEF UsableFiles
    <3> QED
      BY <1>2, <1>4, <1>8, <3>1, <3>2, <3>3
  <2> QED
    BY <2>3, <2>4, <2>5 DEF Orderly, In
<1>9. ASSUME ~tangled', NEW t1 \in 0..MaxClock, NEW t2 \in 0..MaxClock,
             t1 < t2, Usable(history'[t1]), Usable(history'[t2]),
             \A u \in t1+1..t2-1 : ~Usable(history'[u]),
             history'[t2].gated, history'[t2].passed,
             NEW m \in DOMAIN history'[t1].aggregate \cap DOMAIN history'[t2].aggregate
      PROVE  ~Drops(history'[t2].aggregate[m], history'[t1].aggregate[m], Tolerance)
  <2>1. \A t \in UsableFiles(history) : t \in 0..MaxClock /\ t < file
    BY <1>1, <1>9 DEF UsableFiles
  <2>2. CASE t2 = file
    <3>1. t1 # file /\ history'[t1] = history[t1] /\ t1 \in UsableFiles(history)
      BY <1>1, <1>4, <1>9, <2>2 DEF UsableFiles
    <3>2. ASSUME NEW u \in UsableFiles(history) PROVE u <= t1
      <4>1. u \in 0..MaxClock /\ u < file /\ Usable(history[u]) /\ history'[u] = history[u]
        BY <1>1, <1>4, <2>1 DEF UsableFiles
      <4>2. u \notin t1+1..t2-1
        BY <1>9, <4>1
      <4> QED
        BY <2>2, <4>1, <4>2
    <3>3. Usable(content) /\ content.gated /\ content.passed /\ history'[t2] = content
      BY <1>4, <1>9, <2>2
    <3>4. m \in DOMAIN history[t1].aggregate \cap DOMAIN content.aggregate
      BY <1>9, <3>1, <3>3
    <3> QED
      BY <1>9, <3>1, <3>2, <3>3, <3>4
  <2>3. CASE t2 # file
    <3>1. history'[t2] = history[t2] /\ t2 \in UsableFiles(history) /\ t2 < file
      BY <1>1, <1>4, <1>9, <2>1, <2>3 DEF UsableFiles
    <3>2. t1 # file /\ history'[t1] = history[t1]
      BY <1>4, <1>9, <3>1
    <3>3. ASSUME NEW u \in t1+1..t2-1 PROVE ~Usable(history[u])
      <4>1. u \in 0..MaxClock /\ u # file
        BY <1>1, <3>1
      <4> QED
        BY <1>4, <1>9, <4>1
    <3> QED
      BY <1>1, <1>6, <1>9, <3>1, <3>2, <3>3 DEF NeighboursHold
  <2> QED
    BY <2>2, <2>3
<1>10. NeighboursHold'
  BY <1>4, <1>9 DEF NeighboursHold
<1>11. clock' \in Nat /\ 1 <= clock' /\ clock' <= MaxClock
  BY DEF EvalInv
<1> QED
  BY <1>2, <1>3, <1>4, <1>5, <1>8, <1>10, <1>11 DEF EvalInv

\* A file is opened at the second it is, which is behind every run unless it is tangled.
LEMMA OpenArchiveKeeps ==
    ASSUME EvalInv, NEW j \in Jobs, OpenArchive(j) PROVE EvalInv'
<1>1. /\ JobOK(jobs[j], clock) /\ jobs[j].at = "reported" /\ clock' = clock
      /\ clock \in Nat /\ MaxClock \in Nat /\ 1 <= clock /\ clock <= MaxClock
  BY BoundsNat DEF EvalInv, OpenArchive, In
<1>2. /\ history' = [history EXCEPT ![clock] = Torn]
      /\ tangled' = (tangled \/ history[clock] # Missing)
  BY DEF OpenArchive, Stamp
<1>3. PICK s : s = [jobs[j] EXCEPT !.at = "archiving", !.stamp = clock]
  OBVIOUS
<1>4. Turns(j, s)
  BY <1>3 DEF OpenArchive, Stamp
<1>5. /\ DOMAIN s = JobFields /\ s.at = "archiving" /\ s.stamp = clock
      /\ s.case = jobs[j].case /\ s.base = jobs[j].base /\ s.end = jobs[j].end
      /\ s.counts = jobs[j].counts /\ s.aggregate = jobs[j].aggregate
  BY <1>1, <1>3 DEF JobOK, JobFields
<1>6. JobOK(s, clock)
  BY <1>1, <1>5 DEF JobOK
<1>7. Running(j) /\ tangled' \in BOOLEAN /\ (tangled => tangled')
  BY <1>1, <1>2 DEF Running, In, EvalInv
<1>8. ~Usable(Missing) /\ ~Usable(Torn)
  BY DEF Usable
<1>9. ~tangled' => ~Usable(history[clock])
  BY <1>2, <1>8
<1>10. ~tangled' => \A t \in UsableFiles(history) : t < clock
  <2>1. \A t \in UsableFiles(history) : t \in Nat /\ t <= clock /\ Usable(history[t])
    BY HistoryBounded DEF UsableFiles
  <2> QED
    BY <1>1, <1>9, <2>1
<1>11. clock \in 0..MaxClock /\ clock <= clock
  BY <1>1
<1> QED
  BY <1>1, <1>2, <1>4, <1>5, <1>6, <1>7, <1>8, <1>9, <1>10, <1>11, ArchiveKeeps

\* The run that is written is compared with the newest before it, its neighbour.
LEMMA SaveArchiveKeeps ==
    ASSUME EvalInv, NEW j \in Jobs, SaveArchive(j) PROVE EvalInv'
<1>1. /\ JobOK(jobs[j], clock) /\ jobs[j].at = "archiving" /\ UNCHANGED <<clock, tangled>>
      /\ clock \in Nat /\ MaxClock \in Nat /\ clock <= MaxClock
  BY BoundsNat DEF EvalInv, SaveArchive, In
<1>2. PICK file : file = jobs[j].stamp
  OBVIOUS
<1>3. file \in Nat /\ file <= clock /\ file \in 0..MaxClock
  BY <1>1, <1>2 DEF JobOK
<1>4. PICK payload : payload = Payload(jobs[j])
  OBVIOUS
<1>5. PICK content \in AfterWrite(history[file], payload) :
        history' = [history EXCEPT ![file] = content]
  BY <1>2, <1>4 DEF SaveArchive
<1>6. PICK s : s = [jobs[j] EXCEPT !.at = "archived"]
  OBVIOUS
<1>7. Turns(j, s)
  BY <1>6 DEF SaveArchive
<1>8. /\ DOMAIN s = JobFields /\ s.at = "archived" /\ s.stamp = jobs[j].stamp
      /\ s.case = jobs[j].case /\ s.base = jobs[j].base /\ s.end = jobs[j].end
      /\ s.counts = jobs[j].counts /\ s.aggregate = jobs[j].aggregate
  BY <1>1, <1>6 DEF JobOK, JobFields
<1>9. JobOK(s, clock)
  BY <1>1, <1>8 DEF JobOK
<1>10. Running(j) /\ tangled' \in BOOLEAN /\ (tangled => tangled')
  BY <1>1 DEF Running, In, EvalInv
<1>11. ~tangled' => /\ Orderly /\ history[file] = Torn
                    /\ \A t \in UsableFiles(history) : t < file
  BY <1>1, <1>2 DEF EvalInv, Orderly, In
<1>12. ~tangled' => ~Usable(history[file])
  BY <1>11 DEF Usable
<1>13. ASSUME ~tangled', Usable(content), content.gated, content.passed,
              NEW t \in UsableFiles(history), \A u \in UsableFiles(history) : u <= t,
              NEW m \in DOMAIN history[t].aggregate \cap DOMAIN content.aggregate
       PROVE  ~Drops(content.aggregate[m], history[t].aggregate[m], Tolerance)
  <2>1. content = payload
    BY <1>5, <1>11, <1>13 DEF AfterWrite
  <2>2. content.aggregate = jobs[j].aggregate
    BY <1>4, <2>1 DEF Payload
  <2>3. jobs[j].case.baseline = "history" /\ Passes(jobs[j])
    BY <1>4, <1>13, <2>1 DEF Payload
  <2>4. Comparing(jobs[j])
    BY <1>1, <2>3 DEF Comparing
  <2>5. jobs[j].base = LatestBaseline(history)
    BY <1>11, <1>13, <2>4 DEF Orderly
  <2>6. jobs[j].base = {history[t].aggregate}
    BY <1>13, <2>5, BaselineIsNewest, HistoryBounded
  <2>7. Regressed(jobs[j].aggregate, history[t].aggregate) = {}
    BY <2>3, <2>6 DEF Passes
  <2> QED
    BY <1>13, <2>2, <2>7 DEF Regressed
<1>14. s.at # "archiving"
  BY <1>8
<1> QED
  BY <1>1, <1>3, <1>5, <1>7, <1>8, <1>9, <1>10, <1>11, <1>12, <1>13, <1>14, ArchiveKeeps

\* The report is torn; the history is not concerned.
LEMMA OpenReportKeeps ==
    ASSUME EvalInv, NEW j \in Jobs, OpenReport(j) PROVE EvalInv'
<1>1. jobs[j].at = "scored" /\ UNCHANGED <<history, clock, tangled>>
  BY DEF OpenReport, In
<1>2. PICK s : s = [jobs[j] EXCEPT !.at = "reporting"]
  OBVIOUS
<1>3. Turns(j, s)
  BY <1>2 DEF OpenReport
<1> QED
  BY <1>1, <1>2, <1>3, AfterScoring

\* At first nothing runs, and the one file that may be in the history has no neighbour.
LEMMA EvalStarts ==
    ASSUME EvalInit PROVE EvalInv
<1>1. PICK dropped \in Dropped :
        history = [t \in 0..MaxClock |-> IF t = 0 THEN dropped.history ELSE Missing]
  BY DEF EvalInit
<1>2. /\ jobs = [j \in Jobs |-> NoJob] /\ clock = 1 /\ tangled = FALSE
      /\ DOMAIN jobs = Jobs /\ DOMAIN history = 0..MaxClock /\ MaxClock \in Nat /\ 1 <= MaxClock
  BY <1>1, BoundsNat DEF EvalInit
<1>3. ~Usable(Missing)
  BY DEF Usable
<1>4. \A t \in 0..MaxClock : t # 0 => history[t] = Missing
  BY <1>1
<1>5. \A t \in 0..MaxClock : t > clock => history[t] = Missing
  BY <1>2, <1>4
<1>6. ASSUME NEW j \in Jobs PROVE JobOK(jobs[j], clock) /\ jobs[j].at = "idle"
  <2>1. jobs[j] = NoJob
    BY <1>2
  <2>2. JobOK(NoJob, clock)
    BY FreshJob
  <2> QED
    BY <2>1, <2>2 DEF NoJob
<1>7. Orderly
  <2>1. \A j \in Jobs : ~Running(j) /\ ~Comparing(jobs[j]) /\ ~In(j, "archiving")
    BY <1>6 DEF Running, In, Comparing
  <2> QED
    BY <2>1 DEF Orderly
<1>8. NeighboursHold
  <2>1. ASSUME NEW t1 \in DOMAIN history, NEW t2 \in DOMAIN history, t1 < t2 PROVE ~Usable(history[t2])
    <3>1. t2 \in 0..MaxClock /\ t1 \in 0..MaxClock /\ t2 # 0
      BY <1>2, <2>1
    <3> QED
      BY <1>3, <1>4, <3>1
  <2> QED
    BY <2>1 DEF NeighboursHold
<1>9. clock \in Nat /\ 1 <= clock /\ clock <= MaxClock
  BY <1>2
<1> QED
  BY <1>2, <1>5, <1>6, <1>7, <1>8, <1>9 DEF EvalInv

\* Every step of every job, and of the clock, keeps the invariant.
LEMMA EvalStepKeeps ==
    ASSUME EvalInv, [EvalNext]_evalVars PROVE EvalInv'
<1>1. CASE ClockTick
  BY <1>1, ClockTickKeeps
<1>2. ASSUME NEW j \in Jobs, Start(j) \/ Kill(j) PROVE EvalInv'
  BY <1>2, StartKeeps, KillKeeps
<1>3. ASSUME NEW j \in Jobs, Assemble(j) \/ Score(j) \/ NoClients(j) \/ OpenReport(j) PROVE EvalInv'
  BY <1>3, AssembleKeeps, ScoreKeeps, NoClientsKeeps, OpenReportKeeps
<1>4. ASSUME NEW j \in Jobs, SaveReport(j) \/ OpenArchive(j) \/ SaveArchive(j) \/ RenderTrend(j)
      PROVE  EvalInv'
  BY <1>4, SaveReportKeeps, OpenArchiveKeeps, SaveArchiveKeeps, RenderTrendKeeps
<1>5. CASE UNCHANGED evalVars
  <2>1. jobs' = jobs /\ history' = history /\ clock' = clock /\ tangled' = tangled
    BY <1>5 DEF evalVars
  <2> QED
    BY <2>1 DEF EvalInv, Orderly, NeighboursHold, Running, In
<1> QED
  BY <1>1, <1>2, <1>3, <1>4, <1>5 DEF EvalNext, Job

\* The jobs and their directories are in order in every reachable state (run_eval, run_gate).
THEOREM SpecEvalInv == EvalSpec => []EvalInv
<1>1. EvalInit => EvalInv
  BY EvalStarts
<1>2. EvalInv /\ [EvalNext]_evalVars => EvalInv'
  BY EvalStepKeeps
<1> QED
  BY <1>1, <1>2, PTL DEF EvalSpec


\* The sum of g over a set, taken in the order in which elements are chosen, as the folds do it.
SumStep(S, g, it) ==
    [s \in SUBSET S |-> IF s = {} THEN 0
                        ELSE LET x == CHOOSE x \in s : TRUE IN g[x] + it[s \ {x}]]

\* What is left of a set without the element that is chosen of it.
LEMMA RestIsSmaller ==
    ASSUME NEW S, IsFiniteSet(S), NEW s \in SUBSET S, s # {}, NEW x, x = CHOOSE y \in s : TRUE
    PROVE  /\ x \in s /\ s \ {x} \in SUBSET S
           /\ Cardinality(s) \in Nat /\ Cardinality(s \ {x}) \in Nat
           /\ Cardinality(s \ {x}) = Cardinality(s) - 1
<1>1. x \in s
  OBVIOUS
<1>2. IsFiniteSet(s)
  BY FS_Subset
<1>3. PICK rest : rest = s \ {x}
  OBVIOUS
<1>4. IsFiniteSet(rest) /\ Cardinality(rest) = Cardinality(s) - 1
  BY ONLY <1>1, <1>2, <1>3, FS_RemoveElement
<1>5. Cardinality(s) \in Nat /\ Cardinality(rest) \in Nat
  BY <1>2, <1>4, FS_CardinalityType
<1> QED
  BY <1>1, <1>3, <1>4, <1>5

\* The recursion of a sum over a finite set has a solution: one that is good for the subsets of
\* some size is mended for those of the next.
LEMMA SumExists ==
    ASSUME NEW S, IsFiniteSet(S), NEW g \in [S -> Nat]
    PROVE  \E it : it = SumStep(S, g, it)
<1> DEFINE Good(it, n) == \A s \in SUBSET S : Cardinality(s) <= n => it[s] = SumStep(S, g, it)[s]
           Sizes == {n \in Nat : ~\E it \in [SUBSET S -> Nat] : Good(it, n)}
<1>1. \A s \in SUBSET S : Cardinality(s) \in Nat
  BY FS_Subset, FS_CardinalityType
<1>2. \E it \in [SUBSET S -> Nat] : Good(it, 0)
  <2>1. PICK it : it = [s \in SUBSET S |-> 0]
    OBVIOUS
  <2>2. ASSUME NEW s \in SUBSET S, Cardinality(s) <= 0 PROVE s = {}
    <3>1. IsFiniteSet(s) /\ Cardinality(s) = 0
      BY <1>1, <2>2, FS_Subset
    <3> QED
      BY <3>1, FS_EmptySet
  <2>3. Good(it, 0)
    BY <2>1, <2>2 DEF SumStep
  <2>4. it \in [SUBSET S -> Nat]
    BY <2>1
  <2> QED
    BY <2>3, <2>4
<1>3. ASSUME NEW n \in Nat, NEW it \in [SUBSET S -> Nat], Good(it, n)
      PROVE  \E up \in [SUBSET S -> Nat] : Good(up, n + 1)
  <2>1. PICK up : up = [s \in SUBSET S |->
                          IF Cardinality(s) = n + 1 THEN SumStep(S, g, it)[s] ELSE it[s]]
    OBVIOUS
  <2>2. ASSUME NEW s \in SUBSET S PROVE SumStep(S, g, it)[s] \in Nat
    <3>1. CASE s = {}
      BY <3>1 DEF SumStep
    <3>2. CASE s # {}
      <4>1. PICK x : x = CHOOSE y \in s : TRUE
        OBVIOUS
      <4>2. x \in S /\ s \ {x} \in SUBSET S
        BY <3>2, <4>1
      <4>3. SumStep(S, g, it)[s] = g[x] + it[s \ {x}]
        BY <3>2, <4>1 DEF SumStep
      <4> QED
        BY <4>2, <4>3
    <3> QED
      BY <3>1, <3>2
  <2>3. up \in [SUBSET S -> Nat]
    BY <2>1, <2>2
  <2>4. ASSUME NEW s \in SUBSET S, Cardinality(s) <= n + 1 PROVE up[s] = SumStep(S, g, up)[s]
    <3>1. up[s] = SumStep(S, g, it)[s]
      BY <1>1, <1>3, <2>1, <2>4
    <3>2. CASE s = {}
      BY <3>1, <3>2 DEF SumStep
    <3>3. CASE s # {}
      <4>1. PICK x : x = CHOOSE y \in s : TRUE
        OBVIOUS
      <4>5. /\ x \in s /\ s \ {x} \in SUBSET S
            /\ Cardinality(s) \in Nat /\ Cardinality(s \ {x}) = Cardinality(s) - 1
        BY <3>3, <4>1, RestIsSmaller
      <4>2. x \in s /\ s \ {x} \in SUBSET S /\ Cardinality(s \ {x}) # n + 1
        BY <2>4, <4>5
      <4>3. up[s \ {x}] = it[s \ {x}]
        BY <2>1, <4>2
      <4>4. SumStep(S, g, up)[s] = g[x] + up[s \ {x}] /\ SumStep(S, g, it)[s] = g[x] + it[s \ {x}]
        BY <3>3, <4>1 DEF SumStep
      <4> QED
        BY <3>1, <4>3, <4>4
    <3> QED
      BY <3>2, <3>3
  <2> QED
    BY <2>3, <2>4
<1> HIDE DEF Good
<1>4. Sizes = {}
  <2>1. ASSUME Sizes # {} PROVE FALSE
    <3>1. PICK n \in Sizes : \A k \in Sizes : n <= k
      BY <2>1, NatMin
    <3>2. n \in Nat /\ n # 0
      BY <1>2, <3>1
    <3>3. PICK k \in Nat : k = n - 1 /\ k + 1 = n /\ ~(n <= k)
      BY <3>2
    <3>5. k \notin Sizes
      <4> HIDE DEF Sizes
      <4> QED
        BY <3>1, <3>3
    <3>4. PICK it \in [SUBSET S -> Nat] : Good(it, k)
      BY <3>5
    <3>6. \E up \in [SUBSET S -> Nat] : Good(up, k + 1)
      BY <1>3, <3>4, <3>5
    <3> QED
      BY <3>1, <3>3, <3>6
  <2> QED
    BY <2>1
<1>5. PICK n \in Nat : n = Cardinality(S)
  BY FS_CardinalityType
<1>6. PICK it \in [SUBSET S -> Nat] : Good(it, n)
  BY <1>4, <1>5
<1>7. \A s \in SUBSET S : Cardinality(s) <= n
  BY <1>5, FS_Subset
<1>8. \A s \in SUBSET S : it[s] = SumStep(S, g, it)[s]
  BY <1>6, <1>7 DEF Good
<1>9. it = SumStep(S, g, it)
  BY <1>8 DEF SumStep
<1> QED
  BY <1>9

\* A sum of numbers up to a bound is that bound times their number at most.
LEMMA SumBounded ==
    ASSUME NEW S, IsFiniteSet(S), NEW bound \in Nat, NEW g \in [S -> 0..bound],
           NEW it, it = SumStep(S, g, it)
    PROVE  it[S] \in Nat /\ it[S] <= bound * Cardinality(S)
<1> DEFINE Sizes == {n \in Nat : \E s \in SUBSET S :
                       Cardinality(s) = n /\ ~(it[s] \in Nat /\ it[s] <= bound * n)}
<1>1. \A s \in SUBSET S : Cardinality(s) \in Nat /\ IsFiniteSet(s)
  BY FS_Subset, FS_CardinalityType
<1>2. ASSUME NEW n \in Sizes, \A k \in Sizes : n <= k PROVE FALSE
  <2>1. PICK s \in SUBSET S : Cardinality(s) = n /\ ~(it[s] \in Nat /\ it[s] <= bound * n)
    BY <1>2
  <2>2. it[s] = SumStep(S, g, it)[s]
    OBVIOUS
  <2>3. CASE s = {}
    <3>1. it[s] = 0 /\ n = 0
      BY <1>1, <2>1, <2>2, <2>3, FS_EmptySet DEF SumStep
    <3> QED
      BY <2>1, <3>1
  <2>4. CASE s # {}
    <3>1. PICK x : x = CHOOSE y \in s : TRUE
      OBVIOUS
    <3>2. PICK rest : rest = s \ {x}
      OBVIOUS
    <3>3. x \in S /\ rest \in SUBSET S /\ Cardinality(rest) \in Nat /\ Cardinality(rest) = n - 1
      BY <2>1, <2>4, <3>1, <3>2, RestIsSmaller
    <3>4. it[s] = g[x] + it[rest]
      BY <2>2, <2>4, <3>1, <3>2 DEF SumStep
    <3>5. PICK k \in Nat : k = n - 1 /\ n = k + 1 /\ k < n
      BY <3>3
    <3>6. k \notin Sizes
      BY <1>2, <3>5
    <3>7. it[rest] \in Nat /\ it[rest] <= bound * k
      BY <3>3, <3>5, <3>6
    <3>8. PICK a \in Nat, b \in Nat : a = g[x] /\ b = it[rest] /\ a <= bound
      BY <3>3, <3>7
    <3>9. a + b \in Nat /\ a + b <= bound * (k + 1)
      <4>1. bound * (k + 1) = bound * k + bound /\ bound * k \in Nat
        OBVIOUS
      <4>2. PICK c \in Nat : c = bound * k
        BY <4>1
      <4>3. b <= c
        BY <3>7, <3>8, <4>2
      <4> QED
        BY <3>8, <4>1, <4>2, <4>3
    <3> QED
      BY <2>1, <3>4, <3>5, <3>8, <3>9
  <2> QED
    BY <2>3, <2>4
<1>3. Sizes = {}
  <2>1. Sizes \in SUBSET Nat
    OBVIOUS
  <2> HIDE DEF Sizes
  <2> QED
    BY <1>2, <2>1, NatMin
<1> QED
  BY <1>1, <1>3

\* The mean of scores is a score, or NaN.
LEMMA MeanIsNumber ==
    ASSUME NEW results, Accounted(results), NEW m, Scored(results, m) # {},
           \A i \in Scored(results, m) : results[i].scores[m] \in Numbers
    PROVE  Mean(results, m) \in Numbers
<1>1. CASE \E i \in Scored(results, m) : results[i].scores[m] = NaN
  BY <1>1 DEF Mean, Numbers
<1>2. CASE ~\E i \in Scored(results, m) : results[i].scores[m] = NaN
  <2>1. PICK S : S = Scored(results, m)
    OBVIOUS
  <2>2. IsFiniteSet(S)
    <3>1. PICK n \in Nat : n = Len(results) /\ DOMAIN results = 1..n
      BY LenProperties DEF Accounted
    <3>2. S \in SUBSET (1..n) /\ IsFiniteSet(1..n)
      BY <2>1, <3>1, FS_Interval DEF Scored
    <3> QED
      BY ONLY <3>2, FS_Subset
  <2>3. PICK g : g = [i \in S |-> results[i].scores[m]]
    OBVIOUS
  <2>4. g \in [S -> 0..MaxScore]
    BY <1>2, <2>1, <2>3 DEF Numbers
  <2>5. MaxScore \in Nat /\ g \in [S -> Nat]
    BY <2>4, BoundsNat
  <2> DEFINE Step(it) == [s \in SUBSET S |-> IF s = {} THEN 0
                            ELSE LET x == CHOOSE x \in s : TRUE IN results[x].scores[m] + it[s \ {x}]]
  <2>6. PICK sum : sum = CHOOSE it : it = Step(it)
    OBVIOUS
  <2>7. Mean(results, m) = sum[S] \div Cardinality(S)
    BY <1>2, <2>1, <2>6 DEF Mean, MapThenSumSet, MapThenFoldSet
  <2>8. \A it : Step(it) = SumStep(S, g, it)
    BY <2>3 DEF SumStep
  <2>9. sum = SumStep(S, g, sum)
    <3> HIDE DEF Step
    <3>1. \E it : it = Step(it)
      BY <2>2, <2>5, <2>8, SumExists
    <3>2. sum = Step(sum)
      BY <2>6, <3>1
    <3> QED
      BY <2>8, <3>2
  <2>10. sum[S] \in Nat /\ sum[S] <= MaxScore * Cardinality(S)
    BY <2>2, <2>4, <2>5, <2>9, SumBounded
  <2>11. PICK k \in Nat : k = Cardinality(S) /\ k > 0
    BY <2>1, <2>2, FS_CardinalityType, FS_EmptySet
  <2>12. PICK a \in Nat : a = sum[S] /\ a <= MaxScore * k
    BY <2>10, <2>11
  <2>13. a \div k \in 0..MaxScore
    BY ONLY <2>11, <2>12, <2>5
  <2> QED
    BY <2>7, <2>11, <2>12, <2>13 DEF Numbers
<1> QED
  BY <1>1, <1>2

\* A file of the directories, and a job, of their types.
FileTyped(f) == f \in {Missing, Torn, Garbled} \/ f.aggregate \in Aggregates

JobTyped(s) ==
    /\ s.at \in {"idle", "assembling", "scored", "reporting", "reported",
                "archiving", "archived", "ended"}
    /\ s.end \in {"none", "exit0", "exit1", "aborted", "noclient", "killed"}
    /\ s.base \subseteq Aggregates /\ Cardinality(s.base) <= 1
    /\ s.aggregate \in Aggregates /\ s.stamp \in 0..MaxClock

\* None or one is few enough, and a job that has done nothing is of its type.
LEMMA FewBases ==
    /\ Cardinality({}) <= 1 /\ \A a : Cardinality({a}) <= 1
    /\ NoMeans \in Aggregates /\ JobTyped(NoJob)
<1>1. Cardinality({}) = 0 /\ \A a : Cardinality({a}) = 1
  BY FS_EmptySet, FS_Singleton
<1>2. NoMeans \in [{} -> Numbers] /\ {} \in SUBSET Metrics
  BY DEF NoMeans
<1>3. NoMeans \in Aggregates
  BY <1>2 DEF Aggregates
<1>4. 0 \in 0..MaxClock
  BY BoundsNat
<1> QED
  BY <1>1, <1>3, <1>4 DEF JobTyped, NoJob

\* The means over records that are accounted for are scores.
LEMMA MeansTyped ==
    ASSUME NEW results, Accounted(results) PROVE Aggregate(results) \in Aggregates
<1> DEFINE Scoring == {x \in Metrics : Scored(results, x) # {}}
<1>1. ASSUME NEW m \in Scoring PROVE Mean(results, m) \in Numbers
  <2>1. ASSUME NEW i \in Scored(results, m) PROVE results[i].scores[m] \in Numbers
    <3>1. i \in DOMAIN results /\ m \in DOMAIN results[i].scores
      BY <2>1 DEF Scored
    <3>2. results[i] \in Outcomes
      BY <3>1, ElementOfSeq DEF Accounted
    <3>3. results[i].scores \in Aggregates
      BY <3>2 DEF Outcomes
    <3> QED
      BY <3>1, <3>3 DEF Aggregates
  <2> QED
    BY <2>1, MeanIsNumber
<1>2. Aggregate(results) = [m \in Scoring |-> Mean(results, m)]
  BY DEF Aggregate
<1>3. Aggregate(results) \in [Scoring -> Numbers]
  BY <1>1, <1>2
<1> QED
  BY <1>3 DEF Aggregates

\* A step of one job keeps the types.
LEMMA TypesKept ==
    ASSUME EvalInv, EvalTyped, NEW j \in Jobs, NEW s, Turns(j, s), JobTyped(s), clock' = clock,
           runs' \in 0..MaxRuns, tangled' \in BOOLEAN, FileTyped(report'),
           \A t \in 0..MaxClock : FileTyped(history'[t])
    PROVE  EvalTyped'
<1>1. jobs'[j] = s /\ \A i \in Jobs \ {j} : jobs'[i] = jobs[i]
  BY TurnsOne DEF EvalInv
<1>2. \A i \in Jobs : JobTyped(jobs[i])
  BY DEF EvalTyped, JobTyped
<1>3. \A i \in Jobs : JobTyped(jobs'[i])
  BY <1>1, <1>2
<1>4. clock' \in 1..MaxClock
  BY DEF EvalTyped
<1> QED
  BY <1>3, <1>4 DEF EvalTyped, JobTyped, FileTyped

\* The files of both directories are of their type.
LEMMA FilesTyped ==
    ASSUME EvalTyped
    PROVE  FileTyped(report) /\ \A t \in 0..MaxClock : FileTyped(history[t])
BY DEF EvalTyped, FileTyped

\* What a job reads as its baseline, from the report or the history, are means.
LEMMA StartTyped ==
    ASSUME EvalInv, EvalTyped, NEW j \in Jobs, Start(j) PROVE EvalTyped'
<1>1. /\ UNCHANGED <<history, report, clock>> /\ runs < MaxRuns /\ runs' = runs + 1
      /\ tangled' = (tangled \/ \E i \in Jobs \ {j} : Running(i))
  BY DEF Start
<1>2. runs' \in 0..MaxRuns /\ tangled' \in BOOLEAN
  BY <1>1, BoundsNat DEF EvalTyped
<1>3. FileTyped(report') /\ \A t \in 0..MaxClock : FileTyped(history'[t])
  BY <1>1, FilesTyped
<1>4. LatestBaseline(history) \subseteq Aggregates /\ Cardinality(LatestBaseline(history)) <= 1
  <2>1. CASE LoadHistory(history) = <<>>
    BY <2>1, FewBases DEF LatestBaseline
  <2>2. CASE LoadHistory(history) # <<>>
    <3>1. PICK last : last = Last(LoadHistory(history))
      OBVIOUS
    <3>2. last \in UsableFiles(history)
      BY <2>2, <3>1, NewestIsLast, HistoryBounded
    <3>3. last \in 0..MaxClock /\ history[last] \notin {Missing, Torn, Garbled}
      BY <3>2, HistoryBounded DEF UsableFiles, Usable
    <3>4. history[last].aggregate \in Aggregates
      BY <3>3, FilesTyped DEF FileTyped
    <3>5. LatestBaseline(history) = {history[last].aggregate}
      BY <2>2, <3>1 DEF LatestBaseline
    <3> QED
      BY <3>4, <3>5, FewBases
  <2> QED
    BY <2>1, <2>2
<1>5. PICK case \in Cases :
        LET base == CASE case.baseline = "report" -> {report.aggregate}
                      [] case.baseline = "history" -> LatestBaseline(history)
                      [] OTHER -> {}
        IN IF Unreadable(case) \/ Unparsable(case)
           THEN Turns(j, [[NoJob EXCEPT !.case = case] EXCEPT !.at = "ended", !.end = "aborted"])
           ELSE Turns(j, [[NoJob EXCEPT !.case = case] EXCEPT !.at = "assembling", !.base = base])
  BY DEF Start
<1>6. PICK base : base = CASE case.baseline = "report" -> {report.aggregate}
                           [] case.baseline = "history" -> LatestBaseline(history)
                           [] OTHER -> {}
  OBVIOUS
<1>7. CASE Unreadable(case) \/ Unparsable(case)
  <2>1. PICK s : s = [[NoJob EXCEPT !.case = case] EXCEPT !.at = "ended", !.end = "aborted"]
    OBVIOUS
  <2>2. Turns(j, s)
    BY <1>5, <1>7, <2>1
  <2>3. JobTyped(s)
    BY <2>1, FewBases DEF JobTyped, NoJob
  <2> QED
    BY <1>1, <1>2, <1>3, <2>2, <2>3, TypesKept
<1>8. CASE ~(Unreadable(case) \/ Unparsable(case))
  <2>1. PICK s : s = [[NoJob EXCEPT !.case = case] EXCEPT !.at = "assembling", !.base = base]
    OBVIOUS
  <2>2. Turns(j, s)
    BY <1>5, <1>6, <1>8, <2>1
  <2>3. base \subseteq Aggregates /\ Cardinality(base) <= 1
    <3>1. CASE case.baseline = "report"
      <4>1. report.aggregate \in Aggregates
        BY <1>8, <3>1, FilesTyped DEF Unreadable, FileTyped
      <4>2. base = {report.aggregate}
        BY <1>6, <3>1
      <4> QED
        BY <4>1, <4>2, FewBases
    <3>2. CASE case.baseline # "report"
      BY <1>4, <1>6, <3>2, FewBases
    <3> QED
      BY <3>1, <3>2
  <2>4. JobTyped(s)
    BY <2>1, <2>3, FewBases DEF JobTyped, NoJob
  <2> QED
    BY <1>1, <1>2, <1>3, <2>2, <2>4, TypesKept
<1> QED
  BY <1>7, <1>8

\* The steps up to the scoring keep the types: the means they make are scores.
LEMMA RecordsTyped ==
    ASSUME EvalInv, EvalTyped, NEW j \in Jobs, Assemble(j) \/ Score(j) \/ NoClients(j) \/ Kill(j)
    PROVE  EvalTyped'
<1>1. UNCHANGED <<history, report, clock, runs, tangled>>
  BY DEF Assemble, Score, NoClients, Kill
<1>2. runs' \in 0..MaxRuns /\ tangled' \in BOOLEAN /\ clock' = clock
  BY <1>1 DEF EvalTyped
<1>3. FileTyped(report') /\ \A t \in 0..MaxClock : FileTyped(history'[t])
  BY <1>1, FilesTyped
<1>4. JobOK(jobs[j], clock) /\ JobTyped(jobs[j])
  BY DEF EvalInv, EvalTyped, JobTyped
<1>5. ASSUME Assemble(j) PROVE \E s : Turns(j, s) /\ JobTyped(s)
  <2>1. PICK result : Turns(j, [jobs[j] EXCEPT !.results = Append(@, result)])
    BY <1>5 DEF Assemble
  <2>2. PICK s : s = [jobs[j] EXCEPT !.results = Append(@, result)]
    OBVIOUS
  <2>3. /\ s.at = jobs[j].at /\ s.end = jobs[j].end /\ s.base = jobs[j].base
        /\ s.aggregate = jobs[j].aggregate /\ s.stamp = jobs[j].stamp
    BY <1>4, <2>2 DEF JobOK, JobFields
  <2>4. JobTyped(s)
    BY <1>4, <2>3 DEF JobTyped
  <2> QED
    BY <2>1, <2>2, <2>4
<1>6. ASSUME Score(j) PROVE \E s : Turns(j, s) /\ JobTyped(s)
  <2>1. PICK results, rows :
          Turns(j, [jobs[j] EXCEPT !.at = "scored", !.results = results, !.rows = rows,
                                   !.aggregate = Aggregate(results), !.counts = Summarize(results)])
    BY <1>6 DEF Score
  <2>2. PICK s : s = [jobs[j] EXCEPT !.at = "scored", !.results = results, !.rows = rows,
                                     !.aggregate = Aggregate(results), !.counts = Summarize(results)]
    OBVIOUS
  <2>3. jobs'[j] = s
    BY <2>1, <2>2, TurnsOne DEF EvalInv
  <2>4. /\ s.at = "scored" /\ s.end = jobs[j].end /\ s.base = jobs[j].base /\ s.results = results
        /\ s.aggregate = Aggregate(results) /\ s.stamp = jobs[j].stamp
    BY <1>4, <2>2 DEF JobOK, JobFields
  <2>5. Accounted(results)
    <3>1. EvalInv'
      BY <1>6, ScoreKeeps
    <3>2. JobOK(s, clock')
      BY <2>3, <3>1 DEF EvalInv
    <3> QED
      BY <2>4, <3>2 DEF JobOK
  <2>6. s.aggregate \in Aggregates
    BY <2>4, <2>5, MeansTyped
  <2>7. JobTyped(s)
    BY <1>4, <2>4, <2>6 DEF JobTyped
  <2> QED
    BY <2>1, <2>2, <2>7
<1>7. ASSUME NoClients(j) PROVE \E s : Turns(j, s) /\ JobTyped(s)
  <2>1. PICK s : s = [jobs[j] EXCEPT !.at = "ended", !.end = "noclient", !.results = <<>>, !.rows = <<>>, !.base = {}]
    OBVIOUS
  <2>2. /\ s.at = "ended" /\ s.end = "noclient" /\ s.base = {} /\ s.aggregate = jobs[j].aggregate
        /\ s.stamp = jobs[j].stamp
    BY <1>4, <2>1 DEF JobOK, JobFields
  <2>3. JobTyped(s) /\ Turns(j, s)
    BY <1>4, <1>7, <2>1, <2>2, FewBases DEF JobTyped, NoClients, Ends
  <2> QED
    BY <2>3
<1>8. ASSUME Kill(j) PROVE \E s : Turns(j, s) /\ JobTyped(s)
  <2>1. PICK s : s = [NoJob EXCEPT !.at = "ended", !.end = "killed"]
    OBVIOUS
  <2>2. JobTyped(s) /\ Turns(j, s)
    BY <1>8, <2>1, FewBases DEF JobTyped, NoJob, Kill
  <2> QED
    BY <2>2
<1>9. PICK s : Turns(j, s) /\ JobTyped(s)
  BY <1>5, <1>6, <1>7, <1>8
<1> QED
  BY <1>2, <1>3, <1>9, TypesKept

\* The steps on the report and the trend keep the types.
LEMMA ReportTyped ==
    ASSUME EvalInv, EvalTyped, NEW j \in Jobs, OpenReport(j) \/ SaveReport(j) \/ RenderTrend(j)
    PROVE  EvalTyped'
<1>1. UNCHANGED <<history, clock, runs, tangled>>
  BY DEF OpenReport, SaveReport, RenderTrend
<1>2. runs' \in 0..MaxRuns /\ tangled' \in BOOLEAN /\ clock' = clock
  BY <1>1 DEF EvalTyped
<1>3. \A t \in 0..MaxClock : FileTyped(history'[t])
  BY <1>1, FilesTyped
<1>4. JobOK(jobs[j], clock) /\ JobTyped(jobs[j])
  BY DEF EvalInv, EvalTyped, JobTyped
<1>5. FileTyped(report')
  <2>1. CASE report' = report \/ report' = Torn
    BY <2>1, FilesTyped DEF FileTyped
  <2>2. CASE SaveReport(j)
    <3>1. PICK payload : payload = [aggregate |-> jobs[j].aggregate, passed |-> FALSE, gated |-> FALSE]
      OBVIOUS
    <3>2. report' = payload \/ report' = Torn
      BY <2>2, <3>1 DEF SaveReport, AfterWrite
    <3>3. payload.aggregate \in Aggregates
      BY <1>4, <3>1 DEF JobTyped
    <3> QED
      BY <3>2, <3>3 DEF FileTyped
  <2> QED
    BY <2>1, <2>2 DEF OpenReport, RenderTrend
<1>6. ASSUME OpenReport(j) PROVE \E s : Turns(j, s) /\ JobTyped(s)
  <2>1. PICK s : s = [jobs[j] EXCEPT !.at = "reporting"]
    OBVIOUS
  <2>2. /\ s.at = "reporting" /\ s.end = jobs[j].end /\ s.base = jobs[j].base
        /\ s.aggregate = jobs[j].aggregate /\ s.stamp = jobs[j].stamp
    BY <1>4, <2>1 DEF JobOK, JobFields
  <2> QED
    BY <1>4, <1>6, <2>1, <2>2 DEF JobTyped, OpenReport
<1>7. ASSUME SaveReport(j) PROVE \E s : Turns(j, s) /\ JobTyped(s)
  <2>1. CASE jobs[j].case.tool = "gate"
    <3>1. PICK s : s = [jobs[j] EXCEPT !.at = "reported", !.results = <<>>, !.rows = <<>>]
      OBVIOUS
    <3>2. /\ s.at = "reported" /\ s.end = jobs[j].end /\ s.base = jobs[j].base
          /\ s.aggregate = jobs[j].aggregate /\ s.stamp = jobs[j].stamp
      BY <1>4, <3>1 DEF JobOK, JobFields
    <3> QED
      BY <1>4, <1>7, <2>1, <3>1, <3>2 DEF JobTyped, SaveReport
  <2>2. CASE jobs[j].case.tool # "gate"
    <3>1. PICK how : how = EvalExit(jobs[j])
      OBVIOUS
    <3>2. PICK s : s = [jobs[j] EXCEPT !.at = "ended", !.end = how, !.results = <<>>, !.rows = <<>>, !.base = {}]
      OBVIOUS
    <3>3. /\ s.at = "ended" /\ s.end \in {"exit0", "exit1"} /\ s.base = {}
          /\ s.aggregate = jobs[j].aggregate /\ s.stamp = jobs[j].stamp
      BY <1>4, <3>1, <3>2 DEF JobOK, JobFields, EvalExit
    <3>4. JobTyped(s)
      BY <1>4, <3>3, FewBases DEF JobTyped
    <3> QED
      BY <1>7, <2>2, <3>1, <3>2, <3>4 DEF SaveReport, Ends
  <2> QED
    BY <2>1, <2>2
<1>8. ASSUME RenderTrend(j) PROVE \E s : Turns(j, s) /\ JobTyped(s)
  <2>1. CASE HistoryRaises(history)
    <3>1. PICK s : s = [jobs[j] EXCEPT !.at = "ended", !.end = "aborted", !.results = <<>>,
                                       !.rows = <<>>, !.base = {}]
      OBVIOUS
    <3>2. /\ s.at = "ended" /\ s.end = "aborted" /\ s.base = {}
          /\ s.aggregate = jobs[j].aggregate /\ s.stamp = jobs[j].stamp
      BY <1>4, <3>1 DEF JobOK, JobFields
    <3>3. JobTyped(s)
      BY <1>4, <3>2, FewBases DEF JobTyped
    <3> QED
      BY <1>8, <2>1, <3>1, <3>3 DEF RenderTrend, Ends
  <2>2. CASE ~HistoryRaises(history)
    <3>1. PICK trend, how : trend = Trend(history, jobs[j].case.floors) /\ how = GateExit(jobs[j])
      OBVIOUS
    <3>2. PICK s : s = [jobs[j] EXCEPT !.at = "ended", !.base = {}, !.trend = trend, !.end = how]
      OBVIOUS
    <3>3. /\ s.at = "ended" /\ s.end \in {"exit0", "exit1"} /\ s.base = {}
          /\ s.aggregate = jobs[j].aggregate /\ s.stamp = jobs[j].stamp
      BY <1>4, <3>1, <3>2 DEF JobOK, JobFields, GateExit
    <3>4. JobTyped(s)
      BY <1>4, <3>3, FewBases DEF JobTyped
    <3> QED
      BY <1>8, <2>2, <3>1, <3>2, <3>4 DEF RenderTrend
  <2> QED
    BY <2>1, <2>2
<1>9. PICK s : Turns(j, s) /\ JobTyped(s)
  BY <1>6, <1>7, <1>8
<1> QED
  BY <1>2, <1>3, <1>5, <1>9, TypesKept

\* The steps on the history keep the types.
LEMMA ArchiveTyped ==
    ASSUME EvalInv, EvalTyped, NEW j \in Jobs, OpenArchive(j) \/ SaveArchive(j) PROVE EvalTyped'
<1>1. UNCHANGED <<report, clock, runs>>
  BY DEF OpenArchive, SaveArchive
<1>2. runs' \in 0..MaxRuns /\ clock' = clock /\ FileTyped(report') /\ tangled' \in BOOLEAN
  BY <1>1, FilesTyped DEF EvalTyped, OpenArchive, SaveArchive
<1>3. JobOK(jobs[j], clock) /\ JobTyped(jobs[j])
  BY DEF EvalInv, EvalTyped, JobTyped
<1>4. PICK file, content : history' = [history EXCEPT ![file] = content] /\ FileTyped(content)
  <2>1. CASE OpenArchive(j)
    BY <2>1 DEF OpenArchive, FileTyped
  <2>2. CASE SaveArchive(j)
    <3>1. PICK payload : payload = Payload(jobs[j])
      OBVIOUS
    <3>2. PICK content \in AfterWrite(history[jobs[j].stamp], payload) :
            history' = [history EXCEPT ![jobs[j].stamp] = content]
      BY <2>2, <3>1 DEF SaveArchive
    <3>3. content = payload \/ content = Torn
      BY <3>2 DEF AfterWrite
    <3>4. payload.aggregate \in Aggregates
      BY <1>3, <3>1 DEF JobTyped, Payload
    <3>5. FileTyped(content)
      BY <3>3, <3>4 DEF FileTyped
    <3> QED
      BY <3>2, <3>5
  <2> QED
    BY <2>1, <2>2
<1>5. ASSUME NEW t \in 0..MaxClock PROVE FileTyped(history'[t])
  <2>1. DOMAIN history = 0..MaxClock /\ FileTyped(history[t])
    BY FilesTyped DEF EvalInv
  <2>2. history'[t] = content \/ history'[t] = history[t]
    BY <1>4, <2>1
  <2> QED
    BY <1>4, <2>1, <2>2
<1>6. ASSUME OpenArchive(j) PROVE \E s : Turns(j, s) /\ JobTyped(s)
  <2>1. PICK s : s = [jobs[j] EXCEPT !.at = "archiving", !.stamp = clock]
    OBVIOUS
  <2>2. /\ s.at = "archiving" /\ s.end = jobs[j].end /\ s.base = jobs[j].base
        /\ s.aggregate = jobs[j].aggregate /\ s.stamp = clock
    BY <1>3, <2>1 DEF JobOK, JobFields
  <2>3. clock \in 0..MaxClock
    BY BoundsNat DEF EvalTyped
  <2> QED
    BY <1>3, <1>6, <2>1, <2>2, <2>3 DEF JobTyped, OpenArchive, Stamp
<1>7. ASSUME SaveArchive(j) PROVE \E s : Turns(j, s) /\ JobTyped(s)
  <2>1. PICK s : s = [jobs[j] EXCEPT !.at = "archived"]
    OBVIOUS
  <2>2. /\ s.at = "archived" /\ s.end = jobs[j].end /\ s.base = jobs[j].base
        /\ s.aggregate = jobs[j].aggregate /\ s.stamp = jobs[j].stamp
    BY <1>3, <2>1 DEF JobOK, JobFields
  <2> QED
    BY <1>3, <1>7, <2>1, <2>2 DEF JobTyped, SaveArchive
<1>8. PICK s : Turns(j, s) /\ JobTyped(s)
  BY <1>6, <1>7
<1> QED
  BY <1>2, <1>5, <1>8, TypesKept

\* Jobs, files, clock and counters are of their types in every reachable state; above all every
\* mean, of a job or in a file, is a score of the scale or NaN (_aggregate, archive_run).
THEOREM SpecEvalTyped == EvalSpec => []EvalTyped
<1>1. ASSUME EvalInit PROVE EvalTyped
  <2>1. PICK dropped \in Dropped :
          /\ history = [t \in 0..MaxClock |-> IF t = 0 THEN dropped.history ELSE Missing]
          /\ report = dropped.report
    BY <1>1 DEF EvalInit
  <2>2. FileTyped(dropped.history) /\ FileTyped(dropped.report) /\ FileTyped(Missing)
    BY DroppedReports DEF FileTyped
  <2>3. FileTyped(report) /\ \A t \in 0..MaxClock : FileTyped(history[t])
    BY <2>1, <2>2
  <2>4. \A j \in Jobs : JobTyped(jobs[j])
    BY <1>1, FewBases DEF EvalInit
  <2>5. clock = 1 /\ runs = 0 /\ tangled = FALSE
    BY <1>1 DEF EvalInit
  <2>6. clock \in 1..MaxClock /\ runs \in 0..MaxRuns
    BY <2>5, BoundsNat
  <2>7. tangled \in BOOLEAN
    BY <2>5
  <2> QED
    BY <2>3, <2>4, <2>6, <2>7 DEF EvalTyped, FileTyped, JobTyped
<1>2. ASSUME EvalInv, EvalTyped, [EvalNext]_evalVars PROVE EvalTyped'
  <2>1. CASE ClockTick
    <3>1. /\ clock' = clock + 1 /\ clock < MaxClock
          /\ UNCHANGED <<jobs, history, report, runs, tangled>>
      BY <2>1 DEF ClockTick
    <3>2. clock' \in 1..MaxClock
      BY <1>2, <3>1, BoundsNat DEF EvalTyped
    <3> QED
      BY <1>2, <3>1, <3>2 DEF EvalTyped
  <2>2. ASSUME NEW j \in Jobs, Start(j) \/ Job(j) \/ Kill(j) PROVE EvalTyped'
    BY <1>2, <2>2, StartTyped, RecordsTyped, ReportTyped, ArchiveTyped DEF Job
  <2>3. CASE UNCHANGED evalVars
    BY <1>2, <2>3 DEF EvalTyped, evalVars
  <2> QED
    BY <1>2, <2>1, <2>2, <2>3 DEF EvalNext
<1> QED
  BY <1>1, <1>2, SpecEvalInv, PTL DEF EvalSpec

\* The gate accounts for every score: what RAGAS gave is in the report once, each count and mean
\* is over the records with a score of the metric, which is on the scale, none but a row without
\* a number leaves a record with neither scores nor an error; and it exits 0 only with a number,
\* from one record at least, on or above each of its floors (ragas_eval.py: assemble, score,
\* check_thresholds): for any jobs, metrics, rows, command lines and tolerance.
THEOREM SpecGateSound == EvalSpec => []GateSound
<1>1. ASSUME EvalInv PROVE RecordsSettled
  <2>1. ASSUME NEW j \in Jobs, jobs[j].at \in {"scored", "reporting"}
        PROVE  /\ Accounted(jobs[j].results) /\ Kept(jobs[j].results, jobs[j].rows)
               /\ Counted(jobs[j].results, jobs[j].counts)
    BY <1>1, <2>1 DEF EvalInv, JobOK
  <2> QED
    BY <2>1 DEF RecordsSettled, Accounted, Kept, Counted, Blank, BlankRows, RowsWith
<1>2. ASSUME EvalInv PROVE FloorsHold
  <2>1. ASSUME NEW j \in Jobs, jobs[j].end = "exit0", NEW m \in DOMAIN jobs[j].case.floors
        PROVE  /\ m \in DOMAIN jobs[j].aggregate /\ jobs[j].aggregate[m] # NaN
               /\ jobs[j].aggregate[m] >= jobs[j].case.floors[m] /\ jobs[j].counts[m] > 0
    <3>1. JobOK(jobs[j], clock)
      BY <1>2 DEF EvalInv
    <3>2. Misses(jobs[j].aggregate, jobs[j].case.floors) = {}
      BY <2>1, <3>1 DEF JobOK
    <3>3. m \in DOMAIN jobs[j].aggregate /\ AtLeast(jobs[j].aggregate[m], jobs[j].case.floors[m])
      BY <2>1, <3>2 DEF Misses
    <3>4. jobs[j].counts[m] > 0
      BY <3>1, <3>3 DEF JobOK
    <3> QED
      BY <3>3, <3>4 DEF AtLeast
  <2> QED
    BY <2>1 DEF FloorsHold
<1>3. EvalInv /\ EvalTyped => GateSound
  BY <1>1, <1>2 DEF GateSound
<1> QED
  BY <1>3, SpecEvalInv, SpecEvalTyped, PTL

\* Why a job that is aborted is: the benchmark, an explicit baseline, or what no job has written.
Excused(s) == s.case.baseline = "report" \/ s.case.benchmark = Missing \/ history[0] = Garbled

\* No job writes what is not UTF-8, and none is aborted but for a reason.
AbortInv ==
    /\ \A t \in 1..MaxClock : history[t] # Garbled
    /\ \A j \in Jobs : jobs[j].end = "aborted" => Excused(jobs[j])

\* What a gate archives is a report, and usable if it has a mean.
LEMMA PayloadIsReport ==
    ASSUME NEW s, s.aggregate \in Aggregates
    PROVE  /\ Payload(s) \notin {Missing, Torn, Garbled}
           /\ Payload(s).aggregate = s.aggregate
           /\ DOMAIN s.aggregate # {} => Usable(Payload(s))
<1>3. Passes(s) \in BOOLEAN
  BY DEF Passes
<1>4. (s.case.baseline = "history") \in BOOLEAN
  OBVIOUS
<1>1. PICK passed, gated : passed = Passes(s) /\ gated = (s.case.baseline = "history")
  OBVIOUS
<1>5. passed \in BOOLEAN /\ gated \in BOOLEAN
  BY <1>1, <1>3, <1>4
<1>2. Payload(s) = [aggregate |-> s.aggregate, passed |-> passed, gated |-> gated]
  BY <1>1 DEF Payload
<1> QED
  BY <1>2, <1>5, NoReports DEF Usable

\* What a step of a job that leaves the history alone must keep.
LEMMA AbortSteps ==
    ASSUME EvalInv, AbortInv, NEW j \in Jobs, NEW s, Turns(j, s), UNCHANGED history,
           s.end = "aborted" => Excused(s)
    PROVE  AbortInv'
<1>1. jobs'[j] = s /\ \A i \in Jobs \ {j} : jobs'[i] = jobs[i]
  BY TurnsOne DEF EvalInv
<1>2. ASSUME NEW i \in Jobs, jobs'[i].end = "aborted" PROVE Excused(jobs[i])'
  BY <1>1, <1>2 DEF AbortInv, Excused
<1> QED
  BY <1>2 DEF AbortInv

\* A job in its archive, and what it has left there so far.
Archiving(s) == s.at \in {"archiving", "archived"}
Content(s) == IF s.at = "archiving" THEN Torn ELSE Payload(s)

\* What is in the history has been archived; a gate that is alone in its second finds there what
\* it has left.
ArchiveInv ==
    /\ DOMAIN gates = 0..MaxClock /\ \A t \in 0..MaxClock : gates[t] \in Nat
    /\ \A t \in 1..MaxClock : history[t] # Missing => gates[t] > 0
    /\ \A j \in Jobs : Archiving(jobs[j]) =>
        /\ gates[jobs[j].stamp] > 0
        /\ gates[jobs[j].stamp] = 1 =>
            /\ history[jobs[j].stamp] = Content(jobs[j])
            /\ \A i \in Jobs : Archiving(jobs[i]) /\ jobs[i].stamp = jobs[j].stamp => i = j

\* A history that raises does so over the file that no job has written.
LEMMA RaisesIsExcused ==
    ASSUME EvalInv, AbortInv, HistoryRaises(history) PROVE history[0] = Garbled
<1>1. PICK t \in DOMAIN history : history[t] = Garbled
  BY DEF HistoryRaises
<1>2. t \in 0..MaxClock /\ t \notin 1..MaxClock
  BY <1>1 DEF EvalInv, AbortInv
<1>3. t = 0
  BY <1>2, BoundsNat
<1> QED
  BY <1>1, <1>3

\* The steps of a job on anything but the history: it is not in its archive then, and if it is
\* aborted, with a reason.
LEMMA OtherSteps ==
    ASSUME EvalInv, AbortInv, NEW j \in Jobs,
           \/ Start(j) \/ Assemble(j) \/ Score(j) \/ NoClients(j) \/ OpenReport(j)
           \/ SaveReport(j) \/ RenderTrend(j) \/ Kill(j)
    PROVE  /\ history' = history /\ gates' = gates
           /\ \E s : Turns(j, s) /\ ~Archiving(s) /\ (s.end = "aborted" => Excused(s))
<1>1. history' = history /\ gates' = gates
  BY DEF Start, Assemble, Score, NoClients, OpenReport, SaveReport, RenderTrend, Kill
<1>2. JobOK(jobs[j], clock)
  BY DEF EvalInv
<1>3. ASSUME Start(j)
      PROVE \E s : Turns(j, s) /\ ~Archiving(s) /\ (s.end = "aborted" => Excused(s))
  <2>1. PICK case, base :
          IF Unreadable(case) \/ Unparsable(case)
          THEN Turns(j, [[NoJob EXCEPT !.case = case] EXCEPT !.at = "ended", !.end = "aborted"])
          ELSE Turns(j, [[NoJob EXCEPT !.case = case] EXCEPT !.at = "assembling", !.base = base])
    BY <1>3 DEF Start
  <2>2. CASE Unreadable(case) \/ Unparsable(case)
    <3>1. PICK s : s = [[NoJob EXCEPT !.case = case] EXCEPT !.at = "ended", !.end = "aborted"]
      OBVIOUS
    <3>2. s.at = "ended" /\ s.case = case
      BY <3>1 DEF NoJob
    <3>3. case.baseline = "report" \/ case.benchmark = Missing \/ history[0] = Garbled
      BY <2>2, RaisesIsExcused DEF Unreadable, Unparsable
    <3>4. ~Archiving(s) /\ Excused(s)
      BY <3>2, <3>3 DEF Archiving, Excused
    <3> QED
      BY <2>1, <2>2, <3>1, <3>4
  <2>3. CASE ~(Unreadable(case) \/ Unparsable(case))
    <3>1. PICK s : s = [[NoJob EXCEPT !.case = case] EXCEPT !.at = "assembling", !.base = base]
      OBVIOUS
    <3>2. s.at = "assembling" /\ s.end = "none"
      BY <3>1 DEF NoJob
    <3> QED
      BY <2>1, <2>3, <3>1, <3>2 DEF Archiving
  <2> QED
    BY <2>2, <2>3
<1>4. ASSUME Kill(j)
      PROVE \E s : Turns(j, s) /\ ~Archiving(s) /\ (s.end = "aborted" => Excused(s))
  <2>1. PICK s : s = [NoJob EXCEPT !.at = "ended", !.end = "killed"]
    OBVIOUS
  <2>2. s.at = "ended" /\ s.end = "killed"
    BY <2>1 DEF NoJob
  <2> QED
    BY <1>4, <2>1, <2>2 DEF Kill, Archiving
<1>5. ASSUME Assemble(j)
      PROVE \E s : Turns(j, s) /\ ~Archiving(s) /\ (s.end = "aborted" => Excused(s))
  <2>1. PICK result : Turns(j, [jobs[j] EXCEPT !.results = Append(@, result)])
    BY <1>5 DEF Assemble
  <2>2. PICK s : s = [jobs[j] EXCEPT !.results = Append(@, result)]
    OBVIOUS
  <2>3. s.at = "assembling" /\ s.end = "none"
    BY <1>2, <1>5, <2>2 DEF Assemble, In, JobOK, JobFields
  <2> QED
    BY <2>1, <2>2, <2>3 DEF Archiving
<1>6. ASSUME Score(j)
      PROVE \E s : Turns(j, s) /\ ~Archiving(s) /\ (s.end = "aborted" => Excused(s))
  <2>1. PICK results, rows, means, counts :
          Turns(j, [jobs[j] EXCEPT !.at = "scored", !.results = results, !.rows = rows,
                                   !.aggregate = means, !.counts = counts])
    BY <1>6 DEF Score
  <2>2. PICK s : s = [jobs[j] EXCEPT !.at = "scored", !.results = results, !.rows = rows,
                                     !.aggregate = means, !.counts = counts]
    OBVIOUS
  <2>3. s.at = "scored" /\ s.end = "none"
    BY <1>2, <1>6, <2>2 DEF Score, In, JobOK, JobFields
  <2> QED
    BY <2>1, <2>2, <2>3 DEF Archiving
<1>7. ASSUME OpenReport(j)
      PROVE \E s : Turns(j, s) /\ ~Archiving(s) /\ (s.end = "aborted" => Excused(s))
  <2>1. PICK s : s = [jobs[j] EXCEPT !.at = "reporting"]
    OBVIOUS
  <2>2. s.at = "reporting" /\ s.end = "none"
    BY <1>2, <1>7, <2>1 DEF OpenReport, In, JobOK, JobFields
  <2> QED
    BY <1>7, <2>1, <2>2 DEF Archiving, OpenReport
\* The ends of a run, with whatever exit code.
<1>8. ASSUME NEW how, Ends(j, how), how = "aborted" => HistoryRaises(history)
      PROVE \E s : Turns(j, s) /\ ~Archiving(s) /\ (s.end = "aborted" => Excused(s))
  <2>1. PICK s : s = [jobs[j] EXCEPT !.at = "ended", !.end = how, !.results = <<>>, !.rows = <<>>,
                                     !.base = {}]
    OBVIOUS
  <2>2. s.at = "ended" /\ s.end = how
    BY <1>2, <2>1 DEF JobOK, JobFields
  <2>3. s.end = "aborted" => Excused(s)
    BY <1>8, <2>2, RaisesIsExcused DEF Excused
  <2> QED
    BY <1>8, <2>1, <2>2, <2>3 DEF Archiving, Ends
<1>9. ASSUME SaveReport(j)
      PROVE \E s : Turns(j, s) /\ ~Archiving(s) /\ (s.end = "aborted" => Excused(s))
  <2>1. CASE jobs[j].case.tool = "gate"
    <3>1. PICK s : s = [jobs[j] EXCEPT !.at = "reported", !.results = <<>>, !.rows = <<>>]
      OBVIOUS
    <3>2. s.at = "reported" /\ s.end = "none"
      BY <1>2, <1>9, <3>1 DEF SaveReport, In, JobOK, JobFields
    <3> QED
      BY <1>9, <2>1, <3>1, <3>2 DEF Archiving, SaveReport
  <2>2. CASE jobs[j].case.tool # "gate"
    <3>1. PICK how : how = EvalExit(jobs[j])
      OBVIOUS
    <3>2. Ends(j, how) /\ how # "aborted"
      BY <1>9, <2>2, <3>1 DEF SaveReport, EvalExit
    <3> QED
      BY <1>8, <3>2
  <2> QED
    BY <2>1, <2>2
<1>10. ASSUME RenderTrend(j)
       PROVE \E s : Turns(j, s) /\ ~Archiving(s) /\ (s.end = "aborted" => Excused(s))
  <2>1. CASE HistoryRaises(history)
    <3>1. PICK how : how = "aborted"
      OBVIOUS
    <3>2. Ends(j, how)
      BY <1>10, <2>1, <3>1 DEF RenderTrend
    <3> QED
      BY <1>8, <2>1, <3>2
  <2>2. CASE ~HistoryRaises(history)
    <3>1. PICK how, trend : how = GateExit(jobs[j]) /\ trend = Trend(history, jobs[j].case.floors)
      OBVIOUS
    <3>2. PICK s : s = [jobs[j] EXCEPT !.at = "ended", !.base = {}, !.trend = trend, !.end = how]
      OBVIOUS
    <3>3. Turns(j, s)
      BY <1>10, <2>2, <3>1, <3>2 DEF RenderTrend
    <3>4. s.at = "ended" /\ s.end = how
      BY <1>2, <3>2 DEF JobOK, JobFields
    <3>5. how # "aborted"
      BY <3>1 DEF GateExit
    <3> QED
      BY <3>3, <3>4, <3>5 DEF Archiving
  <2> QED
    BY <2>1, <2>2
<1>11. ASSUME NoClients(j)
       PROVE \E s : Turns(j, s) /\ ~Archiving(s) /\ (s.end = "aborted" => Excused(s))
  <2>1. PICK how : how = "noclient"
    OBVIOUS
  <2>2. Ends(j, how) /\ how # "aborted"
    BY <1>11, <2>1 DEF NoClients
  <2> QED
    BY <1>8, <2>2
<1> QED
  BY <1>1, <1>3, <1>4, <1>5, <1>6, <1>7, <1>9, <1>10, <1>11

\* What the steps on the archive are: a file opened now, or the one that is open written.
LEMMA ArchiveSteps ==
    ASSUME EvalInv, EvalTyped, NEW j \in Jobs
    PROVE  /\ OpenArchive(j) =>
                /\ clock \in 1..MaxClock /\ history' = [history EXCEPT ![clock] = Torn]
                /\ gates' = [gates EXCEPT ![clock] = @ + 1]
                /\ \E s : Turns(j, s) /\ s.at = "archiving" /\ s.stamp = clock /\ s.end = "none"
           /\ SaveArchive(j) =>
                /\ jobs[j].at = "archiving" /\ jobs[j].stamp \in 1..MaxClock /\ gates' = gates
                /\ \E content \in AfterWrite(history[jobs[j].stamp], Payload(jobs[j])) :
                     history' = [history EXCEPT ![jobs[j].stamp] = content]
                /\ \E s : /\ Turns(j, s) /\ s.at = "archived" /\ s.stamp = jobs[j].stamp
                          /\ s.end = "none" /\ Payload(s) = Payload(jobs[j])
<1>1. JobOK(jobs[j], clock) /\ clock \in 1..MaxClock
  BY DEF EvalInv, EvalTyped
<1>2. ASSUME OpenArchive(j)
      PROVE  /\ history' = [history EXCEPT ![clock] = Torn] /\ gates' = [gates EXCEPT ![clock] = @ + 1]
             /\ \E s : Turns(j, s) /\ s.at = "archiving" /\ s.stamp = clock /\ s.end = "none"
  <2>1. PICK s : s = [jobs[j] EXCEPT !.at = "archiving", !.stamp = clock]
    OBVIOUS
  <2>2. s.at = "archiving" /\ s.stamp = clock /\ s.end = "none"
    BY <1>1, <1>2, <2>1 DEF JobOK, JobFields, OpenArchive, In
  <2> QED
    BY <1>2, <2>1, <2>2 DEF OpenArchive, Stamp
<1>3. ASSUME SaveArchive(j)
      PROVE  /\ jobs[j].at = "archiving" /\ jobs[j].stamp \in 1..MaxClock /\ gates' = gates
             /\ \E content \in AfterWrite(history[jobs[j].stamp], Payload(jobs[j])) :
                  history' = [history EXCEPT ![jobs[j].stamp] = content]
             /\ \E s : /\ Turns(j, s) /\ s.at = "archived" /\ s.stamp = jobs[j].stamp
                       /\ s.end = "none" /\ Payload(s) = Payload(jobs[j])
  <2>1. PICK s : s = [jobs[j] EXCEPT !.at = "archived"]
    OBVIOUS
  <2>2. /\ s.at = "archived" /\ s.stamp = jobs[j].stamp /\ s.end = "none"
        /\ s.case = jobs[j].case /\ s.base = jobs[j].base /\ s.aggregate = jobs[j].aggregate
    BY <1>1, <1>3, <2>1 DEF JobOK, JobFields, SaveArchive, In
  <2>3. Payload(s) = Payload(jobs[j])
    BY <2>2 DEF Payload, Passes
  <2>4. jobs[j].at = "archiving"
    BY <1>3 DEF SaveArchive, In
  <2>5. jobs[j].stamp \in 1..MaxClock
    <3>1. jobs[j].stamp \in Nat /\ 1 <= jobs[j].stamp /\ jobs[j].stamp <= clock
      BY <1>1, <2>4 DEF JobOK
    <3> QED
      BY <1>1, <3>1, BoundsNat
  <2> QED
    BY <1>3, <2>1, <2>2, <2>3, <2>4, <2>5 DEF SaveArchive
<1> QED
  BY <1>1, <1>2, <1>3

\* Who is aborted, and what is not UTF-8, stay accounted for.
LEMMA AbortKeeps ==
    ASSUME EvalInv, EvalTyped, AbortInv, [EvalNext]_evalVars PROVE AbortInv'
<1>1. CASE ClockTick \/ UNCHANGED evalVars
  <2>1. jobs' = jobs /\ history' = history
    BY <1>1 DEF ClockTick, evalVars
  <2> QED
    BY <2>1 DEF AbortInv, Excused
<1>2. ASSUME NEW j \in Jobs,
             \/ Start(j) \/ Assemble(j) \/ Score(j) \/ NoClients(j) \/ OpenReport(j)
             \/ SaveReport(j) \/ RenderTrend(j) \/ Kill(j)
      PROVE  AbortInv'
  <2>1. PICK s : Turns(j, s) /\ (s.end = "aborted" => Excused(s))
    BY <1>2, OtherSteps
  <2>2. UNCHANGED history
    BY <1>2, OtherSteps
  <2> QED
    BY <2>1, <2>2, AbortSteps
<1>3. ASSUME NEW j \in Jobs, OpenArchive(j) \/ SaveArchive(j) PROVE AbortInv'
  <2>1. PICK s : Turns(j, s) /\ s.end = "none"
    BY <1>3, ArchiveSteps
  <2>2. PICK file, content :
          file \in 1..MaxClock /\ history' = [history EXCEPT ![file] = content] /\ content # Garbled
    <3>1. CASE OpenArchive(j)
      BY <3>1, ArchiveSteps, NoReports
    <3>2. CASE SaveArchive(j)
      <4>1. PICK content \in AfterWrite(history[jobs[j].stamp], Payload(jobs[j])) :
              history' = [history EXCEPT ![jobs[j].stamp] = content]
        BY <3>2, ArchiveSteps
      <4>2. Payload(jobs[j]) # Garbled
        BY PayloadIsReport DEF EvalTyped
      <4>4. jobs[j].stamp \in 1..MaxClock
        BY <3>2, ArchiveSteps
      <4>3. content # Garbled
        BY <4>1, <4>2, NoReports DEF AfterWrite
      <4> QED
        BY <4>1, <4>3, <4>4
    <3> QED
      BY <1>3, <3>1, <3>2
  <2>3. /\ DOMAIN history = 0..MaxClock /\ MaxClock \in Nat
        /\ \A t \in 1..MaxClock : history[t] # Garbled
    BY BoundsNat DEF EvalInv, AbortInv
  <2>4. history'[0] = history[0] /\ \A t \in 1..MaxClock : history'[t] # Garbled
    BY <2>2, <2>3
  <2>5. jobs'[j] = s /\ \A i \in Jobs \ {j} : jobs'[i] = jobs[i]
    BY <2>1, TurnsOne DEF EvalInv
  <2>6. ASSUME NEW i \in Jobs, jobs'[i].end = "aborted" PROVE Excused(jobs[i])'
    <3>1. jobs'[i] = jobs[i] /\ jobs[i].end = "aborted"
      BY <2>1, <2>5, <2>6
    <3> QED
      BY <2>4, <3>1 DEF AbortInv, Excused
  <2> QED
    BY <2>4, <2>6 DEF AbortInv
<1> QED
  BY <1>1, <1>2, <1>3 DEF EvalNext, Job

\* The history is a sound baseline: what jobs leave torn there stops no gate, and a gate that has
\* passed stands within the tolerance of the usable run before it, whatever was killed or dropped
\* between them (continuous.py: load_history, latest_baseline, archive_run).
THEOREM SpecBaselineSound == EvalSpec => []BaselineSound
<1>1. ASSUME EvalInit PROVE AbortInv
  <2>1. PICK dropped : history = [t \in 0..MaxClock |-> IF t = 0 THEN dropped.history ELSE Missing]
    BY <1>1 DEF EvalInit
  <2>2. \A t \in 1..MaxClock : history[t] = Missing
    BY <2>1, BoundsNat
  <2>3. \A j \in Jobs : jobs[j].end = "none"
    BY <1>1 DEF EvalInit, NoJob
  <2> QED
    BY <2>2, <2>3, NoReports DEF AbortInv
<1>2. EvalInv /\ AbortInv => BaselineSound
  BY DEF EvalInv, AbortInv, Excused, BaselineSound, TornFilesTolerated
<1> QED
  BY <1>1, <1>2, AbortKeeps, SpecEvalInv, SpecEvalTyped, PTL DEF EvalSpec

\* The archive stays in order under every step.
LEMMA ArchiveStays ==
    ASSUME EvalInv, EvalTyped, AbortInv, ArchiveInv, [EvalNext]_evalVars PROVE ArchiveInv'
<1>1. CASE ClockTick \/ UNCHANGED evalVars
  <2>1. jobs' = jobs /\ history' = history /\ gates' = gates
    BY <1>1 DEF ClockTick, evalVars
  <2> QED
    BY <2>1 DEF ArchiveInv, Archiving, Content, Payload, Passes
<1>2. ASSUME NEW j \in Jobs,
             \/ Start(j) \/ Assemble(j) \/ Score(j) \/ NoClients(j) \/ OpenReport(j)
             \/ SaveReport(j) \/ RenderTrend(j) \/ Kill(j)
      PROVE  ArchiveInv'
  <2>1. PICK s : Turns(j, s) /\ ~Archiving(s)
    BY <1>2, OtherSteps
  <2>2. history' = history /\ gates' = gates
    BY <1>2, OtherSteps
  <2>3. jobs'[j] = s /\ \A i \in Jobs \ {j} : jobs'[i] = jobs[i]
    BY <2>1, TurnsOne DEF EvalInv
  <2>4. \A i \in Jobs : Archiving(jobs'[i]) => jobs'[i] = jobs[i]
    BY <2>1, <2>3
  <2>5. ASSUME NEW i \in Jobs, Archiving(jobs'[i])
        PROVE  /\ gates'[jobs'[i].stamp] > 0
               /\ gates'[jobs'[i].stamp] = 1 =>
                    /\ history'[jobs'[i].stamp] = Content(jobs'[i])
                    /\ \A h \in Jobs : Archiving(jobs'[h]) /\ jobs'[h].stamp = jobs'[i].stamp => h = i
    BY <2>2, <2>4, <2>5 DEF ArchiveInv
  <2> QED
    BY <2>2, <2>5 DEF ArchiveInv
<1>3. ASSUME NEW j \in Jobs, OpenArchive(j) PROVE ArchiveInv'
  <2>1. PICK s : Turns(j, s) /\ s.at = "archiving" /\ s.stamp = clock
    BY <1>3, ArchiveSteps
  <2>2. /\ clock \in 1..MaxClock /\ history' = [history EXCEPT ![clock] = Torn]
        /\ gates' = [gates EXCEPT ![clock] = @ + 1]
    BY <1>3, ArchiveSteps
  <2>3. jobs'[j] = s /\ \A i \in Jobs \ {j} : jobs'[i] = jobs[i]
    BY <2>1, TurnsOne DEF EvalInv
  <2>4. /\ DOMAIN gates = 0..MaxClock /\ DOMAIN history = 0..MaxClock /\ MaxClock \in Nat
        /\ \A t \in 0..MaxClock : gates[t] \in Nat
    BY BoundsNat DEF ArchiveInv, EvalInv
  <2>5. PICK n \in Nat : n = gates[clock] /\ gates'[clock] = n + 1 /\ history'[clock] = Torn
    BY <2>2, <2>4
  <2>6. /\ DOMAIN gates' = 0..MaxClock
        /\ \A t \in 0..MaxClock : t # clock => gates'[t] = gates[t] /\ history'[t] = history[t]
    BY <2>2, <2>4
  <2>7. \A t \in 0..MaxClock : gates'[t] \in Nat
    BY <2>4, <2>5, <2>6
  <2>8. ASSUME NEW t \in 1..MaxClock, history'[t] # Missing PROVE gates'[t] > 0
    <3>1. CASE t = clock
      BY <2>5, <3>1
    <3>2. CASE t # clock
      BY <2>4, <2>6, <2>8, <3>2 DEF ArchiveInv
    <3> QED
      BY <3>1, <3>2
  <2>9. ASSUME NEW i \in Jobs, i # j, Archiving(jobs[i])
        PROVE  /\ jobs[i].stamp \in 0..MaxClock /\ gates[jobs[i].stamp] > 0
               /\ jobs[i].stamp = clock => n > 0
    <3>1. jobs[i].stamp \in 0..MaxClock
      BY DEF EvalTyped
    <3>2. gates[jobs[i].stamp] > 0
      BY <2>9 DEF ArchiveInv
    <3> QED
      BY <2>5, <3>1, <3>2
  <2>10. ASSUME NEW i \in Jobs, Archiving(jobs'[i])
         PROVE  /\ gates'[jobs'[i].stamp] > 0
                /\ gates'[jobs'[i].stamp] = 1 =>
                     /\ history'[jobs'[i].stamp] = Content(jobs'[i])
                     /\ \A h \in Jobs : Archiving(jobs'[h]) /\ jobs'[h].stamp = jobs'[i].stamp => h = i
    <3>1. CASE i = j
      <4>1. jobs'[i].stamp = clock /\ Content(jobs'[i]) = Torn
        BY <2>1, <2>3, <3>1 DEF Content
      <4>2. ASSUME n + 1 = 1, NEW h \in Jobs, Archiving(jobs'[h]), jobs'[h].stamp = clock PROVE h = j
        BY <2>3, <2>5, <2>9, <4>2
      <4>3. n + 1 > 0
        OBVIOUS
      <4> QED
        BY <2>5, <3>1, <4>1, <4>2, <4>3
    <3>2. CASE i # j /\ jobs'[i].stamp = clock
      <4>1. jobs'[i] = jobs[i] /\ n > 0
        BY <2>3, <2>9, <2>10, <3>2
      <4>2. n + 1 > 0 /\ n + 1 # 1
        BY <4>1
      <4> QED
        BY <2>5, <3>2, <4>2
    <3>3. CASE i # j /\ jobs'[i].stamp # clock
      <4>1. jobs'[i] = jobs[i] /\ jobs[i].stamp \in 0..MaxClock
        BY <2>3, <2>9, <2>10, <3>3
      <4>2. gates'[jobs[i].stamp] = gates[jobs[i].stamp] /\ history'[jobs[i].stamp] = history[jobs[i].stamp]
        BY <2>6, <3>3, <4>1
      <4>3. \A h \in Jobs : Archiving(jobs'[h]) /\ jobs'[h].stamp = jobs[i].stamp => jobs'[h] = jobs[h]
        BY <2>1, <2>3, <3>3, <4>1
      <4> QED
        BY <2>10, <4>1, <4>2, <4>3 DEF ArchiveInv
    <3> QED
      BY <3>1, <3>2, <3>3
  <2> QED
    BY <2>6, <2>7, <2>8, <2>10 DEF ArchiveInv
<1>4. ASSUME NEW j \in Jobs, SaveArchive(j) PROVE ArchiveInv'
  <2>1. PICK s : /\ Turns(j, s) /\ s.at = "archived" /\ s.stamp = jobs[j].stamp
                 /\ Payload(s) = Payload(jobs[j])
    BY <1>4, ArchiveSteps
  <2>2. PICK file : file = jobs[j].stamp
    OBVIOUS
  <2>3. file \in 1..MaxClock /\ jobs[j].at = "archiving" /\ gates' = gates
    BY <1>4, <2>2, ArchiveSteps
  <2>4. PICK content \in AfterWrite(history[file], Payload(jobs[j])) :
          history' = [history EXCEPT ![file] = content]
    BY <1>4, <2>2, ArchiveSteps
  <2>5. jobs'[j] = s /\ \A i \in Jobs \ {j} : jobs'[i] = jobs[i]
    BY <2>1, TurnsOne DEF EvalInv
  <2>6. DOMAIN history = 0..MaxClock /\ Archiving(jobs[j]) /\ Archiving(s)
    BY <2>1, <2>3 DEF EvalInv, Archiving
  <2>7. history'[file] = content /\ \A t \in 0..MaxClock : t # file => history'[t] = history[t]
    BY <2>3, <2>4, <2>6
  <2>8. gates[file] > 0 /\ (gates[file] = 1 => content = Payload(s))
    <3>1. gates[file] > 0 /\ (gates[file] = 1 => history[file] = Torn)
      BY <2>2, <2>3, <2>6 DEF ArchiveInv, Content
    <3> QED
      BY <2>1, <2>4, <3>1 DEF AfterWrite
  <2>9. ASSUME NEW t \in 1..MaxClock, history'[t] # Missing PROVE gates'[t] > 0
    BY <2>3, <2>7, <2>8, <2>9 DEF ArchiveInv
  <2>11. \A i \in Jobs : /\ Archiving(jobs'[i]) <=> Archiving(jobs[i])
                         /\ jobs'[i].stamp = jobs[i].stamp
    BY <2>1, <2>5, <2>6
  <2>10. ASSUME NEW i \in Jobs, Archiving(jobs'[i])
         PROVE  /\ gates'[jobs'[i].stamp] > 0
                /\ gates'[jobs'[i].stamp] = 1 =>
                     /\ history'[jobs'[i].stamp] = Content(jobs'[i])
                     /\ \A h \in Jobs : Archiving(jobs'[h]) /\ jobs'[h].stamp = jobs'[i].stamp => h = i
    <3>1. /\ gates[jobs[i].stamp] > 0
          /\ gates[jobs[i].stamp] = 1 =>
               /\ history[jobs[i].stamp] = Content(jobs[i])
               /\ \A h \in Jobs : Archiving(jobs[h]) /\ jobs[h].stamp = jobs[i].stamp => h = i
      BY <2>10, <2>11 DEF ArchiveInv
    <3>2. ASSUME gates[jobs[i].stamp] = 1 PROVE history'[jobs[i].stamp] = Content(jobs'[i])
      <4>1. CASE i = j
        <5>1. jobs[i].stamp = file /\ Content(jobs'[i]) = Payload(s)
          BY <2>1, <2>2, <2>5, <4>1 DEF Content
        <5> QED
          BY <2>7, <2>8, <3>2, <5>1
      <4>2. CASE i # j
        <5>1. jobs'[i] = jobs[i] /\ jobs[i].stamp # file
          BY <2>2, <2>5, <2>6, <3>1, <3>2, <4>2
        <5>2. jobs[i].stamp \in 0..MaxClock
          BY DEF EvalTyped
        <5> QED
          BY <2>7, <3>1, <3>2, <5>1, <5>2
      <4> QED
        BY <4>1, <4>2
    <3> QED
      BY <2>3, <2>11, <3>1, <3>2
  <2> QED
    BY <2>3, <2>9, <2>10 DEF ArchiveInv
<1> QED
  BY <1>1, <1>2, <1>3, <1>4 DEF EvalNext, Job

\* A gate that is alone in its second finds its own run in the history, and renders it.
LEMMA TrendHasRun ==
    ASSUME EvalInv, EvalTyped, ArchiveInv, [EvalNext]_evalVars, NEW j \in Jobs,
           In(j, "archived"), jobs'[j].end \in {"exit0", "exit1"}, gates[jobs[j].stamp] = 1
    PROVE  /\ history[jobs[j].stamp] = Payload(jobs[j])
           /\ DOMAIN jobs[j].aggregate # {} =>
               /\ jobs'[j].trend.points > 0
               /\ jobs'[j].trend.latest >= jobs[j].stamp
               /\ (jobs'[j].trend.latest = jobs[j].stamp /\ jobs'[j].trend.misses # {})
                    => jobs'[j].end = "exit1"
<1>1. DOMAIN jobs = Jobs /\ JobOK(jobs[j], clock) /\ jobs[j].at = "archived" /\ jobs[j].end = "none"
  BY DEF EvalInv, In, JobOK
<1>2. jobs' # jobs
  BY <1>1
<1>3. ASSUME NEW i \in Jobs, NEW s, Turns(i, s) PROVE i = j
  <2>1. i # j => jobs'[j] = jobs[j]
    BY <1>1, <1>3, TurnsOne
  <2> QED
    BY <1>1, <2>1
<1>4. RenderTrend(j) /\ ~HistoryRaises(history)
  <2>1. PICK i \in Jobs : Start(i) \/ Job(i) \/ Kill(i)
    BY <1>2 DEF EvalNext, ClockTick, evalVars
  <2>2. i = j
    <3>1. \E s : Turns(i, s)
      BY <2>1 DEF Start, Job, Kill, Assemble, Score, NoClients, Ends, OpenReport, SaveReport,
                  OpenArchive, SaveArchive, RenderTrend
    <3> QED
      BY <1>3, <3>1
  <2>3. ~Kill(j)
    <3>1. ASSUME Kill(j) PROVE jobs'[j].end = "killed"
      <4>1. PICK s : s = [NoJob EXCEPT !.at = "ended", !.end = "killed"]
        OBVIOUS
      <4>2. Turns(j, s)
        BY <3>1, <4>1 DEF Kill
      <4>3. jobs'[j] = s
        BY <1>1, <4>2, TurnsOne
      <4> QED
        BY <4>1, <4>3 DEF NoJob
    <3> QED
      BY <3>1
  <2>4. RenderTrend(j)
    BY <1>1, <2>1, <2>2, <2>3 DEF Start, Job, Assemble, Score, NoClients, OpenReport, SaveReport,
                                  OpenArchive, SaveArchive, In
  <2>5. ASSUME HistoryRaises(history) PROVE FALSE
    <3>1. PICK s : s = [jobs[j] EXCEPT !.at = "ended", !.end = "aborted", !.results = <<>>,
                                       !.rows = <<>>, !.base = {}]
      OBVIOUS
    <3>2. Turns(j, s) /\ s.end = "aborted"
      BY <1>1, <2>4, <2>5, <3>1 DEF RenderTrend, Ends, JobOK, JobFields
    <3> QED
      BY <1>1, <3>2, TurnsOne
  <2> QED
    BY <2>4, <2>5
<1>5. PICK trend, how : trend = Trend(history, jobs[j].case.floors) /\ how = GateExit(jobs[j])
  OBVIOUS
<1>6. PICK s : s = [jobs[j] EXCEPT !.at = "ended", !.base = {}, !.trend = trend, !.end = how]
  OBVIOUS
<1>7. Turns(j, s)
  BY <1>4, <1>5, <1>6 DEF RenderTrend
<1>8. jobs'[j] = s /\ s.trend = trend /\ s.end = how
  BY <1>1, <1>6, <1>7, TurnsOne DEF JobOK, JobFields
<1>9. PICK own : own = jobs[j].stamp
  OBVIOUS
<1>16. history[own] = Payload(jobs[j])
  BY <1>1, <1>9 DEF ArchiveInv, Archiving, Content
<1>17. /\ history[own].aggregate = jobs[j].aggregate
       /\ DOMAIN jobs[j].aggregate # {} => Usable(history[own])
  BY <1>16, PayloadIsReport DEF EvalTyped
<1>18. ASSUME DOMAIN jobs[j].aggregate # {}
       PROVE  /\ trend.points > 0 /\ trend.latest >= own
              /\ trend.latest = own /\ trend.misses # {} => how = "exit1"
  <2>1. own \in UsableFiles(history)
    <3>1. own \in Nat /\ own <= clock /\ clock <= MaxClock /\ clock \in Nat /\ MaxClock \in Nat
      BY <1>1, <1>9, BoundsNat DEF JobOK, EvalInv
    <3>2. own \in DOMAIN history
      BY <3>1 DEF EvalInv
    <3> QED
      BY <1>17, <1>18, <3>2 DEF UsableFiles
  <2>2. PICK points : points = LoadHistory(history)
    OBVIOUS
  <2>3. /\ points # <<>> /\ Len(points) \in Nat /\ Len(points) > 0
        /\ Last(points) \in UsableFiles(history) /\ own <= Last(points)
    BY <2>1, <2>2, NewestIsLast, HistoryBounded
  <2>4. trend = [points |-> Len(points), latest |-> Last(points),
                 misses |-> LatestThresholdRows(history[Last(points)].aggregate, jobs[j].case.floors)]
    BY <1>5, <2>2, <2>3 DEF Trend
  <2>5. own \in Nat /\ Last(points) \in Nat
    BY <2>1, <2>3, HistoryBounded
  <2>6. ASSUME trend.latest = own, trend.misses # {} PROVE how = "exit1"
    <3>1. trend.misses = LatestThresholdRows(jobs[j].aggregate, jobs[j].case.floors)
      BY <1>17, <2>4, <2>6
    <3>2. Misses(jobs[j].aggregate, jobs[j].case.floors) # {}
      BY <2>6, <3>1 DEF LatestThresholdRows, Misses
    <3> QED
      BY <1>5, <3>2 DEF GateExit, Passes
  <2> QED
    BY <2>3, <2>4, <2>5, <2>6
<1> QED
  BY <1>8, <1>9, <1>16, <1>18

\* A whole run is replaced only in a second of several gates.
LEMMA EarlierRunStays ==
    ASSUME EvalInv, EvalTyped, ArchiveInv, [EvalNext]_evalVars, NEW t \in DOMAIN history,
           Usable(history[t]), history'[t] # history[t]
    PROVE  gates'[t] > 1
<1>1. /\ DOMAIN history = 0..MaxClock /\ DOMAIN gates = 0..MaxClock
      /\ \A u \in 0..MaxClock : gates[u] \in Nat
  BY DEF EvalInv, ArchiveInv
<1>2. history' # history
  OBVIOUS
<1>3. PICK j \in Jobs : OpenArchive(j) \/ SaveArchive(j)
  BY <1>2 DEF EvalNext, evalVars, ClockTick, Start, Job, Kill, Assemble, Score, NoClients, OpenReport,
              SaveReport, RenderTrend
<1>4. history[t] \notin {Missing, Torn}
  BY DEF Usable
<1>5. CASE OpenArchive(j)
  <2>1. /\ clock \in 1..MaxClock /\ history' = [history EXCEPT ![clock] = Torn]
        /\ gates' = [gates EXCEPT ![clock] = @ + 1]
    BY <1>5, ArchiveSteps
  <2>2. t = clock
    BY <2>1
  <2>3. gates[t] > 0 /\ gates[t] \in Nat
    BY <1>1, <1>4, <2>1, <2>2 DEF ArchiveInv
  <2>4. gates'[t] = gates[t] + 1
    BY <1>1, <2>1, <2>2
  <2> QED
    BY <2>3, <2>4
<1>6. CASE SaveArchive(j)
  <2>1. jobs[j].at = "archiving" /\ gates' = gates
    BY <1>6, ArchiveSteps
  <2>2. PICK content : history' = [history EXCEPT ![jobs[j].stamp] = content]
    BY <1>6 DEF SaveArchive
  <2>3. t = jobs[j].stamp
    BY <2>2
  <2>4. gates[t] > 0 /\ gates[t] # 1
    BY <1>4, <2>1, <2>3 DEF ArchiveInv, Archiving, Content
  <2>5. gates[t] \in Nat
    BY <1>1
  <2> QED
    BY <2>1, <2>4, <2>5
<1> QED
  BY <1>3, <1>5, <1>6

\* The history is a sound archive, but for gates that archive themselves in one second: a gate that
\* ends finds its own run whole there, whatever the others did meanwhile, and if it has a mean, in
\* the trend it renders, with the floors it missed; and no whole run is taken away (continuous.py:
\* archive_run, load_history; trend_report.py).
THEOREM SpecArchiveSound == EvalSpec => ArchiveSound
<1>1. ASSUME EvalInit PROVE AbortInv /\ ArchiveInv
  <2>1. PICK dropped : history = [t \in 0..MaxClock |-> IF t = 0 THEN dropped.history ELSE Missing]
    BY <1>1 DEF EvalInit
  <2>2. \A t \in 1..MaxClock : history[t] = Missing
    BY <2>1, BoundsNat
  <2>3. \A j \in Jobs : jobs[j].end = "none" /\ jobs[j].at = "idle"
    BY <1>1 DEF EvalInit, NoJob
  <2>4. gates = [t \in 0..MaxClock |-> 0]
    BY <1>1 DEF EvalInit
  <2> QED
    BY <2>2, <2>3, <2>4, NoReports DEF AbortInv, ArchiveInv, Archiving
<1>2. EvalInv /\ EvalTyped /\ ArchiveInv /\ [EvalNext]_evalVars =>
        \A j \in Jobs :
          (/\ In(j, "archived") /\ jobs'[j].end \in {"exit0", "exit1"}
           /\ gates[jobs[j].stamp] = 1)
          => /\ history[jobs[j].stamp] = Payload(jobs[j])
             /\ DOMAIN jobs[j].aggregate # {} =>
                 /\ jobs'[j].trend.points > 0
                 /\ jobs'[j].trend.latest >= jobs[j].stamp
                 /\ (jobs'[j].trend.latest = jobs[j].stamp /\ jobs'[j].trend.misses # {})
                      => jobs'[j].end = "exit1"
  BY TrendHasRun
<1>3. EvalInv /\ EvalTyped /\ ArchiveInv /\ [EvalNext]_evalVars =>
        \A t \in DOMAIN history :
          (Usable(history[t]) /\ history'[t] # history[t]) => gates'[t] > 1
  BY EarlierRunStays
<1> QED
  BY <1>1, <1>2, <1>3, AbortKeeps, ArchiveStays, SpecEvalInv, SpecEvalTyped, PTL
     DEF EvalSpec, ArchiveSound, TrendShowsRun, EarlierRunsStay

===============================================================================
