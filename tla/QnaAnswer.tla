------------------------------- MODULE QnaAnswer -------------------------------
(***************************************************************************)
(* Answering POST /qna (services/qna, one worker process): the standard    *)
(* pipeline with the answer cache (src/pipeline/qna_pipeline.py) and, with *)
(* the agent flag on, the graph of src/agents: classifier, one answer node *)
(* (standard_route, map_reduce or react_agent), verifier.  The event loop  *)
(* between two awaits is one action; the calls awaited return or raise.    *)
(***************************************************************************)
EXTENDS AnswerCache, FiniteSets

CONSTANTS
    Reqs,         \* requests
    Normal,       \* normalize_query: what each query reads as
    Chunks,       \* chunks that sub-query searches find
    MaxBatches,   \* bound: batches of one corpus slice
    MapAttempts,  \* _MAP_MAX_ATTEMPTS
    Concurrency,  \* MAP_REDUCE_CONCURRENCY
    MaxIters,     \* REACT_MAX_ITERATIONS
    MaxTime,      \* bound: the clock
    Mixes         \* requests and flags considered together

ASSUME AgentSizesPos == {MapAttempts, Concurrency, MaxIters} \subseteq Nat \ {0}
ASSUME AgentBoundsNat == {MaxBatches, MaxTime} \subseteq Nat

VARIABLES
    job,     \* the requests: tag, mode and query of each
    flags,   \* the features switched on
    state,   \* how far each request is
    cache,   \* the process-wide answer cache
    now,     \* time.monotonic()
    recent   \* history: keys by last use and who set them, nothing evicted

vars == <<job, flags, state, cache, now, recent>>

None == "none"
Routes == {"standard", "map_reduce", "react"}
Texts == {"standard", "map_reduce", "react", "refined", "blank"}

PCs == {"classify", "lookup", "rephrase", "retrieve", "generate",
        "fetch", "map", "reduce", "reducing", "reason", "search", "synthesise",
        "verify", "refine", "regrade", "done", "failed"}

\* A map call waits for the semaphore, is ready for a thread or sleeps between
\* attempts (both holding the semaphore), runs on a thread, and settles.
CallStates == {"waiting", "ready", "running", "done", "failed"}
Call(st, n) == [st |-> st, attempt |-> n]
Settled(r) == \A b \in DOMAIN state[r].calls : state[r].calls[b].st \in {"done", "failed"}
Ended(r) == state[r].pc \in {"done", "failed"}

CacheKey(r) == <<job[r].tag, job[r].mode, Normal[job[r].query]>>

\* _route_selector: a route whose flag is off collapses to the standard one.
RouteSelector(route) == IF route \in flags THEN route ELSE "standard"
FirstStep == [standard |-> "lookup", map_reduce |-> "fetch", react |-> "reason"]

Fresh(pc) == [pc |-> pc, route |-> None, within |-> "node", iter |-> 1,
              evidence |-> {}, calls |-> <<>>, draft |-> None, candidate |-> None,
              answer |-> None, cites |-> None, verdict |-> "unknown",
              hits |-> {}, stored |-> {}, raised |-> {}]

Init ==
    /\ \E mix \in Mixes : job = mix.job /\ flags = mix.flags
    /\ state = [r \in DOMAIN job |-> Fresh(IF "agent" \in flags THEN "classify" ELSE "lookup")]
    /\ cache = <<>> /\ now = 0 /\ recent = <<>>

-----------------------------------------------------------------------------
\* What a stage makes of a request's record.

\* The answer node returns: the graph goes on to the verifier, a request
\* without the graph is answered.
Drafted(s, text, evidence) ==
    [s EXCEPT !.pc = IF "agent" \in flags THEN "verify" ELSE "done",
              !.draft = text, !.answer = text, !.cites = text, !.evidence = evidence]

\* The except clause of a strategy node: standard_route instead.
FellBack(s, what) ==
    [s EXCEPT !.pc = "lookup", !.within = "except", !.evidence = {}, !.raised = @ \cup {what}]

\* The strategy has nothing to answer from: standard_route, called in the try.
Delegated(s) == [s EXCEPT !.pc = "lookup", !.within = "try"]

\* The loop of react_agent is over.
Concluded(s) == IF s.evidence = {} THEN Delegated(s) ELSE [s EXCEPT !.pc = "synthesise"]

Graded(s, verdict) == [s EXCEPT !.pc = "done", !.verdict = verdict]

Becomes(r, s) == state' = [state EXCEPT ![r] = s]
Private == UNCHANGED <<job, flags, cache, now, recent>>

-----------------------------------------------------------------------------
\* The graph.

\* A classifier that raises, or answers off the schema, has chosen "standard".
Classify(r) ==
    /\ state[r].pc = "classify"
    /\ \E route \in Routes :
         Becomes(r, [state[r] EXCEPT !.route = route, !.pc = FirstStep[RouteSelector(route)]])
    /\ Private

-----------------------------------------------------------------------------
\* generate_answer.

\* A hit answers at once.
Lookup(r) ==
    LET key == CacheKey(r)
        by == cache[EntryOf(cache, key)].by
    IN  /\ state[r].pc = "lookup"
        /\ cache' = IF "cache" \in flags THEN Get(cache, key, now) ELSE cache
        /\ IF "cache" \in flags /\ Live(cache, key, now)
           THEN /\ Becomes(r, [Drafted(state[r], "standard", {}) EXCEPT
                               !.hits = {[by |-> by, when |-> now]}])
                /\ recent' = Append(Others(recent, key), [key |-> key, by |-> by])
           ELSE Becomes(r, [state[r] EXCEPT !.pc = "rephrase"]) /\ UNCHANGED recent
        /\ UNCHANGED <<job, flags, now>>

\* Rephrasing never raises; a greeting skips retrieval.
Rephrase(r) ==
    /\ state[r].pc = "rephrase"
    /\ \E next \in {"retrieve", "generate"} : Becomes(r, [state[r] EXCEPT !.pc = next])
    /\ Private

\* Embedding and search.
Retrieve(r) ==
    /\ state[r].pc = "retrieve"
    /\ Becomes(r, [state[r] EXCEPT !.pc = "generate"])
    /\ Private

\* The model answers, the sources are extracted, the answer is cached.
Generate(r) ==
    /\ state[r].pc = "generate"
    /\ LET s == Drafted(state[r], "standard", {})
       IN  IF "cache" \in flags
           THEN /\ cache' = Set(cache, CacheKey(r), r, now)
                /\ recent' = Append(Others(recent, CacheKey(r)), [key |-> CacheKey(r), by |-> r])
                /\ Becomes(r, [s EXCEPT !.stored = {now}])
           ELSE Becomes(r, s) /\ UNCHANGED <<cache, recent>>
    /\ UNCHANGED <<job, flags, now>>

\* A failure is re-raised; one inside the try of a strategy node is caught there.
StandardRaises(r) ==
    /\ state[r].pc \in {"retrieve", "generate"}
    /\ Becomes(r, IF state[r].within = "try" THEN FellBack(state[r], "standard")
                  ELSE [state[r] EXCEPT !.pc = "failed", !.raised = @ \cup {"standard"}])
    /\ Private

-----------------------------------------------------------------------------
\* map_reduce.

\* Threads of map_reduce_executor at work, for any request of the process.
OnThread(r, b) == b \in DOMAIN state[r].calls /\ state[r].calls[b].st = "running"

Busy == {at \in (DOMAIN job) \X (1..MaxBatches) : OnThread(at[1], at[2])}
        \cup {<<r, 0>> : r \in {q \in DOMAIN job : state[q].pc = "reducing"}}
ThreadFree == Cardinality(Busy) < Concurrency

\* Calls of a request that hold its semaphore.
Holding(r) == {b \in DOMAIN state[r].calls : state[r].calls[b].st \in {"ready", "running"}}

WithCall(r, b, st, n) == [state[r] EXCEPT !.calls[b] = Call(st, n)]

\* The whole slice of the tenant, in batches, and one call each.
FetchAll(r) ==
    /\ state[r].pc = "fetch"
    /\ \E n \in 0..MaxBatches :
         Becomes(r, IF n = 0 THEN Delegated(state[r])
                    ELSE [state[r] EXCEPT !.pc = "map",
                                          !.calls = [b \in 1..n |-> Call("waiting", 1)]])
    /\ Private

\* These go on when the request no longer waits for them: gather cancels none.
MapAcquires(r, b) ==
    /\ state[r].calls[b].st = "waiting" /\ Cardinality(Holding(r)) < Concurrency
    /\ Becomes(r, WithCall(r, b, "ready", 1))
    /\ Private

MapStarts(r, b) ==
    /\ state[r].calls[b].st = "ready" /\ ThreadFree
    /\ Becomes(r, WithCall(r, b, "running", state[r].calls[b].attempt))
    /\ Private

MapReturns(r, b) ==
    /\ state[r].calls[b].st = "running"
    /\ Becomes(r, WithCall(r, b, "done", state[r].calls[b].attempt))
    /\ Private

\* Another attempt after a sleep; the last one's exception ends the gather of a
\* request that still waits in it.
MapRaises(r, b) ==
    LET n == state[r].calls[b].attempt IN
    /\ state[r].calls[b].st = "running"
    /\ Becomes(r, IF n < MapAttempts THEN WithCall(r, b, "ready", n + 1)
                  ELSE IF state[r].pc # "map" THEN WithCall(r, b, "failed", n)
                  ELSE FellBack(WithCall(r, b, "failed", n), "map"))
    /\ Private

\* The gather returns, and the reduce call is submitted.
GatherReturns(r) ==
    /\ state[r].pc = "map" /\ Settled(r)
    /\ Becomes(r, [state[r] EXCEPT !.pc = "reduce"])
    /\ Private

ReduceStarts(r) ==
    /\ state[r].pc = "reduce" /\ ThreadFree
    /\ Becomes(r, [state[r] EXCEPT !.pc = "reducing"])
    /\ Private

ReduceReturns(r) ==
    /\ state[r].pc = "reducing"
    /\ \E text \in {"map_reduce", "blank"} : Becomes(r, Drafted(state[r], text, Chunks))
    /\ Private

-----------------------------------------------------------------------------
\* react_agent.

\* The model answers with what it has, or asks for sub-queries.
Reason(r) ==
    /\ state[r].pc = "reason"
    /\ \/ Becomes(r, Concluded(state[r]))
       \/ Becomes(r, [state[r] EXCEPT !.pc = "search"])
    /\ Private

\* Faulty form: iterations are not counted.
SearchUncounted(r) ==
    /\ state[r].pc = "search"
    /\ \E found \in SUBSET Chunks, failed \in SUBSET {"search"} :
         Becomes(r, [state[r] EXCEPT !.pc = "reason", !.evidence = @ \cup found,
                                     !.raised = @ \cup failed])
    /\ Private

\* Faulty form: gather without return_exceptions.
SearchAborts(r) ==
    /\ state[r].pc = "search"
    /\ \/ Becomes(r, FellBack(state[r], "search"))
       \/ \E found \in SUBSET Chunks :
            LET s == [state[r] EXCEPT !.evidence = @ \cup found, !.iter = @ + 1]
            IN  Becomes(r, IF s.iter > MaxIters THEN Concluded(s) ELSE [s EXCEPT !.pc = "reason"])
    /\ Private

\* The sub-queries' searches, gathered: those that raise find nothing.
Search(r) ==
    /\ state[r].pc = "search"
    /\ \E found \in SUBSET Chunks, failed \in SUBSET {"search"} :
         LET s == [state[r] EXCEPT !.evidence = @ \cup found, !.iter = @ + 1,
                                   !.raised = @ \cup failed]
         IN  Becomes(r, IF s.iter > MaxIters THEN Concluded(s) ELSE [s EXCEPT !.pc = "reason"])
    /\ Private

Synthesise(r) ==
    /\ state[r].pc = "synthesise"
    /\ \E text \in {"react", "blank"} : Becomes(r, Drafted(state[r], text, state[r].evidence))
    /\ Private

\* A call of a strategy raises.
StrategyRaises(r) ==
    /\ state[r].pc \in {"fetch", "reducing", "reason", "synthesise"}
    /\ Becomes(r, FellBack(state[r], state[r].pc))
    /\ Private

-----------------------------------------------------------------------------
\* verifier.

Gradable(r) == "verify" \in flags /\ state[r].evidence # {} /\ state[r].answer # "blank"

\* Only a react answer that fails its grade is refined.
Verify(r) ==
    /\ state[r].pc = "verify"
    /\ IF ~Gradable(r) THEN Becomes(r, Graded(state[r], "unknown"))
       ELSE \/ Becomes(r, Graded(state[r], "verified"))
            \/ Becomes(r, IF state[r].route = "react" THEN [state[r] EXCEPT !.pc = "refine"]
                          ELSE Graded(state[r], "unverified"))
    /\ Private

Refine(r) ==
    /\ state[r].pc = "refine"
    /\ \/ Becomes(r, Graded(state[r], "unverified"))
       \/ Becomes(r, [state[r] EXCEPT !.pc = "regrade", !.candidate = "refined"])
    /\ Private

\* Faulty form: the refined answer comes with the draft's citations.
RegradeUncited(r) ==
    /\ state[r].pc = "regrade"
    /\ \/ Becomes(r, [Graded(state[r], "verified") EXCEPT !.answer = state[r].candidate])
       \/ Becomes(r, Graded(state[r], "unverified"))
    /\ Private

Regrade(r) ==
    /\ state[r].pc = "regrade"
    /\ \/ Becomes(r, [Graded(state[r], "verified") EXCEPT !.answer = state[r].candidate,
                                                          !.cites = state[r].candidate])
       \/ Becomes(r, Graded(state[r], "unverified"))
    /\ Private

VerifierRaises(r) ==
    /\ state[r].pc \in {"refine", "regrade"} \/ (state[r].pc = "verify" /\ Gradable(r))
    /\ Becomes(r, Graded(state[r], "unknown"))
    /\ Private

-----------------------------------------------------------------------------
Tick ==
    /\ "cache" \in flags /\ now < MaxTime
    /\ now' = now + 1
    /\ UNCHANGED <<job, flags, state, cache, recent>>

RequestStep(r) ==
    \/ Classify(r) \/ Lookup(r) \/ Rephrase(r) \/ Retrieve(r) \/ Generate(r) \/ StandardRaises(r)
    \/ FetchAll(r) \/ GatherReturns(r) \/ ReduceStarts(r) \/ ReduceReturns(r)
    \/ Reason(r) \/ Search(r) \/ Synthesise(r) \/ StrategyRaises(r)
    \/ Verify(r) \/ Refine(r) \/ Regrade(r) \/ VerifierRaises(r)

CallStep(r, b) ==
    /\ r \in DOMAIN job /\ b \in DOMAIN state[r].calls
    /\ MapAcquires(r, b) \/ MapStarts(r, b) \/ MapReturns(r, b) \/ MapRaises(r, b)

Next ==
    \/ \E r \in DOMAIN job : RequestStep(r)
    \/ \E r \in Reqs, b \in 1..MaxBatches : CallStep(r, b)
    \/ Tick

Spec == Init /\ [][Next]_vars

\* What a request awaits returns or raises: the clients have timeouts.
FairSpec ==
    /\ Spec
    /\ \A r \in Reqs : WF_vars(r \in DOMAIN job /\ RequestStep(r))
    /\ \A r \in Reqs, b \in 1..MaxBatches : WF_vars(CallStep(r, b))

-----------------------------------------------------------------------------
\* Every variable has its type, and the cache keeps to its size with one entry
\* for a key.
TypeOK ==
    /\ now \in 0..MaxTime
    /\ Len(cache) <= MaxEntries
    /\ \A i, j \in DOMAIN cache : cache[i].key = cache[j].key => i = j
    /\ \A r \in DOMAIN job :
         /\ state[r].pc \in PCs
         /\ state[r].route \in Routes \cup {None}
         /\ state[r].within \in {"node", "try", "except"}
         /\ state[r].iter \in 1..(MaxIters + 1)
         /\ state[r].evidence \subseteq Chunks
         /\ \A b \in DOMAIN state[r].calls :
              /\ state[r].calls[b].st \in CallStates
              /\ state[r].calls[b].attempt \in 1..MapAttempts
         /\ {state[r].draft, state[r].answer, state[r].cites, state[r].candidate} \subseteq Texts \cup {None}

\* A request is served from the cache only what was made for its own tenant,
\* mode and question, and less than TTL ago (answer_cache.py, "a cached answer is
\* NEVER served across bot_tag boundaries").
HitsOwnAndFresh ==
    \A r \in DOMAIN job : \A h \in state[r].hits :
        /\ job[h.by].tag = job[r].tag
        /\ job[h.by].mode = job[r].mode
        /\ Normal[job[h.by].query] = Normal[job[r].query]
        /\ \E t \in state[h.by].stored : t <= h.when /\ h.when < t + TTL

\* The answers of the MaxEntries keys used last are in the cache until their
\* time is over, whatever was asked, expired or evicted in between.
RecentKeysStay ==
    \A i \in DOMAIN recent :
        LET used == recent[i] IN
        /\ i + MaxEntries > Len(recent)
        /\ \E t \in state[used.by].stored : now < t + TTL
        => \E j \in DOMAIN cache : cache[j].key = used.key /\ cache[j].by = used.by

\* A strategy, the classifier or the verifier that fails never fails the
\* request: only a standard pipeline that raised does.
FailsOnlyWithStandard ==
    \A r \in DOMAIN job : state[r].pc = "failed" => "standard" \in state[r].raised

\* A sub-query whose search raises costs that lookup only: no request gives its
\* multi-hop answer up for it (react_agent.py, "must degrade THAT lookup only").
SearchFailureTolerated ==
    \A r \in DOMAIN job : state[r].within = "except" => ~(state[r].raised \subseteq {"search"})

\* An answer over the whole slice has an extract of every batch of it.
ReducesWholeSlice ==
    \A r \in DOMAIN job :
        state[r].pc \in {"reduce", "reducing"} \/ state[r].draft = "map_reduce"
        => \A b \in DOMAIN state[r].calls : state[r].calls[b].st = "done"

\* The verifier leaves the draft, or replaces it by a refined answer that is not
\* blank and cleared the bar; citations are always those of the text returned.
VerifierKeepsAnswer ==
    \A r \in DOMAIN job : state[r].pc = "done" =>
        /\ state[r].cites = state[r].answer
        /\ state[r].answer # state[r].draft =>
             state[r].answer = "refined" /\ state[r].verdict = "verified"

\* Every request is answered or fails, and the map calls it left behind settle.
RequestsEnd == <>(\A r \in DOMAIN job : Ended(r) /\ Settled(r))

\* The cache serves a tenant what is its own and fresh, and keeps to its size
\* without forgetting what was used last.
CacheSound == TypeOK /\ HitsOwnAndFresh /\ RecentKeysStay

\* What goes wrong inside a strategy stays there: it costs a lookup or a
\* fallback, never the request, and never a batch without a word.
FailuresContained == FailsOnlyWithStandard /\ SearchFailureTolerated /\ ReducesWholeSlice

=============================================================================
