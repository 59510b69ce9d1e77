------------------------------ MODULE TokenStream ------------------------------
(***************************************************************************)
(* Streaming an answer (services/qna): the worker thread that pumps the    *)
(* model's tokens through a bounded asyncio.Queue, the generator that      *)
(* drains it (src/services/openai_service.py, stream_openai_response), the *)
(* generators around it (src/pipeline/qna_pipeline.py, app.py) and the     *)
(* gate slot the request holds.  Steps of the event loop between two       *)
(* awaits are one action; the workers run on threads of a shared pool.     *)
(* Server shutdown is left out.                                            *)
(***************************************************************************)
EXTENDS Naturals, FiniteSets, Sequences

CONSTANTS
    Reqs,        \* requests of POST /qna/stream
    MaxTokens,   \* bound: tokens of one answer
    QueueSize,   \* _STREAM_QUEUE_MAXSIZE
    Threads,     \* workers of stream_executor
    Gate         \* QNA_MAX_CONCURRENCY

ASSUME ReqsFinite == IsFiniteSet(Reqs)
ASSUME SizesPos == {QueueSize, Threads, Gate} \subseteq Nat \ {0}
ASSUME MaxTokensNat == MaxTokens \in Nat

VARIABLES
    made,    \* tokens the upstream stream has yielded to the worker
    fate,    \* how the upstream stream ended: "open", "ended", "failed"
    worker,  \* where each request's worker is
    item,    \* what the worker is putting
    queue,   \* the asyncio.Queue of each request
    stop,    \* the threading.Event of each request
    side,    \* where the consuming side is
    out,     \* the event being sent to the client
    sent,    \* history: the events the client took
    slots,   \* requests that hold a slot of the gate
    late     \* history: chunks read after the stop flag was set

vars == <<made, fate, worker, item, queue, stop, side, out, sent, slots, late>>
upstream == <<made, fate, late>>

\* What the worker puts: tokens and two sentinels, one-tuples so that no token
\* equals them.
Token(i) == <<"token", i>>
DONE == <<"stream_done">>
ERROR == <<"stream_error">>
Nothing == <<>>

Busy == {r \in Reqs : worker[r] \in {"read", "check", "put"}}

-----------------------------------------------------------------------------
Init ==
    /\ made = [r \in Reqs |-> 0]
    /\ fate = [r \in Reqs |-> "open"]
    /\ worker = [r \in Reqs |-> "none"]
    /\ item = [r \in Reqs |-> Nothing]
    /\ queue = [r \in Reqs |-> <<>>]
    /\ stop = [r \in Reqs |-> FALSE]
    /\ side = [r \in Reqs |-> "new"]
    /\ out = [r \in Reqs |-> Nothing]
    /\ sent = [r \in Reqs |-> <<>>]
    /\ slots = {}
    /\ late = [r \in Reqs |-> 0]

\* Admitted, retrieved, and the worker submitted; the first item is awaited in
\* the handler, before there is a response.
Begin(r) ==
    /\ side[r] = "new" /\ Cardinality(slots) < Gate
    /\ slots' = slots \cup {r}
    /\ side' = [side EXCEPT ![r] = "priming"]
    /\ worker' = [worker EXCEPT ![r] = "queued"]
    /\ UNCHANGED <<upstream, item, queue, stop, out, sent>>

\* Embedding or search raises: the error envelope, and no stream.
RetrievalFails(r) ==
    /\ side[r] = "new" /\ Cardinality(slots) < Gate
    /\ side' = [side EXCEPT ![r] = "over"]
    /\ fate' = [fate EXCEPT ![r] = "failed"]
    /\ sent' = [sent EXCEPT ![r] = <<<<"envelope">>>>]
    /\ UNCHANGED <<made, late, worker, item, queue, stop, out, slots>>

-----------------------------------------------------------------------------
\* The worker thread.

\* A thread of the pool is free; the upstream stream is opened and read.
WorkerStarts(r) ==
    /\ worker[r] = "queued" /\ Cardinality(Busy) < Threads
    /\ worker' = [worker EXCEPT ![r] = "read"]
    /\ UNCHANGED <<upstream, item, queue, stop, side, out, sent, slots>>

\* Faulty form: the stop flag is not looked at for every chunk.
ReadTokenUnchecked(r) ==
    /\ worker[r] = "read" /\ made[r] < MaxTokens
    /\ made' = [made EXCEPT ![r] = @ + 1]
    /\ late' = [late EXCEPT ![r] = IF stop[r] THEN @ + 1 ELSE @]
    /\ worker' = [worker EXCEPT ![r] = "check"]
    /\ item' = [item EXCEPT ![r] = Token(made[r] + 1)]
    /\ UNCHANGED <<fate, queue, stop, side, out, sent, slots>>

\* The upstream yields a token (chunks without content change nothing); the
\* stop flag is looked at first.
ReadToken(r) ==
    /\ worker[r] = "read" /\ made[r] < MaxTokens
    /\ made' = [made EXCEPT ![r] = @ + 1]
    /\ late' = [late EXCEPT ![r] = IF stop[r] THEN @ + 1 ELSE @]
    /\ IF stop[r] THEN worker' = [worker EXCEPT ![r] = "ended"] /\ UNCHANGED item
       ELSE /\ worker' = [worker EXCEPT ![r] = "check"]
            /\ item' = [item EXCEPT ![r] = Token(made[r] + 1)]
    /\ UNCHANGED <<fate, queue, stop, side, out, sent, slots>>

\* The upstream is exhausted, or opening or reading it raises.
ReadEnds(r, how) ==
    /\ worker[r] = "read"
    /\ fate' = [fate EXCEPT ![r] = how]
    /\ IF stop[r] THEN worker' = [worker EXCEPT ![r] = "ended"] /\ UNCHANGED item
       ELSE /\ worker' = [worker EXCEPT ![r] = "check"]
            /\ item' = [item EXCEPT ![r] = IF how = "ended" THEN DONE ELSE ERROR]
    /\ UNCHANGED <<made, late, queue, stop, side, out, sent, slots>>

AfterPut(r) == IF item[r] \in {DONE, ERROR} THEN "ended" ELSE "read"

\* _put looks at the stop flag again, and schedules queue.put on the loop.
PutChecks(r) ==
    /\ worker[r] = "check"
    /\ worker' = [worker EXCEPT ![r] = IF stop[r] THEN AfterPut(r) ELSE "put"]
    /\ item' = [item EXCEPT ![r] = IF stop[r] THEN Nothing ELSE @]
    /\ UNCHANGED <<upstream, queue, stop, side, out, sent, slots>>

\* Faulty form: put_nowait, and a token that finds the queue full is dropped.
PutLandsOrDrops(r) ==
    /\ worker[r] = "put"
    /\ Len(queue[r]) < QueueSize \/ item[r] \notin {DONE, ERROR}
    /\ queue' = IF Len(queue[r]) < QueueSize
                THEN [queue EXCEPT ![r] = Append(@, item[r])] ELSE queue
    /\ worker' = [worker EXCEPT ![r] = AfterPut(r)]
    /\ item' = [item EXCEPT ![r] = Nothing]
    /\ UNCHANGED <<upstream, stop, side, out, sent, slots>>

\* The coroutine finds room, at once or after being parked, and the worker,
\* blocked on its result, goes on.
PutLands(r) ==
    /\ worker[r] = "put" /\ Len(queue[r]) < QueueSize
    /\ queue' = [queue EXCEPT ![r] = Append(@, item[r])]
    /\ worker' = [worker EXCEPT ![r] = AfterPut(r)]
    /\ item' = [item EXCEPT ![r] = Nothing]
    /\ UNCHANGED <<upstream, stop, side, out, sent, slots>>

-----------------------------------------------------------------------------
\* The consuming side, on the event loop.

\* Faulty form: the queue is not drained, a parked worker is not released.
StopWorkerUndrained(r) ==
    /\ stop' = [stop EXCEPT ![r] = TRUE]
    /\ worker' = [worker EXCEPT ![r] = IF @ = "queued" THEN "ended" ELSE @]
    /\ UNCHANGED queue

\* The finally of stream_openai_response: set the flag, drain, and cancel the
\* future, which only helps a worker that no thread has taken yet.
StopWorker(r) ==
    /\ stop' = [stop EXCEPT ![r] = TRUE]
    /\ queue' = [queue EXCEPT ![r] = <<>>]
    /\ worker' = [worker EXCEPT ![r] = IF @ = "queued" THEN "ended" ELSE @]

\* queue.get returns a token: the handler has its first item and makes the
\* response, or the body sends one more event.
GetToken(r) ==
    /\ side[r] \in {"priming", "get"} /\ queue[r] # <<>>
    /\ Head(queue[r]) \notin {DONE, ERROR}
    /\ queue' = [queue EXCEPT ![r] = Tail(@)]
    /\ side' = [side EXCEPT ![r] = IF @ = "priming" THEN "primed" ELSE "send"]
    /\ out' = [out EXCEPT ![r] = Head(queue[r])]
    /\ UNCHANGED <<upstream, worker, item, stop, sent, slots>>

\* ... or the end: the generator returns and the citation follows.
GetDone(r) ==
    /\ side[r] \in {"priming", "get"} /\ queue[r] # <<>>
    /\ Head(queue[r]) = DONE
    /\ StopWorker(r)
    /\ side' = [side EXCEPT ![r] = IF @ = "priming" THEN "primed" ELSE "send"]
    /\ out' = [out EXCEPT ![r] = <<"citation">>]
    /\ UNCHANGED <<upstream, item, sent, slots>>

\* ... or the error, which becomes the envelope while there is no response yet
\* and a terminal error event afterwards.
GetError(r) ==
    /\ side[r] \in {"priming", "get"} /\ queue[r] # <<>>
    /\ Head(queue[r]) = ERROR
    /\ StopWorker(r)
    /\ IF side[r] = "priming"
       THEN /\ side' = [side EXCEPT ![r] = "over"]
            /\ sent' = [sent EXCEPT ![r] = <<<<"envelope">>>>]
            /\ slots' = slots \ {r}
            /\ UNCHANGED out
       ELSE /\ side' = [side EXCEPT ![r] = "send"]
            /\ out' = [out EXCEPT ![r] = <<"error">>]
            /\ UNCHANGED <<sent, slots>>
    /\ UNCHANGED <<upstream, item>>

\* The response has started and the body generator takes the first item.
BodyStarts(r) ==
    /\ side[r] = "primed"
    /\ side' = [side EXCEPT ![r] = "send"]
    /\ UNCHANGED <<upstream, worker, item, queue, stop, out, sent, slots>>

\* The client takes an event and the generators are resumed; after [DONE] the
\* request scope is torn down and the gate slot given back.
ClientTakes(r) ==
    /\ side[r] = "send"
    /\ sent' = [sent EXCEPT ![r] = Append(@, out[r])]
    /\ CASE out[r][1] = "token" ->
              /\ side' = [side EXCEPT ![r] = "get"]
              /\ out' = [out EXCEPT ![r] = Nothing]
              /\ UNCHANGED slots
         [] out[r][1] \in {"citation", "error"} ->
              /\ out' = [out EXCEPT ![r] = <<"[DONE]">>]
              /\ UNCHANGED <<side, slots>>
         [] out[r][1] = "[DONE]" ->
              /\ side' = [side EXCEPT ![r] = "over"]
              /\ out' = [out EXCEPT ![r] = Nothing]
              /\ slots' = slots \ {r}
    /\ UNCHANGED <<upstream, worker, item, queue, stop>>

\* The client goes away while the body awaits queue.get: the cancellation runs
\* through the generators, the innermost finally first.
DisconnectAtGet(r) ==
    /\ side[r] = "get"
    /\ StopWorker(r)
    /\ side' = [side EXCEPT ![r] = "over"]
    /\ slots' = slots \ {r}
    /\ UNCHANGED <<upstream, item, out, sent>>

\* ... or while an event, or the response start, is being sent: the send is
\* cancelled, no generator is, and the suspended generators are only dropped.
\* The async for in generate_answer_stream does not close what it iterates.
DisconnectAtSend(r) ==
    /\ side[r] \in {"primed", "send"}
    /\ side' = [side EXCEPT ![r] = "dropped"]
    /\ out' = [out EXCEPT ![r] = Nothing]
    /\ slots' = slots \ {r}
    /\ UNCHANGED <<upstream, worker, item, queue, stop, sent>>

\* The interpreter collects a dropped generator and the loop's finalizer hook
\* closes it: its finally runs at last.
Collect(r) ==
    /\ side[r] = "dropped"
    /\ StopWorker(r)
    /\ side' = [side EXCEPT ![r] = "over"]
    /\ UNCHANGED <<upstream, item, out, sent, slots>>

-----------------------------------------------------------------------------
WorkerStep(r) ==
    \/ WorkerStarts(r) \/ ReadToken(r)
    \/ ReadEnds(r, "ended") \/ ReadEnds(r, "failed")
    \/ PutChecks(r) \/ PutLands(r)

LoopStep(r) ==
    GetToken(r) \/ GetDone(r) \/ GetError(r) \/ BodyStarts(r) \/ Collect(r)

ClientStep(r) == ClientTakes(r) \/ DisconnectAtGet(r) \/ DisconnectAtSend(r)

Next ==
    \E r \in Reqs :
        Begin(r) \/ RetrievalFails(r) \/ WorkerStep(r) \/ LoopStep(r) \/ ClientStep(r)

Spec == Init /\ [][Next]_vars

\* Threads run and reads return (the SDK client has a timeout), the loop runs
\* what is ready, dropped generators are collected; a client that is being sent
\* something takes it or its connection breaks.  Nobody is forced to call, or
\* to leave while it waits.
Fairness ==
    \A r \in Reqs :
        /\ WF_vars(WorkerStep(r))
        /\ WF_vars(LoopStep(r))
        /\ WF_vars(ClientTakes(r) \/ DisconnectAtSend(r))

FairSpec == Spec /\ Fairness

-----------------------------------------------------------------------------
Answers == INSTANCE AnswerStream

Items == {Token(i) : i \in 1..MaxTokens} \cup {DONE, ERROR}

TypeOK ==
    /\ made \in [Reqs -> 0..MaxTokens]
    /\ fate \in [Reqs -> {"open", "ended", "failed"}]
    /\ worker \in [Reqs -> {"none", "queued", "read", "check", "put", "ended"}]
    /\ item \in [Reqs -> Items \cup {Nothing}]
    /\ queue \in [Reqs -> Seq(Items)] /\ \A r \in Reqs : Len(queue[r]) <= QueueSize
    /\ stop \in [Reqs -> BOOLEAN]
    /\ side \in [Reqs -> {"new", "priming", "primed", "send", "get", "dropped", "over"}]
    /\ out \in [Reqs -> Answers!Events \cup {Nothing}]
    /\ sent \in [Reqs -> Seq(Answers!Events)]
    /\ slots \subseteq Reqs /\ Cardinality(slots) <= Gate
    /\ late \in [Reqs -> Nat]

\* "This stops the worker within one chunk": once the flag is set the worker
\* reads at most one chunk more, wherever it was: blocked in a read, between
\* its two looks at the flag, or parked in a full queue.
StopsWithinOneChunk == \A r \in Reqs : late[r] <= 1

\* Every client is given what AnswerStream promises: all tokens in order, none
\* lost to a full queue or a late error, one truthful terminal event.
ImplementsAnswerStream == Answers!Spec

\* Whoever stops listening, the worker ends and its thread is free again: a
\* worker parked on a full queue is released, wherever the client left.
WorkersEnd ==
    \A r \in Reqs : side[r] \in {"dropped", "over"} /\ worker[r] # "none" ~> worker[r] = "ended"

\* A request whose answer is awaited gets one, or its client leaves: the slot
\* of the gate comes back.
RequestsEnd == \A r \in Reqs : r \in slots ~> r \notin slots

\* The teardown: typed queues and flags, and no reading on for nobody.
TeardownPrompt == TypeOK /\ StopsWithinOneChunk

\* Both sides of a stream come to an end, on whichever side it began to end.
StreamsEnd == WorkersEnd /\ RequestsEnd

=============================================================================
