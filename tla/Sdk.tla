---------------------------------- MODULE Sdk ----------------------------------
(***************************************************************************)
(* The Python SDK (clients/python/tocdoc_sdk): one call of a client with   *)
(* its retries (client.py, async_client.py, admin.py, _retry.py), the      *)
(* decoding of a streamed answer (_sse.py), and what the callers in this   *)
(* repository make of the outcome: the CLI, the LangChain retriever and    *)
(* the Teams bot.  The network may refuse, lose, delay and cut; a request  *)
(* that was given up on may still reach the server.  The stream's lines    *)
(* are those the QnA service writes (app.py, event_source); a well-formed  *)
(* stream without the sentinel is read as well.                            *)
(***************************************************************************)
EXTENDS Naturals, FiniteSets, SequencesExt

CONSTANTS
    Calls,
    MaxRetries,     \* max_retries of the client
    Cases           \* what is called, by whom, and what would be streamed

ASSUME MaxRetriesNat == MaxRetries \in Nat

\* A text has at least one line.
ASSUME CasesTyped ==
    \A case \in Cases : \A c \in Calls : case[c].tokens \in Seq(Seq(STRING) \ {<<>>})

VARIABLES
    asks,       \* the case of every call
    calls,      \* what every call is doing
    wire,       \* the requests on their way: <<call, attempt>>
    back,       \* the response to the attempt that is waited for
    ran         \* history: how often the server did what the call asks for

vars == <<asks, calls, wire, back, ran>>

NoResponse == [status |-> "none"]

In(c, s) == calls[c].at = s

-----------------------------------------------------------------------------
\* Retry policy (_retry.py).  "broken" stands for every other httpx exception.
Transient == {"connect", "timeout"}

Idempotent(op) == op \in {"ask", "read"}

\* Faulty form: every transient exception is retried, whatever is asked for.
RetryAnyException(op, exc) == op # "stream" /\ exc \in Transient

\* A stream is never retried: stream_ask makes one request.
ShouldRetryException(op, exc) ==
    IF Idempotent(op) THEN exc \in Transient ELSE op = "sync" /\ exc = "connect"

ShouldRetryStatus(op, status) == Idempotent(op) /\ status = "server"

RetriesLeft(attempt) == attempt < MaxRetries

-----------------------------------------------------------------------------
\* The lines of a stream (services/qna/app.py).  A text is the sequence of its
\* lines; the wire has "data" and "event" fields, comments and blank lines.  A
\* body keeps the lines of an event together; they are read one by one.
NoText == ""

SseEvent(text, type) ==
    (IF type = "message" THEN <<>> ELSE <<[field |-> "event", value |-> type]>>)
    \o [i \in 1..Len(text) |-> [field |-> "data", value |-> text[i]]]
    \o <<[field |-> "blank", value |-> NoText]>>

Done == SseEvent(<<"[DONE]">>, "message")
Citation == SseEvent(<<"json">>, "citation")
Failure == SseEvent(<<"json">>, "error")

\* All of the answer, or a failure after the first k tokens.
EventSource(tokens, k, fails) ==
    [i \in 1..k |-> SseEvent(tokens[i], "message")]
    \o <<IF fails THEN Failure ELSE Citation, Done>>

\* The same answer as the decoder also accepts it: it ends with its last field,
\* neither the blank line nor the sentinel after it.
Unterminated(tokens) ==
    [i \in 1..Len(tokens) |-> SseEvent(tokens[i], "message")] \o <<Front(Citation)>>

\* What is still to be read after one line of the first event.
AfterLine(body) ==
    IF Len(Head(body)) = 1 THEN Tail(body) ELSE [body EXCEPT ![1] = Tail(@)]

-----------------------------------------------------------------------------
\* SSEDecoder.  A decoder is [data, type, done]; Feed gives it and the event.
FreshDecoder == [data |-> <<>>, type |-> NoText, done |-> FALSE]
NoEvent == [type |-> "none", text |-> <<>>]

Dispatch(d) ==
    LET type == IF d.type = NoText THEN "message" ELSE d.type IN
    IF d.data = <<"[DONE]">> THEN <<[FreshDecoder EXCEPT !.done = TRUE], NoEvent>>
    ELSE <<FreshDecoder, IF d.data = <<>> THEN NoEvent
                         ELSE [type |-> type, text |-> d.data]>>

Feed(d, line) ==
    CASE line.field = "blank" -> Dispatch(d)
      [] line.field = "data" -> <<[d EXCEPT !.data = Append(@, line.value)], NoEvent>>
      [] line.field = "event" -> <<[d EXCEPT !.type = line.value], NoEvent>>
      [] OTHER -> <<d, NoEvent>>

\* What an event does to the call: a token is yielded, the citation goes to
\* the callback, an error is raised, any other event does nothing.
\* Faulty form: an error event is skipped like an unknown one.
HandleStreamEventQuietly(call, event) ==
    CASE event.type = "message" -> [call EXCEPT !.text = Append(@, event.text)]
      [] event.type = "citation" -> [call EXCEPT !.cites = @ + 1]
      [] OTHER -> call

HandleStreamEvent(call, event) ==
    CASE event.type = "message" -> [call EXCEPT !.text = Append(@, event.text)]
      [] event.type = "citation" -> [call EXCEPT !.cites = @ + 1]
      [] event.type = "error" -> [call EXCEPT !.at = "ended", !.end = "apierror"]
      [] OTHER -> call

-----------------------------------------------------------------------------
Init ==
    /\ asks \in Cases
    /\ calls = [c \in Calls |->
         [at |-> "new", tried |-> 0, end |-> "none", report |-> "none",
          body |-> <<>>, decoder |-> FreshDecoder, text |-> <<>>, cites |-> 0]]
    /\ wire = {}
    /\ back = [c \in Calls |-> NoResponse]
    /\ ran = [c \in Calls |-> 0]

Becomes(c, call) == calls' = [calls EXCEPT ![c] = call]
Moves(c, s) == Becomes(c, [calls[c] EXCEPT !.at = s])
Ends(c, end) == Becomes(c, [calls[c] EXCEPT !.at = "ended", !.end = end])

\* What the caller lacks ends the call before a request is made: the CLI needs
\* a base URL and a token, the bot a tag for the tenant and then a token.
CliRefusal(ask) == IF "credentials" \in ask.lacks THEN "no credentials" ELSE "none"

\* An unmapped tenant and a mapped tag of the wrong form both fail closed.
ResolveBotTag(ask) == IF {"tenant", "form"} \cap ask.lacks = {} THEN "tag" ELSE "error"

BotRefusal(ask) ==
    IF ResolveBotTag(ask) = "error" THEN "no tag"
    ELSE IF "token" \in ask.lacks THEN "no token" ELSE "none"

Refusal(ask) ==
    CASE ask.by = "cli" -> CliRefusal(ask)
      [] ask.by = "teams" -> BotRefusal(ask)
      [] OTHER -> IF "query" \in ask.lacks THEN "no query" ELSE "none"

Begin(c) ==
    /\ In(c, "new")
    /\ LET refusal == Refusal(asks[c]) IN
       IF refusal = "none" THEN Moves(c, "send") ELSE Ends(c, refusal)
    /\ UNCHANGED <<asks, wire, back, ran>>

Send(c) ==
    /\ In(c, "send")
    /\ wire' = wire \cup {<<c, calls[c].tried>>}
    /\ Moves(c, "wait")
    /\ UNCHANGED <<asks, back, ran>>

\* An exception of the transport: retried after a backoff, or raised.
Raised(c, exc) ==
    IF ShouldRetryException(asks[c].op, exc) /\ RetriesLeft(calls[c].tried)
    THEN Moves(c, "sleep") ELSE Ends(c, exc)

ConnectFails(c) ==
    /\ In(c, "send")
    /\ Raised(c, "connect")
    /\ UNCHANGED <<asks, wire, back, ran>>

\* The response may already be on its way, and the request still is.
GivesUpWaiting(c) ==
    /\ In(c, "wait")
    /\ \E exc \in {"timeout", "broken"} : Raised(c, exc)
    /\ back' = [back EXCEPT ![c] = NoResponse]
    /\ UNCHANGED <<asks, wire, ran>>

Wake(c) ==
    /\ In(c, "sleep")
    /\ Becomes(c, [calls[c] EXCEPT !.at = "send", !.tried = @ + 1])
    /\ UNCHANGED <<asks, wire, back, ran>>

Response(c) ==
    /\ In(c, "wait") /\ back[c] # NoResponse
    /\ back' = [back EXCEPT ![c] = NoResponse]
    /\ LET op == asks[c].op
           status == back[c].status IN
       IF ShouldRetryStatus(op, status) /\ RetriesLeft(calls[c].tried) THEN Moves(c, "sleep")
       ELSE IF status # "ok" THEN Ends(c, IF status = "odd" THEN "badbody" ELSE "apierror")
       ELSE IF op = "stream"
            THEN Becomes(c, [calls[c] EXCEPT !.at = "stream", !.body = back[c].body])
       ELSE Ends(c, "answered")
    /\ UNCHANGED <<asks, wire, ran>>

\* One line of the stream: fed, handled, and the end when it was the sentinel.
ReadLine(c) ==
    /\ In(c, "stream") /\ calls[c].body # <<>>
    /\ LET fed == Feed(calls[c].decoder, Head(Head(calls[c].body)))
           heard == HandleStreamEvent(
                      [calls[c] EXCEPT !.body = AfterLine(@), !.decoder = fed[1]], fed[2]) IN
       Becomes(c, IF fed[1].done THEN [heard EXCEPT !.at = "ended", !.end = "answered"] ELSE heard)
    /\ UNCHANGED <<asks, wire, back, ran>>

\* The lines are over without a sentinel: what is left is flushed.
StreamEnds(c) ==
    /\ In(c, "stream") /\ calls[c].body = <<>>
    /\ LET fed == Dispatch(calls[c].decoder)
           heard == HandleStreamEvent(calls[c], fed[2]) IN
       Becomes(c, IF heard.at = "ended" THEN heard
                  ELSE [heard EXCEPT !.at = "ended", !.end = "answered"])
    /\ UNCHANGED <<asks, wire, back, ran>>

\* The connection breaks or stalls in the middle, or the consumer closes the
\* generator.
StreamStops(c) ==
    /\ In(c, "stream")
    /\ \E end \in {"timeout", "broken", "closed"} : Ends(c, end)
    /\ UNCHANGED <<asks, wire, back, ran>>

\* What the callers make of the end.  The CLI catches ApiError, its own errors
\* and httpx errors, and nothing else.
CliOutcome(end) ==
    IF end = "answered" THEN "exit 0" ELSE IF end = "badbody" THEN "exception" ELSE "exit 1"

\* Faulty form: the bot catches error envelopes only.
BotOutcomeEnvelopeOnly(end) ==
    CASE end = "answered" -> "answer card"
      [] end = "no tag" -> "unknown workspace card"
      [] end = "no token" -> "auth card"
      [] end = "apierror" -> "error card"
      [] OTHER -> "exception"

\* The bot replies with a card of its own to each of its refusals, to an error
\* envelope and to every other exception.
BotOutcome(end) ==
    CASE end = "answered" -> "answer card"
      [] end = "no tag" -> "unknown workspace card"
      [] end = "no token" -> "auth card"
      [] OTHER -> "error card"

\* The retriever, like a program, gets the answer or the exception.
RetrieverOutcome(end) == IF end \in {"answered", "closed"} THEN "value" ELSE "exception"

Outcome(by, end) ==
    CASE by = "cli" -> CliOutcome(end)
      [] by = "teams" -> BotOutcome(end)
      [] OTHER -> RetrieverOutcome(end)

Report(c) ==
    /\ In(c, "ended")
    /\ Becomes(c, [calls[c] EXCEPT !.at = "reported", !.report = Outcome(asks[c].by, calls[c].end)])
    /\ UNCHANGED <<asks, wire, back, ran>>

-----------------------------------------------------------------------------
\* The server and the network.  A request takes effect or not, and is answered
\* or not; an answer nobody waits for is dropped.  An "odd" answer is a 2xx
\* whose body is no answer of the service.
Bodies(c) ==
    LET tokens == asks[c].tokens IN
    {EventSource(tokens, Len(tokens), FALSE), Unterminated(tokens)}
      \cup {EventSource(tokens, k, TRUE) : k \in 1..Len(tokens)}

Answers(c, n, response) ==
    back' = IF In(c, "wait") /\ calls[c].tried = n
            THEN [back EXCEPT ![c] = response] ELSE back

Serve(c, n) ==
    /\ <<c, n>> \in wire
    /\ wire' = wire \ {<<c, n>>}
    /\ \/ /\ ran' = [ran EXCEPT ![c] = @ + 1]
          /\ \/ Answers(c, n, [status |-> "server"])
             \/ asks[c].op # "stream" /\ \E status \in {"ok", "odd"} : Answers(c, n, [status |-> status])
             \/ asks[c].op = "stream"
                /\ \E body \in Bodies(c) : Answers(c, n, [status |-> "ok", body |-> body])
       \/ /\ \E status \in {"server", "client"} : Answers(c, n, [status |-> status])
          /\ UNCHANGED ran
    /\ UNCHANGED <<asks, calls>>

Lose(c, n) ==
    /\ <<c, n>> \in wire
    /\ wire' = wire \ {<<c, n>>}
    /\ UNCHANGED <<asks, calls, back, ran>>

-----------------------------------------------------------------------------
Client(c) ==
    \/ Begin(c) \/ Send(c) \/ ConnectFails(c) \/ GivesUpWaiting(c) \/ Wake(c)
    \/ Response(c) \/ ReadLine(c) \/ StreamEnds(c) \/ StreamStops(c) \/ Report(c)

Next == \E c \in Calls : Client(c) \/ \E n \in 0..MaxRetries : Serve(c, n) \/ Lose(c, n)

Spec == Init /\ [][Next]_vars

\* A client goes on: every wait of it is bounded by the httpx timeout, every
\* sleep by the backoff.  Nothing is assumed of the server or the network.
FairSpec == Spec /\ \A c \in Calls : WF_vars(Client(c))

-----------------------------------------------------------------------------
\* Types.
TypeOK ==
    /\ \A c \in Calls :
         /\ calls[c].at \in {"new", "send", "wait", "sleep", "stream", "ended", "reported"}
         /\ calls[c].tried \in 0..MaxRetries
         /\ calls[c].cites \in 0..1
         /\ (calls[c].end = "none") = (calls[c].at \notin {"ended", "reported"})
         /\ back[c] # NoResponse => In(c, "wait")
    /\ wire \subseteq Calls \X (0..MaxRetries)
    /\ ran \in [Calls -> 0..MaxRetries + 1]

\* An idempotent call gives up on a transient failure only when its retries are
\* used up (client.py, _request_with_retries).
RetriesUsedUp ==
    \A c \in Calls :
      Idempotent(asks[c].op) /\ calls[c].end \in Transient => calls[c].tried = MaxRetries

\* What a stream yields is a prefix of the answer's tokens, each unchanged: no
\* citation, error or sentinel in it, no token split or joined (_sse.py).
TokensInOrder ==
    \A c \in Calls :
      asks[c].op = "stream" => IsPrefix(calls[c].text, asks[c].tokens)

\* A stream that ends without an exception gave the whole answer and its
\* citation; a failure on the way is raised, never taken for the end.
ReturnedIsWhole ==
    \A c \in Calls :
      asks[c].op = "stream" /\ calls[c].end = "answered"
        => calls[c].text = asks[c].tokens /\ calls[c].cites = 1

\* The Teams bot answers every message with one card, whatever happens to the
\* call, and every other caller gets a result or an exception (bot.py).
EveryCallReported ==
    \A c \in Calls :
      <>(In(c, "reported") /\ (asks[c].by = "teams" => calls[c].report # "exception"))

\* What the SDK promises about the server (RemoteCall).  "unsent" is told of a
\* state-changing call that failed to connect or was refused.
Verdict(c) ==
    CASE calls[c].end = "none" -> "open"
      [] calls[c].end = "answered" -> "answered"
      [] calls[c].end \in {"connect", "no credentials"} /\ asks[c].op = "sync" -> "unsent"
      [] OTHER -> "failed"

Promise == INSTANCE RemoteCall WITH
    once <- {c \in Calls : asks[c].op = "sync"},
    verdict <- [c \in Calls |-> Verdict(c)]

\* Every step of the SDK is a step of RemoteCall or leaves it as it is: a sync is
\* started at most once by one call, however the network behaves (_retry.py:
\* there is no server-side idempotency key), and never after "unsent".
KeepsPromise == Promise!Spec

\* Hypothesis of a theorem: no token reads like the sentinel, which the wire has
\* in band.
SentinelFree ==
    \A case \in Cases : \A c \in Calls : \A i \in DOMAIN case[c].tokens :
        case[c].tokens[i] # <<"[DONE]">>

\* What a stream returns is the answer, and nothing a retry would have mended is
\* raised before the retries are used up.
AnswerIsWhole == TypeOK /\ TokensInOrder /\ ReturnedIsWhole /\ RetriesUsedUp

===============================================================================
