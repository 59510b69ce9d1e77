----------------------------- MODULE ClientProofs -----------------------------
(***************************************************************************)
(* Proofs about the two clients of this repository: the Python SDK, for    *)
(* any calls, retries, streamed answers and network, and the admin web     *)
(* console, for any scopes, servers, documents and order of the answers.   *)
(***************************************************************************)
EXTENDS Sdk, Console, FiniteSetTheorems, SequenceTheorems, TLAPS

-----------------------------------------------------------------------------
(* The SDK. *)

Fields == {"at", "tried", "end", "report", "body", "decoder", "text", "cites"}

\* The shape of the state, as far as the promise needs it: what is streamed may
\* be anything.
Shape ==
    /\ DOMAIN calls = Calls
    /\ \A c \in Calls : DOMAIN calls[c] = Fields
    /\ DOMAIN back = Calls
    /\ ran \in [Calls -> Nat]

\* The end of a call is set when it ends.
EndedHasEnd ==
    \A c \in Calls : calls[c].end # "none" => calls[c].at \in {"ended", "reported"}

\* Whatever tells of an effect: a good response, a stream, an answer.
EffectSeen ==
    \A c \in Calls :
        back[c].status = "ok" \/ calls[c].at = "stream" \/ calls[c].end = "answered"
            => ran[c] > 0

Sent(c) == ran[c] > 0 \/ \E w \in wire : w[1] = c

\* A sync that is on its way or was carried out is not sent again: its client
\* waits or is done, and did not report it as never sent.
SentOnce ==
    \A c \in Calls : asks[c].op = "sync" =>
        /\ calls[c].at # "stream"
        /\ Sent(c) => /\ calls[c].at \in {"wait", "ended", "reported"}
                      /\ calls[c].end \notin {"connect", "no credentials"}
        /\ \A w \in wire : w[1] = c => ran[c] = 0
        /\ \A v, w \in wire : v[1] = c /\ w[1] = c => v = w

IInv == Shape /\ EndedHasEnd /\ EffectSeen /\ SentOnce

-----------------------------------------------------------------------------
\* No call is made yet, nothing has taken effect.
LEMMA InitIInv == Init => IInv
<1> SUFFICES ASSUME Init PROVE IInv
  OBVIOUS
<1>1. Shape
  BY DEF Init, Shape, Fields
<1>2. EndedHasEnd /\ EffectSeen /\ SentOnce
  BY DEF Init, EndedHasEnd, EffectSeen, SentOnce, Sent, NoResponse
<1> QED
  BY <1>1, <1>2 DEF IInv

-----------------------------------------------------------------------------
\* Every step of a client but the sending of a request changes the record of its
\* call alone, in a way that these conditions describe.
Allowed(c, call) ==
    /\ DOMAIN call = Fields
    /\ call.end # "none" => call.at \in {"ended", "reported"}
    /\ call.at = "stream" \/ call.end = "answered" => ran[c] > 0
    /\ asks[c].op = "sync" =>
          /\ call.at # "stream"
          /\ Sent(c) => /\ call.at \in {"wait", "ended", "reported"}
                        /\ call.end \notin {"connect", "no credentials"}
    /\ calls[c].end = "none" \/ call.end = calls[c].end

CallMoves(c) ==
    /\ \E call : Allowed(c, call) /\ Becomes(c, call)
    /\ back' = back \/ back' = [back EXCEPT ![c] = NoResponse]
    /\ UNCHANGED <<asks, wire, ran>>

\* A call without an end may go to another attempt, unless it is a sync that has
\* been sent; and it may end, but not as never sent when it has been.
LEMMA MovesAllowed ==
    ASSUME IInv, NEW c \in Calls, NEW s \in {"send", "sleep"}, ~(asks[c].op = "sync" /\ Sent(c)),
           calls[c].end = "none"
    PROVE  Allowed(c, [calls[c] EXCEPT !.at = s])
BY DEF IInv, Shape, Fields, Allowed

\* A call ends: with an answer after an effect, and not as never sent when it was.
LEMMA EndsAllowed ==
    ASSUME IInv, NEW c \in Calls, NEW end,
           calls[c].end = "none", end = "answered" => ran[c] > 0,
           asks[c].op = "sync" /\ Sent(c) => end \notin {"connect", "no credentials"}
    PROVE  Allowed(c, [calls[c] EXCEPT !.at = "ended", !.end = end])
BY DEF IInv, Shape, Fields, Allowed

\* A stream is that of a call which took effect, and no sync; it goes on or ends.
LEMMA StreamAllowed ==
    ASSUME IInv, NEW c \in Calls, calls[c].at = "stream", NEW call,
           DOMAIN call = Fields,
           \/ call.at = "stream" /\ call.end = "none"
           \/ call.at = "ended" /\ call.end \in {"answered", "apierror"}
    PROVE  Allowed(c, call)
<1>1. /\ calls[c].end = "none"
      /\ ran[c] > 0
      /\ asks[c].op # "sync"
  BY DEF IInv, EndedHasEnd, EffectSeen, SentOnce
<1> QED
  BY <1>1 DEF Allowed

\* Every step of the client but the sending is such a move.
LEMMA ClientMoves ==
    ASSUME IInv, NEW c \in Calls, Client(c), ~Send(c)
    PROVE  CallMoves(c)
<1> USE DEF Becomes, Moves, Ends, In, CallMoves
<1>0. /\ DOMAIN calls = Calls /\ DOMAIN calls[c] = Fields
      /\ calls[c].at \notin {"ended", "reported"} => calls[c].end = "none"
  BY DEF IInv, Shape, EndedHasEnd
<1>1. CASE Begin(c)
  <2>1. /\ calls[c].at = "new" /\ calls[c].end = "none" /\ ~(asks[c].op = "sync" /\ Sent(c))
    BY <1>0, <1>1 DEF Begin, IInv, SentOnce
  <2>2. Refusal(asks[c]) # "answered"
    BY DEF Refusal, CliRefusal, BotRefusal
  <2> QED
    BY <1>1, <2>1, <2>2, MovesAllowed, EndsAllowed DEF Begin
<1>2. CASE ConnectFails(c)
  <2>1. /\ calls[c].at = "send" /\ calls[c].end = "none" /\ ~(asks[c].op = "sync" /\ Sent(c))
    BY <1>0, <1>2 DEF ConnectFails, IInv, SentOnce
  <2> QED
    BY <1>2, <2>1, MovesAllowed, EndsAllowed DEF ConnectFails, Raised
<1>3. CASE GivesUpWaiting(c)
  <2>1. calls[c].at = "wait" /\ calls[c].end = "none"
    BY <1>0, <1>3 DEF GivesUpWaiting
  <2>2. PICK exc \in {"timeout", "broken"} : Raised(c, exc)
    BY <1>3 DEF GivesUpWaiting
  <2>3. asks[c].op = "sync" => ~ShouldRetryException(asks[c].op, exc)
    BY DEF ShouldRetryException, Idempotent
  <2> QED
    BY <1>3, <2>1, <2>2, <2>3, MovesAllowed, EndsAllowed DEF GivesUpWaiting, Raised
<1>4. CASE Wake(c)
  <2>1. /\ calls[c].at = "sleep" /\ calls[c].end = "none" /\ ~(asks[c].op = "sync" /\ Sent(c))
    BY <1>0, <1>4 DEF Wake, IInv, SentOnce
  <2>2. Allowed(c, [calls[c] EXCEPT !.at = "send", !.tried = @ + 1])
    BY <1>0, <2>1 DEF Allowed, Fields
  <2> QED
    BY <1>4, <2>2 DEF Wake
<1>5. CASE Response(c)
  <2>1. /\ calls[c].at = "wait" /\ calls[c].end = "none"
        /\ back[c].status = "ok" => ran[c] > 0
    BY <1>0, <1>5 DEF Response, IInv, EffectSeen
  <2>2. asks[c].op = "sync" => ~ShouldRetryStatus(asks[c].op, back[c].status)
    BY DEF ShouldRetryStatus, Idempotent
  <2>3. ASSUME asks[c].op = "stream", back[c].status = "ok"
        PROVE  Allowed(c, [calls[c] EXCEPT !.at = "stream", !.body = back[c].body])
    BY <1>0, <2>1, <2>3 DEF Allowed, Fields
  <2> QED
    BY <1>5, <2>1, <2>2, <2>3, MovesAllowed, EndsAllowed DEF Response
<1>6. ASSUME NEW call, NEW event, DOMAIN call = Fields, call.at = "stream", call.end = "none"
      PROVE  LET heard == HandleStreamEvent(call, event)
             IN  /\ DOMAIN heard = Fields
                 /\ \/ heard.at = "stream" /\ heard.end = "none"
                    \/ heard.at = "ended" /\ heard.end = "apierror"
  BY <1>6 DEF HandleStreamEvent, Fields
<1>7. CASE ReadLine(c)
  <2> DEFINE fed == Feed(calls[c].decoder, Head(Head(calls[c].body)))
             read == [calls[c] EXCEPT !.body = AfterLine(@), !.decoder = fed[1]]
             heard == HandleStreamEvent(read, fed[2])
             call == IF fed[1].done THEN [heard EXCEPT !.at = "ended", !.end = "answered"] ELSE heard
  <2>1. calls[c].at = "stream" /\ calls[c].end = "none"
    BY <1>0, <1>7 DEF ReadLine
  <2>2. DOMAIN read = Fields /\ read.at = "stream" /\ read.end = "none"
    BY <1>0, <2>1 DEF Fields
  <2>3. /\ DOMAIN heard = Fields
        /\ \/ heard.at = "stream" /\ heard.end = "none"
           \/ heard.at = "ended" /\ heard.end = "apierror"
    BY <1>6, <2>2
  <2>4. /\ DOMAIN call = Fields
        /\ \/ call.at = "stream" /\ call.end = "none"
           \/ call.at = "ended" /\ call.end \in {"answered", "apierror"}
    BY <2>3 DEF Fields
  <2>5. Becomes(c, call) /\ UNCHANGED <<asks, wire, back, ran>>
    BY <1>7 DEF ReadLine
  <2> HIDE DEF call, heard, read, fed
  <2>6. Allowed(c, call)
    BY <2>1, <2>4, StreamAllowed
  <2> QED
    BY <2>5, <2>6
<1>8. CASE StreamEnds(c)
  <2> DEFINE fed == Dispatch(calls[c].decoder)
             heard == HandleStreamEvent(calls[c], fed[2])
             call == IF heard.at = "ended" THEN heard
                     ELSE [heard EXCEPT !.at = "ended", !.end = "answered"]
  <2>1. calls[c].at = "stream" /\ calls[c].end = "none"
    BY <1>0, <1>8 DEF StreamEnds
  <2>2. /\ DOMAIN heard = Fields
        /\ \/ heard.at = "stream" /\ heard.end = "none"
           \/ heard.at = "ended" /\ heard.end = "apierror"
    BY <1>0, <1>6, <2>1
  <2>3. DOMAIN call = Fields /\ call.at = "ended" /\ call.end \in {"answered", "apierror"}
    BY <2>2 DEF Fields
  <2>4. Allowed(c, call)
    BY <2>1, <2>3, StreamAllowed
  <2>5. Becomes(c, call) /\ UNCHANGED <<asks, wire, back, ran>>
    BY <1>8 DEF StreamEnds
  <2> QED
    BY <2>4, <2>5
<1>9. CASE StreamStops(c)
  <2>1. calls[c].at = "stream" /\ calls[c].end = "none"
    BY <1>0, <1>9 DEF StreamStops
  <2> QED
    BY <1>9, <2>1, EndsAllowed DEF StreamStops
<1>10. CASE Report(c)
  <2>1. calls[c].at = "ended"
    BY <1>10 DEF Report
  <2>2. Allowed(c, [calls[c] EXCEPT !.at = "reported", !.report = Outcome(asks[c].by, calls[c].end)])
    BY <1>0, <2>1 DEF IInv, EffectSeen, SentOnce, Allowed, Fields
  <2> QED
    BY <1>10, <2>2 DEF Report
<1> QED
  BY <1>1, <1>2, <1>3, <1>4, <1>5, <1>7, <1>8, <1>9, <1>10 DEF Client

-----------------------------------------------------------------------------
\* Such a move keeps the invariant.
LEMMA CallMovesIInv ==
    ASSUME IInv, NEW c \in Calls, CallMoves(c)
    PROVE  IInv'
<1>1. PICK call : Allowed(c, call) /\ Becomes(c, call)
  BY DEF CallMoves
<1>2. /\ back' = back \/ back' = [back EXCEPT ![c] = NoResponse]
      /\ UNCHANGED <<asks, wire, ran>>
  BY DEF CallMoves
<1>3. /\ DOMAIN calls' = Calls
      /\ calls'[c] = call
      /\ \A d \in Calls \ {c} : calls'[d] = calls[d]
  BY <1>1 DEF Becomes, IInv, Shape
<1>4. \A d \in Calls : back'[d] = back[d] \/ back'[d].status = "none"
  BY <1>2 DEF IInv, Shape, NoResponse
<1>5. \A d \in Calls : Sent(d)' <=> Sent(d)
  BY <1>2 DEF Sent
<1>6. Shape'
  BY <1>1, <1>2, <1>3 DEF IInv, Shape, Allowed
<1>7. EndedHasEnd'
  BY <1>1, <1>3 DEF IInv, EndedHasEnd, Allowed
<1>8. EffectSeen'
  BY <1>1, <1>2, <1>3, <1>4 DEF IInv, EffectSeen, Allowed
<1>9. SentOnce'
  BY <1>1, <1>2, <1>3, <1>5 DEF IInv, SentOnce, Allowed
<1> QED
  BY <1>6, <1>7, <1>8, <1>9 DEF IInv

\* A request is sent: a sync for the first time.
LEMMA SendIInv ==
    ASSUME IInv, NEW c \in Calls, Send(c)
    PROVE  IInv'
<1>1. /\ calls[c].at = "send" /\ calls[c].end = "none"
      /\ wire' = wire \cup {<<c, calls[c].tried>>}
      /\ UNCHANGED <<asks, back, ran>>
      /\ asks[c].op = "sync" => ~Sent(c)
  BY DEF Send, In, IInv, EndedHasEnd, SentOnce
<1>2. /\ DOMAIN calls' = Calls /\ DOMAIN calls'[c] = Fields
      /\ calls'[c].at = "wait" /\ calls'[c].end = "none"
      /\ \A d \in Calls \ {c} : calls'[d] = calls[d]
  BY <1>1 DEF Send, Moves, Becomes, IInv, Shape, Fields
<1>3. Shape' /\ EndedHasEnd' /\ EffectSeen'
  BY <1>1, <1>2 DEF IInv, Shape, EndedHasEnd, EffectSeen
<1>4. SentOnce'
  <2> SUFFICES ASSUME NEW d \in Calls, asks[d].op = "sync"
               PROVE  /\ calls'[d].at # "stream"
                      /\ Sent(d)' => /\ calls'[d].at \in {"wait", "ended", "reported"}
                                     /\ calls'[d].end \notin {"connect", "no credentials"}
                      /\ \A w \in wire' : w[1] = d => ran'[d] = 0
                      /\ \A v, w \in wire' : v[1] = d /\ w[1] = d => v = w
    BY <1>1 DEF SentOnce
  <2>1. CASE d = c
    <3>1. ran[c] = 0 /\ \A w \in wire : w[1] # c
      BY <1>1, <2>1 DEF Sent, IInv, Shape
    <3> QED
      BY <1>1, <1>2, <2>1, <3>1
  <2>2. CASE d # c
    <3>1. \A w \in wire' : w[1] = d => w \in wire
      BY <1>1, <2>2
    <3>2. Sent(d)' => Sent(d)
      BY <1>1, <3>1 DEF Sent
    <3>3. calls'[d] = calls[d] /\ ran'[d] = ran[d]
      BY <1>1, <1>2, <2>2
    <3> QED
      BY <3>1, <3>2, <3>3 DEF IInv, SentOnce
  <2> QED
    BY <2>1, <2>2
<1> QED
  BY <1>3, <1>4 DEF IInv

\* A request leaves the wire: lost, refused or carried out.
LEMMA ArrivesIInv ==
    ASSUME IInv, NEW c \in Calls, NEW n, <<c, n>> \in wire,
           wire' = wire \ {<<c, n>>},
           UNCHANGED <<asks, calls>>,
           ran' = ran \/ ran' = [ran EXCEPT ![c] = @ + 1],
           \/ back' = back
           \/ \E response : /\ back' = [back EXCEPT ![c] = response]
                            /\ response.status = "ok" => ran' # ran
    PROVE  IInv'
<1>1. /\ ran' \in [Calls -> Nat]
      /\ \A d \in Calls : ran'[d] >= ran[d]
      /\ \A d \in Calls \ {c} : ran'[d] = ran[d]
      /\ ran' # ran => ran'[c] = ran[c] + 1
  BY DEF IInv, Shape
<1>2. /\ DOMAIN back' = Calls
      /\ \A d \in Calls \ {c} : back'[d] = back[d]
      /\ back'[c] = back[c] \/ (back'[c].status = "ok" => ran' # ran)
  BY DEF IInv, Shape
<1>3. Shape' /\ EndedHasEnd'
  BY <1>1, <1>2 DEF IInv, Shape, EndedHasEnd
<1>4. EffectSeen'
  <2>1. ASSUME NEW d \in Calls, ran[d] > 0 PROVE ran'[d] > 0
    BY <1>1, <2>1 DEF IInv, Shape
  <2>2. ran' # ran => ran'[c] > 0
    BY <1>1 DEF IInv, Shape
  <2> QED
    BY <1>2, <2>1, <2>2 DEF IInv, EffectSeen
<1>5. SentOnce'
  <2> SUFFICES ASSUME NEW d \in Calls, asks[d].op = "sync"
               PROVE  /\ calls[d].at # "stream"
                      /\ Sent(d)' => /\ calls[d].at \in {"wait", "ended", "reported"}
                                     /\ calls[d].end \notin {"connect", "no credentials"}
                      /\ \A w \in wire' : w[1] = d => ran'[d] = 0
                      /\ \A v, w \in wire' : v[1] = d /\ w[1] = d => v = w
    BY DEF SentOnce
  <2>1. Sent(d)' => Sent(d)
    <3>1. CASE d = c
      <4>1. <<c, n>>[1] = c
        OBVIOUS
      <4> QED
        BY <3>1, <4>1 DEF Sent
    <3>2. CASE d # c
      BY <1>1, <3>2 DEF Sent
    <3> QED
      BY <3>1, <3>2
  <2>2. \A w \in wire' : w[1] = d => ran'[d] = 0
    <3>1. CASE d = c
      BY <3>1 DEF IInv, SentOnce
    <3>2. CASE d # c
      BY <1>1, <3>2 DEF IInv, SentOnce
    <3> QED
      BY <3>1, <3>2
  <2> QED
    BY <2>1, <2>2 DEF IInv, SentOnce
<1> QED
  BY <1>3, <1>4, <1>5 DEF IInv

\* The server carries a request out, or refuses it, and answers or does not.
LEMMA ServeIInv ==
    ASSUME IInv, NEW c \in Calls, NEW n, Serve(c, n)
    PROVE  IInv'
<1>1. /\ <<c, n>> \in wire /\ wire' = wire \ {<<c, n>>}
      /\ UNCHANGED <<asks, calls>>
  BY DEF Serve
<1>2. ASSUME NEW response, Answers(c, n, response)
      PROVE  back' = back \/ back' = [back EXCEPT ![c] = response]
  BY <1>2 DEF Answers
<1>3. \/ /\ ran' = [ran EXCEPT ![c] = @ + 1]
         /\ \E response : Answers(c, n, response)
      \/ /\ ran' = ran
         /\ \E response : Answers(c, n, response) /\ response.status # "ok"
  <2>1. [status |-> "server"].status # "ok" /\ [status |-> "client"].status # "ok"
    OBVIOUS
  <2>2. CASE ran' = ran /\ \E status \in {"server", "client"} : Answers(c, n, [status |-> status])
    BY <2>1, <2>2
  <2>3. CASE ~(ran' = ran /\ \E status \in {"server", "client"} : Answers(c, n, [status |-> status]))
    BY <2>3 DEF Serve
  <2> QED
    BY <2>2, <2>3
<1>4. ran' = [ran EXCEPT ![c] = @ + 1] => ran' # ran
  BY DEF IInv, Shape
<1>5. CASE /\ ran' = [ran EXCEPT ![c] = @ + 1]
           /\ \E response : Answers(c, n, response)
  BY <1>1, <1>2, <1>4, <1>5, ArrivesIInv
<1>6. CASE /\ ran' = ran
           /\ \E response : Answers(c, n, response) /\ response.status # "ok"
  BY <1>1, <1>2, <1>6, ArrivesIInv
<1> QED
  BY <1>3, <1>5, <1>6

\* A request is lost.
LEMMA LoseIInv ==
    ASSUME IInv, NEW c \in Calls, NEW n, Lose(c, n)
    PROVE  IInv'
BY ArrivesIInv DEF Lose

\* The steps together.
LEMMA NextIInv == IInv /\ [Next]_vars => IInv'
<1> SUFFICES ASSUME IInv, [Next]_vars PROVE IInv'
  OBVIOUS
<1>1. CASE UNCHANGED vars
  BY <1>1 DEF vars, IInv, Shape, EndedHasEnd, EffectSeen, SentOnce, Sent
<1>2. ASSUME NEW c \in Calls, Client(c) PROVE IInv'
  BY <1>2, SendIInv, ClientMoves, CallMovesIInv
<1>3. ASSUME NEW c \in Calls, NEW n \in 0..MaxRetries, Serve(c, n) \/ Lose(c, n) PROVE IInv'
  BY <1>3, ServeIInv, LoseIInv
<1> QED
  BY <1>1, <1>2, <1>3 DEF Next

\* The invariant: what tells of an effect has one, and a sync that was sent is
\* neither sent again nor reported as never sent (client.py, _retry.py).
THEOREM SpecIInv == Spec => []IInv
BY InitIInv, NextIInv, PTL DEF Spec

-----------------------------------------------------------------------------
\* The refinement.
LEMMA InitKeeps == Init => Promise!Init
<1> SUFFICES ASSUME Init PROVE Promise!Init
  OBVIOUS
<1>1. ran = [c \in Calls |-> 0] /\ \A c \in Calls : Verdict(c) = "open"
  BY DEF Init, Verdict
<1> QED
  BY <1>1 DEF Promise!Init

\* A client that ends a call tells its caller; its other steps are not visible.
LEMMA CallMovesKeeps ==
    ASSUME IInv, NEW c \in Calls, CallMoves(c)
    PROVE  \/ \E v \in {"answered", "unsent", "failed"} : Promise!Tell(c, v)
           \/ \A d \in Calls : Verdict(d)' = Verdict(d)
<1>1. PICK call : Allowed(c, call) /\ Becomes(c, call)
  BY DEF CallMoves
<1>2. UNCHANGED <<asks, ran>>
  BY DEF CallMoves
<1>3. /\ calls'[c] = call
      /\ \A d \in Calls \ {c} : calls'[d] = calls[d]
  BY <1>1 DEF Becomes, IInv, Shape
<1>4. \A d \in Calls \ {c} : Verdict(d)' = Verdict(d)
  BY <1>2, <1>3 DEF Verdict
<1>5. CASE call.end = calls[c].end
  BY <1>2, <1>3, <1>4, <1>5 DEF Verdict
<1>6. CASE call.end # calls[c].end
  <2> DEFINE v == Verdict(c)'
  <2>1. calls[c].end = "none" /\ call.end # "none" /\ Verdict(c) = "open"
    BY <1>1, <1>6 DEF Allowed, Verdict
  <2>2. v \in {"answered", "unsent", "failed"}
    BY <1>2, <1>3, <2>1 DEF Verdict
  <2>3. v = "answered" => ran[c] > 0
    BY <1>1, <1>2, <1>3, <2>1 DEF Allowed, Verdict
  <2>4. v = "unsent" => ran[c] = 0
    <3>1. v = "unsent" => asks[c].op = "sync" /\ call.end \in {"connect", "no credentials"}
      BY <1>2, <1>3, <2>1 DEF Verdict
    <3>2. ~Sent(c) => ran[c] = 0
      BY DEF Sent, IInv, Shape
    <3> QED
      BY <1>1, <3>1, <3>2 DEF Allowed
  <2>5. [d \in Calls |-> Verdict(d)'] = [[d \in Calls |-> Verdict(d)] EXCEPT ![c] = v]
    BY <1>4
  <2>6. {d \in Calls : asks'[d].op = "sync"} = {d \in Calls : asks[d].op = "sync"}
    BY <1>2
  <2>7. Promise!Tell(c, v)
    BY <1>2, <2>1, <2>3, <2>4, <2>5, <2>6 DEF Promise!Tell
  <2> QED
    BY <2>2, <2>7
<1> QED
  BY <1>5, <1>6

\* What takes effect on the server was allowed to.
LEMMA ServeKeeps ==
    ASSUME IInv, NEW c \in Calls, NEW n, Serve(c, n)
    PROVE  Promise!Run(c) \/ ran' = ran
<1>1. /\ <<c, n>> \in wire
      /\ UNCHANGED <<asks, calls>>
      /\ ran' = ran \/ ran' = [ran EXCEPT ![c] = @ + 1]
  BY DEF Serve
<1>2. Verdict(c) # "unsent" /\ (asks[c].op = "sync" => ran[c] = 0)
  <2>1. Sent(c)
    <3>1. <<c, n>>[1] = c
      OBVIOUS
    <3> QED
      BY <1>1, <3>1 DEF Sent
  <2>2. asks[c].op = "sync" => ran[c] = 0
    <3>1. <<c, n>>[1] = c
      OBVIOUS
    <3> QED
      BY <1>1, <3>1 DEF IInv, SentOnce
  <2> QED
    BY <2>1, <2>2 DEF IInv, SentOnce, Verdict
<1>3. /\ {d \in Calls : asks'[d].op = "sync"} = {d \in Calls : asks[d].op = "sync"}
      /\ [d \in Calls |-> Verdict(d)'] = [d \in Calls |-> Verdict(d)]
  BY <1>1 DEF Verdict
<1> QED
  BY <1>1, <1>2, <1>3 DEF Promise!Run

\* Every step is one of the promise or a stutter.
LEMMA StepKeeps ==
    ASSUME IInv, [Next]_vars
    PROVE  [Promise!Next]_<<{c \in Calls : asks[c].op = "sync"}, ran,
                            [c \in Calls |-> Verdict(c)]>>
<1> DEFINE Stutters == /\ UNCHANGED <<asks, ran>>
                       /\ \A d \in Calls : Verdict(d)' = Verdict(d)
<1>1. Stutters => UNCHANGED <<{c \in Calls : asks[c].op = "sync"}, ran,
                              [c \in Calls |-> Verdict(c)]>>
  OBVIOUS
<1>2. CASE UNCHANGED vars
  BY <1>2 DEF vars, Verdict
<1>3. ASSUME NEW c \in Calls, Client(c)
      PROVE  \/ \E v \in {"answered", "unsent", "failed"} : Promise!Tell(c, v)
             \/ Stutters
  <2>1. CASE Send(c)
    <3>1. \A d \in Calls : calls'[d].end = calls[d].end
      BY <2>1 DEF Send, Moves, Becomes, IInv, Shape, Fields
    <3> QED
      BY <2>1, <3>1 DEF Send, Verdict
  <2>2. CASE ~Send(c)
    <3>1. CallMoves(c)
      BY <1>3, <2>2, ClientMoves
    <3> QED
      BY <3>1, CallMovesKeeps DEF CallMoves
  <2> QED
    BY <2>1, <2>2
<1>4. ASSUME NEW c \in Calls, NEW n, Serve(c, n)
      PROVE  Promise!Run(c) \/ Stutters
  <2>1. UNCHANGED <<asks, calls>>
    BY <1>4 DEF Serve
  <2> QED
    BY <1>4, <2>1, ServeKeeps DEF Verdict
<1>5. ASSUME NEW c \in Calls, NEW n, Lose(c, n)
      PROVE  Stutters
  BY <1>5 DEF Lose, Verdict
<1> HIDE DEF Stutters
<1>6. CASE Next
  <2>1. PICK c \in Calls : Client(c) \/ \E n \in 0..MaxRetries : Serve(c, n) \/ Lose(c, n)
    BY <1>6 DEF Next
  <2>2. Promise!Run(c) \/ (\E v \in {"answered", "unsent", "failed"} : Promise!Tell(c, v)) \/ Stutters
    BY <1>3, <1>4, <1>5, <2>1
  <2> QED
    BY <1>1, <2>2 DEF Promise!Next
<1> QED
  BY <1>2, <1>6

\* The SDK implements RemoteCall: whatever the network loses, delays or repeats,
\* a sync takes effect at most once by one call, and what the caller is told of
\* it is true (_request_with_retries and should_retry_exception).
THEOREM SpecKeepsPromise == Spec => KeepsPromise
<1>1. Init => Promise!Init
  BY InitKeeps
<1>2. IInv /\ [Next]_vars =>
        [Promise!Next]_<<{c \in Calls : asks[c].op = "sync"}, ran, [c \in Calls |-> Verdict(c)]>>
  BY StepKeeps
<1> QED
  BY <1>1, <1>2, SpecIInv, PTL DEF Spec, KeepsPromise, Promise!Spec

-----------------------------------------------------------------------------
(* What is left of a streamed answer. *)

\* What the lines of a stream may hold.
Values == STRING \cup {NoText, "[DONE]", "json", "message", "citation", "error"}

\* A line has one of the fields the service writes.
Line == {[field |-> f, value |-> v] : f \in {"event", "data", "blank"}, v \in Values}

\* The words of the protocol are values.
LEMMA SomeValues == {NoText, "[DONE]", "json", "message", "citation", "error"} \subseteq Values
BY Zenon DEF Values

\* The empty text is no event type.
LEMMA NoTextIsNone == NoText \notin {"message", "citation", "error"}
BY Zenon DEF NoText

\* A field with a value is a line.
LEMMA LineOf ==
    ASSUME NEW f \in {"event", "data", "blank"}, NEW v \in Values
    PROVE  [field |-> f, value |-> v] \in Line
BY DEF Line

\* A sequence of one element.
LEMMA OneElement ==
    ASSUME NEW S, NEW x \in S
    PROVE  <<x>> \in Seq(S) /\ Len(<<x>>) = 1 /\ <<x>>[1] = x
OBVIOUS

\* Concatenation, one by one.
LEMMA Joined ==
    ASSUME NEW S, NEW a \in Seq(S), NEW b \in Seq(S), NEW m, NEW n, m = Len(a), n = Len(b)
    PROVE  /\ a \o b \in Seq(S)
           /\ Len(a \o b) = m + n
           /\ \A i \in 1..(m + n) : (a \o b)[i] = IF i <= m THEN a[i] ELSE b[i - m]
BY ConcatProperties

\* An event other than a message has one line before its data.
Before(type) == IF type = "message" THEN 0 ELSE 1

\* It is a bit that tells messages from the rest.
LEMMA BeforeBit ==
    ASSUME NEW type
    PROVE  /\ Before(type) \in Nat /\ Before(type) \in {0, 1}
           /\ type = "message" <=> Before(type) = 0
           /\ type # "message" <=> Before(type) = 1
BY DEF Before

\* The decoder after q lines of an event, the blank one not among them.
Half(d, text, type, q) ==
    /\ DOMAIN d = {"data", "type", "done"}
    /\ d.data = IF q > Before(type) THEN SubSeq(text, 1, q - Before(type)) ELSE <<>>
    /\ d.type = IF q > 0 /\ type # "message" THEN type ELSE NoText
    /\ d.done = FALSE

\* The lines of an event, one by one.
LEMMA EventLines ==
    ASSUME NEW text \in Seq(Values), NEW type \in Values
    PROVE  /\ SseEvent(text, type) \in Seq(Line)
           /\ Len(SseEvent(text, type)) = Before(type) + Len(text) + 1
           /\ type # "message" => SseEvent(text, type)[1] = [field |-> "event", value |-> type]
           /\ \A j \in 1..Len(text) :
                SseEvent(text, type)[Before(type) + j] = [field |-> "data", value |-> text[j]]
           /\ SseEvent(text, type)[Before(type) + Len(text) + 1] = [field |-> "blank", value |-> NoText]
<1> DEFINE head == IF type = "message" THEN <<>> ELSE <<[field |-> "event", value |-> type]>>
           body == [i \in 1..Len(text) |-> [field |-> "data", value |-> text[i]]]
           tail == <<[field |-> "blank", value |-> NoText]>>
<1>1. Len(text) \in Nat /\ \A i \in 1..Len(text) : text[i] \in Values
  BY LenProperties, ElementOfSeq
<1>2. head \in Seq(Line) /\ Len(head) = Before(type)
      /\ (type # "message" => head[1] = [field |-> "event", value |-> type])
  <2>1. CASE type = "message"
    BY <2>1 DEF Before
  <2>2. CASE type # "message"
    <3>1. [field |-> "event", value |-> type] \in Line
      BY LineOf
    <3> QED
      BY <2>2, <3>1, OneElement DEF Before
  <2> QED
    BY <2>1, <2>2
<1>3. body \in Seq(Line) /\ Len(body) = Len(text)
      /\ \A i \in 1..Len(text) : body[i] = [field |-> "data", value |-> text[i]]
  <2>1. body \in [1..Len(text) -> Line]
    BY <1>1, LineOf
  <2> QED
    BY <1>1, <2>1
<1>4. tail \in Seq(Line) /\ Len(tail) = 1 /\ tail[1] = [field |-> "blank", value |-> NoText]
  <2>1. [field |-> "blank", value |-> NoText] \in Line
    BY SomeValues, LineOf
  <2> QED
    BY <2>1, OneElement
<1>5. SseEvent(text, type) = (head \o body) \o tail
  BY DEF SseEvent
<1>6. Before(type) \in Nat
  BY DEF Before
<1>7. type # "message" => Before(type) = 1
  BY DEF Before
<1> HIDE DEF head, body, tail
<1>8. PICK b \in Nat, n \in Nat : b = Before(type) /\ n = Len(text)
  BY <1>1, <1>6
<1>9. /\ head \o body \in Seq(Line) /\ Len(head \o body) = b + n
      /\ \A i \in 1..(b + n) : (head \o body)[i] = IF i <= b THEN head[i] ELSE body[i - b]
  BY <1>2, <1>3, <1>8, Joined
<1>10. /\ (head \o body) \o tail \in Seq(Line)
       /\ Len((head \o body) \o tail) = (b + n) + 1
       /\ \A i \in 1..((b + n) + 1) :
            ((head \o body) \o tail)[i] = IF i <= b + n THEN (head \o body)[i] ELSE tail[i - (b + n)]
  <2>1. PICK front : front = head \o body
    OBVIOUS
  <2>2. PICK k \in Nat : k = b + n
    OBVIOUS
  <2>3. front \in Seq(Line) /\ k = Len(front)
    BY <1>9, <2>1, <2>2
  <2>4. PICK one \in Nat : one = 1
    OBVIOUS
  <2>5. /\ front \o tail \in Seq(Line)
        /\ Len(front \o tail) = k + one
        /\ \A i \in 1..(k + one) : (front \o tail)[i] = IF i <= k THEN front[i] ELSE tail[i - k]
    <3>1. tail \in Seq(Line) /\ one = Len(tail)
      BY <1>4, <2>4
    <3> QED
      BY <2>3, <3>1, Joined
  <2> QED
    BY <1>4, <2>1, <2>2, <2>4, <2>5
<1>11. PICK e : e = SseEvent(text, type)
  OBVIOUS
<1>12. /\ e \in Seq(Line) /\ Len(e) = b + n + 1
       /\ \A i \in 1..(b + n + 1) :
            e[i] = IF i <= b THEN head[i] ELSE IF i <= b + n THEN body[i - b] ELSE tail[i - (b + n)]
  BY <1>5, <1>8, <1>9, <1>10, <1>11
<1>13. type # "message" => e[1] = [field |-> "event", value |-> type]
  BY <1>2, <1>7, <1>8, <1>12
<1>14. ASSUME NEW j \in 1..n
       PROVE  e[b + j] = [field |-> "data", value |-> text[j]]
  <2>1. /\ b + j \in 1..(b + n + 1) /\ ~(b + j <= b) /\ b + j <= b + n /\ (b + j) - b = j
    BY <1>8
  <2> QED
    BY <1>3, <1>8, <1>12, <2>1
<1>15. e[b + n + 1] = [field |-> "blank", value |-> NoText]
  <2>1. /\ b + n + 1 \in 1..(b + n + 1) /\ ~(b + n + 1 <= b) /\ ~(b + n + 1 <= b + n)
        /\ (b + n + 1) - (b + n) = 1
    BY <1>8
  <2> QED
    BY <1>4, <1>12, <2>1
<1> QED
  BY <1>8, <1>11, <1>12, <1>13, <1>14, <1>15

\* A line that does not end its event is taken in.
LEMMA HalfFed ==
    ASSUME NEW text \in Seq(Values), NEW type \in Values,
           NEW q \in 0..Before(type) + Len(text) - 1, NEW d, Half(d, text, type, q)
    PROVE  LET fed == Feed(d, SseEvent(text, type)[q + 1])
           IN  fed[2] = NoEvent /\ Half(fed[1], text, type, q + 1)
<1> DEFINE line == SseEvent(text, type)[q + 1]
<1>1. Len(text) \in Nat /\ Before(type) \in Nat
  BY LenProperties, BeforeBit
<1>2. CASE q < Before(type)
  <2>1. type # "message" /\ q = 0 /\ q + 1 = 1 /\ Before(type) = 1
    BY <1>1, <1>2, BeforeBit
  <2>2. line = [field |-> "event", value |-> type]
    <3>1. SseEvent(text, type)[1] = [field |-> "event", value |-> type]
      BY <2>1, EventLines
    <3> QED
      BY <2>1, <3>1
  <2>3. Feed(d, line) = <<[d EXCEPT !.type = type], NoEvent>>
    <3>1. line.field = "event" /\ line.value = type
      BY <2>2
    <3> QED
      BY <3>1 DEF Feed
  <2>4. Half([d EXCEPT !.type = type], text, type, q + 1)
    BY <2>1 DEF Half
  <2> QED
    BY <2>3, <2>4
<1>3. CASE q >= Before(type)
  <2>1. PICK j \in Nat : j = q - Before(type)
    BY <1>1, <1>3
  <2>2. j + 1 \in 1..Len(text) /\ q + 1 = Before(type) + (j + 1)
        /\ (q > Before(type) <=> j > 0) /\ q + 1 > Before(type) /\ (q + 1) - Before(type) = j + 1
    BY <1>1, <1>3, <2>1
  <2>3. line = [field |-> "data", value |-> text[j + 1]]
    <3>1. SseEvent(text, type)[Before(type) + (j + 1)] = [field |-> "data", value |-> text[j + 1]]
      BY <2>2, EventLines
    <3> QED
      BY <2>2, <3>1
  <2>4. Feed(d, line) = <<[d EXCEPT !.data = Append(@, text[j + 1])], NoEvent>>
    <3>1. line.field = "data" /\ line.value = text[j + 1]
      BY <2>3
    <3> QED
      BY <3>1 DEF Feed
  <2>5. d.data = SubSeq(text, 1, j)
    <3>1. CASE q > Before(type)
      BY <2>1, <3>1 DEF Half
    <3>2. CASE ~(q > Before(type))
      <4>1. j = 0
        BY <2>2, <3>2
      <4> QED
        BY <3>2, <4>1, SubSeqEmpty DEF Half
    <3> QED
      BY <3>1, <3>2
  <2>6. Append(SubSeq(text, 1, j), text[j + 1]) = SubSeq(text, 1, j + 1)
    <3>1. 1 \in 1..Len(text) /\ j + 1 \in 1..Len(text) /\ (j + 1) - 1 = j
      BY <1>1, <2>2
    <3>2. SubSeq(text, 1, j + 1) = SubSeq(text, 1, j) \o <<text[j + 1]>>
      <4>1. SubSeq(text, 1, j + 1) = SubSeq(text, 1, (j + 1) - 1) \o <<text[j + 1]>>
        BY <3>1, SubSeqRecursiveSecond
      <4> QED
        BY <3>1, <4>1
    <3>3. SubSeq(text, 1, j) \in Seq(Values) /\ text[j + 1] \in Values
      <4>1. \A i \in 1..j : text[i] \in Values
        BY <1>1, <2>2, ElementOfSeq
      <4> QED
        BY <3>1, <4>1, SubSeqProperties, ElementOfSeq
    <3> QED
      BY <3>2, <3>3, AppendIsConcat
  <2>7. type # "message" => q > 0
    BY <1>1, <1>3, BeforeBit
  <2>8. Half([d EXCEPT !.data = SubSeq(text, 1, j + 1)], text, type, q + 1)
    BY <2>2, <2>7 DEF Half
  <2>9. [d EXCEPT !.data = Append(@, text[j + 1])] = [d EXCEPT !.data = SubSeq(text, 1, j + 1)]
    BY <2>5, <2>6
  <2>10. Feed(d, line)[2] = NoEvent
         /\ Feed(d, line)[1] = [d EXCEPT !.data = SubSeq(text, 1, j + 1)]
    BY <2>4, <2>9
  <2> QED
    BY <2>8, <2>10
<1> QED
  BY <1>1, <1>2, <1>3

\* The blank line gives the event away, unless it is the sentinel.
LEMMA HalfGiven ==
    ASSUME NEW text \in Seq(Values), NEW type \in Values, text # <<>>, type # NoText,
           NEW d, Half(d, text, type, Before(type) + Len(text))
    PROVE  Dispatch(d) = IF text = <<"[DONE]">> THEN <<[FreshDecoder EXCEPT !.done = TRUE], NoEvent>>
                         ELSE <<FreshDecoder, [type |-> type, text |-> text]>>
<1>1. PICK q : q = Before(type) + Len(text)
  OBVIOUS
<1>2. Len(text) \in Nat /\ Len(text) > 0 /\ Before(type) \in Nat
  <2>1. Len(text) \in Nat \ {0}
    BY EmptySeq
  <2>2. Before(type) \in Nat
    BY BeforeBit
  <2> QED
    BY <2>1, <2>2
<1>3. q > Before(type) /\ q - Before(type) = Len(text) /\ q > 0
  BY <1>1, <1>2
<1>4. SubSeq(text, 1, Len(text)) = text
  BY SubSeqFull
<1>5. d.data = text /\ d.type = IF type # "message" THEN type ELSE NoText
  BY <1>1, <1>3, <1>4 DEF Half
<1>6. (IF d.type = NoText THEN "message" ELSE d.type) = type
  BY <1>5
<1> QED
  BY <1>5, <1>6 DEF Dispatch

\* The head of a sequence is its first element.
LEMMA HeadIs ==
    ASSUME NEW S, NEW s \in Seq(S), NEW n \in Nat, n = Len(s), n > 0
    PROVE  s # <<>> /\ Head(s) = s[1]
BY EmptySeq

\* What a token may be: a text of one or more lines.
Texts == Seq(Values) \ {<<>>}

\* How the events of a stream end: as the service ends them, with a failure, or
\* with the last field of the citation.
Lasts == {"citation", "error", "cut"}

\* The first k tokens, and how they end.
Ending(last) ==
    IF last = "cut" THEN <<Front(Citation)>>
    ELSE <<IF last = "error" THEN Failure ELSE Citation, Done>>

\* All the events.
Script(T, k, last) == [i \in 1..k |-> SseEvent(T[i], "message")] \o Ending(last)

\* Its events, their texts and types, and how many lines each has.
Size(k, last) == IF last = "cut" THEN k + 1 ELSE k + 2

TextOf(T, k, i) ==
    IF i <= k THEN T[i] ELSE IF i = k + 1 THEN <<"json">> ELSE <<"[DONE]">>

TypeOf(k, last, i) ==
    IF i # k + 1 THEN "message" ELSE IF last = "error" THEN "error" ELSE "citation"

LinesOf(T, k, last, i) ==
    Before(TypeOf(k, last, i)) + Len(TextOf(T, k, i)) + (IF last = "cut" /\ i = k + 1 THEN 0 ELSE 1)

\* The text and the type of an event are values, neither of them empty.
LEMMA TextTyped ==
    ASSUME NEW T \in Seq(Texts), NEW k \in 0..Len(T), NEW last \in Lasts,
           NEW i \in 1..Size(k, last)
    PROVE  /\ TextOf(T, k, i) \in Texts /\ TextOf(T, k, i) \in Seq(Values)
           /\ TypeOf(k, last, i) \in Values /\ TypeOf(k, last, i) # NoText
<1>1. Len(T) \in Nat /\ Size(k, last) \in Nat
  BY LenProperties DEF Size
<1>2. <<"json">> \in Texts /\ <<"[DONE]">> \in Texts
  BY SomeValues, OneElement DEF Texts
<1>3. i <= k => T[i] \in Texts
  BY <1>1, ElementOfSeq
<1>4. TextOf(T, k, i) \in Texts
  BY <1>2, <1>3 DEF TextOf
<1> QED
  BY <1>4, SomeValues, NoTextIsNone DEF Texts, TypeOf

\* One by one.
LEMMA ScriptEvents ==
    ASSUME NEW T \in Seq(Texts), NEW k \in 0..Len(T), NEW last \in Lasts
    PROVE  /\ Script(T, k, last) \in Seq(Seq(Line))
           /\ Len(Script(T, k, last)) = Size(k, last)
           /\ \A i \in 1..Size(k, last) :
                /\ Len(Script(T, k, last)[i]) = LinesOf(T, k, last, i)
                /\ \A j \in 1..LinesOf(T, k, last, i) :
                     Script(T, k, last)[i][j] = SseEvent(TextOf(T, k, i), TypeOf(k, last, i))[j]
<1>1. Len(T) \in Nat /\ k \in Nat
  BY LenProperties
<1>2. \A i \in 1..k : T[i] \in Seq(Values) /\ TextOf(T, k, i) = T[i] /\ TypeOf(k, last, i) = "message"
  BY <1>1, ElementOfSeq DEF Texts, TextOf, TypeOf
<1> DEFINE toks == [i \in 1..k |-> SseEvent(T[i], "message")]
<1>3. /\ toks \in Seq(Seq(Line)) /\ Len(toks) = k
      /\ \A i \in 1..k : toks[i] = SseEvent(TextOf(T, k, i), TypeOf(k, last, i))
  <2>1. \A i \in 1..k : SseEvent(T[i], "message") \in Seq(Line)
    BY <1>2, SomeValues, EventLines
  <2>2. toks \in [1..k -> Seq(Line)]
    BY <2>1
  <2> QED
    BY <1>1, <1>2, <2>2
<1>4. PICK one, two : one = <<"json">> /\ two = <<"[DONE]">>
  OBVIOUS
<1>5. one \in Seq(Values) /\ two \in Seq(Values) /\ Len(one) = 1 /\ Len(two) = 1
  BY <1>4, SomeValues, OneElement
<1>6. /\ Citation = SseEvent(one, "citation") /\ Failure = SseEvent(one, "error")
      /\ Done = SseEvent(two, "message")
  BY <1>4 DEF Citation, Failure, Done
<1>7. /\ Citation \in Seq(Line) /\ Len(Citation) = 3
      /\ Failure \in Seq(Line) /\ Len(Failure) = 3
      /\ Done \in Seq(Line) /\ Len(Done) = 2
  <2>1. Before("citation") = 1 /\ Before("error") = 1 /\ Before("message") = 0
    BY DEF Before
  <2>2. /\ SseEvent(one, "citation") \in Seq(Line)
        /\ Len(SseEvent(one, "citation")) = Before("citation") + Len(one) + 1
    BY <1>5, SomeValues, EventLines
  <2>3. /\ SseEvent(one, "error") \in Seq(Line)
        /\ Len(SseEvent(one, "error")) = Before("error") + Len(one) + 1
    BY <1>5, SomeValues, EventLines
  <2>4. /\ SseEvent(two, "message") \in Seq(Line)
        /\ Len(SseEvent(two, "message")) = Before("message") + Len(two) + 1
    BY <1>5, SomeValues, EventLines
  <2>8. /\ Before("citation") + Len(one) + 1 = 3 /\ Before("error") + Len(one) + 1 = 3
        /\ Before("message") + Len(two) + 1 = 2
    BY <1>5, <2>1
  <2>5. Citation \in Seq(Line) /\ Len(Citation) = 3
    BY <1>6, <2>8, <2>2
  <2>6. Failure \in Seq(Line) /\ Len(Failure) = 3
    BY <1>6, <2>8, <2>3
  <2>7. Done \in Seq(Line) /\ Len(Done) = 2
    BY <1>6, <2>8, <2>4
  <2> QED
    BY <2>5, <2>6, <2>7
<1>8. /\ Front(Citation) \in Seq(Line) /\ Len(Front(Citation)) = 2
      /\ \A j \in 1..2 : Front(Citation)[j] = Citation[j]
  <2>1. \A j \in 1..2 : Citation[j] \in Line
    <3>1. \A j \in 1..2 : j \in 1..Len(Citation)
      BY <1>7
    <3> QED
      BY <1>7, <3>1, ElementOfSeq
  <2>2. Front(Citation) = SubSeq(Citation, 1, 2)
    BY <1>7 DEF Front
  <2>3. /\ SubSeq(Citation, 1, 2) \in Seq(Line)
        /\ Len(SubSeq(Citation, 1, 2)) = 2
        /\ \A j \in 1..2 : SubSeq(Citation, 1, 2)[j] = Citation[1 + j - 1]
    BY <2>1, SubSeqProperties
  <2>4. \A j \in 1..2 : 1 + j - 1 = j
    OBVIOUS
  <2> QED
    BY <2>2, <2>3, <2>4
<1> DEFINE n == IF last = "cut" THEN 1 ELSE 2
<1>9. /\ Ending(last) \in Seq(Seq(Line)) /\ Len(Ending(last)) = n
      /\ Ending(last)[1] = IF last = "cut" THEN Front(Citation)
                           ELSE IF last = "error" THEN Failure ELSE Citation
      /\ last # "cut" => Ending(last)[2] = Done
  BY <1>7, <1>8 DEF Ending
<1>10. PICK m \in Nat : m = n
  OBVIOUS
<1>11. m = Len(Ending(last)) /\ k + m = Size(k, last)
  BY <1>1, <1>9, <1>10 DEF Size
<1> HIDE DEF toks, n
<1>12. /\ toks \o Ending(last) \in Seq(Seq(Line))
       /\ Len(toks \o Ending(last)) = k + m
       /\ \A i \in 1..(k + m) : (toks \o Ending(last))[i] = IF i <= k THEN toks[i] ELSE Ending(last)[i - k]
  <2>1. PICK t, e : t = toks /\ e = Ending(last)
    OBVIOUS
  <2>2. t \in Seq(Seq(Line)) /\ e \in Seq(Seq(Line)) /\ k = Len(t) /\ m = Len(e)
    BY <1>3, <1>9, <1>11, <2>1
  <2>3. /\ t \o e \in Seq(Seq(Line)) /\ Len(t \o e) = k + m
        /\ \A i \in 1..(k + m) : (t \o e)[i] = IF i <= k THEN t[i] ELSE e[i - k]
    BY <2>2, Joined
  <2> QED
    BY <2>1, <2>3
<1>13. PICK f : f = Script(T, k, last)
  OBVIOUS
<1>14. /\ f \in Seq(Seq(Line)) /\ Len(f) = Size(k, last)
       /\ \A i \in 1..Size(k, last) : f[i] = IF i <= k THEN toks[i] ELSE Ending(last)[i - k]
  BY <1>11, <1>12, <1>13 DEF Script, toks
<1>15. ASSUME NEW i \in 1..Size(k, last)
       PROVE  /\ Len(f[i]) = LinesOf(T, k, last, i)
              /\ \A j \in 1..LinesOf(T, k, last, i) :
                   f[i][j] = SseEvent(TextOf(T, k, i), TypeOf(k, last, i))[j]
  <2>1. CASE i <= k
    <3>1. i \in 1..k
      BY <2>1
    <3>2. f[i] = SseEvent(TextOf(T, k, i), TypeOf(k, last, i))
      BY <1>3, <1>14, <3>1
    <3>3. Len(SseEvent(TextOf(T, k, i), TypeOf(k, last, i)))
            = Before(TypeOf(k, last, i)) + Len(TextOf(T, k, i)) + 1
      BY TextTyped, EventLines
    <3>4. i # k + 1
      BY <1>1, <3>1
    <3> QED
      BY <3>2, <3>3, <3>4 DEF LinesOf
  <2>2. CASE i = k + 1
    <3>1. i - k = 1 /\ ~(i <= k)
      BY <1>1, <2>2
    <3>2. f[i] = Ending(last)[1]
      BY <1>14, <3>1
    <3>3. TextOf(T, k, i) = one
      BY <1>4, <2>2, <3>1 DEF TextOf
    <3>4. CASE last = "cut"
      <4>1. f[i] = Front(Citation) /\ TypeOf(k, last, i) = "citation"
        BY <1>9, <2>2, <3>2, <3>4 DEF TypeOf
      <4>2. LinesOf(T, k, last, i) = 2
        <5>1. Before(TypeOf(k, last, i)) = 1 /\ Len(TextOf(T, k, i)) = 1
          BY <1>5, <3>3, <4>1 DEF Before
        <5>2. (IF last = "cut" /\ i = k + 1 THEN 0 ELSE 1) = 0
          BY <2>2, <3>4
        <5> QED
          BY <5>1, <5>2 DEF LinesOf
      <4> QED
        BY <1>6, <1>8, <3>3, <4>1, <4>2
    <3>5. CASE last # "cut"
      <4>1. f[i] = SseEvent(TextOf(T, k, i), TypeOf(k, last, i)) /\ Len(f[i]) = 3
        BY <1>6, <1>7, <1>9, <2>2, <3>2, <3>3, <3>5 DEF TypeOf
      <4>2. LinesOf(T, k, last, i) = 3
        <5>1. Before(TypeOf(k, last, i)) = 1 /\ Len(TextOf(T, k, i)) = 1
          BY <1>5, <2>2, <3>3 DEF Before, TypeOf
        <5>2. (IF last = "cut" /\ i = k + 1 THEN 0 ELSE 1) = 1
          BY <3>5
        <5> QED
          BY <5>1, <5>2 DEF LinesOf
      <4> QED
        BY <4>1, <4>2
    <3> QED
      BY <3>4, <3>5
  <2>3. CASE i > k + 1
    <3>1. i = k + 2 /\ i - k = 2 /\ ~(i <= k) /\ i # k + 1 /\ last # "cut"
      BY <1>1, <2>3 DEF Size
    <3>2. f[i] = Done
      BY <1>9, <1>14, <3>1
    <3>3. TextOf(T, k, i) = two /\ TypeOf(k, last, i) = "message"
      BY <1>4, <3>1 DEF TextOf, TypeOf
    <3>4. LinesOf(T, k, last, i) = 2
      <4>1. Before(TypeOf(k, last, i)) = 0 /\ Len(TextOf(T, k, i)) = 1
        BY <1>5, <3>3 DEF Before
      <4>2. (IF last = "cut" /\ i = k + 1 THEN 0 ELSE 1) = 1
        BY <3>1
      <4> QED
        BY <4>1, <4>2 DEF LinesOf
    <3> QED
      BY <1>6, <1>7, <3>2, <3>3, <3>4
  <2>4. Size(k, last) \in Nat
    BY <1>1 DEF Size
  <2> QED
    BY <1>1, <2>1, <2>2, <2>3, <2>4
<1> QED
  BY <1>13, <1>14, <1>15

-----------------------------------------------------------------------------
\* What is left of a script f after p of its events and q lines of the next.
Unread(b, f, p, q) ==
    /\ b \in Seq(Seq(Line))
    /\ Len(b) = Len(f) - p
    /\ \A i \in 2..Len(b) : b[i] = f[p + i]
    /\ Len(b) > 0 => /\ q < Len(f[p + 1]) /\ Len(b[1]) = Len(f[p + 1]) - q
                     /\ \A j \in 1..Len(b[1]) : b[1][j] = f[p + 1][q + j]

\* No event of it is without lines.
Readable(f) == f \in Seq(Seq(Line)) /\ \A i \in 1..Len(f) : Len(f[i]) > 0

\* Reading one line.
LEMMA LineRead ==
    ASSUME NEW f, Readable(f),
           NEW p \in Nat, p < Len(f), NEW q \in Nat, NEW b, Unread(b, f, p, q)
    PROVE  /\ b # <<>> /\ Head(Head(b)) = f[p + 1][q + 1]
           /\ q + 1 < Len(f[p + 1]) => Unread(AfterLine(b), f, p, q + 1)
           /\ q + 1 = Len(f[p + 1]) => Unread(AfterLine(b), f, p + 1, 0)
           /\ q + 1 <= Len(f[p + 1])
<1>0. f \in Seq(Seq(Line)) /\ \A i \in 1..Len(f) : Len(f[i]) > 0
  BY DEF Readable
<1>1. /\ Len(f) \in Nat /\ p + 1 \in 1..Len(f) /\ f[p + 1] \in Seq(Line) /\ Len(f[p + 1]) \in Nat
  <2>1. Len(f) \in Nat
    BY <1>0, LenProperties
  <2>2. p + 1 \in 1..Len(f)
    BY <2>1
  <2>3. f[p + 1] \in Seq(Line)
    BY <1>0, <2>2, ElementOfSeq
  <2> QED
    BY <2>1, <2>2, <2>3, LenProperties
<1>2. PICK n \in Nat, m \in Nat : n = Len(b) /\ m = Len(f[p + 1])
  BY <1>1, LenProperties DEF Unread
<1>3. /\ b \in Seq(Seq(Line)) /\ n = Len(f) - p /\ n > 0
      /\ q < m /\ b[1] \in Seq(Line) /\ Len(b[1]) = m - q
      /\ \A j \in 1..(m - q) : b[1][j] = f[p + 1][q + j]
      /\ \A i \in 2..n : b[i] = f[p + i]
  <2>1. n = Len(f) - p /\ n > 0
    BY <1>1, <1>2 DEF Unread
  <2>2. b[1] \in Seq(Line)
    BY <1>2, <2>1, ElementOfSeq DEF Unread
  <2> QED
    BY <1>2, <2>1, <2>2 DEF Unread
<1>4. b # <<>> /\ Head(b) = b[1]
  BY <1>2, <1>3, HeadIs
<1>5. b[1] # <<>> /\ Head(b[1]) = b[1][1] /\ b[1][1] = f[p + 1][q + 1]
  <2>5. PICK h : h = b[1]
    OBVIOUS
  <2>6. PICK l \in Nat : l = m - q
    BY <1>3
  <2>1. h = b[1] /\ l = m - q
    BY <2>5, <2>6
  <2>2. h \in Seq(Line) /\ l = Len(h) /\ l > 0
    BY <1>3, <2>1
  <2>3. h # <<>> /\ Head(h) = h[1]
    BY <2>2, HeadIs
  <2>4. 1 \in 1..(m - q)
    BY <1>3
  <2> QED
    BY <1>3, <2>1, <2>3, <2>4
<1>6. CASE q + 1 = m
  <2>1. Len(Head(b)) = 1
    <3>1. m - q = 1
      BY <1>3, <1>6
    <3> QED
      BY <1>3, <1>4, <3>1
  <2>2. AfterLine(b) = Tail(b)
    BY <2>1 DEF AfterLine
  <2>3. PICK t : t = Tail(b)
    OBVIOUS
  <2>4. t \in Seq(Seq(Line)) /\ Len(t) = n - 1 /\ \A i \in 1..(n - 1) : t[i] = b[i + 1]
    <3>1. /\ Tail(b) \in Seq(Seq(Line)) /\ Len(Tail(b)) = Len(b) - 1
          /\ \A i \in 1..Len(Tail(b)) : Tail(b)[i] = b[i + 1]
      BY <1>3, <1>4, HeadTailProperties
    <3> QED
      BY <1>2, <2>3, <3>1
  <2>5. \A i \in 1..(n - 1) : t[i] = f[(p + 1) + i]
    <3>1. \A i \in 1..(n - 1) : i + 1 \in 2..n /\ p + (i + 1) = (p + 1) + i
      BY <1>3
    <3> QED
      BY <1>3, <2>4, <3>1
  <2>6. Len(t) = Len(f) - (p + 1)
    BY <1>1, <1>3, <2>4
  <2>7. Len(t) > 0 => /\ (p + 1) + 1 \in 1..Len(f) /\ t[1] = f[(p + 1) + 1]
                      /\ f[(p + 1) + 1] \in Seq(Line) /\ Len(f[(p + 1) + 1]) \in Nat
    <3>1. Len(t) > 0 => (p + 1) + 1 \in 1..Len(f) /\ 1 \in 1..(n - 1)
      BY <1>1, <1>3, <2>4
    <3>2. Len(t) > 0 => f[(p + 1) + 1] \in Seq(Line)
      BY <1>0, <3>1, ElementOfSeq
    <3> QED
      BY <2>5, <3>1, <3>2, LenProperties
  <2>8. Unread(t, f, p + 1, 0)
    <3>1. \A i \in 2..Len(t) : t[i] = f[(p + 1) + i]
      BY <2>4, <2>5
    <3>2. Len(t) > 0 => /\ 0 < Len(f[(p + 1) + 1]) /\ Len(t[1]) = Len(f[(p + 1) + 1]) - 0
                        /\ \A j \in 1..Len(t[1]) : t[1][j] = f[(p + 1) + 1][0 + j]
      <4>1. SUFFICES ASSUME Len(t) > 0
                     PROVE  /\ 0 < Len(f[(p + 1) + 1]) /\ Len(t[1]) = Len(f[(p + 1) + 1]) - 0
                            /\ \A j \in 1..Len(t[1]) : t[1][j] = f[(p + 1) + 1][0 + j]
        OBVIOUS
      <4>2. 0 < Len(f[(p + 1) + 1])
        BY <1>0, <2>7, <4>1
      <4>3. PICK l : l = f[(p + 1) + 1]
        OBVIOUS
      <4>4. t[1] = l /\ Len(l) \in Nat
        BY <2>7, <4>1, <4>3
      <4> QED
        BY <4>2, <4>3, <4>4
    <3> QED
      BY <2>4, <2>6, <3>1, <3>2 DEF Unread
  <2> QED
    BY <1>2, <1>4, <1>5, <1>6, <2>2, <2>3, <2>8
<1>7. CASE q + 1 < m
  <2>1. Len(Head(b)) # 1
    <3>1. m - q # 1
      BY <1>3, <1>7
    <3> QED
      BY <1>3, <1>4, <3>1
  <2>2. AfterLine(b) = [b EXCEPT ![1] = Tail(b[1])]
    BY <2>1 DEF AfterLine
  <2>3. PICK h : h = Tail(b[1])
    OBVIOUS
  <2>4. h \in Seq(Line) /\ Len(h) = m - (q + 1) /\ \A j \in 1..(m - (q + 1)) : h[j] = b[1][j + 1]
    <3>1. h \in Seq(Line) /\ Len(h) = Len(b[1]) - 1 /\ \A j \in 1..Len(h) : h[j] = b[1][j + 1]
      BY <1>3, <1>5, <2>3, HeadTailProperties
    <3>2. Len(h) = m - (q + 1)
      BY <1>3, <3>1
    <3> QED
      BY <3>1, <3>2
  <2>5. PICK t : t = [b EXCEPT ![1] = h]
    OBVIOUS
  <2>6. /\ t \in Seq(Seq(Line)) /\ Len(t) = n /\ t[1] = h
        /\ \A i \in 2..n : t[i] = b[i]
    <3>1. 1 \in 1..Len(b)
      BY <1>2, <1>3
    <3>2. /\ [b EXCEPT ![1] = h] \in Seq(Seq(Line)) /\ Len([b EXCEPT ![1] = h]) = Len(b)
          /\ \A j \in 1..Len(b) : [b EXCEPT ![1] = h][j] = IF j = 1 THEN h ELSE b[j]
      <4>1. ASSUME NEW S, NEW s \in Seq(S), NEW e \in S, 1 \in 1..Len(s)
            PROVE  /\ [s EXCEPT ![1] = e] \in Seq(S) /\ Len([s EXCEPT ![1] = e]) = Len(s)
                   /\ \A j \in 1..Len(s) : [s EXCEPT ![1] = e][j] = IF j = 1 THEN e ELSE s[j]
        BY <4>1, ExceptSeq
      <4> QED
        BY <1>3, <2>4, <3>1, <4>1
    <3> QED
      BY <1>2, <2>5, <3>1, <3>2
  <2>7. \A j \in 1..Len(h) : h[j] = f[p + 1][(q + 1) + j]
    <3>1. \A j \in 1..Len(h) : j + 1 \in 1..(m - q) /\ q + (j + 1) = (q + 1) + j
      BY <1>3, <1>7, <2>4
    <3> QED
      BY <1>3, <2>4, <3>1
  <2>8. Unread(t, f, p, q + 1)
    BY <1>2, <1>3, <1>7, <2>4, <2>6, <2>7 DEF Unread
  <2> QED
    BY <1>2, <1>4, <1>5, <1>7, <2>2, <2>3, <2>5, <2>8
<1> QED
  BY <1>2, <1>3, <1>6, <1>7

\* What was yielded of the answer T.
Yielded(T, text) ==
    /\ text \in Seq(Texts) /\ Len(text) <= Len(T)
    /\ \A i \in 1..Len(text) : text[i] = T[i]

\* A stream that is read: where the reader is in which script, and what the
\* decoder, the tokens and the citations therefore are.
Reading(T, s) ==
    \E k \in 0..Len(T), last \in Lasts, p \in Nat, q \in Nat :
        /\ last # "error" => k = Len(T)
        /\ p <= k \/ (last = "citation" /\ p = k + 1)
        /\ q < LinesOf(T, k, last, p + 1)
        /\ Unread(s.body, Script(T, k, last), p, q)
        /\ Half(s.decoder, TextOf(T, k, p + 1), TypeOf(k, last, p + 1), q)
        /\ Len(s.text) = (IF p <= k THEN p ELSE k)
        /\ s.cites = IF p <= k THEN 0 ELSE 1

\* It is over, with the citation still in the decoder.
Flushable(T, s) ==
    /\ s.body = <<>> /\ Half(s.decoder, <<"json">>, "citation", 2)
    /\ Len(s.text) = Len(T) /\ s.cites = 0

\* What the call of a stream has.
Streamed(T, s) ==
    /\ Yielded(T, s.text) /\ s.cites \in {0, 1}
    /\ s.at = "stream" => Reading(T, s) \/ Flushable(T, s)
    /\ s.end = "answered" => Len(s.text) = Len(T) /\ s.cites = 1

\* No event is empty.
LEMMA LinesPositive ==
    ASSUME NEW T \in Seq(Texts), NEW k \in 0..Len(T), NEW last \in Lasts,
           NEW i \in 1..Size(k, last)
    PROVE  /\ Len(TextOf(T, k, i)) \in Nat \ {0} /\ Before(TypeOf(k, last, i)) \in Nat
           /\ LinesOf(T, k, last, i) \in Nat /\ LinesOf(T, k, last, i) > 0
<1>1. Len(TextOf(T, k, i)) \in Nat \ {0}
  <2>1. TextOf(T, k, i) \in Seq(Values) /\ TextOf(T, k, i) # <<>>
    BY TextTyped DEF Texts
  <2> QED
    BY <2>1, EmptySeq
<1>2. Before(TypeOf(k, last, i)) \in Nat
  BY BeforeBit
<1> QED
  BY <1>1, <1>2 DEF LinesOf

\* The decoder at the start of an event.
LEMMA FreshHalf == ASSUME NEW text, NEW type PROVE Half(FreshDecoder, text, type, 0)
<1>1. ~(0 > Before(type))
  BY BeforeBit
<1> QED
  BY <1>1 DEF Half, FreshDecoder

\* ReadLine of the call s: what the decoder gives, what becomes of it, and the end.
LineTaken(s, fed, heard, n) ==
    /\ fed = Feed(s.decoder, Head(Head(s.body)))
    /\ heard = HandleStreamEvent([s EXCEPT !.body = AfterLine(@), !.decoder = fed[1]], fed[2])
    /\ n = IF fed[1].done THEN [heard EXCEPT !.at = "ended", !.end = "answered"] ELSE heard

\* A line that is read keeps the call in step with the script.
LEMMA ReadLineStreams ==
    ASSUME NEW T \in Seq(Texts), \A i \in 1..Len(T) : T[i] # <<"[DONE]">>,
           NEW s, DOMAIN s = Fields, s.at = "stream", s.end = "none",
           Yielded(T, s.text), Reading(T, s),
           NEW fed, NEW heard, NEW n, LineTaken(s, fed, heard, n)
    PROVE  Streamed(T, n)
<1>1. PICK k \in 0..Len(T), last \in Lasts, p \in Nat, q \in Nat :
        /\ last # "error" => k = Len(T)
        /\ p <= k \/ (last = "citation" /\ p = k + 1)
        /\ q < LinesOf(T, k, last, p + 1)
        /\ Unread(s.body, Script(T, k, last), p, q)
        /\ Half(s.decoder, TextOf(T, k, p + 1), TypeOf(k, last, p + 1), q)
        /\ Len(s.text) = (IF p <= k THEN p ELSE k)
        /\ s.cites = IF p <= k THEN 0 ELSE 1
  BY DEF Reading
<1>2. PICK f : f = Script(T, k, last)
  OBVIOUS
<1>3. Len(T) \in Nat /\ k \in Nat /\ p + 1 \in 1..Size(k, last) /\ Size(k, last) \in Nat
  BY <1>1, LenProperties DEF Size
<1>4. /\ f \in Seq(Seq(Line)) /\ Len(f) = Size(k, last)
      /\ \A i \in 1..Size(k, last) :
           /\ Len(f[i]) = LinesOf(T, k, last, i)
           /\ \A j \in 1..LinesOf(T, k, last, i) :
                f[i][j] = SseEvent(TextOf(T, k, i), TypeOf(k, last, i))[j]
  BY <1>2, ScriptEvents
<1>5. PICK x, ty : x = TextOf(T, k, p + 1) /\ ty = TypeOf(k, last, p + 1)
  OBVIOUS
<1>6. x \in Seq(Values) /\ x # <<>> /\ ty \in Values /\ ty # NoText
  BY <1>3, <1>5, TextTyped DEF Texts
<1>7. PICK l \in Nat : l = Before(ty) + Len(x)
  BY <1>3, <1>5, LinesPositive
<1>17. Before(ty) \in Nat /\ Len(x) \in Nat
  BY <1>6, BeforeBit, LenProperties
<1>8. LinesOf(T, k, last, p + 1) = l + (IF last = "cut" /\ p = k THEN 0 ELSE 1)
  <2>1. p + 1 = k + 1 <=> p = k
    BY <1>3
  <2> QED
    BY <1>5, <1>7, <2>1 DEF LinesOf
<1>9. /\ s.body # <<>> /\ Head(Head(s.body)) = f[p + 1][q + 1]
      /\ q + 1 < LinesOf(T, k, last, p + 1) => Unread(AfterLine(s.body), f, p, q + 1)
      /\ q + 1 = LinesOf(T, k, last, p + 1) => Unread(AfterLine(s.body), f, p + 1, 0)
  <2>1. \A i \in 1..Len(f) : Len(f[i]) > 0
    BY <1>4, LinesPositive
  <2>2. Unread(s.body, f, p, q) /\ p < Len(f) /\ Len(f[p + 1]) = LinesOf(T, k, last, p + 1)
    BY <1>1, <1>2, <1>3, <1>4
  <2>3. PICK b : b = s.body
    OBVIOUS
  <2>4. /\ b # <<>> /\ Head(Head(b)) = f[p + 1][q + 1]
        /\ q + 1 < Len(f[p + 1]) => Unread(AfterLine(b), f, p, q + 1)
        /\ q + 1 = Len(f[p + 1]) => Unread(AfterLine(b), f, p + 1, 0)
    <3>1. Unread(b, f, p, q) /\ p < Len(f)
      BY <2>2, <2>3
    <3>2. Readable(f)
      BY <1>4, <2>1 DEF Readable
    <3> QED
      BY <3>1, <3>2, LineRead
  <2> QED
    BY <2>2, <2>3, <2>4
<1>10. f[p + 1][q + 1] = SseEvent(x, ty)[q + 1]
  <2>1. q + 1 \in 1..LinesOf(T, k, last, p + 1)
    BY <1>1, <1>3, LinesPositive
  <2> QED
    BY <1>3, <1>4, <1>5, <2>1
<1>11. fed = Feed(s.decoder, SseEvent(x, ty)[q + 1])
  BY <1>9, <1>10 DEF LineTaken
<1>12. PICK read : read = [s EXCEPT !.body = AfterLine(s.body), !.decoder = fed[1]]
  OBVIOUS
<1>13. /\ DOMAIN read = Fields /\ read.body = AfterLine(s.body) /\ read.decoder = fed[1]
       /\ read.at = "stream" /\ read.end = "none" /\ read.text = s.text /\ read.cites = s.cites
  BY <1>12 DEF Fields
<1>14. heard = HandleStreamEvent(read, fed[2])
  BY <1>12 DEF LineTaken
<1>19. fed[1].done = FALSE => n = heard
  BY DEF LineTaken
<1>20. fed[1].done = TRUE => n = [heard EXCEPT !.at = "ended", !.end = "answered"]
  BY DEF LineTaken
<1>18. \A i \in 1..Len(s.text) : s.text[i] = T[i]
  BY DEF Yielded
<1>15. CASE q < l
  <2>1. fed[2] = NoEvent /\ Half(fed[1], x, ty, q + 1)
    <3>1. q \in 0..Before(ty) + Len(x) - 1
      BY <1>7, <1>15, <1>17
    <3>2. Half(s.decoder, x, ty, q)
      BY <1>1, <1>5
    <3> QED
      BY <1>6, <1>11, <3>1, <3>2, HalfFed
  <2>2. heard = read
    BY <1>14, <2>1 DEF HandleStreamEvent, NoEvent
  <2>3. n = read
    BY <1>19, <2>1, <2>2 DEF Half
  <2>4. CASE q + 1 < LinesOf(T, k, last, p + 1)
    <3>1. Reading(T, n)
      <4>1. Unread(n.body, Script(T, k, last), p, q + 1)
        BY <1>2, <1>9, <1>13, <2>3, <2>4
      <4>2. Half(n.decoder, TextOf(T, k, p + 1), TypeOf(k, last, p + 1), q + 1)
        BY <1>5, <1>13, <2>1, <2>3
      <4>3. n.text = s.text /\ n.cites = s.cites
        BY <1>13, <2>3
      <4>4. q + 1 \in Nat
        OBVIOUS
      <4> QED
        BY <1>1, <2>4, <4>1, <4>2, <4>3, <4>4 DEF Reading
    <3> QED
      BY <1>1, <1>13, <2>3, <3>1 DEF Streamed
  <2>5. CASE ~(q + 1 < LinesOf(T, k, last, p + 1))
    <3>1. last = "cut" /\ p = k /\ q + 1 = l /\ q + 1 = LinesOf(T, k, last, p + 1)
      BY <1>1, <1>8, <1>15, <2>5
    <3>2. x = <<"json">> /\ ty = "citation"
      BY <1>3, <1>5, <3>1 DEF TextOf, TypeOf
    <3>3. q + 1 = 2
      <4>1. Len(x) = 1 /\ Before(ty) = 1
        BY <3>2 DEF Before
      <4> QED
        BY <1>7, <3>1, <4>1
    <3>4. AfterLine(s.body) = <<>>
      <4>1. PICK b : b = AfterLine(s.body)
        OBVIOUS
      <4>2. b \in Seq(Seq(Line)) /\ Len(b) = Len(f) - (p + 1)
        BY <1>9, <3>1, <4>1 DEF Unread
      <4>3. Len(f) - (p + 1) = 0
        BY <1>3, <1>4, <3>1 DEF Size
      <4>4. b = <<>>
        BY <4>2, <4>3, EmptySeq
      <4> QED
        BY <4>1, <4>4
    <3>5. Flushable(T, n)
      BY <1>1, <1>13, <2>1, <2>3, <3>1, <3>2, <3>3, <3>4 DEF Flushable
    <3> QED
      BY <1>1, <1>13, <2>3, <3>5 DEF Streamed
  <2> QED
    BY <2>4, <2>5
<1>16. CASE q >= l
  <2>1. q = l /\ ~(last = "cut" /\ p = k) /\ q + 1 = LinesOf(T, k, last, p + 1)
    BY <1>1, <1>8, <1>16
  <2>2. Unread(read.body, Script(T, k, last), p + 1, 0)
    BY <1>2, <1>9, <1>13, <2>1
  <2>3. fed = Dispatch(s.decoder)
    <3>1. SseEvent(x, ty)[q + 1] = [field |-> "blank", value |-> NoText]
      BY <1>6, <1>7, <2>1, EventLines
    <3>2. SseEvent(x, ty)[q + 1].field = "blank"
      BY <3>1
    <3> QED
      BY <1>11, <3>2 DEF Feed
  <2>4. fed = IF x = <<"[DONE]">> THEN <<[FreshDecoder EXCEPT !.done = TRUE], NoEvent>>
              ELSE <<FreshDecoder, [type |-> ty, text |-> x]>>
    <3>1. Half(s.decoder, x, ty, Before(ty) + Len(x))
      BY <1>1, <1>5, <1>7, <2>1
    <3> QED
      BY <1>6, <2>3, <3>1, HalfGiven
  <2>5. ASSUME p + 2 \in 1..Size(k, last)
        PROVE  /\ 0 < LinesOf(T, k, last, (p + 1) + 1)
               /\ Half(FreshDecoder, TextOf(T, k, (p + 1) + 1), TypeOf(k, last, (p + 1) + 1), 0)
    <3>1. (p + 1) + 1 = p + 2
      OBVIOUS
    <3> QED
      BY <2>5, <3>1, LinesPositive, FreshHalf
  <2>6. CASE p < k
    <3>1. p + 1 \in 1..Len(T) /\ p + 1 # k + 1 /\ p + 1 <= k /\ p <= k
      BY <1>3, <2>6
    <3>2. x = T[p + 1] /\ ty = "message"
      BY <1>5, <3>1 DEF TextOf, TypeOf
    <3>3. fed[1] = FreshDecoder /\ fed[2] = [type |-> "message", text |-> x]
      BY <2>4, <3>1, <3>2
    <3>4. fed[1].done = FALSE
      BY <3>3 DEF FreshDecoder
    <3>5. heard = [read EXCEPT !.text = Append(@, x)]
      <4>1. fed[2].type = "message" /\ fed[2].text = x
        BY <3>3
      <4> QED
        BY <1>14, <4>1 DEF HandleStreamEvent
    <3>6. n = heard
      BY <1>19, <3>4
    <3>7. /\ n.at = "stream" /\ n.end = "none" /\ n.text = Append(s.text, x)
          /\ n.cites = s.cites /\ n.body = read.body /\ n.decoder = FreshDecoder
      BY <1>13, <3>3, <3>5, <3>6 DEF Fields
    <3>8. Len(s.text) = p /\ s.cites = 0 /\ s.text \in Seq(Texts) /\ x \in Texts
      <4>1. x \in Texts
        BY <1>6 DEF Texts
      <4> QED
        BY <1>1, <3>1, <4>1 DEF Yielded
    <3>9. /\ n.text \in Seq(Texts) /\ Len(n.text) = p + 1
          /\ \A i \in 1..(p + 1) : n.text[i] = T[i]
      <4>1. /\ Append(s.text, x) \in Seq(Texts) /\ Len(Append(s.text, x)) = Len(s.text) + 1
            /\ \A i \in 1..Len(s.text) : Append(s.text, x)[i] = s.text[i]
            /\ Append(s.text, x)[Len(s.text) + 1] = x
        BY <3>8, AppendProperties
      <4>2. \A i \in 1..(p + 1) : i \in 1..p \/ i = p + 1
        OBVIOUS
      <4> QED
        BY <3>2, <3>7, <3>8, <4>1, <4>2, <1>18
    <3>10. Reading(T, n)
      <4>1. p + 2 \in 1..Size(k, last) /\ p + 1 <= k /\ p + 1 \in Nat
        BY <1>3, <2>6 DEF Size
      <4> QED
        BY <1>1, <2>2, <2>5, <2>6, <3>7, <3>8, <3>9, <4>1 DEF Reading
    <3> QED
      BY <1>3, <3>1, <3>7, <3>8, <3>9, <3>10 DEF Streamed, Yielded
  <2>7. CASE p = k
    <3>1. last \in {"citation", "error"} /\ p + 1 = k + 1 /\ p <= k /\ ~(p + 1 <= k)
      BY <1>3, <2>1, <2>7 DEF Lasts
    <3>2. x = <<"json">> /\ ty = last
      BY <1>5, <3>1 DEF TextOf, TypeOf
    <3>3. x # <<"[DONE]">>
      BY <3>2
    <3>4. fed[1] = FreshDecoder /\ fed[2] = [type |-> last, text |-> x]
      BY <2>4, <3>2, <3>3
    <3>5. fed[1].done = FALSE
      BY <3>4 DEF FreshDecoder
    <3>6. n = heard
      BY <1>19, <3>5
    <3>7. Len(s.text) = k /\ s.cites = 0
      BY <1>1, <2>7, <3>1
    <3>8. CASE last = "citation"
      <4>1. heard = [read EXCEPT !.cites = @ + 1]
        BY <1>14, <3>4, <3>8 DEF HandleStreamEvent
      <4>2. /\ n.at = "stream" /\ n.end = "none" /\ n.text = s.text
            /\ n.cites = 1 /\ n.body = read.body /\ n.decoder = FreshDecoder
        <5>1. ASSUME NEW r, NEW c, DOMAIN r = Fields, c = [r EXCEPT !.cites = @ + 1]
              PROVE  /\ c.at = r.at /\ c.end = r.end /\ c.text = r.text /\ c.body = r.body
                     /\ c.decoder = r.decoder /\ c.cites = r.cites + 1
          BY <5>1 DEF Fields
        <5>2. /\ n.at = read.at /\ n.end = read.end /\ n.text = read.text /\ n.body = read.body
              /\ n.decoder = read.decoder /\ n.cites = read.cites + 1
          BY <1>13, <3>6, <4>1, <5>1
        <5> QED
          BY <1>13, <3>4, <3>7, <5>2
      <4>3. Reading(T, n)
        <5>1. p + 2 \in 1..Size(k, last) /\ p + 1 = k + 1 /\ p + 1 \in Nat
          BY <1>3, <2>7, <3>8 DEF Size
        <5> QED
          BY <1>1, <2>2, <2>5, <3>1, <3>7, <3>8, <4>2, <5>1 DEF Reading
      <4> QED
        BY <4>2, <4>3 DEF Streamed
    <3>9. CASE last = "error"
      <4>1. heard = [read EXCEPT !.at = "ended", !.end = "apierror"]
        BY <1>14, <3>4, <3>9 DEF HandleStreamEvent
      <4>2. n.at = "ended" /\ n.end = "apierror" /\ n.text = s.text /\ n.cites = 0
        <5>1. ASSUME NEW r, NEW c, DOMAIN r = Fields, c = [r EXCEPT !.at = "ended", !.end = "apierror"]
              PROVE  /\ c.at = "ended" /\ c.end = "apierror" /\ c.text = r.text /\ c.cites = r.cites
          BY <5>1 DEF Fields
        <5>2. n.at = "ended" /\ n.end = "apierror" /\ n.text = read.text /\ n.cites = read.cites
          BY <1>13, <3>6, <4>1, <5>1
        <5> QED
          BY <1>13, <3>7, <5>2
      <4> QED
        BY <4>2 DEF Streamed
    <3> QED
      BY <3>1, <3>8, <3>9
  <2>8. CASE p > k
    <3>1. last = "citation" /\ p = k + 1 /\ p + 1 # k + 1 /\ ~(p + 1 <= k) /\ ~(p <= k)
      BY <1>1, <1>3, <2>8
    <3>2. x = <<"[DONE]">>
      BY <1>5, <3>1 DEF TextOf
    <3>3. fed = <<[FreshDecoder EXCEPT !.done = TRUE], NoEvent>>
      BY <2>4, <3>2
    <3>9. fed[2] = NoEvent
      BY <3>3
    <3>4. fed[1].done = TRUE
      <4>1. [FreshDecoder EXCEPT !.done = TRUE].done = TRUE
        BY DEF FreshDecoder
      <4> QED
        BY <3>3, <4>1
    <3>5. heard = read
      BY <1>14, <3>9 DEF HandleStreamEvent, NoEvent
    <3>6. n = [read EXCEPT !.at = "ended", !.end = "answered"]
      BY <1>20, <3>4, <3>5
    <3>7. n.at = "ended" /\ n.end = "answered" /\ n.text = s.text /\ n.cites = s.cites
      BY <1>13, <3>6 DEF Fields
    <3>8. Len(s.text) = Len(T) /\ s.cites = 1
      BY <1>1, <3>1
    <3> QED
      BY <3>7, <3>8 DEF Streamed
  <2> QED
    BY <1>3, <2>6, <2>7, <2>8
<1> QED
  BY <1>15, <1>16, <1>1

\* StreamEnds of the call s.
LastTaken(s, fed, heard, n) ==
    /\ fed = Dispatch(s.decoder)
    /\ heard = HandleStreamEvent(s, fed[2])
    /\ n = IF heard.at = "ended" THEN heard
           ELSE [heard EXCEPT !.at = "ended", !.end = "answered"]

\* The end of the lines without a sentinel.
LEMMA FlushStreams ==
    ASSUME NEW T \in Seq(Texts), NEW s, DOMAIN s = Fields, s.at = "stream", s.end = "none",
           Streamed(T, s), s.body = <<>>,
           NEW fed, NEW heard, NEW n, LastTaken(s, fed, heard, n)
    PROVE  Streamed(T, n)
<1>1. ~Reading(T, s)
  <2> SUFFICES ASSUME Reading(T, s) PROVE FALSE
    OBVIOUS
  <2>1. PICK k \in 0..Len(T), last \in Lasts, p \in Nat, q \in Nat :
          /\ p <= k \/ (last = "citation" /\ p = k + 1)
          /\ Unread(s.body, Script(T, k, last), p, q)
    BY DEF Reading
  <2>2. Len(Script(T, k, last)) = Size(k, last)
    BY ScriptEvents
  <2>3. Len(s.body) = Size(k, last) - p
    BY <2>1, <2>2 DEF Unread
  <2>4. Len(s.body) = 0
    OBVIOUS
  <2>5. Len(T) \in Nat
    BY LenProperties
  <2> QED
    BY <2>1, <2>3, <2>4, <2>5 DEF Size
<1>2. Flushable(T, s)
  BY <1>1 DEF Streamed
<1>3. PICK x : x = <<"json">>
  OBVIOUS
<1>4. x \in Seq(Values) /\ Len(x) = 1 /\ x # <<>> /\ x # <<"[DONE]">>
  <2>1. x \in Seq(Values) /\ Len(x) = 1
    BY <1>3, SomeValues, OneElement
  <2> QED
    BY <1>3, <2>1
<1>5. fed = <<FreshDecoder, [type |-> "citation", text |-> x]>>
  <2>1. Before("citation") + Len(x) = 2
    BY <1>4 DEF Before
  <2>2. Half(s.decoder, x, "citation", Before("citation") + Len(x))
    BY <1>2, <1>3, <2>1 DEF Flushable
  <2>3. "citation" \in Values /\ "citation" # NoText
    BY SomeValues, NoTextIsNone
  <2> QED
    BY <1>4, <2>2, <2>3, HalfGiven DEF LastTaken
<1>6. fed[2] = [type |-> "citation", text |-> x]
  BY <1>5
<1>7. heard = [s EXCEPT !.cites = @ + 1]
  BY <1>6 DEF HandleStreamEvent, LastTaken
<1>8. heard.at = "stream" /\ heard.text = s.text /\ heard.cites = 1 /\ DOMAIN heard = Fields
  BY <1>2, <1>7 DEF Fields, Flushable
<1>9. n.at = "ended" /\ n.end = "answered" /\ n.text = s.text /\ n.cites = 1
  BY <1>8 DEF Fields, LastTaken
<1> QED
  BY <1>2, <1>9 DEF Streamed, Flushable

\* A response that starts a stream.
LEMMA StartStreams ==
    ASSUME NEW T \in Seq(Texts), NEW s, DOMAIN s = Fields,
           s.text = <<>>, s.cites = 0, s.decoder = FreshDecoder, s.end = "none",
           s.body \in {EventSource(T, Len(T), FALSE), Unterminated(T)}
                        \cup {EventSource(T, k, TRUE) : k \in 1..Len(T)}
    PROVE  Streamed(T, s)
<1>1. Len(T) \in Nat
  BY LenProperties
<1>2. \E k \in 0..Len(T), last \in Lasts : (last # "error" => k = Len(T)) /\ s.body = Script(T, k, last)
  <2>1. CASE s.body = EventSource(T, Len(T), FALSE)
    <3>1. s.body = Script(T, Len(T), "citation")
      BY <2>1 DEF EventSource, Script, Ending
    <3> QED
      BY <1>1, <3>1 DEF Lasts
  <2>2. CASE s.body = Unterminated(T)
    <3>1. s.body = Script(T, Len(T), "cut")
      BY <2>2 DEF Unterminated, Script, Ending
    <3> QED
      BY <1>1, <3>1 DEF Lasts
  <2>3. ASSUME NEW k \in 1..Len(T), s.body = EventSource(T, k, TRUE)
        PROVE  s.body = Script(T, k, "error") /\ k \in 0..Len(T)
    BY <1>1, <2>3 DEF EventSource, Script, Ending
  <2> QED
    BY <2>1, <2>2, <2>3 DEF Lasts
<1>3. PICK k \in 0..Len(T), last \in Lasts :
        (last # "error" => k = Len(T)) /\ s.body = Script(T, k, last)
  BY <1>2
<1>4. PICK f : f = Script(T, k, last)
  OBVIOUS
<1>5. /\ f \in Seq(Seq(Line)) /\ Len(f) = Size(k, last)
      /\ \A i \in 1..Size(k, last) : Len(f[i]) = LinesOf(T, k, last, i)
  BY <1>4, ScriptEvents
<1>6. 0 + 1 \in 1..Size(k, last) /\ Size(k, last) \in Nat /\ k \in Nat
  BY <1>1 DEF Size
<1>7. LinesOf(T, k, last, 0 + 1) \in Nat /\ 0 < LinesOf(T, k, last, 0 + 1)
  BY <1>6, LinesPositive
<1>8. Unread(f, f, 0, 0)
  <2>1. Len(f) = Len(f) - 0 /\ \A i \in 2..Len(f) : f[i] = f[0 + i]
    BY <1>5, <1>6
  <2>2. PICK m \in Nat : m = LinesOf(T, k, last, 0 + 1)
    BY <1>7
  <2>3. 0 + 1 = 1 /\ Len(f[1]) = m /\ 0 < m /\ m - 0 = m
    BY <1>5, <1>6, <1>7, <2>2
  <2>4. \A j \in 1..Len(f[1]) : f[1][j] = f[0 + 1][0 + j]
    BY <2>3
  <2> QED
    BY <1>5, <2>1, <2>3, <2>4 DEF Unread
<1>9. Len(s.text) = 0
  OBVIOUS
<1>10. Reading(T, s)
  <2>1. Half(s.decoder, TextOf(T, k, 0 + 1), TypeOf(k, last, 0 + 1), 0)
    BY FreshHalf
  <2>2. 0 \in Nat /\ 0 <= k
    BY <1>6
  <2> QED
    BY <1>3, <1>4, <1>7, <1>8, <1>9, <2>1, <2>2 DEF Reading
<1>11. Yielded(T, s.text)
  <2>1. s.text \in Seq(Texts)
    BY EmptySeq
  <2> QED
    BY <1>1, <1>9, <2>1 DEF Yielded
<1> QED
  BY <1>10, <1>11 DEF Streamed

-----------------------------------------------------------------------------
(* One call: its record s, what it asks a, the response b it may take. *)

\* The record of a call and the response it may take agree with what was asked.
CallOK(a, s, b) ==
    /\ s.at \in {"new", "send", "wait", "sleep", "stream", "ended", "reported"}
    /\ s.tried \in 0..MaxRetries /\ (s.at = "sleep" => s.tried < MaxRetries)
    /\ (s.end = "none") <=> (s.at \notin {"ended", "reported"})
    /\ b # NoResponse => s.at = "wait"
    /\ s.at = "stream" => a.op = "stream"
    /\ Idempotent(a.op) /\ s.end \in Transient => s.tried = MaxRetries
    /\ s.at \in {"new", "send", "wait", "sleep"} \/ a.op # "stream" =>
         s.text = <<>> /\ s.cites = 0 /\ s.decoder = FreshDecoder
    /\ a.op = "stream" => Streamed(a.tokens, s)
    /\ a.op = "stream" /\ b.status = "ok" =>
         b.body \in {EventSource(a.tokens, Len(a.tokens), FALSE), Unterminated(a.tokens)}
                      \cup {EventSource(a.tokens, k, TRUE) : k \in 1..Len(a.tokens)}

\* The attempts of a call that may have been sent.
Made(s) == IF s.at \in {"new", "send"} THEN s.tried ELSE s.tried + 1

\* The attempts of a call that are on the wire.
OnWire(w, c) == {n \in 0..MaxRetries : <<c, n>> \in w}

\* No attempt takes effect twice: each is to be sent, on the wire, or carried out.
CallInv ==
    /\ IInv
    /\ asks \in Cases
    /\ wire \subseteq Calls \X (0..MaxRetries)
    /\ \A c \in Calls : CallOK(asks[c], calls[c], back[c])
    /\ \A c \in Calls : ran[c] + Cardinality(OnWire(wire, c)) <= Made(calls[c])

\* A step of the call: its record becomes n and it takes no response any more.
Goes(a, s, n) == DOMAIN n = Fields /\ CallOK(a, n, NoResponse) /\ Made(s) <= Made(n)

\* No response has the status of none.
LEMMA NoResponseStatus == NoResponse.status = "none"
BY DEF NoResponse

\* A call may end, with an answer only when it is no stream.
LEMMA CallEnds ==
    ASSUME NEW a, NEW s, NEW b, CallOK(a, s, b), DOMAIN s = Fields, s.end = "none",
           NEW e, e # "none", e = "answered" => a.op # "stream",
           Idempotent(a.op) /\ e \in Transient => s.tried = MaxRetries,
           NEW n, n = [s EXCEPT !.at = "ended", !.end = e]
    PROVE  Goes(a, s, n)
<1>1. /\ DOMAIN n = Fields /\ n.at = "ended" /\ n.end = e /\ n.tried = s.tried
      /\ n.text = s.text /\ n.cites = s.cites /\ n.decoder = s.decoder
  BY DEF Fields
<1>2. a.op = "stream" => Streamed(a.tokens, n)
  BY <1>1 DEF CallOK, Streamed
<1>3. Made(s) <= Made(n)
  BY <1>1, MaxRetriesNat DEF CallOK, Made
<1> QED
  BY <1>1, <1>2, <1>3, NoResponseStatus DEF CallOK, Goes

\* A call may move on; one that sends makes an attempt more.
LEMMA CallMovesOn ==
    ASSUME NEW a, NEW s, NEW b, CallOK(a, s, b), DOMAIN s = Fields, s.end = "none",
           NEW v \in {"send", "wait", "sleep"}, s.at \in {"new", "send", "wait"},
           v = "send" => s.at = "new", v = "sleep" => s.tried < MaxRetries,
           NEW n, n = [s EXCEPT !.at = v]
    PROVE  Goes(a, s, n) /\ (s.at = "send" => Made(n) = Made(s) + 1)
<1>1. /\ DOMAIN n = Fields /\ n.at = v /\ n.end = "none" /\ n.tried = s.tried
      /\ n.text = s.text /\ n.cites = s.cites /\ n.decoder = s.decoder
  BY DEF Fields
<1>2. a.op = "stream" => Streamed(a.tokens, n)
  BY <1>1 DEF CallOK, Streamed
<1>3. Made(s) <= Made(n) /\ (s.at = "send" => Made(n) = Made(s) + 1)
  BY <1>1, MaxRetriesNat DEF CallOK, Made
<1> QED
  BY <1>1, <1>2, <1>3, NoResponseStatus DEF CallOK, Goes

\* An exception ends the call, or it sleeps while it has retries left.
LEMMA CallRaises ==
    ASSUME CallInv, NEW c \in Calls, calls[c].at \in {"send", "wait"},
           NEW exc \in {"connect", "timeout", "broken"}, Raised(c, exc)
    PROVE  \E n : Becomes(c, n) /\ Goes(asks[c], calls[c], n)
<1>0. CallOK(asks[c], calls[c], back[c]) /\ DOMAIN calls[c] = Fields /\ calls[c].end = "none"
  BY DEF CallInv, IInv, Shape, CallOK
<1>1. calls[c].tried \in 0..MaxRetries
  BY <1>0 DEF CallOK
<1>2. CASE ShouldRetryException(asks[c].op, exc) /\ RetriesLeft(calls[c].tried)
  <2>1. calls[c].tried < MaxRetries
    BY <1>2 DEF RetriesLeft
  <2>2. PICK n : n = [calls[c] EXCEPT !.at = "sleep"]
    OBVIOUS
  <2>3. Goes(asks[c], calls[c], n)
    BY <1>0, <2>1, <2>2, CallMovesOn
  <2> QED
    BY <1>2, <2>2, <2>3 DEF Raised, Moves
<1>3. CASE ~(ShouldRetryException(asks[c].op, exc) /\ RetriesLeft(calls[c].tried))
  <2>1. Idempotent(asks[c].op) /\ exc \in Transient => calls[c].tried = MaxRetries
    BY <1>1, <1>3, MaxRetriesNat DEF ShouldRetryException, RetriesLeft
  <2>2. PICK n : n = [calls[c] EXCEPT !.at = "ended", !.end = exc]
    OBVIOUS
  <2>3. Goes(asks[c], calls[c], n)
    BY <1>0, <2>1, <2>2, CallEnds
  <2> QED
    BY <1>3, <2>2, <2>3 DEF Raised, Ends
<1> QED
  BY <1>2, <1>3

\* The tokens of a stream are texts.
LEMMA TokensTyped ==
    ASSUME asks \in Cases, NEW c \in Calls
    PROVE  /\ asks[c].tokens \in Seq(Texts)
           /\ SentinelFree => \A i \in 1..Len(asks[c].tokens) : asks[c].tokens[i] # <<"[DONE]">>
<1>1. Seq(STRING) \ {<<>>} \subseteq Texts
  <2>1. STRING \subseteq Values
    BY Zenon DEF Values
  <2>2. Seq(STRING) \subseteq Seq(Values)
    BY <2>1, SeqMonotonic
  <2> QED
    BY <2>2 DEF Texts
<1>2. asks[c].tokens \in Seq(Texts)
  BY <1>1, CasesTyped, SeqMonotonic
<1> QED
  BY <1>2, LenProperties DEF SentinelFree

\* Every step of a client but the sending of a request.
LEMMA ClientGoes ==
    ASSUME CallInv, SentinelFree, NEW c \in Calls, Client(c), ~Send(c)
    PROVE  /\ \E n : Becomes(c, n) /\ Goes(asks[c], calls[c], n)
           /\ back' = [back EXCEPT ![c] = NoResponse] \/ (back' = back /\ back[c] = NoResponse)
           /\ UNCHANGED <<asks, wire, ran>>
<1>0. CallOK(asks[c], calls[c], back[c]) /\ DOMAIN calls[c] = Fields
  BY DEF CallInv, IInv, Shape
<1>1. calls[c].at # "wait" => back[c] = NoResponse
  BY <1>0 DEF CallOK
<1>2. calls[c].at \notin {"ended", "reported"} => calls[c].end = "none"
  BY <1>0 DEF CallOK
<1>3. CASE Begin(c)
  <2>1. calls[c].at = "new" /\ UNCHANGED <<asks, wire, back, ran>>
    BY <1>3 DEF Begin, In
  <2>2. PICK refusal : refusal = Refusal(asks[c])
    OBVIOUS
  <2>3. IF refusal = "none" THEN Moves(c, "send") ELSE Ends(c, refusal)
    BY <1>3, <2>2 DEF Begin
  <2>4. refusal \in {"none", "no credentials", "no tag", "no token", "no query"}
    BY <2>2 DEF Refusal, CliRefusal, BotRefusal
  <2>5. CASE refusal = "none"
    <3>1. PICK n : n = [calls[c] EXCEPT !.at = "send"]
      OBVIOUS
    <3>2. Goes(asks[c], calls[c], n)
      BY <1>0, <1>2, <2>1, <3>1, CallMovesOn
    <3> QED
      BY <1>1, <2>1, <2>3, <2>5, <3>1, <3>2 DEF Moves
  <2>6. CASE refusal # "none"
    <3>1. PICK n : n = [calls[c] EXCEPT !.at = "ended", !.end = refusal]
      OBVIOUS
    <3>2. refusal # "answered" /\ refusal \notin Transient
      BY <2>4 DEF Transient
    <3>3. Goes(asks[c], calls[c], n)
      BY <1>0, <1>2, <2>1, <2>6, <3>1, <3>2, CallEnds
    <3> QED
      BY <1>1, <2>1, <2>3, <2>6, <3>1, <3>3 DEF Ends
  <2> QED
    BY <2>5, <2>6
<1>4. CASE ConnectFails(c)
  <2>1. calls[c].at = "send" /\ Raised(c, "connect") /\ UNCHANGED <<asks, wire, back, ran>>
    BY <1>4 DEF ConnectFails, In
  <2> QED
    BY <1>1, <2>1, CallRaises
<1>5. CASE GivesUpWaiting(c)
  <2>1. /\ calls[c].at = "wait" /\ UNCHANGED <<asks, wire, ran>>
        /\ back' = [back EXCEPT ![c] = NoResponse]
        /\ \E exc \in {"timeout", "broken"} : Raised(c, exc)
    BY <1>5 DEF GivesUpWaiting, In
  <2> QED
    BY <2>1, CallRaises
<1>6. CASE Wake(c)
  <2>1. calls[c].at = "sleep" /\ UNCHANGED <<asks, wire, back, ran>>
    BY <1>6 DEF Wake, In
  <2>2. PICK s, n : s = calls[c] /\ n = [s EXCEPT !.at = "send", !.tried = @ + 1]
    OBVIOUS
  <2>3. /\ DOMAIN n = Fields /\ n.at = "send" /\ n.end = s.end /\ n.tried = s.tried + 1
        /\ n.text = s.text /\ n.cites = s.cites /\ n.decoder = s.decoder
    BY <1>0, <2>2 DEF Fields
  <2>4. CallOK(asks[c], s, back[c]) /\ s.at = "sleep" /\ s.end = "none"
    BY <1>0, <1>2, <2>1, <2>2
  <2>5. asks[c].op = "stream" => Streamed(asks[c].tokens, n)
    BY <2>3, <2>4 DEF CallOK, Streamed
  <2>6. Made(s) <= Made(n) /\ n.tried \in 0..MaxRetries
    BY <2>3, <2>4, MaxRetriesNat DEF CallOK, Made
  <2>7. Goes(asks[c], s, n)
    BY <2>3, <2>4, <2>5, <2>6, NoResponseStatus DEF CallOK, Goes, Transient
  <2>8. Becomes(c, n)
    BY <1>6, <2>2 DEF Wake
  <2> QED
    BY <1>1, <2>1, <2>2, <2>7, <2>8
<1>7. CASE Response(c)
  <2>1. PICK op, status : op = asks[c].op /\ status = back[c].status
    OBVIOUS
  <2>2. /\ calls[c].at = "wait" /\ back' = [back EXCEPT ![c] = NoResponse]
        /\ UNCHANGED <<asks, wire, ran>>
    BY <1>7 DEF Response, In
  <2>3. IF ShouldRetryStatus(op, status) /\ RetriesLeft(calls[c].tried) THEN Moves(c, "sleep")
        ELSE IF status # "ok" THEN Ends(c, IF status = "odd" THEN "badbody" ELSE "apierror")
        ELSE IF op = "stream"
             THEN Becomes(c, [calls[c] EXCEPT !.at = "stream", !.body = back[c].body])
        ELSE Ends(c, "answered")
    BY <1>7, <2>1 DEF Response
  <2>4. CASE ShouldRetryStatus(op, status) /\ RetriesLeft(calls[c].tried)
    <3>1. calls[c].tried < MaxRetries
      BY <2>4 DEF RetriesLeft
    <3>2. PICK n : n = [calls[c] EXCEPT !.at = "sleep"]
      OBVIOUS
    <3>3. Goes(asks[c], calls[c], n)
      BY <1>0, <1>2, <2>2, <3>1, <3>2, CallMovesOn
    <3> QED
      BY <2>2, <2>3, <2>4, <3>2, <3>3 DEF Moves
  <2>5. ASSUME NEW e \in {"badbody", "apierror", "answered"}, Ends(c, e), e = "answered" => op # "stream"
        PROVE  \E n : Becomes(c, n) /\ Goes(asks[c], calls[c], n)
    <3>1. PICK n : n = [calls[c] EXCEPT !.at = "ended", !.end = e]
      OBVIOUS
    <3>2. e \notin Transient
      BY DEF Transient
    <3>3. Goes(asks[c], calls[c], n)
      BY <1>0, <1>2, <2>1, <2>2, <2>5, <3>1, <3>2, CallEnds
    <3> QED
      BY <2>5, <3>1, <3>3 DEF Ends
  <2>6. CASE /\ status = "ok" /\ op = "stream"
             /\ Becomes(c, [calls[c] EXCEPT !.at = "stream", !.body = back[c].body])
    <3>1. PICK s, n : s = calls[c] /\ n = [s EXCEPT !.at = "stream", !.body = back[c].body]
      OBVIOUS
    <3>2. /\ DOMAIN n = Fields /\ n.at = "stream" /\ n.end = s.end /\ n.tried = s.tried
          /\ n.text = s.text /\ n.cites = s.cites /\ n.decoder = s.decoder /\ n.body = back[c].body
      BY <1>0, <3>1 DEF Fields
    <3>3. CallOK(asks[c], s, back[c]) /\ s.at = "wait" /\ s.end = "none"
      BY <1>0, <1>2, <2>2, <3>1
    <3>4. PICK T : T = asks[c].tokens
      OBVIOUS
    <3>5. T \in Seq(Texts)
      BY <3>4, TokensTyped DEF CallInv
    <3>6. /\ n.text = <<>> /\ n.cites = 0 /\ n.decoder = FreshDecoder /\ n.end = "none"
          /\ n.body \in {EventSource(T, Len(T), FALSE), Unterminated(T)}
                          \cup {EventSource(T, k, TRUE) : k \in 1..Len(T)}
      BY <2>1, <2>6, <3>2, <3>3, <3>4 DEF CallOK
    <3>7. Streamed(T, n)
      BY <3>2, <3>5, <3>6, StartStreams
    <3>8. Made(s) <= Made(n)
      BY <3>2, <3>3, MaxRetriesNat DEF CallOK, Made
    <3>9. Goes(asks[c], s, n)
      BY <2>1, <2>6, <3>2, <3>3, <3>4, <3>7, <3>8, NoResponseStatus DEF CallOK, Goes
    <3> QED
      BY <2>2, <2>6, <3>1, <3>9
  <2> QED
    BY <2>2, <2>3, <2>4, <2>5, <2>6
<1>8. CASE ReadLine(c)
  <2>1. calls[c].at = "stream" /\ calls[c].body # <<>> /\ UNCHANGED <<asks, wire, back, ran>>
    BY <1>8 DEF ReadLine, In
  <2>2. PICK s, T : s = calls[c] /\ T = asks[c].tokens
    OBVIOUS
  <2>3. PICK fed : fed = Feed(s.decoder, Head(Head(s.body)))
    OBVIOUS
  <2>4. PICK heard : heard = HandleStreamEvent([s EXCEPT !.body = AfterLine(@), !.decoder = fed[1]], fed[2])
    OBVIOUS
  <2>5. PICK n : n = IF fed[1].done THEN [heard EXCEPT !.at = "ended", !.end = "answered"] ELSE heard
    OBVIOUS
  <2>6. Becomes(c, n)
    BY <1>8, <2>2, <2>3, <2>4, <2>5 DEF ReadLine
  <2>7. LineTaken(s, fed, heard, n)
    BY <2>3, <2>4, <2>5 DEF LineTaken
  <2>8. /\ CallOK(asks[c], s, back[c]) /\ DOMAIN s = Fields /\ s.at = "stream" /\ s.end = "none"
        /\ T \in Seq(Texts) /\ \A i \in 1..Len(T) : T[i] # <<"[DONE]">>
        /\ asks[c].op = "stream" /\ Streamed(T, s)
    BY <1>0, <1>2, <2>1, <2>2, TokensTyped DEF CallInv, CallOK
  <2>9. Streamed(T, n)
    <3>1. ~Flushable(T, s)
      BY <2>1, <2>2 DEF Flushable
    <3>2. Reading(T, s) /\ Yielded(T, s.text)
      BY <2>8, <3>1 DEF Streamed
    <3> QED
      BY <2>7, <2>8, <3>2, ReadLineStreams
  <2>10. /\ DOMAIN n = Fields /\ n.tried = s.tried
         /\ \/ n.at = "stream" /\ n.end = "none"
            \/ n.at = "ended" /\ n.end \in {"answered", "apierror"}
    <3>1. PICK read : read = [s EXCEPT !.body = AfterLine(@), !.decoder = fed[1]]
      OBVIOUS
    <3>2. DOMAIN read = Fields /\ read.tried = s.tried /\ read.at = "stream" /\ read.end = "none"
      BY <2>8, <3>1 DEF Fields
    <3>3. heard = HandleStreamEvent(read, fed[2])
      BY <2>4, <3>1
    <3>4. /\ DOMAIN heard = Fields /\ heard.tried = s.tried
          /\ \/ heard.at = "stream" /\ heard.end = "none"
             \/ heard.at = "ended" /\ heard.end = "apierror"
      BY <3>2, <3>3 DEF HandleStreamEvent, Fields
    <3> QED
      BY <2>5, <3>4 DEF Fields
  <2>11. Goes(asks[c], s, n)
    <3>1. Made(s) <= Made(n)
      BY <2>8, <2>10, MaxRetriesNat DEF CallOK, Made
    <3> QED
      BY <2>2, <2>8, <2>9, <2>10, <3>1, NoResponseStatus DEF CallOK, Goes, Transient
  <2> QED
    BY <1>1, <2>1, <2>2, <2>6, <2>11
<1>9. CASE StreamEnds(c)
  <2>1. calls[c].at = "stream" /\ calls[c].body = <<>> /\ UNCHANGED <<asks, wire, back, ran>>
    BY <1>9 DEF StreamEnds, In
  <2>2. PICK s, T : s = calls[c] /\ T = asks[c].tokens
    OBVIOUS
  <2>3. PICK fed : fed = Dispatch(s.decoder)
    OBVIOUS
  <2>4. PICK heard : heard = HandleStreamEvent(s, fed[2])
    OBVIOUS
  <2>5. PICK n : n = IF heard.at = "ended" THEN heard ELSE [heard EXCEPT !.at = "ended", !.end = "answered"]
    OBVIOUS
  <2>6. Becomes(c, n)
    BY <1>9, <2>2, <2>3, <2>4, <2>5 DEF StreamEnds
  <2>7. LastTaken(s, fed, heard, n)
    BY <2>3, <2>4, <2>5 DEF LastTaken
  <2>8. /\ CallOK(asks[c], s, back[c]) /\ DOMAIN s = Fields /\ s.at = "stream" /\ s.end = "none"
        /\ T \in Seq(Texts) /\ asks[c].op = "stream" /\ Streamed(T, s) /\ s.body = <<>>
    BY <1>0, <1>2, <2>1, <2>2, TokensTyped DEF CallInv, CallOK
  <2>9. Streamed(T, n)
    BY <2>7, <2>8, FlushStreams
  <2>10. /\ DOMAIN n = Fields /\ n.tried = s.tried
         /\ n.at = "ended" /\ n.end \in {"answered", "apierror"}
    <3>4. /\ DOMAIN heard = Fields /\ heard.tried = s.tried
          /\ \/ heard.at = "stream" /\ heard.end = "none"
             \/ heard.at = "ended" /\ heard.end = "apierror"
      BY <2>4, <2>8 DEF HandleStreamEvent, Fields
    <3> QED
      BY <2>5, <3>4 DEF Fields
  <2>11. Goes(asks[c], s, n)
    <3>1. Made(s) <= Made(n)
      BY <2>8, <2>10, MaxRetriesNat DEF CallOK, Made
    <3> QED
      BY <2>2, <2>8, <2>9, <2>10, <3>1, NoResponseStatus DEF CallOK, Goes, Transient
  <2> QED
    BY <1>1, <2>1, <2>2, <2>6, <2>11
<1>10. CASE StreamStops(c)
  <2>1. calls[c].at = "stream" /\ UNCHANGED <<asks, wire, back, ran>>
    BY <1>10 DEF StreamStops, In
  <2>2. PICK e \in {"timeout", "broken", "closed"} : Ends(c, e)
    BY <1>10 DEF StreamStops
  <2>3. ~Idempotent(asks[c].op)
    BY <1>0, <2>1 DEF CallOK, Idempotent
  <2>4. PICK n : n = [calls[c] EXCEPT !.at = "ended", !.end = e]
    OBVIOUS
  <2>5. Goes(asks[c], calls[c], n)
    BY <1>0, <1>2, <2>1, <2>3, <2>4, CallEnds
  <2> QED
    BY <1>1, <2>1, <2>2, <2>4, <2>5 DEF Ends
<1>11. CASE Report(c)
  <2>1. calls[c].at = "ended" /\ UNCHANGED <<asks, wire, back, ran>>
    BY <1>11 DEF Report, In
  <2>2. PICK s, r : s = calls[c] /\ r = Outcome(asks[c].by, calls[c].end)
    OBVIOUS
  <2>3. PICK n : n = [s EXCEPT !.at = "reported", !.report = r]
    OBVIOUS
  <2>4. /\ DOMAIN n = Fields /\ n.at = "reported" /\ n.end = s.end /\ n.tried = s.tried
        /\ n.text = s.text /\ n.cites = s.cites /\ n.decoder = s.decoder
    BY <1>0, <2>2, <2>3 DEF Fields
  <2>5. CallOK(asks[c], s, back[c]) /\ s.at = "ended"
    BY <1>0, <2>1, <2>2
  <2>6. asks[c].op = "stream" => Streamed(asks[c].tokens, n)
    BY <2>4, <2>5 DEF CallOK, Streamed
  <2>7. Made(s) <= Made(n)
    BY <2>4, <2>5, MaxRetriesNat DEF CallOK, Made
  <2>8. Goes(asks[c], s, n)
    BY <2>4, <2>5, <2>6, <2>7, NoResponseStatus DEF CallOK, Goes
  <2>9. Becomes(c, n)
    BY <1>11, <2>2, <2>3 DEF Report
  <2> QED
    BY <1>1, <2>1, <2>2, <2>8, <2>9
<1> QED
  BY <1>3, <1>4, <1>5, <1>6, <1>7, <1>8, <1>9, <1>10, <1>11 DEF Client

\* The requests of a call that are on the wire are finitely many.
LEMMA OnWireFinite ==
    ASSUME NEW w, NEW c
    PROVE  IsFiniteSet(OnWire(w, c)) /\ Cardinality(OnWire(w, c)) \in Nat
<1>1. OnWire(w, c) \in SUBSET (0..MaxRetries)
  BY DEF OnWire
<1>2. IsFiniteSet(0..MaxRetries)
  BY MaxRetriesNat, FS_Interval
<1> QED
  BY <1>1, <1>2, FS_Subset, FS_CardinalityType

\* At most one more when a request is sent.
LEMMA OnWireMore ==
    ASSUME NEW w, NEW c, NEW n \in 0..MaxRetries
    PROVE  /\ Cardinality(OnWire(w \cup {<<c, n>>}, c)) <= Cardinality(OnWire(w, c)) + 1
           /\ \A d \in Calls \ {c} : OnWire(w \cup {<<c, n>>}, d) = OnWire(w, d)
<1>1. OnWire(w \cup {<<c, n>>}, c) = OnWire(w, c) \cup {n}
  BY DEF OnWire
<1>2. \A d \in Calls \ {c} : OnWire(w \cup {<<c, n>>}, d) = OnWire(w, d)
  BY DEF OnWire
<1>3. Cardinality(OnWire(w, c) \cup {n})
        = IF n \in OnWire(w, c) THEN Cardinality(OnWire(w, c)) ELSE Cardinality(OnWire(w, c)) + 1
  BY OnWireFinite, FS_AddElement
<1>4. PICK m \in Nat : m = Cardinality(OnWire(w, c))
  BY OnWireFinite
<1>5. Cardinality(OnWire(w \cup {<<c, n>>}, c)) = IF n \in OnWire(w, c) THEN m ELSE m + 1
  BY <1>1, <1>3, <1>4
<1>6. Cardinality(OnWire(w \cup {<<c, n>>}, c)) <= m + 1
  BY <1>4, <1>5
<1> QED
  BY <1>2, <1>4, <1>6

\* One less when a request leaves the wire.
LEMMA OnWireLess ==
    ASSUME NEW w, NEW c, NEW n \in 0..MaxRetries, <<c, n>> \in w
    PROVE  /\ Cardinality(OnWire(w \ {<<c, n>>}, c)) + 1 = Cardinality(OnWire(w, c))
           /\ \A d \in Calls \ {c} : OnWire(w \ {<<c, n>>}, d) = OnWire(w, d)
<1>1. OnWire(w \ {<<c, n>>}, c) = OnWire(w, c) \ {n} /\ n \in OnWire(w, c)
  BY DEF OnWire
<1>2. \A d \in Calls \ {c} : OnWire(w \ {<<c, n>>}, d) = OnWire(w, d)
  BY DEF OnWire
<1>3. Cardinality(OnWire(w, c) \ {n})
        = IF n \in OnWire(w, c) THEN Cardinality(OnWire(w, c)) - 1 ELSE Cardinality(OnWire(w, c))
  BY OnWireFinite, FS_RemoveElement
<1>4. PICK m \in Nat : m = Cardinality(OnWire(w, c))
  BY OnWireFinite
<1>5. Cardinality(OnWire(w \ {<<c, n>>}, c)) = m - 1
  BY <1>1, <1>3, <1>4
<1>6. Cardinality(OnWire(w \ {<<c, n>>}, c)) + 1 = m
  BY <1>4, <1>5
<1> QED
  BY <1>2, <1>4, <1>6

\* There are not more attempts than the retries allow.
LEMMA MadeBounded ==
    ASSUME NEW a, NEW s, NEW b, CallOK(a, s, b)
    PROVE  Made(s) \in Nat /\ Made(s) <= MaxRetries + 1
<1>1. PICK t : t = s.tried
  OBVIOUS
<1>2. t \in 0..MaxRetries
  BY <1>1 DEF CallOK
<1>3. Made(s) = t \/ Made(s) = t + 1
  BY <1>1 DEF Made
<1> QED
  BY <1>2, <1>3, MaxRetriesNat

-----------------------------------------------------------------------------
\* No call is made yet.
LEMMA InitCallInv == Init => CallInv
<1> SUFFICES ASSUME Init PROVE CallInv
  OBVIOUS
<1>1. IInv
  BY InitIInv
<1>2. asks \in Cases /\ wire = {} /\ wire \subseteq Calls \X (0..MaxRetries)
  BY DEF Init
<1>3. ASSUME NEW c \in Calls
      PROVE  CallOK(asks[c], calls[c], back[c]) /\ ran[c] + Cardinality(OnWire(wire, c)) <= Made(calls[c])
  <2>1. PICK s, a, b : s = calls[c] /\ a = asks[c] /\ b = back[c]
    OBVIOUS
  <2>2. /\ s.at = "new" /\ s.tried = 0 /\ s.end = "none" /\ s.text = <<>> /\ s.cites = 0
        /\ s.decoder = FreshDecoder /\ b = NoResponse /\ ran[c] = 0
    BY <2>1 DEF Init
  <2>3. a.op = "stream" => Streamed(a.tokens, s)
    <3>1. a.tokens \in Seq(Texts)
      BY <1>2, <2>1, TokensTyped
    <3>2. Len(a.tokens) \in Nat /\ <<>> \in Seq(Texts) /\ Len(<<>>) = 0
      BY <3>1, LenProperties, EmptySeq
    <3>3. Yielded(a.tokens, s.text)
      BY <2>2, <3>2 DEF Yielded
    <3> QED
      BY <2>2, <3>3 DEF Streamed
  <2>4. CallOK(a, s, b)
    BY <2>2, <2>3, MaxRetriesNat, NoResponseStatus DEF CallOK, Transient
  <2>5. Cardinality(OnWire(wire, c)) = 0
    <3>1. OnWire(wire, c) = {}
      BY <1>2 DEF OnWire
    <3> QED
      BY <3>1, FS_EmptySet
  <2> QED
    BY <2>1, <2>2, <2>4, <2>5 DEF Made
<1> QED
  BY <1>1, <1>2, <1>3 DEF CallInv

\* A client goes on without sending.
LEMMA GoesCallInv ==
    ASSUME CallInv, IInv', NEW c \in Calls, NEW n, Becomes(c, n), Goes(asks[c], calls[c], n),
           back' = [back EXCEPT ![c] = NoResponse] \/ (back' = back /\ back[c] = NoResponse),
           UNCHANGED <<asks, wire, ran>>
    PROVE  CallInv'
<1>1. DOMAIN calls = Calls /\ DOMAIN back = Calls /\ ran \in [Calls -> Nat]
  BY DEF CallInv, IInv, Shape
<1>2. /\ calls'[c] = n /\ back'[c] = NoResponse
      /\ \A d \in Calls \ {c} : calls'[d] = calls[d] /\ back'[d] = back[d]
  BY <1>1 DEF Becomes
<1>3. \A d \in Calls : CallOK(asks[d], calls[d], back[d])
  BY DEF CallInv
<1>4. \A d \in Calls : CallOK(asks[d], calls'[d], back'[d])
  BY <1>2, <1>3 DEF Goes
<1>5. \A d \in Calls : Made(calls[d]) <= Made(calls'[d]) /\ Made(calls[d]) \in Nat /\ Made(calls'[d]) \in Nat
  <2>1. \A d \in Calls : Made(calls[d]) \in Nat /\ Made(calls'[d]) \in Nat
    BY <1>3, <1>4, MadeBounded
  <2> QED
    BY <1>2, <2>1 DEF Goes
<1>6. ASSUME NEW d \in Calls
      PROVE  ran[d] + Cardinality(OnWire(wire, d)) <= Made(calls'[d])
  <2>1. ran[d] + Cardinality(OnWire(wire, d)) <= Made(calls[d])
    BY DEF CallInv
  <2>2. ran[d] \in Nat /\ Cardinality(OnWire(wire, d)) \in Nat
    BY <1>1, OnWireFinite
  <2> QED
    BY <1>5, <2>1, <2>2
<1> QED
  BY <1>4, <1>6 DEF CallInv

\* A request is sent.
LEMMA SendCallInv ==
    ASSUME CallInv, IInv', NEW c \in Calls, Send(c)
    PROVE  CallInv'
<1>1. DOMAIN calls = Calls /\ ran \in [Calls -> Nat] /\ DOMAIN calls[c] = Fields
  BY DEF CallInv, IInv, Shape
<1>2. /\ calls[c].at = "send" /\ wire' = wire \cup {<<c, calls[c].tried>>}
      /\ UNCHANGED <<asks, back, ran>> /\ Moves(c, "wait")
  BY DEF Send, In
<1>3. PICK t, n : t = calls[c].tried /\ n = [calls[c] EXCEPT !.at = "wait"]
  OBVIOUS
<1>4. \A d \in Calls : CallOK(asks[d], calls[d], back[d])
  BY DEF CallInv
<1>5. t \in 0..MaxRetries /\ calls[c].end = "none" /\ back[c] = NoResponse
  BY <1>2, <1>3, <1>4 DEF CallOK
<1>6. Goes(asks[c], calls[c], n) /\ Made(n) = Made(calls[c]) + 1
  BY <1>1, <1>2, <1>3, <1>4, <1>5, CallMovesOn
<1>7. calls'[c] = n /\ \A d \in Calls \ {c} : calls'[d] = calls[d]
  BY <1>1, <1>2, <1>3 DEF Moves, Becomes
<1>8. \A d \in Calls : CallOK(asks[d], calls'[d], back[d])
  BY <1>4, <1>5, <1>6, <1>7 DEF Goes
<1>9. ASSUME NEW d \in Calls
      PROVE  ran[d] + Cardinality(OnWire(wire', d)) <= Made(calls'[d])
  <2>1. ran[d] + Cardinality(OnWire(wire, d)) <= Made(calls[d])
    BY DEF CallInv
  <2>2. ran[d] \in Nat /\ Cardinality(OnWire(wire, d)) \in Nat /\ Cardinality(OnWire(wire', d)) \in Nat
    BY <1>1, OnWireFinite
  <2>3. Made(calls[d]) \in Nat
    BY <1>4, MadeBounded
  <2>4. wire' = wire \cup {<<c, t>>}
    BY <1>2, <1>3
  <2>5. CASE d = c
    <3>1. Cardinality(OnWire(wire', c)) <= Cardinality(OnWire(wire, c)) + 1
      BY <1>5, <2>4, OnWireMore
    <3> QED
      BY <1>6, <1>7, <2>1, <2>2, <2>3, <2>5, <3>1
  <2>6. CASE d # c
    <3>1. OnWire(wire', d) = OnWire(wire, d)
      <4>1. \A e \in Calls \ {c} : OnWire(wire \cup {<<c, t>>}, e) = OnWire(wire, e)
        BY DEF OnWire
      <4> QED
        BY <2>4, <2>6, <4>1
    <3> QED
      BY <1>7, <2>1, <2>6, <3>1
  <2> QED
    BY <2>5, <2>6
<1>10. wire' \subseteq Calls \X (0..MaxRetries)
  BY <1>2, <1>3, <1>5 DEF CallInv
<1> QED
  BY <1>2, <1>8, <1>9, <1>10 DEF CallInv

\* A request leaves the wire, and perhaps takes effect, and perhaps is answered.
LEMMA ArrivesCallInv ==
    ASSUME CallInv, IInv', NEW c \in Calls, NEW n \in 0..MaxRetries, <<c, n>> \in wire,
           wire' = wire \ {<<c, n>>}, UNCHANGED <<asks, calls>>,
           ran' = ran \/ ran' = [ran EXCEPT ![c] = @ + 1],
           \A d \in Calls : CallOK(asks[d], calls[d], back'[d])
    PROVE  CallInv'
<1>1. ran \in [Calls -> Nat]
  BY DEF CallInv, IInv, Shape
<1>2. /\ ran'[c] = ran[c] \/ ran'[c] = ran[c] + 1
      /\ \A d \in Calls \ {c} : ran'[d] = ran[d]
  BY <1>1
<1>3. ASSUME NEW d \in Calls
      PROVE  ran'[d] + Cardinality(OnWire(wire', d)) <= Made(calls[d])
  <2>1. ran[d] + Cardinality(OnWire(wire, d)) <= Made(calls[d])
    BY DEF CallInv
  <2>2. ran[d] \in Nat /\ Cardinality(OnWire(wire, d)) \in Nat /\ Cardinality(OnWire(wire', d)) \in Nat
    BY <1>1, OnWireFinite
  <2>3. Made(calls[d]) \in Nat
    BY MadeBounded DEF CallInv
  <2>4. CASE d = c
    <3>1. Cardinality(OnWire(wire', c)) + 1 = Cardinality(OnWire(wire, c))
      BY OnWireLess
    <3> QED
      BY <1>2, <2>1, <2>2, <2>3, <2>4, <3>1
  <2>5. CASE d # c
    <3>1. OnWire(wire', d) = OnWire(wire, d)
      BY <2>5, OnWireLess
    <3> QED
      BY <1>2, <2>1, <2>5, <3>1
  <2> QED
    BY <2>4, <2>5
<1>4. wire' \subseteq Calls \X (0..MaxRetries)
  BY DEF CallInv
<1> QED
  BY <1>3, <1>4 DEF CallInv

\* A response of the service is one that the call understands.
LEMMA AnswersCallOK ==
    ASSUME CallInv, NEW c \in Calls, NEW n, NEW response, Answers(c, n, response),
           asks[c].op = "stream" /\ response.status = "ok" => response.body \in Bodies(c)
    PROVE  \A d \in Calls : CallOK(asks[d], calls[d], back'[d])
<1>1. DOMAIN back = Calls /\ \A d \in Calls : CallOK(asks[d], calls[d], back[d])
  BY DEF CallInv, IInv, Shape
<1>2. CASE back' = back
  BY <1>1, <1>2
<1>3. CASE calls[c].at = "wait" /\ back' = [back EXCEPT ![c] = response]
  <2>1. ASSUME NEW a, NEW s, NEW b, CallOK(a, s, b), s.at = "wait", NEW r,
               a.op = "stream" /\ r.status = "ok" =>
                 r.body \in {EventSource(a.tokens, Len(a.tokens), FALSE), Unterminated(a.tokens)}
                              \cup {EventSource(a.tokens, k, TRUE) : k \in 1..Len(a.tokens)}
        PROVE  CallOK(a, s, r)
    BY <2>1 DEF CallOK
  <2>2. asks[c].op = "stream" /\ response.status = "ok" =>
          response.body \in {EventSource(asks[c].tokens, Len(asks[c].tokens), FALSE), Unterminated(asks[c].tokens)}
                              \cup {EventSource(asks[c].tokens, k, TRUE) : k \in 1..Len(asks[c].tokens)}
    BY DEF Bodies
  <2>3. CallOK(asks[c], calls[c], response)
    BY <1>1, <1>3, <2>1, <2>2
  <2>4. back'[c] = response /\ \A d \in Calls \ {c} : back'[d] = back[d]
    BY <1>1, <1>3
  <2> QED
    BY <1>1, <2>3, <2>4
<1> QED
  BY <1>2, <1>3 DEF Answers, In

\* The server takes a request.
LEMMA ServeCallInv ==
    ASSUME CallInv, IInv', NEW c \in Calls, NEW n \in 0..MaxRetries, Serve(c, n)
    PROVE  CallInv'
<1>1. /\ <<c, n>> \in wire /\ wire' = wire \ {<<c, n>>} /\ UNCHANGED <<asks, calls>>
      /\ ran' = ran \/ ran' = [ran EXCEPT ![c] = @ + 1]
  BY DEF Serve
<1>2. \E response : /\ Answers(c, n, response)
                    /\ asks[c].op = "stream" /\ response.status = "ok" => response.body \in Bodies(c)
  <2>1. ASSUME NEW v \in {"server", "client"}, Answers(c, n, [status |-> v])
        PROVE  \E response : /\ Answers(c, n, response)
                             /\ asks[c].op = "stream" /\ response.status = "ok" => response.body \in Bodies(c)
    <3>1. PICK r : r = [status |-> v]
      OBVIOUS
    <3>2. r.status # "ok"
      BY <3>1
    <3> QED
      BY <2>1, <3>1, <3>2
  <2>2. ASSUME NEW v, Answers(c, n, [status |-> v]), asks[c].op # "stream"
        PROVE  \E response : /\ Answers(c, n, response)
                             /\ asks[c].op = "stream" /\ response.status = "ok" => response.body \in Bodies(c)
    BY <2>2
  <2>3. ASSUME NEW body \in Bodies(c), Answers(c, n, [status |-> "ok", body |-> body])
        PROVE  \E response : /\ Answers(c, n, response)
                             /\ asks[c].op = "stream" /\ response.status = "ok" => response.body \in Bodies(c)
    <3>1. PICK r : r = [status |-> "ok", body |-> body]
      OBVIOUS
    <3>2. r.body = body
      BY <3>1
    <3> QED
      BY <2>3, <3>1, <3>2
  <2>4. \/ \E v \in {"server", "client"} : Answers(c, n, [status |-> v])
        \/ asks[c].op # "stream" /\ \E v : Answers(c, n, [status |-> v])
        \/ \E body \in Bodies(c) : Answers(c, n, [status |-> "ok", body |-> body])
    BY DEF Serve
  <2> QED
    BY <2>1, <2>2, <2>3, <2>4
<1>3. \A d \in Calls : CallOK(asks[d], calls[d], back'[d])
  BY <1>2, AnswersCallOK
<1> QED
  BY <1>1, <1>3, ArrivesCallInv

\* A request is lost.
LEMMA LoseCallInv ==
    ASSUME CallInv, IInv', NEW c \in Calls, NEW n \in 0..MaxRetries, Lose(c, n)
    PROVE  CallInv'
<1>1. /\ <<c, n>> \in wire /\ wire' = wire \ {<<c, n>>} /\ UNCHANGED <<asks, calls, back, ran>>
  BY DEF Lose
<1>2. \A d \in Calls : CallOK(asks[d], calls[d], back'[d])
  BY <1>1 DEF CallInv
<1> QED
  BY <1>1, <1>2, ArrivesCallInv

\* The steps together.
LEMMA NextCallInv ==
    ASSUME SentinelFree
    PROVE  CallInv /\ [Next]_vars => CallInv'
<1> SUFFICES ASSUME CallInv, [Next]_vars PROVE CallInv'
  OBVIOUS
<1>1. IInv'
  BY NextIInv DEF CallInv
<1>2. CASE UNCHANGED vars
  <2>1. UNCHANGED <<asks, calls, wire, back, ran>>
    BY <1>2 DEF vars
  <2> QED
    BY <1>1, <2>1 DEF CallInv
<1>3. ASSUME NEW c \in Calls, Client(c) PROVE CallInv'
  <2>1. CASE Send(c)
    BY <1>1, <2>1, SendCallInv
  <2>2. CASE ~Send(c)
    BY <1>1, <1>3, <2>2, ClientGoes, GoesCallInv
  <2> QED
    BY <2>1, <2>2
<1>4. ASSUME NEW c \in Calls, NEW n \in 0..MaxRetries, Serve(c, n) \/ Lose(c, n) PROVE CallInv'
  BY <1>1, <1>4, ServeCallInv, LoseCallInv
<1> QED
  BY <1>2, <1>3, <1>4 DEF Next

-----------------------------------------------------------------------------
\* What was yielded is the beginning of the answer, and all of it when as long.
LEMMA YieldedPrefix ==
    ASSUME NEW T \in Seq(Texts), NEW text, Yielded(T, text)
    PROVE  IsPrefix(text, T) /\ (Len(text) = Len(T) => text = T)
<1>1. /\ text \in Seq(Texts) /\ Len(text) \in Nat /\ Len(T) \in Nat /\ Len(text) <= Len(T)
      /\ \A i \in 1..Len(text) : text[i] = T[i]
  BY LenProperties DEF Yielded
<1>2. PICK n \in Nat : n = Len(text)
  BY <1>1
<1>3. PICK u : u = SubSeq(T, 1, n)
  OBVIOUS
<1>4. u \in Seq(Texts) /\ Len(u) = n /\ \A i \in 1..n : u[i] = T[i]
  <2>1. \A i \in 1..n : T[i] \in Texts
    BY <1>1, <1>2, ElementOfSeq
  <2>2. /\ SubSeq(T, 1, n) \in Seq(Texts)
        /\ Len(SubSeq(T, 1, n)) = IF 1 <= n THEN n - 1 + 1 ELSE 0
        /\ \A i \in 1..(n - 1 + 1) : SubSeq(T, 1, n)[i] = T[1 + i - 1]
    BY <2>1, SubSeqProperties
  <2>3. n - 1 + 1 = n /\ (IF 1 <= n THEN n - 1 + 1 ELSE 0) = n /\ \A i \in 1..n : 1 + i - 1 = i
    OBVIOUS
  <2> QED
    BY <1>3, <2>2, <2>3
<1>5. u = text
  BY <1>1, <1>2, <1>4, SeqEqual
<1>6. SubSeq(text, 1, n) = text
  BY <1>1, <1>2, SubSeqFull
<1>7. IsPrefix(text, T)
  BY <1>1, <1>2, <1>3, <1>5, <1>6 DEF IsPrefix
<1>8. Len(text) = Len(T) => text = T
  BY <1>1, SeqEqual
<1> QED
  BY <1>7, <1>8

\* The invariant says what is promised.
LEMMA CallInvWhole == CallInv => AnswerIsWhole
<1> SUFFICES ASSUME CallInv PROVE AnswerIsWhole
  OBVIOUS
<1>1. \A c \in Calls : CallOK(asks[c], calls[c], back[c])
  BY DEF CallInv
<1>2. ran \in [Calls -> Nat] /\ wire \subseteq Calls \X (0..MaxRetries)
  BY DEF CallInv, IInv, Shape
<1>3. ran \in [Calls -> 0..MaxRetries + 1]
  <2>1. ASSUME NEW c \in Calls PROVE ran[c] <= MaxRetries + 1
    <3>1. ran[c] \in Nat /\ Cardinality(OnWire(wire, c)) \in Nat
      BY <1>2, OnWireFinite
    <3>2. ran[c] + Cardinality(OnWire(wire, c)) <= Made(calls[c])
      BY DEF CallInv
    <3>3. Made(calls[c]) \in Nat /\ Made(calls[c]) <= MaxRetries + 1
      BY <1>1, MadeBounded
    <3> QED
      BY <3>1, <3>2, <3>3, MaxRetriesNat
  <2> QED
    BY <1>2, <2>1, MaxRetriesNat
<1>4. ASSUME NEW c \in Calls
      PROVE  /\ calls[c].at \in {"new", "send", "wait", "sleep", "stream", "ended", "reported"}
             /\ calls[c].tried \in 0..MaxRetries
             /\ calls[c].cites \in 0..1
             /\ (calls[c].end = "none") = (calls[c].at \notin {"ended", "reported"})
             /\ back[c] # NoResponse => In(c, "wait")
  <2>1. PICK a, s, b : a = asks[c] /\ s = calls[c] /\ b = back[c]
    OBVIOUS
  <2>2. CallOK(a, s, b)
    BY <1>1, <2>1
  <2>3. s.cites \in 0..1
    BY <2>2 DEF CallOK, Streamed
  <2> QED
    BY <2>1, <2>2, <2>3 DEF CallOK, In
<1>5. TypeOK
  BY <1>2, <1>3, <1>4 DEF TypeOK
<1>6. TokensInOrder /\ ReturnedIsWhole
  <2>1. ASSUME NEW c \in Calls, asks[c].op = "stream"
        PROVE  /\ IsPrefix(calls[c].text, asks[c].tokens)
               /\ calls[c].end = "answered" => calls[c].text = asks[c].tokens /\ calls[c].cites = 1
    <3>1. Streamed(asks[c].tokens, calls[c])
      BY <1>1, <2>1 DEF CallOK
    <3>2. asks[c].tokens \in Seq(Texts)
      BY TokensTyped DEF CallInv
    <3> QED
      BY <3>1, <3>2, YieldedPrefix DEF Streamed
  <2> QED
    BY <2>1 DEF TokensInOrder, ReturnedIsWhole
<1>7. RetriesUsedUp
  BY <1>1 DEF RetriesUsedUp, CallOK
<1> QED
  BY <1>5, <1>6, <1>7 DEF AnswerIsWhole

\* Whatever the network does and wherever a stream breaks: what was yielded is
\* the beginning of the answer, what is returned is all of it with its citation,
\* and a transient failure of an idempotent call is raised after all its retries
\* (SSEDecoder, stream_ask, _request_with_retries).  SentinelFree excludes the
\* token that the protocol itself cannot tell from its end.
THEOREM SpecAnswerIsWhole ==
    ASSUME SentinelFree
    PROVE  Spec => []AnswerIsWhole
<1>1. Init => CallInv
  BY InitCallInv
<1>2. CallInv /\ [Next]_vars => CallInv'
  BY NextCallInv
<1>3. CallInv => AnswerIsWhole
  BY CallInvWhole
<1> QED
  BY <1>1, <1>2, <1>3, PTL DEF Spec

-----------------------------------------------------------------------------
(* The console. *)

\* The fields of a hook, of the run list and of a card.
HookFields == {"data", "error", "loading", "latest"}
RunsFields == {"data", "error", "initial", "latest", "trigger", "reload"}
CardFields == {"typed", "checked", "busy", "shown", "since"}

\* Requests have numbers of their own, up to n.
Numbered(cs, n) ==
    /\ \A c \in cs : c.no \in Nat /\ c.no >= 1 /\ c.no <= n
    /\ \A c, d \in cs : c.no = d.no => c = d

\* A hook after n requests: when it is not loading, it has the answer to its newest.
HookOK(hook, n) ==
    /\ DOMAIN hook = HookFields /\ hook.loading \in BOOLEAN
    /\ hook.latest \in Nat /\ hook.latest <= n
    /\ hook.data.no \in Nat /\ hook.data.no <= n
    /\ hook.latest # 0 /\ ~hook.loading => hook.latest \in {hook.data.no, hook.error.no}

\* A request c is for the scope and, where there is one, the document.
Wanted(c, kind, tg, doc) == c.tag = tg /\ (kind = "detail" => c.doc = doc)

\* What a hook shows when it does not load was asked for the scope and the document it
\* stands under, and so is its newest request, if it is among cs.
Shows(hook, kind, cs, tg, doc) ==
    /\ ~hook.loading /\ hook.data # Nothing => Wanted(hook.data, kind, tg, doc)
    /\ \A c \in cs : c.kind = kind /\ c.no = hook.latest => Wanted(c, kind, tg, doc)

\* The run list shows an answer older than its newest request, while that is out.
RunsOK(state, cs, n) ==
    /\ DOMAIN state = RunsFields
    /\ state.latest \in Nat /\ state.latest <= n
    /\ state.data.no \in Nat /\ state.data.no <= state.latest
    /\ state.trigger \in {"idle", "posting", "reloading"}
    /\ state.trigger = "posting" => \E c \in cs : c.kind = "trigger"
    /\ state.trigger = "reloading" => \E c \in cs : c.kind = "runs" /\ c.no = state.reload
    /\ \A c \in cs : c.kind = "runs" /\ c.no = state.latest => state.data.no < state.latest

\* A card has a request out when it is busy, and one only; what is typed was typed since
\* the scope changed last.
CardOK(card, kind, cs, v) ==
    /\ DOMAIN card = CardFields /\ card.busy \in BOOLEAN
    /\ card.typed # None => card.since = v
    /\ ~card.busy => \A c \in cs : c.kind # kind
    /\ \A c, d \in cs : c.kind = kind /\ d.kind = kind => c = d

\* Both cards, of one document and of a tenant.
CardsOK(cds, cs, v) ==
    DOMAIN cds = {"document", "tenant"} /\ \A kind \in DOMAIN cds : CardOK(cds[kind], kind, cs, v)

\* A page without a hook of its own has nothing listed.
Unhooked(l, cs) == l = Idle /\ \A c \in cs : c.kind # "list"

\* What holds of the page in every state.
PageInv ==
    /\ tab \in Pages /\ tag \in Tags /\ server \in Servers \cup {None} /\ sent \in Nat
    /\ Numbered(pending, sent)
    /\ HookOK(list, sent) /\ Shows(list, "list", pending, tag, None)
    /\ HookOK(detail, sent) /\ Shows(detail, "detail", pending, tag, selected)
    /\ RunsOK(runs, pending, sent)
    /\ CardsOK(cards, pending, visit)
    /\ server = None => pending = {}
    /\ ~Hooked(tab) => Unhooked(list, pending)

-----------------------------------------------------------------------------
\* The fields of what is made of a hook.
LEMMA RerunFields ==
    ASSUME NEW hook, DOMAIN hook = HookFields, NEW no, NEW h, h = Rerun(hook, no)
    PROVE  /\ DOMAIN h = HookFields /\ h.data = hook.data /\ h.error = Nothing
           /\ h.loading \in BOOLEAN /\ h.loading /\ h.latest = no
BY DEF Rerun, HookFields

\* The fields of an idle hook.
LEMMA IdleFields ==
    /\ DOMAIN Idle = HookFields /\ Idle.data = Nothing /\ Idle.error = Nothing
    /\ Idle.loading \in BOOLEAN /\ ~Idle.loading /\ Idle.latest = 0 /\ Nothing.no = 0
BY DEF Idle, HookFields, Nothing

\* The fields of a request.
LEMMA CallFields ==
    ASSUME NEW kind, NEW no, NEW tg, NEW srv, NEW doc, NEW c, c = Call(kind, no, tg, srv, doc)
    PROVE  c.kind = kind /\ c.no = no /\ c.tag = tg /\ c.server = srv /\ c.doc = doc
BY DEF Call

\* A hook that idles.
LEMMA IdleOK ==
    ASSUME NEW n \in Nat, NEW cs, Numbered(cs, n), NEW kind, NEW tg, NEW doc
    PROVE  HookOK(Idle, n) /\ Shows(Idle, kind, cs, tg, doc)
<1>1. \A c \in cs : c.no # 0
  BY DEF Numbered
<1>2. HookOK(Idle, n)
  <2>1. Idle.data.no = 0 /\ Idle.latest = 0
    BY IdleFields
  <2> QED
    BY <2>1, IdleFields DEF HookOK
<1>3. Shows(Idle, kind, cs, tg, doc)
  BY <1>1, IdleFields DEF Shows
<1> QED
  BY <1>2, <1>3

\* A hook that asks again, with the next number.
LEMMA RerunOK ==
    ASSUME NEW n \in Nat, NEW hook, HookOK(hook, n), NEW m \in Nat, n + 1 <= m,
           NEW cs, NEW kind, NEW tg, NEW doc,
           \A c \in cs : c.kind = kind /\ c.no = n + 1 => Wanted(c, kind, tg, doc)
    PROVE  HookOK(Rerun(hook, n + 1), m) /\ Shows(Rerun(hook, n + 1), kind, cs, tg, doc)
<1>1. PICK h : h = Rerun(hook, n + 1)
  OBVIOUS
<1>2. PICK no \in Nat : no = n + 1
  OBVIOUS
<1>3. /\ DOMAIN h = HookFields /\ h.data = hook.data
      /\ h.loading \in BOOLEAN /\ h.loading /\ h.latest = no
  <2>1. h = Rerun(hook, no) /\ DOMAIN hook = HookFields
    BY <1>1, <1>2 DEF HookOK
  <2> QED
    BY <2>1, RerunFields
<1>4. hook.data.no \in Nat /\ hook.data.no <= n
  BY DEF HookOK
<1>5. HookOK(h, m)
  <2>1. h.data.no \in Nat /\ h.data.no <= m /\ h.latest \in Nat /\ h.latest <= m
    BY <1>2, <1>3, <1>4
  <2> QED
    BY <1>3, <2>1 DEF HookOK
<1>6. Shows(h, kind, cs, tg, doc)
  BY <1>2, <1>3 DEF Shows
<1> QED
  BY <1>1, <1>5, <1>6

\* A hook nobody asks of, while other requests come and go.
LEMMA HookKeeps ==
    ASSUME NEW n \in Nat, NEW m \in Nat, n <= m, NEW hook, HookOK(hook, n),
           NEW cs, NEW cs2, NEW kind, NEW tg, NEW doc, Shows(hook, kind, cs, tg, doc),
           \A c \in cs2 : c \in cs \/ c.kind # kind
    PROVE  HookOK(hook, m) /\ Shows(hook, kind, cs2, tg, doc)
<1>1. HookOK(hook, m)
  BY DEF HookOK
<1>2. Shows(hook, kind, cs2, tg, doc)
  BY DEF Shows
<1> QED
  BY <1>1, <1>2

\* A hook that is answered.
LEMMA SettleOK ==
    ASSUME NEW n \in Nat, NEW hook, HookOK(hook, n), NEW cs, Numbered(cs, n),
           NEW kind, NEW tg, NEW doc, Shows(hook, kind, cs, tg, doc),
           NEW c \in cs, c.kind = kind, NEW ok \in BOOLEAN
    PROVE  HookOK(Settle(hook, c, ok), n) /\ Shows(Settle(hook, c, ok), kind, cs \ {c}, tg, doc)
<1>1. PICK h : h = Settle(hook, c, ok)
  OBVIOUS
<1>2. CASE hook.latest # c.no
  <2>1. h = hook
    BY <1>1, <1>2 DEF Settle
  <2> QED
    BY <1>1, <2>1, HookKeeps
<1>3. CASE hook.latest = c.no
  <2>1. /\ DOMAIN h = HookFields /\ h.latest = hook.latest /\ h.loading = FALSE
        /\ h.data = IF ok THEN c ELSE Nothing
        /\ h.error = IF ok THEN Nothing ELSE c
    BY <1>1, <1>3 DEF Settle, HookOK, HookFields
  <2>2. c.no \in Nat /\ c.no <= n
    BY DEF Numbered
  <2>3. Wanted(c, kind, tg, doc)
    BY <1>3 DEF Shows
  <2>4. HookOK(h, n)
    <3>1. h.data.no \in Nat /\ h.data.no <= n
      BY <2>1, <2>2, IdleFields
    <3>2. h.latest \in {h.data.no, h.error.no}
      BY <1>3, <2>1
    <3> QED
      BY <1>3, <2>1, <2>2, <3>1, <3>2 DEF HookOK
  <2>5. Shows(h, kind, cs \ {c}, tg, doc)
    <3>1. h.data # Nothing => Wanted(h.data, kind, tg, doc)
      BY <2>1, <2>3
    <3>2. \A d \in cs \ {c} : d.kind = kind /\ d.no = h.latest => Wanted(d, kind, tg, doc)
      BY <2>1 DEF Shows
    <3> QED
      BY <3>1, <3>2 DEF Shows
  <2> QED
    BY <1>1, <2>4, <2>5
<1> QED
  BY <1>2, <1>3

-----------------------------------------------------------------------------
\* A request more, with the next number, and perhaps some fewer.
LEMMA NumberedMore ==
    ASSUME NEW n \in Nat, NEW cs, Numbered(cs, n), NEW c, c.no = n + 1, NEW cs2,
           \A d \in cs2 : d \in cs \/ d = c
    PROVE  Numbered(cs2, n + 1)
BY DEF Numbered

\* Fewer requests.
LEMMA NumberedFewer ==
    ASSUME NEW n \in Nat, NEW m \in Nat, n <= m, NEW cs, Numbered(cs, n), NEW cs2,
           \A d \in cs2 : d \in cs
    PROVE  Numbered(cs2, m)
BY DEF Numbered

\* The run list, while requests of other kinds come and go.
LEMMA RunsKeep ==
    ASSUME NEW n \in Nat, NEW m \in Nat, n <= m, NEW s, NEW cs, RunsOK(s, cs, n), NEW cs2,
           \A c \in cs2 : c \in cs \/ c.kind # "runs",
           \A c \in cs : c \in cs2 \/ c.kind \notin {"runs", "trigger"}
    PROVE  RunsOK(s, cs2, m)
<1>1. s.trigger = "posting" => \E c \in cs2 : c.kind = "trigger"
  BY DEF RunsOK
<1>2. s.trigger = "reloading" => \E c \in cs2 : c.kind = "runs" /\ c.no = s.reload
  BY DEF RunsOK
<1>3. \A c \in cs2 : c.kind = "runs" /\ c.no = s.latest => s.data.no < s.latest
  BY DEF RunsOK
<1>4. s.latest \in Nat /\ s.latest <= m
  BY DEF RunsOK
<1> QED
  BY <1>1, <1>2, <1>3, <1>4 DEF RunsOK

\* The run list asks again.
LEMMA RunsAsk ==
    ASSUME NEW n \in Nat, NEW s, NEW cs, RunsOK(s, cs, n), NEW cs2,
           \A c \in cs : c \in cs2 \/ c.kind \notin {"runs", "trigger"}
    PROVE  RunsOK([s EXCEPT !.latest = n + 1], cs2, n + 1)
<1>1. PICK no \in Nat : no = n + 1
  OBVIOUS
<1>2. PICK s2 : s2 = [s EXCEPT !.latest = no]
  OBVIOUS
<1>3. /\ DOMAIN s2 = RunsFields /\ s2.latest = no /\ s2.data = s.data
      /\ s2.trigger = s.trigger /\ s2.reload = s.reload
  BY <1>2 DEF RunsOK, RunsFields
<1>4. s.data.no \in Nat /\ s.data.no < no
  BY <1>1 DEF RunsOK
<1>5. s.trigger = "posting" => \E c \in cs2 : c.kind = "trigger"
  BY DEF RunsOK
<1>6. s.trigger = "reloading" => \E c \in cs2 : c.kind = "runs" /\ c.no = s.reload
  BY DEF RunsOK
<1>7. s.trigger \in {"idle", "posting", "reloading"}
  BY DEF RunsOK
<1>8. RunsOK(s2, cs2, no)
  BY <1>3, <1>4, <1>5, <1>6, <1>7 DEF RunsOK
<1> QED
  BY <1>1, <1>2, <1>8

\* A trigger changes its state.
LEMMA RunsTrigger ==
    ASSUME NEW n \in Nat, NEW s, NEW cs, RunsOK(s, cs, n), NEW cs2, NEW m \in Nat, n <= m,
           NEW tr \in {"idle", "posting", "reloading"},
           \A c \in cs2 : c \in cs \/ c.kind # "runs",
           tr = "posting" => \E c \in cs2 : c.kind = "trigger",
           tr # "reloading"
    PROVE  RunsOK([s EXCEPT !.trigger = tr], cs2, m)
<1>1. PICK s2 : s2 = [s EXCEPT !.trigger = tr]
  OBVIOUS
<1>2. /\ DOMAIN s2 = RunsFields /\ s2.latest = s.latest /\ s2.data = s.data
      /\ s2.trigger = tr
  BY <1>1 DEF RunsOK, RunsFields
<1>3. \A c \in cs2 : c.kind = "runs" /\ c.no = s.latest => s.data.no < s.latest
  BY DEF RunsOK
<1>4. s.latest \in Nat /\ s.latest <= m /\ s.data.no \in Nat /\ s.data.no <= s.latest
  BY DEF RunsOK
<1>5. RunsOK(s2, cs2, m)
  BY <1>2, <1>3, <1>4 DEF RunsOK
<1> QED
  BY <1>1, <1>5

\* An accepted trigger reloads the list.
LEMMA RunsReload ==
    ASSUME NEW n \in Nat, NEW s, NEW cs, RunsOK(s, cs, n), NEW cs2, NEW e \in cs2,
           e.kind = "runs", e.no = n + 1
    PROVE  RunsOK([s EXCEPT !.trigger = "reloading", !.reload = n + 1, !.latest = n + 1], cs2, n + 1)
<1>1. PICK no \in Nat : no = n + 1
  OBVIOUS
<1>2. PICK s2 : s2 = [s EXCEPT !.trigger = "reloading", !.reload = no, !.latest = no]
  OBVIOUS
<1>3. /\ DOMAIN s2 = RunsFields /\ s2.latest = no /\ s2.data = s.data
      /\ s2.trigger = "reloading" /\ s2.reload = no
  BY <1>2 DEF RunsOK, RunsFields
<1>4. s.data.no \in Nat /\ s.data.no < no
  BY <1>1 DEF RunsOK
<1>5. e.no = no
  BY <1>1
<1>6. RunsOK(s2, cs2, no)
  BY <1>3, <1>4, <1>5 DEF RunsOK
<1> QED
  BY <1>1, <1>2, <1>6

\* The run list is answered.
LEMMA RunsSettle ==
    ASSUME NEW n \in Nat, NEW s, NEW cs, Numbered(cs, n), RunsOK(s, cs, n), NEW call \in cs,
           call.kind = "runs", NEW ok \in BOOLEAN, NEW s2, s2 = Ended(SettleRuns(s, call, ok), call)
    PROVE  RunsOK(s2, cs \ {call}, n) /\ (s2.data = s.data \/ s2.data.no > s.data.no)
<1>1. PICK s1 : s1 = SettleRuns(s, call, ok)
  OBVIOUS
<1>2. DOMAIN s = RunsFields
  BY DEF RunsOK
<1>3. /\ DOMAIN s1 = RunsFields /\ s1.latest = s.latest
      /\ s1.trigger = s.trigger /\ s1.reload = s.reload
      /\ s1.data = s.data \/ (s1.data = call /\ s.latest = call.no)
  BY <1>1, <1>2 DEF SettleRuns, RunsFields
<1>4. s2 = IF s1.trigger = "reloading" /\ s1.reload = call.no THEN [s1 EXCEPT !.trigger = "idle"] ELSE s1
  BY <1>1 DEF Ended
<1>5. /\ DOMAIN s2 = RunsFields /\ s2.latest = s.latest /\ s2.data = s1.data
      /\ \/ s2.trigger = "idle"
         \/ s2.trigger = s.trigger /\ s2.reload = s.reload
            /\ (s.trigger = "reloading" => s.reload # call.no)
  BY <1>3, <1>4 DEF RunsFields
<1>6. /\ call.no \in Nat /\ s.latest \in Nat /\ s.latest <= n
      /\ s.data.no \in Nat /\ s.data.no <= s.latest
      /\ call.no = s.latest => s.data.no < s.latest
      /\ s.trigger \in {"idle", "posting", "reloading"}
  BY DEF RunsOK, Numbered
<1>7. s2.data = s.data \/ (s2.data = call /\ s.latest = call.no)
  BY <1>3, <1>5
<1>8. s2.data.no \in Nat /\ s2.data.no <= s.latest /\ (s2.data = s.data \/ s2.data.no > s.data.no)
  BY <1>6, <1>7
<1>9. s2.trigger = "posting" => \E c \in cs \ {call} : c.kind = "trigger"
  BY <1>5 DEF RunsOK
<1>10. s2.trigger = "reloading" => \E c \in cs \ {call} : c.kind = "runs" /\ c.no = s2.reload
  BY <1>5 DEF RunsOK
<1>11. ASSUME NEW c \in cs \ {call}, c.kind = "runs", c.no = s.latest
       PROVE  s2.data.no < s.latest
  <2>1. c.no # call.no
    BY DEF Numbered
  <2>2. s2.data = s.data
    BY <1>7, <1>11, <2>1
  <2> QED
    BY <1>11, <2>2 DEF RunsOK
<1>12. s2.trigger \in {"idle", "posting", "reloading"}
  BY <1>5, <1>6
<1> QED
  BY <1>5, <1>6, <1>8, <1>9, <1>10, <1>11, <1>12 DEF RunsOK

\* A run list that has just been mounted.
LEMMA RunsFresh ==
    ASSUME NEW n \in Nat, NEW cs, Numbered(cs, n)
    PROVE  /\ RunsOK(NoRuns, cs, n)
           /\ \A no \in Nat : no <= n => RunsOK([NoRuns EXCEPT !.latest = no], cs, n)
<1>1. /\ DOMAIN NoRuns = RunsFields /\ NoRuns.latest = 0 /\ NoRuns.data.no = 0
      /\ NoRuns.trigger = "idle"
  BY DEF NoRuns, RunsFields, Nothing
<1>2. \A c \in cs : c.no \in Nat /\ c.no >= 1
  BY DEF Numbered
<1>3. RunsOK(NoRuns, cs, n)
  BY <1>1, <1>2 DEF RunsOK
<1>4. ASSUME NEW no \in Nat, no <= n PROVE RunsOK([NoRuns EXCEPT !.latest = no], cs, n)
  <2>1. PICK s : s = [NoRuns EXCEPT !.latest = no]
    OBVIOUS
  <2>2. DOMAIN s = RunsFields /\ s.latest = no /\ s.data.no = 0 /\ s.trigger = "idle"
    BY <1>1, <2>1 DEF RunsFields
  <2>3. \A c \in cs : c.no = no => 0 < no
    BY <1>2
  <2>4. RunsOK(s, cs, n)
    BY <1>4, <2>2, <2>3 DEF RunsOK
  <2> QED
    BY <2>1, <2>4
<1> QED
  BY <1>3, <1>4

-----------------------------------------------------------------------------
\* The cards, while requests of other kinds come and go.
LEMMA CardsKeep ==
    ASSUME NEW cds, NEW cs, NEW v, CardsOK(cds, cs, v), NEW cs2,
           \A c \in cs2 : c \in cs \/ c.kind \notin {"document", "tenant"}
    PROVE  CardsOK(cds, cs2, v)
<1>1. ASSUME NEW kind \in {"document", "tenant"} PROVE CardOK(cds[kind], kind, cs2, v)
  <2>1. CardOK(cds[kind], kind, cs, v)
    BY DEF CardsOK
  <2>2. \A c \in cs2 : c.kind = kind => c \in cs
    OBVIOUS
  <2> QED
    BY <2>1, <2>2 DEF CardOK
<1> QED
  BY <1>1 DEF CardsOK

\* Cards that were just mounted.
LEMMA CardsFresh ==
    ASSUME NEW cs, \A c \in cs : c.kind \notin {"document", "tenant"}, NEW v
    PROVE  CardsOK(FreshCards, cs, v)
<1>1. PICK card : card = NewCard
  OBVIOUS
<1>2. DOMAIN card = CardFields /\ card.busy \in BOOLEAN /\ ~card.busy /\ card.typed = None
  BY <1>1 DEF NewCard, CardFields
<1>3. \A kind \in {"document", "tenant"} : CardOK(card, kind, cs, v)
  BY <1>2 DEF CardOK
<1>4. DOMAIN FreshCards = {"document", "tenant"} /\ \A kind \in {"document", "tenant"} : FreshCards[kind] = card
  BY <1>1 DEF FreshCards
<1> QED
  BY <1>3, <1>4 DEF CardsOK

\* One card changes, of which there is at most one request when it is busy.
LEMMA CardChanges ==
    ASSUME NEW cds, NEW cs, NEW v, CardsOK(cds, cs, v), NEW kind \in {"document", "tenant"},
           NEW card, NEW cs2, CardOK(card, kind, cs2, v),
           \A c \in cs2 : c \in cs \/ c.kind = kind
    PROVE  CardsOK([cds EXCEPT ![kind] = card], cs2, v)
<1>1. PICK cds2 : cds2 = [cds EXCEPT ![kind] = card]
  OBVIOUS
<1>2. DOMAIN cds2 = {"document", "tenant"} /\ cds2[kind] = card
      /\ \A k \in {"document", "tenant"} \ {kind} : cds2[k] = cds[k]
  BY <1>1 DEF CardsOK
<1>3. ASSUME NEW k \in {"document", "tenant"}, k # kind PROVE CardOK(cds[k], k, cs2, v)
  <2>1. CardOK(cds[k], k, cs, v)
    BY DEF CardsOK
  <2>2. \A c \in cs2 : c.kind = k => c \in cs
    BY <1>3
  <2> QED
    BY <2>1, <2>2 DEF CardOK
<1>4. CardsOK(cds2, cs2, v)
  BY <1>2, <1>3 DEF CardsOK
<1> QED
  BY <1>1, <1>4

\* The scope changes: nothing is typed any more.
LEMMA CardsReset ==
    ASSUME NEW cds, NEW cs, NEW v, CardsOK(cds, cs, v), NEW v2, NEW cds2,
           cds2 = [kind \in DOMAIN cds |-> Reset(cds[kind])]
    PROVE  CardsOK(cds2, cs, v2)
<1>1. ASSUME NEW kind \in {"document", "tenant"} PROVE CardOK(Reset(cds[kind]), kind, cs, v2)
  <2>1. CardOK(cds[kind], kind, cs, v)
    BY DEF CardsOK
  <2>2. PICK card, old : card = Reset(old) /\ old = cds[kind]
    OBVIOUS
  <2>3. DOMAIN card = CardFields /\ card.busy = old.busy /\ card.typed = None
    BY <2>1, <2>2 DEF Reset, CardOK, CardFields
  <2>4. CardOK(card, kind, cs, v2)
    BY <2>1, <2>2, <2>3 DEF CardOK
  <2> QED
    BY <2>2, <2>4
<1>2. DOMAIN cds2 = {"document", "tenant"} /\ \A kind \in {"document", "tenant"} : cds2[kind] = Reset(cds[kind])
  BY DEF CardsOK
<1> QED
  BY <1>1, <1>2 DEF CardsOK

-----------------------------------------------------------------------------
\* A page is mounted, in the scope tag' with the client server'.
LEMMA MountInv ==
    ASSUME sent \in Nat, tab' \in Pages, tag' \in Tags, server' \in Servers \cup {None},
           Mount(tab', tag', server')
    PROVE  PageInv'
<1> DEFINE asking == server' # None /\ tab' # "danger"
           kind == IF Hooked(tab') THEN "list" ELSE "runs"
<1>1. PICK no \in Nat : no = sent + 1
  OBVIOUS
<1>2. PICK c : c = Call(kind, no, tag', server', None)
  OBVIOUS
<1>3. c.kind = kind /\ c.no = no /\ c.tag = tag'
  BY <1>2, CallFields
<1>4. /\ list' = IF asking /\ Hooked(tab') THEN Rerun(Idle, no) ELSE Idle
      /\ runs' = IF asking /\ tab' = "connectors" THEN [NoRuns EXCEPT !.latest = no] ELSE NoRuns
      /\ pending' = IF asking THEN {c} ELSE {}
      /\ sent' = IF asking THEN no ELSE sent
      /\ selected' = None /\ detail' = Idle /\ cards' = FreshCards
  BY <1>1, <1>2 DEF Mount
<1>5. sent' \in Nat /\ sent <= sent' /\ (asking => sent' = no)
  BY <1>1, <1>4
<1>6. Numbered(pending', sent')
  BY <1>1, <1>3, <1>4 DEF Numbered
<1>7. HookOK(detail', sent') /\ Shows(detail', "detail", pending', tag', selected')
  BY <1>4, <1>5, <1>6, IdleOK
<1>8. HookOK(list', sent') /\ Shows(list', "list", pending', tag', None)
  <2>1. CASE asking /\ Hooked(tab')
    <3>1. HookOK(Idle, sent)
      <4>1. Numbered({}, sent)
        BY DEF Numbered
      <4> QED
        BY <4>1, IdleOK
    <3>2. \A d \in pending' : Wanted(d, "list", tag', None)
      BY <1>3, <1>4, <2>1 DEF Wanted
    <3>3. sent + 1 <= sent'
      BY <1>1, <1>4, <2>1
    <3>4. HookOK(Rerun(Idle, sent + 1), sent') /\ Shows(Rerun(Idle, sent + 1), "list", pending', tag', None)
      BY <1>5, <3>1, <3>2, <3>3, RerunOK
    <3> QED
      BY <1>1, <1>4, <2>1, <3>4
  <2>2. CASE ~(asking /\ Hooked(tab'))
    BY <1>4, <1>5, <1>6, <2>2, IdleOK
  <2> QED
    BY <2>1, <2>2
<1>9. RunsOK(runs', pending', sent')
  <2>1. CASE asking /\ tab' = "connectors"
    BY <1>1, <1>4, <1>5, <1>6, <2>1, RunsFresh
  <2>2. CASE ~(asking /\ tab' = "connectors")
    BY <1>4, <1>5, <1>6, <2>2, RunsFresh
  <2> QED
    BY <2>1, <2>2
<1>10. CardsOK(cards', pending', visit')
  <2>1. \A d \in pending' : d.kind \notin {"document", "tenant"}
    BY <1>3, <1>4
  <2> QED
    BY <1>4, <2>1, CardsFresh
<1>11. server' = None => pending' = {}
  BY <1>4
<1>12. ~Hooked(tab') => Unhooked(list', pending')
  BY <1>3, <1>4 DEF Unhooked
<1> QED
  BY <1>5, <1>6, <1>7, <1>8, <1>9, <1>10, <1>11, <1>12 DEF PageInv, Hooked

\* The settings are applied while a page is open.
LEMMA ApplyInv ==
    ASSUME PageInv, NEW tg \in Tags, NEW srv \in Servers, Apply(tg, srv)
    PROVE  PageInv'
<1> DEFINE reruns == ListReruns(tg)
           asking == reruns \/ tab = "connectors"
           kind == IF reruns THEN "list" ELSE "runs"
<1>1. PICK no \in Nat : no = sent + 1
  BY DEF PageInv
<1>2. PICK c : c = Call(kind, no, tg, srv, None)
  OBVIOUS
<1>3. c.kind = kind /\ c.no = no /\ c.tag = tg
  BY <1>2, CallFields
<1>4. PICK kept : kept = {d \in pending : ~(d.kind = "detail" /\ tg # tag)}
  OBVIOUS
<1>5. tab = "connectors" => ~reruns
  BY DEF ListReruns, Hooked
<1>6. /\ tag' = tg /\ server' = srv /\ tab' = tab
      /\ visit' = IF tg # tag THEN visit + 1 ELSE visit
      /\ list' = IF reruns THEN Rerun(list, no) ELSE list
      /\ runs' = IF tab = "connectors" THEN [runs EXCEPT !.latest = no] ELSE runs
      /\ pending' = kept \cup (IF reruns THEN {Call("list", no, tg, srv, None)} ELSE {})
                         \cup (IF tab = "connectors" THEN {Call("runs", no, tg, srv, None)} ELSE {})
      /\ sent' = sent + (IF asking THEN 1 ELSE 0) + (IF PanelReruns(tg) THEN 1 ELSE 0)
      /\ selected' = IF tg # tag THEN None ELSE selected
      /\ detail' = IF tg # tag THEN Idle ELSE detail
      /\ cards' = [k \in DOMAIN cards |-> IF tg # tag THEN Reset(cards[k]) ELSE cards[k]]
  BY <1>1, <1>4 DEF Apply
<1>7. pending' = IF asking THEN kept \cup {c} ELSE kept
  BY <1>2, <1>5, <1>6
<1>8. sent' \in Nat /\ sent <= sent' /\ (asking => no <= sent')
  <2>1. sent \in Nat
    BY DEF PageInv
  <2>2. PICK p \in {0, 1} : p = IF PanelReruns(tg) THEN 1 ELSE 0
    OBVIOUS
  <2>3. PICK q \in {0, 1} : q = (IF asking THEN 1 ELSE 0) /\ (asking => q = 1)
    OBVIOUS
  <2>4. sent' = sent + q + p
    BY <1>6, <2>2, <2>3
  <2> QED
    BY <1>1, <2>1, <2>2, <2>3, <2>4
<1>9. /\ sent \in Nat /\ Numbered(pending, sent)
      /\ HookOK(list, sent) /\ Shows(list, "list", pending, tag, None)
      /\ HookOK(detail, sent) /\ Shows(detail, "detail", pending, tag, selected)
      /\ RunsOK(runs, pending, sent) /\ CardsOK(cards, pending, visit)
  BY DEF PageInv
<1> HIDE DEF reruns, asking, kind
<1>10. /\ \A d \in kept : d \in pending /\ (d.kind = "detail" => tg = tag)
       /\ \A d \in pending : d \in kept \/ (d.kind = "detail" /\ tg # tag)
       /\ \A d \in pending : d.no \in Nat /\ d.no <= sent
  BY <1>4, <1>9 DEF Numbered
<1>11. Numbered(pending', sent')
  <2>1. CASE asking
    <3>1. Numbered(pending', no)
      BY <1>1, <1>3, <1>7, <1>9, <1>10, <2>1, NumberedMore
    <3> QED
      BY <1>8, <2>1, <3>1, NumberedFewer
  <2>2. CASE ~asking
    BY <1>7, <1>8, <1>9, <1>10, <2>2, NumberedFewer
  <2> QED
    BY <2>1, <2>2
<1>12. HookOK(list', sent') /\ Shows(list', "list", pending', tag', None)
  <2>1. CASE reruns
    <3>1. asking /\ no <= sent'
      BY <1>8, <2>1 DEF asking
    <3>2. \A d \in pending' : d.kind = "list" /\ d.no = sent + 1 => Wanted(d, "list", tag', None)
      <4>1. ASSUME NEW d \in kept, d.no = sent + 1 PROVE FALSE
        BY <1>9, <1>10, <4>1
      <4>2. Wanted(c, "list", tag', None)
        BY <1>3, <1>6 DEF Wanted
      <4> QED
        BY <1>7, <3>1, <4>1, <4>2
    <3>3. HookOK(Rerun(list, sent + 1), sent') /\ Shows(Rerun(list, sent + 1), "list", pending', tag', None)
      BY <1>1, <1>8, <1>9, <3>1, <3>2, RerunOK
    <3> QED
      BY <1>1, <1>6, <2>1, <3>3
  <2>2. CASE ~reruns
    <3>1. list' = list /\ \A d \in pending' : d \in pending \/ d.kind # "list"
      BY <1>3, <1>6, <1>7, <1>10, <2>2 DEF asking, kind
    <3>2. CASE tg = tag
      BY <1>6, <1>8, <1>9, <3>1, <3>2, HookKeeps
    <3>3. CASE tg # tag
      <4>1. list' = Idle
        BY <2>2, <3>1, <3>3 DEF PageInv, Unhooked, reruns, ListReruns
      <4> QED
        BY <1>8, <1>11, <4>1, IdleOK
    <3> QED
      BY <3>2, <3>3
  <2> QED
    BY <2>1, <2>2
<1>13. HookOK(detail', sent') /\ Shows(detail', "detail", pending', tag', selected')
  <2>1. CASE tg # tag
    BY <1>6, <1>8, <1>11, <2>1, IdleOK
  <2>2. CASE tg = tag
    <3>1. \A d \in pending' : d \in pending \/ d.kind # "detail"
      BY <1>3, <1>7, <1>10 DEF kind
    <3> QED
      BY <1>6, <1>8, <1>9, <2>2, <3>1, HookKeeps
  <2> QED
    BY <2>1, <2>2
<1>14. RunsOK(runs', pending', sent')
  <2>0. \A d \in pending : d \in pending' \/ d.kind \notin {"runs", "trigger"}
    BY <1>7, <1>10
  <2>1. CASE tab = "connectors"
    <3>1. asking
      BY <2>1 DEF asking
    <3>2. RunsOK([runs EXCEPT !.latest = sent + 1], pending', sent + 1)
      BY <1>9, <2>0, RunsAsk
    <3>3. sent' = no
      <4>1. ~PanelReruns(tg)
        BY <2>1 DEF PanelReruns
      <4> QED
        BY <1>1, <1>6, <1>9, <3>1, <4>1
    <3> QED
      BY <1>1, <1>6, <2>1, <3>2, <3>3
  <2>2. CASE tab # "connectors"
    <3>1. \A d \in pending' : d \in pending \/ d.kind # "runs"
      BY <1>3, <1>7, <1>10, <2>2 DEF asking, kind
    <3> QED
      BY <1>6, <1>8, <1>9, <2>0, <2>2, <3>1, RunsKeep
  <2> QED
    BY <2>1, <2>2
<1>15. CardsOK(cards', pending', visit')
  <2>1. \A d \in pending' : d \in pending \/ d.kind \notin {"document", "tenant"}
    BY <1>3, <1>7, <1>10 DEF kind
  <2>2. CardsOK(cards, pending', visit)
    BY <1>9, <2>1, CardsKeep
  <2>3. CASE tg = tag
    <3>1. cards' = [k \in DOMAIN cards |-> cards[k]] /\ visit' = visit
      BY <1>6, <2>3
    <3>2. DOMAIN cards' = DOMAIN cards /\ \A k \in DOMAIN cards : cards'[k] = cards[k]
      BY <3>1
    <3> QED
      BY <2>2, <3>1, <3>2 DEF CardsOK
  <2>4. CASE tg # tag
    BY <1>6, <2>2, <2>4, CardsReset
  <2> QED
    BY <2>3, <2>4
<1>16. server' # None
  BY <1>6, NoneNoServer
<1>17. ~Hooked(tab') => Unhooked(list', pending')
  <2> SUFFICES ASSUME ~Hooked(tab) PROVE Unhooked(list', pending')
    BY <1>6 DEF Hooked
  <2>1. Unhooked(list, pending) /\ ~reruns
    BY DEF PageInv, reruns, ListReruns
  <2>2. c.kind # "list"
    BY <1>3, <2>1 DEF kind
  <2> QED
    BY <1>6, <1>7, <1>10, <2>1, <2>2 DEF Unhooked
<1> QED
  BY <1>6, <1>8, <1>11, <1>12, <1>13, <1>14, <1>15, <1>16, <1>17 DEF PageInv

-----------------------------------------------------------------------------
\* Requests that the operator sends, one at a time.
LEMMA SendInv ==
    ASSUME PageInv,
           \/ Reload \/ RetryPanel \/ LoadRuns \/ Trigger
           \/ \E d \in Docs : Select(d)
           \/ \E kind \in {"document", "tenant"} : Delete(kind)
    PROVE  PageInv'
<1>0. /\ sent \in Nat /\ Numbered(pending, sent)
      /\ HookOK(list, sent) /\ Shows(list, "list", pending, tag, None)
      /\ HookOK(detail, sent) /\ Shows(detail, "detail", pending, tag, selected)
      /\ RunsOK(runs, pending, sent) /\ CardsOK(cards, pending, visit)
      /\ \A d \in pending : d.no # sent + 1
  BY DEF PageInv, Numbered
<1>1. PICK no \in Nat : no = sent + 1 /\ sent <= no
  BY <1>0
<1> DEFINE Sending(c) == /\ Sends(c) /\ c.no = no
                         /\ c.kind = "list" => Hooked(tab)
                         /\ UNCHANGED <<tab, tag, server, visit>>
<1>2. ASSUME NEW c, Sending(c)
      PROVE  /\ pending' = pending \cup {c} /\ sent' = no /\ Numbered(pending', sent') /\ server' # None
             /\ list' = list /\ c.kind # "list" =>
                  HookOK(list', sent') /\ Shows(list', "list", pending', tag', None)
             /\ detail' = detail /\ selected' = selected /\ c.kind # "detail" =>
                  HookOK(detail', sent') /\ Shows(detail', "detail", pending', tag', selected')
             /\ runs' = runs /\ c.kind # "runs" => RunsOK(runs', pending', sent')
             /\ cards' = cards /\ c.kind \notin {"document", "tenant"} => CardsOK(cards', pending', visit')
             /\ list' = list => (~Hooked(tab') => Unhooked(list', pending'))
  <2>1. pending' = pending \cup {c} /\ sent' = no /\ server' # None
    BY <1>1, <1>2 DEF Sends
  <2>2. Numbered(pending', sent')
    BY <1>0, <1>1, <1>2, <2>1, NumberedMore
  <2>3. ASSUME list' = list, c.kind # "list"
        PROVE  HookOK(list', sent') /\ Shows(list', "list", pending', tag', None)
    BY <1>0, <1>1, <1>2, <2>1, <2>3, HookKeeps
  <2>4. ASSUME detail' = detail, selected' = selected, c.kind # "detail"
        PROVE  HookOK(detail', sent') /\ Shows(detail', "detail", pending', tag', selected')
    BY <1>0, <1>1, <1>2, <2>1, <2>4, HookKeeps
  <2>5. ASSUME runs' = runs, c.kind # "runs" PROVE RunsOK(runs', pending', sent')
    BY <1>0, <1>1, <2>1, <2>5, RunsKeep
  <2>6. ASSUME cards' = cards, c.kind \notin {"document", "tenant"} PROVE CardsOK(cards', pending', visit')
    BY <1>0, <1>2, <2>1, <2>6, CardsKeep
  <2>7. ASSUME list' = list, ~Hooked(tab') PROVE Unhooked(list', pending')
    <3>1. ~Hooked(tab) /\ c.kind # "list"
      BY <1>2, <2>7 DEF Hooked
    <3>2. Unhooked(list, pending)
      BY <3>1 DEF PageInv
    <3> QED
      BY <2>1, <2>7, <3>1, <3>2 DEF Unhooked
  <2> QED
    BY <2>1, <2>2, <2>3, <2>4, <2>5, <2>6, <2>7
<1>3. ASSUME NEW c, Sending(c), PageInv
      PROVE  tab' \in Pages /\ tag' \in Tags /\ server' \in Servers \cup {None} /\ sent' \in Nat
             /\ (server' = None => pending' = {})
  BY <1>1, <1>2, <1>3 DEF PageInv
<1> HIDE DEF Sending
<1>4. CASE Reload
  <2>1. PICK c : c = Call("list", no, tag, server, None)
    OBVIOUS
  <2>2. c.kind = "list" /\ c.no = no /\ c.tag = tag
    BY <2>1, CallFields
  <2>3. Sending(c) /\ list' = Rerun(list, no) /\ UNCHANGED <<tag, selected, detail, runs, cards>> /\ Hooked(tab)
    BY <1>1, <1>4, <2>1, <2>2 DEF Reload, Sending
  <2>4. HookOK(list', sent') /\ Shows(list', "list", pending', tag', None)
    <3>1. \A d \in pending' : d.kind = "list" /\ d.no = sent + 1 => Wanted(d, "list", tag', None)
      BY <1>0, <1>2, <2>2, <2>3 DEF Wanted
    <3>2. sent' = no
      BY <1>2, <2>3
    <3>3. HookOK(Rerun(list, sent + 1), no) /\ Shows(Rerun(list, sent + 1), "list", pending', tag', None)
      BY <1>0, <1>1, <3>1, RerunOK
    <3> QED
      BY <1>1, <2>3, <3>2, <3>3
  <2>5. Hooked(tab')
    BY <2>3 DEF Sending, Hooked
  <2> QED
    BY <1>2, <1>3, <2>2, <2>3, <2>4, <2>5 DEF PageInv
<1>5. CASE RetryPanel \/ \E d \in Docs : Select(d)
  <2>1. PICK c, doc : /\ c = Call("detail", no, tag, server, doc) /\ Sends(c)
                      /\ detail' = Rerun(detail, no) /\ selected' = doc
                      /\ UNCHANGED <<tab, tag, server, list, runs, cards, visit>>
    BY <1>1, <1>5 DEF RetryPanel, Select
  <2>2. c.kind = "detail" /\ c.no = no /\ c.tag = tag /\ c.doc = doc
    BY <2>1, CallFields
  <2>3. Sending(c)
    BY <2>1, <2>2 DEF Sending
  <2>4. HookOK(detail', sent') /\ Shows(detail', "detail", pending', tag', selected')
    <3>1. \A d \in pending' : d.kind = "detail" /\ d.no = sent + 1 => Wanted(d, "detail", tag', doc)
      BY <1>0, <1>2, <2>1, <2>2, <2>3 DEF Wanted
    <3>2. sent' = no
      BY <1>2, <2>3
    <3>3. HookOK(Rerun(detail, sent + 1), no) /\ Shows(Rerun(detail, sent + 1), "detail", pending', tag', doc)
      BY <1>0, <1>1, <3>1, RerunOK
    <3> QED
      BY <1>1, <2>1, <3>2, <3>3
  <2> QED
    BY <1>2, <1>3, <2>1, <2>2, <2>3, <2>4 DEF PageInv
<1>6. CASE LoadRuns
  <2>1. PICK c : c = Call("runs", no, tag, server, None)
    OBVIOUS
  <2>2. c.kind = "runs" /\ c.no = no
    BY <2>1, CallFields
  <2>3. Sending(c) /\ runs' = [runs EXCEPT !.latest = no] /\ UNCHANGED <<list, selected, detail, cards>>
    BY <1>1, <1>6, <2>1, <2>2 DEF LoadRuns, Sending
  <2>4. RunsOK(runs', pending', sent')
    <3>1. \A d \in pending : d \in pending'
      BY <1>2, <2>3
    <3>2. RunsOK([runs EXCEPT !.latest = sent + 1], pending', sent + 1)
      BY <1>0, <3>1, RunsAsk
    <3>3. sent' = no
      BY <1>2, <2>3
    <3> QED
      BY <1>1, <2>3, <3>2, <3>3
  <2> QED
    BY <1>2, <1>3, <2>2, <2>3, <2>4 DEF PageInv
<1>7. CASE Trigger
  <2>1. PICK c : c = Call("trigger", no, tag, server, None)
    OBVIOUS
  <2>2. c.kind = "trigger" /\ c.no = no
    BY <2>1, CallFields
  <2>3. Sending(c) /\ runs' = [runs EXCEPT !.trigger = "posting"] /\ UNCHANGED <<list, selected, detail, cards>>
    BY <1>1, <1>7, <2>1, <2>2 DEF Trigger, Sending
  <2>4. RunsOK(runs', pending', sent')
    <3>1. (\A d \in pending' : d \in pending \/ d.kind # "runs") /\ \E d \in pending' : d.kind = "trigger"
      BY <1>2, <2>2, <2>3
    <3>2. sent' = no
      BY <1>2, <2>3
    <3>3. RunsOK([runs EXCEPT !.trigger = "posting"], pending', no)
      BY <1>0, <1>1, <3>1, RunsTrigger
    <3> QED
      BY <2>3, <3>2, <3>3
  <2> QED
    BY <1>2, <1>3, <2>2, <2>3, <2>4 DEF PageInv
<1>8. CASE \E kind \in {"document", "tenant"} : Delete(kind)
  <2>1. PICK kind \in {"document", "tenant"} : Delete(kind)
    BY <1>8
  <2>2. PICK c : c = Call(kind, no, tag, server, cards[kind].typed)
    OBVIOUS
  <2>3. c.kind = kind /\ c.no = no
    BY <2>2, CallFields
  <2>4. PICK old, card : old = cards[kind] /\ card = [old EXCEPT !.busy = TRUE, !.shown = Nothing]
    OBVIOUS
  <2>5. /\ Sending(c) /\ cards' = [cards EXCEPT ![kind] = card] /\ ~old.busy
        /\ UNCHANGED <<list, selected, detail, runs, visit>>
    BY <1>1, <2>1, <2>2, <2>3, <2>4 DEF Delete, Sending, Clickable
  <2>6. CardOK(old, kind, pending, visit)
    BY <1>0, <2>4 DEF CardsOK
  <2>7. /\ DOMAIN card = CardFields /\ card.busy \in BOOLEAN /\ card.busy
        /\ card.typed = old.typed /\ card.since = old.since
    BY <2>4, <2>6 DEF CardOK, CardFields
  <2>8. pending' = pending \cup {c}
    BY <1>2, <2>5
  <2>9. CardOK(card, kind, pending', visit)
    <3>1. \A d \in pending' : d.kind = kind => d = c
      BY <2>5, <2>6, <2>8 DEF CardOK
    <3> QED
      BY <2>6, <2>7, <3>1 DEF CardOK
  <2>10. CardsOK(cards', pending', visit')
    <3>1. CardsOK([cards EXCEPT ![kind] = card], pending', visit)
      BY <1>0, <2>3, <2>8, <2>9, CardChanges
    <3> QED
      BY <2>5, <3>1
  <2> QED
    BY <1>2, <1>3, <2>3, <2>5, <2>10 DEF PageInv
<1> QED
  BY <1>4, <1>5, <1>6, <1>7, <1>8

-----------------------------------------------------------------------------
\* The panel closes: its requests are no longer waited for.
LEMMA CloseInv == ASSUME PageInv, ClosePanel PROVE PageInv'
<1>0. /\ sent \in Nat /\ Numbered(pending, sent) /\ sent <= sent
      /\ HookOK(list, sent) /\ Shows(list, "list", pending, tag, None)
      /\ RunsOK(runs, pending, sent) /\ CardsOK(cards, pending, visit)
  BY DEF PageInv
<1>1. /\ pending' = {c \in pending : c.kind # "detail"} /\ detail' = Idle
      /\ UNCHANGED <<tab, tag, server, list, runs, cards, sent, visit>>
  BY DEF ClosePanel
<1>2. /\ \A c \in pending' : c \in pending /\ c.kind # "detail"
      /\ \A c \in pending : c \in pending' \/ c.kind = "detail"
  BY <1>1
<1>3. Numbered(pending', sent)
  BY <1>0, <1>2, NumberedFewer
<1>4. HookOK(list, sent) /\ Shows(list, "list", pending', tag, None)
  BY <1>0, <1>2, HookKeeps
<1>5. HookOK(detail', sent) /\ Shows(detail', "detail", pending', tag, selected')
  BY <1>0, <1>1, <1>3, IdleOK
<1>6. RunsOK(runs, pending', sent)
  BY <1>0, <1>2, RunsKeep
<1>7. CardsOK(cards, pending', visit)
  BY <1>0, <1>2, CardsKeep
<1>8. ~Hooked(tab) => Unhooked(list, pending')
  BY <1>2 DEF PageInv, Unhooked
<1>9. server = None => pending' = {}
  BY <1>2 DEF PageInv
<1> QED
  BY <1>1, <1>3, <1>4, <1>5, <1>6, <1>7, <1>8, <1>9 DEF PageInv, Hooked

\* An operator types into a card.
LEMMA FillInv ==
    ASSUME PageInv, NEW kind \in {"document", "tenant"}, NEW text, Fill(kind, text)
    PROVE  PageInv'
<1>1. PICK old, card, tick : /\ tick \in BOOLEAN /\ old = cards[kind]
        /\ card = [old EXCEPT !.typed = text, !.checked = tick, !.since = visit]
        /\ tick = (kind = "tenant")
  OBVIOUS
<1>2. /\ cards' = [cards EXCEPT ![kind] = card]
      /\ UNCHANGED <<tab, tag, server, list, selected, detail, runs, pending, sent, visit>>
  <2>1. /\ cards' = [cards EXCEPT ![kind].typed = text, ![kind].checked = (kind = "tenant"),
                                  ![kind].since = visit]
        /\ UNCHANGED <<tab, tag, server, list, selected, detail, runs, pending, sent, visit>>
    BY DEF Fill
  <2> QED
    BY <1>1, <2>1
<1>3. CardsOK(cards, pending, visit)
  BY DEF PageInv
<1>4. CardOK(old, kind, pending, visit)
  BY <1>1, <1>3 DEF CardsOK
<1>5. DOMAIN card = CardFields /\ card.busy = old.busy /\ card.since = visit
  BY <1>1, <1>4 DEF CardOK, CardFields
<1>6. CardOK(card, kind, pending, visit)
  BY <1>4, <1>5 DEF CardOK
<1>7. CardsOK(cards', pending', visit')
  BY <1>2, <1>3, <1>6, CardChanges
<1> QED
  BY <1>2, <1>7 DEF PageInv, Hooked

\* Answers.
LEMMA AnswerInv ==
    ASSUME PageInv, NEW call \in pending, NEW ok \in BOOLEAN, Answered(call, ok)
    PROVE  PageInv' /\ (runs'.data = runs.data \/ runs'.data.no > runs.data.no)
<1>0. /\ sent \in Nat /\ Numbered(pending, sent) /\ sent <= sent
      /\ HookOK(list, sent) /\ Shows(list, "list", pending, tag, None)
      /\ HookOK(detail, sent) /\ Shows(detail, "detail", pending, tag, selected)
      /\ RunsOK(runs, pending, sent) /\ CardsOK(cards, pending, visit)
      /\ \A c \in pending \ {call} : c \in pending
      /\ server # None
  BY DEF PageInv
<1>1. UNCHANGED <<tab, tag, server, selected, visit>>
  BY DEF Answered
<1>2. ASSUME pending' = pending \ {call}, sent' = sent
      PROVE  /\ Numbered(pending', sent')
             /\ list' = list => HookOK(list', sent') /\ Shows(list', "list", pending', tag', None)
             /\ detail' = detail => HookOK(detail', sent') /\ Shows(detail', "detail", pending', tag', selected')
             /\ runs' = runs /\ call.kind \notin {"runs", "trigger"} => RunsOK(runs', pending', sent')
             /\ cards' = cards => CardsOK(cards', pending', visit')
             /\ list' = list => (~Hooked(tab') => Unhooked(list', pending'))
  <2>1. Numbered(pending', sent')
    BY <1>0, <1>2, NumberedFewer
  <2>2. ASSUME list' = list PROVE HookOK(list', sent') /\ Shows(list', "list", pending', tag', None)
    BY <1>0, <1>1, <1>2, <2>2, HookKeeps
  <2>3. ASSUME detail' = detail
        PROVE  HookOK(detail', sent') /\ Shows(detail', "detail", pending', tag', selected')
    BY <1>0, <1>1, <1>2, <2>3, HookKeeps
  <2>4. ASSUME runs' = runs, call.kind \notin {"runs", "trigger"} PROVE RunsOK(runs', pending', sent')
    <3>1. \A c \in pending : c \in pending' \/ c.kind \notin {"runs", "trigger"}
      BY <1>2, <2>4
    <3> QED
      BY <1>0, <1>2, <2>4, <3>1, RunsKeep
  <2>5. ASSUME cards' = cards PROVE CardsOK(cards', pending', visit')
    BY <1>0, <1>1, <1>2, <2>5, CardsKeep
  <2>6. ASSUME list' = list, ~Hooked(tab') PROVE Unhooked(list', pending')
    <3>1. Unhooked(list, pending)
      BY <1>1, <2>6 DEF PageInv, Hooked
    <3> QED
      BY <1>2, <2>6, <3>1 DEF Unhooked
  <2> QED
    BY <2>1, <2>2, <2>3, <2>4, <2>5, <2>6
<1>3. CASE HookAnswered(call, ok)
  <2>1. /\ call.kind \in {"list", "detail"}
        /\ list' = IF call.kind = "list" THEN Settle(list, call, ok) ELSE list
        /\ detail' = IF call.kind = "detail" THEN Settle(detail, call, ok) ELSE detail
        /\ pending' = pending \ {call}
        /\ UNCHANGED <<runs, cards, sent>>
    BY <1>3 DEF HookAnswered
  <2>2. CASE call.kind = "list"
    <3>1. HookOK(list', sent') /\ Shows(list', "list", pending', tag', None)
      BY <1>0, <1>1, <2>1, <2>2, SettleOK
    <3>2. detail' = detail
      BY <2>1, <2>2
    <3>3. Hooked(tab')
      BY <1>1, <2>2 DEF PageInv, Unhooked, Hooked
    <3> QED
      BY <1>0, <1>1, <1>2, <2>1, <2>2, <3>1, <3>2, <3>3 DEF PageInv
  <2>3. CASE call.kind = "detail"
    <3>1. HookOK(detail', sent') /\ Shows(detail', "detail", pending', tag', selected')
      BY <1>0, <1>1, <2>1, <2>3, SettleOK
    <3>2. list' = list
      BY <2>1, <2>3
    <3> QED
      BY <1>0, <1>1, <1>2, <2>1, <2>3, <3>1, <3>2 DEF PageInv
  <2> QED
    BY <2>1, <2>2, <2>3
<1>4. CASE RunsAnswered(call, ok)
  <2>1. /\ call.kind = "runs"
        /\ runs' = Ended(SettleRuns(runs, call, ok), call)
        /\ pending' = pending \ {call}
        /\ UNCHANGED <<list, detail, cards, sent>>
    BY <1>4 DEF RunsAnswered
  <2>2. RunsOK(runs', pending', sent') /\ (runs'.data = runs.data \/ runs'.data.no > runs.data.no)
    BY <1>0, <2>1, RunsSettle
  <2> QED
    BY <1>0, <1>1, <1>2, <2>1, <2>2 DEF PageInv
<1>5. CASE TriggerAnswered(call, ok) /\ ok
  <2>1. PICK no, c : no = sent + 1 /\ c = Call("runs", no, tag, call.server, None)
    OBVIOUS
  <2>2. /\ call.kind = "trigger"
        /\ runs' = [runs EXCEPT !.trigger = "reloading", !.reload = sent + 1, !.latest = sent + 1]
        /\ pending' = (pending \ {call}) \cup {c} /\ sent' = no
        /\ UNCHANGED <<list, detail, cards>>
    BY <1>5, <2>1 DEF TriggerAnswered
  <2>3. c.kind = "runs" /\ c.no = no
    BY <2>1, CallFields
  <2>4. no \in Nat /\ sent <= no
    BY <1>0, <2>1
  <2>5. \A d \in pending' : d \in pending \/ d = c
    BY <2>2
  <2>6. Numbered(pending', sent')
    BY <1>0, <2>1, <2>2, <2>3, <2>5, NumberedMore
  <2>7. HookOK(list', sent') /\ Shows(list', "list", pending', tag', None)
    BY <1>0, <1>1, <2>2, <2>3, <2>4, <2>5, HookKeeps
  <2>8. HookOK(detail', sent') /\ Shows(detail', "detail", pending', tag', selected')
    BY <1>0, <1>1, <2>2, <2>3, <2>4, <2>5, HookKeeps
  <2>9. RunsOK(runs', pending', sent')
    <3>1. c \in pending' /\ c.no = sent + 1
      BY <2>1, <2>2, <2>3
    <3>2. RunsOK([runs EXCEPT !.trigger = "reloading", !.reload = sent + 1, !.latest = sent + 1],
                 pending', sent + 1)
      BY <1>0, <2>3, <3>1, RunsReload
    <3> QED
      BY <2>1, <2>2, <3>2
  <2>10. CardsOK(cards', pending', visit')
    BY <1>0, <1>1, <2>2, <2>3, <2>5, CardsKeep
  <2>11. runs'.data = runs.data
    BY <1>0, <2>2 DEF RunsOK, RunsFields
  <2>12. ~Hooked(tab') => Unhooked(list', pending')
    BY <1>1, <2>2, <2>3, <2>5 DEF PageInv, Unhooked, Hooked
  <2> QED
    BY <1>0, <1>1, <2>2, <2>4, <2>6, <2>7, <2>8, <2>9, <2>10, <2>11, <2>12 DEF PageInv
<1>6. CASE TriggerAnswered(call, ok) /\ ~ok
  <2>1. /\ call.kind = "trigger"
        /\ runs' = [runs EXCEPT !.trigger = "idle"]
        /\ pending' = pending \ {call}
        /\ UNCHANGED <<list, detail, cards, sent>>
    BY <1>6 DEF TriggerAnswered
  <2>2. RunsOK(runs', pending', sent')
    BY <1>0, <2>1, RunsTrigger
  <2>3. runs'.data = runs.data
    BY <1>0, <2>1 DEF RunsOK, RunsFields
  <2> QED
    BY <1>0, <1>1, <1>2, <2>1, <2>2, <2>3 DEF PageInv
<1>7. CASE DeleteAnswered(call, ok)
  <2>1. PICK kind : kind = call.kind
    OBVIOUS
  <2>2. PICK old, shown, card :
        /\ old = cards[kind] /\ shown = [old EXCEPT !.busy = FALSE, !.shown = call]
        /\ card = IF ok /\ kind = "tenant"
                  THEN [shown EXCEPT !.typed = None, !.checked = FALSE] ELSE shown
    OBVIOUS
  <2>3. /\ kind \in {"document", "tenant"} /\ cards' = [cards EXCEPT ![kind] = card]
        /\ pending' = pending \ {call}
        /\ UNCHANGED <<list, detail, runs, sent>>
    BY <1>0, <1>7, <2>1, <2>2 DEF DeleteAnswered, CardsOK
  <2>4. CardOK(old, kind, pending, visit)
    BY <1>0, <2>2, <2>3 DEF CardsOK
  <2>5. /\ DOMAIN card = CardFields /\ card.busy \in BOOLEAN /\ ~card.busy
        /\ card.typed = None \/ (card.typed = old.typed /\ card.since = old.since)
    <3>1. /\ DOMAIN shown = CardFields /\ shown.busy \in BOOLEAN /\ ~shown.busy
          /\ shown.typed = old.typed /\ shown.since = old.since
      BY <2>2, <2>4 DEF CardOK, CardFields
    <3> QED
      BY <2>2, <3>1 DEF CardFields
  <2>6. CardOK(card, kind, pending', visit)
    <3>1. \A d \in pending' : d.kind # kind
      BY <2>1, <2>3, <2>4 DEF CardOK
    <3> QED
      BY <2>4, <2>5, <3>1 DEF CardOK
  <2>7. CardsOK(cards', pending', visit')
    <3>1. CardsOK([cards EXCEPT ![kind] = card], pending', visit)
      BY <1>0, <2>3, <2>6, CardChanges
    <3> QED
      BY <1>1, <2>3, <3>1
  <2> QED
    BY <1>0, <1>1, <1>2, <2>1, <2>3, <2>7 DEF PageInv
<1> QED
  BY <1>3, <1>4, <1>5, <1>6, <1>7 DEF Answered

-----------------------------------------------------------------------------
\* The page of a browser that has just been opened.
LEMMA InitPageInv == PageInit => PageInv
<1> SUFFICES ASSUME PageInit PROVE PageInv
  OBVIOUS
<1>1. Numbered({}, 0)
  BY DEF Numbered
<1>2. /\ tab = "documents" /\ tag \in Tags /\ server = None /\ list = Idle /\ selected = None
      /\ detail = Idle /\ runs = NoRuns /\ cards = FreshCards /\ pending = {} /\ sent = 0 /\ visit = 0
  BY DEF PageInit
<1>3. HookOK(Idle, 0) /\ \A kind, tg, doc : Shows(Idle, kind, {}, tg, doc)
  BY <1>1, IdleOK
<1>4. RunsOK(NoRuns, {}, 0)
  BY <1>1, RunsFresh
<1>5. CardsOK(FreshCards, {}, 0)
  BY CardsFresh
<1>6. tab \in Pages /\ Hooked(tab)
  BY <1>2 DEF Pages, Hooked
<1> QED
  BY <1>1, <1>2, <1>3, <1>4, <1>5, <1>6 DEF PageInv

\* Every step keeps the invariant, and the run list never shows an older answer.
LEMMA NextPageInv ==
    ASSUME PageInv, [PageNext]_pageVars
    PROVE  /\ PageInv'
           /\ tab' = tab /\ None \notin {server, server'}
                => runs'.data = runs.data \/ runs'.data.no > runs.data.no
<1> DEFINE Kept == tab' = tab /\ None \notin {server, server'} => runs'.data = runs.data
<1>0. /\ DOMAIN runs = RunsFields /\ tab \in Pages /\ tag \in Tags /\ sent \in Nat
      /\ server \in Servers \cup {None}
  BY DEF PageInv, RunsOK
<1>1. CASE UNCHANGED pageVars
  BY <1>1 DEF pageVars, page, PageInv, Hooked
<1>2. ASSUME NEW t \in Pages, Open(t) PROVE PageInv' /\ Kept
  <2>1. tab' = t /\ Mount(tab', tag', server') /\ tag' = tag /\ server' = server /\ t # tab
    BY <1>2 DEF Open
  <2> QED
    BY <1>0, <2>1, MountInv
<1>3. ASSUME NEW tg \in Tags, NEW srv \in Servers, Connect(tg, srv) PROVE PageInv' /\ Kept
  <2>1. tab' = tab /\ Mount(tab', tag', server') /\ tag' = tg /\ server' = srv /\ server = None
    BY <1>3 DEF Connect
  <2> QED
    BY <1>0, <2>1, MountInv
<1>4. ASSUME NEW tg \in Tags, Disconnect(tg) PROVE PageInv' /\ Kept
  <2>1. tab' = tab /\ Mount(tab', tag', server') /\ tag' = tg /\ server' = None
    BY <1>4 DEF Disconnect
  <2> QED
    BY <1>0, <2>1, MountInv
<1>5. ASSUME NEW tg \in Tags, NEW srv \in Servers, Apply(tg, srv) PROVE PageInv' /\ Kept
  <2>1. PICK no : runs' = IF tab = "connectors" THEN [runs EXCEPT !.latest = no] ELSE runs
    BY <1>5 DEF Apply
  <2>2. runs'.data = runs.data
    BY <1>0, <2>1 DEF RunsFields
  <2> QED
    BY <1>5, <2>2, ApplyInv
<1>6. ASSUME \/ Reload \/ RetryPanel \/ LoadRuns \/ Trigger
             \/ \E d \in Docs : Select(d)
             \/ \E kind \in {"document", "tenant"} : Delete(kind)
      PROVE  PageInv' /\ Kept
  <2>1. PageInv'
    BY <1>6, SendInv
  <2>2. CASE Reload \/ RetryPanel \/ (\E d \in Docs : Select(d)) \/ \E kind \in {"document", "tenant"} : Delete(kind)
    BY <2>1, <2>2 DEF Reload, RetryPanel, Select, Delete
  <2>3. CASE LoadRuns \/ Trigger
    <3>1. runs'.data = runs.data
      BY <1>0, <2>3 DEF LoadRuns, Trigger, RunsFields
    <3> QED
      BY <2>1, <3>1
  <2> QED
    BY <1>6, <2>1, <2>2, <2>3
<1>7. ASSUME ClosePanel PROVE PageInv' /\ Kept
  BY <1>7, CloseInv DEF ClosePanel
<1>8. ASSUME NEW kind \in {"document", "tenant"}, NEW text, Fill(kind, text) PROVE PageInv' /\ Kept
  BY <1>8, FillInv DEF Fill
<1>9. ASSUME Answer PROVE PageInv' /\ (runs'.data = runs.data \/ runs'.data.no > runs.data.no)
  BY <1>9, AnswerInv DEF Answer, AnswerOf
<1>10. CASE Operator
  <2>1. PageInv' /\ Kept
    BY <1>2, <1>3, <1>4, <1>5, <1>6, <1>7, <1>8, <1>10 DEF Operator
  <2> QED
    BY <2>1
<1> QED
  BY <1>1, <1>9, <1>10 DEF PageNext

\* The invariant has what the runs check.
LEMMA PageInvCurrent == PageInv => PageIsCurrent
<1> SUFFICES ASSUME PageInv PROVE PageIsCurrent
  OBVIOUS
<1>1. ASSUME NEW hook, HookOK(hook, sent)
      PROVE  /\ hook.loading \in BOOLEAN /\ hook.latest \in 0..sent /\ hook.data.no \in 0..sent
             /\ hook.latest # 0 /\ ~hook.loading => hook.latest \in {hook.data.no, hook.error.no}
  <2>1. sent \in Nat
    BY DEF PageInv
  <2> QED
    BY <1>1, <2>1 DEF HookOK
<1>2. PageTyped
  <2>1. tab \in Pages /\ tag \in Tags /\ server \in Servers \cup {None} /\ (server = None => pending = {})
    BY DEF PageInv
  <2>2. \A hook \in {list, detail} :
          hook.loading \in BOOLEAN /\ hook.latest \in 0..sent /\ hook.data.no \in 0..sent
    BY <1>1 DEF PageInv
  <2>3. /\ runs.latest \in 0..sent /\ runs.trigger \in {"idle", "posting", "reloading"}
        /\ runs.trigger = "posting" => \E c \in pending : c.kind = "trigger"
        /\ runs.trigger = "reloading" => \E c \in pending : c.no = runs.reload
    BY DEF PageInv, RunsOK
  <2>4. \A c \in pending : c.no \in 1..sent
    BY DEF PageInv, Numbered
  <2> QED
    BY <2>1, <2>2, <2>3, <2>4 DEF PageTyped
<1>3. ShownIsOfScope
  BY DEF PageInv, Shows, Wanted, ShownIsOfScope
<1>4. SettledIsNewest
  BY <1>1 DEF PageInv, SettledIsNewest
<1> QED
  BY <1>2, <1>3, <1>4 DEF PageIsCurrent

\* And what is typed into a card.
LEMMA PageInvConfirmed == PageInv => DeletesConfirmed
<1> SUFFICES ASSUME PageInv, NEW kind \in DOMAIN cards
             PROVE  /\ cards[kind].typed # None => cards[kind].since = visit
                    /\ Cardinality({c \in pending : c.kind = kind}) <= 1
  BY DEF DeletesConfirmed, ConfirmedInScope, OneDeleteAtATime
<1>1. CardOK(cards[kind], kind, pending, visit)
  BY DEF PageInv, CardsOK
<1> DEFINE own == {c \in pending : c.kind = kind}
<1>2. Cardinality(own) <= 1
  <2>1. CASE own = {}
    BY <2>1, FS_EmptySet
  <2>2. CASE own # {}
    <3>1. PICK c : c \in own
      BY <2>2
    <3>2. own = {c}
      BY <1>1, <3>1 DEF CardOK
    <3>3. Cardinality({c}) = 1
      BY FS_Singleton
    <3> QED
      BY <3>2, <3>3
  <2> QED
    BY <2>1, <2>2
<1> QED
  BY <1>1, <1>2 DEF CardOK

\* What a page shows when it does not load is the answer to its newest request, and of
\* the scope and the document it stands under, for any clicks, scopes and answers in any
\* order (useAsync).
THEOREM SpecPageIsCurrent == PageSpec => []PageIsCurrent
<1>1. PageInit => PageInv
  BY InitPageInv
<1>2. PageInv /\ [PageNext]_pageVars => PageInv'
  BY NextPageInv
<1>3. PageInv => PageIsCurrent
  BY PageInvCurrent
<1> QED
  BY <1>1, <1>2, <1>3, PTL DEF PageSpec

\* A mounted card waits for one delete at a time, and what was typed for it was typed in the
\* scope it is sent for (DangerZonePage).
THEOREM SpecDeletesConfirmed == PageSpec => []DeletesConfirmed
<1>1. PageInit => PageInv
  BY InitPageInv
<1>2. PageInv /\ [PageNext]_pageVars => PageInv'
  BY NextPageInv
<1>3. PageInv => DeletesConfirmed
  BY PageInvConfirmed
<1> QED
  BY <1>1, <1>2, <1>3, PTL DEF PageSpec

\* The run list is never replaced by what was asked for earlier (loadRuns).
THEOREM SpecRunsNeverGoBack == PageSpec => RunsNeverGoBack
<1>1. PageInit => PageInv
  BY InitPageInv
<1>2. PageInv /\ [PageNext]_pageVars => PageInv'
  BY NextPageInv
<1>3. PageInv /\ [PageNext]_pageVars =>
        [tab' = tab /\ None \notin {server, server'}
           => runs'.data = runs.data \/ runs'.data.no > runs.data.no]_pageVars
  BY NextPageInv
<1> QED
  BY <1>1, <1>2, <1>3, PTL DEF PageSpec, RunsNeverGoBack

===============================================================================
