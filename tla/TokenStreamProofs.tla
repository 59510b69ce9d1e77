--------------------------- MODULE TokenStreamProofs ---------------------------
(***************************************************************************)
(* Proofs about the streaming of answers, for any requests, answers, queue *)
(* size, pool and gate.                                                    *)
(***************************************************************************)
EXTENDS TokenStream, FiniteSetTheorems, SequenceTheorems, TLAPS

Sentinels == {DONE, ERROR}
Terminals == {<<"citation">>, <<"error">>, <<"[DONE]">>}
Tokens == {Token(i) : i \in 1..MaxTokens}

\* What tells the items and events apart.
LEMMA Tagged ==
    /\ Items = Tokens \cup Sentinels
    /\ Tokens \cup Terminals \subseteq Answers!Events
    /\ <<"envelope">> \in Answers!Events
    /\ \A e \in Tokens : e[1] = "token" /\ e # Nothing
    /\ \A e \in Sentinels : e \notin Tokens /\ e # Nothing
    /\ \A e \in Terminals : e \notin Tokens /\ e # Nothing /\ e[1] \in {"citation", "error", "[DONE]"}
    /\ \A i : Token(i)[1] = "token" /\ Token(i) # Nothing
    /\ DONE # ERROR
<1>1. Items = Tokens \cup Sentinels
  BY DEF Items, Tokens, Sentinels
<1>2. Tokens \cup Terminals \subseteq Answers!Events /\ <<"envelope">> \in Answers!Events
  BY DEF Tokens, Terminals, Token, Answers!Events, Answers!Token, Answers!Citation,
         Answers!Error, Answers!Done, Answers!Envelope
<1>3. \A i : Token(i)[1] = "token" /\ Token(i) # Nothing
  BY DEF Token, Nothing
<1>4. \A e \in Tokens : e[1] = "token" /\ e # Nothing
  BY <1>3 DEF Tokens
<1>5. /\ DONE[1] = "stream_done" /\ ERROR[1] = "stream_error"
      /\ DONE # Nothing /\ ERROR # Nothing
  BY DEF DONE, ERROR, Nothing
<1>6. \A e \in Sentinels : e \notin Tokens /\ e # Nothing
  BY <1>4, <1>5 DEF Sentinels
<1>7. \A e \in Terminals : e[1] \in {"citation", "error", "[DONE]"} /\ e # Nothing
  BY DEF Terminals, Nothing
<1>8. \A e \in Terminals : e \notin Tokens
  BY <1>4, <1>7
<1> QED
  BY <1>1, <1>2, <1>3, <1>4, <1>5, <1>6, <1>7, <1>8

\* The items and events the steps make.
LEMMA Values ==
    /\ \A i \in 1..MaxTokens : Token(i) \in Tokens
    /\ DONE \in Sentinels /\ ERROR \in Sentinels
    /\ <<"citation">> \in Terminals /\ <<"error">> \in Terminals /\ <<"[DONE]">> \in Terminals
    /\ Tokens \cup Sentinels = Items
    /\ \A e \in Items : e \in Tokens \/ e \in {DONE, ERROR}
BY DEF Tokens, Sentinels, Terminals, Items

\* Types, what is in hand where something is put or sent, and the late reads.
Local(r) ==
    /\ side[r] \in {"primed", "send"} => out[r] \in Tokens \cup Terminals
    /\ worker[r] \in {"check", "put"} => item[r] \in Tokens \cup Sentinels
    /\ late[r] = 0 \/ (late[r] = 1 /\ worker[r] = "ended")
    /\ side[r] = "new" => worker[r] = "none" /\ late[r] = 0

TypeInv == TypeOK /\ \A r \in Reqs : Local(r)

\* Nobody has asked yet: nothing in hand, nothing read.
LEMMA InitTypeInv == Init => TypeInv
<1> SUFFICES ASSUME Init PROVE TypeInv
  OBVIOUS
<1>1. TypeOK
  <2>1. slots \subseteq Reqs /\ Cardinality(slots) <= Gate
    BY FS_EmptySet, SizesPos DEF Init
  <2>2. queue \in [Reqs -> Seq(Items)] /\ sent \in [Reqs -> Seq(Answers!Events)]
    BY DEF Init
  <2>3. \A r \in Reqs : Len(queue[r]) <= QueueSize
    BY SizesPos DEF Init
  <2>4. made \in [Reqs -> 0..MaxTokens] /\ late \in [Reqs -> Nat]
    BY MaxTokensNat DEF Init
  <2> QED
    BY <2>1, <2>2, <2>3, <2>4 DEF Init, TypeOK
<1>2. \A r \in Reqs : Local(r)
  BY DEF Init, Local
<1> QED
  BY <1>1, <1>2 DEF TypeInv

\* A slot of the gate is taken ...
LEMMA SlotTaken ==
    ASSUME TypeOK, NEW r \in Reqs, Cardinality(slots) < Gate
    PROVE  slots \cup {r} \subseteq Reqs /\ Cardinality(slots \cup {r}) <= Gate
<1>1. IsFiniteSet(slots) /\ Cardinality(slots) \in Nat /\ Gate \in Nat
  BY ReqsFinite, FS_Subset, FS_CardinalityType, SizesPos DEF TypeOK
<1>2. Cardinality(slots \cup {r}) \in {Cardinality(slots), Cardinality(slots) + 1}
  BY <1>1, FS_AddElement
<1> QED
  BY <1>1, <1>2 DEF TypeOK

\* ... and it is given back.
LEMMA SlotGiven ==
    ASSUME TypeOK, NEW r \in Reqs
    PROVE  slots \ {r} \subseteq Reqs /\ Cardinality(slots \ {r}) <= Gate
<1>1. IsFiniteSet(slots) /\ Cardinality(slots) \in Nat /\ Gate \in Nat
  BY ReqsFinite, FS_Subset, FS_CardinalityType, SizesPos DEF TypeOK
<1>2. Cardinality(slots \ {r}) <= Cardinality(slots) /\ Cardinality(slots \ {r}) \in Nat
  BY <1>1, FS_Subset, FS_CardinalityType
<1> QED
  BY <1>1, <1>2 DEF TypeOK

\* Every step keeps the invariant.
LEMMA StepTypeInv ==
    ASSUME TypeInv, NEW r \in Reqs
    PROVE  /\ Begin(r) => TypeInv'
           /\ RetrievalFails(r) => TypeInv'
           /\ WorkerStarts(r) => TypeInv'
           /\ ReadToken(r) => TypeInv'
           /\ (\E how \in {"ended", "failed"} : ReadEnds(r, how)) => TypeInv'
           /\ PutChecks(r) => TypeInv'
           /\ PutLands(r) => TypeInv'
           /\ GetToken(r) => TypeInv'
           /\ GetDone(r) => TypeInv'
           /\ GetError(r) => TypeInv'
           /\ BodyStarts(r) => TypeInv'
           /\ ClientTakes(r) => TypeInv'
           /\ DisconnectAtGet(r) => TypeInv'
           /\ DisconnectAtSend(r) => TypeInv'
           /\ Collect(r) => TypeInv'
<1>1. ASSUME Begin(r) PROVE TypeInv'
  <2>1. TypeOK'
    BY <1>1, SlotTaken DEF Begin, upstream, TypeInv, TypeOK
  <2>2. ASSUME NEW q \in Reqs PROVE Local(q)'
    BY <1>1 DEF Begin, upstream, TypeInv, TypeOK, Local
  <2> QED
    BY <2>1, <2>2 DEF TypeInv
<1>2. ASSUME RetrievalFails(r) PROVE TypeInv'
  <2>1. <<<<"envelope">>>> \in Seq(Answers!Events)
    BY Tagged
  <2>2. TypeOK'
    BY <1>2, <2>1 DEF RetrievalFails, upstream, TypeInv, TypeOK
  <2>3. ASSUME NEW q \in Reqs PROVE Local(q)'
    BY <1>2 DEF RetrievalFails, upstream, TypeInv, TypeOK, Local
  <2> QED
    BY <2>2, <2>3 DEF TypeInv
<1>3. ASSUME WorkerStarts(r) PROVE TypeInv'
  <2>1. TypeOK'
    BY <1>3 DEF WorkerStarts, upstream, TypeInv, TypeOK
  <2>2. ASSUME NEW q \in Reqs PROVE Local(q)'
    BY <1>3 DEF WorkerStarts, upstream, TypeInv, TypeOK, Local
  <2> QED
    BY <2>1, <2>2 DEF TypeInv
<1>4. ASSUME ReadToken(r) PROVE TypeInv'
  <2>1. /\ made[r] + 1 \in 1..MaxTokens /\ Token(made[r] + 1) \in Tokens
        /\ Token(made[r] + 1) \in Items
    BY <1>4, Values, MaxTokensNat DEF ReadToken, TypeInv, TypeOK
  <2>2. TypeOK'
    <3>1. made' \in [Reqs -> 0..MaxTokens] /\ late' \in [Reqs -> Nat]
      <4>1. made[r] + 1 \in 0..MaxTokens
        BY <2>1, MaxTokensNat
      <4> QED
        BY <1>4, <4>1 DEF ReadToken, TypeInv, TypeOK
    <3>2. item' \in [Reqs -> Items \cup {Nothing}]
      BY <1>4, <2>1 DEF ReadToken, TypeInv, TypeOK
    <3>3. worker' \in [Reqs -> {"none", "queued", "read", "check", "put", "ended"}]
      <4>1. \/ worker' = [worker EXCEPT ![r] = "ended"]
            \/ worker' = [worker EXCEPT ![r] = "check"]
        BY <1>4 DEF ReadToken
      <4> QED
        BY <4>1 DEF TypeInv, TypeOK
    <3> QED
      BY <1>4, <3>1, <3>2, <3>3 DEF ReadToken, TypeInv, TypeOK
  <2>3. ASSUME NEW q \in Reqs PROVE Local(q)'
    BY <1>4, <2>1 DEF ReadToken, upstream, TypeInv, TypeOK, Local
  <2> QED
    BY <2>2, <2>3 DEF TypeInv
<1>5. ASSUME NEW how \in {"ended", "failed"}, ReadEnds(r, how) PROVE TypeInv'
  <2>1. {DONE, ERROR} \subseteq Items /\ {DONE, ERROR} \subseteq Sentinels
    BY Values
  <2>2. TypeOK'
    BY <1>5, <2>1 DEF ReadEnds, upstream, TypeInv, TypeOK
  <2>3. ASSUME NEW q \in Reqs PROVE Local(q)'
    BY <1>5, <2>1 DEF ReadEnds, upstream, TypeInv, TypeOK, Local
  <2> QED
    BY <2>2, <2>3 DEF TypeInv
<1>6. ASSUME PutChecks(r) PROVE TypeInv'
  <2>1. TypeOK'
    BY <1>6 DEF PutChecks, AfterPut, upstream, TypeInv, TypeOK
  <2>2. ASSUME NEW q \in Reqs PROVE Local(q)'
    BY <1>6 DEF PutChecks, AfterPut, upstream, TypeInv, TypeOK, Local
  <2> QED
    BY <2>1, <2>2 DEF TypeInv
<1>7. ASSUME PutLands(r) PROVE TypeInv'
  <2>1. /\ Append(queue[r], item[r]) \in Seq(Items)
        /\ Len(Append(queue[r], item[r])) <= QueueSize
    BY <1>7, Tagged, AppendProperties, SizesPos DEF PutLands, TypeInv, Local, TypeOK
  <2>2. TypeOK'
    BY <1>7, <2>1 DEF PutLands, AfterPut, upstream, TypeInv, TypeOK
  <2>3. ASSUME NEW q \in Reqs PROVE Local(q)'
    BY <1>7 DEF PutLands, AfterPut, upstream, TypeInv, TypeOK, Local
  <2> QED
    BY <2>2, <2>3 DEF TypeInv
<1>8. ASSUME GetToken(r) PROVE TypeInv'
  <2>1. /\ Tail(queue[r]) \in Seq(Items) /\ Len(Tail(queue[r])) <= QueueSize
        /\ Head(queue[r]) \in Tokens /\ Head(queue[r]) \in Answers!Events
    BY <1>8, Tagged, Values, HeadTailProperties, SizesPos DEF GetToken, TypeInv, TypeOK
  <2>2. TypeOK'
    BY <1>8, <2>1 DEF GetToken, upstream, TypeInv, TypeOK
  <2>3. ASSUME NEW q \in Reqs PROVE Local(q)'
    BY <1>8, <2>1 DEF GetToken, upstream, TypeInv, TypeOK, Local
  <2> QED
    BY <2>2, <2>3 DEF TypeInv
<1>9. ASSUME GetDone(r) PROVE TypeInv'
  <2>1. <<"citation">> \in Terminals /\ <<"citation">> \in Answers!Events /\ 0 <= QueueSize
    BY Tagged, Values, SizesPos
  <2>2. TypeOK'
    BY <1>9, <2>1 DEF GetDone, StopWorker, upstream, TypeInv, TypeOK
  <2>3. ASSUME NEW q \in Reqs PROVE Local(q)'
    BY <1>9, <2>1 DEF GetDone, StopWorker, upstream, TypeInv, TypeOK, Local
  <2> QED
    BY <2>2, <2>3 DEF TypeInv
<1>10. ASSUME GetError(r) PROVE TypeInv'
  <2>1. /\ <<"error">> \in Terminals /\ <<"error">> \in Answers!Events /\ 0 <= QueueSize
        /\ <<<<"envelope">>>> \in Seq(Answers!Events)
    BY Tagged, Values, SizesPos
  <2>2. slots' \subseteq Reqs /\ Cardinality(slots') <= Gate
    BY <1>10, SlotGiven DEF GetError, TypeInv, TypeOK
  <2>3. TypeOK'
    <3>1. sent' \in [Reqs -> Seq(Answers!Events)] /\ out' \in [Reqs -> Answers!Events \cup {Nothing}]
      BY <1>10, <2>1 DEF GetError, TypeInv, TypeOK
    <3>2. side' \in [Reqs -> {"new", "priming", "primed", "send", "get", "dropped", "over"}]
      <4>1. \/ side' = [side EXCEPT ![r] = "over"]
            \/ side' = [side EXCEPT ![r] = "send"]
        BY <1>10 DEF GetError
      <4> QED
        BY <4>1 DEF TypeInv, TypeOK
    <3> QED
      BY <1>10, <2>1, <2>2, <3>1, <3>2 DEF GetError, StopWorker, upstream, TypeInv, TypeOK
  <2>4. ASSUME NEW q \in Reqs PROVE Local(q)'
    BY <1>10, <2>1 DEF GetError, StopWorker, upstream, TypeInv, TypeOK, Local
  <2> QED
    BY <2>3, <2>4 DEF TypeInv
<1>11. ASSUME BodyStarts(r) PROVE TypeInv'
  <2>1. TypeOK'
    BY <1>11 DEF BodyStarts, upstream, TypeInv, TypeOK
  <2>2. ASSUME NEW q \in Reqs PROVE Local(q)'
    BY <1>11 DEF BodyStarts, upstream, TypeInv, TypeOK, Local
  <2> QED
    BY <2>1, <2>2 DEF TypeInv
<1>12. ASSUME ClientTakes(r) PROVE TypeInv'
  <2>1. /\ <<"[DONE]">> \in Terminals /\ <<"[DONE]">> \in Answers!Events
        /\ Append(sent[r], out[r]) \in Seq(Answers!Events)
        /\ out[r] \in Tokens => out[r][1] = "token"
        /\ out[r] \in Terminals => out[r][1] \in {"citation", "error", "[DONE]"}
        /\ out[r] \in Tokens \cup Terminals
    BY <1>12, Tagged, Values, AppendProperties DEF ClientTakes, TypeInv, Local, TypeOK
  <2>2. slots' \subseteq Reqs /\ Cardinality(slots') <= Gate
    BY <1>12, <2>1, SlotGiven DEF ClientTakes, TypeInv, TypeOK
  <2>3. out[r][1] = "token" \/ out[r][1] \in {"citation", "error"} \/ out[r][1] = "[DONE]"
    BY <2>1
  <2>4. \/ side' = [side EXCEPT ![r] = "get"] /\ out' = [out EXCEPT ![r] = Nothing]
        \/ side' = side /\ out' = [out EXCEPT ![r] = <<"[DONE]">>]
        \/ side' = [side EXCEPT ![r] = "over"] /\ out' = [out EXCEPT ![r] = Nothing]
    BY <1>12, <2>3 DEF ClientTakes
  <2>5. /\ sent' = [sent EXCEPT ![r] = Append(sent[r], out[r])]
        /\ side[r] = "send"
        /\ UNCHANGED <<made, fate, late, worker, item, queue, stop>>
    BY <1>12 DEF ClientTakes, upstream
  <2>6. TypeOK'
    <3>1. side' \in [Reqs -> {"new", "priming", "primed", "send", "get", "dropped", "over"}]
      BY <2>4 DEF TypeInv, TypeOK
    <3>2. out' \in [Reqs -> Answers!Events \cup {Nothing}]
      BY <2>1, <2>4 DEF TypeInv, TypeOK
    <3>3. sent' \in [Reqs -> Seq(Answers!Events)]
      BY <2>1, <2>5 DEF TypeInv, TypeOK
    <3> QED
      BY <2>2, <2>5, <3>1, <3>2, <3>3 DEF TypeInv, TypeOK
  <2>7. ASSUME NEW q \in Reqs PROVE Local(q)'
    <3>1. /\ side'[q] \in {"primed", "send"} => out'[q] \in Tokens \cup Terminals
          /\ side'[q] = "new" => side[q] = "new"
      <4>1. CASE q = r
        BY <2>1, <2>4, <2>5, <4>1 DEF TypeInv, TypeOK
      <4>2. CASE q # r
        BY <2>4, <4>2 DEF TypeInv, TypeOK, Local
      <4> QED
        BY <4>1, <4>2
    <3> QED
      BY <2>5, <3>1 DEF TypeInv, Local
  <2> QED
    BY <2>6, <2>7 DEF TypeInv
<1>13. ASSUME DisconnectAtGet(r) PROVE TypeInv'
  <2>1. 0 <= QueueSize
    BY SizesPos
  <2>2. TypeOK'
    BY <1>13, SlotGiven, <2>1 DEF DisconnectAtGet, StopWorker, upstream, TypeInv, TypeOK
  <2>3. ASSUME NEW q \in Reqs PROVE Local(q)'
    BY <1>13 DEF DisconnectAtGet, StopWorker, upstream, TypeInv, TypeOK, Local
  <2> QED
    BY <2>2, <2>3 DEF TypeInv
<1>14. ASSUME DisconnectAtSend(r) PROVE TypeInv'
  <2>1. TypeOK'
    BY <1>14, SlotGiven DEF DisconnectAtSend, upstream, TypeInv, TypeOK
  <2>2. ASSUME NEW q \in Reqs PROVE Local(q)'
    BY <1>14 DEF DisconnectAtSend, upstream, TypeInv, TypeOK, Local
  <2> QED
    BY <2>1, <2>2 DEF TypeInv
<1>15. ASSUME Collect(r) PROVE TypeInv'
  <2>1. 0 <= QueueSize
    BY SizesPos
  <2>2. TypeOK'
    BY <1>15, <2>1 DEF Collect, StopWorker, upstream, TypeInv, TypeOK
  <2>3. ASSUME NEW q \in Reqs PROVE Local(q)'
    BY <1>15 DEF Collect, StopWorker, upstream, TypeInv, TypeOK, Local
  <2> QED
    BY <2>2, <2>3 DEF TypeInv
<1> QED
  BY <1>1, <1>2, <1>3, <1>4, <1>5, <1>6, <1>7, <1>8, <1>9, <1>10, <1>11, <1>12, <1>13, <1>14, <1>15

\* A stuttering step changes nothing.
LEMMA StutterTypeInv == TypeInv /\ UNCHANGED vars => TypeInv'
BY DEF TypeInv, TypeOK, Local, vars

\* The steps together.
LEMMA NextTypeInv == TypeInv /\ [Next]_vars => TypeInv'
<1> SUFFICES ASSUME TypeInv, [Next]_vars PROVE TypeInv'
  OBVIOUS
<1>1. ASSUME Next PROVE TypeInv'
  <2>1. PICK r \in Reqs : Begin(r) \/ RetrievalFails(r) \/ WorkerStep(r) \/ LoopStep(r) \/ ClientStep(r)
    BY <1>1 DEF Next
  <2>2. CASE WorkerStep(r)
    BY <2>2, StepTypeInv DEF WorkerStep
  <2>3. CASE LoopStep(r)
    BY <2>3, StepTypeInv DEF LoopStep
  <2>4. CASE ClientStep(r)
    BY <2>4, StepTypeInv DEF ClientStep
  <2> QED
    BY <2>1, <2>2, <2>3, <2>4, StepTypeInv
<1> QED
  BY <1>1, StutterTypeInv

\* The typing invariant: what the worker puts is an item, what is sent an event,
\* and the late read is the worker's last.
THEOREM SpecTypeInv == Spec => []TypeInv
<1> QED
  BY InitTypeInv, NextTypeInv, PTL DEF Spec

\* Typed queues within their bound, the gate never above its size, and at most
\* one chunk read after the consuming side has set the stop flag, wherever the
\* worker was when the client left (openai_service.py, stream_openai_response).
THEOREM SpecTeardownPrompt == Spec => []TeardownPrompt
<1>1. TypeInv => TeardownPrompt
  BY DEF TypeInv, Local, TeardownPrompt, StopsWithinOneChunk
<1> QED
  BY <1>1, SpecTypeInv, PTL

-----------------------------------------------------------------------------
\* What position k of the answer holds: a token while there is one, then how it
\* ended.
Want(yielded, how, k) ==
    IF k <= yielded THEN Token(k) ELSE IF how = "ended" THEN DONE ELSE ERROR

OutCount(r) == IF side[r] \in {"primed", "send"} THEN 1 ELSE 0
InHand(r) == IF worker[r] \in {"check", "put"} THEN 1 ELSE 0
TokensOnly(r) == \A i \in 1..Len(sent[r]) : sent[r][i] = Token(i)

\* While tokens flow, the events taken, the one being sent, the queue and the
\* item in the worker's hand are consecutive positions of the answer, and with
\* them everything the model has yielded is accounted for.
Pipe(r) ==
    LET n == Len(sent[r])
        m == n + OutCount(r)
        l == Len(queue[r])
    IN  /\ ~stop[r] /\ worker[r] # "none"
        /\ worker[r] = "ended" => fate[r] # "open"
        /\ TokensOnly(r)
        /\ OutCount(r) = 1 => out[r] = Token(n + 1) /\ n + 1 <= made[r]
        /\ \A j \in 1..l : queue[r][j] = Want(made[r], fate[r], m + j)
        /\ InHand(r) = 1 => item[r] = Want(made[r], fate[r], m + l + 1)
        /\ m + l + InHand(r) = IF fate[r] = "open" THEN made[r] ELSE made[r] + 1

Running(r) ==
    side[r] \in {"priming", "get"} \/ (side[r] \in {"primed", "send"} /\ out[r] \in Tokens)

\* The worker reads on only while the answer is open, and holds a sentinel only
\* when it is not.
WorkerFlow(r) ==
    /\ worker[r] \in {"queued", "read"} => fate[r] = "open"
    /\ worker[r] \in {"check", "put"} => (item[r] \in Sentinels <=> fate[r] # "open")

\* The stages before, after and beside the running one.
Stages(r) ==
    /\ side[r] = "new" => /\ made[r] = 0 /\ fate[r] = "open" /\ ~stop[r]
                          /\ sent[r] = <<>> /\ queue[r] = <<>>
    /\ side[r] \in {"priming", "primed"} => Len(sent[r]) = 0
    /\ side[r] = "get" => Len(sent[r]) > 0
    /\ side[r] \in {"primed", "send"} =>
         /\ out[r] \in {<<"citation">>, <<"error">>} =>
              /\ TokensOnly(r) /\ Len(sent[r]) = made[r]
              /\ fate[r] = IF out[r] = <<"citation">> THEN "ended" ELSE "failed"
         /\ out[r] = <<"error">> => Len(sent[r]) > 0
         /\ out[r] = <<"[DONE]">> =>
              Len(sent[r]) > 0 /\ sent[r][Len(sent[r])] \in {<<"citation">>, <<"error">>}

Flow(r) == WorkerFlow(r) /\ Stages(r) /\ (Running(r) => Pipe(r))

FlowInv == TypeInv /\ \A r \in Reqs : Flow(r)

\* What a step of one request leaves alone of another.
Same(q) ==
    /\ made'[q] = made[q] /\ fate'[q] = fate[q] /\ worker'[q] = worker[q]
    /\ item'[q] = item[q] /\ queue'[q] = queue[q] /\ stop'[q] = stop[q]
    /\ side'[q] = side[q] /\ out'[q] = out[q] /\ sent'[q] = sent[q]

\* The flow of a request whose state is unchanged.
LEMMA SameFlow ==
    ASSUME NEW q \in Reqs, Flow(q), Same(q)
    PROVE  Flow(q)'
<1>1. /\ WorkerFlow(q)' <=> WorkerFlow(q)
      /\ TokensOnly(q)' <=> TokensOnly(q)
      /\ OutCount(q)' = OutCount(q) /\ InHand(q)' = InHand(q)
      /\ Running(q)' <=> Running(q)
  BY DEF Same, WorkerFlow, TokensOnly, OutCount, InHand, Running
<1>2. Stages(q)'
  BY <1>1 DEF Same, Flow, Stages
<1>3. ASSUME Pipe(q) PROVE Pipe(q)'
  BY <1>1, <1>3 DEF Same, Pipe
<1> QED
  BY <1>1, <1>2, <1>3 DEF Flow

\* A step of one request is no step of another.
LEMMA OthersSame ==
    ASSUME TypeInv, NEW r \in Reqs, NEW q \in Reqs, q # r,
           Begin(r) \/ RetrievalFails(r) \/ WorkerStep(r) \/ LoopStep(r) \/ ClientStep(r)
    PROVE  Same(q)
<1> USE DEF TypeInv, TypeOK, Same, upstream, StopWorker
<1>1. CASE Begin(r) \/ RetrievalFails(r)
  BY <1>1 DEF Begin, RetrievalFails
<1>2. CASE WorkerStep(r)
  BY <1>2 DEF WorkerStep, WorkerStarts, ReadToken, ReadEnds, PutChecks, PutLands
<1>3. CASE LoopStep(r)
  BY <1>3 DEF LoopStep, GetToken, GetDone, GetError, BodyStarts, Collect
<1>4. CASE ClientStep(r)
  <2>1. CASE ClientTakes(r)
    <3>1. sent'[q] = sent[q] /\ UNCHANGED <<made, fate, late, worker, item, queue, stop>>
      BY <2>1 DEF ClientTakes
    <3>2. CASE out[r][1] = "token"
      BY <2>1, <3>1, <3>2 DEF ClientTakes
    <3>3. CASE out[r][1] \in {"citation", "error"}
      BY <2>1, <3>1, <3>3 DEF ClientTakes
    <3>4. CASE out[r][1] = "[DONE]"
      BY <2>1, <3>1, <3>4 DEF ClientTakes
    <3> QED
      BY <2>1, <3>2, <3>3, <3>4, Tagged DEF ClientTakes, Local
  <2>2. CASE DisconnectAtGet(r) \/ DisconnectAtSend(r)
    BY <2>2 DEF DisconnectAtGet, DisconnectAtSend
  <2> QED
    BY <1>4, <2>1, <2>2 DEF ClientStep
<1> QED
  BY <1>1, <1>2, <1>3, <1>4

\* What tells tokens, sentinels and terminal events apart, once more.
LEMMA Distinct ==
    /\ \A i : Token(i) \notin Sentinels
    /\ DONE \in Sentinels /\ ERROR \in Sentinels /\ DONE # ERROR
    /\ <<"citation">> # <<"error">> /\ <<"[DONE]">> \notin {<<"citation">>, <<"error">>}
    /\ \A e \in Tokens : e \notin {<<"citation">>, <<"error">>, <<"[DONE]">>}
<1>1. \A i : Token(i) \notin Sentinels
  BY DEF Token, Sentinels, DONE, ERROR
<1> QED
  BY <1>1, Tagged, Values DEF Terminals

\* The steps that begin and refuse.
LEMMA BeginFlow ==
    ASSUME TypeInv, NEW r \in Reqs, Flow(r)
    PROVE  /\ Begin(r) => Flow(r)'
           /\ RetrievalFails(r) => Flow(r)'
<1> USE DEF TypeInv, TypeOK, Flow, Stages, WorkerFlow, Local
<1>1. ASSUME Begin(r) PROVE Flow(r)'
  <2>1. /\ side'[r] = "priming" /\ worker'[r] = "queued" /\ made'[r] = 0 /\ fate'[r] = "open"
        /\ sent'[r] = <<>> /\ queue'[r] = <<>> /\ ~stop'[r]
    BY <1>1 DEF Begin, upstream
  <2>2. Pipe(r)'
    BY <2>1 DEF Pipe, OutCount, InHand, TokensOnly, Want
  <2> QED
    BY <2>1, <2>2
<1>2. ASSUME RetrievalFails(r) PROVE Flow(r)'
  <2>1. side'[r] = "over" /\ worker'[r] = "none"
    BY <1>2 DEF RetrievalFails
  <2> QED
    BY <2>1 DEF Running
<1> QED
  BY <1>1, <1>2

\* The worker starts, and looks at the flag before it puts.
LEMMA WorkerFlowSteps ==
    ASSUME TypeInv, NEW r \in Reqs, Flow(r)
    PROVE  /\ WorkerStarts(r) => Flow(r)'
           /\ PutChecks(r) => Flow(r)'
<1> USE DEF TypeInv, TypeOK, Flow, Stages, WorkerFlow, Local
<1>1. ASSUME WorkerStarts(r) PROVE Flow(r)'
  <2>1. /\ worker[r] = "queued" /\ worker'[r] = "read"
        /\ UNCHANGED <<made, fate, item, queue, stop, side, out, sent>>
    BY <1>1 DEF WorkerStarts, upstream
  <2>2. Pipe(r) => Pipe(r)'
    BY <2>1 DEF Pipe, OutCount, InHand, TokensOnly, Want
  <2> QED
    BY <2>1, <2>2 DEF Running, TokensOnly
<1>2. ASSUME PutChecks(r) PROVE Flow(r)'
  <2>1. worker[r] = "check" /\ UNCHANGED <<made, fate, queue, stop, side, out, sent>>
    BY <1>2 DEF PutChecks, upstream
  <2>2. CASE stop[r]
    <3>1. worker'[r] = AfterPut(r)
      BY <1>2, <2>2 DEF PutChecks
    <3>2. WorkerFlow(r)'
      BY <2>1, <3>1 DEF AfterPut, Sentinels
    <3>3. ~Pipe(r) /\ (Running(r)' <=> Running(r))
      BY <2>1, <2>2 DEF Pipe, Running
    <3> QED
      BY <2>1, <3>2, <3>3 DEF TokensOnly
  <2>3. CASE ~stop[r]
    <3>1. worker'[r] = "put" /\ item'[r] = item[r]
      BY <1>2, <2>3 DEF PutChecks
    <3>2. Pipe(r) => Pipe(r)'
      BY <2>1, <3>1 DEF Pipe, OutCount, InHand, TokensOnly, Want
    <3> QED
      BY <2>1, <3>1, <3>2 DEF Running, TokensOnly
  <2> QED
    BY <2>2, <2>3
<1> QED
  BY <1>1, <1>2

\* The upstream yields a token: the next position, and it goes into the hand.
LEMMA ReadTokenFlow ==
    ASSUME TypeInv, NEW r \in Reqs, Flow(r), ReadToken(r)
    PROVE  Flow(r)'
<1> USE DEF TypeInv, TypeOK, Flow, Stages, WorkerFlow, Local
<1>1. /\ worker[r] = "read" /\ made'[r] = made[r] + 1 /\ made[r] \in Nat /\ fate[r] = "open"
      /\ UNCHANGED <<fate, queue, stop, side, out, sent>>
  BY MaxTokensNat DEF ReadToken
<1>2. side[r] # "new" /\ (Running(r)' <=> Running(r))
  BY <1>1 DEF Running
<1>3. Stages(r)'
  BY <1>1, <1>2
<1>4. CASE stop[r]
  <2>1. worker'[r] = "ended"
    BY <1>4 DEF ReadToken
  <2> QED
    BY <1>1, <1>2, <1>3, <1>4, <2>1 DEF Pipe
<1>5. CASE ~stop[r]
  <2>1. worker'[r] = "check" /\ item'[r] = Token(made[r] + 1)
    BY <1>5 DEF ReadToken
  <2>2. ASSUME Pipe(r) PROVE Pipe(r)'
    <3>1. OutCount(r)' = OutCount(r) /\ InHand(r) = 0 /\ InHand(r)' = 1 /\ OutCount(r) \in {0, 1}
      BY <1>1, <2>1 DEF OutCount, InHand
    <3>2. Len(sent[r]) + OutCount(r) + Len(queue[r]) = made[r]
      BY <1>1, <2>2, <3>1 DEF Pipe
    <3>3. ASSUME NEW k \in Nat, k <= made[r]
          PROVE  Want(made'[r], fate'[r], k) = Want(made[r], fate[r], k)
      BY <1>1, <3>3 DEF Want
    <3>4. Want(made'[r], fate'[r], made[r] + 1) = Token(made[r] + 1)
      BY <1>1 DEF Want
    <3>5. ASSUME NEW j \in 1..Len(queue[r])
          PROVE  queue[r][j] = Want(made'[r], fate'[r], Len(sent[r]) + OutCount(r) + j)
      <4>1. queue[r][j] = Want(made[r], fate[r], Len(sent[r]) + OutCount(r) + j)
        BY <2>2 DEF Pipe
      <4>2. /\ Len(sent[r]) \in Nat /\ Len(queue[r]) \in Nat
            /\ Len(sent[r]) + OutCount(r) + j \in Nat
            /\ Len(sent[r]) + OutCount(r) + j <= made[r]
        BY <3>1, <3>2
      <4> QED
        BY <3>3, <4>1, <4>2
    <3> QED
      BY <1>1, <2>1, <2>2, <3>1, <3>2, <3>4, <3>5 DEF Pipe, TokensOnly
  <2> QED
    BY <1>1, <1>2, <1>3, <2>1, <2>2, Distinct
<1> QED
  BY <1>4, <1>5

\* The upstream ends: the next position is the sentinel.
LEMMA ReadEndsFlow ==
    ASSUME TypeInv, NEW r \in Reqs, Flow(r), NEW how \in {"ended", "failed"}, ReadEnds(r, how)
    PROVE  Flow(r)'
<1> USE DEF TypeInv, TypeOK, Flow, Stages, WorkerFlow, Local
<1>1. /\ worker[r] = "read" /\ fate'[r] = how /\ fate[r] = "open" /\ made[r] \in Nat
      /\ UNCHANGED <<made, queue, stop, side, out, sent>>
  BY MaxTokensNat DEF ReadEnds
<1>2. side[r] # "new" /\ (Running(r)' <=> Running(r))
  BY <1>1 DEF Running
<1>3. Stages(r)'
  BY <1>1, <1>2
<1>4. CASE stop[r]
  <2>1. worker'[r] = "ended"
    BY <1>4 DEF ReadEnds
  <2> QED
    BY <1>1, <1>2, <1>3, <1>4, <2>1 DEF Pipe
<1>5. CASE ~stop[r]
  <2>1. worker'[r] = "check" /\ item'[r] = IF how = "ended" THEN DONE ELSE ERROR
    BY <1>5 DEF ReadEnds
  <2>2. ASSUME Pipe(r) PROVE Pipe(r)'
    <3>1. OutCount(r)' = OutCount(r) /\ InHand(r) = 0 /\ InHand(r)' = 1 /\ OutCount(r) \in {0, 1}
      BY <1>1, <2>1 DEF OutCount, InHand
    <3>2. Len(sent[r]) + OutCount(r) + Len(queue[r]) = made[r]
      BY <1>1, <2>2, <3>1 DEF Pipe
    <3>3. ASSUME NEW k \in Nat, k <= made[r]
          PROVE  Want(made'[r], fate'[r], k) = Want(made[r], fate[r], k)
      BY <1>1, <3>3 DEF Want
    <3>4. Want(made'[r], fate'[r], made[r] + 1) = item'[r]
      BY <1>1, <2>1 DEF Want
    <3>5. ASSUME NEW j \in 1..Len(queue[r])
          PROVE  queue[r][j] = Want(made'[r], fate'[r], Len(sent[r]) + OutCount(r) + j)
      <4>1. queue[r][j] = Want(made[r], fate[r], Len(sent[r]) + OutCount(r) + j)
        BY <2>2 DEF Pipe
      <4>2. /\ Len(sent[r]) \in Nat /\ Len(queue[r]) \in Nat
            /\ Len(sent[r]) + OutCount(r) + j \in Nat
            /\ Len(sent[r]) + OutCount(r) + j <= made[r]
        BY <3>1, <3>2
      <4> QED
        BY <3>3, <4>1, <4>2
    <3> QED
      BY <1>1, <2>1, <2>2, <3>1, <3>2, <3>4, <3>5 DEF Pipe, TokensOnly
  <2> QED
    BY <1>1, <1>2, <1>3, <2>1, <2>2, Distinct
<1> QED
  BY <1>4, <1>5

\* The item lands at the end of the queue, and the worker reads on or is done.
LEMMA PutLandsFlow ==
    ASSUME TypeInv, NEW r \in Reqs, Flow(r), PutLands(r)
    PROVE  Flow(r)'
<1> USE DEF TypeInv, TypeOK, Flow, Stages, WorkerFlow, Local
<1>1. /\ worker[r] = "put" /\ worker'[r] = AfterPut(r) /\ queue'[r] = Append(queue[r], item[r])
      /\ UNCHANGED <<made, fate, stop, side, out, sent>>
  BY DEF PutLands, upstream
<1>2. side[r] # "new" /\ (Running(r)' <=> Running(r)) /\ item[r] \in Items
  BY <1>1, Tagged DEF Running
<1>3. Stages(r)'
  BY <1>1, <1>2 DEF TokensOnly
<1>4. \/ worker'[r] = "ended" /\ fate[r] # "open"
      \/ worker'[r] = "read" /\ fate[r] = "open"
  BY <1>1 DEF AfterPut, Sentinels
<1>5. ASSUME Pipe(r) PROVE Pipe(r)'
  <2>1. OutCount(r)' = OutCount(r) /\ InHand(r) = 1 /\ InHand(r)' = 0 /\ OutCount(r) \in {0, 1}
    BY <1>1, <1>4 DEF OutCount, InHand
  <2>2. /\ Len(queue'[r]) = Len(queue[r]) + 1 /\ Len(queue[r]) \in Nat
        /\ \A j \in 1..Len(queue[r]) : queue'[r][j] = queue[r][j]
        /\ queue'[r][Len(queue[r]) + 1] = item[r]
    BY <1>1, <1>2, AppendProperties
  <2>3. ASSUME NEW j \in 1..Len(queue'[r])
        PROVE  queue'[r][j] = Want(made[r], fate[r], Len(sent[r]) + OutCount(r) + j)
    <3>1. j \in 1..Len(queue[r]) \/ j = Len(queue[r]) + 1
      BY <2>2
    <3>2. /\ Len(sent[r]) \in Nat
          /\ Len(sent[r]) + OutCount(r) + Len(queue[r]) + 1
               = Len(sent[r]) + OutCount(r) + (Len(queue[r]) + 1)
      BY <2>1, <2>2
    <3> QED
      BY <1>5, <2>1, <2>2, <3>1, <3>2 DEF Pipe
  <2>4. Len(sent[r]) + OutCount(r) + Len(queue'[r])
          = IF fate[r] = "open" THEN made[r] ELSE made[r] + 1
    <3>1. Len(sent[r]) \in Nat
      OBVIOUS
    <3>2. Len(sent[r]) + OutCount(r) + Len(queue[r]) + 1
            = IF fate[r] = "open" THEN made[r] ELSE made[r] + 1
      BY <1>5, <2>1 DEF Pipe
    <3>3. Len(sent[r]) + OutCount(r) + Len(queue'[r]) = Len(sent[r]) + OutCount(r) + Len(queue[r]) + 1
      <4>1. \A a, b, l \in Nat : a + b + (l + 1) = a + b + l + 1
        OBVIOUS
      <4>2. OutCount(r) \in Nat /\ Len(queue[r]) \in Nat /\ Len(queue'[r]) = Len(queue[r]) + 1
        BY <2>1, <2>2
      <4> QED
        BY <3>1, <4>1, <4>2
    <3> QED
      BY <3>2, <3>3
  <2>5. TokensOnly(r)'
    BY <1>1, <1>5 DEF Pipe, TokensOnly
  <2>6. Len(sent[r]) + OutCount(r) + Len(queue'[r]) + 0 = Len(sent[r]) + OutCount(r) + Len(queue'[r])
    BY <2>1, <2>2
  <2> QED
    BY <1>1, <1>4, <1>5, <2>1, <2>3, <2>4, <2>5, <2>6 DEF Pipe
<1> QED
  BY <1>1, <1>2, <1>3, <1>4, <1>5

\* The first of the queue is the next position after the events taken.
LEMMA HeadIsNext ==
    ASSUME TypeInv, NEW r \in Reqs, Flow(r), side[r] \in {"priming", "get"}, queue[r] # <<>>
    PROVE  /\ Pipe(r) /\ OutCount(r) = 0 /\ Len(sent[r]) \in Nat /\ made[r] \in Nat
           /\ Head(queue[r]) = Want(made[r], fate[r], Len(sent[r]) + 1)
           /\ Head(queue[r]) \in Sentinels => Len(sent[r]) = made[r] /\ fate[r] # "open"
           /\ Head(queue[r]) = DONE => fate[r] = "ended"
           /\ Head(queue[r]) = ERROR => fate[r] = "failed"
<1> USE DEF TypeInv, TypeOK
<1>1. Pipe(r) /\ OutCount(r) = 0 /\ Len(sent[r]) \in Nat /\ made[r] \in Nat
  BY MaxTokensNat DEF Flow, Running, OutCount
<1>2. Len(queue[r]) \in Nat /\ 1 \in 1..Len(queue[r]) /\ Head(queue[r]) = queue[r][1]
  BY EmptySeq
<1>3. Head(queue[r]) = Want(made[r], fate[r], Len(sent[r]) + 1)
  BY <1>1, <1>2 DEF Pipe
<1>4. Head(queue[r]) \in Sentinels => Len(sent[r]) >= made[r]
  BY <1>1, <1>3, Distinct DEF Want
<1>5. InHand(r) \in {0, 1}
  BY DEF InHand
<1>6. Len(sent[r]) + Len(queue[r]) + InHand(r) = IF fate[r] = "open" THEN made[r] ELSE made[r] + 1
  BY <1>1, <1>2, <1>5 DEF Pipe
<1>7. Head(queue[r]) \in Sentinels => Len(sent[r]) = made[r] /\ fate[r] # "open"
  BY <1>1, <1>2, <1>4, <1>5, <1>6
<1>8. Head(queue[r]) = DONE => fate[r] = "ended"
  BY <1>1, <1>3, <1>7, Distinct DEF Want
<1>9. Head(queue[r]) = ERROR => fate[r] = "failed"
  BY <1>1, <1>3, <1>7, Distinct DEF Want
<1> QED
  BY <1>1, <1>3, <1>7, <1>8, <1>9

\* A token moves from the queue to the one being sent.
LEMMA GetTokenFlow ==
    ASSUME TypeInv, NEW r \in Reqs, Flow(r), GetToken(r)
    PROVE  Flow(r)'
<1> USE DEF TypeInv, TypeOK
<1>1. /\ side[r] \in {"priming", "get"} /\ queue[r] # <<>> /\ Head(queue[r]) \notin Sentinels
      /\ side'[r] = IF side[r] = "priming" THEN "primed" ELSE "send"
      /\ out'[r] = Head(queue[r]) /\ queue'[r] = Tail(queue[r])
      /\ UNCHANGED <<made, fate, worker, item, stop, sent>>
  BY DEF GetToken, upstream, Sentinels
<1>2. Len(sent[r]) + 1 <= made[r] /\ out'[r] = Token(Len(sent[r]) + 1) /\ out'[r] \in Tokens
  <2>1. Len(sent[r]) + 1 <= made[r]
    BY <1>1, HeadIsNext, Distinct DEF Want
  <2>2. out'[r] = Token(Len(sent[r]) + 1)
    BY <1>1, <2>1, HeadIsNext DEF Want
  <2>3. Len(sent[r]) + 1 \in 1..MaxTokens
    BY <1>1, <2>1, HeadIsNext, MaxTokensNat
  <2> QED
    BY <2>1, <2>2, <2>3, Values
<1>3. /\ Len(queue'[r]) = Len(queue[r]) - 1 /\ Len(queue[r]) \in Nat
      /\ \A j \in 1..Len(queue'[r]) : queue'[r][j] = queue[r][j + 1]
  BY <1>1, EmptySeq, HeadTailProperties
<1>4. WorkerFlow(r)' /\ Stages(r)'
  BY <1>1, <1>2, Distinct DEF Flow, WorkerFlow, Stages
<1>5. Pipe(r)'
  <2>1. OutCount(r)' = 1 /\ InHand(r)' = InHand(r) /\ InHand(r) \in {0, 1}
    BY <1>1 DEF OutCount, InHand
  <2>2. Pipe(r) /\ OutCount(r) = 0 /\ Len(sent[r]) \in Nat
    BY <1>1, HeadIsNext
  <2>3. \A n, l \in Nat : n + 1 + (l - 1) = n + 0 + l
    OBVIOUS
  <2>4. Len(sent[r]) + 1 + Len(queue'[r]) = Len(sent[r]) + OutCount(r) + Len(queue[r])
    BY <1>3, <2>2, <2>3
  <2>5. ASSUME NEW j \in 1..Len(queue'[r])
        PROVE  queue'[r][j] = Want(made[r], fate[r], Len(sent[r]) + 1 + j)
    <3>1. j + 1 \in 1..Len(queue[r])
      BY <1>3
    <3>2. queue[r][j + 1] = Want(made[r], fate[r], Len(sent[r]) + OutCount(r) + (j + 1))
      BY <2>2, <3>1 DEF Pipe
    <3>3. Len(sent[r]) + 0 + (j + 1) = Len(sent[r]) + 1 + j
      BY <2>2
    <3> QED
      BY <1>3, <2>2, <3>2, <3>3
  <2>6. TokensOnly(r)'
    BY <1>1, <2>2 DEF Pipe, TokensOnly
  <2> QED
    BY <1>1, <1>2, <2>1, <2>2, <2>4, <2>5, <2>6 DEF Pipe
<1> QED
  BY <1>4, <1>5 DEF Flow

\* The end: nothing but the citation, the error or the envelope is left to say.
LEMMA GetEndFlow ==
    ASSUME TypeInv, NEW r \in Reqs, Flow(r)
    PROVE  /\ GetDone(r) => Flow(r)'
           /\ GetError(r) => Flow(r)'
<1> USE DEF TypeInv, TypeOK
<1>1. ASSUME GetDone(r) PROVE Flow(r)'
  <2>1. /\ side[r] \in {"priming", "get"} /\ queue[r] # <<>> /\ Head(queue[r]) = DONE
        /\ side'[r] = IF side[r] = "priming" THEN "primed" ELSE "send"
        /\ out'[r] = <<"citation">>
        /\ worker'[r] = IF worker[r] = "queued" THEN "ended" ELSE worker[r]
        /\ UNCHANGED <<made, fate, item, sent>>
    BY <1>1 DEF GetDone, upstream, StopWorker
  <2>2. Len(sent[r]) = made[r] /\ fate[r] = "ended" /\ TokensOnly(r)
    BY <2>1, HeadIsNext, Distinct DEF Pipe
  <2>3. WorkerFlow(r)' /\ Stages(r)'
    BY <2>1, <2>2, Distinct DEF Flow, WorkerFlow, Stages, TokensOnly
  <2> QED
    BY <2>1, <2>3, Distinct DEF Flow, Running
<1>2. ASSUME GetError(r) PROVE Flow(r)'
  <2>1. /\ side[r] \in {"priming", "get"} /\ queue[r] # <<>> /\ Head(queue[r]) = ERROR
        /\ worker'[r] = IF worker[r] = "queued" THEN "ended" ELSE worker[r]
        /\ UNCHANGED <<made, fate, item>>
    BY <1>2 DEF GetError, upstream, StopWorker
  <2>2. Len(sent[r]) = made[r] /\ fate[r] = "failed" /\ TokensOnly(r)
    BY <2>1, HeadIsNext, Distinct DEF Pipe
  <2>3. WorkerFlow(r)'
    BY <2>1 DEF Flow, WorkerFlow
  <2>4. CASE side[r] = "priming"
    <3>1. side'[r] = "over"
      BY <1>2, <2>4 DEF GetError
    <3> QED
      BY <2>3, <3>1 DEF Flow, Stages, Running
  <2>5. CASE side[r] = "get"
    <3>1. side'[r] = "send" /\ out'[r] = <<"error">> /\ sent' = sent /\ Len(sent[r]) > 0
      BY <1>2, <2>5 DEF GetError, Flow, Stages
    <3>2. Stages(r)'
      BY <2>1, <2>2, <3>1, Distinct DEF Stages, TokensOnly
    <3> QED
      BY <2>3, <3>1, <3>2, Distinct DEF Flow, Running
  <2> QED
    BY <2>1, <2>4, <2>5
<1> QED
  BY <1>1, <1>2

\* The response starts, or the consuming side is gone.
LEMMA SideFlow ==
    ASSUME TypeInv, NEW r \in Reqs, Flow(r)
    PROVE  /\ BodyStarts(r) => Flow(r)'
           /\ DisconnectAtGet(r) \/ DisconnectAtSend(r) \/ Collect(r) => Flow(r)'
<1> USE DEF TypeInv, TypeOK
<1>1. ASSUME BodyStarts(r) PROVE Flow(r)'
  <2>1. /\ side[r] = "primed" /\ side'[r] = "send"
        /\ UNCHANGED <<made, fate, worker, item, queue, stop, out, sent>>
    BY <1>1 DEF BodyStarts, upstream
  <2>2. /\ (Running(r)' <=> Running(r)) /\ (WorkerFlow(r)' <=> WorkerFlow(r))
        /\ (TokensOnly(r)' <=> TokensOnly(r)) /\ OutCount(r)' = OutCount(r) /\ InHand(r)' = InHand(r)
    BY <2>1 DEF Running, WorkerFlow, TokensOnly, OutCount, InHand
  <2>3. Pipe(r) => Pipe(r)'
    BY <2>1, <2>2 DEF Pipe
  <2>4. out[r] = <<"error">> => Len(sent[r]) > 0
    BY <2>1 DEF Flow, Stages
  <2> QED
    BY <2>1, <2>2, <2>3, <2>4 DEF Flow, Stages
<1>2. ASSUME DisconnectAtGet(r) \/ DisconnectAtSend(r) \/ Collect(r) PROVE Flow(r)'
  <2>1. /\ side'[r] \in {"over", "dropped"}
        /\ worker'[r] = worker[r] \/ worker'[r] = "ended"
        /\ UNCHANGED <<made, fate, item>>
    BY <1>2 DEF DisconnectAtGet, DisconnectAtSend, Collect, upstream, StopWorker
  <2> QED
    BY <2>1 DEF Flow, WorkerFlow, Stages, Running
<1> QED
  BY <1>1, <1>2

\* The client takes an event.  What it takes is what may come next.
LEMMA ClientTakesFlow ==
    ASSUME TypeInv, NEW r \in Reqs, Flow(r), ClientTakes(r)
    PROVE  Flow(r)'
<1> USE DEF TypeInv, TypeOK
<1>1. /\ side[r] = "send" /\ sent'[r] = Append(sent[r], out[r]) /\ out[r] \in Tokens \cup Terminals
      /\ UNCHANGED <<made, fate, worker, item, queue, stop>>
  BY DEF ClientTakes, upstream, Local
<1>2. /\ Len(sent'[r]) = Len(sent[r]) + 1 /\ Len(sent[r]) \in Nat
      /\ \A i \in 1..Len(sent[r]) : sent'[r][i] = sent[r][i]
      /\ sent'[r][Len(sent[r]) + 1] = out[r]
  <2>1. out[r] \in Answers!Events
    BY <1>1, Tagged
  <2> QED
    BY <1>1, <2>1, AppendProperties
<1>3. WorkerFlow(r)'
  BY <1>1 DEF Flow, WorkerFlow
<1>4. CASE out[r] \in Tokens
  <2>1. side'[r] = "get"
    BY <1>4, Tagged DEF ClientTakes
  <2>2. Pipe(r) /\ OutCount(r) = 1
    BY <1>1, <1>4 DEF Flow, Running, OutCount
  <2>3. OutCount(r)' = 0 /\ InHand(r)' = InHand(r) /\ InHand(r) \in {0, 1}
    BY <1>1, <2>1 DEF OutCount, InHand
  <2>4. TokensOnly(r)'
    <3>1. ASSUME NEW i \in 1..Len(sent'[r]) PROVE sent'[r][i] = Token(i)
      <4>1. i \in 1..Len(sent[r]) \/ i = Len(sent[r]) + 1
        BY <1>2
      <4> QED
        BY <1>2, <2>2, <4>1 DEF Pipe, TokensOnly
    <3> QED
      BY <3>1 DEF TokensOnly
  <2>5. Len(sent'[r]) + OutCount(r)' = Len(sent[r]) + OutCount(r)
    BY <1>2, <2>2, <2>3
  <2>6. Pipe(r)'
    BY <1>1, <2>1, <2>2, <2>3, <2>4, <2>5 DEF Pipe
  <2> QED
    BY <1>2, <1>3, <2>1, <2>6 DEF Flow, Stages
<1>5. CASE out[r] \in {<<"citation">>, <<"error">>}
  <2>1. out[r][1] \in {"citation", "error"} /\ out[r][1] # "token"
    BY <1>5
  <2>2. side'[r] = "send" /\ out'[r] = <<"[DONE]">>
    BY <1>1, <2>1 DEF ClientTakes
  <2> QED
    BY <1>2, <1>3, <1>5, <2>2, Distinct DEF Flow, Stages, Running
<1>6. CASE out[r] = <<"[DONE]">>
  <2>1. side'[r] = "over"
    <3>1. out[r][1] = "[DONE]"
      BY <1>6
    <3> QED
      BY <3>1 DEF ClientTakes
  <2> QED
    BY <1>3, <2>1 DEF Flow, Stages, Running
<1> QED
  BY <1>1, <1>4, <1>5, <1>6 DEF Terminals

\* The invariant behind the refinement holds at the start.
LEMMA InitFlowInv == Init => FlowInv
<1> SUFFICES ASSUME Init PROVE FlowInv
  OBVIOUS
<1>1. TypeInv
  BY InitTypeInv
<1>2. ASSUME NEW r \in Reqs PROVE Flow(r)
  BY DEF Init, Flow, WorkerFlow, Stages, Running
<1> QED
  BY <1>1, <1>2 DEF FlowInv

\* Every step keeps it: the request's own by the lemmas above, the others' by
\* being left alone.
LEMMA NextFlowInv == FlowInv /\ [Next]_vars => FlowInv'
<1> SUFFICES ASSUME FlowInv, [Next]_vars PROVE FlowInv'
  OBVIOUS
<1>1. TypeInv'
  BY NextTypeInv DEF FlowInv
<1>2. ASSUME Next, NEW q \in Reqs PROVE Flow(q)'
  <2>1. PICK r \in Reqs : Begin(r) \/ RetrievalFails(r) \/ WorkerStep(r) \/ LoopStep(r) \/ ClientStep(r)
    BY <1>2 DEF Next
  <2>2. TypeInv /\ Flow(q) /\ Flow(r)
    BY DEF FlowInv
  <2>3. CASE q # r
    BY <2>1, <2>2, <2>3, OthersSame, SameFlow
  <2>4. CASE q = r
    <3>1. CASE Begin(r) \/ RetrievalFails(r)
      BY <2>2, <2>4, <3>1, BeginFlow
    <3>2. CASE WorkerStep(r)
      BY <2>2, <2>4, <3>2, WorkerFlowSteps, ReadTokenFlow, ReadEndsFlow, PutLandsFlow DEF WorkerStep
    <3>3. CASE LoopStep(r)
      BY <2>2, <2>4, <3>3, GetTokenFlow, GetEndFlow, SideFlow DEF LoopStep
    <3>4. CASE ClientStep(r)
      BY <2>2, <2>4, <3>4, ClientTakesFlow, SideFlow DEF ClientStep
    <3> QED
      BY <2>1, <3>1, <3>2, <3>3, <3>4
  <2> QED
    BY <2>3, <2>4
<1>3. ASSUME UNCHANGED vars, NEW q \in Reqs PROVE Flow(q)'
  BY <1>3, SameFlow DEF FlowInv, Same, vars
<1> QED
  BY <1>1, <1>2, <1>3 DEF FlowInv

-----------------------------------------------------------------------------
\* The events taken so far, as AnswerStream writes them.
LEMMA TokensOnlyIs ==
    ASSUME TypeInv, NEW r \in Reqs, TokensOnly(r)
    PROVE  sent[r] = [i \in 1..Len(sent[r]) |-> Answers!Token(i)]
<1>1. sent[r] \in Seq(Answers!Events)
  BY DEF TypeInv, TypeOK
<1>2. sent[r] = [i \in 1..Len(sent[r]) |-> sent[r][i]]
  BY <1>1
<1> QED
  BY <1>2 DEF TokensOnly, Token, Answers!Token

\* An event that may come next is delivered.
LEMMA Delivered ==
    ASSUME TypeInv, NEW r \in Reqs, NEW e \in Answers!Events,
           Answers!Continues(r, sent[r], e),
           sent' = [sent EXCEPT ![r] = Append(@, e)], UNCHANGED <<made, fate>>
    PROVE  Answers!Next
BY DEF Answers!Deliver, Answers!Next

\* The steps of the two sides, as AnswerStream sees them.
LEMMA BeginRefines ==
    ASSUME FlowInv, NEW r \in Reqs
    PROVE  /\ Begin(r) => UNCHANGED Answers!vars
           /\ RetrievalFails(r) => Answers!Next
<1>1. ASSUME RetrievalFails(r) PROVE Answers!Next
  <2>1. fate[r] = "open" /\ made[r] = 0
    BY <1>1 DEF RetrievalFails, FlowInv, Flow, Stages
  <2> QED
    BY <1>1, <2>1 DEF RetrievalFails, Answers!Refuse, Answers!Envelope, Answers!Next
<1> QED
  BY <1>1 DEF Begin, upstream, Answers!vars

\* A read is a token or the end of the answer; what is put is not seen.
LEMMA WorkerRefines ==
    ASSUME FlowInv, NEW r \in Reqs, WorkerStep(r)
    PROVE  Answers!Next \/ UNCHANGED Answers!vars
<1>1. worker[r] = "read" => fate[r] = "open"
  BY DEF FlowInv, Flow, WorkerFlow
<1>2. CASE ReadToken(r)
  BY <1>1, <1>2 DEF ReadToken, Answers!Produce, Answers!Next
<1>3. ASSUME NEW how \in {"ended", "failed"}, ReadEnds(r, how) PROVE Answers!Next
  BY <1>1, <1>3 DEF ReadEnds, Answers!End, Answers!Next
<1> QED
  BY <1>2, <1>3 DEF WorkerStep, WorkerStarts, PutChecks, PutLands, upstream, Answers!vars

\* A failure before the first token is the envelope and nothing else.
LEMMA LoopRefines ==
    ASSUME FlowInv, NEW r \in Reqs, LoopStep(r)
    PROVE  Answers!Next \/ UNCHANGED Answers!vars
<1>1. TypeInv /\ Flow(r)
  BY DEF FlowInv
<1>2. CASE GetError(r) /\ side[r] = "priming"
  <2>1. /\ Len(sent[r]) = made[r] /\ fate[r] = "failed" /\ TokensOnly(r) /\ Len(sent[r]) = 0
    BY <1>1, <1>2, HeadIsNext, Distinct DEF GetError, Pipe, Flow, Stages
  <2>2. sent[r] = [i \in 1..Len(sent[r]) |-> Answers!Token(i)]
    BY <1>1, <2>1, TokensOnlyIs
  <2>3. Answers!Continues(r, sent[r], Answers!Envelope)
    BY <2>1, <2>2 DEF Answers!Continues
  <2>4. sent' = [sent EXCEPT ![r] = Append(@, Answers!Envelope)]
    <3>1. sent[r] = <<>>
      BY <1>1, <2>1 DEF TypeInv, TypeOK
    <3> QED
      BY <1>2, <3>1 DEF GetError, Answers!Envelope
  <2> QED
    BY <1>1, <1>2, <2>3, <2>4, Delivered DEF GetError, upstream, Answers!Events
<1>3. CASE GetError(r) /\ side[r] # "priming"
  BY <1>3 DEF GetError, upstream, Answers!vars
<1> QED
  BY <1>2, <1>3 DEF LoopStep, GetToken, GetDone, BodyStarts, Collect, upstream, Answers!vars

\* What the client takes is the next token, the truthful end, or [DONE] after it.
LEMMA ClientRefines ==
    ASSUME FlowInv, NEW r \in Reqs, ClientStep(r)
    PROVE  Answers!Next \/ UNCHANGED Answers!vars
<1>1. TypeInv /\ Flow(r)
  BY DEF FlowInv
<1>2. CASE ClientTakes(r)
  <2>1. /\ side[r] = "send" /\ out[r] \in Tokens \cup Terminals /\ out[r] \in Answers!Events
        /\ sent' = [sent EXCEPT ![r] = Append(@, out[r])] /\ UNCHANGED <<made, fate>>
    BY <1>1, <1>2, Tagged DEF ClientTakes, upstream, TypeInv, Local
  <2>2. Len(sent[r]) \in Nat /\ made[r] \in Nat
    BY <1>1, MaxTokensNat DEF TypeInv, TypeOK
  <2>3. CASE out[r] \in Tokens
    <3>1. TokensOnly(r) /\ out[r] = Token(Len(sent[r]) + 1) /\ Len(sent[r]) + 1 <= made[r]
      BY <1>1, <2>1, <2>3 DEF Flow, Running, Pipe, OutCount
    <3>2. sent[r] = [i \in 1..Len(sent[r]) |-> Answers!Token(i)]
      BY <1>1, <3>1, TokensOnlyIs
    <3>3. Answers!Continues(r, sent[r], out[r])
      BY <2>2, <3>1, <3>2 DEF Answers!Continues, Answers!Token, Token
    <3> QED
      BY <1>1, <2>1, <3>3, Delivered
  <2>4. CASE out[r] \in {<<"citation">>, <<"error">>}
    <3>1. /\ TokensOnly(r) /\ Len(sent[r]) = made[r]
          /\ out[r] = <<"citation">> => fate[r] = "ended"
          /\ out[r] = <<"error">> => fate[r] = "failed" /\ Len(sent[r]) > 0
      BY <1>1, <2>1, <2>4, Distinct DEF Flow, Stages
    <3>2. sent[r] = [i \in 1..Len(sent[r]) |-> Answers!Token(i)]
      BY <1>1, <3>1, TokensOnlyIs
    <3>3. Answers!Continues(r, sent[r], out[r])
      BY <2>4, <3>1, <3>2 DEF Answers!Continues, Answers!Citation, Answers!Error
    <3> QED
      BY <1>1, <2>1, <3>3, Delivered
  <2>5. CASE out[r] = <<"[DONE]">>
    <3>1. Len(sent[r]) > 0 /\ sent[r][Len(sent[r])] \in {<<"citation">>, <<"error">>}
      BY <1>1, <2>1, <2>5 DEF Flow, Stages
    <3>2. Answers!Continues(r, sent[r], out[r])
      BY <2>5, <3>1 DEF Answers!Continues, Answers!Citation, Answers!Error, Answers!Done
    <3> QED
      BY <1>1, <2>1, <3>2, Delivered
  <2> QED
    BY <2>1, <2>3, <2>4, <2>5 DEF Terminals
<1> QED
  BY <1>2 DEF ClientStep, DisconnectAtGet, DisconnectAtSend, upstream, Answers!vars

\* Threads, bounded queue and generators implement AnswerStream: whatever the
\* threads and the clients do, no client is given a token out of order, twice or
\* without the ones before it, an end that is not the model's, or anything after
\* [DONE] (openai_service.py, stream_openai_response; app.py, event_source).
THEOREM SpecImplementsAnswerStream == Spec => ImplementsAnswerStream
<1>1. Init => Answers!Init
  BY DEF Init, Answers!Init
<1>2. FlowInv /\ [Next]_vars => [Answers!Next]_(Answers!vars)
  <2>1. ASSUME FlowInv, NEW r \in Reqs,
               Begin(r) \/ RetrievalFails(r) \/ WorkerStep(r) \/ LoopStep(r) \/ ClientStep(r)
        PROVE  [Answers!Next]_(Answers!vars)
    BY <2>1, BeginRefines, WorkerRefines, LoopRefines, ClientRefines
  <2>2. UNCHANGED vars => UNCHANGED Answers!vars
    BY DEF vars, Answers!vars
  <2> QED
    BY <2>1, <2>2 DEF Next
<1>3. Spec => []FlowInv
  BY InitFlowInv, NextFlowInv, PTL DEF Spec
<1> QED
  BY <1>1, <1>2, <1>3, PTL DEF Spec, ImplementsAnswerStream, Answers!Spec
================================================================================
