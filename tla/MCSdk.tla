--------------------------------- MODULE MCSdk ---------------------------------
(***************************************************************************)
(* The instance of Sdk: one or two calls of each kind and caller; tokens   *)
(* with a line break, an empty token, and one that reads like a field.     *)
(***************************************************************************)
EXTENDS Sdk

CONSTANTS c1, c2

MCCalls == {c1, c2}

Call(op, by, lacks) == [op |-> op, by |-> by, lacks |-> lacks, tokens |-> <<>>]
Stream(tokens) == [op |-> "stream", by |-> "code", lacks |-> {}, tokens |-> tokens]

Sync == Call("sync", "cli", {})
Plain == {Call("ask", "teams", {}), Call("ask", "retriever", {}), Call("read", "cli", {})}
Refused == {Call("ask", "teams", {"tenant"}), Call("ask", "teams", {"form", "token"}),
            Call("ask", "teams", {"token"}), Call("sync", "cli", {"credentials"}),
            Call("stream", "code", {"query"})}
Streams == {Stream(<<<<"a">>, <<"b">>>>), Stream(<<<<"a", "", "b">>, <<"">>>>),
            Stream(<<<<"event: error">>, <<"a", "b">>, <<"b">>>>), Stream(<<>>)}

\* The second call of a pair is over quickly: the calls share nothing.
MCCases ==
    {[c \in MCCalls |-> IF c = c1 THEN a ELSE b] :
       a \in {Sync} \cup Plain \cup Streams, b \in {Sync} \cup Refused}

\* The hypothesis of a theorem about Sdk holds in this instance.
ASSUME CasesCovered == SentinelFree
===============================================================================
