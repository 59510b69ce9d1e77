----------------------------- MODULE AnswerStream -----------------------------
(***************************************************************************)
(* What POST /qna/stream promises its clients, with no threads, queue or   *)
(* generators: every token of the answer, in order and none lost, then one *)
(* citation and [DONE]; or, when the model fails, every token it produced  *)
(* before that, then one error and [DONE]; or an error envelope and no     *)
(* stream when it fails before the first token.                            *)
(***************************************************************************)
EXTENDS Naturals, Sequences

CONSTANTS Reqs,      \* requests
          MaxTokens  \* bound: tokens of one answer

VARIABLES made,  \* tokens the model has produced for each request
          fate,  \* "open", then "ended" or "failed"
          sent   \* the events the client has been given

vars == <<made, fate, sent>>

\* Events: the i-th token of the answer, or one of the others.
Token(i) == <<"token", i>>
Citation == <<"citation">>
Error == <<"error">>
Envelope == <<"envelope">>
Done == <<"[DONE]">>
Events == {Token(i) : i \in 1..MaxTokens} \cup {Citation, Error, Envelope, Done}

Init ==
    /\ made = [r \in Reqs |-> 0]
    /\ fate = [r \in Reqs |-> "open"]
    /\ sent = [r \in Reqs |-> <<>>]

Produce(r) ==
    /\ fate[r] = "open" /\ made[r] < MaxTokens
    /\ made' = [made EXCEPT ![r] = @ + 1]
    /\ UNCHANGED <<fate, sent>>

End(r, how) ==
    /\ fate[r] = "open"
    /\ fate' = [fate EXCEPT ![r] = how]
    /\ UNCHANGED <<made, sent>>

\* What may come next after the events s.
Continues(r, s, e) ==
    LET n == Len(s)
        tokensOnly == s = [i \in 1..n |-> Token(i)]
    IN  \/ tokensOnly /\ n < made[r] /\ e = Token(n + 1)
        \/ tokensOnly /\ n = made[r] /\ fate[r] = "ended" /\ e = Citation
        \/ tokensOnly /\ n = made[r] /\ fate[r] = "failed" /\ e = IF n > 0 THEN Error ELSE Envelope
        \/ n > 0 /\ s[n] \in {Citation, Error} /\ e = Done

Deliver(r) ==
    /\ \E e \in Events : Continues(r, sent[r], e) /\ sent' = [sent EXCEPT ![r] = Append(@, e)]
    /\ UNCHANGED <<made, fate>>

\* Nothing could be retrieved: no answer is begun.
Refuse(r) ==
    /\ fate[r] = "open" /\ made[r] = 0
    /\ fate' = [fate EXCEPT ![r] = "failed"]
    /\ sent' = [sent EXCEPT ![r] = <<Envelope>>]
    /\ UNCHANGED made

Next ==
    \E r \in Reqs :
        Produce(r) \/ End(r, "ended") \/ End(r, "failed") \/ Deliver(r) \/ Refuse(r)

Spec == Init /\ [][Next]_vars

=============================================================================
