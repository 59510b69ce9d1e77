------------------------------ MODULE RemoteCall ------------------------------
(***************************************************************************)
(* What a call of the Python SDK promises about the server, whatever the   *)
(* network does: a call that changes state takes effect at most once, an   *)
(* answer is only given for a call that took effect, and a call reported   *)
(* as never sent has no effect and will have none.  Retries, timeouts and  *)
(* the wire are not visible here.                                          *)
(***************************************************************************)
EXTENDS Naturals

CONSTANT Calls

VARIABLES
    once,       \* the calls that change state on the server; never changes
    ran,        \* how often every call took effect
    verdict     \* "open", "answered", "unsent" or "failed": what the caller was told

Init ==
    /\ once \subseteq Calls
    /\ ran = [c \in Calls |-> 0]
    /\ verdict = [c \in Calls |-> "open"]

\* A call may take effect after its caller gave up.
Run(c) ==
    /\ verdict[c] # "unsent"
    /\ c \in once => ran[c] = 0
    /\ ran' = [ran EXCEPT ![c] = @ + 1]
    /\ UNCHANGED <<once, verdict>>

Tell(c, v) ==
    /\ verdict[c] = "open"
    /\ v = "answered" => ran[c] > 0
    /\ v = "unsent" /\ c \in once => ran[c] = 0
    /\ verdict' = [verdict EXCEPT ![c] = v]
    /\ UNCHANGED <<once, ran>>

Next == \E c \in Calls : Run(c) \/ \E v \in {"answered", "unsent", "failed"} : Tell(c, v)

Spec == Init /\ [][Next]_<<once, ran, verdict>>
===============================================================================
