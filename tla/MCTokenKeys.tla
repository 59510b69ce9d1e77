----------------------------- MODULE MCTokenKeys -----------------------------
(* Instances of TokenKeys for TLC. *)
EXTENDS TokenKeys, TLC

CONSTANTS r1, r2, r3, ka, kb

Forever == MaxClock + 1
Always == [from |-> 0, to |-> Forever]
During(from, to) == [from |-> from, to |-> to]

\* The old key is withdrawn, a new one takes over: with an overlap, at once, or late.
Rotations == { ka :> During(0, 1) @@ kb :> During(1, Forever),
               ka :> During(0, 4) @@ kb :> During(3, Forever),
               ka :> Always @@ kb :> Always }

Good(k) == [shape |-> "token", kid |-> k, flaw |-> "none", exp |-> MaxClock, tid |-> "t1", tag |-> "a"]
Public == [Good(ka) EXCEPT !.shape = "public"]
Unread == [Good(ka) EXCEPT !.shape = "unreadable"]
Expires == [Good(ka) EXCEPT !.exp = 1]
Absent == [Good(ka) EXCEPT !.shape = "absent"]
NoEmail == [Good(ka) EXCEPT !.flaw = "email"]
Unsigned == [Good(ka) EXCEPT !.flaw = "signature"]
Tag(t) == [t EXCEPT !.tag = "b"]
NoTid(t) == [t EXCEPT !.tid = "none"]

Enforcing == [flag |-> "true", map |-> [t1 |-> {"a"}]]
Settings == { Enforcing, [flag |-> "unset", map |-> [t1 |-> {"a"}]],
              [flag |-> "stray", map |-> [t2 |-> {"a"}]], [flag |-> "off", map |-> <<>>] }

\* Good tokens under both keys, in every pattern; and tokens that are refused for what they say.
Instances ==
    [life : Rotations, cfg : {Enforcing},
     toks : { r1 :> x @@ r2 :> Good(kb) @@ r3 :> z :
                x \in {Good(ka), Good(kb)}, z \in {Good(ka), Good(kb)} }]
    \cup
    [life : {ka :> Always @@ kb :> Always}, cfg : Settings,
     toks : { r1 :> x @@ r2 :> y @@ r3 :> Good(kb) :
                x \in {Public, Absent, Unread, Unsigned}, y \in {Expires, NoEmail, Tag(Good(ka)), NoTid(Good(ka))} }]

=============================================================================
