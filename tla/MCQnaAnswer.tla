------------------------------ MODULE MCQnaAnswer ------------------------------
(* Instances of QnaAnswer for TLC: the requests and flags each mix has. *)
EXTENDS QnaAnswer

CONSTANTS r1, r2, r3, r4, g1, g2

Ask(tag, mode, query) == [tag |-> tag, mode |-> mode, query |-> query]

\* Two spellings of one question, and another question.
NormalForms == [q \in {"q1", "Q1", "q2"} |-> IF q = "q2" THEN "q2" ELSE "q1"]

\* One key asked twice, its question in another mode and by another tenant.
CacheMix == [flags |-> {"cache"},
             job |-> [r \in Reqs |-> CASE r = r1 -> Ask(g1, "read", "q1")
                                       [] r = r2 -> Ask(g1, "read", "Q1")
                                       [] r = r3 -> Ask(g1, "layout", "q1")
                                       [] r = r4 -> Ask(g2, "read", "q1")]]

\* Every route open, two requests that share the map threads.
AgentMix == [flags |-> {"agent", "map_reduce", "react", "verify"},
             job |-> [r \in {r1, r2} |-> Ask(g1, "read", IF r = r1 THEN "q1" ELSE "q2")]]

\* The map route and the verifier closed, and the cache open, with one key.
ClosedMix == [flags |-> {"agent", "react", "cache"},
              job |-> [r \in {r1, r2} |-> Ask(g1, "read", "q1")]]

AllMixes == {CacheMix, AgentMix, ClosedMix}

=============================================================================
