------------------------------ MODULE MCThrottle ------------------------------
(* Instances of Throttle for TLC. *)
EXTENDS Throttle

CONSTANTS r1, r2, r3, r4, r5, k1, k2

\* Every request but r4 is for k1, so those may be permuted.
TwoKeys == [r \in Reqs |-> IF r = r4 THEN k2 ELSE k1]
Symmetry == Permutations(Reqs \ {r4})

=============================================================================
