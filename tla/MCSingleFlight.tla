---------------------------- MODULE MCSingleFlight ----------------------------
(* Instances of SingleFlight for TLC. *)
EXTENDS SingleFlight

CONSTANTS r1, r2, r3, p1, p2

\* The container's default: two workers, and the trigger lands on either.
TwoProcesses == [r \in Runs |-> IF r = r2 THEN p2 ELSE p1]

=============================================================================
