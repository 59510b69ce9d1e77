----------------------------- MODULE MCRunStatus -----------------------------
(***************************************************************************)
(* Instance of RunStatus for TLC.  Run ids are numbers here, so that runs  *)
(* which differ in nothing but their ids are explored once.                *)
(***************************************************************************)
EXTENDS RunStatus

CONSTANTS
    FirstProc,
    MaxStrays   \* bound: runs that are polled in a process other than their own

\* The ids are random and no step compares them: triggers may as well draw them
\* in order, and the process of the first trigger may as well be FirstProc.
DrawnInOrder ==
    /\ \A q, r \in Runs : q < r /\ phase[r] # "new" => phase[q] # "new"
    /\ \A r \in Runs : (\A q \in Runs : r <= q) => home[r] \in {NoProc, FirstProc}

FewStrays ==
    Cardinality({r \in Runs : \E p \in Procs \ {home[r]} : answer[r][p] # "none"}) <= MaxStrays
=============================================================================
