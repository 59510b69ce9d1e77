------------------------------ MODULE KeyedMutex ------------------------------
(***************************************************************************)
(* What the single-flight layer of the connector driver promises, with no  *)
(* registry, reference counts or lock objects: for each slot at most one   *)
(* run at a time is inside the critical window (fetch, delete the prior    *)
(* chunks, upload), a run is inside one window at a time, and windows of   *)
(* different slots overlap freely.                                         *)
(***************************************************************************)

CONSTANTS Runs,   \* connector runs
          Slots   \* what is locked: one source_path of one bot_tag

VARIABLE window   \* window[s]: the runs inside the window of slot s

Init == window = [s \in Slots |-> {}]

Enter(r, s) ==
    /\ window[s] = {}
    /\ \A o \in Slots : r \notin window[o]
    /\ window' = [window EXCEPT ![s] = {r}]

\* Runs leave by releasing the lock, or several at once when the process dies.
Leave(R) ==
    window' = [s \in Slots |-> window[s] \ R]

Next ==
    \/ \E r \in Runs, s \in Slots : Enter(r, s)
    \/ \E R \in SUBSET Runs : Leave(R)

Spec == Init /\ [][Next]_window

=============================================================================
