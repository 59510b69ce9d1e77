----------------------------- MODULE SingleFlight -----------------------------
(***************************************************************************)
(* The connector driver's single-flight locking                            *)
(* (services/ingestion/connectors/core.py): the registry of per-key locks  *)
(* with drop-when-idle reference counts, and the control of run_connector  *)
(* around it.  Every run executes on a thread of its own, so the steps of  *)
(* different runs interleave; the registry and its locks live in the       *)
(* memory of one worker process.                                           *)
(***************************************************************************)
EXTENDS Naturals, FiniteSets

CONSTANTS
    Runs,      \* connector runs
    Procs,     \* worker processes of the service
    ProcOf,    \* the process whose threadpool executes a run
    Keys,      \* (source_path, bot_tag) pairs
    Locks,     \* identities of threading.Lock objects
    NoLock,    \* stands for "no lock object"
    NoKey,     \* stands for "no item"
    MaxItems   \* bound: items one run enumerates

ASSUME RunsFinite == IsFiniteSet(Runs)
ASSUME ProcOfType == ProcOf \in [Runs -> Procs]
ASSUME NoLockFresh == NoLock \notin Locks
ASSUME NoKeyFresh == NoKey \notin Keys
ASSUME MaxItemsNat == MaxItems \in Nat

VARIABLES
    registry,  \* _locks of every process: slot -> [lock, waiter count]
    locked,    \* the lock objects that are acquired
    pc,        \* where each run is in run_connector
    item,      \* the key each run is working on
    mine,      \* the lock object _acquire_single_flight gave the run
    seen,      \* number of items the run has taken from enumerate()
    processed, \* the driver's processed counter
    failing    \* an item raised; the exception is on its way out

vars == <<registry, locked, pc, item, mine, seen, processed, failing>>

-----------------------------------------------------------------------------
\* A key means something only inside the process that holds the registry.
Slots == Procs \X Keys
SlotOf(r) == <<ProcOf[r], item[r]>>

Absent == [lock |-> NoLock, count |-> 0]

\* The run holds its lock: the code between lock.acquire and lock.release.
Window == {"fetch", "delete", "upload", "unlock"}

\* Between _acquire_single_flight and _release_single_flight.
Registered == {"waiting", "drop"} \cup Window

Live == {"enumerate"} \cup Registered
Ended == {"done", "failed", "crashed"}

Interested(s) == {r \in Runs : pc[r] \in Registered /\ SlotOf(r) = s}

\* Objects some part of the process still refers to; a new lock is none of them.
InUse == locked \cup {registry[s].lock : s \in Slots} \cup {mine[r] : r \in Runs}

-----------------------------------------------------------------------------
Init ==
    /\ registry = [s \in Slots |-> Absent]
    /\ locked = {}
    /\ pc = [r \in Runs |-> "idle"]
    /\ item = [r \in Runs |-> NoKey]
    /\ mine = [r \in Runs |-> NoLock]
    /\ seen = [r \in Runs |-> 0]
    /\ processed = [r \in Runs |-> 0]
    /\ failing = [r \in Runs |-> FALSE]

\* A triggered run is picked up by a thread of the pool.
Start(r) ==
    /\ pc[r] = "idle"
    /\ pc' = [pc EXCEPT ![r] = "enumerate"]
    /\ UNCHANGED <<registry, locked, item, mine, seen, processed, failing>>

\* Faulty form: a fresh lock for every caller, as if nothing were shared.
GrantFresh(s, l) == l \in Locks \ InUse

\* The lock _acquire_single_flight returns: the registered one, else a new one.
Grant(s, l) ==
    /\ l \in Locks
    /\ IF registry[s] = Absent THEN l \notin InUse ELSE l = registry[s].lock

\* enumerate() yields an item; interest is registered before the lock is taken.
NextItem(r, k) ==
    LET s == <<ProcOf[r], k>>
    IN  /\ pc[r] = "enumerate"
        /\ seen[r] < MaxItems
        /\ \E l \in Locks :
              /\ Grant(s, l)
              /\ registry' = [registry EXCEPT ![s] = [lock |-> l, count |-> @.count + 1]]
              /\ mine' = [mine EXCEPT ![r] = l]
        /\ item' = [item EXCEPT ![r] = k]
        /\ seen' = [seen EXCEPT ![r] = @ + 1]
        /\ pc' = [pc EXCEPT ![r] = "waiting"]
        /\ UNCHANGED <<locked, processed, failing>>

\* The listing itself raises: outside the try, nothing is registered.
EnumerateFails(r) ==
    /\ pc[r] = "enumerate"
    /\ pc' = [pc EXCEPT ![r] = "failed"]
    /\ UNCHANGED <<registry, locked, item, mine, seen, processed, failing>>

\* The listing is exhausted: run_connector returns its summary.
Finish(r) ==
    /\ pc[r] = "enumerate"
    /\ pc' = [pc EXCEPT ![r] = "done"]
    /\ UNCHANGED <<registry, locked, item, mine, seen, processed, failing>>

\* lock.acquire returns on the helper thread.
AcquireLock(r) ==
    /\ pc[r] = "waiting"
    /\ mine[r] \notin locked
    /\ locked' = locked \cup {mine[r]}
    /\ pc' = [pc EXCEPT ![r] = "fetch"]
    /\ UNCHANGED <<registry, item, mine, seen, processed, failing>>

\* ... or raises, when the helper thread cannot be had: nothing is locked, and
\* only the outer finally is left.
AcquireFails(r) ==
    /\ pc[r] = "waiting"
    /\ failing' = [failing EXCEPT ![r] = TRUE]
    /\ pc' = [pc EXCEPT ![r] = "drop"]
    /\ UNCHANGED <<registry, locked, item, mine, seen, processed>>

StageAfter(stage) ==
    CASE stage = "fetch"  -> "delete"
      [] stage = "delete" -> "upload"
      [] stage = "upload" -> "unlock"

\* fetch, delete_by_source_path or upload returns.
StageSucceeds(r) ==
    /\ pc[r] \in {"fetch", "delete", "upload"}
    /\ pc' = [pc EXCEPT ![r] = StageAfter(pc[r])]
    /\ UNCHANGED <<registry, locked, item, mine, seen, processed, failing>>

\* ... or raises: control goes to the finally clauses with the exception.
StageFails(r) ==
    /\ pc[r] \in {"fetch", "delete", "upload"}
    /\ failing' = [failing EXCEPT ![r] = TRUE]
    /\ pc' = [pc EXCEPT ![r] = "unlock"]
    /\ UNCHANGED <<registry, locked, item, mine, seen, processed>>

\* Faulty form: release() is skipped when an exception is propagating.
ReleaseLockOnSuccess(r) ==
    /\ pc[r] = "unlock"
    /\ locked' = IF failing[r] THEN locked ELSE locked \ {mine[r]}
    /\ pc' = [pc EXCEPT ![r] = "drop"]
    /\ UNCHANGED <<registry, item, mine, seen, processed, failing>>

\* The inner finally: lock.release().
ReleaseLock(r) ==
    /\ pc[r] = "unlock"
    /\ locked' = locked \ {mine[r]}
    /\ pc' = [pc EXCEPT ![r] = "drop"]
    /\ UNCHANGED <<registry, item, mine, seen, processed, failing>>

\* Faulty form: the releaser deletes the entry although others wait on it.
DroppedEvicting(e) == Absent

\* The entry after one waiter leaves; the last one takes the entry with it.
Dropped(e) ==
    IF e.count <= 1 THEN Absent ELSE [lock |-> e.lock, count |-> e.count - 1]

\* Faulty form: the failure path returns without _release_single_flight.
DropInterestLeaky(r) ==
    /\ pc[r] = "drop"
    /\ registry' = IF failing[r] THEN registry
                   ELSE [registry EXCEPT ![SlotOf(r)] = Dropped(@)]
    /\ IF failing[r]
       THEN pc' = [pc EXCEPT ![r] = "failed"] /\ UNCHANGED processed
       ELSE /\ pc' = [pc EXCEPT ![r] = "enumerate"]
            /\ processed' = [processed EXCEPT ![r] = @ + 1]
    /\ item' = [item EXCEPT ![r] = NoKey]
    /\ mine' = [mine EXCEPT ![r] = NoLock]
    /\ UNCHANGED <<locked, seen, failing>>

\* The outer finally: _release_single_flight; then the item counts as processed
\* or ConnectorRunError leaves the driver.
DropInterest(r) ==
    /\ pc[r] = "drop"
    /\ registry' = [registry EXCEPT ![SlotOf(r)] = Dropped(@)]
    /\ IF failing[r]
       THEN pc' = [pc EXCEPT ![r] = "failed"] /\ UNCHANGED processed
       ELSE /\ pc' = [pc EXCEPT ![r] = "enumerate"]
            /\ processed' = [processed EXCEPT ![r] = @ + 1]
    /\ item' = [item EXCEPT ![r] = NoKey]
    /\ mine' = [mine EXCEPT ![r] = NoLock]
    /\ UNCHANGED <<locked, seen, failing>>

\* The worker process dies: its registry, its locks and its threads are gone.
Crash(p) ==
    LET dead == {r \in Runs : ProcOf[r] = p /\ pc[r] \in Live}
    IN  /\ dead # {}
        /\ registry' = [s \in Slots |-> IF s[1] = p THEN Absent ELSE registry[s]]
        /\ locked' = locked \ {mine[r] : r \in dead}
        /\ pc' = [r \in Runs |-> IF r \in dead THEN "crashed" ELSE pc[r]]
        /\ item' = [r \in Runs |-> IF r \in dead THEN NoKey ELSE item[r]]
        /\ mine' = [r \in Runs |-> IF r \in dead THEN NoLock ELSE mine[r]]
        /\ UNCHANGED <<seen, processed, failing>>

-----------------------------------------------------------------------------
\* What one run does by itself.
RunStep(r) ==
    \/ Start(r)
    \/ \E k \in Keys : NextItem(r, k)
    \/ EnumerateFails(r)
    \/ Finish(r)
    \/ AcquireLock(r)
    \/ StageSucceeds(r)
    \/ StageFails(r)
    \/ ReleaseLock(r)
    \/ DropInterest(r)

Next ==
    \/ \E r \in Runs : RunStep(r) \/ AcquireFails(r)
    \/ \E p \in Procs : Crash(p)

Spec == Init /\ [][Next]_vars

\* Threads are scheduled and every remote call returns or raises (the clients
\* have timeouts), so a thread that can move does; a trigger, a crash and a failed
\* acquire may never come.  threading.Lock queues nobody, so weak fairness is all a waiter
\* gets; listings are finite, so the others stop taking its lock in the end.
Fairness == \A r \in Runs : WF_vars(RunStep(r) /\ pc[r] # "idle")

FairSpec == Spec /\ Fairness

-----------------------------------------------------------------------------
TypeOK ==
    /\ registry \in [Slots -> [lock : Locks \cup {NoLock}, count : Nat]]
    /\ locked \subseteq Locks
    /\ pc \in [Runs -> {"idle"} \cup Live \cup Ended]
    /\ item \in [Runs -> Keys \cup {NoKey}]
    /\ mine \in [Runs -> Locks \cup {NoLock}]
    /\ seen \in [Runs -> Nat]
    /\ processed \in [Runs -> Nat]
    /\ failing \in [Runs -> BOOLEAN]

\* Two runs of one process are never both between lock.acquire and
\* lock.release for the same (source_path, bot_tag): the delete->upload window
\* of core.py's driver is serialized although the registry forgets idle keys.
MutualExclusion ==
    \A r, q \in Runs :
        pc[r] \in Window /\ pc[q] \in Window /\ SlotOf(r) = SlotOf(q) => r = q

\* Drop-when-idle is exact: an entry counts precisely the runs between
\* _acquire_single_flight and _release_single_flight on its key, and a key
\* nobody is interested in has no entry, on the failure paths too.
RefcountExact ==
    \A s \in Slots :
        /\ registry[s].count = Cardinality(Interested(s))
        /\ Interested(s) = {} => registry[s] = Absent

\* Everyone interested in a key contends for one lock object, and it is never
\* shared with another key: no run waits for a stranger, none slips past.
OneLockPerKey ==
    \A r, q \in Runs :
        pc[r] \in Registered /\ pc[q] \in Registered =>
            (mine[r] = mine[q] <=> SlotOf(r) = SlotOf(q))

\* A run that has begun comes to an end: nobody waits for ever on a key.
RunsEnd == \A r \in Runs : pc[r] = "enumerate" ~> pc[r] \in Ended

\* The runs inside the window of each slot, as the abstract mutex sees them.
WindowOf == [s \in Slots |-> {r \in Runs : pc[r] \in Window /\ SlotOf(r) = s}]

Mutex == INSTANCE KeyedMutex WITH window <- WindowOf

\* The registry of locks implements the abstract keyed mutex.
ImplementsKeyedMutex == Mutex!Spec

\* The registry is typed and exact in both respects: its entries are those of the
\* keys in use with their counts, and all who use a key share the entry's lock.
RegistryExact == TypeOK /\ RefcountExact /\ OneLockPerKey

=============================================================================
