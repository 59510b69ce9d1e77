---------------------------- MODULE ConnectorProofs ----------------------------
(***************************************************************************)
(* Machine-checked facts about connector runs.  Of SingleFlight, for every *)
(* set of runs, processes, keys and lock objects: the type invariant,      *)
(* mutual exclusion, exact reference counts, one lock per key, and that    *)
(* the registry of locks implements KeyedMutex.  Of Sources, for any       *)
(* entries, pages, retries and changes of the source: nothing listed is    *)
(* missed, downloads are whole, and the index has no other holes.          *)
(***************************************************************************)
EXTENDS SingleFlight, Sources, FiniteSetTheorems, SequenceTheorems, TLAPS

-----------------------------------------------------------------------------
(* The locks. *)

\* A registered run is working on a real item with the lock its entry records.
RegisteredShare ==
    \A r \in Runs : pc[r] \in Registered =>
        /\ item[r] \in Keys
        /\ mine[r] \in Locks
        /\ registry[SlotOf(r)].lock = mine[r]

\* Whoever is inside the window has its lock acquired.
HeldInWindow == \A r \in Runs : pc[r] \in Window => mine[r] \in locked

\* One lock object lets one run in.
HolderUnique ==
    \A r, q \in Runs :
        pc[r] \in Window /\ pc[q] \in Window /\ mine[r] = mine[q] => r = q

\* Distinct entries hold distinct lock objects.
SlotsApart ==
    \A s, t \in Slots :
        registry[s].lock = registry[t].lock /\ registry[s].lock # NoLock => s = t

\* A run that is not working on an item holds on to no lock object.
UnregisteredEmpty == \A r \in Runs : pc[r] \in {"idle", "enumerate"} => mine[r] = NoLock

\* Mutual exclusion is not inductive by itself: it rests on everyone interested
\* in a key sharing the registered lock, which rests on the counts being exact
\* (an entry is dropped only when nobody else counts on it).
IInv ==
    /\ TypeOK
    /\ RegisteredShare
    /\ HeldInWindow
    /\ HolderUnique
    /\ RefcountExact
    /\ SlotsApart
    /\ UnregisteredEmpty

-----------------------------------------------------------------------------
\* Slots are pairs of a process and a key, and a registered run has one.
LEMMA SlotOfType ==
    ASSUME NEW r \in Runs, item[r] \in Keys
    PROVE  /\ SlotOf(r) \in Slots
           /\ SlotOf(r)[1] = ProcOf[r]
BY ProcOfType DEF SlotOf, Slots

\* The runs interested in a slot are finitely many.
LEMMA InterestedFinite ==
    ASSUME NEW s \in Slots
    PROVE  /\ IsFiniteSet(Interested(s))
           /\ Cardinality(Interested(s)) \in Nat
BY RunsFinite, FS_Subset, FS_CardinalityType DEF Interested

\* An entry is absent exactly when nobody is interested.
LEMMA AbsentUninterested ==
    ASSUME IInv, NEW s \in Slots
    PROVE  /\ registry[s] = Absent <=> Interested(s) = {}
           /\ registry[s].lock = NoLock => Interested(s) = {}
<1>1. registry[s].count = Cardinality(Interested(s))
  BY DEF IInv, RefcountExact
<1>2. Interested(s) = {} => registry[s] = Absent
  BY DEF IInv, RefcountExact
<1>3. registry[s] = Absent => Interested(s) = {}
  BY <1>1, InterestedFinite, FS_EmptySet DEF Absent
<1>4. registry[s].lock = NoLock => Interested(s) = {}
  BY NoLockFresh DEF IInv, RegisteredShare, Interested
<1> QED
  BY <1>2, <1>3, <1>4

-----------------------------------------------------------------------------
\* The invariant holds at the start: nothing is registered.
LEMMA InitIInv == Init => IInv
<1> SUFFICES ASSUME Init PROVE IInv
  OBVIOUS
<1>1. TypeOK
  BY DEF Init, TypeOK, Absent, Live, Ended, Slots
<1>2. RegisteredShare /\ HeldInWindow /\ HolderUnique
  BY DEF Init, RegisteredShare, HeldInWindow, HolderUnique, Registered, Window
<1>3. RefcountExact
  <2> SUFFICES ASSUME NEW s \in Slots
               PROVE  Interested(s) = {} /\ registry[s] = Absent
    BY FS_EmptySet DEF RefcountExact, Absent
  <2> QED
    BY DEF Init, Interested, Registered, Window
<1>4. SlotsApart /\ UnregisteredEmpty
  BY DEF Init, SlotsApart, UnregisteredEmpty, Absent
<1> QED
  BY <1>1, <1>2, <1>3, <1>4 DEF IInv

\* A step that only moves one run's pc, without letting it into the window or
\* in or out of the registered stages, keeps the invariant.
LEMMA PcStep ==
    ASSUME IInv,
           NEW r \in Runs, NEW stage \in {"idle"} \cup Live \cup Ended,
           pc' = [pc EXCEPT ![r] = stage],
           pc[r] \in Registered <=> stage \in Registered,
           stage \in Window => pc[r] \in Window,
           stage \in {"idle", "enumerate"} => mine[r] = NoLock,
           failing' \in [Runs -> BOOLEAN],
           UNCHANGED <<registry, locked, item, mine, seen, processed>>
    PROVE  IInv'
<1> USE DEF IInv
<1>1. TypeOK'
  BY DEF TypeOK
<1>2. \A q \in Runs : /\ pc'[q] \in Registered <=> pc[q] \in Registered
                      /\ pc'[q] \in Window => pc[q] \in Window
                      /\ SlotOf(q)' = SlotOf(q)
  BY DEF TypeOK, SlotOf
<1>3. RegisteredShare'
  BY <1>2 DEF RegisteredShare
<1>4. HeldInWindow' /\ HolderUnique'
  BY <1>2 DEF HeldInWindow, HolderUnique
<1>5. \A s \in Slots : Interested(s)' = Interested(s)
  BY <1>2 DEF Interested
<1>6. RefcountExact'
  BY <1>5 DEF RefcountExact
<1>7. SlotsApart' /\ UnregisteredEmpty'
  BY DEF TypeOK, SlotsApart, UnregisteredEmpty
<1> QED
  BY <1>1, <1>3, <1>4, <1>6, <1>7

\* Registering interest: the entry's lock is shared, or a new one is installed
\* for a key nobody is interested in.
LEMMA NextItemStep ==
    ASSUME IInv, NEW r \in Runs, NEW k \in Keys, NextItem(r, k)
    PROVE  IInv'
<1> DEFINE s == <<ProcOf[r], k>>
<1> USE DEF IInv
<1>1. PICK l \in Locks :
        /\ Grant(s, l)
        /\ registry' = [registry EXCEPT ![s] = [lock |-> l, count |-> @.count + 1]]
        /\ mine' = [mine EXCEPT ![r] = l]
  BY DEF NextItem
<1>2. /\ s \in Slots
      /\ pc[r] = "enumerate"
      /\ pc' = [pc EXCEPT ![r] = "waiting"]
      /\ item' = [item EXCEPT ![r] = k]
      /\ seen' = [seen EXCEPT ![r] = @ + 1]
      /\ UNCHANGED <<locked, processed, failing>>
  BY ProcOfType DEF NextItem, Slots
<1>3. /\ registry[s] \in [lock : Locks \cup {NoLock}, count : Nat]
      /\ registry'[s] = [lock |-> l, count |-> registry[s].count + 1]
      /\ \A t \in Slots : t # s => registry'[t] = registry[t]
  BY <1>1, <1>2 DEF TypeOK
<1>4. TypeOK'
  <2>1. registry' \in [Slots -> [lock : Locks \cup {NoLock}, count : Nat]]
    BY <1>1, <1>2, <1>3 DEF TypeOK
  <2>2. seen' \in [Runs -> Nat]
    BY <1>2 DEF TypeOK
  <2> QED
    BY <1>1, <1>2, <2>1, <2>2 DEF TypeOK, Live, Registered, Window
<1>5. \A q \in Runs : q # r => /\ pc'[q] = pc[q]
                               /\ mine'[q] = mine[q]
                               /\ item'[q] = item[q]
                               /\ SlotOf(q)' = SlotOf(q)
  BY <1>1, <1>2 DEF TypeOK, SlotOf
<1>6. pc'[r] = "waiting" /\ mine'[r] = l /\ item'[r] = k /\ SlotOf(r)' = s
  BY <1>1, <1>2 DEF TypeOK, SlotOf
<1>7. registry[s] # Absent => registry[s].lock = l
  BY <1>1 DEF Grant
<1>8. registry[s] = Absent => \A t \in Slots : registry[t].lock # l
  BY <1>1 DEF Grant, InUse
<1>9. RegisteredShare'
  <2> SUFFICES ASSUME NEW q \in Runs, pc'[q] \in Registered
               PROVE  /\ item'[q] \in Keys
                      /\ mine'[q] \in Locks
                      /\ registry'[SlotOf(q)'].lock = mine'[q]
    BY DEF RegisteredShare
  <2>1. CASE q = r
    BY <2>1, <1>3, <1>6
  <2>2. CASE q # r
    <3>1. /\ pc[q] \in Registered
          /\ item[q] \in Keys
          /\ mine[q] \in Locks
          /\ registry[SlotOf(q)].lock = mine[q]
      BY <2>2, <1>5 DEF RegisteredShare
    <3>2. SlotOf(q) \in Slots
      BY <3>1, SlotOfType
    <3>3. CASE SlotOf(q) = s
      <4>1. q \in Interested(s)
        BY <3>1, <3>3 DEF Interested
      <4>2. registry[s] # Absent
        BY <4>1, <1>2, AbsentUninterested
      <4> QED
        BY <4>2, <3>1, <3>3, <2>2, <1>3, <1>5, <1>7
    <3>4. CASE SlotOf(q) # s
      BY <3>4, <3>1, <3>2, <2>2, <1>3, <1>5
    <3> QED
      BY <3>3, <3>4
  <2> QED
    BY <2>1, <2>2
<1>10. "waiting" \notin Window
  BY DEF Window
<1>11. HeldInWindow' /\ HolderUnique'
  BY <1>2, <1>5, <1>6, <1>10 DEF HeldInWindow, HolderUnique
<1>12. RefcountExact'
  <2> SUFFICES ASSUME NEW t \in Slots
               PROVE  /\ registry'[t].count = Cardinality(Interested(t)')
                      /\ Interested(t)' = {} => registry'[t] = Absent
    BY DEF RefcountExact
  <2>1. CASE t = s
    <3>1. Interested(s)' = Interested(s) \cup {r}
      BY <1>5, <1>6 DEF Interested, Registered
    <3>2. r \notin Interested(s)
      BY <1>2 DEF Interested, Registered, Window
    <3>3. Cardinality(Interested(s)') = Cardinality(Interested(s)) + 1
      BY <1>2, <3>1, <3>2, InterestedFinite, FS_AddElement
    <3>4. registry[s].count = Cardinality(Interested(s))
      BY <1>2 DEF RefcountExact
    <3> QED
      BY <2>1, <3>1, <3>3, <3>4, <1>3
  <2>2. CASE t # s
    <3>1. Interested(t)' = Interested(t)
      BY <2>2, <1>2, <1>5, <1>6 DEF Interested, Registered, Window
    <3> QED
      BY <2>2, <3>1, <1>3 DEF RefcountExact
  <2> QED
    BY <2>1, <2>2
<1>13. SlotsApart'
  <2>1. \A t \in Slots : t # s => registry[t].lock # l
    <3>1. CASE registry[s] = Absent
      BY <3>1, <1>8
    <3>2. CASE registry[s] # Absent
      BY <3>2, <1>2, <1>7, NoLockFresh DEF SlotsApart
    <3> QED
      BY <3>1, <3>2
  <2> QED
    BY <2>1, <1>3 DEF SlotsApart
<1>14. UnregisteredEmpty'
  BY <1>5, <1>6 DEF UnregisteredEmpty
<1> QED
  BY <1>4, <1>9, <1>11, <1>12, <1>13, <1>14

\* Taking the lock: no run inside the window holds the same object.
LEMMA AcquireLockStep ==
    ASSUME IInv, NEW r \in Runs, AcquireLock(r)
    PROVE  IInv'
<1> USE DEF IInv
<1>1. /\ pc[r] = "waiting"
      /\ mine[r] \notin locked
      /\ locked' = locked \cup {mine[r]}
      /\ pc' = [pc EXCEPT ![r] = "fetch"]
      /\ UNCHANGED <<registry, item, mine, seen, processed, failing>>
  BY DEF AcquireLock
<1>2. mine[r] \in Locks
  BY <1>1 DEF RegisteredShare, Registered
<1>3. TypeOK'
  BY <1>1, <1>2 DEF TypeOK, Live, Registered, Window
<1>4. \A q \in Runs : /\ pc'[q] \in Registered <=> pc[q] \in Registered
                      /\ SlotOf(q)' = SlotOf(q)
  BY <1>1 DEF TypeOK, SlotOf, Registered, Window
<1>5. RegisteredShare'
  BY <1>1, <1>4 DEF RegisteredShare
<1>6. HeldInWindow' /\ HolderUnique'
  BY <1>1 DEF TypeOK, HeldInWindow, HolderUnique
<1>7. \A s \in Slots : Interested(s)' = Interested(s)
  BY <1>4 DEF Interested
<1>8. RefcountExact' /\ SlotsApart'
  BY <1>1, <1>7 DEF RefcountExact, SlotsApart
<1>9. UnregisteredEmpty'
  BY <1>1 DEF TypeOK, UnregisteredEmpty
<1> QED
  BY <1>3, <1>5, <1>6, <1>8, <1>9

\* Releasing it: nobody else inside the window held the same object.
LEMMA ReleaseLockStep ==
    ASSUME IInv, NEW r \in Runs, ReleaseLock(r)
    PROVE  IInv'
<1> USE DEF IInv
<1>1. /\ pc[r] = "unlock"
      /\ locked' = locked \ {mine[r]}
      /\ pc' = [pc EXCEPT ![r] = "drop"]
      /\ UNCHANGED <<registry, item, mine, seen, processed, failing>>
  BY DEF ReleaseLock
<1>2. TypeOK'
  BY <1>1 DEF TypeOK, Live, Registered, Window
<1>3. \A q \in Runs : /\ pc'[q] \in Registered <=> pc[q] \in Registered
                      /\ pc'[q] \in Window => pc[q] \in Window /\ q # r
                      /\ SlotOf(q)' = SlotOf(q)
  BY <1>1 DEF TypeOK, SlotOf, Registered, Window
<1>4. RegisteredShare'
  BY <1>1, <1>3 DEF RegisteredShare
<1>5. HeldInWindow' /\ HolderUnique'
  BY <1>1, <1>3 DEF HeldInWindow, HolderUnique, Window
<1>6. \A s \in Slots : Interested(s)' = Interested(s)
  BY <1>3 DEF Interested
<1>7. RefcountExact' /\ SlotsApart'
  BY <1>1, <1>6 DEF RefcountExact, SlotsApart
<1>8. UnregisteredEmpty'
  BY <1>1 DEF TypeOK, UnregisteredEmpty
<1> QED
  BY <1>2, <1>4, <1>5, <1>7, <1>8

\* Dropping interest: the entry goes only with the last interested run.
LEMMA DropInterestStep ==
    ASSUME IInv, NEW r \in Runs, DropInterest(r)
    PROVE  IInv'
<1> USE DEF IInv
<1>0. PICK s \in Slots : s = SlotOf(r)
  BY SlotOfType DEF DropInterest, RegisteredShare, Registered
<1>1. /\ pc[r] = "drop"
      /\ registry' = [registry EXCEPT ![s] = Dropped(@)]
      /\ pc' = [pc EXCEPT ![r] = IF failing[r] THEN "failed" ELSE "enumerate"]
      /\ item' = [item EXCEPT ![r] = NoKey]
      /\ mine' = [mine EXCEPT ![r] = NoLock]
      /\ processed' \in [Runs -> Nat]
      /\ UNCHANGED <<locked, seen, failing>>
  BY <1>0 DEF DropInterest, TypeOK
<1>2. /\ registry[s] \in [lock : Locks \cup {NoLock}, count : Nat]
      /\ registry'[s] = Dropped(registry[s])
      /\ \A t \in Slots : t # s => registry'[t] = registry[t]
  BY <1>1 DEF TypeOK
<1>3. Dropped(registry[s]) \in [lock : Locks \cup {NoLock}, count : Nat]
  BY <1>2 DEF Dropped, Absent
<1>4. TypeOK'
  <2>1. registry' \in [Slots -> [lock : Locks \cup {NoLock}, count : Nat]]
    BY <1>1, <1>3 DEF TypeOK
  <2> QED
    BY <1>1, <2>1 DEF TypeOK, Live, Ended
<1>5. \A q \in Runs : q # r => /\ pc'[q] = pc[q]
                               /\ mine'[q] = mine[q]
                               /\ item'[q] = item[q]
                               /\ SlotOf(q)' = SlotOf(q)
  BY <1>1 DEF TypeOK, SlotOf
<1>6. pc'[r] \notin Registered /\ pc'[r] \notin Window
  BY <1>1 DEF TypeOK, Registered, Window
<1>7. r \in Interested(s)
  BY <1>0, <1>1 DEF Interested, Registered
<1>8. Interested(s)' = Interested(s) \ {r}
  BY <1>5, <1>6 DEF Interested
<1>9. /\ registry[s].count = Cardinality(Interested(s))
       /\ Cardinality(Interested(s)') = registry[s].count - 1
  BY <1>7, <1>8, InterestedFinite, FS_RemoveElement DEF RefcountExact
<1>10. registry[s].count <= 1 => Interested(s)' = {}
  <2>1. IsFiniteSet(Interested(s)')
    BY <1>8, InterestedFinite, FS_RemoveElement
  <2>2. Cardinality(Interested(s)') \in Nat
    BY <2>1, FS_CardinalityType
  <2>3. Cardinality(Interested(s)') = 0 => Interested(s)' = {}
    BY <2>1, FS_EmptySet
  <2> QED
    BY <2>2, <2>3, <1>2, <1>9
<1>11. Interested(s)' = {} => registry[s].count = 1
  BY <1>9, <1>2, FS_EmptySet
<1>12. RegisteredShare'
  <2> SUFFICES ASSUME NEW q \in Runs, pc'[q] \in Registered
               PROVE  /\ item'[q] \in Keys
                      /\ mine'[q] \in Locks
                      /\ registry'[SlotOf(q)'].lock = mine'[q]
    BY DEF RegisteredShare
  <2>1. q # r
    BY <1>6
  <2>2. /\ pc[q] \in Registered
        /\ item[q] \in Keys
        /\ mine[q] \in Locks
        /\ registry[SlotOf(q)].lock = mine[q]
    BY <2>1, <1>5 DEF RegisteredShare
  <2>3. SlotOf(q) \in Slots
    BY <2>2, SlotOfType
  <2>4. CASE SlotOf(q) = s
    <3>1. q \in Interested(s)'
      BY <2>1, <2>2, <2>4, <1>8 DEF Interested
    <3>2. registry[s].count > 1
      BY <3>1, <1>2, <1>10
    <3>3. registry'[s].lock = registry[s].lock
      BY <3>2, <1>2 DEF Dropped
    <3> QED
      BY <3>3, <2>1, <2>2, <2>4, <1>5
  <2>5. CASE SlotOf(q) # s
    BY <2>1, <2>2, <2>3, <2>5, <1>2, <1>5
  <2> QED
    BY <2>4, <2>5
<1>13. HeldInWindow' /\ HolderUnique'
  BY <1>1, <1>5, <1>6 DEF HeldInWindow, HolderUnique
<1>14. RefcountExact'
  <2> SUFFICES ASSUME NEW t \in Slots
               PROVE  /\ registry'[t].count = Cardinality(Interested(t)')
                      /\ Interested(t)' = {} => registry'[t] = Absent
    BY DEF RefcountExact
  <2>1. CASE t = s
    <3>1. CASE registry[s].count <= 1
      <4>1. registry'[s] = Absent /\ Interested(s)' = {}
        BY <3>1, <1>2, <1>10 DEF Dropped
      <4> QED
        BY <4>1, <2>1, FS_EmptySet DEF Absent
    <3>2. CASE registry[s].count > 1
      BY <3>2, <2>1, <1>2, <1>9, <1>11 DEF Dropped
    <3> QED
      BY <3>1, <3>2, <1>2
  <2>2. CASE t # s
    <3>1. Interested(t)' = Interested(t)
      BY <2>2, <1>0, <1>5, <1>6 DEF Interested
    <3> QED
      BY <2>2, <3>1, <1>2 DEF RefcountExact
  <2> QED
    BY <2>1, <2>2
<1>15. SlotsApart'
  <2>1. registry'[s].lock \in {NoLock, registry[s].lock}
    BY <1>2 DEF Dropped, Absent
  <2> QED
    BY <2>1, <1>2 DEF SlotsApart
<1>16. UnregisteredEmpty'
  BY <1>1, <1>5 DEF TypeOK, UnregisteredEmpty
<1> QED
  BY <1>4, <1>12, <1>13, <1>14, <1>15, <1>16

\* A crash wipes one process: its entries and its runs go together, and the
\* locks it takes with it belong to no other process.
LEMMA CrashStep ==
    ASSUME IInv, NEW p \in Procs, Crash(p)
    PROVE  IInv'
<1> DEFINE dead == {r \in Runs : ProcOf[r] = p /\ pc[r] \in Live}
<1> USE DEF IInv
<1>1. /\ registry' = [s \in Slots |-> IF s[1] = p THEN Absent ELSE registry[s]]
      /\ locked' = locked \ {mine[r] : r \in dead}
      /\ pc' = [r \in Runs |-> IF r \in dead THEN "crashed" ELSE pc[r]]
      /\ item' = [r \in Runs |-> IF r \in dead THEN NoKey ELSE item[r]]
      /\ mine' = [r \in Runs |-> IF r \in dead THEN NoLock ELSE mine[r]]
      /\ UNCHANGED <<seen, processed, failing>>
  BY DEF Crash
<1>2. TypeOK'
  BY <1>1 DEF TypeOK, Absent, Ended, Live
<1>3. ASSUME NEW q \in Runs, pc'[q] \in Registered
      PROVE  /\ ProcOf[q] # p
             /\ q \notin dead
             /\ pc[q] \in Registered /\ pc'[q] = pc[q]
             /\ item'[q] = item[q] /\ mine'[q] = mine[q]
             /\ SlotOf(q)' = SlotOf(q)
             /\ SlotOf(q) \in Slots /\ SlotOf(q)[1] # p
             /\ registry'[SlotOf(q)] = registry[SlotOf(q)]
  <2>1. q \notin dead
    BY <1>1, <1>3 DEF Registered, Window
  <2>2. /\ pc'[q] = pc[q] /\ item'[q] = item[q] /\ mine'[q] = mine[q]
        /\ pc[q] \in Registered
    BY <2>1, <1>1, <1>3
  <2>3. ProcOf[q] # p
    BY <2>1, <2>2 DEF Live
  <2>4. item[q] \in Keys
    BY <2>2 DEF RegisteredShare
  <2>5. SlotOf(q) \in Slots /\ SlotOf(q)[1] # p
    BY <2>3, <2>4, SlotOfType
  <2>6. SlotOf(q)' = SlotOf(q)
    BY <2>2 DEF SlotOf
  <2> QED
    BY <2>1, <2>2, <2>3, <2>5, <2>6, <1>1
<1>4. RegisteredShare'
  BY <1>3 DEF RegisteredShare
<1>5. ASSUME NEW q \in Runs, pc'[q] \in Window
      PROVE  /\ pc[q] \in Window /\ mine'[q] = mine[q]
             /\ mine[q] \in locked'
  <2>1. pc'[q] \in Registered
    BY <1>5 DEF Registered
  <2>2. /\ pc[q] \in Window /\ mine'[q] = mine[q]
        /\ mine[q] \in locked /\ mine[q] \in Locks
    BY <2>1, <1>3, <1>5 DEF HeldInWindow, RegisteredShare
  <2>3. ASSUME NEW d \in dead PROVE mine[d] # mine[q]
    <3>1. CASE pc[d] \in Registered
      <4>1. /\ SlotOf(d) \in Slots /\ SlotOf(d)[1] = p
            /\ registry[SlotOf(d)].lock = mine[d]
        BY <3>1, SlotOfType DEF RegisteredShare
      <4>2. /\ SlotOf(q) \in Slots /\ SlotOf(q)[1] # p
            /\ registry[SlotOf(q)].lock = mine[q]
        BY <2>1, <1>3 DEF RegisteredShare
      <4> QED
        BY <4>1, <4>2, <2>2, NoLockFresh DEF SlotsApart
    <3>2. CASE pc[d] \notin Registered
      <4>1. pc[d] = "enumerate" /\ d \in Runs
        BY <3>2 DEF Live
      <4>2. mine[d] = NoLock
        BY <4>1 DEF UnregisteredEmpty
      <4> QED
        BY <4>2, <2>2, NoLockFresh
    <3> QED
      BY <3>1, <3>2
  <2> QED
    BY <2>2, <2>3, <1>1
<1>6. HeldInWindow'
  BY <1>5 DEF HeldInWindow
<1>7. HolderUnique'
  BY <1>5 DEF HolderUnique
<1>8. RefcountExact'
  <2> SUFFICES ASSUME NEW t \in Slots
               PROVE  /\ registry'[t].count = Cardinality(Interested(t)')
                      /\ Interested(t)' = {} => registry'[t] = Absent
    BY DEF RefcountExact
  <2>1. CASE t[1] = p
    <3>1. Interested(t)' = {}
      BY <2>1, <1>3 DEF Interested
    <3>2. registry'[t] = Absent
      BY <2>1, <1>1
    <3> QED
      BY <3>1, <3>2, FS_EmptySet DEF Absent
  <2>2. CASE t[1] # p
    <3>1. Interested(t)' = Interested(t)
      <4>1. Interested(t)' \subseteq Interested(t)
        BY <1>3 DEF Interested
      <4>2. ASSUME NEW q \in Interested(t) PROVE q \in Interested(t)'
        <5>1. q \in Runs /\ pc[q] \in Registered /\ SlotOf(q) = t
          BY DEF Interested
        <5>2. q \notin dead
          BY <5>1, <2>2 DEF SlotOf
        <5> QED
          BY <5>1, <5>2, <1>1 DEF Interested, SlotOf
      <4> QED
        BY <4>1, <4>2
    <3> QED
      BY <2>2, <3>1, <1>1 DEF RefcountExact
  <2> QED
    BY <2>1, <2>2
<1>9. SlotsApart'
  BY <1>1 DEF SlotsApart, Absent
<1>10. UnregisteredEmpty'
  BY <1>1 DEF UnregisteredEmpty
<1> QED
  BY <1>2, <1>4, <1>6, <1>7, <1>8, <1>9, <1>10

\* Every step keeps the invariant.
LEMMA NextIInv == IInv /\ [Next]_vars => IInv'
<1> SUFFICES ASSUME IInv, [Next]_vars PROVE IInv'
  OBVIOUS
<1>1. ASSUME NEW r \in Runs, RunStep(r) \/ AcquireFails(r) PROVE IInv'
  <2> USE DEF Live, Ended, Registered, Window
  <2>1. failing \in [Runs -> BOOLEAN] /\ (pc[r] \in {"idle", "enumerate"} => mine[r] = NoLock)
    BY DEF IInv, TypeOK, UnregisteredEmpty
  <2>2. CASE Start(r)
    BY <2>1, <2>2, PcStep DEF Start
  <2>3. CASE EnumerateFails(r)
    BY <2>1, <2>3, PcStep DEF EnumerateFails
  <2>4. CASE Finish(r)
    BY <2>1, <2>4, PcStep DEF Finish
  <2>5. CASE StageSucceeds(r)
    <3>1. pc[r] \in {"fetch", "delete", "upload"}
      BY <2>5 DEF StageSucceeds
    <3>2. StageAfter(pc[r]) \in {"delete", "upload", "unlock"}
      BY <3>1 DEF StageAfter
    <3> QED
      BY <2>1, <2>5, <3>1, <3>2, PcStep DEF StageSucceeds
  <2>6. CASE StageFails(r) \/ AcquireFails(r)
    BY <2>1, <2>6, PcStep DEF StageFails, AcquireFails
  <2>7. CASE \E k \in Keys : NextItem(r, k)
    BY <2>7, NextItemStep
  <2>8. CASE AcquireLock(r)
    BY <2>8, AcquireLockStep
  <2>9. CASE ReleaseLock(r)
    BY <2>9, ReleaseLockStep
  <2>10. CASE DropInterest(r)
    BY <2>10, DropInterestStep
  <2> QED
    BY <1>1, <2>2, <2>3, <2>4, <2>5, <2>6, <2>7, <2>8, <2>9, <2>10 DEF RunStep
<1>2. ASSUME NEW p \in Procs, Crash(p) PROVE IInv'
  BY <1>2, CrashStep
<1>3. CASE UNCHANGED vars
  BY <1>3 DEF vars, IInv, TypeOK, RegisteredShare, HeldInWindow, HolderUnique,
              RefcountExact, SlotsApart, UnregisteredEmpty, Interested, SlotOf
<1> QED
  BY <1>1, <1>2, <1>3 DEF Next

-----------------------------------------------------------------------------
\* The inductive invariant holds throughout.
THEOREM SpecIInv == Spec => []IInv
BY InitIInv, NextIInv, PTL DEF Spec

\* Type correctness: the registry of every process, the lock objects and the
\* control state of every run stay within their types.
THEOREM SpecTypeOK == Spec => []TypeOK
<1>1. IInv => TypeOK
  BY DEF IInv
<1> QED
  BY <1>1, SpecIInv, PTL

\* Mutual exclusion: within one worker process, two runs are never both in the
\* fetch, delete, upload window of one (source_path, bot_tag), however many
\* runs and keys there are and however often idle keys are forgotten.
THEOREM SpecMutualExclusion == Spec => []MutualExclusion
<1>1. IInv => MutualExclusion
  <2> SUFFICES ASSUME IInv, NEW r \in Runs, NEW q \in Runs,
                      pc[r] \in Window, pc[q] \in Window, SlotOf(r) = SlotOf(q)
               PROVE  r = q
    BY DEF MutualExclusion
  <2>1. mine[r] = registry[SlotOf(r)].lock /\ mine[q] = registry[SlotOf(q)].lock
    BY DEF IInv, RegisteredShare, Registered
  <2> QED
    BY <2>1 DEF IInv, HolderUnique
<1> QED
  BY <1>1, SpecIInv, PTL

\* Drop-when-idle counts are exact: the registry holds an entry for precisely
\* the keys some run is interested in, and never leaks or loses one.
THEOREM SpecRefcountExact == Spec => []RefcountExact
<1>1. IInv => RefcountExact
  BY DEF IInv
<1> QED
  BY <1>1, SpecIInv, PTL

\* Interested runs contend for one lock object per key and never for another's.
THEOREM SpecOneLockPerKey == Spec => []OneLockPerKey
<1>1. IInv => OneLockPerKey
  <2> SUFFICES ASSUME IInv, NEW r \in Runs, NEW q \in Runs,
                      pc[r] \in Registered, pc[q] \in Registered
               PROVE  mine[r] = mine[q] <=> SlotOf(r) = SlotOf(q)
    BY DEF OneLockPerKey
  <2>1. /\ item[r] \in Keys /\ item[q] \in Keys
        /\ mine[r] \in Locks /\ registry[SlotOf(r)].lock = mine[r]
        /\ registry[SlotOf(q)].lock = mine[q]
    BY DEF IInv, RegisteredShare
  <2>2. SlotOf(r) \in Slots /\ SlotOf(q) \in Slots
    BY <2>1, SlotOfType
  <2> QED
    BY <2>1, <2>2, NoLockFresh DEF IInv, SlotsApart
<1> QED
  BY <1>1, SpecIInv, PTL

\* The registry is exact in every respect: typed, its counts those of the
\* interested runs, its lock objects shared by those of one key alone.
THEOREM SpecRegistryExact == Spec => []RegistryExact
<1>1. TypeOK /\ RefcountExact /\ OneLockPerKey => RegistryExact
  BY DEF RegistryExact
<1> QED
  BY <1>1, SpecTypeOK, SpecRefcountExact, SpecOneLockPerKey, PTL

-----------------------------------------------------------------------------
\* A step that keeps every run on its side of the window maps to a stutter.
LEMMA WindowUnchanged ==
    ASSUME \A q \in Runs : pc'[q] \in Window <=> pc[q] \in Window,
           \A q \in Runs : pc[q] \in Window => SlotOf(q)' = SlotOf(q)
    PROVE  WindowOf' = WindowOf
BY DEF WindowOf

\* Every step of the registry is a step of the abstract mutex or a stutter.
LEMMA StepImplements == IInv /\ [Next]_vars => [Mutex!Next]_WindowOf
<1> SUFFICES ASSUME IInv, [Next]_vars PROVE [Mutex!Next]_WindowOf
  OBVIOUS
<1> USE DEF IInv
<1>1. ASSUME NEW r \in Runs, RunStep(r) \/ AcquireFails(r) PROVE [Mutex!Next]_WindowOf
  <2>1. CASE AcquireLock(r)
    <3>1. /\ pc[r] = "waiting" /\ mine[r] \notin locked
          /\ pc' = [pc EXCEPT ![r] = "fetch"] /\ UNCHANGED item
      BY <2>1 DEF AcquireLock
    <3>2. PICK s \in Slots : s = SlotOf(r)
      BY <3>1, SlotOfType DEF RegisteredShare, Registered
    <3>3. \A q \in Runs : SlotOf(q)' = SlotOf(q)
      BY <3>1 DEF SlotOf
    <3>4. \A q \in Runs : pc'[q] \in Window <=> (pc[q] \in Window \/ q = r)
      BY <3>1 DEF TypeOK, Window
    <3>5. pc[r] \notin Window
      BY <3>1 DEF Window
    <3>6. WindowOf[s] = {}
      <4> SUFFICES ASSUME NEW q \in Runs, pc[q] \in Window, SlotOf(q) = s
                   PROVE  FALSE
        BY DEF WindowOf
      <4>1. mine[q] = mine[r]
        BY <3>1, <3>2 DEF RegisteredShare, Registered
      <4> QED
        BY <4>1, <3>1 DEF HeldInWindow
    <3>7. \A o \in Slots : r \notin WindowOf[o]
      BY <3>5 DEF WindowOf
    <3>8. WindowOf' = [WindowOf EXCEPT ![s] = {r}]
      <4>1. \A o \in Slots : o # s => WindowOf'[o] = WindowOf[o]
        BY <3>2, <3>3, <3>4 DEF WindowOf
      <4>2. WindowOf'[s] = {r}
        <5>1. r \in WindowOf'[s]
          BY <3>2, <3>3, <3>4 DEF WindowOf
        <5>2. \A q \in WindowOf'[s] : q = r \/ q \in WindowOf[s]
          BY <3>3, <3>4 DEF WindowOf
        <5> QED
          BY <5>1, <5>2, <3>6
      <4> QED
        BY <4>1, <4>2 DEF WindowOf
    <3>9. Mutex!Enter(r, s)
      BY <3>6, <3>7, <3>8 DEF Mutex!Enter
    <3> QED
      BY <3>9 DEF Mutex!Next
  <2>2. CASE ReleaseLock(r)
    <3>1. /\ pc[r] = "unlock" /\ pc' = [pc EXCEPT ![r] = "drop"] /\ UNCHANGED item
      BY <2>2 DEF ReleaseLock
    <3>2. \A q \in Runs : SlotOf(q)' = SlotOf(q)
      BY <3>1 DEF SlotOf
    <3>3. \A q \in Runs : pc'[q] \in Window <=> (pc[q] \in Window /\ q # r)
      BY <3>1 DEF TypeOK, Window
    <3>4. WindowOf' = [s \in Slots |-> WindowOf[s] \ {r}]
      BY <3>2, <3>3 DEF WindowOf
    <3> QED
      BY <3>4 DEF Mutex!Next, Mutex!Leave
  <2>3. CASE ~AcquireLock(r) /\ ~ReleaseLock(r)
    <3>1. \A q \in Runs : pc'[q] \in Window <=> pc[q] \in Window
      <4>1. StageAfter(pc[r]) \in Window \/ pc[r] \notin {"fetch", "delete", "upload"}
        BY DEF StageAfter, Window
      <4> QED
        BY <1>1, <2>3, <4>1 DEF RunStep, TypeOK, Window, Start, NextItem,
           EnumerateFails, Finish, AcquireFails, StageSucceeds, StageFails, DropInterest
    <3>2. \A q \in Runs : pc[q] \in Window => SlotOf(q)' = SlotOf(q)
      <4>1. \A q \in Runs : pc[q] \in Window => item'[q] = item[q]
        BY <1>1, <2>3 DEF RunStep, TypeOK, Window, Start, NextItem,
           EnumerateFails, Finish, AcquireFails, StageSucceeds, StageFails, DropInterest
      <4> QED
        BY <4>1 DEF SlotOf
    <3> QED
      BY <3>1, <3>2, WindowUnchanged
  <2> QED
    BY <2>1, <2>2, <2>3
<1>2. ASSUME NEW p \in Procs, Crash(p) PROVE [Mutex!Next]_WindowOf
  <2> DEFINE dead == {r \in Runs : ProcOf[r] = p /\ pc[r] \in Live}
  <2>1. /\ pc' = [r \in Runs |-> IF r \in dead THEN "crashed" ELSE pc[r]]
        /\ item' = [r \in Runs |-> IF r \in dead THEN NoKey ELSE item[r]]
    BY <1>2 DEF Crash
  <2>2. PICK R \in SUBSET Runs : R = dead
    OBVIOUS
  <2>3. WindowOf' = [s \in Slots |-> WindowOf[s] \ R]
    BY <2>1, <2>2 DEF WindowOf, Window, SlotOf
  <2> QED
    BY <2>3 DEF Mutex!Next, Mutex!Leave
<1>3. CASE UNCHANGED vars
  BY <1>3 DEF vars, WindowOf, SlotOf
<1> QED
  BY <1>1, <1>2, <1>3 DEF Next

\* The registry of locks implements the keyed mutex: at most one run per slot
\* inside the window, entered only when it is empty.
THEOREM SpecImplementsKeyedMutex == Spec => ImplementsKeyedMutex
<1>1. Init => Mutex!Init
  BY DEF Init, Mutex!Init, WindowOf, Window
<1> QED
  BY <1>1, SpecIInv, StepImplements, PTL DEF Spec, ImplementsKeyedMutex, Mutex!Spec

-----------------------------------------------------------------------------
(* The source. *)

\* Where a run is: before the listing, at a page, at an item of it, at the end.
Places == {"new", "list", "items", "download", "reading", "delete", "upload", "done", "failed"}
AtItem == {"download", "reading", "delete", "upload"}
Fetching == {"reading", "delete", "upload"}

\* What an entry of the source may be at, 0 where there is none.
Versions == 0..MaxEdits + 1

\* The fields of a run.
RunFields == {"at", "page", "last", "more", "blank", "item", "attempt", "waited", "version", "buf"}

\* A run has pauses for the attempts it has made, and a content within the ceiling.
RunShape ==
    /\ DOMAIN run = RunFields
    /\ run.at \in Places /\ run.page \in SUBSET Names /\ run.last \in Int /\ run.more \in BOOLEAN
    /\ run.attempt \in Nat /\ run.attempt <= MaxRetries - 1
    /\ run.waited \in Int /\ run.waited <= run.attempt * RetryAfterCap
    /\ run.version \in Versions /\ run.buf \in Seq(Versions) /\ Len(run.buf) <= Ceiling

\* The items of a page, and the one that is taken, are those that are yielded; a page is
\* listed when the last one is used up.
PageOK ==
    /\ run.at = "new" => run.page = {} /\ run.more /\ run.last = -1
    /\ run.at = "list" => run.page = {} /\ run.more
    /\ run.at = "done" => run.page = {} /\ ~run.more
    /\ \A i \in run.page : Yields(i)
    /\ run.at \in AtItem => run.item \in Names /\ Yields(run.item)

\* The content is of the version whose download began, which is that of the source as long
\* as nobody changes it.
ContentOK ==
    /\ run.at \notin Fetching \cup {"failed"} => run.buf = <<>>
    /\ run.at = "reading" => Len(run.buf) < Chunks[run.item]
    /\ run.at \in {"delete", "upload"} =>
        \/ Len(run.buf) = Chunks[run.item] /\ run.buf # <<>>
        \/ /\ run.buf = <<>> /\ Kind[run.item] = "text"
           /\ source = "sharepoint" \/ Chunks[run.item] = 0
    /\ run.at \in Fetching => \A k \in 1..Len(run.buf) : run.buf[k] = run.version
    /\ run.at = "reading" \/ (run.at \in Fetching /\ run.buf # <<>>) =>
        run.item \in touched \/ run.version = remote[run.item]

\* Nothing is between the places where a run will look: what is not ingested is yet to be
\* listed, on the page, or being taken.
NoneMissed ==
    run.at \notin {"new", "failed"} => \A i \in Present \ touched : Yields(i) =>
        \/ Ingested(i)
        \/ run.more /\ i > run.last
        \/ i \in run.page
        \/ run.at \in AtItem /\ run.item = i

\* The shape of the rest of the state.
SourceTyped ==
    /\ source \in {"blob", "sharepoint"}
    /\ remote \in [Names -> Versions] /\ index \in [Names -> -2..MaxEdits + 1]
    /\ edits \in 0..MaxEdits /\ touched \in SUBSET Names /\ short \in SUBSET Names

\* What holds of a run in every state.
CrawlInv ==
    SourceTyped /\ RunShape /\ PageOK /\ ContentOK /\ NoneMissed /\ HoleOnlyByUpload

-----------------------------------------------------------------------------
\* What depends on the source and the index only.
LEMMA SameSource ==
    ASSUME UNCHANGED <<source, remote, index, touched, short>>
    PROVE  /\ Present' = Present
           /\ \A i : (Yields(i)' <=> Yields(i)) /\ (Ingested(i)' <=> Ingested(i))
BY DEF Present, Yields, Ingested

\* What is yielded is of a format that is supported.
LEMMA YieldsSupported == ASSUME NEW i, Yields(i) PROVE Supported(i)
BY DEF Yields, BlobYields, GraphYields

\* Pauses are within the longest one.
LEMMA Pauses ==
    ASSUME NEW attempt \in Nat
    PROVE  /\ ExpBackoff(attempt) \in Int /\ ExpBackoff(attempt) <= RetryAfterCap
           /\ \A status : \A header \in RetryAfters :
                /\ RetryDelay(status, header, attempt) \in Int
                /\ RetryDelay(status, header, attempt) <= RetryAfterCap
<1>1. BackoffCap \in Int /\ RetryAfterCap \in Int /\ BackoffCap <= RetryAfterCap /\ RetryAfters \subseteq Int
  BY BoundsNat, CapsOrdered, RetryAftersInt
<1>2. PICK p \in Int : p = Power(attempt)
  <2>1. 2 ^ attempt \in Int
    OBVIOUS
  <2> QED
    BY <2>1 DEF Power
<1>3. ExpBackoff(attempt) \in Int /\ ExpBackoff(attempt) <= RetryAfterCap
  BY <1>1, <1>2 DEF ExpBackoff, LesserOf
<1> QED
  BY <1>1, <1>3 DEF RetryDelay, LesserOf

\* A step that leaves the source and the index alone.
LEMMA Moves ==
    ASSUME CrawlInv, UNCHANGED <<source, remote, index, edits, touched, short>>,
           run.at \in {"upload", "failed"} => run'.at = "failed" /\ run'.item = run.item,
           RunShape', PageOK', ContentOK', NoneMissed'
    PROVE  CrawlInv'
<1>1. SourceTyped'
  BY DEF CrawlInv, SourceTyped
<1>2. HoleOnlyByUpload'
  <2>1. ASSUME NEW i \in Names, Supported(i), index[i] \in {Nothing, Part}
        PROVE  i \in short \/ (run'.item = i /\ run'.at \in {"upload", "failed"})
    BY <2>1 DEF CrawlInv, HoleOnlyByUpload
  <2> QED
    BY <2>1 DEF HoleOnlyByUpload
<1> QED
  BY <1>1, <1>2 DEF CrawlInv

\* A run that fails, at whatever it is.
LEMMA Fails ==
    ASSUME CrawlInv, run.at # "new", UNCHANGED <<source, remote, index, edits, touched, short>>,
           NEW buf, buf \in {run.buf, <<>>},
           run' = [run EXCEPT !.at = "failed", !.buf = buf]
    PROVE  CrawlInv'
<1>0. RunShape /\ PageOK
  BY DEF CrawlInv
<1>1. /\ DOMAIN run' = RunFields /\ run'.at = "failed" /\ run'.buf = buf
      /\ run'.page = run.page /\ run'.last = run.last /\ run'.more = run.more /\ run'.item = run.item
      /\ run'.attempt = run.attempt /\ run'.waited = run.waited /\ run'.version = run.version
  BY <1>0 DEF RunShape, RunFields
<1>2. RunShape'
  <2>1. buf \in Seq(Versions) /\ Len(buf) <= Ceiling
    <3>1. <<>> \in Seq(Versions) /\ Len(<<>>) <= Ceiling
      BY BoundsNat
    <3>2. run.buf \in Seq(Versions) /\ Len(run.buf) <= Ceiling
      BY <1>0 DEF RunShape
    <3> QED
      BY <3>1, <3>2
  <2>2. run'.at \in Places
    BY <1>1 DEF Places
  <2> QED
    BY <1>0, <1>1, <2>1, <2>2 DEF RunShape
<1>3. PageOK'
  BY <1>0, <1>1, SameSource DEF PageOK, AtItem
<1>4. ContentOK'
  BY <1>1 DEF ContentOK, Fetching
<1>5. NoneMissed'
  BY <1>1 DEF NoneMissed
<1> QED
  BY <1>1, <1>2, <1>3, <1>4, <1>5, Moves

\* The same, in the words of Goes.
LEMMA FailsOnly ==
    ASSUME CrawlInv, Goes("failed"), UNCHANGED <<source, remote, index, edits, touched, short>>
    PROVE  CrawlInv'
<1>0. RunShape /\ PageOK
  BY DEF CrawlInv
<1>1. /\ DOMAIN run' = RunFields /\ run'.at = "failed" /\ run'.buf = run.buf
      /\ run'.page = run.page /\ run'.last = run.last /\ run'.more = run.more /\ run'.item = run.item
      /\ run'.attempt = run.attempt /\ run'.waited = run.waited /\ run'.version = run.version
  BY <1>0 DEF RunShape, RunFields, Goes
<1>2. RunShape'
  <2>2. run'.at \in Places
    BY <1>1 DEF Places
  <2> QED
    BY <1>0, <1>1, <2>2 DEF RunShape
<1>3. PageOK'
  BY <1>0, <1>1, SameSource DEF PageOK, AtItem
<1>4. ContentOK'
  BY <1>1 DEF ContentOK, Fetching
<1>5. NoneMissed'
  BY <1>1 DEF NoneMissed
<1> QED
  BY <1>1, <1>2, <1>3, <1>4, <1>5, Moves

\* One attempt more is out: the pauses grow by one, and nothing is kept of it.
LEMMA Attempts ==
    ASSUME CrawlInv, run.at \in {"list", "download", "reading"},
           NEW pause \in Int, pause <= RetryAfterCap, run' = AttemptFailed(pause),
           UNCHANGED <<source, remote, index, edits, touched, short>>
    PROVE  CrawlInv'
<1>0. RunShape /\ PageOK /\ ContentOK /\ NoneMissed
  BY DEF CrawlInv
<1>1. CASE run.attempt = MaxRetries - 1
  <2>1. run' = [run EXCEPT !.at = "failed", !.buf = <<>>]
    BY <1>1 DEF AttemptFailed
  <2> QED
    BY <2>1, Fails
<1>2. CASE run.attempt # MaxRetries - 1
  <2>1. PICK at : at = IF run.at = "reading" THEN "download" ELSE run.at
    OBVIOUS
  <2>2. run' = [run EXCEPT !.at = at, !.attempt = run.attempt + 1, !.waited = run.waited + pause, !.buf = <<>>]
    BY <1>2, <2>1 DEF AttemptFailed
  <2>3. /\ DOMAIN run' = RunFields /\ run'.at = at /\ run'.buf = <<>>
        /\ run'.page = run.page /\ run'.last = run.last /\ run'.more = run.more /\ run'.item = run.item
        /\ run'.attempt = run.attempt + 1 /\ run'.waited = run.waited + pause /\ run'.version = run.version
    BY <1>0, <2>2 DEF RunShape, RunFields
  <2>4. at \in {"list", "download"} /\ (at = "list" <=> run.at = "list")
    BY <2>1
  <2>5. RunShape'
    <3>1. PICK cap \in Nat, n \in Nat : cap = RetryAfterCap /\ n = MaxRetries - 1
      BY BoundsNat
    <3>2. /\ run.attempt \in Nat /\ run.attempt <= n
          /\ run.waited \in Int /\ run.waited <= run.attempt * cap /\ pause <= cap
      BY <1>0, <3>1 DEF RunShape
    <3>3. run.waited + pause \in Int /\ run.waited + pause <= (run.attempt + 1) * cap
      BY <3>1, <3>2
    <3>4. run.attempt + 1 \in Nat /\ run.attempt + 1 <= n
      BY <1>2, <3>1, <3>2
    <3>5. <<>> \in Seq(Versions) /\ Len(<<>>) <= Ceiling
      BY BoundsNat
    <3>6. at \in Places
      BY <2>4 DEF Places
    <3> QED
      BY <1>0, <2>3, <3>1, <3>3, <3>4, <3>5, <3>6 DEF RunShape
  <2>6. PageOK'
    BY <1>0, <2>3, <2>4, SameSource DEF PageOK, AtItem
  <2>7. ContentOK'
    BY <2>3, <2>4 DEF ContentOK, Fetching
  <2>8. NoneMissed'
    BY <1>0, <2>3, <2>4, SameSource DEF NoneMissed, AtItem
  <2> QED
    BY <2>3, <2>5, <2>6, <2>7, <2>8, Moves
<1> QED
  BY <1>1, <1>2

\* Graph refuses a request.
LEMMA Refused ==
    ASSUME CrawlInv, run.at \in {"list", "download"}, GraphRefuses,
           UNCHANGED <<source, remote, index, edits, touched, short>>
    PROVE  CrawlInv'
<1>1. run.attempt \in Nat
  BY DEF CrawlInv, RunShape
<1>2. ASSUME NEW status, NEW header \in RetryAfters,
             run' = AttemptFailed(RetryDelay(status, header, run.attempt))
      PROVE  CrawlInv'
  <2>1. PICK pause \in Int : pause = RetryDelay(status, header, run.attempt) /\ pause <= RetryAfterCap
    BY <1>1, Pauses
  <2> QED
    BY <1>2, <2>1, Attempts
<1>3. ASSUME run' = AttemptFailed(ExpBackoff(run.attempt)) PROVE CrawlInv'
  <2>1. PICK pause \in Int : pause = ExpBackoff(run.attempt) /\ pause <= RetryAfterCap
    BY <1>1, Pauses
  <2> QED
    BY <1>3, <2>1, Attempts
<1> QED
  BY <1>2, <1>3, FailsOnly DEF GraphRefuses

-----------------------------------------------------------------------------
\* A set of natural numbers has a least element: induction, as a fact that the
\* provers can use.
LEMMA LeastOf ==
    ASSUME NEW T \in SUBSET Nat, T # {}
    PROVE  \E m \in T : \A k \in T : m <= k
<1> DEFINE R == OpToRel(<, Nat)
<1>1. IsWellFoundedOn(R, Nat)
  BY NatLessThanWellFounded
<1>2. \A x, y \in Nat : y < x => <<y, x>> \in R
  BY DEF OpToRel
<1> HIDE DEF R
<1>3. PICK m \in T : \A y \in T : ~ (<<y, m>> \in R)
  BY <1>1, WFMin
<1>4. ASSUME NEW k \in T PROVE m <= k
  <2>1. ~ (k < m) /\ k \in Nat /\ m \in Nat
    BY <1>2, <1>3
  <2> QED
    BY <2>1
<1> QED
  BY <1>4

\* A page has a last entry: it is the one nearest to the last entry of all.
LEMMA LastOfPage ==
    ASSUME NEW page \in SUBSET Names, page # {}
    PROVE  Max(page) \in page /\ \A i \in page : i <= Max(page)
<1>1. Names \subseteq Nat
  BY BoundsNat
<1>2. PICK n \in Nat : \A i \in Names : i <= n
  BY <1>1, NamesBounded
<1> DEFINE Gaps == {n - i : i \in page}
<1>3. Gaps \subseteq Nat /\ Gaps # {}
  <2>1. ASSUME NEW i \in page PROVE n - i \in Nat
    <3>1. i \in Names /\ i \in Nat /\ i <= n
      BY <1>1, <1>2
    <3> QED
      BY <3>1
  <2>2. PICK i \in page : TRUE
    OBVIOUS
  <2>3. n - i \in Gaps
    BY <2>2
  <2> QED
    BY <2>1, <2>3
<1>4. PICK gap \in Gaps : \A k \in Gaps : gap <= k
  BY <1>3, LeastOf
<1>5. PICK m \in page : gap = n - m
  BY <1>4
<1>6. ASSUME NEW i \in page PROVE m >= i
  <2>1. n - m <= n - i
    BY <1>4, <1>5
  <2> QED
    BY <1>1, <2>1
<1>7. Max(page) \in page /\ \A i \in page : Max(page) >= i
  BY <1>6 DEF Max
<1> QED
  BY <1>1, <1>7

\* A page is what comes next: whatever is left for later comes after it.
LEMMA PageCuts ==
    ASSUME RunShape, NEW page \in Pages
    PROVE  \E last \in Int :
            /\ last = (IF page = {} THEN run.last ELSE Max(page))
            /\ page \in SUBSET Names
            /\ \A i \in Rest \ page : i > last
<1>1. run.last \in Int /\ Names \subseteq Nat
  BY BoundsNat DEF RunShape
<1>2. Rest \subseteq Names /\ \A i \in Rest : i > run.last
  BY DEF Rest, Present
<1>3. CASE page = {}
  BY <1>1, <1>2, <1>3
<1>4. CASE page # {}
  <2>1. page \in SUBSET Rest /\ \A i \in page, k \in Rest \ page : i < k
    BY <1>4 DEF Pages
  <2>2. page \in SUBSET Names
    BY <1>2, <2>1
  <2>3. PICK m \in page : m = Max(page)
    BY <1>4, <2>2, LastOfPage
  <2>4. m \in Int /\ \A i \in Rest \ page : i > m
    BY <1>1, <1>2, <2>1, <2>2, <2>3
  <2> QED
    BY <1>4, <2>2, <2>3, <2>4
<1> QED
  BY <1>3, <1>4

\* A page is turned to: what it has and is not kept is not to be taken.
LEMMA Turned ==
    ASSUME CrawlInv, run.at = "list", NEW page \in Pages, NEW kept,
           kept = {i \in page : Yields(i)}, run' = TurnTo(page, kept),
           UNCHANGED <<source, remote, index, edits, touched, short>>
    PROVE  CrawlInv'
<1>0. RunShape /\ PageOK /\ ContentOK /\ NoneMissed
  BY DEF CrawlInv
<1>1. PICK last \in Int : /\ last = (IF page = {} THEN run.last ELSE Max(page))
                          /\ page \in SUBSET Names /\ \A i \in Rest \ page : i > last
  BY <1>0, PageCuts
<1>2. PICK more \in BOOLEAN : more = (page # Rest)
  OBVIOUS
<1>3. run' = [run EXCEPT !.at = "items", !.page = kept, !.last = last, !.blank = (page = {}),
                         !.attempt = 0, !.waited = 0, !.more = more]
  BY <1>1, <1>2 DEF TurnTo
<1>4. /\ DOMAIN run' = RunFields /\ run'.at = "items" /\ run'.page = kept /\ run'.last = last
      /\ run'.more = more /\ run'.attempt = 0 /\ run'.waited = 0
      /\ run'.item = run.item /\ run'.version = run.version /\ run'.buf = run.buf
  BY <1>0, <1>3 DEF RunShape, RunFields
<1>5. RunShape'
  <2>1. 0 \in Nat /\ 0 <= MaxRetries - 1 /\ 0 \in Int /\ 0 <= 0 * RetryAfterCap
    BY BoundsNat
  <2>2. "items" \in Places /\ kept \in SUBSET Names
    BY <1>1 DEF Places
  <2> QED
    BY <1>0, <1>1, <1>4, <2>1, <2>2 DEF RunShape
<1>6. PageOK'
  BY <1>4, SameSource DEF PageOK, AtItem
<1>7. ContentOK'
  BY <1>0, <1>4 DEF ContentOK, Fetching
<1>8. NoneMissed'
  <2>1. ASSUME NEW i \in Present \ touched, Yields(i), ~Ingested(i)
        PROVE  (more /\ i > last) \/ i \in kept
    <3>1. run.page = {}
      BY <1>0 DEF PageOK
    <3>2. i > run.last
      BY <1>0, <2>1, <3>1 DEF NoneMissed, AtItem
    <3>3. i \in Rest
      BY <2>1, <3>2 DEF Rest
    <3>4. CASE i \in page
      BY <2>1, <3>4
    <3>5. CASE i \notin page
      BY <1>1, <1>2, <3>3, <3>5
    <3> QED
      BY <3>4, <3>5
  <2> QED
    BY <1>4, <2>1, SameSource DEF NoneMissed
<1> QED
  BY <1>4, <1>5, <1>6, <1>7, <1>8, Moves

\* The client is built, and listing begins before the first entry.
LEMMA BuildCrawls == ASSUME CrawlInv, BuildBlob \/ BuildGraph PROVE CrawlInv'
<1>0. RunShape /\ PageOK /\ ContentOK /\ run.at = "new" /\ UNCHANGED <<source, remote, index, edits, touched, short>>
  BY DEF CrawlInv, BuildBlob, BuildGraph, In
<1>1. CASE Goes("failed")
  BY <1>0, <1>1, FailsOnly
<1>2. CASE Goes("list")
  <2>1. /\ DOMAIN run' = RunFields /\ run'.at = "list" /\ run'.buf = run.buf
        /\ run'.page = run.page /\ run'.last = run.last /\ run'.more = run.more /\ run'.item = run.item
        /\ run'.attempt = run.attempt /\ run'.waited = run.waited /\ run'.version = run.version
    BY <1>0, <1>2 DEF RunShape, RunFields, Goes
  <2>2. RunShape'
    <3>1. run'.at \in Places
      BY <2>1 DEF Places
    <3> QED
      BY <1>0, <2>1, <3>1 DEF RunShape
  <2>3. PageOK'
    BY <1>0, <2>1, SameSource DEF PageOK, AtItem
  <2>4. ContentOK'
    BY <1>0, <2>1 DEF ContentOK, Fetching
  <2>5. NoneMissed'
    <3>1. \A i \in Present : i > -1
      BY BoundsNat DEF Present
    <3>2. run'.more /\ run'.last = -1
      BY <1>0, <2>1 DEF PageOK
    <3> QED
      BY <3>1, <3>2, SameSource, <1>0 DEF NoneMissed
  <2> QED
    BY <1>0, <2>1, <2>2, <2>3, <2>4, <2>5, Moves
<1> QED
  BY <1>1, <1>2 DEF BuildBlob, BuildGraph

\* A listing.
LEMMA ListCrawls == ASSUME CrawlInv, ListBlob \/ ListGraph PROVE CrawlInv'
<1>0. run.at = "list" /\ UNCHANGED <<source, remote, index, edits, touched, short>>
  BY DEF ListBlob, ListGraph, In
<1>1. ASSUME NEW page \in Pages, source = "blob", run' = TurnTo(page, {i \in page : BlobYields(i)})
      PROVE  CrawlInv'
  <2>1. {i \in page : BlobYields(i)} = {i \in page : Yields(i)}
    BY <1>1 DEF Yields
  <2> QED
    BY <1>0, <1>1, <2>1, Turned
<1>2. ASSUME NEW page \in Pages, source = "sharepoint", run' = TurnTo(page, {i \in page : GraphYields(i)})
      PROVE  CrawlInv'
  <2>1. {i \in page : GraphYields(i)} = {i \in page : Yields(i)}
    BY <1>2 DEF Yields
  <2> QED
    BY <1>0, <1>2, <2>1, Turned
<1>3. CASE Goes("failed")
  BY <1>0, <1>3, FailsOnly
<1>4. CASE GraphRefuses
  BY <1>0, <1>4, Refused
<1> QED
  BY <1>1, <1>2, <1>3, <1>4 DEF ListBlob, ListGraph

\* The next item of the page, the next page, or the end.
LEMMA TakeCrawls == ASSUME CrawlInv, TakeItem PROVE CrawlInv'
<1>0. /\ RunShape /\ PageOK /\ ContentOK /\ NoneMissed /\ run.at = "items"
      /\ UNCHANGED <<source, remote, index, edits, touched, short>>
  BY DEF CrawlInv, TakeItem, In
<1>1. ASSUME NEW i \in run.page, run' = [run EXCEPT !.at = "download", !.item = i, !.page = @ \ {i}]
      PROVE  CrawlInv'
  <2>1. /\ DOMAIN run' = RunFields /\ run'.at = "download" /\ run'.buf = run.buf
        /\ run'.page = run.page \ {i} /\ run'.last = run.last /\ run'.more = run.more /\ run'.item = i
        /\ run'.attempt = run.attempt /\ run'.waited = run.waited /\ run'.version = run.version
    BY <1>0, <1>1 DEF RunShape, RunFields
  <2>2. RunShape'
    <3>1. run'.at \in Places
      BY <2>1 DEF Places
    <3> QED
      BY <1>0, <2>1, <3>1 DEF RunShape
  <2>3. PageOK'
    <3>1. i \in Names /\ Yields(i)
      BY <1>0 DEF PageOK, RunShape
    <3> QED
      BY <1>0, <2>1, <3>1, SameSource DEF PageOK, AtItem
  <2>4. ContentOK'
    BY <1>0, <2>1 DEF ContentOK, Fetching
  <2>5. NoneMissed'
    BY <1>0, <2>1, SameSource DEF NoneMissed, AtItem
  <2> QED
    BY <1>0, <2>1, <2>2, <2>3, <2>4, <2>5, Moves
<1>2. ASSUME run.page = {}, NEW at, at = (IF run.more THEN "list" ELSE "done"), Goes(at)
      PROVE  CrawlInv'
  <2>1. /\ DOMAIN run' = RunFields /\ run'.at = at /\ run'.buf = run.buf
        /\ run'.page = run.page /\ run'.last = run.last /\ run'.more = run.more /\ run'.item = run.item
        /\ run'.attempt = run.attempt /\ run'.waited = run.waited /\ run'.version = run.version
    BY <1>0, <1>2 DEF RunShape, RunFields, Goes
  <2>2. at \in {"list", "done"} /\ (at = "list" => run.more) /\ (at = "done" => ~run.more)
    BY <1>2
  <2>3. RunShape'
    <3>1. run'.at \in Places
      BY <2>1, <2>2 DEF Places
    <3> QED
      BY <1>0, <2>1, <3>1 DEF RunShape
  <2>4. PageOK'
    BY <1>0, <1>2, <2>1, <2>2, SameSource DEF PageOK, AtItem
  <2>5. ContentOK'
    BY <1>0, <2>1, <2>2 DEF ContentOK, Fetching
  <2>6. NoneMissed'
    BY <1>0, <2>1, <2>2, SameSource DEF NoneMissed, AtItem
  <2> QED
    BY <1>0, <2>1, <2>2, <2>3, <2>4, <2>5, <2>6, Moves
<1> QED
  BY <1>1, <1>2 DEF TakeItem

-----------------------------------------------------------------------------
\* What was fetched is all of the item, or nothing of a text that may be empty.
LEMMA FetchedCrawls ==
    ASSUME CrawlInv, run.at \in {"download", "reading"}, NEW content \in Seq(Versions),
           Len(content) <= Ceiling,
           \/ Len(content) = Chunks[run.item] /\ content # <<>>
           \/ content = <<>> /\ (source = "sharepoint" \/ Chunks[run.item] = 0),
           \A k \in 1..Len(content) : content[k] = run.version,
           content # <<>> => run.item \in touched \/ run.version = remote[run.item],
           run' = Fetched(content), UNCHANGED <<source, remote, index, edits, touched, short>>
    PROVE  CrawlInv'
<1>0. RunShape /\ PageOK /\ ContentOK /\ NoneMissed
  BY DEF CrawlInv
<1>1. CASE ~MagicOK(run.item, content)
  <2>1. run' = [run EXCEPT !.at = "failed", !.buf = <<>>]
    BY <1>1 DEF Fetched
  <2> QED
    BY <2>1, Fails
<1>2. CASE MagicOK(run.item, content)
  <2>1. run' = [run EXCEPT !.at = "delete", !.buf = content, !.attempt = 0, !.waited = 0]
    BY <1>2 DEF Fetched
  <2>2. /\ DOMAIN run' = RunFields /\ run'.at = "delete" /\ run'.buf = content
        /\ run'.page = run.page /\ run'.last = run.last /\ run'.more = run.more /\ run'.item = run.item
        /\ run'.attempt = 0 /\ run'.waited = 0 /\ run'.version = run.version
    BY <1>0, <2>1 DEF RunShape, RunFields
  <2>3. RunShape'
    <3>1. 0 \in Nat /\ 0 <= MaxRetries - 1 /\ 0 \in Int /\ 0 <= 0 * RetryAfterCap
      BY BoundsNat
    <3>2. "delete" \in Places
      BY DEF Places
    <3> QED
      BY <1>0, <2>2, <3>1, <3>2 DEF RunShape
  <2>4. PageOK'
    BY <1>0, <2>2, SameSource DEF PageOK, AtItem
  <2>5. ContentOK'
    <3>1. ASSUME content = <<>> PROVE Kind[run.item] = "text"
      <4>1. Kind[run.item] # "pdf"
        BY <1>2, <3>1 DEF MagicOK
      <4>2. Supported(run.item)
        BY <1>0, YieldsSupported DEF PageOK, AtItem
      <4> QED
        BY <4>1, <4>2 DEF Supported
    <3> QED
      BY <2>2, <3>1 DEF ContentOK, Fetching
  <2>6. NoneMissed'
    BY <1>0, <2>2, SameSource DEF NoneMissed, AtItem
  <2> QED
    BY <2>2, <2>3, <2>4, <2>5, <2>6, Moves
<1> QED
  BY <1>1, <1>2

\* A download begins, with the version that the source has.
LEMMA OpenedCrawls ==
    ASSUME CrawlInv, run.at = "download", run' = Opened(remote[run.item]),
           UNCHANGED <<source, remote, index, edits, touched, short>>
    PROVE  CrawlInv'
<1>0. RunShape /\ PageOK /\ ContentOK /\ NoneMissed /\ SourceTyped
  BY DEF CrawlInv
<1>1. CASE Chunks[run.item] = 0
  <2>1. <<>> \in Seq(Versions) /\ Len(<<>>) <= Ceiling /\ 1..Len(<<>>) = {}
    BY BoundsNat
  <2>2. run' = Fetched(<<>>)
    BY <1>1 DEF Opened
  <2> QED
    BY <1>1, <2>1, <2>2, FetchedCrawls
<1>2. CASE Chunks[run.item] # 0
  <2>0. run.item \in Names
    BY <1>0 DEF PageOK, AtItem
  <2>1. PICK version \in Versions : version = remote[run.item]
    BY <1>0, <2>0 DEF SourceTyped
  <2>2. run' = [run EXCEPT !.at = "reading", !.version = version]
    BY <1>2, <2>1 DEF Opened
  <2>3. /\ DOMAIN run' = RunFields /\ run'.at = "reading" /\ run'.buf = run.buf
        /\ run'.page = run.page /\ run'.last = run.last /\ run'.more = run.more /\ run'.item = run.item
        /\ run'.attempt = run.attempt /\ run'.waited = run.waited /\ run'.version = version
    BY <1>0, <2>2 DEF RunShape, RunFields
  <2>4. RunShape'
    <3>1. "reading" \in Places
      BY DEF Places
    <3> QED
      BY <1>0, <2>3, <3>1 DEF RunShape
  <2>5. PageOK'
    BY <1>0, <2>3, SameSource DEF PageOK, AtItem
  <2>6. ContentOK'
    <3>1. run.buf = <<>> /\ Len(<<>>) = 0 /\ 1..0 = {}
      BY <1>0 DEF ContentOK, Fetching
    <3>2. 0 < Chunks[run.item]
      BY <1>2, <2>0, ContentsNat
    <3> QED
      BY <2>1, <2>3, <3>1, <3>2 DEF ContentOK, Fetching
  <2>7. NoneMissed'
    BY <1>0, <2>3, SameSource DEF NoneMissed, AtItem
  <2> QED
    BY <2>3, <2>4, <2>5, <2>6, <2>7, Moves
<1> QED
  BY <1>1, <1>2

\* A download is tried.
LEMMA DownloadCrawls == ASSUME CrawlInv, DownloadBlob \/ DownloadGraph PROVE CrawlInv'
<1>0. run.at = "download" /\ UNCHANGED <<source, remote, index, edits, touched, short>>
  BY DEF DownloadBlob, DownloadGraph, In
<1>1. CASE run' = Opened(remote[run.item])
  BY <1>0, <1>1, OpenedCrawls
<1>2. CASE run' = AttemptFailed(ExpBackoff(run.attempt))
  <2>1. PICK pause \in Int : pause = ExpBackoff(run.attempt) /\ pause <= RetryAfterCap
    BY Pauses DEF CrawlInv, RunShape
  <2> QED
    BY <1>0, <1>2, <2>1, Attempts
<1>3. CASE source = "sharepoint" /\ run' = Fetched(<<>>)
  <2>1. <<>> \in Seq(Versions) /\ Len(<<>>) <= Ceiling /\ 1..Len(<<>>) = {}
    BY BoundsNat
  <2> QED
    BY <1>0, <1>3, <2>1, FetchedCrawls
<1>4. CASE GraphRefuses
  BY <1>0, <1>4, Refused
<1> QED
  BY <1>1, <1>2, <1>3, <1>4 DEF DownloadBlob, DownloadGraph

\* A chunk of the version whose download began.
LEMMA ChunkCrawls ==
    ASSUME CrawlInv, run.at = "reading", run' = WithChunk(run.version),
           UNCHANGED <<source, remote, index, edits, touched, short>>
    PROVE  CrawlInv'
<1>0. RunShape /\ PageOK /\ ContentOK /\ NoneMissed
  BY DEF CrawlInv
<1>1. PICK content : content = Append(run.buf, run.version)
  OBVIOUS
<1>2. run.version \in Versions /\ run.buf \in Seq(Versions)
  BY <1>0 DEF RunShape
<1>3. content \in Seq(Versions) /\ Len(content) = Len(run.buf) + 1 /\ Len(run.buf) \in Nat
  BY <1>1, <1>2
<1>4. \A k \in 1..Len(content) : content[k] = run.version
  <2>1. \A k \in 1..Len(run.buf) : run.buf[k] = run.version
    BY <1>0 DEF ContentOK, Fetching
  <2> QED
    BY <1>1, <1>2, <1>3, <2>1
<1>5. run.item \in Names /\ Chunks[run.item] \in Nat /\ Len(run.buf) < Chunks[run.item]
  BY <1>0, ContentsNat DEF PageOK, AtItem, ContentOK
<1>6. run.item \in touched \/ run.version = remote[run.item]
  BY <1>0 DEF ContentOK
<1>7. CASE Len(content) > Ceiling
  <2>1. run' = [run EXCEPT !.at = "failed", !.buf = <<>>]
    BY <1>1, <1>7 DEF WithChunk
  <2> QED
    BY <2>1, Fails
<1>8. CASE ~(Len(content) > Ceiling) /\ Len(content) < Chunks[run.item]
  <2>1. run' = [run EXCEPT !.buf = content]
    BY <1>1, <1>8 DEF WithChunk
  <2>2. /\ DOMAIN run' = RunFields /\ run'.at = "reading" /\ run'.buf = content
        /\ run'.page = run.page /\ run'.last = run.last /\ run'.more = run.more /\ run'.item = run.item
        /\ run'.attempt = run.attempt /\ run'.waited = run.waited /\ run'.version = run.version
    BY <1>0, <2>1 DEF RunShape, RunFields
  <2>3. RunShape'
    <3>1. Len(content) <= Ceiling
      BY <1>3, <1>8, BoundsNat
    <3> QED
      BY <1>0, <1>3, <2>2, <3>1 DEF RunShape
  <2>4. PageOK'
    BY <1>0, <2>2, SameSource DEF PageOK, AtItem
  <2>5. ContentOK'
    BY <1>4, <1>6, <1>8, <2>2 DEF ContentOK, Fetching
  <2>6. NoneMissed'
    BY <1>0, <2>2, SameSource DEF NoneMissed, AtItem
  <2> QED
    BY <2>2, <2>3, <2>4, <2>5, <2>6, Moves
<1>9. CASE ~(Len(content) > Ceiling) /\ ~(Len(content) < Chunks[run.item])
  <2>1. run' = Fetched(content)
    BY <1>1, <1>9 DEF WithChunk
  <2>2. Len(content) = Chunks[run.item] /\ Len(content) <= Ceiling /\ Len(content) # 0
    BY <1>3, <1>5, <1>9, BoundsNat
  <2>3. content # <<>>
    BY <1>3, <2>2
  <2> QED
    BY <1>3, <1>4, <1>6, <2>1, <2>2, <2>3, FetchedCrawls
<1> QED
  BY <1>7, <1>8, <1>9

\* A chunk is read, or the connection breaks.
LEMMA ReadCrawls == ASSUME CrawlInv, ReadBlob \/ ReadGraph PROVE CrawlInv'
<1>0. run.at = "reading" /\ UNCHANGED <<source, remote, index, edits, touched, short>>
  BY DEF ReadBlob, ReadGraph, In
<1>1. CASE run' = WithChunk(run.version)
  BY <1>0, <1>1, ChunkCrawls
<1>2. CASE run' = AttemptFailed(ExpBackoff(run.attempt))
  <2>1. PICK pause \in Int : pause = ExpBackoff(run.attempt) /\ pause <= RetryAfterCap
    BY Pauses DEF CrawlInv, RunShape
  <2> QED
    BY <1>0, <1>2, <2>1, Attempts
<1> QED
  BY <1>1, <1>2 DEF ReadBlob, ReadGraph

-----------------------------------------------------------------------------
\* The run goes on with the entry it is at, or is done with it, or fails; of the rest it
\* keeps all but the content.
GoesOn(at, buf) ==
    /\ DOMAIN run' = RunFields /\ run'.at = at /\ run'.buf = buf
    /\ run'.page = run.page /\ run'.last = run.last /\ run'.more = run.more /\ run'.item = run.item
    /\ run'.attempt = run.attempt /\ run'.waited = run.waited /\ run'.version = run.version

\* The chunks of the entry are replaced, and every other entry is where it was: the run is
\* at the entry still, or has failed there, or the entry was ingested.
LEMMA Leaving ==
    ASSUME CrawlInv, run.at \in {"delete", "upload"}, UNCHANGED <<source, remote, edits, touched>>,
           NEW content \in -2..MaxEdits + 1, Leaves(content),
           short' \in SUBSET Names, short \subseteq short',
           NEW at \in {"upload", "items", "failed"}, NEW buf \in {run.buf, <<>>}, GoesOn(at, buf),
           at = "upload" => buf = run.buf,
           at = "items" => /\ buf = <<>>
                           /\ \/ run.item \in short'
                              \/ /\ content \notin {Nothing, Part}
                                 /\ run.item \in touched \/ content = remote[run.item]
    PROVE  CrawlInv'
<1>0. SourceTyped /\ RunShape /\ PageOK /\ ContentOK /\ NoneMissed /\ HoleOnlyByUpload
  BY DEF CrawlInv
<1>1. /\ DOMAIN run' = RunFields /\ run'.at = at /\ run'.buf = buf
      /\ run'.page = run.page /\ run'.last = run.last /\ run'.more = run.more /\ run'.item = run.item
      /\ run'.attempt = run.attempt /\ run'.waited = run.waited /\ run'.version = run.version
  BY DEF GoesOn
<1>2. \A i : Yields(i)' <=> Yields(i)
  BY DEF Yields
<1>3. run.item \in Names
  BY <1>0 DEF PageOK, AtItem
<1>4. index'[run.item] = content /\ \A i \in Names : i # run.item => index'[i] = index[i]
  BY <1>0, <1>3 DEF SourceTyped, Leaves
<1>5. SourceTyped'
  BY <1>0 DEF SourceTyped, Leaves
<1>6. RunShape'
  <2>1. <<>> \in Seq(Versions) /\ Len(<<>>) <= Ceiling
    BY BoundsNat
  <2>2. run.buf \in Seq(Versions) /\ Len(run.buf) <= Ceiling
    BY <1>0 DEF RunShape
  <2>3. at \in Places
    BY DEF Places
  <2> QED
    BY <1>0, <1>1, <2>1, <2>2, <2>3 DEF RunShape
<1>7. PageOK'
  BY <1>0, <1>1, <1>2 DEF PageOK, AtItem
<1>8. ContentOK'
  <2>1. CASE at = "upload"
    BY <1>0, <1>1, <2>1 DEF ContentOK, Fetching
  <2>2. CASE at = "items"
    BY <1>1, <2>2 DEF ContentOK, Fetching
  <2>3. CASE at = "failed"
    BY <1>1, <2>3 DEF ContentOK, Fetching
  <2> QED
    BY <2>1, <2>2, <2>3
<1>9. NoneMissed'
  <2>1. ASSUME NEW i \in Present \ touched, Yields(i), i # run.item
        PROVE  Ingested(i)' \/ (run.more /\ i > run.last) \/ i \in run.page
    <3>1. Ingested(i) \/ (run.more /\ i > run.last) \/ i \in run.page
      BY <1>0, <2>1 DEF NoneMissed
    <3>2. index'[i] = index[i]
      BY <1>4, <2>1 DEF Present
    <3> QED
      BY <3>1, <3>2 DEF Ingested
  <2>2. ASSUME at = "items", run.item \notin touched
        PROVE  index'[run.item] = remote'[run.item] \/ run.item \in short'
    BY <1>4, <2>2
  <2>3. Present' = Present
    BY DEF Present
  <2>4. CASE at = "upload"
    BY <1>1, <1>2, <2>1, <2>3, <2>4 DEF NoneMissed, AtItem
  <2>5. CASE at = "items"
    <3>1. ASSUME NEW i \in Present \ touched, Yields(i)
          PROVE  Ingested(i)' \/ (run.more /\ i > run.last) \/ i \in run.page
      BY <2>1, <2>2, <2>5, <3>1 DEF Ingested
    <3> QED
      BY <1>1, <1>2, <2>3, <3>1 DEF NoneMissed
  <2>6. CASE at = "failed"
    BY <1>1, <2>6 DEF NoneMissed
  <2> QED
    BY <2>4, <2>5, <2>6
<1>10. HoleOnlyByUpload'
  <2>1. ASSUME NEW i \in Names, Supported(i), index'[i] \in {Nothing', Part'}
        PROVE  i \in short' \/ (run'.item = i /\ run'.at \in {"upload", "failed"})
    <3>1. CASE i = run.item
      BY <1>1, <1>4, <2>1, <3>1 DEF Nothing, Part
    <3>2. CASE i # run.item
      <4>1. index[i] \in {Nothing, Part}
        BY <1>4, <2>1, <3>2 DEF Nothing, Part
      <4> QED
        BY <1>0, <2>1, <3>2, <4>1 DEF HoleOnlyByUpload
    <3> QED
      BY <3>1, <3>2
  <2> QED
    BY <2>1 DEF HoleOnlyByUpload
<1> QED
  BY <1>5, <1>6, <1>7, <1>8, <1>9, <1>10 DEF CrawlInv

\* What the index has where it has nothing, or a part only.
LEMMA HoleValues == Nothing \in -2..MaxEdits + 1 /\ Part \in -2..MaxEdits + 1
<1>1. PICK most \in Nat : most = MaxEdits
  BY BoundsNat
<1>2. -1 \in -2..most + 1 /\ -2 \in -2..most + 1
  OBVIOUS
<1> QED
  BY <1>1, <1>2 DEF Nothing, Part

\* The old chunks are deleted, with the content at hand.
LEMMA DeleteCrawls == ASSUME CrawlInv, DeleteOld PROVE CrawlInv'
<1>0. /\ SourceTyped /\ RunShape /\ PageOK
      /\ run.at = "delete" /\ UNCHANGED <<source, remote, edits, touched, short>>
  BY DEF CrawlInv, DeleteOld, In
<1>1. short' \in SUBSET Names /\ short \subseteq short'
  BY <1>0 DEF SourceTyped
<1>2. Nothing \in -2..MaxEdits + 1 /\ Part \in -2..MaxEdits + 1 /\ index[run.item] \in -2..MaxEdits + 1
  <2>1. run.item \in Names
    BY <1>0 DEF PageOK, AtItem
  <2> QED
    BY <1>0, <2>1, HoleValues DEF SourceTyped
<1>3. ASSUME NEW at \in {"upload", "failed"}, Goes(at) PROVE GoesOn(at, run.buf)
  BY <1>0, <1>3 DEF GoesOn, Goes, RunShape, RunFields
<1>4. CASE Goes("upload") /\ Leaves(Nothing)
  <2>1. GoesOn("upload", run.buf)
    BY <1>3, <1>4
  <2> QED
    BY <1>0, <1>1, <1>2, <1>4, <2>1, Leaving
<1>5. ASSUME NEW content \in {index[run.item], Part, Nothing}, Goes("failed"), Leaves(content)
      PROVE  CrawlInv'
  <2>1. GoesOn("failed", run.buf)
    BY <1>3, <1>5
  <2> QED
    BY <1>0, <1>1, <1>2, <1>5, <2>1, Leaving
<1> QED
  BY <1>4, <1>5 DEF DeleteOld

\* The content is uploaded: the item is ingested, if nobody changed it, or is one of those
\* of which upload() said that it was not.
LEMMA UploadCrawls == ASSUME CrawlInv, Upload PROVE CrawlInv'
<1>0. /\ SourceTyped /\ RunShape /\ PageOK /\ ContentOK
      /\ run.at = "upload" /\ UNCHANGED <<source, remote, edits, touched>>
  BY DEF CrawlInv, Upload, In
<1>1. short' \in SUBSET Names /\ short \subseteq short'
  BY <1>0 DEF SourceTyped, PageOK, AtItem, Upload
<1>2. Nothing \in -2..MaxEdits + 1 /\ Part \in -2..MaxEdits + 1
  BY HoleValues
<1>3. CASE run' = [run EXCEPT !.at = "items", !.buf = <<>>]
  <2>0. GoesOn("items", <<>>)
    BY <1>0, <1>3 DEF GoesOn, RunShape, RunFields
  <2>1. CASE run.buf # <<>> /\ Leaves(Last(run.buf))
    <3>1. run.buf \in Seq(Versions) /\ \A k \in 1..Len(run.buf) : run.buf[k] = run.version
      BY <1>0 DEF RunShape, ContentOK, Fetching
    <3>2. Len(run.buf) \in 1..Len(run.buf)
      BY <2>1, <3>1
    <3>3. PICK content : content = Last(run.buf)
      OBVIOUS
    <3>4. content = run.version
      BY <3>1, <3>2, <3>3 DEF Last
    <3>5. content \in -2..MaxEdits + 1 /\ content \notin {Nothing, Part}
      BY <1>0, <3>4, BoundsNat DEF RunShape, Versions, Nothing, Part
    <3>6. run.item \in touched \/ content = remote[run.item]
      BY <1>0, <2>1, <3>4 DEF ContentOK, Fetching
    <3>7. Leaves(content)
      BY <2>1, <3>3
    <3> QED
      BY <1>0, <1>1, <2>0, <3>5, <3>6, <3>7, Leaving
  <2>2. ASSUME NEW content \in {Part, Nothing}, Leaves(content), short' = short \cup {run.item}
        PROVE  CrawlInv'
    BY <1>0, <1>1, <1>2, <2>0, <2>2, Leaving
  <2>3. ~Goes("failed")
    BY <1>0, <2>0 DEF GoesOn, Goes, RunShape, RunFields
  <2> QED
    BY <2>1, <2>2, <2>3 DEF Upload
<1>4. ASSUME NEW content \in {Part, Nothing}, Leaves(content), Goes("failed")
      PROVE  CrawlInv'
  <2>1. GoesOn("failed", run.buf)
    BY <1>0, <1>4 DEF GoesOn, Goes, RunShape, RunFields
  <2> QED
    BY <1>0, <1>1, <1>2, <1>4, <2>1, Leaving
<1> QED
  BY <1>3, <1>4 DEF Upload

\* Somebody changes the source.
LEMMA EditCrawls == ASSUME CrawlInv, NEW k \in Names, Edit(k) PROVE CrawlInv'
<1>0. /\ SourceTyped /\ RunShape /\ PageOK /\ ContentOK /\ NoneMissed /\ HoleOnlyByUpload
      /\ UNCHANGED <<source, index, run, short>>
  BY DEF CrawlInv, Edit
<1>1. PICK version \in {0, edits + 2} : remote' = [remote EXCEPT ![k] = version]
  BY DEF Edit
<1>2. edits < MaxEdits /\ edits' = edits + 1 /\ edits \in Nat /\ MaxEdits \in Nat
  BY <1>0, BoundsNat DEF Edit, SourceTyped
<1>3. SourceTyped'
  <2>1. version \in Versions
    BY <1>2 DEF Versions
  <2>2. remote' \in [Names -> Versions]
    BY <1>0, <1>1, <2>1 DEF SourceTyped
  <2>3. edits' \in 0..MaxEdits
    BY <1>2
  <2>4. touched' \in SUBSET Names
    BY <1>0 DEF Edit, SourceTyped
  <2> QED
    BY <1>0, <2>2, <2>3, <2>4 DEF SourceTyped
<1>4. run.at # "new" => touched' = touched \cup {k}
  BY DEF Edit, In
<1>5. \A i \in Names : i # k => remote'[i] = remote[i]
  BY <1>0, <1>1 DEF SourceTyped
<1>6. \A i : Yields(i)' <=> Yields(i)
  BY <1>0 DEF Yields
<1>7. RunShape' /\ PageOK'
  BY <1>0, <1>6 DEF RunShape, PageOK
<1>8. ContentOK'
  <2>1. ASSUME run.at \in Fetching, run.item \in touched \/ run.version = remote[run.item]
        PROVE  run.item \in touched' \/ run.version = remote'[run.item]
    <3>1. run.item \in Names /\ touched' = touched \cup {k}
      BY <1>0, <1>4, <2>1 DEF PageOK, Fetching, AtItem
    <3> QED
      BY <1>5, <2>1, <3>1
  <2> QED
    BY <1>0, <2>1 DEF ContentOK, Fetching
<1>9. NoneMissed'
  <2>1. ASSUME run.at # "new", NEW i \in Present' \ touched'
        PROVE  i \in Present \ touched /\ (Ingested(i) => Ingested(i)')
    <3>1. i \in Names /\ i # k /\ i \notin touched
      BY <1>4, <2>1 DEF Present
    <3>2. remote'[i] = remote[i]
      BY <1>5, <3>1
    <3> QED
      BY <1>0, <2>1, <3>1, <3>2 DEF Present, Ingested
  <2> QED
    BY <1>0, <1>6, <2>1 DEF NoneMissed
<1>10. HoleOnlyByUpload'
  BY <1>0 DEF HoleOnlyByUpload
<1> QED
  BY <1>3, <1>7, <1>8, <1>9, <1>10 DEF CrawlInv

\* Before anything is listed.
LEMMA InitCrawls == RunInit => CrawlInv
<1> SUFFICES ASSUME RunInit PROVE CrawlInv
  OBVIOUS
<1>1. SourceTyped
  <2>1. 0 \in Versions /\ 1 \in Versions /\ 0 \in -2..MaxEdits + 1 /\ Nothing \in -2..MaxEdits + 1
    BY BoundsNat DEF Versions, Nothing
  <2>2. remote \in [Names -> Versions]
    BY <2>1 DEF RunInit
  <2>3. index \in [Names -> -2..MaxEdits + 1]
    BY <2>1 DEF RunInit
  <2>4. edits \in 0..MaxEdits
    BY BoundsNat DEF RunInit
  <2> QED
    BY <2>2, <2>3, <2>4 DEF RunInit, SourceTyped
<1>2. /\ DOMAIN run = RunFields /\ run.at = "new" /\ run.buf = <<>> /\ run.page = {}
      /\ run.last = -1 /\ run.more \in BOOLEAN /\ run.more /\ run.attempt = 0 /\ run.waited = 0
      /\ run.version = 0
  BY DEF RunInit, NoRun, RunFields
<1>3. RunShape
  <2>1. 0 \in Nat /\ 0 <= MaxRetries - 1 /\ 0 \in Int /\ 0 <= 0 * RetryAfterCap /\ 0 \in Versions
    BY BoundsNat DEF Versions
  <2>2. "new" \in Places /\ <<>> \in Seq(Versions) /\ Len(<<>>) <= Ceiling
    BY BoundsNat DEF Places
  <2> QED
    BY <1>2, <2>1, <2>2 DEF RunShape
<1>4. PageOK
  BY <1>2 DEF PageOK, AtItem
<1>5. ContentOK
  BY <1>2 DEF ContentOK, Fetching
<1>6. NoneMissed
  BY <1>2 DEF NoneMissed
<1>7. HoleOnlyByUpload
  BY DEF RunInit, HoleOnlyByUpload, Nothing, Part
<1> QED
  BY <1>1, <1>3, <1>4, <1>5, <1>6, <1>7 DEF CrawlInv

\* Every step of the run, and every change of its source.
LEMMA NextCrawls == CrawlInv /\ [RunNext]_runVars => CrawlInv'
<1> SUFFICES ASSUME CrawlInv, [RunNext]_runVars PROVE CrawlInv'
  OBVIOUS
<1>1. CASE BuildBlob \/ BuildGraph
  BY <1>1, BuildCrawls
<1>2. CASE ListBlob \/ ListGraph
  BY <1>2, ListCrawls
<1>3. CASE TakeItem
  BY <1>3, TakeCrawls
<1>4. CASE DownloadBlob \/ DownloadGraph
  BY <1>4, DownloadCrawls
<1>5. CASE ReadBlob \/ ReadGraph
  BY <1>5, ReadCrawls
<1>6. CASE DeleteOld
  BY <1>6, DeleteCrawls
<1>7. CASE Upload
  BY <1>7, UploadCrawls
<1>8. CASE \E k \in Names : Edit(k)
  BY <1>8, EditCrawls
<1>9. CASE UNCHANGED runVars
  <2>1. UNCHANGED <<source, remote, index, edits, touched, short>> /\ run' = run
    BY <1>9 DEF runVars
  <2> QED
    BY <2>1, SameSource DEF CrawlInv, SourceTyped, RunShape, PageOK, ContentOK, NoneMissed, HoleOnlyByUpload
<1> QED
  BY <1>1, <1>2, <1>3, <1>4, <1>5, <1>6, <1>7, <1>8, <1>9 DEF RunNext, Step

\* Every state of a run has the invariant.
LEMMA AlwaysCrawls == RunSpec => []CrawlInv
<1>1. RunInit => CrawlInv
  BY InitCrawls
<1>2. CrawlInv /\ [RunNext]_runVars => CrawlInv'
  BY NextCrawls
<1> QED
  BY <1>1, <1>2, PTL DEF RunSpec

\* The invariant has the listing.
LEMMA CrawlComplete == CrawlInv => ListingComplete
<1> SUFFICES ASSUME CrawlInv, In("done"), NEW i \in Present \ touched, Yields(i) PROVE Ingested(i)
  BY DEF ListingComplete
<1>1. run.at = "done" /\ NoneMissed /\ run.page = {} /\ ~run.more
  BY DEF In, CrawlInv, PageOK
<1> QED
  BY <1>1 DEF NoneMissed, AtItem

\* And the downloads.
LEMMA CrawlSound == CrawlInv => DownloadSound
<1> SUFFICES ASSUME CrawlInv PROVE DownloadSound
  OBVIOUS
<1>0. SourceTyped /\ RunShape /\ ContentOK
  BY DEF CrawlInv
<1>1. RunTyped
  <2>1. run.attempt \in 0..MaxRetries - 1
    BY <1>0, BoundsNat DEF RunShape
  <2> QED
    BY <1>0, <2>1 DEF RunTyped, SourceTyped, RunShape, Places, Versions
<1>2. WholeVersion
  <2> SUFFICES ASSUME run.at \in {"delete", "upload"}, run.buf # <<>>
               PROVE  Len(run.buf) = Chunks[run.item] /\ \A k \in DOMAIN run.buf : run.buf[k] = run.buf[1]
    BY DEF WholeVersion
  <2>1. Len(run.buf) = Chunks[run.item] /\ \A k \in 1..Len(run.buf) : run.buf[k] = run.version
    BY <1>0 DEF ContentOK, Fetching
  <2>2. DOMAIN run.buf = 1..Len(run.buf) /\ 1 \in 1..Len(run.buf)
    BY <1>0 DEF RunShape
  <2> QED
    BY <2>1, <2>2
<1>3. BufferBounded
  BY <1>0 DEF RunShape, BufferBounded
<1>4. StallBounded
  <2>1. PICK cap \in Nat, n \in Nat : cap = RetryAfterCap /\ n = MaxRetries - 1
    BY BoundsNat
  <2>2. run.attempt \in Nat /\ run.attempt <= n /\ run.waited \in Int /\ run.waited <= run.attempt * cap
    BY <1>0, <2>1 DEF RunShape
  <2>3. run.attempt * cap <= n * cap
    BY <2>1, <2>2
  <2>4. run.waited <= n * cap
    BY <2>2, <2>3
  <2> QED
    BY <2>1, <2>4 DEF StallBounded
<1> QED
  BY <1>1, <1>2, <1>3, <1>4 DEF DownloadSound

\* When a run is done, it has ingested every entry it has to take that was there untouched
\* from its start, whatever is added and removed around it and however the service cuts the
\* pages (enumerate of both connectors, run_connector).
THEOREM SpecListingComplete == RunSpec => []ListingComplete
<1>1. RunSpec => []CrawlInv
  BY AlwaysCrawls
<1>2. CrawlInv => ListingComplete
  BY CrawlComplete
<1> QED
  BY <1>1, <1>2, PTL

\* What is to be uploaded is every chunk of one version, each once, within the ceiling, and
\* the pauses on the way to it are within the caps (fetch, _stream_download_with_backoff).
THEOREM SpecDownloadSound == RunSpec => []DownloadSound
<1>1. RunSpec => []CrawlInv
  BY AlwaysCrawls
<1>2. CrawlInv => DownloadSound
  BY CrawlSound
<1> QED
  BY <1>1, <1>2, PTL

\* The index loses the chunks of an entry only in the step before its upload, with the new
\* content at hand.  Without them, or with some of them, are left the entries whose upload
\* returned "empty" or "degraded", and of a run that fails the one it was at (run_connector).
THEOREM SpecHoleOnlyByUpload == RunSpec => []HoleOnlyByUpload
<1>1. RunSpec => []CrawlInv
  BY AlwaysCrawls
<1>2. CrawlInv => HoleOnlyByUpload
  BY DEF CrawlInv
<1> QED
  BY <1>1, <1>2, PTL

===============================================================================
