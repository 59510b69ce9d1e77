----------------------------- MODULE UploadsProofs -----------------------------
(***************************************************************************)
(* Proof that every worker counts its uploads exactly, for any requests,   *)
(* workers, files and caps.                                                *)
(***************************************************************************)
EXTENDS Uploads, FiniteSetTheorems, SequenceTheorems, WellFoundedInduction, TLAPS

Fields == {"pc", "w", "i", "list", "report", "code"}

\* A request inside the handler has a worker; the counters are exact.
SlotInv ==
    /\ active \in [Workers -> Nat]
    /\ DOMAIN reqs = Reqs
    /\ \A r \in Reqs : /\ DOMAIN reqs[r] = Fields
                       /\ reqs[r].pc \in Inside => reqs[r].w \in Workers
    /\ SlotsExact

\* The uploads of a worker can be counted.
LEMMA HoldingFinite ==
    ASSUME NEW w
    PROVE  IsFiniteSet(Holding(w)) /\ Cardinality(Holding(w)) \in Nat
BY ReqsFinite, FS_Subset, FS_CardinalityType DEF Holding

-----------------------------------------------------------------------------
\* A request that goes on where it is, in the handler or outside of it.
LEMMA StaysIn ==
    ASSUME SlotInv, NEW r \in Reqs, NEW s, Becomes(r, s), active' = active,
           DOMAIN s = Fields, s.w = reqs[r].w,
           s.pc \in Inside <=> reqs[r].pc \in Inside
    PROVE  SlotInv'
<1>1. /\ DOMAIN reqs' = Reqs /\ reqs'[r] = s
      /\ \A q \in Reqs \ {r} : reqs'[q] = reqs[q]
  BY DEF Becomes, SlotInv
<1>2. \A w \in Workers : Holding(w)' = Holding(w)
  BY <1>1 DEF Holding
<1> QED
  BY <1>1, <1>2 DEF SlotInv, SlotsExact

\* A request that leaves the handler gives its slot back.
LEMMA LeavesSlot ==
    ASSUME SlotInv, NEW r \in Reqs, NEW code, Ends(r, code), reqs[r].pc \in Inside
    PROVE  SlotInv'
<1> DEFINE s == [reqs[r] EXCEPT !.pc = "done", !.code = code, !.w = NoWorker]
<1>1. /\ DOMAIN reqs' = Reqs /\ reqs'[r] = s /\ DOMAIN s = Fields /\ s.pc \notin Inside
      /\ \A q \in Reqs \ {r} : reqs'[q] = reqs[q]
  BY DEF Ends, Becomes, SlotInv, Fields, Inside
<1>2. PICK v \in Workers : v = reqs[r].w /\ r \in Holding(v)
  BY DEF SlotInv, Holding
<1> HIDE DEF s
<1>3. Holding(v)' = Holding(v) \ {r}
  BY <1>1, <1>2 DEF Holding
<1>4. \A w \in Workers \ {v} : Holding(w)' = Holding(w)
  BY <1>1, <1>2 DEF Holding
<1>5. Cardinality(Holding(v)') = Cardinality(Holding(v)) - 1 /\ Cardinality(Holding(v)) > 0
  BY <1>2, <1>3, HoldingFinite, FS_RemoveElement, FS_EmptySet
<1>6. active' = [active EXCEPT ![v] = active[v] - 1] /\ active[v] > 0
  BY <1>2, <1>5 DEF Ends, SlotInv, SlotsExact
<1>7. active' \in [Workers -> Nat]
  BY <1>2, <1>6 DEF SlotInv
<1>8. SlotsExact'
  <2>1. active'[v] = Cardinality(Holding(v)') /\ active'[v] <= MaxUploads
    BY <1>2, <1>5, <1>6, CapsPos DEF SlotInv, SlotsExact
  <2>2. \A w \in Workers \ {v} : active'[w] = Cardinality(Holding(w)') /\ active'[w] <= MaxUploads
    BY <1>4, <1>6 DEF SlotInv, SlotsExact
  <2> QED
    BY <2>1, <2>2 DEF SlotsExact
<1> QED
  BY <1>1, <1>7, <1>8 DEF SlotInv

\* A request takes a slot.
LEMMA TakesSlot ==
    ASSUME SlotInv, NEW r \in Reqs, AcquireSlot(r)
    PROVE  SlotInv'
<1>1. PICK v \in Workers : /\ active[v] < MaxUploads
                           /\ active' = [active EXCEPT ![v] = @ + 1]
                           /\ Becomes(r, [reqs[r] EXCEPT !.pc = "held", !.w = v])
  BY DEF AcquireSlot
<1>2. reqs[r].pc = "new"
  BY DEF AcquireSlot, In
<1> DEFINE s == [reqs[r] EXCEPT !.pc = "held", !.w = v]
<1>3. /\ DOMAIN reqs' = Reqs /\ reqs'[r] = s /\ DOMAIN s = Fields /\ s.pc \in Inside /\ s.w = v
      /\ \A q \in Reqs \ {r} : reqs'[q] = reqs[q]
  BY <1>1 DEF Becomes, SlotInv, Fields, Inside
<1> HIDE DEF s
<1>4. \A w : r \notin Holding(w)
  BY <1>2 DEF Holding, Inside
<1>5. Holding(v)' = Holding(v) \cup {r}
  BY <1>3, <1>4 DEF Holding
<1>6. \A w \in Workers \ {v} : Holding(w)' = Holding(w)
  BY <1>3, <1>4 DEF Holding
<1>7. Cardinality(Holding(v)') = Cardinality(Holding(v)) + 1
  BY <1>4, <1>5, HoldingFinite, FS_AddElement
<1>8. active' \in [Workers -> Nat]
  BY <1>1 DEF SlotInv
<1>9. SlotsExact'
  <2>1. active'[v] = Cardinality(Holding(v)') /\ active'[v] <= MaxUploads
    BY <1>1, <1>7, CapsPos DEF SlotInv, SlotsExact
  <2>2. \A w \in Workers \ {v} : active'[w] = Cardinality(Holding(w)') /\ active'[w] <= MaxUploads
    BY <1>1, <1>6 DEF SlotInv, SlotsExact
  <2> QED
    BY <2>1, <2>2 DEF SlotsExact
<1> QED
  BY <1>3, <1>8, <1>9 DEF SlotInv

-----------------------------------------------------------------------------
\* A file is reported, and the folder goes on.
LEMMA ReportedSlots ==
    ASSUME SlotInv, NEW r \in Reqs, NEW status, Reported(r, status), active' = active,
           reqs[r].pc \in Inside
    PROVE  SlotInv'
<1> DEFINE s == [reqs[r] EXCEPT !.pc = "walk", !.i = @ + 1,
                    !.report = Append(@, [file |-> Current(r), status |-> status])]
<1>1. DOMAIN s = Fields /\ s.w = reqs[r].w /\ s.pc \in Inside
  BY DEF SlotInv, Fields, Inside
<1>2. Becomes(r, s)
  BY DEF Reported
<1> HIDE DEF s
<1> QED
  BY <1>1, <1>2, StaysIn

\* A file is reported in folder mode, or the request ends.
LEMMA ConcludesSlots ==
    ASSUME SlotInv, NEW r \in Reqs, NEW result, Concludes(r, result), reqs[r].pc \in Inside
    PROVE  SlotInv'
BY ReportedSlots, LeavesSlot DEF Concludes

\* The actions of a request, one by one.
LEMMA HandleSlots ==
    ASSUME SlotInv, NEW r \in Reqs, Handle(r)
    PROVE  SlotInv'
<1> USE DEF In
<1>0. DOMAIN reqs[r] = Fields
  BY DEF SlotInv
<1>1. CASE TooLong(r) \/ TokenRefused(r) \/ AtCapacity(r)
  <2>1. PICK code : Becomes(r, [reqs[r] EXCEPT !.pc = "done", !.code = code])
    BY <1>1 DEF TooLong, TokenRefused, AtCapacity
  <2>2. reqs[r].pc = "new" /\ active' = active
    BY <1>1 DEF TooLong, TokenRefused, AtCapacity
  <2> DEFINE s == [reqs[r] EXCEPT !.pc = "done", !.code = code]
  <2>3. DOMAIN s = Fields /\ s.w = reqs[r].w /\ s.pc \notin Inside /\ reqs[r].pc \notin Inside
    BY <1>0, <2>2 DEF Fields, Inside
  <2> HIDE DEF s
  <2> QED
    BY <2>1, <2>2, <2>3, StaysIn DEF s
<1>2. CASE AcquireSlot(r)
  BY <1>2, TakesSlot
<1>3. CASE PathRefused(r) \/ SingleRefused(r) \/ FolderDone(r)
  <2>1. reqs[r].pc \in Inside /\ \E code : Ends(r, code)
    BY <1>3 DEF PathRefused, SingleRefused, FolderDone, Inside
  <2> QED
    BY <2>1, LeavesSlot
<1>4. ASSUME reqs[r].pc \in Inside, active' = active, NEW pc \in Inside,
             Becomes(r, [reqs[r] EXCEPT !.pc = pc])
      PROVE  SlotInv'
  <2> DEFINE s == [reqs[r] EXCEPT !.pc = pc]
  <2>1. DOMAIN s = Fields /\ s.w = reqs[r].w /\ s.pc \in Inside
    BY <1>0, <1>4 DEF Fields, Inside
  <2> QED
    BY <1>4, <2>1, StaysIn
<1>5. ASSUME reqs[r].pc \in Inside, active' = active, NEW pc \in Inside, NEW list,
             Becomes(r, [reqs[r] EXCEPT !.pc = pc, !.list = list])
      PROVE  SlotInv'
  <2> DEFINE s == [reqs[r] EXCEPT !.pc = pc, !.list = list]
  <2>1. DOMAIN s = Fields /\ s.w = reqs[r].w /\ s.pc \in Inside
    BY <1>0, <1>5 DEF Fields, Inside
  <2> QED
    BY <1>5, <2>1, StaysIn
<1>6. CASE Collect(r)
  <2>1. reqs[r].pc \in Inside /\ "walk" \in Inside
    BY <1>6 DEF Collect, Inside
  <2> QED
    BY <1>5, <1>6, <2>1, LeavesSlot DEF Collect
<1>7. CASE SingleTaken(r)
  <2>1. reqs[r].pc \in Inside /\ "provision" \in Inside
    BY <1>7 DEF SingleTaken, Inside
  <2> QED
    BY <1>5, <1>7, <2>1 DEF SingleTaken
<1>8. CASE Skip(r)
  BY <1>8, ReportedSlots DEF Skip, Inside
<1>9. CASE Take(r) \/ HasClient(r) \/ ListIndexes(r) \/ CreateIndex(r)
  <2>1. reqs[r].pc \in Inside /\ active' = active
    BY <1>9 DEF Take, HasClient, ListIndexes, CreateIndex, PastPdf, Inside
  <2>2. \E pc \in Inside : Becomes(r, [reqs[r] EXCEPT !.pc = pc])
    BY <1>9 DEF Take, HasClient, ListIndexes, CreateIndex, Inside
  <2> QED
    BY <1>4, <2>1, <2>2
<1>10. CASE PdfUnreadable(r) \/ ListFailed(r) \/ CreateFailed(r) \/ Pipeline(r)
  <2>1. reqs[r].pc \in Inside /\ \E result : Concludes(r, result)
    BY <1>10 DEF PdfUnreadable, ListFailed, In, CreateFailed, Pipeline, Inside
  <2> QED
    BY <2>1, ConcludesSlots
<1> QED
  BY <1>1, <1>2, <1>3, <1>6, <1>7, <1>8, <1>9, <1>10 DEF Handle

\* No request has a slot yet.
LEMMA InitSlots == Init => SlotInv
<1> SUFFICES ASSUME Init PROVE SlotInv
  OBVIOUS
<1>1. \A w : Holding(w) = {}
  BY DEF Init, Holding, Inside
<1>2. SlotsExact
  <2>1. MaxUploads >= 0
    BY CapsPos
  <2>2. \A w \in Workers : Cardinality(Holding(w)) = 0 /\ active[w] = 0
    BY <1>1, FS_EmptySet DEF Init
  <2> QED
    BY <2>1, <2>2 DEF SlotsExact
<1>3. \A r \in Reqs : DOMAIN reqs[r] = Fields /\ reqs[r].pc \notin Inside
  BY DEF Init, Fields, Inside
<1> QED
  BY <1>2, <1>3 DEF Init, SlotInv

\* The counter of every worker is the number of uploads it works on, on each of
\* the ways an upload can end, and never above the cap (app.py, upload_documents
\* and its finally).
THEOREM SpecSlotsExact == Spec => []SlotsExact
<1>1. Init => SlotInv
  BY InitSlots
<1>2. SlotInv /\ [Next]_vars => SlotInv'
  <2>1. ASSUME SlotInv, UNCHANGED <<active, reqs>> PROVE SlotInv'
    BY <2>1 DEF SlotInv, SlotsExact, Holding
  <2> QED
    BY <2>1, HandleSlots DEF Next, vars, Disturb
<1>3. SlotInv => SlotsExact
  BY DEF SlotInv
<1> QED
  BY <1>1, <1>2, <1>3, PTL DEF Spec
-----------------------------------------------------------------------------
Codes == {0, 200, 207, 400, 401, 413, 415, 422, 429, 500, 503}
Entries == [file : Files, status : {"success", "degraded", "empty", "error"}]

\* What a request s for path has reported, with ch in the index: the entries are
\* the first files of its list, one each, and what it calls a success is there.
Truthful(s, path, ch) ==
    /\ s.pc \in {"new", "done"} \cup Inside /\ s.code \in Codes
    /\ s.list \in Seq(Files) /\ s.report \in Seq(Entries)
    /\ s.i = Len(s.report) + 1 /\ Len(s.report) <= Len(s.list)
    /\ \A j \in 1..Len(s.report) :
          /\ s.report[j].file = s.list[j]
          /\ s.report[j].status = "success" => ch[s.list[j]] = "all"
    /\ s.pc \in {"new", "held"} => s.report = <<>>
    /\ s.pc = "walk" => path = "folder"
    /\ s.pc \in {"provision", "create", "upload"} => s.i <= Len(s.list)
    /\ s.pc = "done" /\ s.code = 200 /\ path = "folder" => s.i = Len(s.list) + 1
    /\ s.pc = "done" /\ s.code = 200 /\ path = "file" =>
          s.i <= Len(s.list) /\ ch[s.list[s.i]] = "all"

\* While a worker creates the index, its other requests stand still; one that
\* lost the race finds the index from then on.
Race ==
    /\ \A r, q \in Reqs : In(r, "create") /\ In(q, "create") /\ reqs[r].w = reqs[q].w => r = q
    /\ \A w \in Workers :
          \/ lost[w] = 0
          \/ lost[w] = 1 /\ index /\ \A r \in Reqs : reqs[r].w = w => ~In(r, "create")

OutcomeInv ==
    /\ SlotInv
    /\ \A r \in Reqs : asks[r].files \in Seq(Files) /\ Truthful(reqs[r], asks[r].path, chunks)
    /\ chunks \in [Files -> {"none", "some", "all"}]
    /\ lost \in [Workers -> Nat] /\ index \in BOOLEAN
    /\ client \subseteq Workers /\ (client # {} => index)
    /\ UploadsFindIndex
    /\ Race

-----------------------------------------------------------------------------
\* A set of natural numbers has a least element: induction, as a fact that the
\* provers can use.
LEMMA NatMin ==
    ASSUME NEW T \in SUBSET Nat, T # {}
    PROVE  \E m \in T : \A k \in T : m <= k
<1> DEFINE R == OpToRel(<, Nat)
<1>1. IsWellFoundedOn(R, Nat)
  BY NatLessThanWellFounded
<1>2. \A x, y \in Nat : y < x => <<y, x>> \in R
  BY DEF OpToRel
<1> HIDE DEF R
<1>3. \E x \in T : \A y \in T : ~ (<<y, x>> \in R)
  BY <1>1, WFMin
<1>4. PICK m \in T : \A y \in T : ~ (<<y, m>> \in R)
  BY <1>3
<1>5. \A k \in T : m <= k
  <2> SUFFICES ASSUME NEW k \in T PROVE m <= k
    OBVIOUS
  <2>1. ~ (k < m) /\ k \in Nat /\ m \in Nat
    BY <1>2, <1>4
  <2> QED
    BY <2>1
<1> QED
  BY <1>5

\* What a folder collects are files, whatever the files are.
LEMMA CollectedSeq ==
    ASSUME NEW files \in Seq(Files), NEW exts
    PROVE  Collected(files, exts) \in Seq(Files)
<1> DEFINE Step(n, s) == IF Supported(exts[files[n]]) THEN Append(s, files[n]) ELSE s
           Is(g, m) == g = [n \in 0..m |-> IF n = 0 THEN <<>> ELSE Step(n, g[n - 1])]
           N == Len(files)
           kept == CHOOSE g : Is(g, N)
<1>1. N \in Nat
  BY LenProperties
<1>2. \A n \in 1..N : \A s \in Seq(Files) : Step(n, s) \in Seq(Files)
  BY AppendProperties, ElementOfSeq
<1>3. Collected(files, exts) = kept[N]
  BY DEF Collected
<1> HIDE DEF Step, N
<1>4. \A m \in 0..N : \E g : Is(g, m)
  <2> DEFINE T == {m \in 0..N : ~ \E g : Is(g, m)}
  <2> SUFFICES ASSUME T # {} PROVE FALSE
    OBVIOUS
  <2>0. T \in SUBSET Nat /\ T \subseteq 0..N
    BY <1>1
  <2>1. PICK m \in T : \A k \in T : m <= k
    <3> HIDE DEF T
    <3> QED
      BY <2>0, NatMin
  <2>2. CASE m = 0
    <3>1. Is([n \in 0..0 |-> <<>>], 0)
      OBVIOUS
    <3> QED
      BY <2>2, <3>1
  <2>3. CASE m > 0
    <3>1. m - 1 \in 0..N /\ m - 1 < m
      BY <1>1, <2>1, <2>3
    <3>2. m - 1 \notin T
      <4>1. m \in Nat /\ (m - 1 \in T => m <= m - 1)
        BY <2>0, <2>1
      <4> HIDE DEF T
      <4> QED
        BY <4>1
    <3>3. PICK g : Is(g, m - 1)
      BY <3>1, <3>2
    <3> DEFINE h == [n \in 0..m |-> IF n = m THEN Step(m, g[m - 1]) ELSE g[n]]
    <3>4. \A n \in 0..m : h[n] = IF n = 0 THEN <<>> ELSE Step(n, h[n - 1])
      BY <1>1, <2>1, <2>3, <3>3
    <3>5. Is(h, m)
      BY <3>4
    <3> QED
      BY <2>1, <3>5
  <2> QED
    BY <1>1, <2>1, <2>2, <2>3
<1>5. Is(kept, N)
  <2>1. \E g : Is(g, N)
    BY <1>1, <1>4
  <2> QED
    BY <2>1
<1> HIDE DEF kept
<1>6. \A n \in 0..N : kept[n] = IF n = 0 THEN <<>> ELSE Step(n, kept[n - 1])
  BY <1>5
<1>7. \A n \in 0..N : kept[n] \in Seq(Files)
  <2> DEFINE T == {n \in 0..N : kept[n] \notin Seq(Files)}
  <2> SUFFICES ASSUME T # {} PROVE FALSE
    OBVIOUS
  <2>0. T \in SUBSET Nat /\ T \subseteq 0..N
    BY <1>1
  <2>1. PICK n \in T : \A k \in T : n <= k
    <3> HIDE DEF T
    <3> QED
      BY <2>0, NatMin
  <2>2. CASE n = 0
    <3>1. kept[0] = <<>> /\ <<>> \in Seq(Files)
      BY <1>1, <1>6
    <3> QED
      BY <2>1, <2>2, <3>1
  <2>3. CASE n > 0
    <3>1. n \in 1..N /\ n - 1 \in 0..N /\ n - 1 < n
      BY <1>1, <2>1, <2>3
    <3>2. kept[n - 1] \in Seq(Files)
      BY <1>1, <2>1, <3>1
    <3> QED
      BY <1>2, <1>6, <2>0, <2>1, <3>1, <3>2
  <2> QED
    BY <1>1, <2>1, <2>2, <2>3
<1> QED
  BY <1>1, <1>3, <1>7
-----------------------------------------------------------------------------
\* A request that moves, in the frame of what its step may do to the rest.
LEMMA StepOutcome ==
    ASSUME OutcomeInv, SlotInv', NEW r \in Reqs, NEW s, Becomes(r, s), UNCHANGED asks,
           Truthful(s, asks[r].path, chunks'),
           chunks' \in [Files -> {"none", "some", "all"}],
           \A f \in Files : chunks[f] = "all" => chunks'[f] = "all",
           index' \in BOOLEAN, index => index',
           client' \subseteq Workers, client' # {} => index',
           s.pc = "upload" => index',
           s.pc = "create" => /\ s.w = reqs[r].w
                              /\ \/ reqs[r].pc = "create"
                                 \/ LoopFree(r) /\ ~index,
           \/ lost' = lost
           \/ /\ index /\ reqs[r].pc = "create" /\ s.pc # "create"
              /\ lost' = [lost EXCEPT ![reqs[r].w] = @ + 1]
    PROVE  OutcomeInv'
<1>1. /\ DOMAIN reqs' = Reqs /\ reqs'[r] = s
      /\ \A q \in Reqs : q # r => reqs'[q] = reqs[q]
  BY DEF Becomes, OutcomeInv, SlotInv
<1>2. ASSUME NEW q \in Reqs PROVE Truthful(reqs'[q], asks[q].path, chunks')
  <2>1. CASE q = r
    BY <1>1, <2>1
  <2>2. CASE q # r
    <3> DEFINE u == reqs[q]
    <3>1. Truthful(u, asks[q].path, chunks)
      BY DEF OutcomeInv
    <3> HIDE DEF u
    <3>2. \A j \in 1..Len(u.list) : u.list[j] \in Files
      BY <3>1, ElementOfSeq DEF Truthful
    <3>3. \A j \in 1..Len(u.report) : j \in 1..Len(u.list)
      BY <3>1, LenProperties DEF Truthful
    <3>4. u.i <= Len(u.list) => u.i \in 1..Len(u.list)
      BY <3>1, LenProperties DEF Truthful
    <3>5. Truthful(u, asks[q].path, chunks')
      BY <3>1, <3>2, <3>3, <3>4 DEF Truthful
    <3> QED
      BY <1>1, <2>2, <3>5 DEF u
  <2> QED
    BY <2>1, <2>2
<1>3. UploadsFindIndex'
  BY <1>1 DEF OutcomeInv, UploadsFindIndex, In
<1>4. \/ lost' = lost
      \/ /\ index /\ reqs[r].pc = "create" /\ s.pc # "create" /\ reqs[r].w \in Workers
         /\ lost' = [lost EXCEPT ![reqs[r].w] = @ + 1]
  BY DEF OutcomeInv, SlotInv, Inside
<1>5. lost' \in [Workers -> Nat]
  <2>1. CASE lost' = lost
    BY <2>1 DEF OutcomeInv
  <2>2. CASE reqs[r].w \in Workers /\ lost' = [lost EXCEPT ![reqs[r].w] = @ + 1]
    BY <2>2 DEF OutcomeInv
  <2> QED
    BY <1>4, <2>1, <2>2
<1>6. ASSUME s.pc = "create"
      PROVE  /\ s.w = reqs[r].w
             /\ \A q \in Reqs : q # r /\ reqs[q].w = reqs[r].w => ~ In(q, "create")
             /\ \A w \in Workers : w = s.w => lost'[w] = 0
  <2>1. s.w = reqs[r].w /\ lost' = lost
    BY <1>4, <1>6
  <2>2. CASE reqs[r].pc = "create"
    <3>1. In(r, "create")
      BY <2>2 DEF In
    <3> QED
      BY <2>1, <3>1 DEF OutcomeInv, Race
  <2>3. CASE LoopFree(r) /\ ~index
    BY <2>1, <2>3 DEF OutcomeInv, Race, LoopFree
  <2> QED
    BY <1>6, <2>2, <2>3
<1>7. \A p, q \in Reqs : In(p, "create")' /\ In(q, "create")' /\ reqs'[p].w = reqs'[q].w => p = q
  <2> SUFFICES ASSUME NEW p \in Reqs, NEW q \in Reqs, p # q,
                      reqs'[p].pc = "create", reqs'[q].pc = "create",
                      reqs'[p].w = reqs'[q].w
               PROVE  FALSE
    BY DEF In
  <2>1. CASE p = r
    BY <1>1, <1>6, <2>1 DEF In
  <2>2. CASE q = r
    BY <1>1, <1>6, <2>2 DEF In
  <2>3. CASE p # r /\ q # r
    BY <1>1, <2>3 DEF OutcomeInv, Race, In
  <2> QED
    BY <2>1, <2>2, <2>3
<1>8. ASSUME NEW w \in Workers
      PROVE  \/ lost'[w] = 0
             \/ lost'[w] = 1 /\ index' /\ \A q \in Reqs : reqs'[q].w = w => ~In(q, "create")'
  <2>1. CASE s.pc = "create" /\ s.w = w
    BY <1>6, <2>1
  <2>2. CASE lost' = lost /\ ~(s.pc = "create" /\ s.w = w)
    <3>1. CASE lost[w] = 0
      BY <2>2, <3>1
    <3>2. CASE lost[w] = 1 /\ index /\ \A q \in Reqs : reqs[q].w = w => ~In(q, "create")
      <4>1. \A q \in Reqs : reqs'[q].w = w => ~In(q, "create")'
        BY <1>1, <2>2, <3>2 DEF In
      <4> QED
        BY <2>2, <3>2, <4>1
    <3> QED
      BY <3>1, <3>2 DEF OutcomeInv, Race
  <2>3. CASE /\ index /\ reqs[r].pc = "create" /\ s.pc # "create" /\ reqs[r].w \in Workers
             /\ lost' = [lost EXCEPT ![reqs[r].w] = @ + 1]
    <3>1. In(r, "create")
      BY <2>3 DEF In
    <3>2. CASE w = reqs[r].w
      <4>1. lost[w] = 0
        BY <3>1, <3>2 DEF OutcomeInv, Race
      <4>2. lost'[w] = 1
        BY <2>3, <3>2, <4>1 DEF OutcomeInv
      <4>3. \A q \in Reqs : q # r /\ reqs[q].w = w => ~In(q, "create")
        BY <3>1, <3>2 DEF OutcomeInv, Race
      <4>4. \A q \in Reqs : reqs'[q].w = w => ~In(q, "create")'
        BY <1>1, <2>3, <4>3 DEF In
      <4> QED
        BY <2>3, <4>2, <4>4
    <3>3. CASE w # reqs[r].w
      <4>1. lost'[w] = lost[w]
        BY <2>3, <3>3 DEF OutcomeInv
      <4>2. CASE lost[w] = 0
        BY <4>1, <4>2
      <4>3. CASE lost[w] = 1 /\ index /\ \A q \in Reqs : reqs[q].w = w => ~In(q, "create")
        <5>1. \A q \in Reqs : reqs'[q].w = w => ~In(q, "create")'
          BY <1>1, <2>3, <4>3 DEF In
        <5> QED
          BY <4>1, <4>3, <5>1
      <4> QED
        BY <4>2, <4>3 DEF OutcomeInv, Race
    <3> QED
      BY <3>2, <3>3
  <2> QED
    BY <1>4, <2>1, <2>2, <2>3
<1>9. Race'
  BY <1>7, <1>8 DEF Race
<1>10. \A q \in Reqs : asks'[q].files \in Seq(Files)
  BY DEF OutcomeInv
<1> QED
  BY <1>2, <1>3, <1>5, <1>9, <1>10 DEF OutcomeInv

\* A step that leaves the index, its chunks and the clients alone.
LEMMA QuietOutcome ==
    ASSUME OutcomeInv, SlotInv', NEW r \in Reqs, NEW s, Becomes(r, s),
           UNCHANGED <<asks, client, index, chunks, lost>>,
           Truthful(s, asks[r].path, chunks), s.pc \notin {"create", "upload"}
    PROVE  OutcomeInv'
BY StepOutcome DEF OutcomeInv

\* What the next file of a list is, and what a report with it looks like.
LEMMA CurrentFile ==
    ASSUME OutcomeInv, NEW r \in Reqs, reqs[r].i <= Len(reqs[r].list)
    PROVE  Current(r) \in Files /\ reqs[r].i \in 1..Len(reqs[r].list)
<1>1. /\ reqs[r].list \in Seq(Files) /\ reqs[r].i = Len(reqs[r].report) + 1
      /\ reqs[r].report \in Seq(Entries)
  BY DEF OutcomeInv, Truthful
<1>2. reqs[r].i \in 1..Len(reqs[r].list)
  BY <1>1, LenProperties
<1> QED
  BY <1>1, <1>2, ElementOfSeq DEF Current

\* One entry more: of the current file, a success only when it is indexed.
LEMMA ReportedTruthful ==
    ASSUME OutcomeInv, NEW r \in Reqs, NEW status, NEW ch, reqs[r].i <= Len(reqs[r].list),
           asks[r].path = "folder",
           status \in {"success", "degraded", "empty", "error"},
           status = "success" => ch[Current(r)] = "all",
           \A f \in Files : chunks[f] = "all" => ch[f] = "all",
           NEW s, s = [reqs[r] EXCEPT !.pc = "walk", !.i = @ + 1,
                          !.report = Append(@, [file |-> Current(r), status |-> status])]
    PROVE  Truthful(s, asks[r].path, ch)
<1> DEFINE u == reqs[r]
           e == [file |-> Current(r), status |-> status]
<1>1. DOMAIN u = Fields /\ Truthful(u, asks[r].path, chunks)
  BY DEF OutcomeInv, SlotInv
<1>2. u.i \in 1..Len(u.list) /\ e \in Entries /\ e.file = u.list[u.i] /\ e.status = status
  BY CurrentFile DEF Entries, Current
<1>3. /\ s.pc = "walk" /\ s.code = u.code /\ s.list = u.list /\ s.i = u.i + 1
      /\ s.report = Append(u.report, e)
  BY <1>1 DEF Fields
<1>4. status = "success" => ch[u.list[u.i]] = "all"
  BY DEF Current
<1> HIDE DEF u, e
<1>5. Len(u.report) \in Nat /\ Len(u.list) \in Nat /\ u.i = Len(u.report) + 1
  BY <1>1, LenProperties DEF Truthful
<1>6. /\ s.report \in Seq(Entries) /\ Len(s.report) = Len(u.report) + 1
      /\ \A j \in 1..Len(u.report) : s.report[j] = u.report[j]
      /\ s.report[Len(u.report) + 1] = e
  <2> DEFINE x == u.report
  <2>1. x \in Seq(Entries) /\ e \in Entries
    BY <1>1, <1>2 DEF Truthful
  <2> HIDE DEF x
  <2>2. /\ Append(x, e) \in Seq(Entries) /\ Len(Append(x, e)) = Len(x) + 1
        /\ \A j \in 1..Len(x) : Append(x, e)[j] = x[j]
        /\ Append(x, e)[Len(x) + 1] = e
    BY <2>1, AppendProperties
  <2> QED
    BY <1>3, <2>2 DEF x
<1>7. ASSUME NEW j \in 1..Len(s.report)
      PROVE  /\ s.report[j].file = s.list[j]
             /\ s.report[j].status = "success" => ch[s.list[j]] = "all"
  <2>1. CASE j \in 1..Len(u.report)
    <3>1. u.list[j] \in Files
      BY <1>1, <1>5, <2>1, ElementOfSeq DEF Truthful
    <3> QED
      BY <1>1, <1>3, <1>6, <2>1, <3>1 DEF Truthful
  <2>2. CASE j = u.i
    BY <1>2, <1>3, <1>4, <1>5, <1>6, <2>2
  <2> QED
    BY <1>5, <1>6, <2>1, <2>2
<1>8. s.i = Len(s.report) + 1 /\ Len(s.report) <= Len(s.list)
  BY <1>2, <1>3, <1>5, <1>6
<1> QED
  BY <1>1, <1>3, <1>6, <1>7, <1>8 DEF Truthful, Inside

\* A request that ends: a single upload with 200 only when its file is indexed,
\* a folder with 200 only when the last file is reported.
LEMMA EndedTruthful ==
    ASSUME OutcomeInv, NEW r \in Reqs, NEW code \in Codes, NEW ch,
           \A f \in Files : chunks[f] = "all" => ch[f] = "all",
           NEW s, DOMAIN s = Fields, s.pc = "done", s.code = code,
           s.list = reqs[r].list, s.report = reqs[r].report, s.i = reqs[r].i,
           code = 200 /\ asks[r].path = "folder" => reqs[r].i > Len(reqs[r].list),
           code = 200 /\ asks[r].path = "file" =>
               reqs[r].i <= Len(reqs[r].list) /\ ch[Current(r)] = "all"
    PROVE  Truthful(s, asks[r].path, ch)
<1> DEFINE u == reqs[r]
<1>1. Truthful(u, asks[r].path, chunks)
  BY DEF OutcomeInv
<1>2. code = 200 /\ asks[r].path = "file" => ch[u.list[u.i]] = "all"
  BY DEF Current
<1> HIDE DEF u
<1>3. Len(u.report) \in Nat /\ Len(u.list) \in Nat
  BY <1>1, LenProperties DEF Truthful
<1>4. \A j \in 1..Len(u.report) : u.list[j] \in Files
  BY <1>1, <1>3, ElementOfSeq DEF Truthful
<1>5. code = 200 /\ asks[r].path = "folder" => u.i = Len(u.list) + 1
  BY <1>1, <1>3 DEF Truthful, u
<1> QED
  BY <1>1, <1>2, <1>4, <1>5 DEF Truthful, u

\* The end of what upload() did for a file, in the frame of StepOutcome.
LEMMA ConcludesOutcome ==
    ASSUME OutcomeInv, SlotInv', NEW r \in Reqs,
           NEW result \in {"loadererror", "empty", "success", "degraded", "raised"},
           Concludes(r, result), reqs[r].pc \in {"provision", "create", "upload"},
           UNCHANGED <<asks, client, index>>,
           chunks' \in [Files -> {"none", "some", "all"}],
           \A f \in Files : chunks[f] = "all" => chunks'[f] = "all",
           result = "success" => chunks'[Current(r)] = "all",
           \/ lost' = lost
           \/ /\ index /\ reqs[r].pc = "create"
              /\ lost' = [lost EXCEPT ![reqs[r].w] = @ + 1]
    PROVE  OutcomeInv'
<1>1. /\ DOMAIN reqs[r] = Fields /\ reqs[r].i <= Len(reqs[r].list)
      /\ index \in BOOLEAN /\ client \subseteq Workers /\ (client # {} => index)
  BY DEF OutcomeInv, SlotInv, Truthful
<1>2. CASE asks[r].path = "folder"
  <2> DEFINE status == IF result \in {"loadererror", "raised"} THEN "error"
                       ELSE FileStatus(result)
             s == [reqs[r] EXCEPT !.pc = "walk", !.i = @ + 1,
                      !.report = Append(@, [file |-> Current(r), status |-> status])]
  <2>1. Becomes(r, s)
    BY <1>2 DEF Concludes, Reported
  <2>2. status \in {"success", "degraded", "empty", "error"}
        /\ (status = "success" => result = "success")
    BY DEF FileStatus
  <2> HIDE DEF status
  <2>3. s.pc = "walk"
    BY <1>1 DEF Fields
  <2>4. s = [reqs[r] EXCEPT !.pc = "walk", !.i = @ + 1,
                !.report = Append(@, [file |-> Current(r), status |-> status])]
    OBVIOUS
  <2> HIDE DEF s
  <2>5. Truthful(s, asks[r].path, chunks')
    BY <1>1, <1>2, <2>2, <2>4, ReportedTruthful
  <2> QED
    BY <1>1, <2>1, <2>3, <2>5, StepOutcome
<1>3. CASE asks[r].path # "folder"
  <2> DEFINE s == [reqs[r] EXCEPT !.pc = "done", !.code = Code(result), !.w = NoWorker]
  <2>1. Becomes(r, s)
    BY <1>3 DEF Concludes, Ends
  <2>2. Code(result) \in Codes /\ (Code(result) = 200 => result = "success")
    BY DEF Code, Codes
  <2>3. /\ DOMAIN s = Fields /\ s.pc = "done" /\ s.code = Code(result)
        /\ s.list = reqs[r].list /\ s.report = reqs[r].report /\ s.i = reqs[r].i
    BY <1>1 DEF Fields
  <2> HIDE DEF s
  <2>4. Truthful(s, asks[r].path, chunks')
    BY <1>1, <1>3, <2>2, <2>3, EndedTruthful
  <2> QED
    BY <1>1, <2>1, <2>3, <2>4, StepOutcome
<1> QED
  BY <1>2, <1>3

\* A request that goes out of the handler with another code than 200.
LEMMA EndsOutcome ==
    ASSUME OutcomeInv, SlotInv', NEW r \in Reqs, NEW code \in Codes, NEW s,
           DOMAIN s = Fields, s.pc = "done", s.code = code,
           s.list = reqs[r].list, s.report = reqs[r].report, s.i = reqs[r].i,
           Becomes(r, s), UNCHANGED <<asks, client, index, chunks, lost>>,
           code = 200 => asks[r].path = "folder" /\ reqs[r].i > Len(reqs[r].list)
    PROVE  OutcomeInv'
<1>1. Truthful(s, asks[r].path, chunks)
  BY EndedTruthful
<1> QED
  BY <1>1, QuietOutcome

\* A request that goes on in the handler, its report unchanged.
LEMMA GoesOn ==
    ASSUME OutcomeInv, NEW r \in Reqs, reqs[r].pc # "done", NEW pc \in Inside \ {"walk"}, NEW s,
           s.pc = pc, s.code = reqs[r].code, s.list = reqs[r].list,
           s.report = reqs[r].report, s.i = reqs[r].i,
           pc = "held" => reqs[r].pc \in {"new", "held"},
           pc \in {"provision", "create", "upload"} => reqs[r].i <= Len(reqs[r].list)
    PROVE  Truthful(s, asks[r].path, chunks)
<1>1. Truthful(reqs[r], asks[r].path, chunks)
  BY DEF OutcomeInv
<1> QED
  BY <1>1 DEF Truthful, Inside

\* A request that got its list, before anything is reported.
LEMMA GetsList ==
    ASSUME OutcomeInv, NEW r \in Reqs, reqs[r].pc = "held", NEW pc \in {"walk", "provision"},
           NEW list \in Seq(Files), NEW s,
           s.pc = pc, s.code = reqs[r].code, s.list = list,
           s.report = reqs[r].report, s.i = reqs[r].i,
           pc = "walk" => asks[r].path = "folder", pc = "provision" => list # <<>>
    PROVE  Truthful(s, asks[r].path, chunks)
<1>1. Truthful(reqs[r], asks[r].path, chunks)
  BY DEF OutcomeInv
<1>2. Len(list) \in Nat /\ (list # <<>> => Len(list) > 0)
  BY LenProperties, EmptySeq
<1>3. s.report = <<>> /\ s.report \in Seq(Entries) /\ s.i = Len(s.report) + 1 /\ s.code \in Codes
  BY <1>1 DEF Truthful
<1>4. Len(s.report) = 0 /\ \A j : j \notin 1..0
  BY <1>3
<1> QED
  BY <1>2, <1>3, <1>4 DEF Truthful, Inside

\* The actions of a request, one by one.
LEMMA HandleOutcome ==
    ASSUME OutcomeInv, NEW r \in Reqs, Handle(r)
    PROVE  OutcomeInv'
<1> USE DEF In, Index
<1>0. SlotInv' /\ DOMAIN reqs[r] = Fields /\ asks[r].files \in Seq(Files)
  BY HandleSlots DEF OutcomeInv, SlotInv
<1>1. ASSUME NEW code \in Codes \ {200}, Ends(r, code),
             UNCHANGED <<asks, client, index, chunks, lost>>
      PROVE  OutcomeInv'
  <2> DEFINE s == [reqs[r] EXCEPT !.pc = "done", !.code = code, !.w = NoWorker]
  <2>1. /\ DOMAIN s = Fields /\ s.pc = "done" /\ s.code = code
        /\ s.list = reqs[r].list /\ s.report = reqs[r].report /\ s.i = reqs[r].i
    BY <1>0 DEF Fields
  <2>2. Becomes(r, s)
    BY <1>1 DEF Ends
  <2> HIDE DEF s
  <2> QED
    BY <1>0, <1>1, <2>1, <2>2, EndsOutcome
<1>3. CASE TooLong(r) \/ TokenRefused(r) \/ AtCapacity(r)
  <2>1. PICK code \in {413, 503, 401, 429} :
          Becomes(r, [reqs[r] EXCEPT !.pc = "done", !.code = code])
    <3>1. CASE TooLong(r)
      BY <3>1 DEF TooLong
    <3>2. CASE TokenRefused(r)
      <4>1. CASE asks[r].token = "unset"
        BY <3>2, <4>1 DEF TokenRefused
      <4>2. CASE asks[r].token # "unset"
        BY <3>2, <4>2 DEF TokenRefused
      <4> QED
        BY <4>1, <4>2
    <3>3. CASE AtCapacity(r)
      BY <3>3 DEF AtCapacity
    <3> QED
      BY <1>3, <3>1, <3>2, <3>3
  <2>2. UNCHANGED <<asks, client, index, chunks, lost>>
    BY <1>3 DEF TooLong, TokenRefused, AtCapacity
  <2> DEFINE s == [reqs[r] EXCEPT !.pc = "done", !.code = code]
  <2>3. /\ DOMAIN s = Fields /\ s.pc = "done" /\ s.code = code
        /\ s.list = reqs[r].list /\ s.report = reqs[r].report /\ s.i = reqs[r].i
    BY <1>0 DEF Fields
  <2>4. Becomes(r, s) /\ code \in Codes /\ code # 200
    BY <2>1 DEF Codes
  <2> HIDE DEF s
  <2> QED
    BY <1>0, <2>2, <2>3, <2>4, EndsOutcome
<1>4. CASE PathRefused(r) \/ SingleRefused(r)
  BY <1>1, <1>4 DEF PathRefused, SingleRefused, Codes
<1>5. CASE FolderDone(r)
  <2> DEFINE s == [reqs[r] EXCEPT !.pc = "done", !.code = 200, !.w = NoWorker]
  <2>0. Truthful(reqs[r], asks[r].path, chunks) /\ reqs[r].pc = "walk"
    BY <1>5 DEF OutcomeInv, FolderDone
  <2>1. /\ Becomes(r, s) /\ asks[r].path = "folder" /\ reqs[r].i > Len(reqs[r].list)
        /\ UNCHANGED <<asks, client, index, chunks, lost>>
    BY <1>5, <2>0 DEF FolderDone, Ends, Truthful
  <2>2. /\ DOMAIN s = Fields /\ s.pc = "done" /\ s.code = 200 /\ 200 \in Codes
        /\ s.list = reqs[r].list /\ s.report = reqs[r].report /\ s.i = reqs[r].i
    BY <1>0 DEF Fields, Codes
  <2> HIDE DEF s
  <2> QED
    BY <1>0, <2>1, <2>2, EndsOutcome
<1>6. CASE AcquireSlot(r)
  <2>1. PICK w \in Workers : Becomes(r, [reqs[r] EXCEPT !.pc = "held", !.w = w])
    BY <1>6 DEF AcquireSlot
  <2> DEFINE s == [reqs[r] EXCEPT !.pc = "held", !.w = w]
  <2>2. /\ reqs[r].pc = "new" /\ s.pc = "held" /\ s.code = reqs[r].code
        /\ s.list = reqs[r].list /\ s.report = reqs[r].report /\ s.i = reqs[r].i
    BY <1>0, <1>6 DEF AcquireSlot, Fields
  <2>3. Becomes(r, s) /\ UNCHANGED <<asks, client, index, chunks, lost>>
    BY <1>6, <2>1 DEF AcquireSlot
  <2> HIDE DEF s
  <2>4. Truthful(s, asks[r].path, chunks)
    BY <2>2, GoesOn DEF Inside
  <2> QED
    BY <1>0, <2>2, <2>3, <2>4, QuietOutcome
<1>7. CASE Collect(r)
  <2> DEFINE docs == Collected(asks[r].files, [f \in Files |-> disk[f].ext])
  <2>1. docs \in Seq(Files)
    BY <1>0, CollectedSeq
  <2> HIDE DEF docs
  <2>2. /\ reqs[r].pc = "held" /\ asks[r].path = "folder"
        /\ UNCHANGED <<asks, client, index, chunks, lost>>
        /\ IF Len(docs) > MaxFolder THEN Ends(r, 413)
           ELSE Becomes(r, [reqs[r] EXCEPT !.pc = "walk", !.list = docs])
    BY <1>7 DEF Collect, docs
  <2>3. CASE Ends(r, 413)
    BY <1>1, <2>2, <2>3 DEF Codes
  <2>4. CASE Becomes(r, [reqs[r] EXCEPT !.pc = "walk", !.list = docs])
    <3> DEFINE s == [reqs[r] EXCEPT !.pc = "walk", !.list = docs]
    <3>1. /\ s.pc = "walk" /\ s.code = reqs[r].code /\ s.list = docs
          /\ s.report = reqs[r].report /\ s.i = reqs[r].i
      BY <1>0 DEF Fields
    <3>2. Becomes(r, s)
      BY <2>4
    <3> HIDE DEF s
    <3>3. Truthful(s, asks[r].path, chunks)
      BY <2>1, <2>2, <3>1, GetsList
    <3> QED
      BY <1>0, <2>2, <3>1, <3>2, <3>3, QuietOutcome
  <2> QED
    BY <2>2, <2>3, <2>4
<1>8. CASE SingleTaken(r)
  <2> DEFINE s == [reqs[r] EXCEPT !.pc = "provision", !.list = asks[r].files]
  <2>1. /\ reqs[r].pc = "held" /\ asks[r].files # <<>> /\ Becomes(r, s)
        /\ UNCHANGED <<asks, client, index, chunks, lost>>
    BY <1>8 DEF SingleTaken
  <2>2. /\ s.pc = "provision" /\ s.code = reqs[r].code /\ s.list = asks[r].files
        /\ s.report = reqs[r].report /\ s.i = reqs[r].i
    BY <1>0 DEF Fields
  <2> HIDE DEF s
  <2>3. Truthful(s, asks[r].path, chunks)
    BY <1>0, <2>1, <2>2, GetsList
  <2> QED
    BY <1>0, <2>1, <2>2, <2>3, QuietOutcome
<1>9. CASE Skip(r)
  <2> DEFINE s == [reqs[r] EXCEPT !.pc = "walk", !.i = @ + 1,
                      !.report = Append(@, [file |-> Current(r), status |-> "error"])]
  <2>1. /\ reqs[r].i <= Len(reqs[r].list) /\ Becomes(r, s)
        /\ UNCHANGED <<asks, client, index, chunks, lost>>
    BY <1>9 DEF Skip, Reported
  <2>2. s.pc = "walk"
    BY <1>0 DEF Fields
  <2>3. Truthful(s, asks[r].path, chunks)
    <3>1. asks[r].path = "folder"
      BY <1>9 DEF Skip, OutcomeInv, Truthful
    <3> QED
      BY <2>1, <3>1, ReportedTruthful
  <2> HIDE DEF s
  <2> QED
    BY <1>0, <2>1, <2>2, <2>3, QuietOutcome
<1>10. ASSUME NEW pc \in {"provision", "create", "upload"},
              reqs[r].pc \in {"walk", "provision", "create"}, reqs[r].i <= Len(reqs[r].list)
       PROVE  LET s == [reqs[r] EXCEPT !.pc = pc]
              IN  Truthful(s, asks[r].path, chunks) /\ s.pc = pc /\ s.w = reqs[r].w
  <2> DEFINE s == [reqs[r] EXCEPT !.pc = pc]
  <2>1. /\ s.pc = pc /\ s.code = reqs[r].code /\ s.w = reqs[r].w
        /\ s.list = reqs[r].list /\ s.report = reqs[r].report /\ s.i = reqs[r].i
    BY <1>0 DEF Fields
  <2> HIDE DEF s
  <2>2. Truthful(s, asks[r].path, chunks)
    BY <1>10, <2>1, GoesOn DEF Inside
  <2> QED
    BY <2>1, <2>2 DEF s
<1>11. CASE Take(r)
  <2> DEFINE s == [reqs[r] EXCEPT !.pc = "provision"]
  <2>1. /\ reqs[r].pc = "walk" /\ reqs[r].i <= Len(reqs[r].list) /\ Becomes(r, s)
        /\ UNCHANGED <<asks, client, index, chunks, lost>>
    BY <1>11 DEF Take
  <2>2. Truthful(s, asks[r].path, chunks) /\ s.pc = "provision"
    BY <1>10, <2>1
  <2> HIDE DEF s
  <2> QED
    BY <1>0, <2>1, <2>2, QuietOutcome
<1>12. reqs[r].pc \in {"provision", "create", "upload"} => reqs[r].i <= Len(reqs[r].list)
  BY DEF OutcomeInv, Truthful
<1>13. /\ chunks \in [Files -> {"none", "some", "all"}] /\ index \in BOOLEAN
       /\ client \subseteq Workers /\ (client # {} => index)
       /\ reqs[r].pc \in Inside => reqs[r].w \in Workers
  BY DEF OutcomeInv, SlotInv
<1>14. CASE HasClient(r)
  <2> DEFINE s == [reqs[r] EXCEPT !.pc = "upload"]
  <2>1. /\ reqs[r].pc = "provision" /\ reqs[r].w \in client /\ Becomes(r, s)
        /\ UNCHANGED <<asks, client, index, chunks, lost>>
    BY <1>14 DEF HasClient, PastPdf
  <2>2. Truthful(s, asks[r].path, chunks) /\ s.pc = "upload"
    BY <1>10, <1>12, <2>1
  <2> HIDE DEF s
  <2> QED
    BY <1>0, <1>13, <2>1, <2>2, StepOutcome
<1>15. CASE ListIndexes(r)
  <2>1. /\ reqs[r].pc = "provision" /\ LoopFree(r)
        /\ UNCHANGED <<asks, index, chunks, lost>>
    BY <1>15 DEF ListIndexes, PastPdf
  <2>2. CASE index
    <3> DEFINE s == [reqs[r] EXCEPT !.pc = "upload"]
    <3>1. Becomes(r, s) /\ client' = client \cup {reqs[r].w}
      BY <1>15, <2>2 DEF ListIndexes
    <3>2. Truthful(s, asks[r].path, chunks) /\ s.pc = "upload"
      BY <1>10, <1>12, <2>1
    <3> HIDE DEF s
    <3>3. client' \subseteq Workers
      BY <1>13, <2>1, <3>1 DEF Inside
    <3> QED
      BY <1>0, <1>13, <2>1, <2>2, <3>1, <3>2, <3>3, StepOutcome
  <2>3. CASE ~index
    <3> DEFINE s == [reqs[r] EXCEPT !.pc = "create"]
    <3>1. Becomes(r, s) /\ client' = client
      BY <1>15, <2>3 DEF ListIndexes
    <3>2. Truthful(s, asks[r].path, chunks) /\ s.pc = "create" /\ s.w = reqs[r].w
      BY <1>10, <1>12, <2>1
    <3> HIDE DEF s
    <3> QED
      BY <1>0, <1>13, <2>1, <2>3, <3>1, <3>2, StepOutcome
  <2> QED
    BY <2>2, <2>3
<1>16. CASE CreateIndex(r)
  <2> DEFINE s == [reqs[r] EXCEPT !.pc = "upload"]
  <2>1. /\ reqs[r].pc = "create" /\ Becomes(r, s) /\ index' = TRUE
        /\ client' = client \cup {reqs[r].w}
        /\ UNCHANGED <<asks, chunks, lost>>
    BY <1>16 DEF CreateIndex
  <2>2. Truthful(s, asks[r].path, chunks) /\ s.pc = "upload"
    BY <1>10, <1>12, <2>1
  <2> HIDE DEF s
  <2>3. client' \subseteq Workers
    BY <1>13, <2>1 DEF Inside
  <2> QED
    BY <1>0, <1>13, <2>1, <2>2, <2>3, StepOutcome
<1>17. CASE PdfUnreadable(r) \/ ListFailed(r)
  <2>1. /\ reqs[r].pc = "provision" /\ Concludes(r, "raised")
        /\ UNCHANGED <<asks, client, index, chunks, lost>>
    BY <1>17 DEF PdfUnreadable, ListFailed
  <2> QED
    BY <1>0, <1>13, <2>1, ConcludesOutcome
<1>18. CASE CreateFailed(r)
  <2>1. /\ reqs[r].pc = "create" /\ Concludes(r, "raised")
        /\ UNCHANGED <<asks, client, index, chunks>>
        /\ \/ lost' = lost
           \/ index /\ lost' = [lost EXCEPT ![reqs[r].w] = @ + 1]
    BY <1>18 DEF CreateFailed
  <2> QED
    BY <1>0, <1>13, <2>1, ConcludesOutcome
<1>19. CASE Pipeline(r)
  <2> DEFINE f == Current(r)
  <2>1. f \in Files
    BY <1>12, <1>19, CurrentFile DEF Pipeline
  <2>2. reqs[r].pc = "upload" /\ UNCHANGED <<asks, client, index, lost>>
    BY <1>19 DEF Pipeline
  <2>3. \/ Concludes(r, "loadererror") /\ chunks' = chunks
        \/ Concludes(r, "empty") /\ chunks' = chunks
        \/ Concludes(r, "success") /\ chunks' = [chunks EXCEPT ![f] = "all"]
        \/ Concludes(r, "degraded") /\ chunks' = AtLeastSome(f)
        \/ Concludes(r, "raised") /\ chunks' \in {chunks, AtLeastSome(f)}
    BY <1>19 DEF Pipeline
  <2> HIDE DEF f
  <2>4. \/ chunks' = chunks \/ chunks' = [chunks EXCEPT ![f] = "all"]
        \/ chunks' = AtLeastSome(f)
    BY <2>3
  <2>5. /\ chunks' \in [Files -> {"none", "some", "all"}]
        /\ \A g \in Files : chunks[g] = "all" => chunks'[g] = "all"
    BY <1>13, <2>1, <2>4 DEF AtLeastSome
  <2>6. PICK result \in {"loadererror", "empty", "success", "degraded", "raised"} :
            /\ Concludes(r, result)
            /\ result = "success" => chunks'[f] = "all"
    BY <1>13, <2>1, <2>3
  <2> QED
    BY <1>0, <2>2, <2>5, <2>6, ConcludesOutcome DEF f
<1> QED
  BY <1>3, <1>4, <1>5, <1>6, <1>7, <1>8, <1>9, <1>11, <1>14, <1>15, <1>16, <1>17, <1>18, <1>19
  DEF Handle

\* What a client is told of its uploads is so, whatever fails and whichever
\* worker creates the index: a folder is answered in full and in order, a success
\* is searchable, nothing is written before the index is there, and the race for
\* it costs a worker one upload at most (app.py, custom_rag.py).
THEOREM SpecOutcomesTruthful == Spec => []OutcomesTruthful
<1>1. Init => OutcomeInv
  <2> SUFFICES ASSUME Init PROVE OutcomeInv
    OBVIOUS
  <2>1. SlotInv
    BY InitSlots
  <2>2. Len(<<>>) = 0 /\ <<>> \in Seq(Files) /\ <<>> \in Seq(Entries) /\ \A j : j \notin 1..0
    BY EmptySeq
  <2>3. ASSUME NEW r \in Reqs PROVE Truthful(reqs[r], asks[r].path, chunks)
    <3>1. /\ reqs[r].pc = "new" /\ reqs[r].code = 0 /\ reqs[r].i = 1
          /\ reqs[r].list = <<>> /\ reqs[r].report = <<>>
      BY DEF Init
    <3> QED
      BY <2>2, <3>1 DEF Truthful, Codes
  <2>4. \A r \in Reqs : asks[r].files \in Seq(Files)
    BY CasesOK DEF Init
  <2>5. UploadsFindIndex /\ Race
    BY DEF Init, UploadsFindIndex, Race, In
  <2> QED
    BY <2>1, <2>3, <2>4, <2>5 DEF Init, OutcomeInv
<1>2. OutcomeInv /\ [Next]_vars => OutcomeInv'
  <2>1. ASSUME OutcomeInv, UNCHANGED <<asks, active, Index, reqs>> PROVE OutcomeInv'
    BY <2>1 DEF OutcomeInv, SlotInv, SlotsExact, Holding, Index, UploadsFindIndex, Race, In
  <2> QED
    BY <2>1, HandleOutcome DEF Next, vars, Disturb, Index
<1>3. OutcomeInv => OutcomesTruthful
  <2> SUFFICES ASSUME OutcomeInv PROVE OutcomesTruthful
    OBVIOUS
  <2>1. \A r \in Reqs : /\ Len(reqs[r].report) \in Nat /\ Len(reqs[r].list) \in Nat
                        /\ DOMAIN reqs[r].report = 1..Len(reqs[r].report)
                        /\ DOMAIN reqs[r].list = 1..Len(reqs[r].list)
                        /\ reqs[r].list = [j \in 1..Len(reqs[r].list) |-> reqs[r].list[j]]
    BY LenProperties DEF OutcomeInv, Truthful
  <2>2. TypeOK
    <3>1. \A r \in Reqs : /\ reqs[r].pc \in {"new", "done"} \cup Inside /\ reqs[r].code \in Codes
                          /\ reqs[r].i \in 1..(Len(reqs[r].list) + 1)
      BY <2>1 DEF OutcomeInv, Truthful
    <3> QED
      BY <3>1 DEF OutcomeInv, SlotInv, Race, Codes, TypeOK
  <2>3. FolderReportComplete
    <3> SUFFICES ASSUME NEW r \in Reqs, In(r, "done"), reqs[r].code = 200,
                        asks[r].path = "folder"
                 PROVE  [i \in DOMAIN reqs[r].report |-> reqs[r].report[i].file] = reqs[r].list
      BY DEF FolderReportComplete
    <3>1. Len(reqs[r].report) = Len(reqs[r].list)
      BY <2>1 DEF OutcomeInv, Truthful, In
    <3>2. \A j \in 1..Len(reqs[r].list) : reqs[r].report[j].file = reqs[r].list[j]
      BY <3>1 DEF OutcomeInv, Truthful
    <3> QED
      BY <2>1, <3>1, <3>2
  <2>4. SuccessIsSearchable
    <3> SUFFICES ASSUME NEW r \in Reqs
                 PROVE  /\ \A i \in DOMAIN reqs[r].report :
                              reqs[r].report[i].status = "success" =>
                                  chunks[reqs[r].report[i].file] = "all"
                        /\ In(r, "done") /\ reqs[r].code = 200 /\ asks[r].path = "file" =>
                              chunks[Current(r)] = "all"
      BY DEF SuccessIsSearchable
    <3>1. Truthful(reqs[r], asks[r].path, chunks)
      BY DEF OutcomeInv
    <3> QED
      BY <2>1, <3>1 DEF Truthful, In, Current
  <2>5. RaceLostOnce
    BY DEF OutcomeInv, Race, RaceLostOnce
  <2> QED
    BY <2>2, <2>3, <2>4, <2>5 DEF OutcomeInv, OutcomesTruthful
<1> QED
  BY <1>1, <1>2, <1>3, PTL DEF Spec
=============================================================================
