------------------------------ MODULE IngestProofs ------------------------------
(***************************************************************************)
(* Proofs about ingestion, for any tasks, contents, paths, batch sizes and *)
(* faults: tenants are kept apart; an uploaded document stays complete; a  *)
(* path shows one version of its file, and the newest one after a success. *)
(***************************************************************************)
EXTENDS Ingest, TLAPS

Fields == {"phase", "doc", "todo", "stale", "bad", "status"}

Own(t) == {c \in ChunkIds : c.tag = job[t].tag}

\* What a task has before it is of its own tenant: every id it enumerates comes
\* from a filter with its bot_tag, or is written with it.
OwnInv ==
    /\ DOMAIN index = ChunkIds
    /\ DOMAIN task = Tasks
    /\ \A t \in Tasks : /\ DOMAIN task[t] = Fields
                        /\ task[t].todo \subseteq Own(t)
                        /\ task[t].stale \subseteq Own(t)

\* Nothing is listed at the start.
LEMMA InitOwn == Init => OwnInv
BY DEF Init, OwnInv, Fields

\* A step of task t: what is before it stays its own, other tasks are untouched.
Only(t) ==
    /\ DOMAIN task' = Tasks
    /\ \A u \in Tasks \ {t} : task'[u] = task[u]
    /\ DOMAIN task'[t] = Fields
    /\ task'[t].todo \subseteq Own(t)
    /\ task'[t].stale \subseteq Own(t)

\* ... and it changes no chunk of another tenant.
Spares(t) ==
    /\ DOMAIN index' = ChunkIds
    /\ \A c \in ChunkIds \ Own(t) : index'[c] = index[c]

\* Such a step keeps the invariant.
LEMMA OnlyOwn ==
    ASSUME OwnInv, NEW t \in Tasks, job' = job, Only(t), Spares(t)
    PROVE  OwnInv'
<1>1. \A u \in Tasks : Own(u)' = Own(u)
  BY DEF Own
<1> QED
  BY <1>1 DEF OwnInv, Only, Spares

\* A batch is taken from what is before the task.
LEMMA BatchesWithin ==
    ASSUME NEW C, NEW b \in Batches(C)
    PROVE  b \subseteq C
BY DEF Batches

\* Removing or inserting chunks of the task's own tag.
LEMMA BatchSpares ==
    ASSUME OwnInv, NEW t \in Tasks, NEW b, b \subseteq Own(t),
           index' = Without(b) \/ \E p : index' = With(b, p)
    PROVE  Spares(t)
BY DEF Spares, Without, With

\* A task that ends has nothing before it.
LEMMA OverOnly ==
    ASSUME OwnInv, NEW t \in Tasks, NEW st, Over(t, st)
    PROVE  Only(t)
BY DEF OwnInv, Over, Only, Fields

\* The actions of a task, one by one.
LEMMA TaskOwn ==
    ASSUME OwnInv, NEW t \in Tasks, TaskStep(t)
    PROVE  Only(t) /\ Spares(t)
<1>0. /\ DOMAIN task = Tasks /\ DOMAIN task[t] = Fields
      /\ task[t].todo \subseteq Own(t) /\ task[t].stale \subseteq Own(t)
  BY DEF OwnInv
<1>1. index' = index => Spares(t)
  BY DEF OwnInv, Spares
<1>2. DocFilter(task[t].doc, job[t].tag) \subseteq Own(t) /\ DocFilter(job[t].doc, job[t].tag) \subseteq Own(t)
  BY DEF DocFilter, Present, Own
<1>3. PathFilter(job[t].path, t) \subseteq Own(t)
  BY DEF PathFilter, Present, Own
<1>4. Written(t) \subseteq Own(t)
  BY DEF Written, Yield, ChunksOf, Own
<1>5. {c \in Present : c.tag = job[t].tag} \subseteq Own(t)
  BY DEF Present, Own
<1>6. CASE Enter(t)
  BY <1>0, <1>1, <1>6 DEF Enter, Only, Fields
<1>7. CASE Fetch(t)
  BY <1>0, <1>1, <1>7 DEF Fetch, Only, Fields
<1>8. CASE DrainPath(t)
  BY <1>0, <1>1, <1>3, <1>8 DEF DrainPath, Only, Fields
<1>9. CASE BeginUpload(t)
  BY <1>0, <1>1, <1>9 DEF BeginUpload, Only, Fields
<1>10. CASE BeginDelete(t)
  BY <1>0, <1>1, <1>2, <1>5, <1>10 DEF BeginDelete, Only, Fields
<1>11. CASE PurgeDone(t)
  <2>1. CASE t \in Syncs
    BY <1>0, <1>1, <1>11, <2>1 DEF PurgeDone, Only, Fields
  <2>2. CASE t \notin Syncs
    BY <1>1, <1>11, <2>2, OverOnly DEF PurgeDone
  <2> QED
    BY <2>1, <2>2
<1>12. CASE DrainDoc(t)
  BY <1>0, <1>1, <1>2, <1>12 DEF DrainDoc, Only, Fields
<1>13. CASE ParseEmpty(t) \/ PruneDone(t) \/ Raise(t)
  BY <1>1, <1>13, OverOnly DEF ParseEmpty, PruneDone, Raise
<1>14. CASE Parse(t)
  BY <1>0, <1>1, <1>4, <1>14 DEF Parse, Only, Fields
<1>15. CASE UpsertDone(t)
  BY <1>0, <1>1, <1>15 DEF UpsertDone, Only, Fields
<1>16. CASE DeleteBatch(t)
  <2>1. PICK b \in Batches(task[t].todo) : \E left \in SUBSET b :
            /\ index' = Without(b \ left)
            /\ task' = [task EXCEPT ![t].todo = @ \ b]
    BY <1>16 DEF DeleteBatch, Unserved
  <2>2. PICK left \in SUBSET b :
            /\ index' = Without(b \ left)
            /\ task' = [task EXCEPT ![t].todo = @ \ b]
    BY <2>1
  <2>3. b \ left \subseteq Own(t)
    BY <1>0, BatchesWithin
  <2>4. Spares(t)
    BY <2>2, <2>3, BatchSpares
  <2>5. Only(t)
    BY <1>0, <2>2 DEF Only, Fields
  <2> QED
    BY <2>4, <2>5
<1>17. CASE UpsertBatch(t)
  <2>1. PICK b \in Batches(task[t].todo) : \E left \in SUBSET b :
            /\ index' = With(b \ left, job[t].path)
            /\ task' = [task EXCEPT ![t].todo = @ \ b, ![t].bad = @ \cup left]
    BY <1>17 DEF UpsertBatch, Unserved
  <2>2. PICK left \in SUBSET b :
            /\ index' = With(b \ left, job[t].path)
            /\ task' = [task EXCEPT ![t].todo = @ \ b, ![t].bad = @ \cup left]
    BY <2>1
  <2>3. b \ left \subseteq Own(t)
    BY <1>0, BatchesWithin
  <2>4. Spares(t)
    BY <2>2, <2>3, BatchSpares
  <2>5. Only(t)
    BY <1>0, <2>2 DEF Only, Fields
  <2> QED
    BY <2>4, <2>5
<1> QED
  BY <1>6, <1>7, <1>8, <1>9, <1>10, <1>11, <1>12, <1>13, <1>14, <1>15, <1>16, <1>17 DEF TaskStep

\* The property of one step.
StaysOut == \A t \in Tasks : task'[t] # task[t] =>
                \A c \in ChunkIds : c.tag # job[t].tag => index'[c] = index[c]

\* Tasks, edits and crashes: the invariant, and the property of the step.
LEMMA NextOwn == OwnInv /\ [Next]_vars => OwnInv' /\ StaysOut
<1> SUFFICES ASSUME OwnInv, [Next]_vars PROVE OwnInv' /\ StaysOut
  OBVIOUS
<1>0. UNCHANGED vars \/ job' = job
  BY DEF Next
<1>1. CASE UNCHANGED vars
  BY <1>1 DEF vars, OwnInv, Own, StaysOut
<1>2. ASSUME NEW t \in Tasks, TaskStep(t), job' = job PROVE OwnInv' /\ StaysOut
  BY <1>2, TaskOwn, OnlyOwn DEF StaysOut, Only, Spares, Own
<1>3. ASSUME NEW p, NEW d, Edit(p, d), job' = job PROVE OwnInv' /\ StaysOut
  BY <1>3 DEF Edit, OwnInv, Own, StaysOut
<1>4. ASSUME NEW p, Crash(p), job' = job PROVE OwnInv' /\ StaysOut
  <2>1. /\ index' = index /\ DOMAIN task' = Tasks
        /\ \A t \in Tasks :
             \/ task'[t] = task[t]
             \/ \E st : task'[t] = [task[t] EXCEPT !.phase = "over", !.status = st,
                                           !.todo = {}, !.stale = {}, !.bad = {}]
    BY <1>4 DEF Crash
  <2>2. \A t \in Tasks : /\ DOMAIN task'[t] = Fields
                         /\ task'[t].todo \subseteq Own(t)
                         /\ task'[t].stale \subseteq Own(t)
    BY <2>1 DEF OwnInv, Fields
  <2>3. \A t \in Tasks : Own(t)' = Own(t)
    BY <1>4 DEF Own
  <2>4. DOMAIN index' = ChunkIds /\ DOMAIN task' = Tasks
    BY <2>1 DEF OwnInv
  <2>5. StaysOut
    BY <2>1 DEF StaysOut
  <2>6. OwnInv'
    BY <2>2, <2>3, <2>4 DEF OwnInv
  <2> QED
    BY <2>5, <2>6
<1> QED
  BY <1>1, <1>2, <1>3, <1>4 DEF Next

\* No step of a task touches a chunk of another tenant, whatever the task is
\* (custom_rag.py and search_admin_service.py: every filter names the bot_tag).
THEOREM SpecTenantIsolation == Spec => TenantIsolation
<1>1. OwnInv /\ [Next]_vars => OwnInv'
  BY NextOwn
<1>2. OwnInv /\ [Next]_vars =>
        [\A t \in Tasks : task'[t] # task[t] =>
          \A c \in ChunkIds : c.tag # job[t].tag => index'[c] = index[c]]_vars
  BY NextOwn DEF StaysOut
<1> QED
  BY <1>1, <1>2, InitOwn, PTL DEF Spec, TenantIsolation

-----------------------------------------------------------------------------
\* Uploads of one content.

AllUploads == \A t \in Tasks : job[t].kind = "upload"

\* The chunks upload t is to write, and all there can be of its document.
Whole(t) == Yield(t, job[t].doc)
OfDocument(t) == {c \in ChunkIds : c.tag = job[t].tag /\ c.doc = job[t].doc}

\* Whether an upload in this state has sent its chunks.
SentIn(s) == s.phase = "prune" \/ s.status \in {"successful", "degraded", "cut"}

\* The chunks of an upload that are in the index, or that another upload of the
\* document has a reason to take.
Safe(t) ==
    {c \in Whole(t) : \/ c \in Present
                      \/ \E u \in Tasks : /\ job[u].tag = job[t].tag /\ job[u].doc = job[t].doc
                                          /\ c \notin Whole(u) /\ SentIn(task[u])}

\* How far an upload is, and what of its chunks is therefore safe.
UploadOf(t, s, safe) ==
    /\ s.phase \in {"new", "drainDoc", "parse", "upsert", "prune", "over"}
    /\ s.phase # "new" => s.doc = job[t].doc
    /\ s.phase # "over" => s.status = "none"
    /\ s.phase \in {"parse", "upsert"} => s.stale \subseteq OfDocument(t)
    /\ s.phase = "upsert" =>
         s.todo \subseteq Whole(t) /\ Whole(t) \ (s.todo \cup s.bad) \subseteq safe
    /\ s.phase = "prune" =>
         s.todo \subseteq OfDocument(t) \ Whole(t) /\ Whole(t) \ s.bad \subseteq safe
    /\ s.status = "successful" => s.phase = "over" /\ Whole(t) \subseteq safe

\* Every upload is as far as its record says.
UploadInv ==
    /\ OwnInv
    /\ job \in Mixes
    /\ AllUploads => \A t \in Tasks : UploadOf(t, task[t], Safe(t))

-----------------------------------------------------------------------------
\* Versions at a path.

At(p, g) == {c \in Present : index[c] = p /\ c.tag = g}
Mine(t) == At(job[t].path, job[t].tag)
Writes(t, s) == Yield(t, s.doc)

\* What uploads of the content and mode of t may write between them.
Kin(t) == ChunksOf(job[t].tag, job[t].doc, job[t].mode)
AllSyncs == \A t \in Tasks : job[t].kind = "sync"

\* A run that is inside its window has it to itself, and is the latest on its path.
WindowInv ==
    /\ latest \in [Paths -> [Tags -> Tasks \cup {"none"}]]
    /\ \A t \in Tasks : job[t].kind = "sync" /\ Running(t) =>
         window[SlotOf(t)] = {t} /\ latest[job[t].path][job[t].tag] = t
    /\ \A p \in Paths, g \in Tags : latest[p][g] # "none" =>
         /\ latest[p][g] \in Tasks
         /\ job[latest[p][g]].path = p /\ job[latest[p][g]].tag = g

\* How far a task is, and what its path may therefore show.
VersionOf(t, s, mine) ==
    /\ s.phase # "over" => s.status = "none"
    /\ s.phase = "upsert" => s.todo \subseteq Writes(t, s)
    /\ job[t].kind = "sync" =>
         /\ s.phase = "purge" => mine \subseteq s.todo
         /\ s.phase \in {"drainDoc", "parse"} => mine = {}
         /\ s.phase \in {"upsert", "prune"} => mine \subseteq Writes(t, s)
    /\ job[t].kind = "upload" =>
         /\ s.phase \notin {"fetch", "drainPath", "purge"}
         /\ s.phase # "new" => s.doc = job[t].doc
         /\ mine \subseteq Kin(t)
    /\ job[t].kind \in {"deleteDoc", "deleteTenant"} => s.phase \in {"new", "purge", "over"}

\* ... and what it must show, among syncs of contents that differ from path to path.
ReplaceOf(t, s, mine) ==
    /\ s.phase \notin {"new", "fetch", "over"} => s.doc \in Contents[job[t].path]
    /\ \A c \in s.todo \cup s.stale : c.doc \in Contents[job[t].path]
    /\ s.phase = "upsert" => Writes(t, s) \ (s.todo \cup s.bad) \subseteq mine
    /\ s.phase = "prune" => Writes(t, s) \ s.bad \subseteq mine /\ s.todo \cap Writes(t, s) = {}

\* The run that was the last on its path, once it succeeded.
Replaced(t, s, mine, last) == last = t /\ s.status = "successful" => mine = Writes(t, s)

VersionInv ==
    /\ OwnInv
    /\ TypeOK
    /\ job \in Mixes
    /\ WindowInv
    /\ SingleVersion
    /\ \A t \in Tasks : VersionOf(t, task[t], Mine(t))

\* Every chunk is at the path whose content it is of.
ReplaceInv ==
    /\ VersionInv
    /\ AllSyncs =>
         /\ \A c \in Present : c.doc \in Contents[index[c]]
         /\ \A p \in Paths : source[p] \in Contents[p]
         /\ \A t \in Tasks : /\ ReplaceOf(t, task[t], Mine(t))
                            /\ Replaced(t, task[t], Mine(t), latest[job[t].path][job[t].tag])

-----------------------------------------------------------------------------
\* What the index holds after a batch.
LEMMA WithPresent ==
    ASSUME OwnInv, NEW b \in SUBSET ChunkIds, NEW p \in Paths, index' = With(b, p)
    PROVE  Present' = Present \cup b
BY NoPathFresh DEF OwnInv, With, Present

\* Without takes chunks out of the index.
LEMMA WithoutPresent ==
    ASSUME OwnInv, NEW b \in SUBSET ChunkIds, index' = Without(b)
    PROVE  Present' = Present \ b
BY DEF OwnInv, Without, Present

\* One batch of upserts.
LEMMA UpsertShape ==
    ASSUME OwnInv, NEW t \in Tasks, UpsertBatch(t)
    PROVE  \E b \in SUBSET task[t].todo : \E left \in SUBSET b :
             /\ index' = With(b \ left, job[t].path)
             /\ task' = [task EXCEPT ![t].todo = @ \ b, ![t].bad = @ \cup left]
BY BatchesWithin DEF UpsertBatch, Unserved

\* What an upload has safe may grow.
LEMMA UploadGrows ==
    ASSUME NEW t \in Tasks, NEW s, NEW safe, NEW more, safe \subseteq more, UploadOf(t, s, safe)
    PROVE  UploadOf(t, s, more)
BY DEF UploadOf

\* One step of an upload: it goes on as it should, and only takes chunks away when it
\* has sent its own, of its document and not among these.
LEMMA UploadStep ==
    ASSUME UploadInv, AllUploads, NEW t \in Tasks, TaskStep(t)
    PROVE  /\ UploadOf(t, task'[t], Safe(t) \cup (Present' \cap Whole(t)))
           /\ SentIn(task[t]) => SentIn(task'[t])
           /\ \/ Present \subseteq Present'
              \/ SentIn(task'[t]) /\ Present \ Present' \subseteq OfDocument(t) \ Whole(t)
<1> DEFINE s == task[t]
           n == task'[t]
           safe == Safe(t) \cup (Present' \cap Whole(t))
<1>0. /\ job[t].kind = "upload" /\ UploadOf(t, s, Safe(t)) /\ Only(t) /\ OwnInv
      /\ DOMAIN task = Tasks /\ DOMAIN s = Fields /\ UploadOf(t, s, safe)
      /\ Safe(t) \subseteq safe /\ job[t].path \in Paths
  BY TaskOwn, UploadGrows, MixesTyped DEF UploadInv, AllUploads, OwnInv
<1> HIDE DEF safe
<1>1. s.phase # "new" => Written(t) = Whole(t)
  BY <1>0 DEF Written, Whole, UploadOf
<1>2. t \notin Syncs
  BY <1>0 DEF Syncs
<1>3. index' = index => Present' = Present
  BY DEF Present
<1>4. SUFFICES /\ UploadOf(t, n, safe)
               /\ SentIn(s) => SentIn(n)
               /\ \/ Present \subseteq Present'
                  \/ SentIn(n) /\ Present \ Present' \subseteq OfDocument(t) \ Whole(t)
  BY DEF safe
<1>5. CASE Enter(t) \/ Fetch(t) \/ DrainPath(t) \/ BeginDelete(t) \/ PurgeDone(t)
  BY <1>0, <1>2, <1>5 DEF Enter, Fetch, DrainPath, BeginDelete, PurgeDone, UploadOf
<1>6. CASE BeginUpload(t)
  <2>1. task'[t] = [s EXCEPT !.phase = "drainDoc", !.doc = job[t].doc] /\ s.phase = "new"
    BY <1>0, <1>6 DEF BeginUpload
  <2>2. task'[t].phase = "drainDoc" /\ task'[t].doc = job[t].doc /\ task'[t].status = s.status
    BY <1>0, <2>1 DEF Fields
  <2> QED
    BY <1>0, <1>3, <1>6, <2>1, <2>2 DEF BeginUpload, UploadOf, SentIn
<1>7. CASE DeleteBatch(t)
  <2>1. s.phase = "prune"
    BY <1>0, <1>7 DEF DeleteBatch, UploadOf
  <2>2. PICK b \in Batches(s.todo) : \E left \in SUBSET b :
            /\ index' = Without(b \ left)
            /\ task' = [task EXCEPT ![t].todo = @ \ b]
    BY <1>7 DEF DeleteBatch, Unserved
  <2>3. PICK left \in SUBSET b :
            /\ index' = Without(b \ left)
            /\ task' = [task EXCEPT ![t].todo = @ \ b]
    BY <2>2
  <2>4. /\ n.phase = "prune" /\ n.doc = s.doc /\ n.todo = s.todo \ b /\ n.bad = s.bad
        /\ n.status = s.status
    BY <1>0, <2>1, <2>3 DEF Fields
  <2>5. b \subseteq OfDocument(t) \ Whole(t)
    BY <1>0, <2>1, BatchesWithin DEF UploadOf
  <2>6. b \ left \in SUBSET ChunkIds
    BY <2>5 DEF OfDocument
  <2>7. Present' = Present \ (b \ left)
    BY <1>0, <2>3, <2>6, WithoutPresent
  <2>8. UploadOf(t, n, safe)
    BY <1>0, <2>1, <2>4 DEF UploadOf
  <2> QED
    BY <2>4, <2>5, <2>7, <2>8 DEF SentIn
<1>8. CASE DrainDoc(t)
  <2>1. PICK found \in {DocFilter(s.doc, job[t].tag)} \cup (IF "raise" \in Faults THEN {{}} ELSE {}) :
          task' = [task EXCEPT ![t].phase = "parse", ![t].stale = found]
    BY <1>8 DEF DrainDoc
  <2>2. s.phase = "drainDoc" /\ index' = index
    BY <1>8 DEF DrainDoc
  <2>3. found \subseteq OfDocument(t)
    BY <1>0, <2>2 DEF DocFilter, Present, OfDocument, UploadOf
  <2>4. /\ task'[t].phase = "parse" /\ task'[t].doc = s.doc /\ task'[t].status = s.status
        /\ task'[t].stale = found
    BY <1>0, <2>1 DEF Fields
  <2> QED
    BY <1>0, <1>3, <2>2, <2>3, <2>4 DEF UploadOf, SentIn
<1>9. ASSUME NEW st, Over(t, st), s.phase \notin {"new", "over"}, index' = index,
             st = "successful" => Whole(t) \subseteq safe,
             s.phase = "prune" => st \in {"successful", "degraded"}
      PROVE  UploadOf(t, n, safe) /\ (SentIn(s) => SentIn(n)) /\ Present \subseteq Present'
  <2>1. task'[t].phase = "over" /\ task'[t].doc = s.doc /\ task'[t].status = st
    BY <1>0, <1>9 DEF Over, Fields
  <2>2. s.status = "none"
    BY <1>0, <1>9 DEF UploadOf
  <2> QED
    BY <1>0, <1>3, <1>9, <2>1, <2>2 DEF UploadOf, SentIn
<1>10. CASE ParseEmpty(t)
  BY <1>9, <1>10 DEF ParseEmpty
<1>11. CASE Raise(t)
  BY <1>9, <1>11 DEF Raise
<1>12. CASE Parse(t)
  <2>1. /\ s.phase = "parse" /\ task'[t].phase = "upsert" /\ task'[t].doc = s.doc
        /\ task'[t].stale = s.stale /\ task'[t].todo = Written(t) /\ task'[t].status = s.status
    BY <1>0, <1>12 DEF Parse, Fields
  <2> QED
    BY <1>0, <1>1, <1>3, <1>12, <2>1 DEF Parse, UploadOf, SentIn
<1>13. CASE UpsertBatch(t)
  <2>1. PICK b \in SUBSET s.todo : \E left \in SUBSET b :
             /\ index' = With(b \ left, job[t].path)
             /\ task' = [task EXCEPT ![t].todo = @ \ b, ![t].bad = @ \cup left]
    BY <1>0, <1>13, UpsertShape
  <2>2. PICK left \in SUBSET b :
             /\ index' = With(b \ left, job[t].path)
             /\ task' = [task EXCEPT ![t].todo = @ \ b, ![t].bad = @ \cup left]
    BY <2>1
  <2>3. /\ s.phase = "upsert" /\ task'[t].phase = "upsert" /\ task'[t].doc = s.doc
        /\ task'[t].todo = s.todo \ b /\ task'[t].bad = s.bad \cup left
        /\ task'[t].stale = s.stale /\ task'[t].status = s.status
    BY <1>0, <1>13, <2>2 DEF UpsertBatch, Fields
  <2>4. s.todo \subseteq ChunkIds /\ s.todo \subseteq Whole(t)
    BY <1>0, <2>3 DEF UploadOf, Whole, Yield, ChunksOf
  <2>5. Present' = Present \cup (b \ left)
    BY <1>0, <2>2, <2>4, WithPresent
  <2>6. b \ left \subseteq safe
    BY <2>4, <2>5 DEF safe
  <2>7. UploadOf(t, n, safe)
    BY <1>0, <2>3, <2>6 DEF UploadOf
  <2> QED
    BY <2>3, <2>5, <2>7 DEF SentIn
<1>14. CASE UpsertDone(t)
  <2>1. /\ s.phase = "upsert" /\ s.todo = {} /\ task'[t].phase = "prune" /\ task'[t].doc = s.doc
        /\ task'[t].todo = s.stale \ Written(t) /\ task'[t].status = s.status
        /\ task'[t].bad = s.bad
    BY <1>0, <1>14 DEF UpsertDone, Fields
  <2> QED
    BY <1>0, <1>1, <1>3, <1>14, <2>1 DEF UpsertDone, UploadOf, SentIn
<1>15. CASE PruneDone(t)
  <2>1. s.phase = "prune" /\ index' = index
        /\ Over(t, IF s.bad = {} THEN "successful" ELSE "degraded")
    BY <1>15 DEF PruneDone
  <2>2. s.bad = {} => Whole(t) \subseteq safe
    BY <1>0, <2>1 DEF UploadOf
  <2> QED
    BY <1>9, <2>1, <2>2
<1> QED
  BY <1>5, <1>6, <1>7, <1>8, <1>10, <1>11, <1>12, <1>13, <1>14, <1>15 DEF TaskStep

\* Such a step takes nothing from what any upload has safe.
LEMMA SafeGrows ==
    ASSUME UploadInv, job' = job, NEW t \in Tasks,
           \A u \in Tasks : SentIn(task[u]) => SentIn(task'[u]),
           \/ Present \subseteq Present'
           \/ SentIn(task'[t]) /\ Present \ Present' \subseteq OfDocument(t) \ Whole(t)
    PROVE  \A u \in Tasks : Safe(u) \subseteq Safe(u)' /\ Present' \cap Whole(u) \subseteq Safe(u)'
<1>1. \A u \in Tasks : Whole(u)' = Whole(u)
  BY DEF Whole, Yield, ChunksOf
<1>2. SUFFICES ASSUME NEW u \in Tasks, NEW c \in Whole(u), c \in Safe(u) \/ c \in Present'
               PROVE  c \in Safe(u)'
  BY DEF Safe
<1>3. c \in Whole(u)'
  BY <1>1, <1>2
<1>4. CASE c \in Present'
  BY <1>3, <1>4 DEF Safe
<1>5. CASE c \in Present /\ c \notin Present'
  <2>1. SentIn(task'[t]) /\ c \in OfDocument(t) /\ c \notin Whole(t)'
    BY <1>1, <1>5
  <2>2. job[t].tag = job[u].tag /\ job[t].doc = job[u].doc
    BY <2>1 DEF OfDocument, Whole, Yield, ChunksOf
  <2> QED
    BY <1>3, <2>1, <2>2 DEF Safe
<1>6. CASE c \notin Present /\ c \notin Present'
  <2>1. PICK v \in Tasks : /\ job[v].tag = job[u].tag /\ job[v].doc = job[u].doc
                           /\ c \notin Whole(v) /\ SentIn(task[v])
    BY <1>2, <1>6 DEF Safe
  <2>2. c \notin Whole(v)' /\ SentIn(task'[v])
    BY <1>1, <2>1
  <2> QED
    BY <1>3, <2>1, <2>2 DEF Safe
<1> QED
  BY <1>4, <1>5, <1>6

\* Initially nothing is uploaded.
LEMMA InitUploads == Init => UploadInv
<1> SUFFICES ASSUME Init PROVE UploadInv
  OBVIOUS
<1>1. job \in Mixes
  BY DEF Init
<1>2. \A t \in Tasks : UploadOf(t, task[t], Safe(t))
  BY DEF Init, UploadOf
<1> QED
  BY <1>1, <1>2, InitOwn DEF UploadInv

\* The invariant of the uploads is inductive.
LEMMA NextUploads == UploadInv /\ [Next]_vars => UploadInv'
<1> SUFFICES ASSUME UploadInv, [Next]_vars PROVE UploadInv'
  OBVIOUS
<1>0. OwnInv' /\ job' = job /\ job \in Mixes
  BY NextOwn DEF UploadInv, Next, vars
<1>1. CASE ~AllUploads
  BY <1>0, <1>1 DEF UploadInv, AllUploads
<1>2. CASE AllUploads
  <2>0. \A u \in Tasks : Whole(u)' = Whole(u) /\ OfDocument(u)' = OfDocument(u)
    BY <1>0 DEF Whole, Yield, ChunksOf, OfDocument
  <2>1. SUFFICES \A u \in Tasks : UploadOf(u, task'[u], Safe(u)')
    <3>1. \A u \in Tasks : UploadOf(u, task'[u], Safe(u)') => UploadOf(u, task[u], Safe(u))'
      BY <1>0, <2>0 DEF UploadOf
    <3> QED
      BY <1>0, <2>1, <3>1 DEF UploadInv
  <2>2. \A u \in Tasks : UploadOf(u, task[u], Safe(u))
    BY <1>2 DEF UploadInv
  <2>3. CASE UNCHANGED <<task, index>>
    <3>1. \A u \in Tasks : Safe(u)' = Safe(u)
      BY <1>0, <2>0, <2>3 DEF Safe, Present
    <3> QED
      BY <2>2, <2>3, <3>1
  <2>4. ASSUME NEW t \in Tasks, TaskStep(t)
        PROVE  \A u \in Tasks : UploadOf(u, task'[u], Safe(u)')
    <3>1. /\ UploadOf(t, task'[t], Safe(t) \cup (Present' \cap Whole(t)))
          /\ SentIn(task[t]) => SentIn(task'[t])
          /\ \/ Present \subseteq Present'
             \/ SentIn(task'[t]) /\ Present \ Present' \subseteq OfDocument(t) \ Whole(t)
      BY <1>2, <2>4, UploadStep
    <3>2. \A u \in Tasks \ {t} : task'[u] = task[u]
      BY <2>4, TaskOwn DEF UploadInv, Only
    <3>3. \A u \in Tasks : SentIn(task[u]) => SentIn(task'[u])
      BY <3>1, <3>2
    <3>4. \A u \in Tasks : Safe(u) \subseteq Safe(u)' /\ Present' \cap Whole(u) \subseteq Safe(u)'
      BY <1>0, <3>1, <3>3, SafeGrows
    <3>5. ASSUME NEW u \in Tasks \ {t} PROVE UploadOf(u, task'[u], Safe(u)')
      BY <2>2, <3>2, <3>4, UploadGrows
    <3>6. Safe(t) \cup (Present' \cap Whole(t)) \subseteq Safe(t)'
      BY <3>4
    <3>7. UploadOf(t, task'[t], Safe(t)')
      BY ONLY t \in Tasks, <3>1, <3>6, UploadGrows
    <3> QED
      BY <3>5, <3>7
  <2>5. ASSUME NEW p, NEW d, Edit(p, d)
        PROVE  \A u \in Tasks : UploadOf(u, task'[u], Safe(u)')
    BY <2>3, <2>5 DEF Edit
  <2>6. ASSUME NEW p, Crash(p)
        PROVE  \A u \in Tasks : UploadOf(u, task'[u], Safe(u)')
    <3>1. Present' = Present
      BY <2>6 DEF Crash, Present
    <3>2. ASSUME NEW u \in Tasks
          PROVE  UploadOf(u, task'[u], Safe(u)) /\ (SentIn(task[u]) => SentIn(task'[u]))
      <4>1. \/ task'[u] = task[u]
            \/ /\ task[u].phase \notin {"new", "over"} /\ DOMAIN task[u] = Fields
               /\ task'[u] = [task[u] EXCEPT !.phase = "over",
                                 !.status = IF task[u].phase = "prune" THEN "cut" ELSE "failed",
                                 !.todo = {}, !.stale = {}, !.bad = {}]
        BY <2>6 DEF Crash, Running, UploadInv, OwnInv
      <4>2. \/ task'[u] = task[u]
            \/ /\ task[u].phase \notin {"new", "over"} /\ task'[u].phase = "over"
               /\ task'[u].status = (IF task[u].phase = "prune" THEN "cut" ELSE "failed")
               /\ task'[u].doc = task[u].doc
        BY <4>1 DEF Fields
      <4> QED
        BY <2>2, <4>2 DEF UploadOf, SentIn
    <3>3. \A u \in Tasks : Safe(u) \subseteq Safe(u)'
      <4>1. SUFFICES ASSUME NEW u \in Tasks PROVE Safe(u) \subseteq Safe(u)'
        OBVIOUS
      <4> QED
        BY <1>0, <3>1, <3>2, SafeGrows
    <3> QED
      BY <3>2, <3>3, UploadGrows
  <2> QED
    BY <2>3, <2>4, <2>5, <2>6 DEF Next, vars
<1> QED
  BY <1>1, <1>2

\* A chunk of an upload that reported success is only missing because another upload
\* of the same document, whose parse does not yield it, has sent all that its parse does
\* yield (custom_rag.py, upload: the prune spares "the chunks we just wrote"), for any
\* uploads in any modes, parses, batch sizes and faults, and however they overlap.
THEOREM SpecUploadedStays == Spec => []UploadedStays
<1>1. UploadInv /\ [Next]_vars => UploadInv'
  BY NextUploads
<1>2. UploadInv => UploadedStays
  <2> SUFFICES ASSUME UploadInv, AllUploads, NEW t \in Tasks, task[t].status = "successful",
                      NEW c \in Written(t) \ Present
               PROVE  \E u \in Tasks : /\ job[u].tag = job[t].tag /\ job[u].doc = job[t].doc
                                       /\ c \notin Written(u)
                                       /\ Sent(u)
    BY DEF UploadedStays, AllUploads
  <2>1. \A u \in Tasks : UploadOf(u, task[u], Safe(u))
    BY DEF UploadInv
  <2>2. Written(t) = Whole(t) /\ c \in Safe(t)
    BY <2>1 DEF UploadOf, Written, Whole
  <2>3. PICK u \in Tasks : /\ job[u].tag = job[t].tag /\ job[u].doc = job[t].doc
                           /\ c \notin Whole(u) /\ SentIn(task[u])
    BY <2>2 DEF Safe
  <2>4. task[u].phase # "new" /\ Sent(u)
    BY <2>1, <2>3 DEF UploadOf, SentIn, Sent
  <2>5. Written(u) = Whole(u)
    BY <2>1, <2>4 DEF UploadOf, Written, Whole
  <2> QED
    BY <2>3, <2>4, <2>5
<1> QED
  BY <1>1, <1>2, InitUploads, PTL DEF Spec

-----------------------------------------------------------------------------
\* The steps of a task that leave the index alone, by what they make of its record.
Moved(t, s, n) ==
    /\ n.bad = s.bad /\ n.status = s.status
    /\ \/ /\ s.phase = "fetch" /\ n.phase = "drainPath"
          /\ n.doc = source[job[t].path] /\ n.todo = s.todo /\ n.stale = s.stale
       \/ /\ s.phase = "drainPath" /\ n.phase = "purge"
          /\ n.doc = s.doc /\ n.todo = Mine(t) /\ n.stale = s.stale
       \/ /\ job[t].kind = "upload" /\ s.phase = "new" /\ n.phase = "drainDoc"
          /\ n.doc = job[t].doc /\ n.todo = s.todo /\ n.stale = s.stale
       \/ /\ job[t].kind \in {"deleteDoc", "deleteTenant"} /\ s.phase = "new" /\ n.phase = "purge"
          /\ n.doc = job[t].doc /\ n.todo \subseteq Present /\ n.stale = s.stale
       \/ /\ job[t].kind = "sync" /\ s.phase = "purge" /\ s.todo = {} /\ n.phase = "drainDoc"
          /\ n.doc = s.doc /\ n.todo = s.todo /\ n.stale = s.stale
       \/ /\ s.phase = "drainDoc" /\ n.phase = "parse"
          /\ n.doc = s.doc /\ n.todo = s.todo /\ n.stale \subseteq DocFilter(s.doc, job[t].tag)
       \/ /\ s.phase = "parse" /\ n.phase = "upsert"
          /\ n.doc = s.doc /\ n.todo = Writes(t, s) /\ n.stale = s.stale
       \/ /\ s.phase = "upsert" /\ s.todo = {} /\ n.phase = "prune"
          /\ n.doc = s.doc /\ n.todo = s.stale \ Writes(t, s) /\ n.stale = {}

\* What a step that moves a run on leaves of it.
LEMMA MoveShape ==
    ASSUME OwnInv, NEW t \in Tasks,
           \/ Fetch(t) \/ DrainPath(t) \/ BeginUpload(t) \/ BeginDelete(t)
           \/ (PurgeDone(t) /\ t \in Syncs)
           \/ DrainDoc(t) \/ Parse(t) \/ UpsertDone(t)
    PROVE  Moved(t, task[t], task'[t]) /\ UNCHANGED <<index, window, latest, source>>
<1>0. DOMAIN task = Tasks /\ DOMAIN task[t] = Fields
  BY DEF OwnInv
<1>1. CASE Fetch(t)
  BY <1>0, <1>1 DEF Fetch, Moved, Fields
<1>2. CASE DrainPath(t)
  BY <1>0, <1>2 DEF DrainPath, Moved, Fields, PathFilter, Mine, At
<1>3. CASE BeginUpload(t)
  BY <1>0, <1>3 DEF BeginUpload, Moved, Fields
<1>4. CASE BeginDelete(t)
  <2>1. /\ DocFilter(job[t].doc, job[t].tag) \subseteq Present
        /\ {c \in Present : c.tag = job[t].tag} \subseteq Present
    BY DEF DocFilter
  <2> QED
    BY <1>0, <1>4, <2>1 DEF BeginDelete, Moved, Fields
<1>5. CASE PurgeDone(t) /\ t \in Syncs
  BY <1>0, <1>5 DEF PurgeDone, Moved, Fields, Syncs
<1>6. CASE DrainDoc(t)
  <2>1. PICK found \in {DocFilter(task[t].doc, job[t].tag)} \cup (IF "raise" \in Faults THEN {{}} ELSE {}) :
          task' = [task EXCEPT ![t].phase = "parse", ![t].stale = found]
    BY <1>6 DEF DrainDoc
  <2>2. found \subseteq DocFilter(task[t].doc, job[t].tag)
    OBVIOUS
  <2> QED
    BY <1>0, <1>6, <2>1, <2>2 DEF DrainDoc, Moved, Fields
<1>7. CASE Parse(t)
  BY <1>0, <1>7 DEF Parse, Moved, Fields, Written, Writes
<1>8. CASE UpsertDone(t)
  BY <1>0, <1>8 DEF UpsertDone, Moved, Fields, Written, Writes
<1> QED
  BY <1>1, <1>2, <1>3, <1>4, <1>5, <1>6, <1>7, <1>8

\* A task that ends, with success only after a prune of a write without refusals.
Ended(t, s, n) ==
    /\ s.phase \notin {"new", "over"} /\ n.phase = "over" /\ n.doc = s.doc
    /\ n.todo = {} /\ n.stale = {} /\ n.bad = {}
    /\ n.status \in {"successful", "degraded", "empty", "failed", "deleted"}
    /\ n.status = "successful" => s.phase = "prune" /\ s.bad = {}

\* What a step that ends a run leaves of it.
LEMMA EndShape ==
    ASSUME OwnInv, NEW t \in Tasks,
           (PurgeDone(t) /\ t \notin Syncs) \/ ParseEmpty(t) \/ PruneDone(t) \/ Raise(t)
    PROVE  /\ Ended(t, task[t], task'[t])
           /\ UNCHANGED <<index, latest, source>> /\ Mutex!Leave({t})
<1>0. DOMAIN task = Tasks /\ DOMAIN task[t] = Fields
  BY DEF OwnInv
<1>1. ASSUME NEW st, Over(t, st)
      PROVE  /\ task'[t].phase = "over" /\ task'[t].doc = task[t].doc /\ task'[t].status = st
             /\ task'[t].todo = {} /\ task'[t].stale = {} /\ task'[t].bad = {}
             /\ Mutex!Leave({t})
  BY <1>0, <1>1 DEF Over, Fields
<1>2. CASE PurgeDone(t) /\ t \notin Syncs
  BY <1>1, <1>2 DEF PurgeDone, Ended
<1>3. CASE ParseEmpty(t)
  BY <1>1, <1>3 DEF ParseEmpty, Ended
<1>4. CASE PruneDone(t)
  <2>1. Over(t, IF task[t].bad = {} THEN "successful" ELSE "degraded")
    BY <1>4 DEF PruneDone
  <2> QED
    BY <1>1, <1>4, <2>1 DEF PruneDone, Ended
<1>5. CASE Raise(t)
  BY <1>1, <1>5 DEF Raise, Ended
<1> QED
  BY <1>2, <1>3, <1>4, <1>5

\* One batch: what it takes off the list, and what of that the call serves.
Batched(t, s, n, b, left) ==
    /\ b \subseteq s.todo /\ left \subseteq b
    /\ n.phase = s.phase /\ n.doc = s.doc /\ n.status = s.status /\ n.stale = s.stale
    /\ n.todo = s.todo \ b
    /\ \/ /\ s.phase \in {"purge", "prune"} /\ n.bad = s.bad
          /\ (DeletesServed => left = {}) /\ index' = Without(b \ left)
       \/ /\ s.phase = "upsert" /\ n.bad = s.bad \cup left
          /\ index' = With(b \ left, job[t].path)

\* What a step that uploads or deletes a batch leaves of its run.
LEMMA BatchShape ==
    ASSUME OwnInv, NEW t \in Tasks, DeleteBatch(t) \/ UpsertBatch(t)
    PROVE  /\ \E b, left \in SUBSET ChunkIds : Batched(t, task[t], task'[t], b, left)
           /\ UNCHANGED <<window, latest, source>>
<1>0. /\ DOMAIN task = Tasks /\ DOMAIN task[t] = Fields /\ task[t].todo \subseteq ChunkIds
  BY DEF OwnInv, Own
<1>1. CASE DeleteBatch(t)
  <2>1. PICK b \in Batches(task[t].todo) : \E left \in Unserved(b, "partialDelete") :
            /\ index' = Without(b \ left)
            /\ task' = [task EXCEPT ![t].todo = @ \ b]
    BY <1>1 DEF DeleteBatch
  <2>2. PICK left \in Unserved(b, "partialDelete") :
            /\ index' = Without(b \ left)
            /\ task' = [task EXCEPT ![t].todo = @ \ b]
    BY <2>1
  <2>3. b \subseteq task[t].todo /\ left \subseteq b /\ (DeletesServed => left = {})
    BY BatchesWithin DEF Unserved, DeletesServed
  <2>4. Batched(t, task[t], task'[t], b, left)
    BY <1>0, <1>1, <2>2, <2>3 DEF DeleteBatch, Batched, Fields
  <2> QED
    BY <1>0, <1>1, <2>3, <2>4 DEF DeleteBatch
<1>2. CASE UpsertBatch(t)
  <2>1. PICK b \in SUBSET task[t].todo : \E left \in SUBSET b :
             /\ index' = With(b \ left, job[t].path)
             /\ task' = [task EXCEPT ![t].todo = @ \ b, ![t].bad = @ \cup left]
    BY <1>2, UpsertShape
  <2>2. PICK left \in SUBSET b :
             /\ index' = With(b \ left, job[t].path)
             /\ task' = [task EXCEPT ![t].todo = @ \ b, ![t].bad = @ \cup left]
    BY <2>1
  <2>3. Batched(t, task[t], task'[t], b, left)
    BY <1>0, <1>2, <2>2 DEF UpsertBatch, Batched, Fields
  <2> QED
    BY <1>0, <1>2, <2>3 DEF UpsertBatch
<1> QED
  BY <1>1, <1>2

\* A sync that gets its item's lock.
LEMMA EnterShape ==
    ASSUME OwnInv, NEW t \in Tasks, Enter(t)
    PROVE  /\ job[t].kind = "sync" /\ task[t].phase = "new" /\ window[SlotOf(t)] = {}
           /\ task'[t] = [task[t] EXCEPT !.phase = "fetch"]
           /\ window' = [window EXCEPT ![SlotOf(t)] = {t}]
           /\ latest' = [latest EXCEPT ![job[t].path][job[t].tag] = t]
           /\ UNCHANGED <<index, source>>
BY DEF Enter, Syncs, OwnInv, Mutex!Enter

-----------------------------------------------------------------------------
\* Types and windows.
Typed(s) ==
    /\ s.phase \in {"new", "fetch", "drainPath", "purge", "drainDoc",
                    "parse", "upsert", "prune", "over"}
    /\ s.doc \in Docs \cup {NoDoc}
    /\ s.todo \subseteq ChunkIds /\ s.stale \subseteq ChunkIds /\ s.bad \subseteq ChunkIds
    /\ s.status \in {"none", "successful", "degraded", "empty", "failed", "cut", "deleted"}

\* A task of a mix is of the kinds, processes, paths, tags and contents there are.
LEMMA JobTyped ==
    ASSUME job \in Mixes, NEW t \in Tasks
    PROVE  /\ job[t].kind \in {"sync", "upload", "deleteDoc", "deleteTenant"}
           /\ job[t].path \in Paths /\ job[t].tag \in Tags /\ job[t].doc \in Docs \cup {NoDoc}
           /\ SlotOf(t) \in Slots
BY MixesTyped DEF SlotOf, Slots

\* The task's own record keeps its type, and so do index, source and windows.
LEMMA StepTyped ==
    ASSUME OwnInv, TypeOK, job \in Mixes, NEW t \in Tasks, TaskStep(t)
    PROVE  /\ Typed(task'[t])
           /\ index' \in [ChunkIds -> Paths \cup {NoPath}]
           /\ window' \in [Slots -> SUBSET Tasks]
           /\ source' = source
<1> DEFINE s == task[t]
           n == task'[t]
<1>0. /\ Typed(s) /\ DOMAIN s = Fields /\ source \in [Paths -> Docs]
      /\ index \in [ChunkIds -> Paths \cup {NoPath}] /\ window \in [Slots -> SUBSET Tasks]
  BY DEF TypeOK, Typed, OwnInv
<1>1. /\ job[t].path \in Paths /\ SlotOf(t) \in Slots /\ job[t].doc \in Docs \cup {NoDoc}
  BY JobTyped
<1>2. CASE Enter(t)
  <2>0. /\ n = [s EXCEPT !.phase = "fetch"] /\ window' = [window EXCEPT ![SlotOf(t)] = {t}]
        /\ UNCHANGED <<index, source>>
    BY <1>2, EnterShape
  <2>1. n.phase = "fetch" /\ n.doc = s.doc /\ n.todo = s.todo /\ n.stale = s.stale
        /\ n.bad = s.bad /\ n.status = s.status
    BY <1>0, <2>0 DEF Fields
  <2>2. Typed(n)
    BY <1>0, <2>1 DEF Typed
  <2>3. window' \in [Slots -> SUBSET Tasks]
    BY <1>0, <1>1, <2>0
  <2> QED
    BY <1>0, <2>0, <2>2, <2>3
<1>3. CASE \/ Fetch(t) \/ DrainPath(t) \/ BeginUpload(t) \/ BeginDelete(t)
           \/ (PurgeDone(t) /\ t \in Syncs)
           \/ DrainDoc(t) \/ Parse(t) \/ UpsertDone(t)
  <2>1. Moved(t, s, n) /\ UNCHANGED <<index, window, latest, source>>
    BY <1>3, MoveShape
  <2>2. /\ Mine(t) \subseteq ChunkIds /\ Present \subseteq ChunkIds
        /\ DocFilter(s.doc, job[t].tag) \subseteq ChunkIds /\ Writes(t, s) \subseteq ChunkIds
        /\ source[job[t].path] \in Docs
    BY <1>0, <1>1 DEF Mine, At, Present, DocFilter, Writes, Yield, ChunksOf
  <2>3. Typed(n)
    BY <1>0, <1>1, <2>1, <2>2 DEF Moved, Typed
  <2> QED
    BY <1>0, <2>1, <2>3
<1>4. CASE (PurgeDone(t) /\ t \notin Syncs) \/ ParseEmpty(t) \/ PruneDone(t) \/ Raise(t)
  <2>1. Ended(t, s, n) /\ UNCHANGED <<index, latest, source>> /\ Mutex!Leave({t})
    BY <1>4, EndShape
  <2>2. Typed(n)
    BY <1>0, <2>1 DEF Ended, Typed
  <2> QED
    BY <1>0, <2>1, <2>2 DEF Mutex!Leave
<1>5. CASE DeleteBatch(t) \/ UpsertBatch(t)
  <2>1. /\ \E b, left \in SUBSET ChunkIds : Batched(t, s, n, b, left)
        /\ UNCHANGED <<window, latest, source>>
    BY <1>5, BatchShape
  <2>2. PICK b, left \in SUBSET ChunkIds : Batched(t, s, n, b, left)
    BY <2>1
  <2>3. Typed(n)
    BY <1>0, <2>2 DEF Batched, Typed
  <2>4. index' \in [ChunkIds -> Paths \cup {NoPath}]
    BY <1>0, <1>1, <2>2 DEF Batched, With, Without
  <2> QED
    BY <1>0, <2>1, <2>3, <2>4
<1> QED
  BY <1>2, <1>3, <1>4, <1>5 DEF TaskStep

\* Every step keeps the types.
LEMMA NextType ==
    ASSUME OwnInv, TypeOK, job \in Mixes, [Next]_vars
    PROVE  TypeOK'
<1>0. TypeOK <=> /\ index \in [ChunkIds -> Paths \cup {NoPath}]
                 /\ source \in [Paths -> Docs] /\ window \in [Slots -> SUBSET Tasks]
                 /\ \A t \in Tasks : Typed(task[t])
  BY DEF TypeOK, Typed
<1>1. SUFFICES /\ index' \in [ChunkIds -> Paths \cup {NoPath}]
               /\ source' \in [Paths -> Docs] /\ window' \in [Slots -> SUBSET Tasks]
               /\ \A t \in Tasks : Typed(task'[t])
  BY DEF TypeOK, Typed
<1>2. CASE UNCHANGED vars
  BY <1>0, <1>2 DEF vars
<1>3. ASSUME NEW t \in Tasks, TaskStep(t)
      PROVE  /\ index' \in [ChunkIds -> Paths \cup {NoPath}]
             /\ source' \in [Paths -> Docs] /\ window' \in [Slots -> SUBSET Tasks]
             /\ \A u \in Tasks : Typed(task'[u])
  BY <1>0, <1>3, StepTyped, TaskOwn DEF Only
<1>4. ASSUME NEW q \in Paths, NEW d \in Docs, Edit(q, d)
      PROVE  /\ index' \in [ChunkIds -> Paths \cup {NoPath}]
             /\ source' \in [Paths -> Docs] /\ window' \in [Slots -> SUBSET Tasks]
             /\ \A u \in Tasks : Typed(task'[u])
  BY <1>0, <1>4 DEF Edit
<1>5. ASSUME NEW q \in Procs, Crash(q)
      PROVE  /\ index' \in [ChunkIds -> Paths \cup {NoPath}]
             /\ source' \in [Paths -> Docs] /\ window' \in [Slots -> SUBSET Tasks]
             /\ \A u \in Tasks : Typed(task'[u])
  <2>1. ASSUME NEW u \in Tasks PROVE Typed(task'[u])
    <3>1. \/ task'[u] = task[u]
          \/ /\ DOMAIN task[u] = Fields
             /\ task'[u] = [task[u] EXCEPT !.phase = "over",
                               !.status = IF task[u].phase = "prune" THEN "cut" ELSE "failed",
                               !.todo = {}, !.stale = {}, !.bad = {}]
      BY <1>5 DEF Crash, OwnInv
    <3>2. \/ task'[u] = task[u]
          \/ /\ task'[u].phase = "over" /\ task'[u].doc = task[u].doc
             /\ task'[u].status \in {"failed", "cut"}
             /\ task'[u].todo = {} /\ task'[u].stale = {} /\ task'[u].bad = {}
      BY <3>1 DEF Fields
    <3> QED
      BY <1>0, <3>2 DEF Typed
  <2> QED
    BY <1>0, <1>5, <2>1 DEF Crash, Mutex!Leave
<1> QED
  BY <1>2, <1>3, <1>4, <1>5 DEF Next

\* In a mix whose writers stand apart, two syncs inside their windows are of different
\* paths or tenants.
LEMMA WindowApart ==
    ASSUME WritersApart, job \in Mixes, WindowInv, NEW t \in Tasks, NEW u \in Tasks,
           job[t].kind = "sync", job[u].kind = "sync", Running(t), Running(u),
           job[t].path = job[u].path, job[t].tag = job[u].tag
    PROVE  t = u
<1>1. SlotOf(t) = SlotOf(u)
  BY DEF WritersApart, SlotOf
<1> QED
  BY <1>1 DEF WindowInv

\* The invariant of the windows, over the phases before and after.
LEMMA StepWindow ==
    ASSUME WritersApart, OwnInv, TypeOK, WindowInv, job \in Mixes, job' = job,
           NEW t \in Tasks, TaskStep(t)
    PROVE  WindowInv'
<1> DEFINE s == task[t]
           n == task'[t]
<1>0. /\ \A u \in Tasks : SlotOf(u)' = SlotOf(u) /\ SlotOf(u) \in Slots
      /\ \A u \in Tasks : job[u].path \in Paths /\ job[u].tag \in Tags
      /\ \A u \in Tasks \ {t} : task'[u] = task[u]
      /\ window \in [Slots -> SUBSET Tasks]
      /\ latest \in [Paths -> [Tags -> Tasks \cup {"none"}]]
  BY JobTyped, TaskOwn DEF SlotOf, Only, TypeOK, WindowInv
<1>1. ASSUME UNCHANGED <<window, latest>>, job[t].kind = "sync" => Running(t)
      PROVE  WindowInv'
  <2>1. \A u \in Tasks : Running(u)' /\ job[u].kind = "sync" => Running(u)
    BY <1>0, <1>1 DEF Running
  <2> QED
    BY <1>0, <1>1, <2>1 DEF WindowInv
<1>2. CASE Enter(t)
  <2>1. /\ job[t].kind = "sync" /\ window[SlotOf(t)] = {}
        /\ window' = [window EXCEPT ![SlotOf(t)] = {t}]
        /\ latest' = [latest EXCEPT ![job[t].path][job[t].tag] = t]
    BY <1>2, EnterShape
  <2>2. latest' \in [Paths -> [Tags -> Tasks \cup {"none"}]]
    BY <1>0, <2>1
  <2>3. latest'[job[t].path][job[t].tag] = t
    BY <1>0, <2>1
  <2>4. \A p \in Paths, g \in Tags : p # job[t].path \/ g # job[t].tag => latest'[p][g] = latest[p][g]
    BY <1>0, <2>1
  <2>5. ASSUME NEW u \in Tasks, job[u].kind = "sync", Running(u)'
        PROVE  window'[SlotOf(u)] = {u} /\ latest'[job[u].path][job[u].tag] = u
    <3>1. CASE u = t
      BY <1>0, <2>1, <2>3, <3>1
    <3>2. CASE u # t
      <4>1. Running(u)
        BY <1>0, <2>5, <3>2 DEF Running
      <4>2. window[SlotOf(u)] = {u} /\ latest[job[u].path][job[u].tag] = u
        BY <2>5, <4>1 DEF WindowInv
      <4>3. SlotOf(u) # SlotOf(t)
        BY <2>1, <4>2
      <4>4. job[u].path # job[t].path \/ job[u].tag # job[t].tag
        BY <2>1, <2>5, <4>3 DEF WritersApart, SlotOf
      <4> QED
        BY <1>0, <2>1, <2>4, <4>2, <4>3, <4>4
    <3> QED
      BY <3>1, <3>2
  <2>6. ASSUME NEW p \in Paths, NEW g \in Tags, latest'[p][g] # "none"
        PROVE  latest'[p][g] \in Tasks /\ job[latest'[p][g]].path = p /\ job[latest'[p][g]].tag = g
    BY <2>3, <2>4, <2>6 DEF WindowInv
  <2>7. WindowInv'
    BY <1>0, <2>2, <2>5, <2>6 DEF WindowInv
  <2> QED
    BY <2>7
<1>3. CASE \/ Fetch(t) \/ DrainPath(t) \/ BeginUpload(t) \/ BeginDelete(t)
           \/ (PurgeDone(t) /\ t \in Syncs)
           \/ DrainDoc(t) \/ Parse(t) \/ UpsertDone(t)
  <2>1. Moved(t, s, n) /\ UNCHANGED <<window, latest>>
    BY <1>3, MoveShape
  <2> QED
    BY <1>1, <2>1 DEF Moved, Running
<1>4. CASE (PurgeDone(t) /\ t \notin Syncs) \/ ParseEmpty(t) \/ PruneDone(t) \/ Raise(t)
  <2>1. Ended(t, s, n) /\ latest' = latest /\ Mutex!Leave({t})
    BY <1>4, EndShape
  <2>2. ASSUME NEW u \in Tasks, job[u].kind = "sync", Running(u)'
        PROVE  window'[SlotOf(u)] = {u} /\ latest[job[u].path][job[u].tag] = u
    <3>1. u # t /\ Running(u)
      BY <1>0, <2>1, <2>2 DEF Ended, Running
    <3> QED
      BY <1>0, <2>1, <2>2, <3>1 DEF WindowInv, Mutex!Leave
  <2> QED
    BY <1>0, <2>1, <2>2 DEF WindowInv
<1>5. CASE DeleteBatch(t) \/ UpsertBatch(t)
  <2>1. UNCHANGED <<window, latest>>
    BY <1>5, BatchShape
  <2>2. Running(t)
    BY <1>5 DEF DeleteBatch, UpsertBatch, Running
  <2> QED
    BY <1>1, <2>1, <2>2
<1> QED
  BY <1>2, <1>3, <1>4, <1>5 DEF TaskStep

-----------------------------------------------------------------------------
\* One version at a path.

\* A chunk that a run adds to its own.
LEMMA MineWith ==
    ASSUME OwnInv, job' = job, NEW x \in SUBSET ChunkIds, NEW q \in Paths, index' = With(x, q),
           NEW u \in Tasks
    PROVE  Mine(u)' = IF job[u].path = q THEN Mine(u) \cup {c \in x : c.tag = job[u].tag}
                      ELSE Mine(u) \ x
<1>1. Present' = Present \cup x
  BY WithPresent
<1>2. \A c \in ChunkIds : index'[c] = IF c \in x THEN q ELSE index[c]
  BY DEF With
<1>3. Mine(u)' = {c \in Present' : index'[c] = job[u].path /\ c.tag = job[u].tag}
  BY DEF Mine, At
<1> QED
  BY <1>1, <1>2, <1>3 DEF Mine, At, Present

\* Chunks that are deleted are no longer a run's own.
LEMMA MineWithout ==
    ASSUME OwnInv, job' = job, NEW x \in SUBSET ChunkIds, index' = Without(x), NEW u \in Tasks
    PROVE  Mine(u)' = Mine(u) \ x
<1>1. Present' = Present \ x
  BY WithoutPresent
<1>2. \A c \in ChunkIds : index'[c] = IF c \in x THEN NoPath ELSE index[c]
  BY DEF Without
<1>3. Mine(u)' = {c \in Present' : index'[c] = job[u].path /\ c.tag = job[u].tag}
  BY DEF Mine, At
<1> QED
  BY <1>1, <1>2, <1>3 DEF Mine, At, Present

\* A run whose chunks are left alone.
LEMMA MineSame ==
    ASSUME job' = job, index' = index, NEW u \in Tasks
    PROVE  Mine(u)' = Mine(u)
BY DEF Mine, At, Present

\* A task that is not at work, or whose path only lost chunks, is as far as it was.
LEMMA VersionShrinks ==
    ASSUME NEW u \in Tasks, NEW s, NEW mine, NEW less, VersionOf(u, s, mine), less \subseteq mine
    PROVE  VersionOf(u, s, less)
BY DEF VersionOf

\* A batch of deletes.
LEMMA DeleteVersion ==
    ASSUME DeletesServed, VersionInv, job' = job, NEW t \in Tasks, TaskStep(t),
           NEW b \in SUBSET ChunkIds, NEW left \in SUBSET ChunkIds,
           Batched(t, task[t], task'[t], b, left), task[t].phase \in {"purge", "prune"}
    PROVE  (\A u \in Tasks : VersionOf(u, task'[u], Mine(u)')) /\ SingleVersion'
<1> DEFINE s == task[t]
           n == task'[t]
<1>0. /\ OwnInv /\ \A u \in Tasks : VersionOf(u, task[u], Mine(u))
      /\ \A u \in Tasks \ {t} : task'[u] = task[u]
  BY TaskOwn DEF VersionInv, Only
<1>1. left = {} /\ b \ left = b /\ index' = Without(b) /\ n.todo = s.todo \ b
  BY DEF Batched
<1>2. \A u \in Tasks : Mine(u)' = Mine(u) \ b
  BY <1>0, <1>1, MineWithout
<1>3. ASSUME NEW u \in Tasks \ {t} PROVE VersionOf(u, task'[u], Mine(u)')
  BY <1>0, <1>2, VersionShrinks
<1>4. VersionOf(t, n, Mine(t)')
  <2>1. VersionOf(t, s, Mine(t))
    BY <1>0
  <2> QED
    BY <1>1, <1>2, <2>1 DEF Batched, VersionOf, Writes
<1>5. SingleVersion'
  <2>1. Present' = Present \ b /\ \A c \in Present \ b : index'[c] = index[c]
    BY <1>0, <1>1, WithoutPresent DEF Without, Present
  <2> QED
    BY <2>1 DEF VersionInv, SingleVersion
<1> QED
  BY <1>3, <1>4, <1>5

\* A batch of upserts: of one version, to a path nobody else writes another to.
LEMMA UpsertVersion ==
    ASSUME WritersApart, VersionInv, job' = job, NEW t \in Tasks, TaskStep(t),
           NEW b \in SUBSET ChunkIds, NEW left \in SUBSET ChunkIds,
           Batched(t, task[t], task'[t], b, left), task[t].phase = "upsert"
    PROVE  (\A u \in Tasks : VersionOf(u, task'[u], Mine(u)')) /\ SingleVersion'
<1> DEFINE s == task[t]
           n == task'[t]
           x == b \ left
<1>0. /\ OwnInv /\ \A u \in Tasks : VersionOf(u, task[u], Mine(u))
      /\ \A u \in Tasks \ {t} : task'[u] = task[u]
      /\ job \in Mixes /\ WindowInv
  BY TaskOwn DEF VersionInv, Only
<1>1. /\ index' = With(x, job[t].path) /\ n.todo = s.todo \ b /\ x \in SUBSET ChunkIds
      /\ job[t].path \in Paths /\ n.phase = "upsert" /\ n.doc = s.doc /\ n.status = s.status
  BY <1>0, JobTyped DEF Batched
<1>2. /\ VersionOf(t, s, Mine(t)) /\ x \subseteq Writes(t, s)
      /\ job[t].kind \in {"sync", "upload"}
      /\ job[t].kind = "sync" => Mine(t) \subseteq Writes(t, s)
      /\ job[t].kind = "upload" => s.doc = job[t].doc /\ Mine(t) \subseteq Kin(t)
  BY <1>0, JobTyped DEF Batched, VersionOf
<1> HIDE DEF x
<1>3. \A c \in x : c.tag = job[t].tag /\ c.doc = s.doc /\ c.mode = job[t].mode
  BY <1>2 DEF Writes, Yield, ChunksOf
<1>4. \A u \in Tasks : Mine(u)' = IF job[u].path = job[t].path
                                THEN Mine(u) \cup {c \in x : c.tag = job[u].tag} ELSE Mine(u) \ x
  BY <1>0, <1>1, MineWith
<1>5. /\ job[t].kind = "sync" => Mine(t)' \subseteq Writes(t, s)
      /\ job[t].kind = "upload" => Mine(t)' \subseteq Kin(t) /\ x \subseteq Kin(t)
  <2>1. job[t].kind = "upload" => x \subseteq Kin(t)
    BY <1>2 DEF Writes, Yield, ChunksOf, Kin
  <2> QED
    BY <1>2, <1>4, <2>1
<1>6. ASSUME NEW u \in Tasks \ {t} PROVE VersionOf(u, task'[u], Mine(u)')
  <2>1. VersionOf(u, task[u], Mine(u)) /\ task'[u] = task[u]
    BY <1>0
  <2>2. CASE job[u].path # job[t].path \/ job[u].tag # job[t].tag
    <3>1. Mine(u)' \subseteq Mine(u)
      BY <1>3, <1>4, <2>2
    <3> QED
      BY <2>1, <3>1, VersionShrinks
  <2>3. CASE job[u].path = job[t].path /\ job[u].tag = job[t].tag
    <3>1. CASE job[u].kind = "sync"
      <4>1. job[t].kind = "sync"
        BY <1>0, <1>2, <2>3, <3>1 DEF WritersApart
      <4>2. ~Running(u)
        BY <1>0, <2>3, <3>1, <4>1, WindowApart DEF Running
      <4> QED
        BY <2>1, <3>1, <4>2 DEF VersionOf, Running
    <3>2. CASE job[u].kind = "upload"
      <4>1. job[t].kind = "upload" /\ job[t].doc = job[u].doc /\ job[t].mode = job[u].mode
        BY <1>0, <1>2, <2>3, <3>2 DEF WritersApart
      <4>2. Kin(u) = Kin(t) /\ Mine(u)' \subseteq Kin(u)
        BY <1>4, <1>5, <2>1, <2>3, <3>2, <4>1 DEF Kin, VersionOf
      <4> QED
        BY <2>1, <3>2, <4>2 DEF VersionOf
    <3>3. CASE job[u].kind \in {"deleteDoc", "deleteTenant"}
      BY <2>1, <3>3 DEF VersionOf
    <3> QED
      BY <1>0, <3>1, <3>2, <3>3, JobTyped
  <2> QED
    BY <2>2, <2>3
<1>7. VersionOf(t, n, Mine(t)')
  <2>1. Writes(t, n) = Writes(t, s)
    BY <1>1 DEF Writes
  <2> QED
    BY <1>1, <1>2, <1>5, <2>1 DEF VersionOf
<1>8. SingleVersion'
  <2>1. Present' = Present \cup x
    BY <1>0, <1>1, WithPresent
  <2>2. \A c \in ChunkIds : index'[c] = IF c \in x THEN job[t].path ELSE index[c]
    BY <1>1 DEF With
  <2>3. SUFFICES ASSUME NEW c \in Present', NEW e \in Present', c.tag = e.tag, index'[c] = index'[e]
                 PROVE  c.doc = e.doc /\ c.mode = e.mode
    BY DEF SingleVersion
  <2>4. ASSUME index'[c] = job[t].path, c.tag = job[t].tag
        PROVE  c.doc = e.doc /\ c.mode = e.mode
    <3>1. c \in Mine(t)' /\ e \in Mine(t)'
      BY <2>3, <2>4 DEF Mine, At
    <3> QED
      BY <1>2, <1>5, <3>1 DEF Writes, Kin, Yield, ChunksOf
  <2>5. CASE c \in x \/ e \in x
    BY <1>1, <1>3, <2>2, <2>3, <2>4, <2>5
  <2>6. CASE c \notin x /\ e \notin x
    <3>1. c \in Present /\ e \in Present /\ index[c] = index[e]
      BY <2>1, <2>2, <2>3, <2>6 DEF Present
    <3> QED
      BY <2>3, <3>1 DEF VersionInv, SingleVersion
  <2> QED
    BY <2>5, <2>6
<1> QED
  BY <1>6, <1>7, <1>8

\* Every step of a task.
LEMMA StepVersion ==
    ASSUME WritersApart, DeletesServed, VersionInv, job' = job, NEW t \in Tasks, TaskStep(t)
    PROVE  (\A u \in Tasks : VersionOf(u, task'[u], Mine(u)')) /\ SingleVersion'
<1> DEFINE s == task[t]
           n == task'[t]
<1>0. /\ OwnInv /\ \A u \in Tasks : VersionOf(u, task[u], Mine(u))
      /\ \A u \in Tasks \ {t} : task'[u] = task[u]
      /\ job \in Mixes /\ SingleVersion /\ DOMAIN s = Fields
  BY TaskOwn DEF VersionInv, Only, OwnInv
<1>1. ASSUME index' = index, VersionOf(t, n, Mine(t))
      PROVE  (\A u \in Tasks : VersionOf(u, task'[u], Mine(u)')) /\ SingleVersion'
  <2>1. \A u \in Tasks : Mine(u)' = Mine(u)
    BY <1>1, MineSame
  <2>2. SingleVersion'
    BY <1>0, <1>1 DEF SingleVersion, Present
  <2> QED
    BY <1>0, <1>1, <2>1, <2>2
<1>2. CASE Enter(t)
  <2>1. n = [s EXCEPT !.phase = "fetch"] /\ index' = index /\ job[t].kind = "sync" /\ s.phase = "new"
    BY <1>0, <1>2, EnterShape
  <2>2. n.phase = "fetch" /\ n.doc = s.doc /\ n.todo = s.todo /\ n.status = s.status
    BY <1>0, <2>1 DEF Fields
  <2>3. VersionOf(t, n, Mine(t))
    BY <1>0, <2>1, <2>2 DEF VersionOf
  <2> QED
    BY <1>1, <2>1, <2>3
<1>3. CASE \/ Fetch(t) \/ DrainPath(t) \/ BeginUpload(t) \/ BeginDelete(t)
           \/ (PurgeDone(t) /\ t \in Syncs)
           \/ DrainDoc(t) \/ Parse(t) \/ UpsertDone(t)
  <2>1. Moved(t, s, n) /\ index' = index
    BY <1>0, <1>3, MoveShape
  <2>2. VersionOf(t, s, Mine(t))
    BY <1>0
  <2>3. VersionOf(t, n, Mine(t))
    BY <2>1, <2>2 DEF Moved, VersionOf, Writes
  <2> QED
    BY <1>1, <2>1, <2>3
<1>4. CASE (PurgeDone(t) /\ t \notin Syncs) \/ ParseEmpty(t) \/ PruneDone(t) \/ Raise(t)
  <2>1. Ended(t, s, n) /\ index' = index
    BY <1>0, <1>4, EndShape
  <2>2. VersionOf(t, s, Mine(t))
    BY <1>0
  <2>3. VersionOf(t, n, Mine(t))
    BY <2>1, <2>2 DEF Ended, VersionOf
  <2> QED
    BY <1>1, <2>1, <2>3
<1>5. CASE DeleteBatch(t) \/ UpsertBatch(t)
  <2>1. PICK b, left \in SUBSET ChunkIds : Batched(t, s, n, b, left)
    BY <1>0, <1>5, BatchShape
  <2>2. s.phase \in {"purge", "prune"} \/ s.phase = "upsert"
    BY <2>1 DEF Batched
  <2> QED
    BY <2>1, <2>2, DeleteVersion, UpsertVersion
<1> QED
  BY <1>2, <1>3, <1>4, <1>5 DEF TaskStep

\* The invariant of the versions holds at the start.
LEMMA InitVersion == Init => VersionInv
<1> SUFFICES ASSUME Init PROVE VersionInv
  OBVIOUS
<1>1. Present = {} /\ job \in Mixes /\ (\A p, g : At(p, g) = {})
  BY DEF Init, Present, At
<1>2. \A t \in Tasks : /\ task[t].phase = "new" /\ task[t].status = "none" /\ task[t].doc = NoDoc
                       /\ task[t].todo = {} /\ task[t].stale = {} /\ task[t].bad = {}
  BY DEF Init
<1>3. WindowInv
  BY <1>2 DEF Init, WindowInv, Running
<1>4. TypeOK
  BY <1>2 DEF Init, TypeOK, Mutex!Init
<1>5. \A t \in Tasks : VersionOf(t, task[t], Mine(t))
  BY <1>1, <1>2 DEF VersionOf, Mine
<1> QED
  BY <1>1, <1>3, <1>4, <1>5, InitOwn DEF VersionInv, SingleVersion

\* A worker that dies leaves its windows, and its tasks are over.
LEMMA CrashShape ==
    ASSUME OwnInv, NEW q, Crash(q)
    PROVE  /\ UNCHANGED <<index, source, latest>>
           /\ \E dead \in SUBSET Tasks :
                /\ window' = [s \in Slots |-> window[s] \ dead]
                /\ \A t \in Tasks : IF t \notin dead THEN task'[t] = task[t]
                     ELSE /\ task[t].phase \notin {"new", "over"} /\ task'[t].phase = "over"
                          /\ task'[t].status \in {"failed", "cut"} /\ task'[t].doc = task[t].doc
                          /\ task'[t].todo = {} /\ task'[t].stale = {} /\ task'[t].bad = {}
<1> DEFINE dead == {t \in Tasks : job[t].proc = q /\ Running(t)}
<1>1. /\ dead \in SUBSET Tasks /\ window' = [s \in Slots |-> window[s] \ dead]
      /\ UNCHANGED <<index, source, latest>>
  BY DEF Crash, Mutex!Leave
<1>2. ASSUME NEW t \in dead
      PROVE  /\ task[t].phase \notin {"new", "over"} /\ task'[t].phase = "over"
             /\ task'[t].status \in {"failed", "cut"} /\ task'[t].doc = task[t].doc
             /\ task'[t].todo = {} /\ task'[t].stale = {} /\ task'[t].bad = {}
  <2>1. /\ DOMAIN task[t] = Fields
        /\ task'[t] = [task[t] EXCEPT !.phase = "over",
                          !.status = IF task[t].phase = "prune" THEN "cut" ELSE "failed",
                          !.todo = {}, !.stale = {}, !.bad = {}]
    BY DEF Crash, OwnInv
  <2> QED
    BY <2>1 DEF Fields, Running
<1>3. \A t \in Tasks : t \notin dead => task'[t] = task[t]
  BY DEF Crash
<1> QED
  BY <1>1, <1>2, <1>3

\* The invariant of the versions is inductive.
LEMMA NextVersion == WritersApart /\ DeletesServed /\ VersionInv /\ [Next]_vars => VersionInv'
<1> SUFFICES ASSUME WritersApart, DeletesServed, VersionInv, [Next]_vars PROVE VersionInv'
  OBVIOUS
<1>0. /\ OwnInv' /\ TypeOK' /\ job' = job /\ job \in Mixes /\ OwnInv /\ WindowInv
      /\ \A u \in Tasks : VersionOf(u, task[u], Mine(u))
      /\ \A u \in Tasks : SlotOf(u)' = SlotOf(u) /\ SlotOf(u) \in Slots
  BY NextOwn, NextType, JobTyped DEF VersionInv, Next, vars, SlotOf
<1>1. SUFFICES /\ \A u \in Tasks : VersionOf(u, task'[u], Mine(u)')
               /\ SingleVersion' /\ WindowInv'
  <2>1. \A u \in Tasks : VersionOf(u, task'[u], Mine(u)') => VersionOf(u, task[u], Mine(u))'
    BY <1>0 DEF VersionOf, Writes, Kin, Yield, ChunksOf
  <2> QED
    BY <1>0, <1>1, <2>1 DEF VersionInv
<1>2. index' = index => SingleVersion' /\ \A u \in Tasks : Mine(u)' = Mine(u)
  BY <1>0, MineSame DEF VersionInv, SingleVersion, Present
<1>3. CASE UNCHANGED vars
  BY <1>0, <1>2, <1>3 DEF vars, WindowInv, Running
<1>4. ASSUME NEW t \in Tasks, TaskStep(t)
      PROVE  (\A u \in Tasks : VersionOf(u, task'[u], Mine(u)')) /\ SingleVersion' /\ WindowInv'
  BY <1>0, <1>4, StepVersion, StepWindow DEF VersionInv
<1>5. ASSUME NEW q, NEW d, Edit(q, d)
      PROVE  (\A u \in Tasks : VersionOf(u, task'[u], Mine(u)')) /\ SingleVersion' /\ WindowInv'
  <2>1. UNCHANGED <<index, task, window, latest>>
    BY <1>5 DEF Edit
  <2> QED
    BY <1>0, <1>2, <2>1 DEF WindowInv, Running
<1>6. ASSUME NEW q, Crash(q)
      PROVE  (\A u \in Tasks : VersionOf(u, task'[u], Mine(u)')) /\ SingleVersion' /\ WindowInv'
  <2>1. /\ UNCHANGED <<index, latest>>
        /\ \E dead \in SUBSET Tasks :
                /\ window' = [s \in Slots |-> window[s] \ dead]
                /\ \A t \in Tasks : IF t \notin dead THEN task'[t] = task[t]
                     ELSE /\ task[t].phase \notin {"new", "over"} /\ task'[t].phase = "over"
                          /\ task'[t].status \in {"failed", "cut"} /\ task'[t].doc = task[t].doc
    BY <1>0, <1>6, CrashShape
  <2>2. PICK dead \in SUBSET Tasks :
                /\ window' = [s \in Slots |-> window[s] \ dead]
                /\ \A t \in Tasks : IF t \notin dead THEN task'[t] = task[t]
                     ELSE /\ task[t].phase \notin {"new", "over"} /\ task'[t].phase = "over"
                          /\ task'[t].status \in {"failed", "cut"} /\ task'[t].doc = task[t].doc
    BY <2>1
  <2>3. ASSUME NEW u \in Tasks PROVE VersionOf(u, task'[u], Mine(u)')
    <3>1. Mine(u)' = Mine(u) /\ VersionOf(u, task[u], Mine(u))
      BY <1>0, <1>2, <2>1
    <3>2. CASE u \in dead
      BY <2>2, <3>1, <3>2 DEF VersionOf
    <3>3. CASE u \notin dead
      BY <2>2, <3>1, <3>3
    <3> QED
      BY <3>2, <3>3
  <2>4. \A u \in Tasks : Running(u)' => Running(u) /\ u \notin dead
    BY <2>2 DEF Running
  <2>5. WindowInv'
    BY <1>0, <2>1, <2>2, <2>4 DEF WindowInv
  <2> QED
    BY <1>2, <2>1, <2>3, <2>5
<1> QED
  BY <1>3, <1>4, <1>5, <1>6 DEF Next

\* At no instant does a path of a tenant show chunks of two versions of its file
\* (core.py, _ingest_with_single_flight: the delete and the upload of an item are inside
\* its lock), for any tasks whose writers stand apart, any contents, batch size and
\* faults but a batch of deletes served in part.
THEOREM SpecSingleVersion ==
    ASSUME WritersApart, DeletesServed PROVE Spec => [](TypeOK /\ SingleVersion)
<1>1. VersionInv /\ [Next]_vars => VersionInv'
  BY NextVersion
<1>2. VersionInv => TypeOK /\ SingleVersion
  BY DEF VersionInv
<1> QED
  BY <1>1, <1>2, InitVersion, PTL DEF Spec

-----------------------------------------------------------------------------
\* The newest version, once its run succeeded.

\* What one task is to keep for itself, and how.
Replaces(t, s, mine, last) == ReplaceOf(t, s, mine) /\ Replaced(t, s, mine, last)

\* Chunks of contents at another path, or of another tenant, are not in the way; and
\* where a task writes or deletes, no other task has anything to keep.
LEMMA OthersReplace ==
    ASSUME WritersApart, ContentsApart, ReplaceInv, AllSyncs, job' = job, UNCHANGED latest,
           NEW t \in Tasks, Running(t), NEW x \in SUBSET ChunkIds,
           \A c \in x : c.tag = job[t].tag /\ c.doc \in Contents[job[t].path],
           index' = Without(x) \/ index' = With(x, job[t].path),
           NEW u \in Tasks \ {t}, task'[u] = task[u]
    PROVE  Replaces(u, task'[u], Mine(u)', latest'[job[u].path][job[u].tag])
<1>0. /\ OwnInv /\ WindowInv /\ job \in Mixes
      /\ \A v \in Tasks : job[v].kind = "sync" /\ job[v].path \in Paths
      /\ ReplaceOf(u, task[u], Mine(u))
      /\ Replaced(u, task[u], Mine(u), latest[job[u].path][job[u].tag])
  BY JobTyped DEF ReplaceInv, VersionInv, AllSyncs
<1>1. Mine(u)' = IF index' = Without(x) THEN Mine(u) \ x
                 ELSE IF job[u].path = job[t].path THEN Mine(u) \cup {c \in x : c.tag = job[u].tag}
                 ELSE Mine(u) \ x
  BY <1>0, MineWith, MineWithout
<1>2. \A c \in Mine(u) : c.tag = job[u].tag /\ c.doc \in Contents[job[u].path]
  BY DEF ReplaceInv, Mine, At
<1>3. CASE job[u].path = job[t].path /\ job[u].tag = job[t].tag
  <2>1. ~Running(u) /\ latest[job[u].path][job[u].tag] = t
    BY <1>0, <1>3, WindowApart DEF WindowInv
  <2>2. task[u].phase \in {"new", "over"}
    BY <2>1 DEF Running
  <2> QED
    BY <1>0, <2>1, <2>2 DEF Replaces, ReplaceOf, Replaced
<1>4. CASE job[u].path # job[t].path \/ job[u].tag # job[t].tag
  <2>1. \A c \in x : c \notin Mine(u)
    BY <1>0, <1>2, <1>4 DEF ContentsApart
  <2>2. Mine(u)' = Mine(u)
    BY <1>1, <1>4, <2>1
  <2> QED
    BY <1>0, <2>2 DEF Replaces
<1> QED
  BY <1>3, <1>4

\* One batch, for the task whose batch it is and for the index.
LEMMA BatchReplace ==
    ASSUME DeletesServed, ReplaceInv, AllSyncs, job' = job, UNCHANGED latest,
           NEW t \in Tasks, NEW b \in SUBSET ChunkIds, NEW left \in SUBSET ChunkIds,
           Batched(t, task[t], task'[t], b, left)
    PROVE  /\ Replaces(t, task'[t], Mine(t)', latest'[job[t].path][job[t].tag])
           /\ \A c \in Present' : c.doc \in Contents[index'[c]]
           /\ \A c \in b : c.tag = job[t].tag /\ c.doc \in Contents[job[t].path]
<1> DEFINE s == task[t]
           n == task'[t]
           x == b \ left
<1>0. /\ OwnInv /\ job[t].path \in Paths /\ x \in SUBSET ChunkIds
      /\ \A c \in Present : c.doc \in Contents[index[c]]
      /\ ReplaceOf(t, s, Mine(t)) /\ VersionOf(t, s, Mine(t)) /\ s.todo \subseteq Own(t)
  BY JobTyped DEF ReplaceInv, VersionInv, OwnInv
<1>1. b \subseteq s.todo /\ \A c \in b : c.tag = job[t].tag /\ c.doc \in Contents[job[t].path]
  BY <1>0 DEF Batched, ReplaceOf, Own
<1>2. /\ n.phase = s.phase /\ n.doc = s.doc /\ n.status = s.status /\ n.stale = s.stale
      /\ n.todo = s.todo \ b /\ Writes(t, n) = Writes(t, s)
      /\ s.phase \in {"purge", "prune", "upsert"} /\ s.status = "none"
  BY <1>0 DEF Batched, Writes, VersionOf
<1>3. CASE s.phase # "upsert"
  <2>1. n.bad = s.bad /\ index' = Without(b \ left)
    BY <1>3 DEF Batched
  <2>2. Mine(t)' = Mine(t) \ x
    BY <1>0, <2>1, MineWithout
  <2>3. Replaces(t, n, Mine(t)', latest'[job[t].path][job[t].tag])
    BY <1>0, <1>1, <1>2, <1>3, <2>1, <2>2 DEF Replaces, ReplaceOf, Replaced
  <2>4. Present' = Present \ x /\ \A c \in Present \ x : index'[c] = index[c]
    BY <1>0, <2>1, WithoutPresent DEF Without, Present
  <2> QED
    BY <1>0, <1>1, <2>3, <2>4
<1>4. CASE s.phase = "upsert"
  <2>1. n.bad = s.bad \cup left /\ index' = With(x, job[t].path)
    BY <1>4 DEF Batched
  <2>2. Mine(t)' = Mine(t) \cup {c \in x : c.tag = job[t].tag}
    BY <1>0, <2>1, MineWith
  <2>3. Mine(t)' = Mine(t) \cup x
    BY <1>1, <2>2
  <2>4. Writes(t, n) \ (n.todo \cup n.bad) \subseteq Mine(t)'
    BY <1>0, <1>2, <1>4, <2>1, <2>3 DEF ReplaceOf
  <2>5. Replaces(t, n, Mine(t)', latest'[job[t].path][job[t].tag])
    BY <1>0, <1>1, <1>2, <1>4, <2>4 DEF Replaces, ReplaceOf, Replaced
  <2>6. Present' = Present \cup x
        /\ \A c \in ChunkIds : index'[c] = IF c \in x THEN job[t].path ELSE index[c]
    BY <1>0, <2>1, WithPresent DEF With
  <2>7. \A c \in Present' : c.doc \in Contents[index'[c]]
    BY <1>0, <1>1, <2>6 DEF Present
  <2> QED
    BY <1>1, <2>5, <2>7
<1> QED
  BY <1>3, <1>4

\* Every step of a task.
LEMMA StepReplace ==
    ASSUME WritersApart, DeletesServed, ContentsApart, ReplaceInv, AllSyncs, job' = job,
           NEW t \in Tasks, TaskStep(t)
    PROVE  /\ \A u \in Tasks : Replaces(u, task'[u], Mine(u)', latest'[job[u].path][job[u].tag])
           /\ \A c \in Present' : c.doc \in Contents[index'[c]]
<1> DEFINE s == task[t]
           n == task'[t]
           L(u) == latest[job[u].path][job[u].tag]
           M(u) == latest'[job[u].path][job[u].tag]
<1>0. /\ OwnInv /\ WindowInv /\ DOMAIN s = Fields /\ job[t].kind = "sync" /\ job[t].path \in Paths
      /\ \A c \in Present : c.doc \in Contents[index[c]]
      /\ source[job[t].path] \in Contents[job[t].path]
      /\ \A u \in Tasks : ReplaceOf(u, task[u], Mine(u)) /\ Replaced(u, task[u], Mine(u), L(u))
      /\ \A u \in Tasks \ {t} : task'[u] = task[u]
      /\ \A u \in Tasks : VersionOf(u, task[u], Mine(u)) /\ job[u].path \in Paths /\ job[u].tag \in Tags
      /\ t \in Syncs
  BY TaskOwn, JobTyped DEF ReplaceInv, VersionInv, OwnInv, AllSyncs, Only, Syncs
<1>1. ASSUME index' = index, \A u \in Tasks : M(u) \in {L(u), t}, Replaces(t, n, Mine(t), M(t))
      PROVE  /\ \A u \in Tasks : Replaces(u, task'[u], Mine(u)', M(u))
             /\ \A c \in Present' : c.doc \in Contents[index'[c]]
  <2>1. (\A u \in Tasks : Mine(u)' = Mine(u)) /\ Present' = Present
    BY <1>1, MineSame DEF Present
  <2>2. ASSUME NEW u \in Tasks \ {t} PROVE Replaces(u, task'[u], Mine(u), M(u))
    BY <1>0, <1>1 DEF Replaces, Replaced
  <2> QED
    BY <1>0, <1>1, <2>1, <2>2
<1>2. CASE Enter(t)
  <2>1. /\ n = [s EXCEPT !.phase = "fetch"] /\ index' = index /\ s.phase = "new"
        /\ latest' = [latest EXCEPT ![job[t].path][job[t].tag] = t]
    BY <1>0, <1>2, EnterShape
  <2>2. n.phase = "fetch" /\ n.todo = s.todo /\ n.stale = s.stale /\ n.status = s.status
    BY <1>0, <2>1 DEF Fields
  <2>3. Replaces(t, n, Mine(t), M(t))
    BY <1>0, <2>1, <2>2 DEF Replaces, ReplaceOf, Replaced, VersionOf
  <2>4. ASSUME NEW u \in Tasks PROVE M(u) \in {L(u), t}
    BY <1>0, <2>1 DEF WindowInv
  <2> QED
    BY <1>1, <2>1, <2>3, <2>4
<1>3. CASE \/ Fetch(t) \/ DrainPath(t) \/ BeginUpload(t) \/ BeginDelete(t)
           \/ (PurgeDone(t) /\ t \in Syncs)
           \/ DrainDoc(t) \/ Parse(t) \/ UpsertDone(t)
  <2>1. Moved(t, s, n) /\ index' = index /\ latest' = latest
    BY <1>0, <1>3, MoveShape
  <2>2. ReplaceOf(t, s, Mine(t)) /\ VersionOf(t, s, Mine(t))
    BY <1>0
  <2>3. /\ \A c \in Mine(t) : c.doc \in Contents[job[t].path]
        /\ \A c \in DocFilter(s.doc, job[t].tag) : c.doc = s.doc
        /\ \A c \in Writes(t, s) : c.doc = s.doc
        /\ n.doc = s.doc => Writes(t, n) = Writes(t, s)
    BY <1>0 DEF Mine, At, DocFilter, Writes, Yield, ChunksOf
  <2>4. n.status = "none"
    BY <2>1, <2>2 DEF Moved, VersionOf
  <2>5. ReplaceOf(t, n, Mine(t))
    BY <1>0, <2>1, <2>2, <2>3 DEF Moved, ReplaceOf
  <2> QED
    BY <1>1, <2>1, <2>4, <2>5 DEF Replaces, Replaced
<1>4. CASE (PurgeDone(t) /\ t \notin Syncs) \/ ParseEmpty(t) \/ PruneDone(t) \/ Raise(t)
  <2>1. Ended(t, s, n) /\ index' = index /\ latest' = latest
    BY <1>0, <1>4, EndShape
  <2>2. ReplaceOf(t, s, Mine(t)) /\ VersionOf(t, s, Mine(t))
    BY <1>0
  <2>3. n.status = "successful" => Mine(t) = Writes(t, s) /\ Writes(t, n) = Writes(t, s)
    BY <1>0, <2>1, <2>2 DEF Ended, ReplaceOf, VersionOf, Writes
  <2>4. Replaces(t, n, Mine(t), M(t))
    BY <2>1, <2>3 DEF Ended, Replaces, ReplaceOf, Replaced
  <2> QED
    BY <1>1, <2>1, <2>4
<1>5. CASE DeleteBatch(t) \/ UpsertBatch(t)
  <2>1. latest' = latest /\ \E b, left \in SUBSET ChunkIds : Batched(t, s, n, b, left)
    BY <1>0, <1>5, BatchShape
  <2>2. PICK b, left \in SUBSET ChunkIds : Batched(t, s, n, b, left)
    BY <2>1
  <2>3. /\ Replaces(t, n, Mine(t)', M(t))
        /\ \A c \in Present' : c.doc \in Contents[index'[c]]
        /\ \A c \in b : c.tag = job[t].tag /\ c.doc \in Contents[job[t].path]
    BY <2>1, <2>2, BatchReplace
  <2> DEFINE x == b \ left
  <2>4. /\ x \in SUBSET ChunkIds /\ \A c \in x : c.tag = job[t].tag /\ c.doc \in Contents[job[t].path]
        /\ index' = Without(x) \/ index' = With(x, job[t].path)
        /\ Running(t)
    BY <2>2, <2>3 DEF Batched, Running
  <2> HIDE DEF x
  <2>5. ASSUME NEW u \in Tasks \ {t} PROVE Replaces(u, task'[u], Mine(u)', M(u))
    BY <1>0, <2>1, <2>4, OthersReplace
  <2> QED
    BY <2>3, <2>5
<1> QED
  BY <1>2, <1>3, <1>4, <1>5 DEF TaskStep

\* The invariant of the replacements holds at the start.
LEMMA InitReplace == Init => ReplaceInv
<1> SUFFICES ASSUME Init PROVE ReplaceInv
  OBVIOUS
<1>1. Present = {} /\ job \in Mixes /\ \A p \in Paths : source[p] \in Contents[p]
  BY DEF Init, Present
<1>2. \A t \in Tasks : /\ task[t].phase = "new" /\ task[t].status = "none"
                       /\ task[t].todo = {} /\ task[t].stale = {}
  BY DEF Init
<1> QED
  BY <1>1, <1>2, InitVersion DEF ReplaceInv, ReplaceOf, Replaced

\* The invariant of the replacements is inductive.
LEMMA NextReplace ==
    WritersApart /\ DeletesServed /\ ContentsApart /\ ReplaceInv /\ [Next]_vars => ReplaceInv'
<1> SUFFICES ASSUME WritersApart, DeletesServed, ContentsApart, ReplaceInv, [Next]_vars
             PROVE  ReplaceInv'
  OBVIOUS
<1> DEFINE M(u) == latest'[job[u].path][job[u].tag]
<1>0. VersionInv' /\ job' = job /\ OwnInv
  BY NextVersion DEF ReplaceInv, VersionInv, Next, vars
<1>1. CASE ~AllSyncs
  BY <1>0, <1>1 DEF ReplaceInv, AllSyncs
<1>2. CASE AllSyncs
  <2>0. /\ \A u \in Tasks : ReplaceOf(u, task[u], Mine(u))
        /\ \A u \in Tasks : Replaced(u, task[u], Mine(u), latest[job[u].path][job[u].tag])
        /\ \A c \in Present : c.doc \in Contents[index[c]]
        /\ \A p \in Paths : source[p] \in Contents[p]
        /\ TypeOK
    BY <1>2 DEF ReplaceInv, VersionInv
  <2>1. SUFFICES /\ \A u \in Tasks : Replaces(u, task'[u], Mine(u)', M(u))
                 /\ \A c \in Present' : c.doc \in Contents[index'[c]]
                 /\ \A p \in Paths : source'[p] \in Contents[p]
    <3>1. \A u \in Tasks : Replaces(u, task'[u], Mine(u)', M(u)) =>
              /\ ReplaceOf(u, task[u], Mine(u))'
              /\ Replaced(u, task[u], Mine(u), latest[job[u].path][job[u].tag])'
      BY <1>0 DEF Replaces, ReplaceOf, Replaced, Writes, Yield, ChunksOf
    <3> QED
      BY <1>0, <2>1, <3>1 DEF ReplaceInv
  <2>2. index' = index => Present' = Present /\ \A u \in Tasks : Mine(u)' = Mine(u)
    BY <1>0, MineSame DEF Present
  <2>3. CASE UNCHANGED vars
    BY <2>0, <2>2, <2>3 DEF vars, Replaces
  <2>4. ASSUME NEW t \in Tasks, TaskStep(t)
        PROVE  /\ \A u \in Tasks : Replaces(u, task'[u], Mine(u)', M(u))
               /\ \A c \in Present' : c.doc \in Contents[index'[c]]
               /\ \A p \in Paths : source'[p] \in Contents[p]
    <3>1. source' = source
      BY <2>0, <2>4, StepTyped DEF ReplaceInv, VersionInv
    <3> QED
      BY <1>0, <1>2, <2>0, <2>4, <3>1, StepReplace
  <2>5. ASSUME NEW q \in Paths, NEW d \in Docs, Edit(q, d)
        PROVE  /\ \A u \in Tasks : Replaces(u, task'[u], Mine(u)', M(u))
               /\ \A c \in Present' : c.doc \in Contents[index'[c]]
               /\ \A p \in Paths : source'[p] \in Contents[p]
    <3>1. UNCHANGED <<index, task, latest>> /\ source' = [source EXCEPT ![q] = d] /\ d \in Contents[q]
      BY <2>5 DEF Edit
    <3>2. \A p \in Paths : source'[p] \in Contents[p]
      BY <2>0, <3>1 DEF TypeOK
    <3> QED
      BY <2>0, <2>2, <3>1, <3>2 DEF Replaces
  <2>6. ASSUME NEW q, Crash(q)
        PROVE  /\ \A u \in Tasks : Replaces(u, task'[u], Mine(u)', M(u))
               /\ \A c \in Present' : c.doc \in Contents[index'[c]]
               /\ \A p \in Paths : source'[p] \in Contents[p]
    <3>1. /\ UNCHANGED <<index, source, latest>>
          /\ \A u \in Tasks :
               \/ task'[u] = task[u]
               \/ /\ task'[u].phase = "over" /\ task'[u].status \in {"failed", "cut"}
                  /\ task'[u].todo = {} /\ task'[u].stale = {}
      BY <1>0, <2>6, CrashShape
    <3>2. ASSUME NEW u \in Tasks PROVE Replaces(u, task'[u], Mine(u), M(u))
      BY <2>0, <3>1 DEF Replaces, ReplaceOf, Replaced
    <3> QED
      BY <2>0, <2>2, <3>1, <3>2
  <2> QED
    BY <2>3, <2>4, <2>5, <2>6 DEF Next
<1> QED
  BY <1>1, <1>2

\* A path of a tenant shows one version at a time, and among syncs exactly the content
\* that its latest run fetched once that run succeeded, whatever earlier runs left
\* behind ("an edited file fully replaces its prior chunks").  Beyond what
\* SpecSingleVersion takes for granted, no two paths hold the same content.
THEOREM SpecVersionsReplace ==
    ASSUME WritersApart, DeletesServed, ContentsApart PROVE Spec => []VersionsReplace
<1>1. ReplaceInv /\ [Next]_vars => ReplaceInv'
  BY NextReplace
<1>2. ReplaceInv => VersionsReplace
  <2> SUFFICES ASSUME ReplaceInv PROVE VersionsReplace
    OBVIOUS
  <2>1. ASSUME AllSyncs, NEW p \in Paths, NEW g \in Tags, latest[p][g] # "none",
               task[latest[p][g]].status = "successful"
        PROVE  {c \in Present : index[c] = p /\ c.tag = g} = Written(latest[p][g])
    <3> DEFINE u == latest[p][g]
    <3>1. u \in Tasks /\ job[u].path = p /\ job[u].tag = g
      BY <2>1 DEF ReplaceInv, VersionInv, WindowInv
    <3>2. Replaced(u, task[u], Mine(u), latest[job[u].path][job[u].tag])
      BY <2>1, <3>1 DEF ReplaceInv
    <3> HIDE DEF u
    <3>3. Mine(u) = Writes(u, task[u])
      BY <2>1, <3>1, <3>2 DEF Replaced, u
    <3>4. {c \in Present : index[c] = p /\ c.tag = g} = Written(u)
      BY <3>1, <3>3 DEF Mine, At, Writes, Written
    <3> QED
      BY <3>4 DEF u
  <2>2. EditReplaces
    BY <2>1 DEF EditReplaces, AllSyncs
  <2> QED
    BY <2>2 DEF VersionsReplace, ReplaceInv, VersionInv
<1> QED
  BY <1>1, <1>2, InitReplace, PTL DEF Spec
=================================================================================
