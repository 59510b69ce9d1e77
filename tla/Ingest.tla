-------------------------------- MODULE Ingest --------------------------------
(***************************************************************************)
(* What ingestion does to the search index.  Tasks run concurrently: one   *)
(* item of a connector run (services/ingestion/connectors/core.py, inside  *)
(* the window KeyedMutex promises and SingleFlight implements), an         *)
(* /upload request (custom_rag.py, upload), an admin delete of a document  *)
(* or of a tenant (admin/search_admin_service.py).  The index (Azure AI    *)
(* Search) is external: each call on it takes effect at one instant, may   *)
(* raise, and may serve a batch only in part.                              *)
(***************************************************************************)
EXTENDS Naturals, FiniteSets

CONSTANTS
    Tasks,     \* the ingestion work, each done once
    Mixes,     \* what the tasks may be: functions from Tasks to records
               \* [kind, proc, tag, path, mode, doc, most]: doc is unused by a
               \* sync, most is how many chunks its parse yields at most
    Procs, Paths, Tags, Docs, Modes,
    Size,      \* Size[d][m]: chunks the content d yields in mode m
    Contents,  \* Contents[p]: the contents the source may hold at path p
    BatchSize, \* actions per indexing batch
    Faults,    \* which faults occur
    NoPath, NoDoc

FaultKinds == {"raise", "crash", "degraded", "emptyParse", "partialDelete"}

ASSUME BatchSizePos == BatchSize \in Nat \ {0}
ASSUME FaultsKnown == Faults \subseteq FaultKinds
ASSUME MixesTyped ==
    \A mix \in Mixes : \A t \in Tasks :
        /\ mix[t].kind \in {"sync", "upload", "deleteDoc", "deleteTenant"}
        /\ mix[t].proc \in Procs /\ mix[t].path \in Paths /\ mix[t].tag \in Tags
        /\ mix[t].mode \in Modes /\ mix[t].doc \in Docs \cup {NoDoc}
        /\ mix[t].most \in Nat
ASSUME ContentsTyped == \A p \in Paths : Contents[p] \subseteq Docs
ASSUME NoPathFresh == NoPath \notin Paths
ASSUME NoDocFresh == NoDoc \notin Docs

VARIABLES
    job,     \* the mix this behaviour is about
    index,   \* the source_path of every chunk in the index, NoPath if absent
    source,  \* what the connector's source holds at each path
    task,    \* [phase, doc, todo, stale, bad, status] of every task
    window,  \* the tasks inside the single-flight window of each slot
    latest   \* history: the last task to enter each slot's window

vars == <<job, index, source, task, window, latest>>

Slots == Procs \X Paths \X Tags
Mutex == INSTANCE KeyedMutex WITH Runs <- Tasks

Syncs == {t \in Tasks : job[t].kind = "sync"}
SlotOf(t) == <<job[t].proc, job[t].path, job[t].tag>>
Running(t) == task[t].phase \notin {"new", "over"}

-----------------------------------------------------------------------------
\* Chunk ids are f"{tag}_{document_id}_{fr_mode}_{i}"; document_id hashes the
\* content alone, so equal files of two tenants differ in the tag only.
ChunkIds == UNION {[tag : Tags, doc : {d}, mode : {m}, n : 1..Size[d][m]] : d \in Docs, m \in Modes}

ChunksOf(g, d, m) == {c \in ChunkIds : c.tag = g /\ c.doc = d /\ c.mode = m}

\* What the parse of task t makes of content d.  Two parses of one content may
\* differ: in the mode, which is part of the ids, and in the number of chunks.
Yield(t, d) == {c \in ChunksOf(job[t].tag, d, job[t].mode) : c.n <= job[t].most}
Written(t) == Yield(t, task[t].doc)

Present == {c \in ChunkIds : index[c] # NoPath}

\* Faulty form: the filter without its bot_tag clause.
DocFilterUntagged(d, g) == {c \in Present : c.doc = d}

\* _document_tag_filter: every mode's chunks of one document of one tenant.
DocFilter(d, g) == {c \in Present : c.doc = d /\ c.tag = g}

\* delete_by_source_path's filter.
PathFilter(p, t) == {c \in Present : index[c] = p /\ c.tag = job[t].tag}

Without(C) == [c \in ChunkIds |-> IF c \in C THEN NoPath ELSE index[c]]
With(C, p) == [c \in ChunkIds |-> IF c \in C THEN p ELSE index[c]]

\* The next batch of at most BatchSize actions.
Batches(C) ==
    {b \in SUBSET C : Cardinality(b) = IF Cardinality(C) < BatchSize
                                       THEN Cardinality(C) ELSE BatchSize}

\* What a batch may leave undone although the call returns: the code's comment
\* on the 207 of a partially served batch.
Unserved(b, fault) == IF fault \in Faults THEN SUBSET b ELSE {{}}

Over(t, st) ==
    /\ task' = [task EXCEPT ![t].phase = "over", ![t].status = st,
                            ![t].todo = {}, ![t].stale = {}, ![t].bad = {}]
    /\ Mutex!Leave({t})

-----------------------------------------------------------------------------
Init ==
    /\ job \in Mixes
    /\ index = [c \in ChunkIds |-> NoPath]
    /\ source \in {f \in [Paths -> Docs] : \A p \in Paths : f[p] \in Contents[p]}
    /\ task = [t \in Tasks |-> [phase |-> "new", doc |-> NoDoc, todo |-> {},
                                stale |-> {}, bad |-> {}, status |-> "none"]]
    /\ Mutex!Init
    /\ latest = [p \in Paths |-> [g \in Tags |-> "none"]]

\* Somebody edits a file at the source.
Edit(p, d) ==
    /\ d \in Contents[p] \ {source[p]}
    /\ source' = [source EXCEPT ![p] = d]
    /\ UNCHANGED <<index, task, window, latest>>

\* Faulty form: the delete and the upload run outside the lock.
EnterUnlocked(t) ==
    /\ t \in Syncs
    /\ task[t].phase = "new"
    /\ UNCHANGED window
    /\ task' = [task EXCEPT ![t].phase = "fetch"]
    /\ latest' = [latest EXCEPT ![job[t].path][job[t].tag] = t]
    /\ UNCHANGED <<index, source>>

\* A connector run reaches the item and gets the item's lock.
Enter(t) ==
    /\ t \in Syncs
    /\ task[t].phase = "new"
    /\ Mutex!Enter(t, SlotOf(t))
    /\ task' = [task EXCEPT ![t].phase = "fetch"]
    /\ latest' = [latest EXCEPT ![job[t].path][job[t].tag] = t]
    /\ UNCHANGED <<index, source>>

\* connector.fetch: the content as it is now; document_id is its hash.
Fetch(t) ==
    /\ task[t].phase = "fetch"
    /\ task' = [task EXCEPT ![t].phase = "drainPath", ![t].doc = source[job[t].path]]
    /\ UNCHANGED <<index, source, window, latest>>

\* delete_by_source_path collects every id before it deletes any.
DrainPath(t) ==
    /\ task[t].phase = "drainPath"
    /\ task' = [task EXCEPT ![t].phase = "purge",
                            ![t].todo = PathFilter(job[t].path, t)]
    /\ UNCHANGED <<index, source, window, latest>>

\* An /upload request is read: its content is fixed from here on.
BeginUpload(t) ==
    /\ job[t].kind = "upload" /\ task[t].phase = "new"
    /\ task' = [task EXCEPT ![t].phase = "drainDoc", ![t].doc = job[t].doc]
    /\ UNCHANGED <<index, source, window, latest>>

\* delete_document and delete_tenant drain all ids of their scope, then delete.
BeginDelete(t) ==
    /\ job[t].kind \in {"deleteDoc", "deleteTenant"} /\ task[t].phase = "new"
    /\ task' = [task EXCEPT ![t].phase = "purge", ![t].doc = job[t].doc,
           ![t].todo = IF job[t].kind = "deleteDoc"
                       THEN DocFilter(job[t].doc, job[t].tag)
                       ELSE {c \in Present : c.tag = job[t].tag}]
    /\ UNCHANGED <<index, source, window, latest>>

\* One delete_documents call; the per-document results are not looked at.
DeleteBatch(t) ==
    /\ task[t].phase \in {"purge", "prune"}
    /\ \E b \in Batches(task[t].todo) \ {{}} : \E left \in Unserved(b, "partialDelete") :
          /\ index' = Without(b \ left)
          /\ task' = [task EXCEPT ![t].todo = @ \ b]
    /\ UNCHANGED <<source, window, latest>>

\* The last batch is through: a sync goes on to upload(), a delete is done.
PurgeDone(t) ==
    /\ task[t].phase = "purge" /\ task[t].todo = {}
    /\ IF t \in Syncs
       THEN task' = [task EXCEPT ![t].phase = "drainDoc"] /\ UNCHANGED window
       ELSE Over(t, "deleted")
    /\ UNCHANGED <<index, source, latest>>

\* upload() enumerates the prior chunks of the document; a failure here is
\* swallowed and leaves the list empty.
DrainDoc(t) ==
    /\ task[t].phase = "drainDoc"
    /\ \E found \in {DocFilter(task[t].doc, job[t].tag)}
                    \cup (IF "raise" \in Faults THEN {{}} ELSE {}) :
          task' = [task EXCEPT ![t].phase = "parse", ![t].stale = found]
    /\ UNCHANGED <<index, source, window, latest>>

\* Extraction, chunking and embedding yield nothing: no write, no prune.
ParseEmpty(t) ==
    /\ task[t].phase = "parse" /\ "emptyParse" \in Faults
    /\ Over(t, "empty")
    /\ UNCHANGED <<index, source, latest>>

\* ... or the chunks of the content in the task's mode.
Parse(t) ==
    /\ task[t].phase = "parse"
    /\ task' = [task EXCEPT ![t].phase = "upsert", ![t].todo = Written(t)]
    /\ UNCHANGED <<index, source, window, latest>>

\* One merge_or_upload_documents call: per-document results are collected, and
\* the chunk takes the writer's source_path.
UpsertBatch(t) ==
    /\ task[t].phase = "upsert"
    /\ \E b \in Batches(task[t].todo) \ {{}} : \E left \in Unserved(b, "degraded") :
          /\ index' = With(b \ left, job[t].path)
          /\ task' = [task EXCEPT ![t].todo = @ \ b, ![t].bad = @ \cup left]
    /\ UNCHANGED <<source, window, latest>>

\* Faulty form: every stale id is pruned, the chunks just written included.
UpsertDonePruningAll(t) ==
    /\ task[t].phase = "upsert" /\ task[t].todo = {}
    /\ task' = [task EXCEPT ![t].phase = "prune", ![t].todo = task[t].stale, ![t].stale = {}]
    /\ UNCHANGED <<index, source, window, latest>>

\* to_delete: the stale ids the upsert did not write.
UpsertDone(t) ==
    /\ task[t].phase = "upsert" /\ task[t].todo = {}
    /\ task' = [task EXCEPT ![t].phase = "prune", ![t].todo = task[t].stale \ Written(t),
                            ![t].stale = {}]
    /\ UNCHANGED <<index, source, window, latest>>

\* upload() returns: "degraded" when a chunk was refused.  An exception in the
\* prune is swallowed, so it ends here with ids left over too.
PruneDone(t) ==
    /\ task[t].phase = "prune"
    /\ task[t].todo = {} \/ "raise" \in Faults
    /\ Over(t, IF task[t].bad = {} THEN "successful" ELSE "degraded")
    /\ UNCHANGED <<index, source, latest>>

\* A call raises and the task fails where it stands.
Raise(t) ==
    /\ "raise" \in Faults
    /\ \/ task[t].phase \in {"fetch", "drainPath", "parse"}
       \/ task[t].phase \in {"purge", "upsert"} /\ task[t].todo # {}
    /\ Over(t, "failed")
    /\ UNCHANGED <<index, source, latest>>

\* A worker process dies with everything it was doing; a task that was pruning
\* is cut short with its own chunks written.
Crash(p) ==
    LET dead == {t \in Tasks : job[t].proc = p /\ Running(t)}
    IN  /\ "crash" \in Faults /\ dead # {}
        /\ task' = [t \in Tasks |->
               IF t \notin dead THEN task[t]
               ELSE [task[t] EXCEPT !.phase = "over",
                                    !.status = IF task[t].phase = "prune" THEN "cut" ELSE "failed",
                                    !.todo = {}, !.stale = {}, !.bad = {}]]
        /\ Mutex!Leave(dead)
        /\ UNCHANGED <<index, source, latest>>

-----------------------------------------------------------------------------
TaskStep(t) ==
    \/ Enter(t) \/ Fetch(t) \/ DrainPath(t)
    \/ BeginUpload(t) \/ BeginDelete(t)
    \/ DeleteBatch(t) \/ PurgeDone(t)
    \/ DrainDoc(t) \/ ParseEmpty(t) \/ Parse(t)
    \/ UpsertBatch(t) \/ UpsertDone(t) \/ PruneDone(t)
    \/ Raise(t)

Next ==
    /\ UNCHANGED job
    /\ \/ \E t \in Tasks : TaskStep(t)
       \/ \E p \in Paths, d \in Docs : Edit(p, d)
       \/ \E p \in Procs : Crash(p)

Spec == Init /\ [][Next]_vars

-----------------------------------------------------------------------------
TypeOK ==
    /\ index \in [ChunkIds -> Paths \cup {NoPath}]
    /\ source \in [Paths -> Docs]
    /\ \A t \in Tasks :
          /\ task[t].phase \in {"new", "fetch", "drainPath", "purge", "drainDoc",
                                "parse", "upsert", "prune", "over"}
          /\ task[t].doc \in Docs \cup {NoDoc}
          /\ task[t].todo \subseteq ChunkIds
          /\ task[t].stale \subseteq ChunkIds
          /\ task[t].bad \subseteq ChunkIds
          /\ task[t].status \in {"none", "successful", "degraded", "empty", "failed",
                                 "cut", "deleted"}
    /\ window \in [Slots -> SUBSET Tasks]

\* No step of a task touches a chunk of another tenant, although the same
\* content has the same document_id under every tenant and its chunks may sit
\* at the same source_path: every filter carries the bot_tag.
TenantIsolation ==
    [][\A t \in Tasks : task'[t] # task[t] =>
          \A c \in ChunkIds : c.tag # job[t].tag => index'[c] = index[c]]_vars

\* At no instant, whatever failed before, does a source_path of a tenant show
\* chunks of two versions of its file: the old ones are gone before the first
\* new one is written, and the lock keeps another run's writes out.
SingleVersion ==
    \A c, e \in Present :
        c.tag = e.tag /\ index[c] = index[e] => c.doc = e.doc /\ c.mode = e.mode

\* "An edited file fully replaces its prior chunks under the same source_path":
\* when the last run on a path succeeded, the path shows exactly the chunks of
\* the content it fetched, whatever earlier runs left behind.
EditReplaces ==
    (\A t \in Tasks : job[t].kind = "sync") =>
    \A p \in Paths, g \in Tags :
        latest[p][g] # "none" /\ task[latest[p][g]].status = "successful" =>
            {c \in Present : index[c] = p /\ c.tag = g} = Written(latest[p][g])

\* An upload whose chunks have been sent, so that it prunes or has pruned.
Sent(t) == task[t].phase = "prune" \/ task[t].status \in {"successful", "degraded", "cut"}

\* "Only the genuine residue": while other uploads run, fail or crash, a chunk of
\* an upload that reported success is only ever missing because another upload of
\* the same document, whose own parse does not yield that chunk (the other mode,
\* a now shorter text), has sent all it does yield.  In particular uploads of
\* equal yields never open a zero-chunk window, however they overlap.
UploadedStays ==
    (\A t \in Tasks : job[t].kind = "upload") =>
    \A t \in Tasks : task[t].status = "successful" =>
        \A c \in Written(t) \ Present :
            \E u \in Tasks : /\ job[u].tag = job[t].tag /\ job[u].doc = job[t].doc
                             /\ c \notin Written(u)
                             /\ Sent(u)

\* What the theorems about the properties above take for granted.  Those who write to
\* one path of one tenant are syncs in one process (the lock is per process), or
\* uploads of one content in one mode ...
WritersApart ==
    \A mix \in Mixes : \A t, u \in Tasks :
        /\ {mix[t].kind, mix[u].kind} \subseteq {"sync", "upload"}
        /\ mix[t].path = mix[u].path /\ mix[t].tag = mix[u].tag
        => \/ mix[t].kind = "sync" /\ mix[u].kind = "sync" /\ mix[t].proc = mix[u].proc
           \/ /\ mix[t].kind = "upload" /\ mix[u].kind = "upload"
              /\ mix[t].doc = mix[u].doc /\ mix[t].mode = mix[u].mode

\* ... no batch of deletes is served in part without an exception ...
DeletesServed == "partialDelete" \notin Faults

\* ... and no two paths hold the same content.
ContentsApart == \A p, q \in Paths : p # q => Contents[p] \cap Contents[q] = {}

\* A path of a tenant shows one version at a time, and the newest one once its
\* run succeeded.
VersionsReplace == TypeOK /\ SingleVersion /\ EditReplaces

=============================================================================
