------------------------------- MODULE Uploads -------------------------------
(***************************************************************************)
(* POST /upload of the ingestion service (app.py): the checks in front of  *)
(* it, the upload slots, the single-file and the folder mode, and what     *)
(* every call to the pipeline reports.  Several worker processes serve it; *)
(* each has its own slot counter and its own memoised search client, and   *)
(* creates the search index when it finds none (custom_rag.py).  What      *)
(* upload() does to the chunks of a document is module Ingest.             *)
(***************************************************************************)
EXTENDS Integers, FiniteSets, Sequences

CONSTANTS
    Reqs, Workers, Files,
    NoWorker,       \* the worker of a request that is in no handler
    MaxUploads,     \* INGESTION_MAX_CONCURRENT_UPLOADS
    MaxFolder,      \* INGESTION_MAX_FOLDER_FILES
    Cases           \* disks and requests to choose from

ASSUME ReqsFinite == IsFiniteSet(Reqs)
ASSUME CapsPos == {MaxUploads, MaxFolder} \subseteq Nat \ {0}
ASSUME CasesOK == \A c \in Cases : \A r \in Reqs : c.asks[r].files \in Seq(Files)

VARIABLES
    disk,       \* the files under the upload root, and the bodies of single uploads
    asks,       \* what every request asks for
    active,     \* _active_uploads of every worker
    client,     \* the workers that hold a search client
    index,      \* whether the search index exists
    chunks,     \* what the index holds of every file: "none", "some" or "all"
    reqs,       \* what every request is doing
    lost        \* history: how often a worker failed to create an index that exists

vars == <<disk, asks, active, client, index, chunks, reqs, lost>>

-----------------------------------------------------------------------------
RegistryExts == {"docx", "pptx", "html", "htm", "md", "txt"}
Supported(ext) == ext \in RegistryExts \cup {"pdf"}

\* Text formats decode with replacement and HTML parses anyhow; of the others a
\* broken container, or one that would inflate beyond the bounds, is a loader error.
Extracted(f) ==
    IF f.body = "broken" /\ f.ext \in {"docx", "pptx"} THEN "loadererror"
    ELSE IF f.body = "blank" THEN "blank" ELSE "text"

\* A collected file is looked at again when its turn comes: still there, no
\* link, and not above the ceiling.
Readable(f) == f.where = "inside" /\ f.size = "small"

\* Faulty form: an upload that indexed nothing counts as a success.
FileStatusNoEmpty(result) == IF result = "degraded" THEN "degraded" ELSE "success"

\* How a folder entry reports what upload() returned.
FileStatus(result) ==
    IF result = "degraded" THEN "degraded"
    ELSE IF result = "empty" THEN "empty" ELSE "success"

\* The status code a single upload is answered with.
Code(result) ==
    CASE result = "degraded" -> 207
      [] result \in {"empty", "loadererror"} -> 422
      [] result = "raised" -> 500
      [] OTHER -> 200

-----------------------------------------------------------------------------
Init ==
    /\ \E c \in Cases : disk = c.disk /\ asks = c.asks
    /\ active = [w \in Workers |-> 0]
    /\ client = {}
    /\ index = FALSE
    /\ chunks = [f \in Files |-> "none"]
    /\ reqs = [r \in Reqs |-> [pc |-> "new", w |-> NoWorker, i |-> 1,
                               list |-> <<>>, report |-> <<>>, code |-> 0]]
    /\ lost = [w \in Workers |-> 0]

Becomes(r, s) == reqs' = [reqs EXCEPT ![r] = s]
In(r, s) == reqs[r].pc = s
Index == <<client, index, chunks, lost>>

\* create_search_index never awaits: while a request is in it, its worker serves
\* no other.
LoopFree(r) == \A q \in Reqs \ {r} : reqs[q].w = reqs[r].w => ~In(q, "create")

Inside == {"held", "walk", "provision", "create", "upload"}
Holding(w) == {r \in Reqs : reqs[r].w = w /\ reqs[r].pc \in Inside}

\* Faulty form: a request turned down after it got its slot keeps it.
EndsKeeping(r, code) ==
    /\ Becomes(r, [reqs[r] EXCEPT !.pc = "done", !.code = code, !.w = NoWorker])
    /\ active' = IF code \in {400, 413, 415} THEN active
                 ELSE [active EXCEPT ![reqs[r].w] = IF @ > 0 THEN @ - 1 ELSE 0]

\* The answer goes out and the finally gives the slot back.
Ends(r, code) ==
    /\ Becomes(r, [reqs[r] EXCEPT !.pc = "done", !.code = code, !.w = NoWorker])
    /\ active' = [active EXCEPT ![reqs[r].w] = IF @ > 0 THEN @ - 1 ELSE 0]

\* Before the handler: the middleware turns away a declared length above its ceiling ...
TooLong(r) ==
    /\ In(r, "new") /\ asks[r].long
    /\ Becomes(r, [reqs[r] EXCEPT !.pc = "done", !.code = 413])
    /\ UNCHANGED <<disk, asks, active, Index>>

\* ... then the admin token must be set up, and be the one presented.
TokenRefused(r) ==
    /\ In(r, "new") /\ ~asks[r].long /\ asks[r].token # "right"
    /\ Becomes(r, [reqs[r] EXCEPT !.pc = "done",
                      !.code = IF asks[r].token = "unset" THEN 503 ELSE 401])
    /\ UNCHANGED <<disk, asks, active, Index>>

\* A worker takes the request and one of its slots ...
AcquireSlot(r) ==
    /\ In(r, "new") /\ ~asks[r].long /\ asks[r].token = "right"
    /\ \E w \in Workers :
          /\ \A q \in Reqs : reqs[q].w = w => ~In(q, "create")
          /\ active[w] < MaxUploads
          /\ active' = [active EXCEPT ![w] = @ + 1]
          /\ Becomes(r, [reqs[r] EXCEPT !.pc = "held", !.w = w])
    /\ UNCHANGED <<disk, asks, Index>>

\* ... or has none left: 429 with a Retry-After.
AtCapacity(r) ==
    /\ In(r, "new") /\ ~asks[r].long /\ asks[r].token = "right"
    /\ \E w \in Workers : active[w] >= MaxUploads /\ \A q \in Reqs : reqs[q].w = w => ~In(q, "create")
    /\ Becomes(r, [reqs[r] EXCEPT !.pc = "done", !.code = 429])
    /\ UNCHANGED <<disk, asks, active, Index>>

\* resolve_upload_path: an empty path, or one outside the upload root.
PathRefused(r) ==
    /\ In(r, "held") /\ LoopFree(r) /\ asks[r].path = "outside"
    /\ Ends(r, 400)
    /\ UNCHANGED <<disk, asks, Index>>

\* The supported files of a folder, in the order of the walk.
Collected(files, exts) ==
    LET kept[n \in 0..Len(files)] ==
            IF n = 0 THEN <<>>
            ELSE IF Supported(exts[files[n]]) THEN Append(kept[n - 1], files[n]) ELSE kept[n - 1]
    IN  kept[Len(files)]

\* Folder mode: the supported files are collected, and too many are refused.
Collect(r) ==
    LET docs == Collected(asks[r].files, [f \in Files |-> disk[f].ext])
    IN  /\ In(r, "held") /\ LoopFree(r) /\ asks[r].path = "folder"
        /\ IF Len(docs) > MaxFolder THEN Ends(r, 413)
           ELSE /\ Becomes(r, [reqs[r] EXCEPT !.pc = "walk", !.list = docs])
                /\ UNCHANGED active
        /\ UNCHANGED <<disk, asks, Index>>

\* Single mode: no file, an unsupported name, a body above the ceiling.
SingleRefused(r) ==
    LET f == disk[asks[r].files[1]]
    IN  /\ In(r, "held") /\ LoopFree(r) /\ asks[r].path = "file"
        /\ \/ asks[r].files = <<>> /\ Ends(r, 400)
           \/ asks[r].files # <<>> /\ ~Supported(f.ext) /\ Ends(r, 415)
           \/ asks[r].files # <<>> /\ Supported(f.ext) /\ f.size = "big" /\ Ends(r, 413)
        /\ UNCHANGED <<disk, asks, Index>>

SingleTaken(r) ==
    /\ In(r, "held") /\ LoopFree(r) /\ asks[r].path = "file" /\ asks[r].files # <<>>
    /\ LET f == disk[asks[r].files[1]] IN Supported(f.ext) /\ f.size = "small"
    /\ Becomes(r, [reqs[r] EXCEPT !.pc = "provision", !.list = asks[r].files])
    /\ UNCHANGED <<disk, asks, active, Index>>

Current(r) == reqs[r].list[reqs[r].i]

\* One folder entry is done: it is reported, and the next file has its turn.
Reported(r, status) ==
    Becomes(r, [reqs[r] EXCEPT !.pc = "walk", !.i = @ + 1,
                               !.report = Append(@, [file |-> Current(r), status |-> status])])

Skip(r) ==
    /\ In(r, "walk") /\ LoopFree(r) /\ reqs[r].i <= Len(reqs[r].list)
    /\ ~Readable(disk[Current(r)])
    /\ Reported(r, "error")
    /\ UNCHANGED <<disk, asks, active, Index>>

Take(r) ==
    /\ In(r, "walk") /\ LoopFree(r) /\ reqs[r].i <= Len(reqs[r].list)
    /\ Readable(disk[Current(r)])
    /\ Becomes(r, [reqs[r] EXCEPT !.pc = "provision"])
    /\ UNCHANGED <<disk, asks, active, Index>>

FolderDone(r) ==
    /\ In(r, "walk") /\ LoopFree(r) /\ reqs[r].i > Len(reqs[r].list)
    /\ Ends(r, 200)
    /\ UNCHANGED <<disk, asks, Index>>

\* What upload() came to, for the folder entry or for the single answer.
Concludes(r, result) ==
    IF asks[r].path = "folder"
    THEN /\ Reported(r, IF result \in {"loadererror", "raised"} THEN "error" ELSE FileStatus(result))
         /\ UNCHANGED active
    ELSE Ends(r, Code(result))

\* A broken PDF fails before the index is looked for.
PdfUnreadable(r) ==
    /\ In(r, "provision") /\ LoopFree(r)
    /\ disk[Current(r)].ext = "pdf" /\ disk[Current(r)].body = "broken"
    /\ Concludes(r, "raised")
    /\ UNCHANGED <<disk, asks, Index>>

PastPdf(r) ==
    /\ In(r, "provision") /\ LoopFree(r)
    /\ ~(disk[Current(r)].ext = "pdf" /\ disk[Current(r)].body = "broken")
    /\ UNCHANGED <<disk, asks, active>>

\* create_search_index: the memoised client, or the listing of the indexes.
HasClient(r) ==
    /\ PastPdf(r)
    /\ reqs[r].w \in client
    /\ Becomes(r, [reqs[r] EXCEPT !.pc = "upload"])
    /\ UNCHANGED Index

ListIndexes(r) ==
    /\ PastPdf(r)
    /\ reqs[r].w \notin client
    /\ IF index THEN /\ Becomes(r, [reqs[r] EXCEPT !.pc = "upload"])
                     /\ client' = client \cup {reqs[r].w}
       ELSE /\ Becomes(r, [reqs[r] EXCEPT !.pc = "create"])
            /\ UNCHANGED client
    /\ UNCHANGED <<index, chunks, lost>>

\* The client cannot be built, or the listing fails: nothing is memoised.
ListFailed(r) ==
    /\ In(r, "provision") /\ LoopFree(r)
    /\ ~(disk[Current(r)].ext = "pdf" /\ disk[Current(r)].body = "broken")
    /\ reqs[r].w \notin client
    /\ Concludes(r, "raised")
    /\ UNCHANGED <<disk, asks, Index>>

\* The listing showed no index: it is created ...
CreateIndex(r) ==
    /\ In(r, "create") /\ ~index
    /\ Becomes(r, [reqs[r] EXCEPT !.pc = "upload"])
    /\ index' = TRUE
    /\ client' = client \cup {reqs[r].w}
    /\ UNCHANGED <<disk, asks, active, chunks, lost>>

\* ... or the service fails, as it does when another worker was faster; nothing
\* is memoised, so that the next upload looks again.
CreateFailed(r) ==
    /\ In(r, "create")
    /\ Concludes(r, "raised")
    /\ lost' = IF index THEN [lost EXCEPT ![reqs[r].w] = @ + 1] ELSE lost
    /\ UNCHANGED <<disk, asks, client, index, chunks>>

\* A partial write of a content that is already there overwrites like with like.
AtLeastSome(f) == [chunks EXCEPT ![f] = IF @ = "all" THEN "all" ELSE "some"]

\* The rest of upload(): extraction, then the index takes all the chunks, some,
\* or the pipeline fails before or after some of them.
Pipeline(r) ==
    LET f == Current(r)
        text == Extracted(disk[f])
    IN  /\ In(r, "upload") /\ LoopFree(r)
        /\ \/ /\ text = "loadererror" /\ Concludes(r, "loadererror")
              /\ UNCHANGED chunks
           \/ /\ text = "blank" /\ Concludes(r, "empty")
              /\ UNCHANGED chunks
           \/ /\ text = "text" /\ Concludes(r, "success")
              /\ chunks' = [chunks EXCEPT ![f] = "all"]
           \/ /\ text = "text" /\ Concludes(r, "degraded")
              /\ chunks' = AtLeastSome(f)
           \/ /\ text = "text" /\ Concludes(r, "raised")
              /\ chunks' \in {chunks, AtLeastSome(f)}
        /\ UNCHANGED <<disk, asks, client, index, lost>>

\* Somebody else removes or replaces a file a folder's loop still has before it
\* (bound: one file).
Disturb(f) ==
    /\ \E r \in Reqs : /\ In(r, "walk")
                       /\ \E i \in reqs[r].i..Len(reqs[r].list) : reqs[r].list[i] = f
    /\ \A g \in Files : disk[g].where = "inside"
    /\ disk' \in {[disk EXCEPT ![f].where = "gone"], [disk EXCEPT ![f].where = "link"]}
    /\ UNCHANGED <<asks, active, Index, reqs>>

Handle(r) ==
    \/ TooLong(r) \/ TokenRefused(r) \/ AcquireSlot(r) \/ AtCapacity(r)
    \/ PathRefused(r) \/ Collect(r) \/ SingleRefused(r) \/ SingleTaken(r)
    \/ Skip(r) \/ Take(r) \/ FolderDone(r)
    \/ PdfUnreadable(r) \/ HasClient(r) \/ ListIndexes(r) \/ ListFailed(r)
    \/ CreateIndex(r) \/ CreateFailed(r) \/ Pipeline(r)

Next ==
    \/ \E r \in Reqs : Handle(r)
    \/ \E f \in Files : Disturb(f)

\* The event loop gets to every request it has something to do for.
Fairness == \A r \in Reqs : WF_vars(Handle(r))

Spec == Init /\ [][Next]_vars /\ Fairness

-----------------------------------------------------------------------------
TypeOK ==
    /\ active \in [Workers -> Nat]
    /\ client \in SUBSET Workers
    /\ index \in BOOLEAN
    /\ chunks \in [Files -> {"none", "some", "all"}]
    /\ lost \in [Workers -> Nat]
    /\ \A r \in Reqs :
          /\ reqs[r].pc \in {"new", "done"} \cup Inside
          /\ reqs[r].code \in {0, 200, 207, 400, 401, 413, 415, 422, 429, 500, 503}
          /\ reqs[r].i \in 1..(Len(reqs[r].list) + 1)

\* Every worker counts the uploads it works on exactly, whichever way they end.
SlotsExact ==
    \A w \in Workers : active[w] = Cardinality(Holding(w)) /\ active[w] <= MaxUploads

\* A folder is answered with one entry for every file collected, in order, what-
\* ever became of the files before it or of the file itself in the meantime.
FolderReportComplete ==
    \A r \in Reqs : In(r, "done") /\ reqs[r].code = 200 /\ asks[r].path = "folder" =>
        [i \in DOMAIN reqs[r].report |-> reqs[r].report[i].file] = reqs[r].list

\* What a request says is indexed can be found: "MUST NOT mask that as success".
SuccessIsSearchable ==
    \A r \in Reqs :
        /\ \A i \in DOMAIN reqs[r].report :
              reqs[r].report[i].status = "success" => chunks[reqs[r].report[i].file] = "all"
        /\ In(r, "done") /\ reqs[r].code = 200 /\ asks[r].path = "file" =>
              chunks[Current(r)] = "all"

\* No upload writes before the index exists, though looking for it or creating it
\* may fail, or be lost to another worker.
UploadsFindIndex == \A r \in Reqs : In(r, "upload") => index

\* Losing the race to create the index costs a worker one upload, not the next.
RaceLostOnce == \A w \in Workers : lost[w] <= 1

\* A worker that is full takes uploads again.
SlotsComeBack == \A w \in Workers : active[w] = MaxUploads ~> active[w] < MaxUploads

\* What a client is told is so: a full report, every success searchable, every
\* write into an index that is there, and one upload at most lost to the race.
OutcomesTruthful ==
    /\ TypeOK
    /\ FolderReportComplete
    /\ SuccessIsSearchable
    /\ UploadsFindIndex
    /\ RaceLostOnce

=============================================================================
