-------------------------------- MODULE Sources --------------------------------
(***************************************************************************)
(* One run of a connector over its source: a Blob container                *)
(* (connectors/blob.py) or a SharePoint library read through Graph         *)
(* (connectors/sharepoint.py), as the driver runs it (connectors/core.py:  *)
(* list, download, delete, upload, item by item).  The pages are listed    *)
(* lazily, so the source may change between any two steps.  The storage    *)
(* service and Graph are external: a listing goes on after the last name   *)
(* it gave, Blob answers a later range of a changed blob with an error,    *)
(* Graph gives one snapshot, and any call may fail.  The lock of the item  *)
(* is in SingleFlight, the steps of an upload are in Ingest.               *)
(***************************************************************************)
EXTENDS Integers, FiniteSets, FiniteSetsExt, SequencesExt

CONSTANTS
    Names,          \* the entries, numbered in listing order
    Kind,           \* [Names -> kinds of entries]
    Chunks,         \* [Names -> chunks of the content], 0 where it is empty
    Ceiling,        \* MAX_FILE_BYTES, in chunks
    PageSize,
    MaxRetries,     \* _MAX_RETRIES: attempts
    BackoffCap,     \* _BACKOFF_CAP_SECONDS, in units of the base
    RetryAfterCap,  \* _RETRY_AFTER_CAP_SECONDS
    RetryAfters,    \* values of the header; -1 where it is absent or no number
    MaxEdits        \* bound: changes of the source

ASSUME BoundsNat ==
    /\ Names \subseteq Nat /\ PageSize \in Nat \ {0} /\ MaxRetries \in Nat \ {0}
    /\ Ceiling \in Nat /\ BackoffCap \in Nat /\ RetryAfterCap \in Nat /\ MaxEdits \in Nat

\* There is a last entry.
ASSUME NamesBounded == Names = {} \/ \E n \in Names : \A i \in Names : i <= n

ASSUME ContentsNat == Chunks \in [Names -> Nat]

\* The pause before an attempt is bounded by 30 or 60 seconds, a Retry-After by 120.
ASSUME CapsOrdered == BackoffCap <= RetryAfterCap
ASSUME RetryAftersInt == RetryAfters \subseteq Int

VARIABLES
    source,     \* "blob" or "sharepoint"
    remote,     \* the version of every entry at the source, 0 where there is none
    index,      \* the version the index holds, with what is told below
    run,        \* the run
    edits,      \* changes made to the source
    touched,    \* history: entries that changed since the run started
    short       \* history: entries whose upload returned "empty" or "degraded"

runVars == <<source, remote, index, run, edits, touched, short>>

Nothing == -1       \* the index has no chunk of the entry
Part == -2          \* it has some of the chunks of a content only

Present == {i \in Names : remote[i] > 0}

In(s) == run.at = s
Over == run.at \in {"done", "failed"}
Goes(s) == run' = [run EXCEPT !.at = s]

-----------------------------------------------------------------------------
\* is_supported_name.
Supported(i) == Kind[i] \in {"pdf", "text"}

\* The blobs of a page that are yielded: of a format that can be loaded, and not
\* of a size known to be over the ceiling.
BlobYields(i) == Supported(i) /\ (Kind[i] # "pdf" \/ Chunks[i] <= Ceiling)

\* Graph may leave the size out (text here): such an item is yielded.  A folder
\* has no file facet.
GraphYields(i) ==
    /\ Kind[i] # "folder"
    /\ Supported(i)
    /\ Kind[i] = "pdf" => Chunks[i] <= Ceiling

\* validate_content_magic: a text has no magic header.
MagicOK(i, content) == Kind[i] = "pdf" => content # <<>>

Power(n) == 2 ^ n
LesserOf(a, b) == IF a <= b THEN a ELSE b

ExpBackoff(attempt) == LesserOf(Power(attempt), BackoffCap)

\* _retry_delay: the header of a 429 where it is a number that is not negative.
RetryDelay(status, header, attempt) ==
    IF status = "throttled" /\ header >= 0 THEN LesserOf(header, RetryAfterCap)
    ELSE ExpBackoff(attempt)

-----------------------------------------------------------------------------
NoRun == [at |-> "new", page |-> {}, last |-> -1, more |-> TRUE, blank |-> FALSE,
          item |-> -1, attempt |-> 0, waited |-> 0, version |-> 0, buf |-> <<>>]

RunInit ==
    /\ source \in {"blob", "sharepoint"}
    /\ remote \in [Names -> {0, 1}]
    /\ index = [i \in Names |-> IF Supported(i) THEN 0 ELSE Nothing]
    /\ run = NoRun
    /\ edits = 0
    /\ touched = {}
    /\ short = {}

\* A client is built from the environment, or the run ends before any listing.
BuildBlob ==
    /\ source = "blob" /\ In("new")
    /\ Goes("list") \/ Goes("failed")
    /\ UNCHANGED <<source, remote, index, edits, touched, short>>

BuildGraph ==
    /\ source = "sharepoint" /\ In("new")
    /\ Goes("list") \/ Goes("failed")
    /\ UNCHANGED <<source, remote, index, edits, touched, short>>

\* The next page as the service cuts it, which may be short or empty.
Rest == {i \in Present : i > run.last}

Pages ==
    {page \in SUBSET Rest :
        /\ Cardinality(page) = LesserOf(PageSize, Cardinality(Rest))
        /\ \A i \in page, k \in Rest \ page : i < k}
    \cup (IF run.blank THEN {} ELSE {{}})

\* Faulty form: a page that yields nothing is taken for the last one.
TurnToUntilEmpty(page, kept) ==
    [run EXCEPT !.at = "items", !.page = kept,
                !.last = IF page = {} THEN @ ELSE Max(page),
                !.blank = (page = {}), !.attempt = 0, !.waited = 0,
                !.more = page # {} /\ page # Rest]

\* The entries that are kept, and whether there is a next page.
TurnTo(page, kept) ==
    [run EXCEPT !.at = "items", !.page = kept,
                !.last = IF page = {} THEN @ ELSE Max(page),
                !.blank = (page = {}), !.attempt = 0, !.waited = 0,
                !.more = page # Rest]

\* Blob: the pager; its error is not caught.
ListBlob ==
    /\ source = "blob" /\ In("list")
    /\ (\E page \in Pages : run' = TurnTo(page, {i \in page : BlobYields(i)})) \/ Goes("failed")
    /\ UNCHANGED <<source, remote, index, edits, touched, short>>

\* Faulty form: the attempts are not counted.
AttemptFailedAgain(pause) ==
    [run EXCEPT !.at = IF run.at = "reading" THEN "download" ELSE run.at,
                !.waited = LesserOf(@ + pause, 1), !.buf = <<>>]

\* Faulty form: the next attempt appends to what the last one read.
AttemptFailedKeeps(pause) ==
    IF run.attempt = MaxRetries - 1 THEN [run EXCEPT !.at = "failed", !.buf = <<>>]
    ELSE [run EXCEPT !.at = IF run.at = "reading" THEN "download" ELSE run.at,
                     !.attempt = @ + 1, !.waited = @ + pause]

\* One attempt failed: the next one after a pause, with nothing of this one kept.
AttemptFailed(pause) ==
    IF run.attempt = MaxRetries - 1 THEN [run EXCEPT !.at = "failed", !.buf = <<>>]
    ELSE [run EXCEPT !.at = IF run.at = "reading" THEN "download" ELSE run.at,
                     !.attempt = @ + 1, !.waited = @ + pause, !.buf = <<>>]

\* 429, 5xx and transport errors are tried again; every other error ends the run.
GraphRefuses ==
    \/ \E status \in {"throttled", "server"}, header \in RetryAfters :
        run' = AttemptFailed(RetryDelay(status, header, run.attempt))
    \/ run' = AttemptFailed(ExpBackoff(run.attempt))
    \/ Goes("failed")

ListGraph ==
    /\ source = "sharepoint" /\ In("list")
    /\ (\E page \in Pages : run' = TurnTo(page, {i \in page : GraphYields(i)})) \/ GraphRefuses
    /\ UNCHANGED <<source, remote, index, edits, touched, short>>

\* Faulty form: the old chunks are deleted before the download.
TakeItemDeletes ==
    /\ In("items")
    /\ \/ \E i \in run.page :
            /\ run' = [run EXCEPT !.at = "download", !.item = i, !.page = @ \ {i}]
            /\ index' = [index EXCEPT ![i] = Nothing]
       \/ /\ run.page = {} /\ Goes(IF run.more THEN "list" ELSE "done")
          /\ UNCHANGED index
    /\ UNCHANGED <<source, remote, edits, touched, short>>

\* The next item of the page, the next page, or the end.
TakeItem ==
    /\ In("items")
    /\ \/ \E i \in run.page :
            run' = [run EXCEPT !.at = "download", !.item = i, !.page = @ \ {i}]
       \/ run.page = {} /\ Goes(IF run.more THEN "list" ELSE "done")
    /\ UNCHANGED <<source, remote, index, edits, touched, short>>

\* What was downloaded goes on to the index, if its header is right.
Fetched(content) ==
    IF MagicOK(run.item, content)
    THEN [run EXCEPT !.at = "delete", !.buf = content, !.attempt = 0, !.waited = 0]
    ELSE [run EXCEPT !.at = "failed", !.buf = <<>>]

\* The answer has begun; of an empty file no chunk comes.
Opened(version) ==
    IF Chunks[run.item] = 0 THEN Fetched(<<>>)
    ELSE [run EXCEPT !.at = "reading", !.version = version]

\* Blob: every error is tried again, that of a blob that is gone included.
DownloadBlob ==
    /\ source = "blob" /\ In("download")
    /\ \/ run.item \in Present /\ run' = Opened(remote[run.item])
       \/ run' = AttemptFailed(ExpBackoff(run.attempt))
    /\ UNCHANGED <<source, remote, index, edits, touched, short>>

\* Graph.  The client that is built follows no redirect: the empty body of a 302
\* is the content.
DownloadGraph ==
    /\ source = "sharepoint" /\ In("download")
    /\ \/ /\ run.item \in Present
          /\ \/ run' = Opened(remote[run.item])
             \/ run' = Fetched(<<>>)
       \/ GraphRefuses
    /\ UNCHANGED <<source, remote, index, edits, touched, short>>

\* A chunk is added; over the ceiling the download is given up for good.
WithChunk(chunk) ==
    LET content == Append(run.buf, chunk) IN
    IF Len(content) > Ceiling THEN [run EXCEPT !.at = "failed", !.buf = <<>>]
    ELSE IF Len(content) < Chunks[run.item] THEN [run EXCEPT !.buf = content]
    ELSE Fetched(content)

ReadBlob ==
    /\ source = "blob" /\ In("reading")
    /\ \/ remote[run.item] = run.version /\ run' = WithChunk(run.version)
       \/ run' = AttemptFailed(ExpBackoff(run.attempt))
    /\ UNCHANGED <<source, remote, index, edits, touched, short>>

ReadGraph ==
    /\ source = "sharepoint" /\ In("reading")
    /\ \/ run' = WithChunk(run.version)
       \/ run' = AttemptFailed(ExpBackoff(run.attempt))
    /\ UNCHANGED <<source, remote, index, edits, touched, short>>

\* Then delete_by_source_path and upload; a failure of either ends the run, and may
\* come after some of the batches were served.
Leaves(content) == index' = [index EXCEPT ![run.item] = content]

DeleteOld ==
    /\ In("delete")
    /\ \/ Goes("upload") /\ Leaves(Nothing)
       \/ Goes("failed") /\ \E content \in {index[run.item], Part, Nothing} : Leaves(content)
    /\ UNCHANGED <<source, remote, edits, touched, short>>

\* upload() writes all of the content, or says of what it returns that the content
\* gave no text ("empty") or that some chunks or all failed ("degraded").  The run
\* does not look at what it says.
Upload ==
    /\ In("upload")
    /\ \/ /\ run' = [run EXCEPT !.at = "items", !.buf = <<>>]
          /\ \/ run.buf # <<>> /\ Leaves(Last(run.buf)) /\ UNCHANGED short
             \/ run.buf # <<>> /\ Leaves(Part) /\ short' = short \cup {run.item}
             \/ Leaves(Nothing) /\ short' = short \cup {run.item}
       \/ /\ Goes("failed") /\ UNCHANGED short
          /\ Leaves(Nothing) \/ (run.buf # <<>> /\ Leaves(Part))
    /\ UNCHANGED <<source, remote, edits, touched>>

\* Somebody adds, changes or removes an entry.
Edit(i) ==
    /\ edits < MaxEdits
    /\ edits' = edits + 1
    /\ \E version \in {0, edits + 2} :
        version # remote[i] /\ remote' = [remote EXCEPT ![i] = version]
    /\ touched' = IF In("new") THEN touched ELSE touched \cup {i}
    /\ UNCHANGED <<source, index, run, short>>

Step ==
    \/ BuildBlob \/ BuildGraph \/ ListBlob \/ ListGraph \/ TakeItem
    \/ DownloadBlob \/ DownloadGraph \/ ReadBlob \/ ReadGraph \/ DeleteOld \/ Upload

RunNext == Step \/ \E i \in Names : Edit(i)

\* The run has a thread of its own, and every call has a time limit.
RunSpec == RunInit /\ [][RunNext]_runVars /\ WF_runVars(Step)

-----------------------------------------------------------------------------
RunTyped ==
    /\ source \in {"blob", "sharepoint"}
    /\ remote \in [Names -> 0..MaxEdits + 1]
    /\ index \in [Names -> -2..MaxEdits + 1]
    /\ run.at \in {"new", "list", "items", "download", "reading", "delete", "upload",
                   "done", "failed"}
    /\ run.attempt \in 0..MaxRetries - 1
    /\ run.version \in 0..MaxEdits + 1
    /\ edits \in 0..MaxEdits
    /\ touched \subseteq Names /\ short \subseteq Names

Yields(i) == IF source = "blob" THEN BlobYields(i) ELSE GraphYields(i)

Ingested(i) == index[i] = remote[i] \/ i \in short

\* When a run is done, every entry it has to take that was there untouched from
\* its start was ingested, whatever was added and removed around it, however the
\* service cut the pages and however many attempts it took ("mishandling nextLink
\* silently drops files", sharepoint.py).  An entry counts as ingested whose upload
\* said "empty" or "degraded", such as a text whose download was redirected.
ListingComplete ==
    In("done") => \A i \in Present \ touched : Yields(i) => Ingested(i)

\* What is to be uploaded is every chunk of one version, each once: no attempt
\* leaves a part in the next one and no two versions are mixed, though the source
\* changes and the attempts break off anywhere (fetch, "a partial/interrupted read
\* cannot feed a corrupt file downstream").  A text behind a redirect is empty.
WholeVersion ==
    run.at \in {"delete", "upload"} /\ run.buf # <<>> =>
        /\ Len(run.buf) = Chunks[run.item]
        /\ \A k \in DOMAIN run.buf : run.buf[k] = run.buf[1]

\* No download, of whatever size, keeps more than the ceiling.
BufferBounded == Len(run.buf) <= Ceiling

\* The index loses an entry's chunks only in the step before its upload, with the
\* new content at hand: a failed listing or download leaves what there was.  What is
\* left without chunks, or with some of them, are the entries whose upload returned
\* "empty" or "degraded", of which there may be any number (the comment that an
\* empty parse leaves the prior chunks in place, custom_rag.py, does not hold behind
\* the deletion of the run); and when the run fails, the one it was at.
HoleOnlyByUpload ==
    \A i \in Names : Supported(i) /\ index[i] \in {Nothing, Part} =>
        i \in short \/ (run.item = i /\ run.at \in {"upload", "failed"})

\* The pauses between the attempts of one request come to no more than the cap
\* for each of them, whatever Retry-After asks for.
StallBounded ==
    run.waited <= (MaxRetries - 1) * RetryAfterCap

\* A run ends, though the service throttles, breaks off and changes.
RunEnds == <>Over

\* A download is one version, whole, within the ceiling and the pauses allowed.
DownloadSound == RunTyped /\ WholeVersion /\ BufferBounded /\ StallBounded

===============================================================================
