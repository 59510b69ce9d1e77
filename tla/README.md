# TocDoc in TLA+

TLA+ models of the parts of TocDoc, a multi-tenant retrieval-augmented
question-answering system over Azure services, whose correctness depends on the
order in which things happen: connector runs that share locks, an ingestion
pipeline that rewrites a search index while others rewrite it too, run records
an administrator polls, a rate limiter, answers that are cached or drafted by an
agent graph with fallbacks, streamed answers pumped through a worker thread,
signing keys that rotate under a cache, uploads with slots, the pages of a source
that changes while it is read, the clients that retry and decode, a console whose
answers overtake each other, and an evaluation gate over a shared history.
TLC checks every model on small instances; the TLA+ proof system (TLAPS) proves
what matters most about each of them for every instance.

Paths below are relative to the repository's root, which the project reads as
`src/`. `src/services/ingestion` and `src/services/qna` are the two services;
`custom_rag.py`, `core.py` and so on name files of theirs.

## The system

Two FastAPI services and their clients.

**Ingestion** (`src/services/ingestion`) turns files into chunks of a search
index. A file arrives by `POST /upload` or from a *connector* (a source such as
SharePoint that can be enumerated and fetched). Each request runs its blocking
work on a thread of the event loop's pool; the container starts two worker
processes by default (`Dockerfile:52`). **QnA** (`src/services/qna`) answers a
question: it embeds it, searches the index for the tenant's chunks, and asks a
model, in one response or as a stream of server-sent events.

| Component | State | Operations | Interacts with |
| --- | --- | --- | --- |
| Connector driver, `connectors/core.py` | `_locks`, a dict of lock objects with waiter counts, per process; the progress of each run | acquire/release interest in a key, `run_connector` | calls the ingestion pipeline for each item, inside the key's lock; raises `ConnectorRunError` to its driver |
| Run status, `connectors/run_status.py`, `admin/routes.py` | an ordered dict of at most 200 run records (`MAX_RUNS`), per process | trigger a run (202), background driver, poll (200/404), list | starts the connector driver in the background; administrators poll it |
| Ingestion pipeline, `custom_rag.py`, `admin/search_admin_service.py` | none of its own: the search index is the state | `upload`, `delete_by_source_path`, deletes of a document or of a tenant, provisioning of the index | many of them run at once against one index; nothing but the connector's lock orders them |
| QnA admission, `qna/app.py` | a deque of hits per key behind a lock; an in-flight counter | rate-limit check, take and give back a slot | runs before every question; the check on pool threads, the gate on the event loop |
| Answer streaming, `openai_service.py`, `qna_pipeline.py`, `qna/app.py` | per request: a bounded `asyncio.Queue`, a stop event, a worker thread, a chain of three generators; a pool of worker threads | pump, drain, stop, send, disconnect | holds a slot of the gate from start to teardown |
| Standard pipeline and answer cache, `qna_pipeline.py`, `answer_cache.py` | an ordered dict of answers with expiry times, per process | look up, rephrase, retrieve, generate, store, evict | answers `/qna`; the agent graph calls it as its fallback |
| Token validation, `qna/src/core` | the signing keys of the tenant with the time they were fetched; key ids that did not resolve, with theirs | check a token, fetch keys, refresh for an unknown key id, bind the tenant to its tags | in front of every question; fetches from Azure AD |
| Agentic answering, `qna/src/agents` | per request: route, draft, evidence, map calls; a pool of map threads | classify, map and reduce, reason and search, verify and refine | every strategy falls back to the standard pipeline |
| Upload endpoint, `ingestion/app.py` | uploads in progress and the memoised search client, per process; per request: the files of a folder and what became of each | length check, admin token, take and give back a slot, collect and ingest, create the index | calls the ingestion pipeline for each file |
| Connector sources, `connectors/blob.py`, `sharepoint.py` | per run: the page, the item, the attempt, the buffer of a download | list by pages, filter, fetch, back off | the driver pulls items from them; read from Azure Storage or Graph |
| Python SDK, `clients/python` | per call: the attempt; the decoder's fields | ask, stream, read, trigger a sync; retry; decode events | calls both services; used by the command line, the retriever and the Teams bot |
| Teams bot, `services/teams-bot` | none | answer a message with a card | calls the SDK |
| Admin console, `web/src` | tab, scope and server; what each hook shows and waits for; the two delete cards | switch, apply settings, open, poll, trigger, delete | calls both services; answers arrive in any order |
| Evaluation, `eval` | per job: records, scores, means; a history of archived runs and the report of the last one, both directories | assemble, score, report, compare, archive, render the trend | asks the QnA pipeline; jobs share the directories |

`PROJECT.json` lists every component with its sources, and the hazards of each
at the line where they bite.

### What is hard

* *Interleaving.* Runs of one process share a registry of locks that forgets
  idle keys; uploads of one document share their chunk ids; a worker thread and
  an event loop share a queue and a flag.
* *Stale reads.* `upload` lists the chunks it will prune before it extracts and
  embeds for minutes; the rate limiter reads the clock before it takes its lock.
* *Partial failure.* A batch of index writes may be served in part without an
  exception; a run may die between its delete and its upload.
* *Restart.* Registry, locks and run records live in memory: two processes do
  not share them, and a restart loses them.
* *Overtaking.* Key fetches, answers to a page and requests that were given up on
  arrive in another order than they were sent; the newest is not the last.
* *Changing input.* A library is listed page by page while files come and go; a
  file shrinks between the look at its size and its turn; a blob changes between
  two ranges of its download.
* *Retries.* A request that timed out may have been carried out, or may still be:
  a second attempt must not start a second run.
* *Teardown.* A client may leave while its stream awaits a token, while a send
  is blocked, or between the two.

### What makes it correct

* Driver: at most one run of a process between the delete and the upload of one
  `(source_path, bot_tag)`; the registry holds an entry for exactly the keys in
  use; a run that started ends.
* Run status: the store of a process holds its newest runs in order, each with the
  status it has come to; a 404 is evicted, lost or of another process, never "just
  created"; what one process tells never goes backwards; a record settles.
* Pipeline: tenants never touch each other; an edited file replaces its
  previous version whatever failed before; of a document that was indexed, others
  that upload it again take only what their own parse does not yield.
* Admission: the window that ends at the newest check of a key admits no more than
  the limit; Retry-After is enough; the gate counts what is in flight.
* Answering: a cached answer is the tenant's own and fresh, recently used ones
  are kept; what an agent node, its classifier or its verifier gets wrong costs a
  fallback at most; every request ends.
* Tokens: a withdrawn key is trusted no longer than its entry and one fetch; a
  published one is found in time, and kept through an outage; only the opt-out
  lifts the tenant binding.
* Uploads: the slots count what is in progress; a folder is answered for each of
  its files; what is reported as indexed is; the index is there before a write.
* Sources: a listing misses nothing that stayed; a download is one version, whole,
  of bounded size and delay; what is left without chunks are uploads that came back
  empty or degraded, and the item at hand.
* SDK: a sync is started at most once; a streamed answer is whole or an exception;
  every call is reported.
* Console: what settles on the page is the newest answer of the scope above it; the
  run list never goes back; a delete is confirmed in the scope it is sent for.
* Evaluation: every score is in the report once; no floor is met by missing data; what
  a killed job leaves torn stops no gate; but for gates of one second, every run is in
  the archive and in its trend.
* Streaming: every client gets all tokens in order and one truthful end, or an
  envelope; a worker that nobody listens to ends.

## Modules

| Module | Models | Used by |
| --- | --- | --- |
| `KeyedMutex` | abstract: at most one run per slot in the window | `SingleFlight` (refines it), `Ingest` (uses it) |
| `SingleFlight` | the lock registry and `run_connector` of `core.py` | `MCSingleFlight` |
| `ConnectorProofs` | theorems about `SingleFlight` and `Sources` | |
| `RunStatus` | run records, trigger, background driver, polling | `MCRunStatus` |
| `RunStatusProofs` | theorems about `RunStatus` | |
| `Ingest` | `upload`, `delete_by_source_path`, admin deletes over one index | `MCIngest` |
| `IngestProofs` | theorems about `Ingest` | |
| `Throttle` | sliding-window limiter and concurrency gate of `app.py` | `MCThrottle` |
| `AnswerCache` | the LRU with expiry of `answer_cache.py` | `QnaAnswer` |
| `QnaAnswer` | `generate_answer` with the cache; the agent graph around it | `MCQnaAnswer` |
| `QnaAnswerProofs` | theorems about `QnaAnswer`, its cache and `Evaluation` | |
| `AnswerStream` | abstract: what a client of `/qna/stream` is given | `TokenStream` (refines it) |
| `TokenStream` | worker, queue, generators and gate slot of a streamed answer | run directly |
| `TokenStreamProofs` | theorems about `TokenStream` | |
| `TokenKeys` | the middleware, the signing-key and the negative cache, the tenant binding | `MCTokenKeys` |
| `AdmissionProofs` | theorems about `Throttle` and `TokenKeys` | |
| `Uploads` | `POST /upload`: slots, file and folder mode, creation of the index | `MCUploads` |
| `UploadsProofs` | theorems about `Uploads` | |
| `Sources` | one connector run over a Blob container or a SharePoint library | `MCSources` |
| `RemoteCall` | abstract: what a call of the SDK promises about the server | `Sdk` (refines it) |
| `Sdk` | calls with retries, the decoder of streams, CLI, retriever and bot as callers | `MCSdk` |
| `Console` | tabs, scope, hooked loads, run list and delete cards of the admin console | `MCConsole` |
| `ClientProofs` | theorems about `Sdk` and `Console` | |
| `Evaluation` | evaluation jobs, the continuous gate and its history | `MCEvaluation` |

Each module states its type invariant as `TypeOK` (`KeysTyped` in `TokenKeys`, `PageTyped`
in `Console`, `RunTyped` in `Sources`, `EvalTyped` in `Evaluation`: the names of two modules
that one proof module extends are disjoint) and its properties as named parts. The parts of
one concern are joined into the definition that a run checks (`StoreTruthful`,
`DownloadSound`, ...); the part says what it is about.

An operator named as the faulty form of a definition (`DroppedEvicting`,
`UpdatedAtEnd`, ...) is no part of a specification: it is the definition
with a plausible mistake in it, kept to show that the properties notice. The
table "mutants" of `PROJECT.json` names the property each one breaks.

### SingleFlight

`registry[s]` is `_locks` of a process at a key: the lock object and its waiter
count, `Absent` when the dict has no entry. A slot is a process and a key,
because the dict is a module global and every worker process has one. `pc[r]`
follows `run_connector`: `enumerate` at the head of its `async for`, `waiting`
between `_acquire_single_flight` and the return of `lock.acquire`, `fetch`,
`delete` and `upload` inside the window, `unlock` at the inner `finally`, `drop`
at the outer one. `NextItem` creates the entry and the lock object or counts up;
its `Grant` says that a new lock object is none that is still referred to, which
is what an allocator guarantees and nothing else about identities is assumed.
`DropInterest` counts down and takes the entry away with the last waiter; every
stage may raise, and the exception goes through both `finally` clauses. The acquire
may raise as well (`AcquireFails`, when no helper thread is to be had) and goes through
the outer one only. It is not cancelled: the event loop of a run is its own, and
nobody cancels its one task.
`Crash(p)` is the death of a process: its entries, its locks and its threads go
together, the other process's stay.

### RunStatus

`store[p]` is `_runs` of a process, oldest first. `Trigger` is
`record_started` and `add_task` in one stretch of the event loop, `Respond` the
end of the response that lets the background task begin. `RecordCompleted` and
`RecordFailed` update in place and do nothing for an evicted id, as the code
does. Items are counted whatever status `upload` returned, as the driver does, and
a failed record carries 0 of them. The processes share one socket, so that `Poll(r, p)`
may be served by any process from its own store, and `answer[r][p]` is what `p` last said of
`r`. `answer`, `log` and `lost` are history: the answers, the runs a process started, the
runs whose process went down. `AnswersMean` says what an answer means wherever it comes
from; `PollsMoveForward` is about the answers of one process, as those of two do contradict
each other.

### Ingest

`index[c]` is the `source_path` of a chunk. A chunk's id is `tag, document, mode, n`, as
in `custom_rag.py`, and a document's identity is its content alone, so that uploads of
equal content from two paths share chunks, and a chunk takes its last writer's path. A
task is one item of a connector run (`sync`), one `/upload`, one delete of a document or
of a tenant. Its phases follow the code: fetch, collect the ids at the path, delete them
in batches, collect the ids of the document, parse, upsert in batches, prune what is
stale, return. Steps of different tasks interleave between any two calls. `Faults` names
what may go wrong: a call raises, a process dies, a batch is served in part (`degraded`
for upserts, `partialDelete` for deletes), a parse yields nothing. What a parse yields
(`Yield`) depends on the mode and on how much of the content it finds, `most`, so that two
uploads of one content need not write the same ids: `custom_rag.py:678-679` names both
cases as what the prune is for. Swallowed exceptions
(the collection of stale ids, the prune) are swallowed here too. The index is one in
which `source_path` is filterable (see the observations). `Ingest` takes the window of a
connector item from `KeyedMutex` by `INSTANCE`, which is what `SingleFlight` is proved
to implement, so that the two compose.

### Throttle

Time counts ticks, several to a second, so that `int(...) + 1` of the
Retry-After rounds as in the code. `ReadClock` and `Admit` or `RateLimited` are
separate steps because `check` reads `time.monotonic()` before it takes the
lock and runs on pool threads. `Kept` is the eviction loop, which pops from the
left until the first hit inside the window, whatever comes after that hit.
`AcquireSlot`, `Rejected` and `TearDown` are the gate's yield-dependency.

### QnaAnswer

`state[r]` is what one request of `POST /qna` keeps: `pc` names the call it
awaits, `within` where `standard_route` was called from (as the node itself,
inside the `try` of a strategy that found nothing, in its `except` clause),
`evidence` the chunks a strategy gathered, `calls` its map calls, `draft`,
`answer` and `cites` the graph's answer before and after the verifier. `flags`
are the switched-on features, one setting for the process. `cache` is the
process-wide answer cache, its operations those of `AnswerCache`: a sequence,
least recently used first, since that is all the code uses of `OrderedDict`.
A map call waits for its request's semaphore, is ready (submitted, or asleep
between two attempts, holding the semaphore), runs on a thread of the executor
all requests share, and settles; `gather` cancels none, so the calls of a
request that fell back go on. Sub-query searches touch nothing shared and are
one action that says what was found and whether any raised. What a model
answers (route, enough evidence, grade, a blank text) is a choice. `recent` is
history: the cache as it would be without eviction and expiry.

### TokenStream

`worker[r]` is the pump thread: `read` blocked on the upstream, `check` at the
top of `_put`, `put` blocked on the future of `queue.put`. `side[r]` is the
consumer: `priming` awaits the first item in the handler, `primed` has it and
no body yet, `get` awaits the queue in the body, `send` is giving an event to
the client, `dropped` is a chain of generators nobody will resume.
`StopWorker` is the `finally` of `stream_openai_response`. A disconnection
while the body awaits the queue runs it in the cancellation; a disconnection
while a send is blocked cancels the send only, and the generators are closed
when they are collected. A request gives its gate slot back in both.
Event-loop code between two awaits is one action.

### TokenKeys

All of it runs on one event loop, so the pieces between two `await`s are actions.
`cache` is `_jwks_cache` for the one tenant (keys and `at`, the time they were stored),
`negative` is `_negative_kid_cache`, oldest first. `UseCache` is a request whose key set
is at hand in a fresh entry, `StartLoad` one that has to fetch it. `Reply` is the
issuer's answer, with what it publishes at that moment; what the request does with it
comes later, so answers may be stored in another order. `Loaded` and `Refreshed` store
it, one under the time the fetch began and the other under the time it ended, as the
code does; `FetchFailed` stores nothing. `Others` takes an entry for the same kid out of
the negative cache before `Recorded` puts it at the end. `Resolve` is what follows the
look-up without another `await`: the claims of a token whose key is known, or for an
unknown one the negative cache, the throttle and the refresh. `Bind` is the endpoint's
guard. `life` is the schedule on which Azure AD publishes keys; `heard` is history. The
clock is `time.time()` here and `time.monotonic()` in `Throttle`; the two modules share no
name, so that one module can extend both for the proofs.

### Uploads

`active[w]` is `_active_uploads` of a worker process, `client` the processes that hold
a memoised search client. A request goes through the length middleware, the
admin token and the slot, then reads its file or collects its folder; `Skip` is a
file that is gone, grown or a link when its turn comes. `PastPdf` leads to the
creation of the index: `ListIndexes`, then create, where another process may have
been first; looking for it may fail too (`ListFailed`), and then nothing is memoised.
What `upload()` does inside is `Ingest`; here it returns or raises,
and `FileStatus` and `Code` say what the client is told. `Ends` gives the slot
back on every way out.

### Sources

`run.at` follows `run_connector` over a source: `list` a page, `items` of it, `download`
a file, `reading` its chunks, `delete` and `upload`. A page is a set of entries, those
that come next in the order of the listing, and its items are taken in any order. `TurnTo`
is the step to the next page, `BlobYields` and `GraphYields` the filters on names and
sizes, `WithChunk` the ceiling on what a stream delivers, `Opened` an answer that has
begun, which for an empty file is all of it, `AttemptFailed` the retry loop, `RetryDelay`
its pauses. The two
connectors differ as they do in the code: Blob does not retry its listing and retries
every error of a download, SharePoint retries both, but only throttling, server and
transport errors, and heeds Retry-After. A Blob that changes during a download ends the
attempt, Graph serves a snapshot. `Edit` changes the source between any two steps, and
`touched` remembers which entries it changed. `upload()` may return "empty" or "degraded",
having written nothing or some of the chunks (`Part`), and the run counts the item and goes
on; `short` remembers these entries. One whose content is of nothing, such as a text whose
download a redirect answered (see the observations), always is.

### Sdk

`calls[c].at` is where a call is: to be sent, waiting, asleep before a retry,
reading a stream, ended, reported to whoever made it. `wire` holds the requests on their
way, also those that were given up on: `Serve` may carry one out later, `Lose`
drops one. `ShouldRetryException`, `ShouldRetryStatus` and `RetriesLeft` are
`_retry.py`; `Feed` and `Dispatch` are the decoder, which takes a line at a time
and gives an event at a blank one. A token is the sequence of its lines, so that
splitting and joining is modelled; a body keeps the lines of an event together, and
`AfterLine` is what is left of it after one. `BotOutcome` and its likes are what the callers
in the repository make of the end of a call. `RemoteCall` knows no attempts and no
wire; `Verdict` maps the end of a call to what its caller knows.

### Console

A request has a number, and whoever asked for it knows the newest of his
own: `Settle` is the answer to a hook of `useAsync`, which only the newest may set;
`SettleRuns` the one to the run list, which compares as well. `Mount` is what a page
does when it is shown, `Apply` new settings while it is: which effects run again depends
on what each lists as its dependencies, and that is what `ListReruns` and
`PanelReruns` say. A card keeps what was typed and ticked until the scope changes
(`Reset`), and its delete runs on; so does a trigger. When a page is left, the answers to
what it sent are dropped with it: a delete it has sent is carried out, but nothing on the
page tells of it, and the card of a page that is opened later is new and not busy.

### Evaluation

A job goes from `assembling` through `scored`, `reporting`, `archiving` to its
end. `Assemble` asks the pipeline for each record of the benchmark, which answers or fails;
`Score` takes the rows that the scoring gave, or its exception (`Scorings`), and joins
them to the records (`WithRows`). Rows may be fewer than samples, and a row may have `NaN`
for a metric, nothing at all, or what is no number (`NoNumber`), which the `isinstance`
filter drops (`Numeric`). `Misses` and `Regressed` are the floors and the comparison with
the baseline; `NaN` compares as in floating point. Opening a file for writing and writing
it are two steps, so a job that is killed, or two that write at once, leave `Torn` files.
`LoadHistory` skips what is no JSON and what has no means: it is the sequence of
`UsableFiles` in their order, and `LatestBaseline` the means of its last run. What is not
UTF-8 (`Garbled`) raises out of it (`HistoryRaises`); no job writes such a file, but one
may lie there. `gates` is history: how many gates archived themselves in each second.

## Runs

| Run | Shows | Instance |
| --- | --- | --- |
| `SingleFlight_registry` | mutual exclusion, exact counts, one lock per key, refinement of `KeyedMutex`, every run ends | 3 runs on 2 processes, 1 key, 2 items a run, crashes |
| `RunStatus_store` | a store is the newest runs in order, each record with the status its run has come to; a 404 is evicted, lost or of another process; the answers of a process move forward; records settle | 3 runs at 2 processes with stores of 2, one restart, one run polled in the process that does not know it |
| `Ingest_index` | one version at a path at any time; a successful sync leaves exactly the new version; overlapping uploads prune only what their own parse does not yield; tenants are isolated | 3 tasks in five mixes, 3 contents, 2 modes, 2 tenants, every fault but a partly served delete |
| `Throttle_admission` | the newest window is bounded; Retry-After is enough; the gate is exact | 4 requests of 2 keys, limit 2, window of 2 s in half-second ticks, clock to 6 |
| `QnaAnswer_requests` | cache hits are own and fresh; recently used keys stay; only a failed standard pipeline fails a request; a failed search costs that lookup only; a reduce sees every batch; the verifier leaves or improves; requests and map calls end | 4 requests of 3 keys, cache of 2; 2 requests in the graph, 2 batches of 2 attempts on 1 thread, 2 ReAct rounds |
| `TokenStream_delivery` | a stopped worker reads at most one chunk more; every client gets what `AnswerStream` says; workers and requests end | 2 requests, 1 thread, 3 tokens through a queue of 1 |
| `TokenKeys_rotation` | withdrawn keys are forgotten in time, new ones found in time, known ones kept through failing fetches; only the opt-out unbinds a tenant | 3 requests under 2 keys in three schedules, an entry's lifetime of 9 and a clock to 10 |
| `Uploads_slots` | slots are exact and come back; reports are complete and true; every write finds the index; losing the race to create it costs one upload | 3 requests at 2 workers with 1 slot each, 4 files of every kind, folders of at most 3 |
| `Sources_run` | a listing misses nothing that stayed; a download is whole, of one version, bounded; chunks are missing only of short uploads and of the item at hand; the run ends | 5 entries in pages of 2, a ceiling of 2 chunks, 3 attempts, 2 edits, both connectors |
| `Sdk_calls` | answers are whole and in order, retries used up; refinement of `RemoteCall`; every call is reported | 2 calls, 2 retries, 4 streams |
| `Console_pages` | what settles is the newest answer of the scope; run list never goes back; deletes are confirmed in their scope, one at a time; the page settles | 2 scopes, 2 servers, 2 documents, 5 requests, 2 changes of scope |
| `Evaluation_gate` | every score is accounted for and floors hold; neighbours hold and torn files are tolerated; a gate's own run is archived and in its trend, and stays | 2 jobs, 2 runs, 2 seconds, 5 command lines, 2 metrics, rows of 4, 0, `NaN`, no number and nothing |

### Why the bounds are enough to be interesting

*SingleFlight.* Three runs are needed for "the last waiter leaves while another
arrives and a third holds": with two on one process they contend, with the third
on the other process the registries differ. Two items a run let a run come back
to a key whose entry was dropped and created anew. One key suffices in TLC as
runs of different keys share nothing but the allocation of lock objects; the
proofs cover any number. Three lock objects are one for each run, the most that
can be referred to at once.

*RunStatus.* A store of two with three runs is the smallest in which a run in
flight is evicted by a newer one, completes afterwards, and two others remain
whose order matters. One restart is enough to lose records; there is no state
a second one could confuse, since nothing survives the first. Two processes give every
meaning of a 404. Ids are random in the code and compared for equality only, so the runs are
drawn in order (`DrawnInOrder`); and as the answer of a process that does not know a run is
404 whatever else happened, one run polled there shows what there is (`FewStrays`). Both
are constraints of `MCRunStatus`, which cut states of other runs and no step of these.

*Ingest.* Batches hold one action and a content yields two chunks, so that
every batch boundary is a point where a fault or another task may come in. Three
tasks give a stale run, an overlapping one and a third party (another tenant's
task, a delete, another path). The five mixes are the combinations whose
interference differs: syncs of a file being edited; equal content under two
tenants with a document delete; the same with an upload and a tenant delete;
two equal uploads of one content with one in the other mode, under another name; the same
with one whose parse yields a chunk less. In the last two a prune has something to delete,
and the list it deletes by was read before the others wrote. `EditReplaces` is about mixes
of syncs only and `UploadedStays` about mixes of uploads only: with a delete
among the tasks what they promise is what the delete is there to end.

*Throttle.* The clock reaches past the window by half, so the window turns over
while requests wait between reading the clock and taking the lock; two ticks a
second show the rounding of Retry-After. Requests of one key are
interchangeable, which the symmetry of that run uses; it checks no liveness.

*QnaAnswer.* Three keys through a cache of two make evictions, one key asked
twice with two spellings makes hits and overlapping misses, and the others
differ from it in the mode alone and in the tenant alone; the clock reaches the
TTL. Two batches on one thread make a call that waits while another gives up,
and two requests make one wait for the orphans of the other. Two attempts and
two ReAct rounds are the smallest numbers with a retry and a second round. The
second agent mix has the map route and the verifier off, so that a
classification collapses, and the cache on, so that a fallback may hit.

*TokenStream.* Three tokens through a queue of one make the worker block on a
full queue, resume and block again; two requests on one thread make a worker wait
in the pool behind another that has not ended.

*TokenKeys.* The entry outlives the throttle and the negative entry together, and the
clock outlives the entry, so that a key is fetched, refused, found and forgotten
in one behaviour. The schedules are a rotation at once, one with an overlap, and
none; a negative cache of one entry evicts. Three requests give a fetch that was
started before and stored after another one.

*Uploads.* One slot a worker makes every second upload of a worker a refusal; two
workers find the index missing at once. The three disks hold a broken container, a
broken PDF and a blank document beside files that are too large, of no known
format, or too many. Requests of one worker interleave in a folder only between files.

*Sources.* Five entries in pages of two make three pages, and a page that is empty
after its filters; one text is over the ceiling and one is empty; two edits remove an entry
of a page that is being read and add one; three attempts are the fewest with a pause that is
capped and one that is not.

*Sdk.* The calls of a client share nothing, so that one of each kind beside one
that is refused or is a second sync shows what there is; two retries make one that
fails, and one that is served after the call gave up.

*Console.* Five requests are a list, its answer's reload, a panel, a poll and a
trigger, or a list that two changes of scope overtake.

*Evaluation.* Scores of 4, 0 and `NaN` over at most two records make means on both
sides of the floor and of the tolerance; a row with a number for one of the two metrics and
one without any make counts that differ between metrics, and a record without scores; two
seconds let two runs stamp the same one, or one each, behind what somebody dropped there.
The jobs are interchangeable, which the symmetry uses; the run checks no liveness.

### Fairness

`SingleFlight` and `RunStatus`: a thread that can move does, because the operating
system schedules it and every remote call it makes returns or raises (the Azure clients
have timeouts); the trigger of a run, the death of a process and an acquire that raises
are never forced.
Waiting for a lock has weak fairness only, since `threading.Lock` keeps no queue; runs
end all the same, as every listing is finite and so the others stop asking for the lock.
`TokenStream`: threads run and reads return, the event loop runs what is ready, a
dropped generator is collected, and a client that is being sent something takes it or
its connection breaks; nobody is forced to call, and nobody to leave while it waits.
`QnaAnswer`: what a request or a map call awaits returns or raises, because the clients
have timeouts, and a free thread takes what was submitted; the clock is not forced.
`Uploads`: the event loop gets to every request it has something to do for, and every
call a handler makes returns or raises; files are never forced to change. `Sources`: the
run has a thread of its own and every call a time limit; the source is never forced to
change, and never to stop. `Sdk`: the client goes on, since httpx bounds every wait;
nothing is assumed of the server or the network, which may lose everything. `Console`: a
request is answered or fails, which the browser guarantees; the operator is free to
stop. `Ingest`, `Throttle`, `TokenKeys` and `Evaluation` state safety only, without
fairness.

## Proofs

Eight modules hold proofs. What they prove holds for every value of the constants that
meets the assumptions the module names, so for any number of requests, threads, files
and tokens; the runs check the same definitions on small instances.

### One run per slot

`ConnectorProofs` proves about `SingleFlight`, for every finite set of runs,
any processes, keys and lock objects:

* `SpecTypeOK`, the type invariant;
* `SpecMutualExclusion`, at most one run per slot in the window;
* `SpecRefcountExact` and `SpecOneLockPerKey`, about the registry, and
  `SpecRegistryExact`, which joins them with the types as the run does;
* `SpecImplementsKeyedMutex`, the refinement of `KeyedMutex`.

The assumptions are those the module names: the runs are finite in number
(`RunsFinite`, for the counts to be cardinalities), each has a process
(`ProcOfType`), `NoLock` and `NoKey` are no lock and no key, and `MaxItems` is a
natural number. The proof needs no bound on items, crashes or lock objects.

Mutual exclusion is not inductive. That the two runs inside a window hold the
same object, and so exclude each other, depends on the entry not having been
dropped and created anew between them, which depends on its count: it goes only
with the last interested run. `IInv` therefore joins

* `RegisteredShare`: a run between acquire and release of interest has the lock
  its entry records;
* `HeldInWindow` and `HolderUnique`: who is in the window holds its object, alone;
* `RefcountExact`: an entry's count is the number of interested runs, and no
  interested run means no entry;
* `SlotsApart`: two entries never hold one object;
* `UnregisteredEmpty`: a run without an item refers to no object, so that a new
  object is really new.

There is a lemma for each kind of step: `PcStep` for the steps that move a run's
`pc` and nothing the invariant looks at, one each for taking interest, acquiring,
releasing, dropping interest and a crash. `SpecIInv` joins them; the theorems
follow from it, and `StepImplements` maps each step to a step of the mutex or a
stutter: acquiring enters, releasing leaves, a crash makes all runs of the
process leave at once.

### Streaming

`TokenStreamProofs` proves, for a finite set of requests (`ReqsFinite`, for the slots of
the gate to be counted), any number of tokens, and positive sizes of queue, pool and gate
(`SizesPos`):

* `SpecTeardownPrompt`: typed queues within their bound, the gate within its limit, and at
  most one chunk read after the stop flag is set;
* `SpecImplementsAnswerStream`: the refinement of `AnswerStream`.

For the first, `TypeInv` adds to the types what is in hand where something is put or sent,
and that a late read is the worker's last: by itself "at most one" does not survive a step,
as nothing would keep the worker from a second one. For the second, what a client has
taken says nothing of what it will be given next, which lies in the event being sent, the
queue and the worker's hand. `Pipe` says that these are consecutive positions of the
answer, that `Want` tells what each position holds (a token, or the sentinel for how the
answer ended), and that together they are all the model has yielded. `Stages` says the
same of the states around: nothing yet, the citation or the error when every token was
taken, `[DONE]` after one of them. `HeadIsNext` is the step that uses it: the sentinel at
the head of the queue means that every token was taken. Each step is then a read of
`AnswerStream` (`WorkerRefines`), a delivery (`ClientRefines`, `LoopRefines` for the
envelope), or a stutter.

### The client

`ClientProofs` proves of the SDK, for any calls, any number of retries, any answers and any
network:

* `SpecKeepsPromise`: the SDK implements `RemoteCall`, from the invariant `IInv` (`SpecIInv`):
  whatever tells of an effect (an answer, a stream, a response on its way) has one, and a
  sync that is on its way or was carried out is neither sent again nor reported as never
  sent. The second half is what a retry could break, and it relates the client, which knows
  only what it was told, with requests it has given up on and the network still holds;
* `SpecAnswerIsWhole`: what a stream yields is the beginning of the answer, what it returns
  normally is all of it with its citation, an idempotent call raises a transient failure only
  after all its retries, and no call takes effect more often than it may be tried.

The second needs a position in the stream, which the client does not keep. `Reading` says
that there is a script (the events as the service sends them, cut off or not, or failing
after some of the tokens) and a place in it, so many events and so many lines of the next,
such that the unread lines are those behind it (`Unread`), the decoder holds what the
lines of the next event amount to (`Half`), and the tokens yielded are those of the
events before. `ReadLineStreams` moves that place by one line: `HalfFed` inside an event and
`HalfGiven` at its blank line; `FlushStreams` is for the event that has none. The bound on
effects counts attempts, `ran` plus those on the wire being at most those made.

Its hypothesis `SentinelFree` says that no token reads like the sentinel; the protocol has
it in band, and with such a token the property is false, as observed below. The run meets it
(`CasesCovered` of `MCSdk`).

Of the console it proves, for any scopes, servers and documents, any number of requests and
any order of their answers, `SpecPageIsCurrent`, `SpecDeletesConfirmed` and
`SpecRunsNeverGoBack`. None of them is inductive: what is shown says nothing of the requests
that are still on their way, one of which will be shown next. `PageInv` says it of them:

* `Numbered`: no two requests have the same number, so that the test of `useAsync` and of
  `loadRuns` against the newest number lets one answer through and no other;
* `HookOK` and `Shows`: the newest request of a hook, when it is out, is for the scope in the
  header and the document of the panel, and so is what a hook shows that does not load;
* `RunsOK`: the list of runs is older than its newest request as long as that is out, and a
  trigger that waits has its request, or its reload, out;
* `CardsOK`: a card that is not busy has no request out, and a busy one has no second; what is
  typed was typed since the last change of the scope;
* `Unhooked`: a tab without a list has none and asks for none, so that leaving a list and
  coming back starts from nothing.

A hook whose effect runs again keeps its old data while it loads, and that data may be of the
scope left behind: `Shows` speaks of hooks that do not load, and `RerunOK` is the lemma that
the flag is set in the step that changes the scope. The assumption is that `None`, the value
for settings that are not there, is no server (`NoneNoServer`).

### Admission

`AdmissionProofs` proves of `Throttle`, for a finite set of requests and any limit,
window and gate (a limit that is not positive switches its part off, as in the code):

* `SpecGateExact`: the counter of the gate is the number of requests in flight;
* `SpecLimiterSound`: no window that ends at the newest check of a key holds more admitted
  requests than the limit. A thread reads the clock before it takes the lock, so the deque
  need not be sorted and an eviction stops at the first hit that is young enough; the
  invariant `WindowInv` is therefore not about its order: every admitted request inside
  the newest window has a hit of its own in the deque, whose length the check bounds.
  A hit is evicted only when it lies outside the window, so the matching survives.
* `SpecRetryAfterSuffices`, an action property: a step that answers 429 names a wait after
  which the key has room. The wait is computed from the head of the deque alone, and that
  is enough: the head was kept (`KeptHead`), so it is inside the window and the wait
  positive; rounded up, it ends behind the head's expiry (`RetryLongEnough`), and evicting
  the head alone makes room (`OldestGoes`). Neither needs the hits to be in order.

Of `TokenKeys` it proves, for any requests and keys, any schedule on which the keys are
published, any tokens and settings (`CasesTyped`), any times (`TimesNat`; only the lifetime
of an entry has to be positive) and any order in which fetches are answered, fail and are
stored:

* `SpecTenantsBound`: only a documented literal lets a request out of its tenant's allow
  list; the key cache holds one entry, the negative cache each kid once within its cap;
* `SpecKeysTracked`, two action properties: a withdrawn key is trusted for the lifetime of an
  entry and one fetch at most, and a request whose key is published and was heard of lately is
  served from the cache, whatever unknown kids and failing fetches came meanwhile;
* `SpecRotationPickedUp`, an action property: a good token under a new key is refused for its
  kid only until the throttle, the negative entry and one fetch are over.

None of the three can be read off the caches, which hold no word on when the issuer
published what they contain. `KeyInv` supplies it: the keys of an entry, and of an answer
in hand, are those published at one moment of the fetch (`CacheOK`, `ReqOK`); a kid that
is recorded was, when it was, new or withdrawn (`NegativeOK`), which bounds how long a
refusal may go on, as a refusal out of the negative cache does not record again; and a
published key that was heard of is in the entry there is, though an older answer may have
replaced the one that brought it (`HeardOK`). `Told` is what a step may make of a request,
in terms of such a moment; `RequestSteps` shows that each step tells nothing else, and the
properties are arithmetic on it (`ToldExpires`, `ToldSurvives`, `ToldPickedUp`).
`FetchMax` stands for the HTTP timeout of a fetch.

### Runs and their records

`RunStatusProofs` proves, for any runs, processes, capacity and restarts:

* `SpecStoreIsNewest`: the store of a process is its newest runs in trigger order, and
  each record has the status its run has come to, with the items it counted if it completed
  and 0 if it failed (`RecordsTruthful`);
* `SpecStoreTruthful`: moreover a 404 is told only of a run that was triggered in another
  process, evicted or lost, and every other answer comes from the run's own process;
* `SpecPollsMoveForward`, an action property: what one process tells of a run never goes back.

`StoreInv` ties the store to the log of what its process triggered: one is the other
without the `Evicted` oldest (`Tracks`), and the log has no run twice (`Distinct`). Without
the log an update could not be told from a revival. `PollInv` adds that a run that is not
lost is in the log of its process (`Logged`), and that what a process last answered stays true
(`AnswersKept`): a terminal status was told only of a run that is over and whose record says
so, a 404 only of a run without a record there: one of another process, one that is lost, or
one behind at least `MaxRuns` others in the log.

### Ingestion

`IngestProofs` proves, for any tasks, contents, paths, batch sizes and faults:

* `SpecTenantIsolation`, an action property, from `OwnInv`: whatever a task has listed and
  means to delete is of its own tag, so that a step of it, however much later, is too;
* `SpecUploadedStays`: a chunk of an upload that reported success is missing only because
  another upload of the document, whose own parse does not yield it, has sent all that its
  parse does yield; so among uploads of equal yields nothing is ever missing. It is about
  mixes of uploads alone, in any modes. `UploadInv` says of each upload which of its chunks
  are `Safe`, in the index or taken by one with a reason, and of one that prunes that all it
  has on its list, however old, is of its document and not of its own parse;
* `SpecSingleVersion`: at no instant does a path show chunks of two versions of its file.
  A sync that is past its deletes has its path to itself: what is left there is what it
  has written (`VersionInv`);
* `SpecVersionsReplace`: moreover, after a success the path holds exactly what was fetched
  last, whatever earlier runs left behind (`ReplaceInv`).

The hypotheses are named in `Ingest`; the run's mixes meet all of them, which the assumption
`MixesCovered` of `MCIngest` has TLC evaluate. Each says what the code leaves
open. `WritersApart`: tasks that write one path of a tenant are syncs of one process, which
the lock of the connector serializes, or uploads of the same content in the same mode; an
upload of another content under the name takes no lock.
`DeletesServed`: no batch of deletes is served in part, as nobody looks at the results
(`custom_rag.py:812-814`). `ContentsApart`: no two paths hold one content, as chunk ids are of
the content and the last writer owns them. Without the second or the third the properties
are false, as the observations below say.

### Uploads

`UploadsProofs` proves, for any requests, files, workers, extensions and disturbances:

* `SpecSlotsExact`: each worker's counter is the number of uploads it works on, whichever of
  its outcomes a request meets;
* `SpecOutcomesTruthful`, the whole of what the run checks: the report of a folder names each
  collected file once and in order, a success is searchable, no document is written before the
  index is there, and losing the race for the index costs a worker one upload at most. The
  invariant says of a request in its folder loop that its report is about the files
  before its position (`Truthful`), of a worker that no two of its requests create the index
  and that one which lost the race finds it there (`Race`), and of a worker that has cached
  its client that the index is there.

### Answering and its cache

`QnaAnswerProofs` proves, for any requests, flags, sizes and clock:

* `SpecFailuresContained` and `SpecVerifierKeepsAnswer`, from `AnswerInv`, which says of every
  request what its record holds at its place in the graph (`Answering`): a request behind the
  strategies has a draft, one in the fallback has had a strategy raise, one that waits for
  its map calls has none that failed for good;
* `SpecCacheSound`: a hit is of the request's own tenant, mode and question and fresh;
  the cache keeps its size with one entry for a key; and the keys used last stay until their
  time is over. The last part cannot be read off the cache: `CacheInv` says that the
  entries are an ordered part of the history of uses (`Ordered`), and that the answers of
  the `MaxEntries` keys used last are among them while alive (`Stays`). When the head is
  evicted, all the entries behind it, which fill the cache, were used later, so it is not
  one of the last: a count over the entries.

### Connector sources

`ConnectorProofs` proves of `Sources`, for any entries, page size, ceiling, number of
attempts and changes of the source, what the run checks: `SpecListingComplete`,
`SpecDownloadSound` (the type invariant, `WholeVersion`, `BufferBounded` and `StallBounded`)
and `SpecHoleOnlyByUpload`. `ListingComplete` speaks of a run that is done and says nothing
before; the invariant `CrawlInv` says where what is missing still is:

* `NoneMissed`: an entry that has to be taken, was there from the start and is untouched is
  ingested, or after the last entry listed with a page to come, or on the page, or the item
  at hand. A page is an initial part of what is left (`PageCuts`), so that what is on none of
  the pages so far comes after all of them, and `LastOfPage` finds the place to go on from;
* `PageOK`: a page is used up before the next one is asked for, and what is on it is yielded;
* `ContentOK`: what was read is of the version the download began with, of which at least a
  chunk is missing while it is read, and that version is the source's as long as nobody
  changes the entry. What an upload leaves behind (`Leaving`) is then the content, or the
  entry is among the short ones, or the run has failed at it;
* `RunShape`: the pauses of a request are at most a cap for each attempt made.

The theorems hold under the assumptions that there is a last entry (`NamesBounded`), that
contents have a number of chunks (`ContentsNat`), and that the backoff is capped below the
cap on Retry-After (`CapsOrdered`; 30 and 60 seconds against 120 in the code), without which
the pauses add up to more.

### Evaluation

`QnaAnswerProofs` proves of `Evaluation`, for any jobs, command lines, rows, files dropped
into the directories, tolerance, number of runs and of seconds:

* `SpecGateSound`: what becomes of a record is settled when the scoring ends, without a
  sample, when it raises, and however few and however poor the rows that come back
  (`ScoringSettles`). That as many records have a score of a metric as rows have a number for
  it rests on the places: the samples are numbered without a gap (`PlacesMatch`), so each row
  goes to one record and to no other (`RowsArePlaced`), and means and counts are over
  these (`CountsAreScores`). A job carries its means unchanged to its exit (`JobOK`). That a
  mean is a score (`MeanIsNumber`) is about a fold over a set: `SumExists` shows that its
  recursion has a solution, which the `CHOOSE` of a recursive function needs, and `SumBounded`
  bounds what it sums, each by a least counterexample in the size of the subsets;
* `SpecBaselineSound`: `NeighboursHold` speaks of two files and of nothing that runs, so it
  is not inductive. The invariant `EvalInv` says of a history no two gates were at
  (`Orderly`) that one job runs at most, that what it read as its baseline before the
  benchmark is still the newest usable run when it is archived, and that it is archived
  behind that one; a new file has then one neighbour, the run it was compared with. That the
  last of the history is the newest of the usable files (`NewestIsLast`) rests on
  `SortedExists`: the files can be put in order at all, each at the place that counts
  those up to it. `AbortInv` says that what no job has written lies at place 0 alone, so that
  a history raises over that file only (`RaisesIsExcused`);
* `SpecArchiveSound`, an action property about any jobs at once. `ArchiveInv` ties what an
  archiving job keeps to itself to the directory all of them write: the file of a gate that is
  alone in its second is torn or whole exactly as far as that gate has come, and no other job
  archives there. Whoever opens the file meanwhile is counted in `gates`, and the promise
  about that second ends. The trend that is rendered then counts the run among its points
  (`TrendHasRun`), and a whole run goes only to a second gate of its second (`EarlierRunStays`).

Assumed are that a row holds, for some of the metrics, numbers, `NaN` or what is no number
(`ScoresGiven`), that reports dropped into the directories hold scores of the metrics
(`DroppedReports`), and that a report is none of the marks for files that are missing, torn or
no text (`NoReports`). A metric RAGAS gives besides those of `METRIC_NAMES` reaches no mean,
as `_aggregate` passes over it, and is left out.

### Left to TLC

Liveness under fairness (`RunsEnd`, `RecordsSettle`, `StreamsEnd`, `RequestsEnd`,
`SlotsComeBack`, `RunEnds`, `EveryCallReported`, `PageSettles`) needs
`ENABLED`, out of this prover's reach. So are the library's induction theorems, which take
an operator as a parameter. The models define most of their data by comprehension, and where
a proof counts or sums up (`NatMin` in `UploadsProofs` and `QnaAnswerProofs`) it takes a
least counterexample, which needs well-foundedness of the naturals only.

Every safety property that a run checks, invariant or action property, is a theorem; what is
left to TLC are those of liveness.

## Observations without a run

Met while modelling; each is what the code does, and the models have it. The
first group differs from what a comment or a docstring next to the code says.

* The lock registry is per process and the container starts two workers
  (`Dockerfile:52`), so runs in different processes are inside the delete-upload window of
  one file together, where `core.py:311-312` says that they must be serialized.
  `SingleFlight` has two processes; its mutual exclusion is about each.
* A poll that the other worker process serves is a 404 for a run that was just created, and a
  client may read `completed`, 404 and `completed` again: the store is per process
  (`run_status.py:54`, `Dockerfile:52`). The comments promise otherwise: a client "can never
  observe a spurious 404 for a just-created run" (`admin/routes.py:376-378`), "a 404 must mean
  unknown/evicted/lost-on-restart, never 'just created'" (`admin/routes.py:443-445`; the same in
  the message at 534-541 and in `docs/OPERATIONS.md:211` and 236-237; 239-244 there tell of
  replicas and advise a single one, which has two workers still). `RunStatus` has the two
  processes, and `AnswersMean` counts "triggered in another process" among the meanings.
* A run that is aborted is recorded with 0 items: `record_failed` is called without the
  count (`admin/routes.py:389`, `run_status.py:120`) and the `ConnectorRunError` that carries
  it is dropped, where `core.py:474-475` says that the driver records an accurate count, and
  `core.py:95-110` that recording 0 misreports. `RecordsTruthful` has the 0.
* The prune is not "never leaving a zero-chunk window" (`custom_rag.py:678-679`) when uploads of
  one content differ in what their parses yield. One in layout mode takes the chunks of one in
  read mode that has reported success, also when its own are only written in part
  ("degraded"; the prune at 685-692 looks at no failed keys). And if after an upload in read mode
  one in layout mode lists and writes, another in read mode lists, writes and prunes, and the
  one in layout mode then prunes by its list, all three report success and no chunk is left:
  each mode was taken by the other. `UploadedStays` is what does hold: it names, for each chunk that is
  missing, an upload whose parse does not yield it.
* A re-sync whose parse is empty leaves the document without chunks, because the connector
  deleted them before (`core.py:451`), where `custom_rag.py:739-741` says that "an
  empty parse must NOT prune the prior chunks" and that they are left in place; the run goes on
  and counts the item as processed (`core.py:483`). It may be so for any number of items of
  one run. `Ingest` has the fault `emptyParse`, `Sources` the history `short`, and
  `HoleOnlyByUpload` names these items beside the one at hand.
* A file in the history directory that is not UTF-8 stops every gate: `load_history` catches
  `JSONDecodeError` and `OSError` (`trend_report.py:93-96`) and not the `UnicodeDecodeError`,
  where its docstring says that unusable files are "skipped, never raised on" (75-78).
  `Evaluation` has the file (`Garbled`); `TornFilesTolerated` is about those that jobs write.
* A row of RAGAS without any number leaves its record with neither scores nor an error
  (`ragas_eval.py:581-583`), where the comment above it says that "every scorable record ends
  with either scores or an error" (577-579). `RecordsSettled` says which records these are.
* Two gates of one second write one file (`continuous.py:66-69`): the first of them is
  missing from the history, and if it is rendered after the second has written, from its own
  trend, which is rendered "so the latest point appears in the report" (147-149).
  `ArchiveSound` is about seconds with one gate, and says that nothing else loses a run.
* The limiter takes its timestamp before the lock, so overlapping checks let more than the
  limit into a window that is not the newest one (`qna/app.py:98`, `app.py:64`).
* After a disconnection during a send the worker's stop flag is set when the dropped
  generator is collected, after the gate slot is back (`qna_pipeline.py:571`), where
  `app.py:625-626` speaks of disconnect teardown rather than collection.
* The result of a delete that is answered after a switch of the scope is shown under the
  new scope (`DangerZonePage.tsx:39`, comment at 20-21). A card that is opened again while a
  delete of an earlier one is on the wire is not busy (`DangerZonePage.tsx:28-45`), so that a
  second one may be sent; `Console` forgets the first, and `OneDeleteAtATime` is about a card
  as long as it is mounted.
* While a hook loads for a new scope it goes on showing the rows of the old one, with a
  spinner (`useAsync.ts:52`); `ShownIsOfScope` is about lists that do not load.
* The refresh for an unknown key id is throttled by a check in front of an `await`, so
  overlapping requests fetch once each within an interval, and while fetches fail
  there is no throttle at all (`token_validator.py:230-232`).
* A token equal to the sentinel `[DONE]` ends a stream, and one with a line break
  that the service does not split at and httpx does (`U+2028`, a lone carriage return) loses
  what follows it; a connection that closes cleanly without the sentinel is taken for
  the end (`client.py:266` and 309-321, `_sse.py`). The tokens of the run have neither, and
  such a connection is not among the bodies of `Sdk`.
* A response of 2xx whose body cannot be read is a traceback on the command line,
  which promises none (`cli.py`).
* The Graph client is built without `follow_redirects` (`sharepoint.py:121-152`), while
  the docstring of `fetch` says that httpx follows the redirect of a download. The
  empty body of the 302 is the content: a PDF fails its header check, a text file
  is ingested empty after its chunks were deleted.

The second group contradicts no sentence of the repository.

* The panel of the documents page sends one request for the new scope and the old
  document before it is closed (`DocumentsPage.tsx:75-79`). The hooks look at the scope and
  not at the client, so a new server under the same scope leaves the old data; the
  list that a trigger reloads is asked of the old client.
* When answers take longer than the poll interval, each poll of the run list overtakes the
  one before it and nothing is shown until one is quicker.
* A gate that failed is archived and is the baseline of the next one, so means may
  sink by the tolerance a run; a mean of `NaN` is no regression, and as a baseline hides
  one; a run in which nothing was scored passes without floors.
* The token for Graph is acquired once, when the connector is built: a run that
  outlives it ends with a 401. An error of the Blob listing reaches the driver as it is,
  so the progress of the run is lost.
* An admin delete lists the ids first and deletes them by that list (`search_admin_service.py:294`,
  267-276): a chunk that a run writes again in between, under the same id, is taken with them.
  `TenantIsolation` keeps it inside the tenant, and nothing more is promised.
* The driver counts an item as processed when `upload` returns, also when it
  returns a degraded or empty status (`core.py:452-459`).
* `delete_by_source_path` does not look at the results of its batches
  (`custom_rag.py:812-814`): with `partialDelete` among the faults, `EditReplaces`
  and `SingleVersion` fail.
* Two files of equal content in one tenant share their chunks, which carry the
  `source_path` of the last writer: a sync of one of them after an edit deletes
  chunks the other relied on. `VersionsReplace` is about contents that are apart.
* A rate-limit key that is never used again keeps its deque
  (`qna/app.py:109-110`): the table grows with the keys seen.
* `create_search_index` declares `source_path` without `filterable=True`
  (`custom_rag.py:243`), so the index the service itself provisions refuses the
  filter `delete_by_source_path` uses (`custom_rag.py:798-800`) and every connector
  item fails, while `docs/architect_phase_2/08_P1_3_CONNECTORS_ADR.md:21-22` counts
  it among the filterable strings. A fact of the schema alone, so no run.
* When a strategy has nothing to answer from it calls `standard_route` inside its
  `try` (`map_reduce.py:204`, `react_agent.py:321`); if that raises, the `except`
  clause runs the whole standard pipeline a second time, where the docstrings say
  that the exception bubbles (`map_reduce.py:29-32`, `react_agent.py:39-42`). In
  `QnaAnswer` it is the step of `StandardRaises` with `within = "try"`.
* Map calls of a request that fell back, or was answered meanwhile, go on with
  their retries on the executor all requests share.
* When two misses of one key overlap, the answer stored last stays, also when it
  was retrieved first.
* The non-streaming pipeline takes `rephrased_query` as it comes
  (`qna_pipeline.py:190`), the streaming one falls back to the query when it is
  empty (`qna_pipeline.py:529`).
* A lingering stream worker holds a pool thread after the request's gate slot is
  back, so a later stream may wait for a thread although the gate admitted it.

## Not modelled, and why

* Text extraction, token chunking, prompts, error envelopes, logging and tracing keep no
  state a property could be about; neither does the QnA support code (`config.py` but for
  the literals of the opt-out, prompts, stateless calls of the search and embedding
  services), nor the charts and tables of the trend report, nor the cards of the bot.
* The document list, the statistics and the reindex endpoints of the admin routes read
  and return; the console's side of them is in `Console`.
* Load tests, examples, templates and charts are around the system, not part of it.
* What the search service, the model and the sources do inside is external: each
  call takes effect at one instant, may raise, and may be served in part.
* Queries that read the index while it changes are not modelled;
  `SingleVersion` is about what any such query could see.
* A server shutdown in the middle of a stream is left out of `TokenStream`.

## Plan

1. `SingleFlight`, `KeyedMutex` and their proofs; `RunStatus`; `Ingest` over
   `KeyedMutex`; `Throttle`; `TokenStream` over `AnswerStream`. *Done.*
2. `QnaAnswer` over `AnswerCache`: the standard pipeline and the agent graph.
   *Done.*
3. `TokenKeys`, `Uploads` with the race for the index, `Sources`, `Sdk` over
   `RemoteCall`, `Console`, `Evaluation`. *Done.*
4. Queries that read the index while uploads and deletes run; the deletes of a page that was
   left, in `Console`; the token windows of the chunker against a definition by comprehension.
5. Proofs of the mutex, of streaming, admission, slots, tenants and the client. *Done.*
6. Proofs: the run records; versions and uploads of `Ingest`; the outcomes of `Uploads`;
   answering and the answer cache; the Retry-After; the decoding of streams. *Done.*
7. Proofs: the bounds and the key cache of `TokenKeys`; the pages of `Console`;
   connector runs over `Sources`; the gate and the history of `Evaluation`. *Done.*
