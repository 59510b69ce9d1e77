------------------------------- MODULE RunStatus -------------------------------
(***************************************************************************)
(* Connector runs as an administrator sees them: the trigger and polling   *)
(* endpoints (services/ingestion/admin/routes.py), the background driver   *)
(* of one run, and the bounded in-process store of run records             *)
(* (connectors/run_status.py).  What a run does to an item is reduced to   *)
(* its outcome; SingleFlight and Ingest model the rest.                    *)
(***************************************************************************)
EXTENDS Naturals, FiniteSets, SequencesExt

CONSTANTS
    Runs,      \* run ids the triggers may draw
    Procs,     \* worker processes, each with a store of its own
    MaxRuns,   \* capacity of a store
    MaxItems,  \* bound: items one run enumerates
    MaxRestarts \* bound: restarts of a process

ASSUME MaxRunsPos == MaxRuns \in Nat \ {0}
ASSUME BoundsNat == MaxItems \in Nat /\ MaxRestarts \in Nat

VARIABLES
    store,     \* _runs of every process, oldest insertion first
    phase,     \* where each run is
    home,      \* the process that served the run's trigger
    ingested,  \* items of the run that upload() returned for
    answer,    \* what each process last told a client that polled the run
    log,       \* history: the runs each process started since it came up
    lost,      \* history: runs whose process went down
    restarts

vars == <<store, phase, home, ingested, answer, log, lost, restarts>>

NoProc == "none"
Unknown == "404"

ASSUME NoProcOutside == NoProc \notin Procs

-----------------------------------------------------------------------------
Fresh(r) == [run |-> r, status |-> "started", processed |-> 0, failed |-> 0]

Ids(s) == [i \in 1..Len(s) |-> s[i].run]
Has(s, r) == \E i \in 1..Len(s) : s[i].run = r
RecordOf(s, r) == (CHOOSE i \in 1..Len(s) : s[i].run = r)

\* get(): the status of the record, or 404.
LookUp(s, r) == IF Has(s, r) THEN s[RecordOf(s, r)].status ELSE Unknown

\* The last n elements of a sequence (all of them when it is shorter).
Last_n(s, n) == SubSeq(s, (IF Len(s) > n THEN Len(s) - n ELSE 0) + 1, Len(s))

\* pop(run_id, None).
Without(s, r) == IF Has(s, r) THEN RemoveAt(s, RecordOf(s, r)) ELSE s

\* record_started: drop a record of the same id, insert at the newest end,
\* evict the oldest down to the capacity.
Inserted(s, rec) == Last_n(Append(Without(s, rec.run), rec), MaxRuns)

\* Faulty form: an upsert, which brings an evicted run back.
UpdatedOrInserted(s, rec) ==
    IF Has(s, rec.run) THEN [s EXCEPT ![RecordOf(s, rec.run)] = rec]
                       ELSE Inserted(s, rec)

\* Faulty form: the terminal record is re-inserted at the newest end.
UpdatedAtEnd(s, rec) == IF Has(s, rec.run) THEN Inserted(s, rec) ELSE s

\* record_completed and record_failed: in place, and nothing for an unknown id.
Updated(s, rec) ==
    IF Has(s, rec.run) THEN [s EXCEPT ![RecordOf(s, rec.run)] = rec] ELSE s

\* list_recent(limit): newest first.
ListRecent(s, limit) == SubSeq(Reverse(Ids(s)), 1, IF limit < Len(s) THEN limit ELSE Len(s))

-----------------------------------------------------------------------------
Init ==
    /\ store = [p \in Procs |-> <<>>]
    /\ phase = [r \in Runs |-> "new"]
    /\ home = [r \in Runs |-> NoProc]
    /\ ingested = [r \in Runs |-> 0]
    /\ answer = [r \in Runs |-> [p \in Procs |-> "none"]]
    /\ log = [p \in Procs |-> <<>>]
    /\ lost = {}
    /\ restarts = 0

\* POST /connectors/{source_type}/sync: record_started, then add_task, in one
\* stretch of the event loop.
Trigger(r, p) ==
    /\ phase[r] = "new"
    /\ store' = [store EXCEPT ![p] = Inserted(@, Fresh(r))]
    /\ home' = [home EXCEPT ![r] = p]
    /\ log' = [log EXCEPT ![p] = Append(@, r)]
    /\ phase' = [phase EXCEPT ![r] = "accepted"]
    /\ UNCHANGED <<ingested, answer, lost, restarts>>

\* The 202 goes out, and with the response sent the background task begins.
Respond(r) ==
    /\ phase[r] = "accepted"
    /\ phase' = [phase EXCEPT ![r] = "running"]
    /\ UNCHANGED <<store, home, ingested, answer, log, lost, restarts>>

\* upload() returns for an item; run_connector counts it whatever the returned
\* status says of failed chunks or of an empty parse.
ItemReturns(r) ==
    /\ phase[r] = "running"
    /\ ingested[r] < MaxItems
    /\ ingested' = [ingested EXCEPT ![r] = @ + 1]
    /\ UNCHANGED <<store, phase, home, answer, log, lost, restarts>>

\* run_connector returns its summary.  Nobody sees a run between its last item
\* and its record, so its end and the record are one step.
RecordCompleted(r) ==
    /\ phase[r] = "running"
    /\ store' = [store EXCEPT ![home[r]] =
           Updated(@, [Fresh(r) EXCEPT !.status = "completed", !.processed = ingested[r]])]
    /\ phase' = [phase EXCEPT ![r] = "completed"]
    /\ UNCHANGED <<home, ingested, answer, log, lost, restarts>>

\* Faulty form: the exception reaches nobody and the record stays as it was.
RecordFailedNever(r) ==
    /\ phase[r] = "running"
    /\ phase' = [phase EXCEPT ![r] = "failed"]
    /\ UNCHANGED <<store, home, ingested, answer, log, lost, restarts>>

\* An item or the listing raises out of run_connector.  The except branch of
\* the background driver passes no counts, so both
\* default to 0 whatever ConnectorRunError carries.
RecordFailed(r) ==
    /\ phase[r] = "running"
    /\ store' = [store EXCEPT ![home[r]] = Updated(@, [Fresh(r) EXCEPT !.status = "failed"])]
    /\ phase' = [phase EXCEPT ![r] = "failed"]
    /\ UNCHANGED <<home, ingested, answer, log, lost, restarts>>

\* A client that has its 202 asks for the run.  The processes share one socket:
\* any of them may be the one that answers, from its own store.
Poll(r, p) ==
    /\ phase[r] \notin {"new", "accepted"}
    /\ answer' = [answer EXCEPT ![r][p] = LookUp(store[p], r)]
    /\ UNCHANGED <<store, phase, home, ingested, log, lost, restarts>>

\* A process goes down with its store and the runs in flight, and comes back.
Restart(p) ==
    /\ restarts < MaxRestarts
    /\ restarts' = restarts + 1
    /\ store' = [store EXCEPT ![p] = <<>>]
    /\ log' = [log EXCEPT ![p] = <<>>]
    /\ lost' = lost \cup {r \in Runs : home[r] = p}
    /\ phase' = [r \in Runs |-> IF home[r] = p THEN "gone" ELSE phase[r]]
    /\ UNCHANGED <<home, ingested, answer>>

-----------------------------------------------------------------------------
RunStep(r) ==
    \/ Respond(r)
    \/ ItemReturns(r)
    \/ RecordCompleted(r)
    \/ RecordFailed(r)

Next ==
    \/ \E r \in Runs : RunStep(r)
    \/ \E r \in Runs, p \in Procs : Trigger(r, p) \/ Poll(r, p)
    \/ \E p \in Procs : Restart(p)

Spec == Init /\ [][Next]_vars

\* The event loop sends every response and the threadpool runs every accepted
\* task, whose listing is finite and whose remote calls time out.
Fairness == \A r \in Runs : WF_vars(RunStep(r))

FairSpec == Spec /\ Fairness

-----------------------------------------------------------------------------
Records == [run : Runs, status : {"started", "completed", "failed"},
            processed : 0..MaxItems, failed : {0}]

Phases == {"new", "accepted", "running", "completed", "failed", "gone"}
Answers == {"none", "started", "completed", "failed", Unknown}

TypeOK ==
    /\ store \in [Procs -> Seq(Records)]
    /\ \A p \in Procs : Len(store[p]) <= MaxRuns
    /\ phase \in [Runs -> Phases]
    /\ home \in [Runs -> Procs \cup {NoProc}]
    /\ ingested \in [Runs -> 0..MaxItems]
    /\ answer \in [Runs -> [Procs -> Answers]]
    /\ log \in [Procs -> Seq(Runs)]
    /\ lost \subseteq Runs
    /\ restarts \in 0..MaxRestarts

\* A store holds exactly the newest MaxRuns runs its process started, in the
\* order they were triggered, however their completions interleave with new
\* triggers and evictions; a listing is that order reversed and cut.
StoreIsNewest ==
    \A p \in Procs :
        /\ Ids(store[p]) = Last_n(log[p], MaxRuns)
        /\ \A limit \in 1..MaxRuns :
              ListRecent(store[p], limit) = Reverse(Last_n(Last_n(log[p], MaxRuns), limit))

\* The runs a process started after run r.
Newer(r) ==
    LET l == log[home[r]]
    IN  {q \in Runs : \E i, j \in 1..Len(l) : i < j /\ l[i] = r /\ l[j] = q}

\* What a 404 means.  The documentation says "unknown, evicted or lost on
\* restart, never just created"; with the processes of the container it may also
\* mean "triggered in another process", and only these.  A process that says
\* anything else is the one the run was triggered in.
AnswersMean ==
    \A r \in Runs, p \in Procs :
        /\ answer[r][p] = Unknown =>
              home[r] # p \/ r \in lost \/ Cardinality(Newer(r)) >= MaxRuns
        /\ answer[r][p] \notin {"none", Unknown} => home[r] = p

\* What one process tells of a run only moves forward: a terminal status is
\* final, and a run that was gone is never brought back by its own completion.
\* (The answers of two processes need not: a client that changes process may
\* read completed, 404, completed.)
PollsMoveForward ==
    [][\A r \in Runs, p \in Procs :
          /\ answer[r][p] \in {"completed", "failed"} =>
                answer'[r][p] \in {answer[r][p], Unknown}
          /\ answer[r][p] = Unknown => answer'[r][p] = Unknown]_vars

\* What a record should say of a run in that phase.
StatusOf(ph) == IF ph \in {"accepted", "running"} THEN "started" ELSE ph

\* Every record has the status its run has come to: a run in flight is never
\* shown as over, nor as the other kind of end, and a run that went down with
\* its process has no record.  A completed record carries the items the run
\* counted; a failed one carries 0, whatever the run had ingested when it
\* failed (the driver passes no count on).
RecordsTruthful ==
    \A p \in Procs : \A i \in 1..Len(store[p]) :
        LET rec == store[p][i]
        IN  /\ rec.status = StatusOf(phase[rec.run])
            /\ rec.processed = IF rec.status = "completed" THEN ingested[rec.run] ELSE 0

\* A record does not stay `started` for ever: it becomes terminal, or it is
\* evicted, or its process goes down.
RecordsSettle ==
    \A r \in Runs : (\E p \in Procs : LookUp(store[p], r) = "started")
                      ~> \A p \in Procs : LookUp(store[p], r) # "started"

\* The store: typed, the newest runs in order, each with the status its run has
\* come to, and a 404 of the run's own process means evicted or lost.
StoreTruthful == TypeOK /\ StoreIsNewest /\ RecordsTruthful /\ AnswersMean

=============================================================================
