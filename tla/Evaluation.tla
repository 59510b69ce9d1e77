------------------------------ MODULE Evaluation ------------------------------
(***************************************************************************)
(* The evaluation harness (eval/ragas_eval.py), the continuous gate        *)
(* (eval/continuous.py) and its trend report (eval/trend_report.py): jobs  *)
(* that assemble and score a benchmark, write the report of the run, are   *)
(* compared with an earlier run, archive themselves and render the trend.  *)
(* The jobs are processes that share the history and the output directory *)
(* and may be killed at any step.  RAGAS, the pipeline and the search are  *)
(* external: an answer or a score is one of a few values, or a failure.    *)
(*                                                                         *)
(* A file of the history directory is known by its place in the order of   *)
(* load_history: 0 for a report without a timestamp that somebody dropped  *)
(* there, t for run-<t>.json, where t counts the seconds of _utc_now_iso.  *)
(***************************************************************************)
EXTENDS Naturals, FiniteSets, FiniteSetsExt, SequencesExt

CONSTANTS
    Jobs,
    Metrics,        \* METRIC_NAMES
    MaxScore,       \* scores are 0..MaxScore, in a unit that makes every mean whole
    NaN,            \* what RAGAS gives for a metric that failed on a record
    NoNumber,       \* ... or what is neither an int nor a float
    Missing,        \* what is not there: a file, a benchmark, a case
    Torn,           \* a file opened for writing and not, or wrongly, written
    Garbled,        \* a file that is not UTF-8: none that a job writes, all ASCII
    Tolerance,      \* --tolerance of the gate
    Rows,           \* the rows a scoring may give, from some of Metrics to values
    Cases,          \* command lines and the benchmark they run on
    Dropped,        \* what may lie in the two directories before the first run
    MaxRuns,        \* bound: runs of all jobs together
    MaxClock        \* bound: seconds

ASSUME BoundsNat ==
    MaxScore \in Nat /\ Tolerance \in Nat /\ MaxRuns \in Nat /\ MaxClock \in Nat \ {0}

VARIABLES
    jobs,       \* what every job is doing
    history,    \* the history directory
    report,     \* ragas_report.json of the output directory
    clock,      \* the second
    runs,       \* runs started
    tangled,    \* history: two gates overlapped, or stamped the same second
    gates       \* history: how many gates archived themselves in each second

evalVars == <<jobs, history, report, clock, runs, tangled, gates>>

Numbers == 0..MaxScore \cup {NaN}
Aggregates == UNION {[S -> Numbers] : S \in SUBSET Metrics}
NoMeans == [m \in {} |-> NaN]

ASSUME ScoresGiven ==
    /\ NoNumber \notin Numbers
    /\ \A row \in Rows : \E S \in SUBSET Metrics : row \in [S -> Numbers \cup {NoNumber}]
ASSUME DroppedReports ==
    \A dropped \in Dropped : \A file \in {dropped.history, dropped.report} :
        file \in {Missing, Torn, Garbled} \/ file.aggregate \in Aggregates
ASSUME NoReports ==
    /\ Garbled \notin {Missing, Torn}
    /\ \A aggregate \in Aggregates : \A passed, gated \in BOOLEAN :
        [aggregate |-> aggregate, passed |-> passed, gated |-> gated]
            \notin {Missing, Torn, Garbled}

In(j, s) == jobs[j].at = s

Running(j) == ~In(j, "idle") /\ ~In(j, "ended")

-----------------------------------------------------------------------------
\* Floating-point comparisons: none holds of NaN.
AtLeast(x, y) == x # NaN /\ x >= y
Drops(cur, base, eps) == cur # NaN /\ base # NaN /\ cur + eps < base

\* The isinstance filter on a row: the metrics it has a number for.
Numeric(row) == {m \in DOMAIN row : row[m] # NoNumber}

Scored(results, m) == {i \in DOMAIN results : m \in DOMAIN results[i].scores}

Mean(results, m) ==
    LET val(i) == results[i].scores[m] IN
    IF \E i \in Scored(results, m) : val(i) = NaN THEN NaN
    ELSE MapThenSumSet(val, Scored(results, m)) \div Cardinality(Scored(results, m))

Aggregate(results) ==
    [m \in {x \in Metrics : Scored(results, x) # {}} |-> Mean(results, m)]

\* The number of scores behind every mean (count of _summarize).
Summarize(results) ==
    [m \in {x \in Metrics : Scored(results, x) # {}} |-> Cardinality(Scored(results, m))]

\* compare_aggregates and detect_regressions: a metric of one run only is never
\* among them.
Regressed(current, baseline) ==
    {m \in DOMAIN current \cap DOMAIN baseline : Drops(current[m], baseline[m], Tolerance)}

\* Faulty form: a metric without a mean is not looked at.
MissesPresent(aggregate, floors) ==
    {m \in DOMAIN floors \cap DOMAIN aggregate : ~AtLeast(aggregate[m], floors[m])}

\* check_thresholds: the metrics that fail.
Misses(aggregate, floors) ==
    {m \in DOMAIN floors : m \notin DOMAIN aggregate \/ ~AtLeast(aggregate[m], floors[m])}

-----------------------------------------------------------------------------
\* load_history: a report with at least one mean, oldest first.
Usable(file) == file \notin {Missing, Torn, Garbled} /\ DOMAIN file.aggregate # {}

UsableFiles(h) == {t \in DOMAIN h : Usable(h[t])}

\* It skips what is no JSON and what it cannot open; what is not UTF-8 raises.
HistoryRaises(h) == \E t \in DOMAIN h : h[t] = Garbled

\* Faulty form: newest first.
LoadHistoryNewestFirst(h) ==
    CHOOSE files \in [1..Cardinality(UsableFiles(h)) -> UsableFiles(h)] :
        \A m, n \in DOMAIN files : m < n => files[m] > files[n]

LoadHistory(h) ==
    CHOOSE files \in [1..Cardinality(UsableFiles(h)) -> UsableFiles(h)] :
        \A m, n \in DOMAIN files : m < n => files[m] < files[n]

\* The means to compare with, or none.
LatestBaseline(h) ==
    IF LoadHistory(h) = <<>> THEN {} ELSE {h[Last(LoadHistory(h))].aggregate}

\* The trend report checks the floors with code of its own.
LatestThresholdRows(latest, floors) ==
    {m \in Metrics \cap DOMAIN floors :
        ~(m \in DOMAIN latest /\ AtLeast(latest[m], floors[m]))}

\* What the trend report says: how many runs, which one is the latest, and which
\* floors that one misses.
Trend(h, floors) ==
    LET points == LoadHistory(h) IN
    IF points = <<>> THEN [points |-> 0, latest |-> Missing, misses |-> {}]
    ELSE [points |-> Len(points), latest |-> Last(points),
          misses |-> LatestThresholdRows(h[Last(points)].aggregate, floors)]

\* write_text in two steps, open and write.  When another job has written in
\* between, and more than this one, the rest of its text stays behind.
AfterWrite(old, new) == IF old = Torn THEN {new} ELSE {new, Torn}

-----------------------------------------------------------------------------
NoJob == [at |-> "idle", case |-> Missing, base |-> {}, results |-> <<>>, rows |-> <<>>,
          aggregate |-> NoMeans, counts |-> NoMeans, stamp |-> 0,
          trend |-> Missing, end |-> "none"]

EvalInit ==
    /\ jobs = [j \in Jobs |-> NoJob]
    /\ \E dropped \in Dropped :
        /\ history = [t \in 0..MaxClock |-> IF t = 0 THEN dropped.history ELSE Missing]
        /\ report = dropped.report
    /\ clock = 1
    /\ runs = 0
    /\ tangled = FALSE
    /\ gates = [t \in 0..MaxClock |-> 0]

Turns(j, job) == jobs' = [jobs EXCEPT ![j] = job]

Ends(j, how) ==
    Turns(j, [jobs[j] EXCEPT !.at = "ended", !.end = how, !.results = <<>>,
                             !.rows = <<>>, !.base = {}])

\* Faulty form: a file of the history that is no JSON is raised on.
UnreadableAny(case) ==
    \/ case.baseline = "report" /\ report \in {Missing, Torn, Garbled}
    \/ case.baseline = "history" /\ \E t \in DOMAIN history : history[t] \in {Torn, Garbled}

\* load_baseline_aggregate raises, where load_history may skip.
Unreadable(case) ==
    \/ case.baseline = "report" /\ report \in {Missing, Torn, Garbled}
    \/ case.baseline = "history" /\ HistoryRaises(history)

\* load_benchmark raises on a line that is no JSON.
Unparsable(case) == case.benchmark = Missing

\* A job starts: the baseline is read before anything is run.
Start(j) ==
    /\ In(j, "idle") \/ In(j, "ended")
    /\ runs < MaxRuns
    /\ runs' = runs + 1
    /\ \E case \in Cases :
        LET base == CASE case.baseline = "report" -> {report.aggregate}
                      [] case.baseline = "history" -> LatestBaseline(history)
                      [] OTHER -> {}
            job == [NoJob EXCEPT !.case = case]
        IN IF Unreadable(case) \/ Unparsable(case)
           THEN Turns(j, [job EXCEPT !.at = "ended", !.end = "aborted"])
           ELSE Turns(j, [job EXCEPT !.at = "assembling", !.base = base])
    /\ tangled' = (tangled \/ \E i \in Jobs \ {j} : Running(i))
    /\ UNCHANGED <<history, report, clock, gates>>

Result(error) == [scores |-> NoMeans, error |-> error]

\* One record: a line that is no object, a failure of the pipeline or the search,
\* or a sample to be scored.
Assemble(j) ==
    LET job == jobs[j]
        next == Len(job.results) + 1
    IN
    /\ In(j, "assembling")
    /\ next <= Len(job.case.benchmark)
    /\ \E result \in IF job.case.benchmark[next] = "scalar" THEN {Result("invalid_record")}
                     ELSE {Result("none"), Result("failed")} :
        Turns(j, [job EXCEPT !.results = Append(@, result)])
    /\ UNCHANGED <<history, report, clock, runs, tangled, gates>>

Samples(results) == Cardinality({i \in DOMAIN results : results[i].error = "none"})

\* The place of record i among the samples.
Place(results, i) == Cardinality({k \in 1..i : results[k].error = "none"})

\* The scores a record takes from its row.
Scores(row) == [m \in Numeric(row) |-> row[m]]

\* Faulty form: rows are counted by records, not by samples.
WithRowsByRecord(results, rows) ==
    [i \in DOMAIN results |->
        IF results[i].error # "none" THEN results[i]
        ELSE IF i <= Len(rows) THEN [results[i] EXCEPT !.scores = Scores(rows[i])]
        ELSE Result("score_count_mismatch")]

\* Every sample gets the numbers of its row, which may be none, or an error where
\* evaluate() gave too few rows.
WithRows(results, rows) ==
    [i \in DOMAIN results |->
        IF results[i].error # "none" THEN results[i]
        ELSE IF Place(results, i) <= Len(rows)
        THEN [results[i] EXCEPT !.scores = Scores(rows[Place(results, i)])]
        ELSE Result("score_count_mismatch")]

\* Scoring raised: every sample is marked.
AllFailed(results) ==
    [i \in DOMAIN results |->
        IF results[i].error = "none" THEN Result("scoring_failed") ELSE results[i]]

\* One evaluate() call over all samples, which may raise; no call when there is none.
Scorings(results) ==
    IF Samples(results) = 0 THEN {[results |-> results, rows |-> <<>>]}
    ELSE {[results |-> AllFailed(results), rows |-> <<>>]} \cup
         {[results |-> WithRows(results, rows), rows |-> rows] :
             rows \in UNION {[1..n -> Rows] : n \in 0..Samples(results)}}

Score(j) ==
    LET job == jobs[j] IN
    /\ In(j, "assembling")
    /\ Len(job.results) = Len(job.case.benchmark)
    /\ \E scoring \in Scorings(job.results) :
        Turns(j, [job EXCEPT !.at = "scored",
                             !.results = scoring.results, !.rows = scoring.rows,
                             !.aggregate = Aggregate(scoring.results),
                             !.counts = Summarize(scoring.results)])
    /\ UNCHANGED <<history, report, clock, runs, tangled, gates>>

\* The clients of RAGAS cannot be built; this is not caught.
NoClients(j) ==
    /\ In(j, "assembling")
    /\ Len(jobs[j].results) = Len(jobs[j].case.benchmark)
    /\ Samples(jobs[j].results) > 0
    /\ Ends(j, "noclient")
    /\ UNCHANGED <<history, report, clock, runs, tangled, gates>>

OpenReport(j) ==
    /\ In(j, "scored")
    /\ report' = Torn
    /\ Turns(j, [jobs[j] EXCEPT !.at = "reporting"])
    /\ UNCHANGED <<history, clock, runs, tangled, gates>>

\* The exit code of ragas_eval knows the floors only; its baseline informs.
EvalExit(job) == IF Misses(job.aggregate, job.case.floors) = {} THEN "exit0" ELSE "exit1"

SaveReport(j) ==
    LET job == jobs[j]
        payload == [aggregate |-> job.aggregate, passed |-> FALSE, gated |-> FALSE]
    IN
    /\ In(j, "reporting")
    /\ report' \in AfterWrite(report, payload)
    /\ IF job.case.tool = "gate"
       THEN Turns(j, [job EXCEPT !.at = "reported", !.results = <<>>, !.rows = <<>>])
       ELSE Ends(j, EvalExit(job))
    /\ UNCHANGED <<history, clock, runs, tangled, gates>>

\* No regression and no floor missed.
Passes(job) ==
    /\ \A base \in job.base : Regressed(job.aggregate, base) = {}
    /\ Misses(job.aggregate, job.case.floors) = {}

GateExit(job) == IF Passes(job) THEN "exit0" ELSE "exit1"

\* What a gate archives of itself: its means, and as history whether it has passed
\* and was compared with the newest run.
Payload(job) ==
    [aggregate |-> job.aggregate, passed |-> Passes(job),
     gated |-> job.case.baseline = "history"]

\* _utc_now_iso.
Stamp(t) == t

OpenArchive(j) ==
    LET file == Stamp(clock) IN
    /\ In(j, "reported")
    /\ history' = [history EXCEPT ![file] = Torn]
    /\ tangled' = (tangled \/ history[file] # Missing)
    /\ gates' = [gates EXCEPT ![clock] = @ + 1]
    /\ Turns(j, [jobs[j] EXCEPT !.at = "archiving", !.stamp = file])
    /\ UNCHANGED <<report, clock, runs>>

SaveArchive(j) ==
    LET job == jobs[j] IN
    /\ In(j, "archiving")
    /\ \E file \in AfterWrite(history[job.stamp], Payload(job)) :
        history' = [history EXCEPT ![job.stamp] = file]
    /\ Turns(j, [job EXCEPT !.at = "archived"])
    /\ UNCHANGED <<report, clock, runs, tangled, gates>>

\* The trend is rendered from the history, read anew, before the exit code is known.
RenderTrend(j) ==
    LET job == jobs[j] IN
    /\ In(j, "archived")
    /\ IF HistoryRaises(history) THEN Ends(j, "aborted")
       ELSE Turns(j, [job EXCEPT !.at = "ended", !.base = {},
                                 !.trend = Trend(history, job.case.floors),
                                 !.end = GateExit(job)])
    /\ UNCHANGED <<history, report, clock, runs, tangled, gates>>

\* The CI job is cancelled, or runs into its limit.
Kill(j) ==
    /\ Running(j)
    /\ Turns(j, [NoJob EXCEPT !.at = "ended", !.end = "killed"])
    /\ UNCHANGED <<history, report, clock, runs, tangled, gates>>

ClockTick ==
    /\ clock < MaxClock
    /\ clock' = clock + 1
    /\ UNCHANGED <<jobs, history, report, runs, tangled, gates>>

Job(j) ==
    \/ Assemble(j) \/ Score(j) \/ NoClients(j) \/ OpenReport(j) \/ SaveReport(j)
    \/ OpenArchive(j) \/ SaveArchive(j) \/ RenderTrend(j)

EvalNext == ClockTick \/ \E j \in Jobs : Start(j) \/ Job(j) \/ Kill(j)

EvalSpec == EvalInit /\ [][EvalNext]_evalVars

-----------------------------------------------------------------------------
EvalTyped ==
    /\ \A j \in Jobs :
        /\ jobs[j].at \in {"idle", "assembling", "scored", "reporting", "reported",
                          "archiving", "archived", "ended"}
        /\ jobs[j].end \in {"none", "exit0", "exit1", "aborted", "noclient", "killed"}
        /\ jobs[j].base \subseteq Aggregates /\ Cardinality(jobs[j].base) <= 1
        /\ jobs[j].aggregate \in Aggregates
        /\ jobs[j].stamp \in 0..MaxClock
    /\ \A t \in 0..MaxClock :
        history[t] \in {Missing, Torn, Garbled} \/ history[t].aggregate \in Aggregates
    /\ report \in {Missing, Torn, Garbled} \/ report.aggregate \in Aggregates
    /\ clock \in 1..MaxClock
    /\ runs \in 0..MaxRuns
    /\ tangled \in BOOLEAN

\* However many records failed before and however few rows came back, what RAGAS
\* gave is in the report once: as many records have a score of a metric as rows have a
\* number for it, and as many the count of that metric says; none of the failed ones
\* has scores; and a record has neither scores nor an error only for a row without
\* any number (ragas_eval.py, "never silently drop a record").
RecordsSettled ==
    \A j \in Jobs : jobs[j].at \in {"scored", "reporting"} =>
        LET results == jobs[j].results
            rows == jobs[j].rows
            counts == jobs[j].counts
        IN
        /\ \A i \in DOMAIN results :
            results[i].error # "none" => DOMAIN results[i].scores = {}
        /\ Cardinality({i \in DOMAIN results :
                          results[i].error = "none" /\ DOMAIN results[i].scores = {}})
            = Cardinality({n \in DOMAIN rows : Numeric(rows[n]) = {}})
        /\ \A m \in Metrics :
            LET given == Cardinality({n \in DOMAIN rows : m \in Numeric(rows[n])}) IN
            /\ Cardinality(Scored(results, m)) = given
            /\ IF m \in DOMAIN counts THEN counts[m] = given ELSE given = 0

\* No missing mean and no NaN satisfies a floor: a run that exits 0 has a number
\* at or above each of its floors, from at least one record (check_thresholds, "a
\* gate cannot be satisfied by missing data").
FloorsHold ==
    \A j \in Jobs : jobs[j].end = "exit0" =>
        \A m \in DOMAIN jobs[j].case.floors :
            /\ m \in DOMAIN jobs[j].aggregate
            /\ jobs[j].aggregate[m] # NaN
            /\ jobs[j].aggregate[m] >= jobs[j].case.floors[m]
            /\ jobs[j].counts[m] > 0

\* Of two neighbours in the history, the newer one has passed only if no mean
\* dropped by more than the tolerance, whatever torn, empty or foreign files lie
\* between and around them, and whichever runs were killed.  Gates that overlap or
\* stamp the same second are left out: they compare with what is replaced.
NeighboursHold ==
    ~tangled => \A s, t \in DOMAIN history :
        (/\ s < t /\ Usable(history[s]) /\ Usable(history[t])
         /\ \A u \in s+1..t-1 : ~Usable(history[u])
         /\ history[t].gated /\ history[t].passed)
        => \A m \in DOMAIN history[s].aggregate \cap DOMAIN history[t].aggregate :
              ~Drops(history[t].aggregate[m], history[s].aggregate[m], Tolerance)

\* What a killed or concurrent run left torn in the history stops no other gate
\* (load_history, "skipped, never raised on"): a gate is aborted only over the
\* benchmark, an explicit baseline, or a file in the history that no run has written
\* and that is not UTF-8.
TornFilesTolerated ==
    \A j \in Jobs : jobs[j].end = "aborted" =>
        \/ jobs[j].case.baseline = "report" \/ jobs[j].case.benchmark = Missing
        \/ history[0] = Garbled

\* When a gate that no other one shares its second with ends, its file is whole and
\* its own, whatever other gates did meanwhile; and if it has a mean, the trend it
\* rendered goes up to it at least.  Where it is the latest run there and marked as
\* missing a floor, the gate has not passed (continuous.py, "so the latest point
\* appears in the report").
TrendShowsRun ==
    [][\A j \in Jobs :
        (/\ In(j, "archived") /\ jobs'[j].end \in {"exit0", "exit1"}
         /\ gates[jobs[j].stamp] = 1)
        => /\ history[jobs[j].stamp] = Payload(jobs[j])
           /\ DOMAIN jobs[j].aggregate # {} =>
               /\ jobs'[j].trend.points > 0
               /\ jobs'[j].trend.latest >= jobs[j].stamp
               /\ (jobs'[j].trend.latest = jobs[j].stamp /\ jobs'[j].trend.misses # {})
                    => jobs'[j].end = "exit1"]_evalVars

\* A whole archived run is only ever replaced when two gates archived themselves in
\* its second: then the first of them is gone (archive_run).
EarlierRunsStay ==
    [][\A t \in DOMAIN history :
        (Usable(history[t]) /\ history'[t] # history[t]) => gates'[t] > 1]_evalVars

\* The gate: every score is accounted for, and no floor is met by missing data.
GateSound == EvalTyped /\ RecordsSettled /\ FloorsHold

\* The history as a baseline: torn files are passed over, and what is compared
\* are neighbours.
BaselineSound == NeighboursHold /\ TornFilesTolerated

\* The history as an archive: but for gates of one second, each run is in it, stays
\* there, and is in the trend it renders.
ArchiveSound == TrendShowsRun /\ EarlierRunsStay

===============================================================================
