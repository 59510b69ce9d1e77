----------------------------- MODULE MCEvaluation -----------------------------
\* The instance of Evaluation.
EXTENDS Evaluation, TLC
CONSTANTS j1, j2

MCMetrics == {"faithfulness", "relevancy"}
Row(f, r) == [m \in MCMetrics |-> IF m = "faithfulness" THEN f ELSE r]
\* Whole rows, one that fails on a metric, one with a number for the other only, and
\* one without any.
MCRows == {Row(4, 4), Row(0, 4), Row(NaN, 4), Row(NoNumber, 4),
           [m \in {"faithfulness"} |-> NoNumber]}

NoFloors == [m \in {} |-> 0]
Floor(v) == [m \in {"faithfulness"} |-> v]
Case(tool, baseline, floors, benchmark) ==
    [tool |-> tool, baseline |-> baseline, floors |-> floors, benchmark |-> benchmark]
MCCases == {
    Case("gate", "history", NoFloors, <<"object", "object">>),
    Case("gate", "history", Floor(2), <<"scalar", "object">>),
    Case("gate", "report", NoFloors, <<"object">>),
    Case("eval", "report", Floor(2), <<"object", "object">>),
    Case("eval", "none", NoFloors, Missing)}

\* Nothing, files of killed runs, what is not UTF-8, reports of an older harness with
\* one of the metrics, or without means.
Old(aggregate) == [aggregate |-> aggregate, passed |-> FALSE, gated |-> FALSE]
OneMean == Old([m \in {"faithfulness"} |-> 4])
NoMean == Old([m \in {} |-> 0])
Lie(h, r) == [history |-> h, report |-> r]
MCDropped == {Lie(Missing, Missing), Lie(Torn, Garbled), Lie(Garbled, OneMean),
              Lie(OneMean, OneMean), Lie(NoMean, NoMean)}

MCJobs == {j1, j2}
JobSymmetry == Permutations(MCJobs)
===============================================================================
