\* Three requests at two workers with one slot each, before the index exists.
CONSTANTS
    r1 = r1  r2 = r2  r3 = r3
    w1 = w1  w2 = w2
    fa = fa  fb = fb  fc = fc  fx = fx
    Reqs = {r1, r2, r3}
    Workers = {w1, w2}
    NoWorker = NoWorker
    Files = {fa, fb, fc, fx}
    MaxUploads = 1
    MaxFolder = 3
    Cases <- Mixes
SPECIFICATION Spec
INVARIANTS SlotsExact OutcomesTruthful
PROPERTIES SlotsComeBack
CHECK_DEADLOCK FALSE
