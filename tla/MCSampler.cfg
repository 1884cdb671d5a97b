\* One interface that can vanish and come back, its counters read one by
\* one with the kernel counting in between; -n 2, room for a third sample.
CONSTANTS
    Candidates = {"val1"}
    Count = 2
    MaxSamples = 3
    MaxCtr = 2
SPECIFICATION Spec
INVARIANT SamplesWithinCount
INVARIANT RateExactWhenFresh
