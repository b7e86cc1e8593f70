\* The breaker of breaker.cfg, and the limit its docstring states.
CONSTANTS
    Callers = {c1, c2, c3, c4}
    FailureThreshold = 2
    HalfOpenMax = 2
    SuccessThreshold = 3
    MinSamples = 3
    RatePercent = 50
    MaxRecent = 3
SPECIFICATION Spec
INVARIANT ProbeLimit
