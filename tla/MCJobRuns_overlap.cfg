\* Overlapping heartbeats, on one section of the portal.
CONSTANTS
    price = price  s1 = s1  s2 = s2  tp = tp  te = te
    c1 = c1  c2 = c2  w1 = w1  w2 = w2
    NoOne = NoOne
    PriceList = price
    Jobs = {s1}
    Callers = {}
    Tickers = {tp, te}
    BeatOf <- OverlappingBeats
    Workers = {w1, w2}
    Concurrency = 1
    Intervals = {1}
    MaxRetries = 1
    HardLimit = 2
    Abandoned = 3
    MaxAge = 3
    MaxRuns = 2
    MaxFaults = 1
SPECIFICATION Spec
SYMMETRY Interchangeable
INVARIANTS
    OneOpenRun
    SingleAttempt
    MarginHolds
