\* One heartbeat over two sections in one session, three runs between them, one crash or
\* loss anywhere; ages are told apart up to two, which still has a task end before the sweep.
CONSTANTS
    price = price  s1 = s1  s2 = s2  tp = tp  te = te
    c1 = c1  c2 = c2  w1 = w1  w2 = w2
    NoOne = NoOne
    PriceList = price
    Jobs = {s1, s2}
    Callers = {}
    Tickers = {te}
    BeatOf <- SyncBeat
    Workers = {w1}
    Concurrency = 1
    Intervals = {1}
    MaxRetries = 1
    HardLimit = 1
    Abandoned = 2
    MaxAge = 2
    MaxRuns = 3
    MaxFaults = 1
SPECIFICATION FairSpec
PROPERTIES
    KeepsThePromise
    OpenRunsAreClosed
    NeverWedged
