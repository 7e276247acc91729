\* The price list with a late report of a run that was swept.
CONSTANTS
    price = price  s1 = s1  s2 = s2  tp = tp  te = te
    c1 = c1  c2 = c2  w1 = w1  w2 = w2
    NoOne = NoOne
    Jobs = {price}
    PriceList = price
    Callers = {}
    Tickers = {tp}
    BeatOf <- PriceBeat
    Workers = {w1}
    Concurrency = 1
    Intervals = {1}
    MaxRetries = 0
    HardLimit = 2
    Abandoned = 3
    MaxAge = 3
    MaxRuns = 2
    MaxFaults = 0
SPECIFICATION Spec
INVARIANT WarnsOncePerInterruption
