SPECIFICATION RequestSpec

CONSTANTS
    MaxBytes = 3
    BufSize = 2
    Timeout = 5
    UnitsPerMs = 2
    MaxSend = 6
    MaxTime = 8
    c1 = c1
    c2 = c2
    c3 = c3
    Conn = {c1, c2, c3}
    Workers = 2
    Raw <- MCRaw
    Result <- MCResults

INVARIANTS
    SlowClientCutOff
    VerdictIsTrue
    CountersBalance
    HeadMirrorsGet
    ScrapeCoversAnswered
    ScrapeBoundsInFlight

PROPERTY
    AlwaysReturns

CHECK_DEADLOCK FALSE
