SPECIFICATION FairSpec
CONSTANTS
    None = None
    NaN = NaN
    ValueError = ValueError
    Query = "q"
    DefaultRrfK = 60
    MaxRank = 4
    SelectThreshold = 5
    Margin = 2
    Shares <- SmallShares
    Cases <- SmallCases
    MaxAttempts = 3
    FetchMultiplier = 1
    MinFetchK = 2
    MaxHops = 3
    Threads = {t1, t2}
    Texts = {"x", "y", "z"}
    max_entries = 2
    MaxEmbeds = 5
    Jobs <- SmallJobs
CHECK_DEADLOCK FALSE
INVARIANTS RequestsTakenRight AnswersFit HoldsMostRecent RetrievalSound TextKeptWhole MemoriesRanked EnginesExact
PROPERTIES SessionsEnd
