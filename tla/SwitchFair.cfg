SPECIFICATION FairSpec
CONSTANTS
    Request = {r1}
    NoRequest = NoRequest
    PoolSize = 2
    MaxAttempts = 3
    CorrMod = 2
    SendBuf = 1
    MaxDials = 3
    MayStop = TRUE
INVARIANTS NoSocketLeak StoppedForGood
PROPERTIES CallsReturn StopReturns
CHECK_DEADLOCK FALSE
