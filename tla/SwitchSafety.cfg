SPECIFICATION Spec
CONSTANTS
    Request = {r1, r2}
    NoRequest = NoRequest
    PoolSize = 2
    MaxAttempts = 2
    CorrMod = 3
    SendBuf = 1
    MaxDials = 2
    MayStop = FALSE
SYMMETRY RequestSymmetry
INVARIANTS NoCrossDelivery PendingExact SentAtMostOnce ChannelNeverFull
PROPERTY ImplementsExchange
