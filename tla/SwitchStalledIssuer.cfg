SPECIFICATION StalledSpec
CONSTANTS
    Request = {r1, r2}
    NoRequest = NoRequest
    PoolSize = 1
    MaxAttempts = 2
    CorrMod = 3
    SendBuf = 1
    MaxDials = 1
    MayStop = FALSE
PROPERTY BlockingCallHasTimeout
