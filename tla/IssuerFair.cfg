SPECIFICATION ReaderSpec
CONSTANTS
    Request = {r1, r2}
    Conn = {c1, c2}
    None = None
    PoolSize = 1
    SendBuf = 1
PROPERTIES FramesConsumed  ImplementsAuthorizer
CHECK_DEADLOCK FALSE
