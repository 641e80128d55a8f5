SPECIFICATION Spec
CONSTANTS
    Request = {r1, r2, r3}
    Conn = {c1, c2}
    None = None
    PoolSize = 2
    SendBuf = 1
SYMMETRY IssuerSymmetry
INVARIANTS PoolExact AnswersTruthful AnsweredOnce
CHECK_DEADLOCK FALSE
