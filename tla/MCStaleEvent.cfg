\* Two connections whose events come in the same batch.
SPECIFICATION Spec
CONSTANTS
    secure = secure
    plain = plain
    Conn <- MCConn
    Tls <- MCTls
    GcTime = 1
    ResponseTime = 1
    OutCap = 1
    Plan <- MCStalePlan
INVARIANTS
    NoEventForTheGone
CHECK_DEADLOCK FALSE
