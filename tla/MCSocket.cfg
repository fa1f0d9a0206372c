\* One or two connections, with TLS and without, under fairness.
SPECIFICATION FairSpec
CONSTANTS
    secure = secure
    plain = plain
    Conn <- MCConn
    Tls <- MCTls
    GcTime = 1
    ResponseTime = 1
    OutCap = 1
    Plan <- MCPlan
INVARIANTS
    SocketSound
PROPERTIES
    NobodyStaysForEver
    AnsweredInTheEnd
CHECK_DEADLOCK FALSE
