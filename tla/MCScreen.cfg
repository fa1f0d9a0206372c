CONSTANTS
    PostCap = 3
    Plan <- MCPlan
SPECIFICATION FairSpec
INVARIANTS ScreenSound ScreenIsCurrent
PROPERTY ComesToRest
CHECK_DEADLOCK FALSE
