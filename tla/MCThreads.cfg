\* Five short lives of the client's threads, under fairness.
CONSTANTS
    MaxTokens = 7
    Duration <- MCDuration
    Plans <- MCPlans

SPECIFICATION FairSpec

INVARIANTS
    ThreadsSound
    NothingIsMissed

PROPERTIES
    EventsAreDelivered
    ThreadsGetThere
