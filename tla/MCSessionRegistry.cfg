CONSTANTS
    lane1 = lane1
    status1 = status1
    status2 = status2
    status3 = status3
    Sessions <- MCSessions
    Viewers <- MCViewers
    NoOne = NoOne
SPECIFICATION FairRegistrySpec
INVARIANTS LiveNeverLost BeginNeverBlocked
PROPERTIES DeadAreJournaled
CHECK_DEADLOCK FALSE
