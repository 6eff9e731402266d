CONSTANTS
    reader1 = reader1
    restarter1 = restarter1
    restarter2 = restarter2
    ccidBench = ccidBench
    Readers <- MCReaders
    Disturbers <- MCDisturbers
    Restarters <- MCRestarters
    Places <- MCPlaces
    Tokens <- MCTokens
    Reachable = {TRUE, FALSE}
    MaxPolls = 1
    MaxProbes = 1
    NoHolder = NoHolder
SPECIFICATION CtlFairSpec
INVARIANTS DisturbanceIsAlone FileNamesDisturbance JournalShowsExclusion
    RestartOnlyOnClearCheck AnswerIsOfOwnRestart
PROPERTIES RestartSparesReaders AcquireEnds ImplementsDomain RestartReturns
