CONSTANTS
    fips1 = fips1
    fips2 = fips2
    bolty = bolty
    FIPS = FIPS
    BOLTY = BOLTY
    Procs <- MCProcs
    Projects <- MCProjects
    Project <- MCProject
    Patient <- MCPatient
    TTL = 2
    MaxStall = 2
    NoEntry = NoEntry
SPECIFICATION FairSpec
INVARIANTS ExclusiveUnlessRaced HoldIsOnFile
PROPERTIES DeadHoldersAreReclaimed
