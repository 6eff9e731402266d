CONSTANTS
    run1 = run1
    run2 = run2
    visitor = visitor
    alice = alice
    bob = bob
    Runs <- MCRuns
    Outsiders <- MCOutsiders
    Users <- MCUsers
    User <- MCUser
    Patient <- MCPatient
    Elsewhere = Elsewhere
    MaxPolls = 1
    Stale = 0
    NoOne = NoOne
    NoLock = NoLock
SPECIFICATION FairSpec
PROPERTIES PrunesOnlyIdle
