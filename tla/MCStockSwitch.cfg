CONSTANTS
    driver1 = driver1
    repair1 = repair1
    Drivers <- MCDrivers
    Repairers <- MCRepairers
    DriverLock = "/tmp/amperstrand-bench"
    LockFiles <- MCLockFiles
    Priorities = {"Low", "Critical"}
    MaxPolls = 1
    Browser = Browser
SPECIFICATION FairSpec
INVARIANTS SuccessIsReal SiblingsKept
PROPERTIES AnsweredWritesLand CallsEnd
