CONSTANTS
    deployer1 = deployer1
    deployer2 = deployer2
    devBuild = devBuild
    mainBuild = mainBuild
    featMainBuild = featMainBuild
    portalPkg = portalPkg
    Deployers <- MCDeployers
    Uses <- MCUses
    Branch <- MCBranch
    Repo <- MCRepo
    Pin <- MCPin
    NoPin = "none"
    Backends <- MCBackends
    BranchOf <- MCBranchOf
    PassesFor <- MCPassesFor
    CommitOf <- MCCommitOf
    Portal = portalPkg
    PortalBranch = "main"
    Junk = Junk
    Nothing = Nothing
    MaxLeft = 1
SPECIFICATION FairSpec
INVARIANTS StagedIsAsked
PROPERTIES CallsEnd
