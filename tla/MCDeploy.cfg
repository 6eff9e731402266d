CONSTANTS
    mainBuild = mainBuild
    featMainBuild = featMainBuild
    devBuild = devBuild
    Backends <- MCBackends
    Branches = {"main", "feat_main", "dev"}
    BranchOf <- MCBranchOf
    PassesFor <- MCPassesFor
    Portal = portalPkg
    PortalBranch = "main"
    Deps = deps
    Junk = Junk
    Nothing = Nothing
SPECIFICATION FairSpec
PROPERTIES SuccessIsInstalled ResetIsReal CallsEnd
