---------------------------- MODULE MCCiArtifact ----------------------------
EXTENDS CiArtifact

CONSTANTS deployer1, deployer2, devBuild, mainBuild, featMainBuild, portalPkg

MCDeployers == {deployer1, deployer2}
MCBackends == {devBuild, mainBuild, featMainBuild}

\* One process for a branch of a fork, with a commit pinned; one for main and no commit in
\* particular, which also downloads without a router.
MCUses == [d \in MCDeployers |->
    IF d = deployer1 THEN {"branch", "portal"} ELSE {"branch", "download"}]
MCBranch == [d \in MCDeployers |-> IF d = deployer1 THEN "dev" ELSE "main"]
MCRepo == [d \in MCDeployers |-> IF d = deployer1 THEN "fork" ELSE "upstream"]
MCPin == [d \in MCDeployers |-> IF d = deployer1 THEN "c2" ELSE "none"]

\* The file of feat_main is one of main's by its name.
MCBranchOf == [a \in MCBackends |-> CASE a = devBuild -> "dev" [] a = mainBuild -> "main"
                                      [] a = featMainBuild -> "feat_main"]
MCPassesFor == [a \in MCBackends |->
    {MCBranchOf[a]} \cup (IF a = featMainBuild THEN {"main"} ELSE {})]
MCCommitOf == [a \in MCBackends |-> IF a = mainBuild THEN "c1" ELSE "c2"]
=============================================================================
