------------------------------ MODULE MCDeploy ------------------------------
EXTENDS Deploy

CONSTANTS mainBuild, featMainBuild, devBuild

\* The build of feat_main passes for one of main by its file name.
MCBackends == {mainBuild, featMainBuild, devBuild}
MCBranchOf == [a \in MCBackends |-> CASE a = mainBuild -> "main"
                                      [] a = featMainBuild -> "feat_main"
                                      [] a = devBuild -> "dev"]
MCPassesFor == [a \in MCBackends |->
    {MCBranchOf[a]} \cup (IF a = featMainBuild THEN {"main"} ELSE {})]
=============================================================================
