------------------------------- MODULE Builds -------------------------------
(***************************************************************************)
(* What the two halves of deploy/ci_artifact.py hand to each other: the    *)
(* packages there are, and which of them a download may leave in the place *)
(* of the one it was asked for.  CiArtifact shows that it does not leave   *)
(* others, and Deploy goes by that.                                        *)
(***************************************************************************)
CONSTANTS
    Backends,     \* tollgate-wrt builds, as files and as packages
    BranchOf,     \* the branch CI has built each of them from
    PassesFor,    \* the branches each of them can be taken for by its file name
    Portal,       \* the portal package
    PortalBranch,
    Junk,         \* a file that is no package: an error page, half a download
    Nothing

Packages == Backends \cup {Portal}

ASSUME PackagesApart ==
    /\ Portal \notin Backends
    /\ {Junk, Nothing} \cap Packages = {}
    /\ Junk # Nothing

\* The builds of CI's runs for the branch.
BuildsOf(branch) == {a \in Backends : BranchOf[a] = branch}

\* The builds whose file name has "_<branch>." in it, with every "/" of the branch a
\* "-": main finds ..._feat_main.ipk too, and feat/x the files of feat-x.
NamedFor(branch) == {a \in Backends : branch \in PassesFor[a]}

\* The file of a deployment of the branch; that of a portal may be a backend, because
\* Blossom is asked for tollgate-wrt builds whatever is to be deployed.
Deliverable(op, branch) ==
    BuildsOf(branch) \cup NamedFor(branch) \cup {Junk}
        \cup (IF op = "portal" THEN {Portal} ELSE {})
=============================================================================
