----------------------------- MODULE CiArtifact -----------------------------
(***************************************************************************)
(* The first half of deploy/ci_artifact.py: processes that fetch a build,  *)
(* from Blossom or from the CI, and copy it to a router, each to one of    *)
(* its own (deploy_branch and deploy_portal), or only fetch it             *)
(* (download_artifact).  All of them work in one directory, BUILD_DIR,     *)
(* that every download begins by removing.  Deploy is the other half, on   *)
(* the router.                                                             *)
(*                                                                         *)
(* A package of another format, or a broken one, is Junk.                  *)
(***************************************************************************)
EXTENDS Builds, Naturals, FiniteSets

CONSTANTS
    Deployers,
    Uses,         \* the operations each of them calls
    Branch,       \* the branch each of them asks for
    Repo,         \* from a "fork" or from "upstream"
    Pin,          \* TOLLGATE_SUT_COMMIT in each environment, or NoPin
    NoPin,
    CommitOf,
    MaxLeft       \* bound: files that a removal of BUILD_DIR may leave behind

\* An artifact has its own file name; download_artifact copies what it picks to one of
\* two more.
Flats == {"tollgate", "portal"}
Names == Packages \cup Flats
Files == Packages \cup {Junk, Nothing}

Operations == {"branch", "portal", "download"}

ASSUME UsesKnown == Uses \in [Deployers -> SUBSET Operations]
ASSUME ReposKnown == Repo \in [Deployers -> {"fork", "upstream"}]
ASSUME FlatsApart == Flats \cap Packages = {}
ASSUME MarkersApart == {Junk, Nothing} \cap Flats = {}

VARIABLES
    pc,
    call,    \* what each process is doing, or did last
    dir,     \* BUILD_DIR: what each file holds
    runid,   \* the run to download from: none yet, one of CI's, or "blossom"
    repo,    \* a fork that can still be given up for upstream, or upstream
    path,    \* what download_artifact returns
    staged,  \* the file copied to the router
    mixed    \* history: processes whose file is picked, or was, from a directory that
             \* has held others' files since it was cleared

vars == <<pc, call, dir, runid, repo, path, staged, mixed>>

\* Between clearing the directory and copying out of it.
Fetching == {"resolve", "find", "download", "rerun", "again", "pick", "deps", "copy"}

TypeOK ==
    /\ pc \in [Deployers -> Fetching \cup {"idle", "ensure", "clear"}]
    /\ call \in [Deployers -> Operations]
    /\ dir \in [Names -> Files]
    /\ runid \in [Deployers -> {"none", "run", "blossom"}]
    /\ repo \in [Deployers -> {"fork", "upstream"}]
    /\ path \in [Deployers -> Names \cup {Nothing}]
    /\ staged \in [Deployers -> Files]
    /\ mixed \in SUBSET Deployers
    /\ \A d \in Deployers :
        /\ pc[d] \in {"download", "rerun", "again", "pick"} => runid[d] # "none"
        /\ pc[d] \in {"deps", "copy"} <=> path[d] # Nothing
        /\ staged[d] # Nothing => pc[d] = "idle"

Init ==
    /\ pc = [d \in Deployers |-> "idle"]
    /\ call \in [Deployers -> Operations] /\ \A d \in Deployers : call[d] \in Uses[d]
    /\ dir = [n \in Names |-> Nothing]
    /\ runid = [d \in Deployers |-> "none"]
    /\ repo = [d \in Deployers |-> "upstream"]
    /\ path = [d \in Deployers |-> Nothing]
    /\ staged = [d \in Deployers |-> Nothing]
    /\ mixed = {}

-----------------------------------------------------------------------------
Enter(d, label) == pc' = [pc EXCEPT ![d] = label]

locals == <<runid, repo, path>>

\* The call is over, as far as BUILD_DIR goes; its locals are gone.
Return(d) ==
    /\ Enter(d, "idle")
    /\ runid' = [runid EXCEPT ![d] = "none"]
    /\ repo' = [repo EXCEPT ![d] = "upstream"]
    /\ path' = [path EXCEPT ![d] = Nothing]

\* deploy_branch that does not skip, deploy_portal, and download_artifact alone, none of
\* them told which run to take; a portal has a repository of its own.
Call(d, op) ==
    /\ pc[d] = "idle" /\ op \in Uses[d]
    /\ call' = [call EXCEPT ![d] = op]
    /\ Enter(d, IF op = "portal" THEN "ensure" ELSE "clear")
    /\ repo' = IF op = "portal" THEN repo ELSE [repo EXCEPT ![d] = Repo[d]]
    /\ staged' = [staged EXCEPT ![d] = Nothing]
    /\ UNCHANGED <<dir, runid, path, mixed>>

\* Whatever is not suppressed raises - a time-out, a file that is gone, no build - or
\* the process dies.  BUILD_DIR stays as it is.  Clear and Rerun have errors of their own.
Raises(d) ==
    /\ pc[d] # "idle"
    /\ Return(d)
    /\ UNCHANGED <<call, dir, staged, mixed>>

-----------------------------------------------------------------------------
BranchAsked(d) == IF call[d] = "portal" THEN PortalBranch ELSE Branch[d]

\* A mutant: the branch does not matter.
MatchesAnyBranch(d, pin) == {a \in Backends : pin \in {NoPin, CommitOf[a]}}

\* _event_matches: the events are those of tollgate-wrt builds, whoever asks, and the
\* branch is looked for in the file's name.
Matches(d, pin) ==
    {a \in NamedFor(BranchAsked(d)) : pin \in {NoPin, CommitOf[a]}}

\* What a CI run of the repository and branch asked for offers.
RunArtifacts(d) ==
    IF call[d] = "portal" THEN {Portal} ELSE BuildsOf(Branch[d])

\* Whom a change of the directory may give another file.  Not those who have theirs from
\* Blossom: nobody puts another package's content under its name.
Disturbed(d) == {e \in Deployers \ {d} : pc[e] \in Fetching /\ path[e] \notin Packages}

\* ensure_artifact, for a portal and for no commit in particular: the loop over
\* Blossom and CI's runs until one has the architecture, or its deadline's error.
Ensure(d) ==
    /\ pc[d] = "ensure"
    /\ \/ Matches(d, NoPin) # {} /\ runid' = [runid EXCEPT ![d] = "blossom"]
       \/ runid' = [runid EXCEPT ![d] = "run"]
    /\ Enter(d, "clear")
    /\ UNCHANGED <<call, dir, repo, path, staged, mixed>>

\* What a removal of BUILD_DIR that fails on its way may leave there.
Leftovers ==
    {left \in SUBSET {n \in Names : dir[n] # Nothing} : Cardinality(left) <= MaxLeft}

Leaving(left) == dir' = [n \in Names |-> IF n \in left THEN dir[n] ELSE Nothing]

\* download_artifact: remove BUILD_DIR, if need be with sudo, and make it unless it is
\* still there.  Nobody asks whether sudo has removed anything; only its time-out raises.
Clear(d) ==
    /\ pc[d] = "clear"
    /\ \E left \in Leftovers :
        /\ Leaving(left)
        /\ mixed' = (mixed \ {d}) \cup Disturbed(d) \cup (IF left = {} THEN {} ELSE {d})
    /\ \/ Enter(d, "resolve") /\ UNCHANGED locals
       \/ Return(d)
    /\ UNCHANGED <<call, staged>>

\* download_artifact is done: the deployment goes on with the file's path.
Fetched(d, name) ==
    IF call[d] = "download"
    THEN Return(d)
    ELSE /\ path' = [path EXCEPT ![d] = name]
         /\ Enter(d, IF call[d] = "portal" THEN "copy" ELSE "deps")
         /\ UNCHANGED <<runid, repo>>

\* No file from Blossom: look for a run, or take the one that was given.
FallBack(d) ==
    /\ Enter(d, IF runid[d] = "none" THEN "find" ELSE "download")
    /\ UNCHANGED locals

\* _resolve_blossom_binary and _download_blossom_binary: relays may show any of the
\* matching builds or none, and servers send the file, some page that is long enough
\* to pass for one, or too little, which stays where it is.
Resolve(d) ==
    /\ pc[d] = "resolve"
    /\ \/ FallBack(d) /\ UNCHANGED <<dir, mixed>>
       \/ \E a \in Matches(d, Pin[d]) :
            \/ /\ \E file \in {a, Junk} : dir' = [dir EXCEPT ![a] = file]
               /\ Fetched(d, a)
               /\ mixed' = (mixed \ {d}) \cup Disturbed(d)
            \/ /\ dir' = [dir EXCEPT ![a] = Junk]
               /\ FallBack(d)
               /\ mixed' = mixed \cup Disturbed(d)
    /\ UNCHANGED <<call, staged>>

\* A mutant: upstream is tried again as if it were the fork.
FindRunAgain(d) ==
    /\ pc[d] = "find"
    /\ \/ /\ runid' = [runid EXCEPT ![d] = "run"]
          /\ Enter(d, "download")
       \/ Enter(d, "clear") /\ UNCHANGED runid
    /\ UNCHANGED <<call, dir, repo, path, staged, mixed>>

\* The branch's latest run; a fork without one is given up for upstream, from the
\* start.
FindRun(d) ==
    /\ pc[d] = "find"
    /\ \/ /\ runid' = [runid EXCEPT ![d] = "run"]
          /\ Enter(d, "download")
          /\ UNCHANGED repo
       \/ /\ repo[d] = "fork"
          /\ repo' = [repo EXCEPT ![d] = "upstream"]
          /\ Enter(d, "clear")
          /\ UNCHANGED runid
    /\ UNCHANGED <<call, dir, path, staged, mixed>>

\* gh run download: there is no run called blossom.  Artifacts that have expired are
\* rebuilt, once.
Download(d) ==
    /\ pc[d] \in {"download", "again"} /\ runid[d] = "run"
    /\ \/ /\ \E a \in RunArtifacts(d) : dir' = [dir EXCEPT ![a] = a]
          /\ mixed' = mixed \cup Disturbed(d)
          /\ Enter(d, "pick")
       \/ pc[d] = "download" /\ Enter(d, "rerun") /\ UNCHANGED <<dir, mixed>>
    /\ UNCHANGED <<call, locals, staged>>

\* _rerun_arch_job has succeeded: empty BUILD_DIR, now without sudo, and download again.
Rerun(d) ==
    /\ pc[d] = "rerun"
    /\ \E left \in Leftovers :
        /\ Leaving(left)
        /\ \/ left = {} /\ Enter(d, "again") /\ UNCHANGED locals
           \/ Return(d)
    /\ mixed' = mixed \cup Disturbed(d)
    /\ UNCHANGED <<call, staged>>

Flat(d) == IF call[d] = "portal" THEN "portal" ELSE "tollgate"

\* The first of the package files in BUILD_DIR, in whatever order, is copied to a
\* name of its own.
Pick(d) ==
    /\ pc[d] = "pick"
    /\ \E n \in Names :
        /\ dir[n] # Nothing
        /\ dir' = [dir EXCEPT ![Flat(d)] = dir[n]]
    /\ mixed' = mixed \cup Disturbed(d)
    /\ Fetched(d, Flat(d))
    /\ UNCHANGED <<call, staged>>

\* deploy() looks whether it has a file, and keeps the router busy with the test
\* dependencies before it copies it.
Deps(d) ==
    /\ pc[d] = "deps" /\ dir[path[d]] # Nothing
    /\ Enter(d, "copy")
    /\ UNCHANGED <<call, dir, locals, staged, mixed>>

\* scp, which raises when it fails or has no file.
Copy(d) ==
    /\ pc[d] = "copy" /\ dir[path[d]] # Nothing
    /\ staged' = [staged EXCEPT ![d] = dir[path[d]]]
    /\ Return(d)
    /\ UNCHANGED <<call, dir, mixed>>

Step(d) ==
    \/ Ensure(d) \/ Clear(d) \/ Resolve(d) \/ FindRun(d) \/ Download(d) \/ Rerun(d)
    \/ Pick(d) \/ Deps(d) \/ Copy(d) \/ Raises(d)

Next == \E d \in Deployers : (\E op \in Operations : Call(d, op)) \/ Step(d)

Spec == Init /\ [][Next]_vars

\* A call that runs keeps running: each of its commands has a time-out.
FairSpec == Spec /\ \A d \in Deployers : WF_vars(Step(d))

-----------------------------------------------------------------------------
\* What a deployment has copied to its router is a build that CI made for the branch
\* asked for, or that passes for one by its file name, or no package at all, or for a
\* portal perhaps the portal.  A file from Blossom is, whatever is in BUILD_DIR and whoever
\* else works there; one picked from the files of a CI run is unless the directory had not
\* been emptied or another process has changed it since.  Deploy goes by it.
StagedIsAsked ==
    \A d \in Deployers :
        d \notin mixed /\ staged[d] # Nothing
            => staged[d] \in Deliverable(call[d], BranchAsked(d))

\* Every call comes back, without a fork, without runs and without a router.
CallsEnd == \A d \in Deployers : pc[d] # "idle" ~> pc[d] = "idle"
=============================================================================
