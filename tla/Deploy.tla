------------------------------- MODULE Deploy -------------------------------
(***************************************************************************)
(* The second half of deploy/ci_artifact.py: what a process does to its    *)
(* router.  Operations: deploy_branch without and with reboot,             *)
(* deploy_portal, factory_reset and firstboot_reset.  Fetching the package *)
(* is one step here that has the outcomes of CiArtifact when no other      *)
(* process has used BUILD_DIR meanwhile and its removal has not failed.    *)
(*                                                                         *)
(* Router.ssh returns "" for a command that failed or never reached the    *)
(* router, and raises only when it times out.  The router reboots by       *)
(* itself, when told to; its power is never cut.                           *)
(***************************************************************************)
EXTENDS Builds

CONSTANTS
    Branches,
    Deps          \* the test dependencies

Operations == {"branch", "reboot", "portal", "factory", "firstboot"}

ASSUME BranchesKnown == BranchOf \in [Backends -> Branches] /\ PortalBranch \in Branches
ASSUME DepsApart == Deps \notin Packages \cup {Junk, Nothing}

VARIABLES
    pc,
    call,    \* what is being done; in idle, what has last succeeded, if it has
    branch,  \* the branch asked for
    power,   \* the router: up, still up but about to reboot (or wipe), or down
    pkgs,    \* packages installed on the router
    svc,     \* the backend is running
    tmp,     \* the file copied to the router
    found,   \* history: the packages at the beginning of the call
    mishaps  \* history: what has gone wrong in this call without anything raising

routerVars == <<power, pkgs, svc, tmp>>
vars == <<pc, call, branch, routerVars, found, mishaps>>

Mishaps == {
    "install lost",    \* the command that installs has not run
    "up to date",      \* opkg has found nothing to install, and had the service restarted
    "went down",       \* the router, from an earlier call, while this one did not wait for it
    "reset lost",      \* the command that reboots, or wipes, has not run
    "early",           \* the wait has ended with the router still to go down
    "deps lost"}       \* the dependencies have not been installed

Labels == {"idle", "check", "fetch", "copy", "install", "verify", "restart",
           "wait", "redeps", "health", "factory"}

TypeOK ==
    /\ pc \in Labels
    /\ call \in Operations \cup {"none", "skipped"}
    /\ branch \in Branches
    /\ power \in {"up", "rebooting", "wiping", "down"}
    /\ pkgs \subseteq Packages \cup {Deps}
    /\ svc \in BOOLEAN
    /\ tmp \in Packages \cup {Junk, Nothing}
    /\ found \subseteq Packages \cup {Deps}
    /\ mishaps \subseteq Mishaps
    /\ svc => power # "down"
    /\ call \in {"none", "skipped"} => pc = "idle"

Init ==
    /\ pc = "idle"
    /\ call = "none"
    /\ branch = PortalBranch
    /\ power = "up"
    /\ \E old \in {{}} \cup {{a} : a \in Backends} :
        /\ pkgs = old
        /\ svc = (old # {})
    /\ tmp = Nothing
    /\ found = pkgs
    /\ mishaps = {}

-----------------------------------------------------------------------------
\* The call returns: with success, when result is the call itself.
Return(result) == pc' = "idle" /\ call' = result

Goto(label) == pc' = label /\ UNCHANGED call

Reachable == power # "down"

\* A command the router runs, or one that comes back empty without having run.
Ssh(ran, mishap) ==
    /\ ran => Reachable
    /\ mishaps' = IF ran THEN mishaps ELSE mishaps \cup {mishap}

\* deploy_branch looks at the router first unless it is forced.
Start == [branch |-> {"check", "fetch"}, reboot |-> {"check", "fetch"},
          portal |-> {"fetch"}, factory |-> {"factory"}, firstboot |-> {"restart"}]

Call(op, b) ==
    /\ pc = "idle"
    /\ pc' \in Start[op]
    /\ call' = op
    /\ branch' = IF op = "portal" THEN PortalBranch ELSE b
    /\ found' = pkgs
    /\ mishaps' = {}
    /\ UNCHANGED routerVars

\* Whatever is not suppressed raises: a time-out, no package, a copy that fails, a
\* router with another MAC address than the one to be wiped.  The process dying is no
\* different, and may come at any time.
Raises ==
    /\ pc \notin {"idle", "wait"}
    /\ Return("none")
    /\ UNCHANGED <<branch, routerVars, found, mishaps>>

Crash ==
    /\ pc = "wait"
    /\ Return("none")
    /\ UNCHANGED <<branch, routerVars, found, mishaps>>

\* deploy_branch without force: something installed, running and answering is enough.
CheckDeployed ==
    /\ pc = "check"
    /\ \/ Reachable /\ svc /\ Return("skipped")
       \/ Goto("fetch")
    /\ UNCHANGED <<branch, routerVars, found, mishaps>>

OfBranch == BuildsOf(branch) \cup NamedFor(branch)

\* What CiArtifact stages, by its StagedIsAsked.
Fetchable == Deliverable(call, branch)

-----------------------------------------------------------------------------
\* install_test_deps.
InstallTestDeps(ran) ==
    /\ Ssh(ran, "deps lost")
    /\ pkgs' = IF ran THEN pkgs \cup {Deps} ELSE pkgs

\* download_artifact, and then the dependencies unless it is a portal.
Fetch ==
    /\ pc = "fetch"
    /\ IF call = "portal"
       THEN Goto("copy") /\ UNCHANGED <<pkgs, mishaps>>
       ELSE Goto("copy") /\ \E ran \in BOOLEAN : InstallTestDeps(ran)
    /\ UNCHANGED <<branch, power, svc, tmp, found>>

\* scp raises when it fails.
Copy ==
    /\ pc = "copy" /\ Reachable
    /\ tmp' \in Fetchable
    /\ Goto("install")
    /\ UNCHANGED <<branch, power, pkgs, svc, found, mishaps>>

\* A package is added, a backend in the place of another.
Added(p) == (IF p \in Backends THEN pkgs \ Backends ELSE pkgs) \cup {p}

\* The rest of the operation after the command that installs.
AfterInstall == [branch |-> "health", reboot |-> "restart", portal |-> "verify"]

\* The service once the command has got as far as restarting it.
Restarted == IF call = "portal" THEN {svc} ELSE BOOLEAN

\* opkg or apk installs the package.
Installs == Reachable /\ tmp \in Packages /\ pkgs' = Added(tmp) /\ svc' \in Restarted

\* It finds a build as new installed and does nothing, which is a success: the service
\* is restarted as if it had.
UpToDate ==
    /\ Reachable /\ tmp \in Backends /\ pkgs \cap Backends # {}
    /\ svc' \in Restarted /\ UNCHANGED pkgs

\* It fails, and the commands that follow on success are left out.
InstallFails == Reachable /\ svc' = (call = "portal" /\ svc) /\ UNCHANGED pkgs

\* A mutant: the service is left running while the package is installed.
InstallLive ==
    /\ pc = "install"
    /\ \/ (Installs \/ (Reachable /\ UNCHANGED <<pkgs, svc>>)) /\ UNCHANGED mishaps
       \/ UpToDate /\ mishaps' = mishaps \cup {"up to date"}
       \/ UNCHANGED <<pkgs, svc>> /\ Ssh(FALSE, "install lost")
    /\ Goto(AfterInstall[call])
    /\ tmp' = Nothing
    /\ UNCHANGED <<branch, power, found>>

\* The command that installs.  A backend's stops the service first and starts it only
\* after the installation, if it does start; a portal's leaves the service alone.
Install ==
    /\ pc = "install"
    /\ \/ (Installs \/ InstallFails) /\ UNCHANGED mishaps
       \/ UpToDate /\ mishaps' = mishaps \cup {"up to date"}
       \/ UNCHANGED <<pkgs, svc>> /\ Ssh(FALSE, "install lost")
    /\ Goto(AfterInstall[call])
    /\ tmp' = Nothing
    /\ UNCHANGED <<branch, power, found>>

\* deploy_portal asks opkg whether the package is there, not whether it has just come.
VerifyPortal ==
    /\ pc = "verify"
    /\ \/ Reachable /\ Portal \in pkgs /\ Return(call)
       \/ Return("none")
    /\ UNCHANGED <<branch, routerVars, found, mishaps>>

\* _wait_for_health, and one more look.  A running backend may take too long.
Health ==
    /\ pc = "health"
    /\ \/ Reachable /\ svc /\ Return(call)
       \/ Return("none")
    /\ UNCHANGED <<branch, routerVars, found, mishaps>>

-----------------------------------------------------------------------------
\* factory_reset: opkg removes the package, or does not - a router with apk has no
\* opkg - and a reboot follows, or that was it, or a later command raises.
FactoryReset ==
    /\ pc = "factory"
    /\ \/ Reachable /\ pkgs' = pkgs \ Backends /\ svc' = FALSE
       \/ UNCHANGED <<pkgs, svc>>
    /\ Goto("restart") \/ Return(call) \/ Return("none")
    /\ UNCHANGED <<branch, power, tmp, found, mishaps>>

\* reboot_router's and firstboot_reset's command; its failure is suppressed.
Restart ==
    /\ pc = "restart"
    /\ \/ /\ Reachable /\ UNCHANGED mishaps
          /\ power' = IF call = "firstboot" \/ power = "wiping" THEN "wiping" ELSE "rebooting"
       \/ Ssh(FALSE, "reset lost") /\ UNCHANGED power
    /\ Goto("wait")
    /\ UNCHANGED <<branch, pkgs, svc, tmp, found>>

\* A mutant: the wait has no deadline.
WaitForever ==
    /\ pc = "wait" /\ Reachable
    /\ Goto("redeps")
    /\ mishaps' = IF power = "up" THEN mishaps ELSE mishaps \cup {"early"}
    /\ UNCHANGED <<branch, routerVars, found>>

\* _wait_for_reboot returns when the router answers, be it that it has not gone down
\* yet, or at its deadline.  reboot_router does not ask which.
WaitForReboot ==
    /\ pc = "wait"
    /\ \/ /\ Reachable
          /\ Goto("redeps")
          /\ mishaps' = IF power = "up" THEN mishaps ELSE mishaps \cup {"early"}
       \/ /\ IF call = "firstboot" THEN Return("none") ELSE Goto("redeps")
          /\ UNCHANGED mishaps
    /\ UNCHANGED <<branch, routerVars, found>>

\* A mutant: the packages a reset removes are not put back.
RedoDepsSkipped ==
    /\ pc = "redeps"
    /\ IF call = "firstboot" THEN Return(call) ELSE Goto("health")
    /\ UNCHANGED <<branch, routerVars, found, mishaps>>

\* The test dependencies again; firstboot_reset asks no more, if they do not raise.
RedoDeps ==
    /\ pc = "redeps"
    /\ \E ran \in BOOLEAN : InstallTestDeps(ran)
    /\ IF call = "firstboot" THEN Return(call) \/ Return("none") ELSE Goto("health")
    /\ UNCHANGED <<branch, power, svc, tmp, found>>

-----------------------------------------------------------------------------
\* A router told to reboot goes down, and forgets what was in its memory.
GoesDown ==
    /\ power \in {"rebooting", "wiping"}
    /\ power' = "down"
    /\ svc' = FALSE
    /\ pkgs' = IF power = "wiping" THEN {} ELSE pkgs
    /\ tmp' = Nothing
    /\ mishaps' = IF pc \in {"idle", "wait"} THEN mishaps ELSE mishaps \cup {"went down"}
    /\ UNCHANGED <<pc, call, branch, found>>

\* It comes back with the backend it has, if that starts.
ComesUp ==
    /\ power = "down"
    /\ power' = "up"
    /\ svc' \in {FALSE, pkgs \cap Backends # {}}
    /\ UNCHANGED <<pc, call, branch, pkgs, tmp, found, mishaps>>

Step ==
    \/ CheckDeployed \/ Fetch \/ Copy \/ Install \/ VerifyPortal \/ Health
    \/ FactoryReset \/ Restart \/ WaitForReboot \/ RedoDeps \/ Raises

Next ==
    \/ \E op \in Operations, b \in Branches : Call(op, b)
    \/ Step \/ Crash
    \/ GoesDown \/ ComesUp

Spec == Init /\ [][Next]_vars

\* A call that runs keeps running: each of its commands has a time-out.  Routers need
\* not come back.
FairSpec == Spec /\ WF_vars(Step)
-----------------------------------------------------------------------------
Succeeds(op) == pc # "idle" /\ call = op /\ pc' = "idle" /\ call' = op

\* A deployment (without a reboot) that reports success has installed a build of the branch
\* asked for, or one that passes for it by its file name - or it has seen the health of
\* exactly the backend that was there before: only when the command was lost, opkg found
\* nothing to do, or an earlier call's reboot came in between.  The health of a backend that
\* a failed installation has left behind is never taken for success.
SuccessIsInstalled ==
    [][Succeeds("branch") =>
          \/ pkgs \cap OfBranch # {}
          \/ /\ mishaps \cap {"install lost", "up to date", "went down"} # {}
             /\ pkgs \cap Backends = found \cap Backends]_vars

\* A firstboot reset that reports success has wiped the router and put the test
\* dependencies back after that, not before, with three exceptions.  The command was lost,
\* and all there was is there; the wait took an answer from before the router went down,
\* which is still to happen; the dependencies were lost on a router that is wiped.
ResetIsReal ==
    [][Succeeds("firstboot") =>
          \/ pkgs' = {Deps}
          \/ "reset lost" \in mishaps /\ pkgs' \ {Deps} = found \ {Deps}
          \/ "early" \in mishaps /\ power = "wiping"
          \/ "deps lost" \in mishaps' /\ pkgs' = {}]_vars

\* Every call comes back, whether or not the router does.
CallsEnd == pc # "idle" ~> pc = "idle"
=============================================================================
