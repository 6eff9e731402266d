---------------------------- MODULE DeployProofs ----------------------------
(***************************************************************************)
(* What the success of a deployment or of a reset says about the router,   *)
(* for any builds and branches.                                            *)
(***************************************************************************)
EXTENDS Deploy, TLAPS

\* Which operations get where.
ControlInv ==
    /\ pc = "check" => call \in {"branch", "reboot"}
    /\ pc \in {"fetch", "copy", "install"} => call \in {"branch", "reboot", "portal"}
    /\ pc = "verify" => call = "portal"
    /\ pc = "factory" => call = "factory"
    /\ pc \in {"restart", "wait", "redeps"} => call \in {"reboot", "factory", "firstboot"}
    /\ pc = "health" => call \in {"branch", "reboot", "factory"}

\* What excuses a success without a build of the branch.
Excused == mishaps \cap {"install lost", "up to date", "went down"} # {}

\* A backend runs only where one is installed.  Before the command that installs, it is the
\* one found, unless an earlier call's wipe has removed it; after it, it is of the branch,
\* or does not run, or is excused.
InstalledInv ==
    /\ svc => pkgs \cap Backends # {}
    /\ pc = "install" /\ call # "portal" => tmp \in OfBranch \cup {Junk, Nothing}
    /\ pc \in {"check", "fetch", "copy", "install"} /\ call = "branch" =>
           \/ pkgs \cap Backends = found \cap Backends
           \/ pkgs \cap Backends = {}
    /\ pc = "health" /\ call = "branch" =>
           \/ pkgs \cap OfBranch # {}
           \/ pkgs \cap Backends = {}
           \/ pkgs \cap Backends = found \cap Backends /\ (Excused \/ ~svc)
    /\ pc = "health" /\ call = "branch" /\ ~Excused => Reachable

\* Until the test dependencies come, a router is as it was found or it is wiped, and while
\* it is neither told to wipe itself nor wiped, the command was lost.
WipedInv ==
    /\ pc \in {"restart", "wait", "redeps"} /\ call = "firstboot" => pkgs \in {{}, found}
    /\ pc \in {"wait", "redeps"} /\ call = "firstboot" =>
           pkgs = {} \/ "reset lost" \in mishaps \/ power = "wiping"
    /\ pc = "redeps" /\ call = "firstboot" /\ power = "wiping" => "early" \in mishaps

DeployInv == TypeOK /\ ControlInv /\ InstalledInv /\ WipedInv

LEMMA InitHolds == Init => DeployInv
<1> SUFFICES ASSUME Init
             PROVE  DeployInv
  OBVIOUS
<1>1. PICK old \in {{}} \cup {{a} : a \in Backends} : pkgs = old /\ svc = (old # {})
  BY DEF Init
<1>2. old \subseteq Backends
  OBVIOUS
<1>3. TypeOK
  BY <1>1, <1>2, BranchesKnown DEF Init, TypeOK, Labels, Packages, Mishaps
<1>4. svc => pkgs \cap Backends # {}
  BY <1>1, <1>2
<1> QED
  BY <1>3, <1>4
  DEF Init, DeployInv, ControlInv, InstalledInv, WipedInv

LEMMA MishapNames ==
    {"install lost", "up to date", "went down", "reset lost", "early", "deps lost"} \subseteq Mishaps
BY DEF Mishaps

LEMMA StartLabels ==
    /\ Start["branch"] = {"check", "fetch"} /\ Start["reboot"] = {"check", "fetch"}
    /\ Start["portal"] = {"fetch"}
    /\ Start["factory"] = {"factory"} /\ Start["firstboot"] = {"restart"}
BY DEF Start

LEMMA AfterInstallLabels ==
    /\ AfterInstall["branch"] = "health" /\ AfterInstall["reboot"] = "restart"
    /\ AfterInstall["portal"] = "verify"
BY DEF AfterInstall

\* What only looks at the router, or ends a call.
LEMMA LookStep ==
    ASSUME CheckDeployed \/ VerifyPortal \/ Health \/ Raises \/ Crash
    PROVE  /\ UNCHANGED <<branch, power, pkgs, svc, tmp, found, mishaps>>
           /\ \/ pc' = "idle" /\ call' \in {call, "none", "skipped"}
              \/ pc = "check" /\ pc' = "fetch" /\ call' = call
BY DEF CheckDeployed, VerifyPortal, Health, Raises, Crash, Return, Goto, routerVars

\* Where the command that installs leads, and what it leaves alone.
LEMMA InstallControl ==
    ASSUME ControlInv, Install
    PROVE  /\ UNCHANGED <<call, branch, power, found>> /\ tmp' = Nothing
           /\ \/ call = "branch" /\ pc' = "health"
              \/ call = "reboot" /\ pc' = "restart"
              \/ call = "portal" /\ pc' = "verify"
<1>1. pc = "install" /\ pc' = AfterInstall[call] /\ call \in {"branch", "reboot", "portal"}
  BY DEF Install, Goto, ControlInv
<1>2. UNCHANGED <<call, branch, power, found>> /\ tmp' = Nothing
  BY DEF Install, Goto
<1> QED
  BY <1>1, <1>2, AfterInstallLabels

\* What installing does to the packages, the service and the history.
LEMMA InstallCases ==
    ASSUME svc \in BOOLEAN, Install
    PROVE  /\ svc' \in BOOLEAN
           /\ \/ Installs /\ mishaps' = mishaps
              \/ InstallFails /\ mishaps' = mishaps
              \/ UpToDate /\ mishaps' = mishaps \cup {"up to date"}
              \/ UNCHANGED <<pkgs, svc>> /\ mishaps' = mishaps \cup {"install lost"}
<1>1. \/ Installs /\ mishaps' = mishaps
      \/ InstallFails /\ mishaps' = mishaps
      \/ UpToDate /\ mishaps' = mishaps \cup {"up to date"}
      \/ UNCHANGED <<pkgs, svc>> /\ mishaps' = mishaps \cup {"install lost"}
  BY DEF Install, Ssh
<1>2. Installs => svc' \in BOOLEAN
  BY DEF Installs, Restarted
<1>3. UpToDate => svc' \in BOOLEAN
  BY DEF UpToDate, Restarted
<1>4. InstallFails => svc' \in BOOLEAN
  BY DEF InstallFails
<1> QED
  BY <1>1, <1>2, <1>3, <1>4

LEMMA FactoryCases ==
    ASSUME svc \in BOOLEAN, FactoryReset
    PROVE  /\ svc' = FALSE \/ UNCHANGED <<pkgs, svc>>
           /\ svc' \in BOOLEAN
           /\ pkgs' \subseteq pkgs
           /\ pc = "factory" /\ pc' \in {"restart", "idle"} /\ call' \in {call, "none"}
           /\ pc' = "restart" => call' = call
           /\ UNCHANGED <<branch, power, tmp, found, mishaps>>
<1>1. svc' = FALSE \/ UNCHANGED <<pkgs, svc>>
  BY DEF FactoryReset
<1>5. svc' \in BOOLEAN
  BY <1>1
<1>2. pkgs' \subseteq pkgs
  BY DEF FactoryReset
<1>3. /\ pc = "factory" /\ pc' \in {"restart", "idle"} /\ call' \in {call, "none"}
      /\ pc' = "restart" => call' = call
  BY DEF FactoryReset, Goto, Return
<1>4. UNCHANGED <<branch, power, tmp, found, mishaps>>
  BY DEF FactoryReset
<1> QED
  BY <1>1, <1>2, <1>3, <1>4, <1>5

LEMMA RedoDepsCases ==
    ASSUME RedoDeps
    PROVE  /\ \/ pkgs' = pkgs \cup {Deps} /\ mishaps' = mishaps
              \/ pkgs' = pkgs /\ mishaps' = mishaps \cup {"deps lost"}
           /\ pc = "redeps"
           /\ \/ pc' = "idle" /\ call = "firstboot" /\ call' \in {call, "none"}
              \/ pc' = "health" /\ call # "firstboot" /\ call' = call
           /\ UNCHANGED <<branch, power, svc, tmp, found>>
<1>1. \/ pkgs' = pkgs \cup {Deps} /\ mishaps' = mishaps
      \/ pkgs' = pkgs /\ mishaps' = mishaps \cup {"deps lost"}
  BY DEF RedoDeps, InstallTestDeps, Ssh
<1>2. /\ pc = "redeps"
      /\ \/ pc' = "idle" /\ call = "firstboot" /\ call' \in {call, "none"}
         \/ pc' = "health" /\ call # "firstboot" /\ call' = call
  BY DEF RedoDeps, Goto, Return
<1> QED
  BY <1>1, <1>2 DEF RedoDeps

LEMMA TypeStep ==
    ASSUME TypeOK, ControlInv, InstalledInv, [Next]_vars
    PROVE  TypeOK' /\ ControlInv'
<1> USE DEF TypeOK, ControlInv, Labels
<1>1. ASSUME NEW op \in Operations, NEW b \in Branches, Call(op, b)
      PROVE  TypeOK' /\ ControlInv'
  <2>1. /\ pc' \in Start[op] /\ call' = op /\ branch' \in Branches
        /\ found' = pkgs /\ mishaps' = {} /\ UNCHANGED routerVars
    BY <1>1, BranchesKnown DEF Call
  <2>2. /\ pc' \in Labels /\ pc' # "idle" /\ ControlInv'
    BY <2>1, StartLabels DEF Operations
  <2> QED
    BY <2>1, <2>2 DEF Operations, routerVars
<1>2. CASE CheckDeployed \/ VerifyPortal \/ Health
  BY <1>2, LookStep
<1>3. CASE Raises \/ Crash
  BY <1>3, LookStep
<1>4. CASE Fetch
  BY <1>4, MishapNames DEF Fetch, Goto, InstallTestDeps, Ssh
<1>5. CASE Copy
  BY <1>5 DEF Copy, Goto, Fetchable, Deliverable, BuildsOf, NamedFor, Packages
<1>6. CASE Install
  <2>1. pc' \in Labels /\ ControlInv' /\ UNCHANGED <<call, branch, power, found>>
        /\ call # "none" /\ call # "skipped" /\ tmp' = Nothing
    BY <1>6, InstallControl
  <2>2. mishaps' \subseteq Mishaps /\ svc' \in BOOLEAN
    BY <1>6, InstallCases, MishapNames
  <2>3. svc' => power # "down"
    BY <1>6, InstallCases DEF Installs, UpToDate, InstallFails, Reachable
  <2>4. pkgs' \subseteq Packages \cup {Deps}
    BY <1>6, InstallCases DEF Installs, UpToDate, InstallFails, Added
  <2> QED
    BY <2>1, <2>2, <2>3, <2>4
<1>7. CASE FactoryReset
  <2>0. svc' \in BOOLEAN /\ (svc' = FALSE \/ UNCHANGED <<pkgs, svc>>)
    BY <1>7, FactoryCases
  <2>1. svc' \in BOOLEAN /\ (svc' => svc)
    BY <2>0
  <2>2. pkgs' \subseteq Packages \cup {Deps} /\ UNCHANGED <<branch, power, tmp, found, mishaps>>
    BY <1>7, FactoryCases
  <2>3. /\ pc' \in {"restart", "idle"} /\ call' \in {"factory", "none"}
        /\ call' = "none" => pc' = "idle"
    BY <1>7, FactoryCases
  <2> QED
    BY <2>1, <2>2, <2>3 DEF Operations
<1>8. CASE Restart
  BY <1>8, MishapNames DEF Restart, Goto, Ssh, Reachable
<1>9. CASE WaitForReboot
  BY <1>9, MishapNames DEF WaitForReboot, Goto, Return, routerVars
<1>10. CASE RedoDeps
  BY <1>10, MishapNames DEF RedoDeps, Goto, Return, InstallTestDeps, Ssh
<1>11. CASE GoesDown
  BY <1>11, MishapNames DEF GoesDown
<1>12. CASE ComesUp
  BY <1>12 DEF ComesUp
<1>13. CASE UNCHANGED vars
  BY <1>13 DEF vars, routerVars
<1> QED
  BY <1>1, <1>2, <1>3, <1>4, <1>5, <1>6, <1>7, <1>8, <1>9, <1>10, <1>11, <1>12, <1>13
  DEF Next, Step

LEMMA InstalledStep ==
    ASSUME TypeOK, ControlInv, InstalledInv, [Next]_vars
    PROVE  InstalledInv'
<1> USE DEF InstalledInv, Excused, OfBranch, Reachable
<1>1. ASSUME NEW op \in Operations, NEW b \in Branches, Call(op, b)
      PROVE  InstalledInv'
  BY <1>1, StartLabels DEF Call, Operations, routerVars, TypeOK
<1>2. CASE CheckDeployed \/ VerifyPortal \/ Health \/ Raises \/ Crash
  <2>1. UNCHANGED <<branch, power, pkgs, svc, tmp, found, mishaps>>
    BY <1>2, LookStep
  <2>2. CASE pc' = "idle"
    BY <2>1, <2>2
  <2>3. CASE pc = "check" /\ pc' = "fetch" /\ call' = call
    BY <2>1, <2>3
  <2> QED
    BY <1>2, <2>2, <2>3, LookStep
<1>4. CASE Fetch
  <2>1. /\ pkgs' \cap Backends = pkgs \cap Backends /\ mishaps \subseteq mishaps'
        /\ pc = "fetch" /\ pc' = "copy" /\ UNCHANGED <<call, branch, power, svc, tmp, found>>
    BY <1>4, DepsApart DEF Fetch, Goto, InstallTestDeps, Ssh, Packages
  <2> QED
    BY <2>1
<1>5. CASE Copy
  BY <1>5 DEF Copy, Goto, Fetchable, Deliverable
<1>6. CASE Install
  <2>0. /\ call \in {"branch", "reboot", "portal"} /\ pc' \notin {"idle", "install"}
        /\ pc' \notin {"check", "fetch", "copy"} /\ (pc' = "health" => call = "branch")
        /\ UNCHANGED <<call, branch, power, found>>
    BY <1>6, InstallControl
  <2>1. CASE Installs /\ UNCHANGED mishaps
    <3>1. CASE tmp \in Backends
      <4>1. tmp \in pkgs' /\ (call = "branch" => tmp \in OfBranch) /\ Reachable
        BY <1>6, <2>0, <2>1, <3>1, PackagesApart DEF Install, Installs, Added, Packages
      <4> QED
        BY <2>0, <3>1, <4>1 DEF Reachable
    <3>2. CASE tmp \notin Backends
      <4>1. call = "portal" /\ svc' = svc
        BY <1>6, <2>0, <2>1, <3>2, PackagesApart
        DEF Install, Installs, Restarted, BuildsOf, NamedFor, Packages
      <4>2. pkgs \subseteq pkgs'
        BY <2>1, <3>2 DEF Installs, Added
      <4> QED
        BY <2>0, <4>1, <4>2
    <3> QED
      BY <3>1, <3>2
  <2>2. CASE InstallFails /\ UNCHANGED mishaps
    <3>1. pkgs' = pkgs /\ (svc' => svc /\ call = "portal") /\ Reachable
      BY <2>2 DEF InstallFails
    <3> QED
      BY <1>6, <2>0, <2>2, <3>1 DEF Install, Reachable
  <2>3. CASE UpToDate /\ mishaps' = mishaps \cup {"up to date"}
    <3>1. pkgs' = pkgs /\ pkgs \cap Backends # {} /\ "up to date" \in mishaps'
      BY <2>3 DEF UpToDate
    <3> QED
      BY <1>6, <2>0, <3>1 DEF Install
  <2>4. CASE UNCHANGED <<pkgs, svc>> /\ Ssh(FALSE, "install lost")
    <3>1. pkgs' = pkgs /\ svc' = svc /\ "install lost" \in mishaps'
      BY <2>4 DEF Ssh
    <3> QED
      BY <1>6, <2>0, <3>1 DEF Install
  <2> QED
    BY <1>6, <2>1, <2>2, <2>3, <2>4 DEF Install
<1>7. CASE FactoryReset
  <2>1. pc' \in {"restart", "idle"}
    BY <1>7, FactoryCases DEF TypeOK
  <2>2. svc' = FALSE \/ UNCHANGED <<pkgs, svc>>
    BY <1>7, FactoryCases DEF TypeOK
  <2>3. svc' => pkgs' \cap Backends # {}
    BY <2>2
  <2> QED
    BY <2>1, <2>3
<1>8. CASE Restart
  BY <1>8 DEF Restart, Goto
<1>9. CASE WaitForReboot
  BY <1>9 DEF WaitForReboot, Goto, Return, routerVars, ControlInv
<1>10. CASE RedoDeps
  <2>1. pkgs \subseteq pkgs' /\ svc' = svc
    BY <1>10, RedoDepsCases
  <2> QED
    BY <1>10, <2>1, RedoDepsCases DEF ControlInv
<1>11. CASE GoesDown
  <2>1. /\ svc' = FALSE /\ pkgs' \in {pkgs, {}}
        /\ pc \in {"check", "fetch", "copy", "install", "health"} => "went down" \in mishaps'
        /\ tmp' = Nothing /\ UNCHANGED <<pc, call, branch, found>>
    BY <1>11 DEF GoesDown
  <2> QED
    BY <2>1
<1>12. CASE ComesUp
  BY <1>12 DEF ComesUp, Reachable
<1>13. CASE UNCHANGED vars
  BY <1>13 DEF vars, routerVars
<1> QED
  BY <1>1, <1>2, <1>4, <1>5, <1>6, <1>7, <1>8, <1>9, <1>10, <1>11, <1>12, <1>13
  DEF Next, Step

LEMMA WipedStep ==
    ASSUME TypeOK, ControlInv, WipedInv, [Next]_vars
    PROVE  WipedInv'
<1> USE DEF TypeOK, ControlInv, WipedInv, Operations, routerVars, Return, Goto, Reachable,
        Ssh, InstallTestDeps
<1>1. ASSUME NEW op \in Operations, NEW b \in Branches, Call(op, b)
      PROVE  WipedInv'
  BY <1>1, StartLabels DEF Call
<1>2. CASE CheckDeployed \/ VerifyPortal \/ Health
  BY <1>2, LookStep
<1>3. CASE Raises \/ Crash
  BY <1>3, LookStep
<1>4. CASE Fetch
  BY <1>4 DEF Fetch
<1>5. CASE Copy
  BY <1>5 DEF Copy
<1>6. CASE Install
  BY <1>6, InstallControl
<1>7. CASE FactoryReset
  <2>1. /\ svc' = FALSE \/ UNCHANGED <<pkgs, svc>>
        /\ pc' \in {"restart", "idle"} /\ call' # "firstboot"
    BY <1>7 DEF FactoryReset
  <2> QED
    BY <2>1
<1>8. CASE Restart
  BY <1>8 DEF Restart
<1>9. CASE WaitForReboot
  BY <1>9 DEF WaitForReboot
<1>10. CASE RedoDeps
  BY <1>10 DEF RedoDeps
<1>11. CASE GoesDown
  BY <1>11 DEF GoesDown
<1>12. CASE ComesUp
  BY <1>12 DEF ComesUp
<1>13. CASE UNCHANGED vars
  BY <1>13 DEF vars
<1> QED
  BY <1>1, <1>2, <1>3, <1>4, <1>5, <1>6, <1>7, <1>8, <1>9, <1>10, <1>11, <1>12, <1>13
  DEF Next, Step

LEMMA NextHolds == DeployInv /\ [Next]_vars => DeployInv'
BY TypeStep, InstalledStep, WipedStep DEF DeployInv

\* Only a look at the backend's health lets deploy_branch succeed, and only the end of the
\* dependencies' installation a firstboot reset.
LEMMA SuccessStep ==
    ASSUME ControlInv, [Next]_vars, NEW op \in {"branch", "firstboot"}, Succeeds(op)
    PROVE  IF op = "branch"
           THEN Health /\ svc
           ELSE RedoDeps
<1> USE DEF ControlInv, Succeeds, Return, Goto
<1>1. CASE \E o \in Operations, b \in Branches : Call(o, b)
  BY <1>1 DEF Call
<1>2. CASE CheckDeployed \/ VerifyPortal \/ Raises \/ Crash \/ FactoryReset
  BY <1>2 DEF CheckDeployed, VerifyPortal, Raises, Crash, FactoryReset
<1>3. CASE Fetch \/ Copy \/ Restart
  BY <1>3 DEF Fetch, Copy, Restart
<1>4. CASE Install
  BY <1>4, InstallControl
<1>5. CASE Health
  BY <1>5 DEF Health
<1>6. CASE WaitForReboot
  BY <1>6 DEF WaitForReboot
<1>7. CASE RedoDeps
  BY <1>7 DEF RedoDeps
<1>8. CASE GoesDown \/ ComesUp \/ UNCHANGED vars
  BY <1>8 DEF GoesDown, ComesUp, vars
<1> QED
  BY <1>1, <1>2, <1>3, <1>4, <1>5, <1>6, <1>7, <1>8 DEF Next, Step

\* The router's state stays consistent through every deployment, reset and reboot: a
\* backend that is down does not run, and a deployment under way is of a known kind.
THEOREM TypeCorrect == Spec => []TypeOK
<1>1. DeployInv => TypeOK
  BY DEF DeployInv
<1> QED
  BY <1>1, InitHolds, NextHolds, PTL DEF Spec

\* A deployment's success is the health of a build that CI made for the branch asked for,
\* or that passes for one by its name; or else of the very backend that was there before,
\* and that only after a lost command, an opkg with nothing to do, or a reboot that an
\* earlier call had asked for.
THEOREM SuccessInstalled == Spec => SuccessIsInstalled
<1>1. ASSUME DeployInv, [Next]_vars, Succeeds("branch")
      PROVE  \/ pkgs \cap OfBranch # {}
             \/ Excused /\ pkgs \cap Backends = found \cap Backends
  <2>1. Health /\ svc
    BY <1>1, SuccessStep DEF DeployInv
  <2> QED
    BY <1>1, <2>1 DEF DeployInv, InstalledInv, Health, Succeeds
<1>2. DeployInv /\ [Next]_vars =>
          [Succeeds("branch") =>
              \/ pkgs \cap OfBranch # {}
              \/ /\ mishaps \cap {"install lost", "up to date", "went down"} # {}
                 /\ pkgs \cap Backends = found \cap Backends]_vars
  BY <1>1 DEF Excused
<1> QED
  BY <1>2, InitHolds, NextHolds, PTL DEF Spec, SuccessIsInstalled

\* A firstboot reset's success is a router that was wiped and has its test dependencies,
\* or one that the command never reached, or that has still to wipe itself, or that is
\* wiped and lacks the dependencies; each of these only after the mishap that leads to it.
THEOREM ResetReal == Spec => ResetIsReal
<1>1. ASSUME DeployInv, [Next]_vars, Succeeds("firstboot")
      PROVE  \/ pkgs' = {Deps}
             \/ "reset lost" \in mishaps /\ pkgs' \ {Deps} = found \ {Deps}
             \/ "early" \in mishaps /\ power = "wiping"
             \/ "deps lost" \in mishaps' /\ pkgs' = {}
  <2>1. RedoDeps
    BY <1>1, SuccessStep
    DEF DeployInv
  <2> QED
    BY <1>1, <2>1 DEF DeployInv, WipedInv, RedoDeps, InstallTestDeps, Ssh, Succeeds
<1>2. DeployInv /\ [Next]_vars =>
          [Succeeds("firstboot") =>
              \/ pkgs' = {Deps}
              \/ "reset lost" \in mishaps /\ pkgs' \ {Deps} = found \ {Deps}
              \/ "early" \in mishaps /\ power = "wiping"
              \/ "deps lost" \in mishaps' /\ pkgs' = {}]_vars
  BY <1>1
<1> QED
  BY <1>2, InitHolds, NextHolds, PTL DEF Spec, ResetIsReal
=============================================================================
