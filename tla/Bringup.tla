------------------------------- MODULE Bringup -------------------------------
(***************************************************************************)
(* Bringing an OpenWrt router up for tests, from one test process:         *)
(* OpenWrtStrategy.transition (strategy/openwrt.py), and                   *)
(* install_fips_on_router and install_tollgate_on_router (deploy/fips.py   *)
(* and deploy/tollgate.py).  All of them start services with "|| true" and *)
(* go by what they see afterwards, if they look at all.                    *)
(*                                                                         *)
(* transition calls itself for the rungs below the one it is to reach; at  *)
(* is the rung it works on, goal the one it was called for.  Which build   *)
(* is downloaded is left open, and what the configuration says.            *)
(* MaxAttempts bounds the wait for ssh, 30 attempts in the code.           *)
(*                                                                         *)
(* No name here is one of Router's: RouterProofs extends both modules.     *)
(***************************************************************************)
EXTENDS Naturals

CONSTANTS MaxAttempts

ASSUME MaxAttemptsNat == MaxAttempts \in Nat

Services == {"fips", "tollgate"}
States == {"unknown", "boot", "shell", "service_running", "test_ready"}

VARIABLES
    up,        \* the router is up and answers
    installed, \* the services it has
    running,   \* those that run
    state,     \* the strategy's
    at,        \* where the process is
    goal,      \* the state to get to, or the service to install
    attempts,
    answer,    \* of the last call, when it is over
    started    \* history: services told to start since ssh was last seen to work

serviceVars == <<up, installed, running>>
bringupVars == <<serviceVars, state, at, goal, attempts, answer, started>>

Places == {"idle", "shell", "start_fips", "start_tollgate", "verify",
           "download", "upload", "install", "start", "status"}

BringupTypeOK ==
    /\ up \in BOOLEAN
    /\ installed \subseteq Services
    /\ running \subseteq installed
    /\ state \in States
    /\ at \in Places
    /\ goal \in States \cup Services
    /\ attempts \in 0..MaxAttempts
    /\ answer \in {"none", "reached", "true", "false", "raised"}
    /\ started \subseteq Services

BringupInit ==
    /\ up = TRUE
    /\ installed \in SUBSET Services
    /\ running \in SUBSET installed
    /\ state = "unknown"
    /\ at = "idle"
    /\ goal = "unknown"
    /\ attempts = 0
    /\ answer = "none"
    /\ started = {}

-----------------------------------------------------------------------------
Over(how) ==
    /\ at' = "idle"
    /\ answer' = how
    /\ attempts' = 0

Proceed(place) ==
    /\ at' = place
    /\ attempts' = IF place = "shell" THEN MaxAttempts ELSE 0
    /\ UNCHANGED answer

\* A mutant: being logged in is enough for the verification.
LowestSkipping(target) ==
    IF target = "test_ready" /\ state \in {"shell", "service_running"} THEN "verify"
    ELSE IF target # "shell" /\ state = "shell" THEN "start_fips"
    ELSE "shell"

\* The rung that the recursion starts from: the highest that state stands for,
\* or the wait for ssh.
Lowest(target) ==
    IF target = "test_ready" /\ state = "service_running" THEN "verify"
    ELSE IF target # "shell" /\ state = "shell" THEN "start_fips"
    ELSE "shell"

\* transition: nothing can lead back to unknown, so to boot neither.
Transition(target) ==
    /\ at = "idle" /\ target # state
    /\ goal' = target
    /\ CASE target = "unknown" \/ (target = "boot" /\ state # "unknown") ->
                Over("raised") /\ UNCHANGED state
         [] target = "boot" /\ state = "unknown" ->
                Over("reached") /\ state' = "boot"
         [] OTHER ->
                /\ at' = Lowest(target)
                /\ attempts' = IF at' = "shell" THEN MaxAttempts ELSE 0
                /\ answer' = "none"
                /\ UNCHANGED state
    /\ UNCHANGED <<serviceVars, started>>

\* transition has got to a rung, and goes on if there is another to climb.
Climb(rung, place) ==
    /\ state' = rung
    /\ IF goal = rung THEN Over("reached") ELSE Proceed(place)

\* _goto_shell: the command gets through, or it fails once more.
GotoShell ==
    /\ at = "shell"
    /\ \/ /\ up
          /\ started' = {}
          /\ Climb("shell", "start_fips")
       \/ /\ attempts > 0
          /\ attempts' = attempts - 1
          /\ UNCHANGED <<state, at, answer, started>>
       \/ /\ attempts = 0
          /\ Over("raised")
          /\ UNCHANGED <<state, started>>
    /\ UNCHANGED <<serviceVars, goal>>

\* A service starts if it is there, and if nothing is wrong with it.
Starts(s) == running' \in {running, running \cup ({s} \cap installed)}

\* A mutant: the new state is noted before the work for it is done.
StartFipsNoted ==
    /\ at = "start_fips" /\ up
    /\ Starts("fips")
    /\ started' = started \cup {"fips"}
    /\ state' = "service_running"
    /\ Proceed("start_tollgate")
    /\ UNCHANGED <<up, installed, goal>>

\* _goto_service_running: the two starts.
StartFips ==
    /\ at = "start_fips" /\ up
    /\ Starts("fips")
    /\ started' = started \cup {"fips"}
    /\ Proceed("start_tollgate")
    /\ UNCHANGED <<up, installed, state, goal>>

StartTollGate ==
    /\ at = "start_tollgate" /\ up
    /\ Starts("tollgate")
    /\ started' = started \cup {"tollgate"}
    /\ Climb("service_running", "verify")
    /\ UNCHANGED <<up, installed, goal>>

\* _goto_test_ready: whatever the services say, or do not say, is a warning at most.
Verify ==
    /\ at = "verify"
    /\ Climb("test_ready", "idle")
    /\ UNCHANGED <<serviceVars, goal, started>>

-----------------------------------------------------------------------------
\* install_fips_on_router, which may be given the package, and
\* install_tollgate_on_router.
Install(s) ==
    /\ at = "idle"
    /\ goal' = s
    /\ at' \in {"download"} \cup (IF s = "fips" THEN {"upload"} ELSE {})
    /\ attempts' = 0
    /\ answer' = "none"
    /\ UNCHANGED <<serviceVars, state, started>>

Download ==
    /\ at = "download"
    /\ Proceed("upload")
    /\ UNCHANGED <<serviceVars, state, goal, started>>

\* scp, which is checked.
Upload ==
    /\ at = "upload" /\ up
    /\ Proceed("install")
    /\ UNCHANGED <<serviceVars, state, goal, started>>

\* opkg, whose result is only logged; it may stop the service it replaces.  The
\* configuration that goes with it is not looked after either.
OpkgInstall ==
    /\ at = "install"
    /\ \/ /\ up
          /\ installed' \in {installed, installed \cup {goal}}
          /\ running' \in {running, running \ {goal}}
       \/ UNCHANGED <<installed, running>>
    /\ Proceed("start")
    /\ UNCHANGED <<up, state, goal, started>>

\* FIPS is started, TollGate restarted; a failure is of no account.
StartInstalled ==
    /\ at = "start"
    /\ \/ up /\ Starts(goal)
       \/ up /\ goal = "tollgate" /\ running' = running \ {goal}
       \/ UNCHANGED running
    /\ Proceed("status")
    /\ UNCHANGED <<up, installed, state, goal, started>>

\* Whether the word running is in what comes back.  It is in FIPS's "not running" too;
\* it is in nothing when the command has not run.
SaysRunning == (goal = "tollgate" => goal \in running)

Status ==
    /\ at = "status"
    /\ \/ up /\ SaysRunning /\ Over("true")
       \/ ~(up /\ goal \in running) /\ Over("false")
    /\ UNCHANGED <<serviceVars, state, goal, started>>

\* Any command may raise: a time-out, no connection, no package, a failed copy.  The
\* wait for ssh and the verification suppress that.
CommandRaises ==
    /\ at \notin {"idle", "shell", "verify"}
    /\ Over("raised")
    /\ UNCHANGED <<serviceVars, state, goal, started>>

\* The process dies, and its strategy with it.
ProcessDies ==
    /\ at # "idle"
    /\ Over("none")
    /\ state' = "unknown"
    /\ goal' = "unknown"
    /\ UNCHANGED <<serviceVars, started>>

-----------------------------------------------------------------------------
RouterDown ==
    /\ up
    /\ up' = FALSE
    /\ running' = {}
    /\ UNCHANGED <<installed, state, at, goal, attempts, answer, started>>

\* The router boots, and starts what it has, or some of it.
RouterBoots ==
    /\ ~up
    /\ up' = TRUE
    /\ running' \in SUBSET installed
    /\ UNCHANGED <<installed, state, at, goal, attempts, answer, started>>

BringupStep ==
    \/ GotoShell \/ StartFips \/ StartTollGate \/ Verify
    \/ Download \/ Upload \/ OpkgInstall \/ StartInstalled \/ Status \/ CommandRaises

BringupNext ==
    \/ \E target \in States : Transition(target)
    \/ \E s \in Services : Install(s)
    \/ BringupStep \/ ProcessDies
    \/ RouterDown \/ RouterBoots

BringupSpec == BringupInit /\ [][BringupNext]_bringupVars
-----------------------------------------------------------------------------
\* The strategy claims running services only after both were told to start since it
\* last saw ssh work, and not while they are being restarted: a transition that fails
\* on its way leaves the state at a rung that was reached.
StateIsEarned == state \in {"service_running", "test_ready"} => started = Services

\* The changes of the state there are.  _goto_shell has its condition the wrong way round: a
\* transition from unknown to shell, or to anything above, goes past boot, where "unknown ->
\* boot -> shell" is promised (openwrt.py:3 and 45-49).  The way down ends at shell, from
\* where the rungs are climbed again.
RungEdges == {
    <<"unknown", "boot">>, <<"unknown", "shell">>, <<"boot", "shell">>,
    <<"shell", "service_running">>, <<"service_running", "test_ready">>,
    <<"service_running", "shell">>, <<"test_ready", "shell">>}

\* From wherever transitions are called, however they fail, and whatever is installed in
\* between: above shell the state goes up rung by rung, running services after working ssh
\* and readiness after running services, and goes down to shell only; unknown comes back
\* with a new process alone, and boot never does.  Below shell boot may be left out.
RungsInOrder ==
    [][state' # state =>
          \/ <<state, state'>> \in RungEdges
          \/ state' = "unknown" /\ answer' = "none"]_bringupVars

\* "True if FIPS service is running after installation".
FipsTrueMeansRunning ==
    [][at = "status" /\ goal = "fips" /\ answer' = "true" => "fips" \in running]_bringupVars
=============================================================================
