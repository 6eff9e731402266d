------------------------------- MODULE Router -------------------------------
(***************************************************************************)
(* class Router (drivers/router.py): what one test process does to the     *)
(* backend of its router - apply_pricing, restore_pricing,                 *)
(* ensure_test_mint, replace_mints, reset_state and pay_direct.  The       *)
(* reservation keeps other processes off the router, but not off           *)
(* /tmp/config-testmint.json, the local file that ensure_test_mint goes    *)
(* through whichever router it is for.                                     *)
(*                                                                         *)
(* Router.ssh returns "" for a command that failed or never reached the    *)
(* router, and raises only when it times out.  The router and its backend  *)
(* stop and start at any time.  MaxPolls bounds the waits, whose timeouts  *)
(* the code states in seconds.                                             *)
(***************************************************************************)
EXTENDS Naturals

CONSTANTS
    Mints, TestMint,
    Prices,
    MintLists,    \* what replace_mints is asked for
    Backup,       \* config.json.test-backup
    Foreign,      \* the configuration another process makes, for another router
    Kinds,        \* of backends: [rust, sessionsJson]
    MaxPolls,
    Torn, Nothing

Configs == [mints : SUBSET Mints, price : Prices]

ASSUME MintsKnown == TestMint \in Mints /\ MintLists \subseteq SUBSET Mints
ASSUME ConfigsKnown == Backup \in Configs /\ Foreign \in Configs
ASSUME NoConfigs == {Torn, Nothing} \cap Configs = {} /\ Torn # Nothing
ASSUME KindsKnown == Kinds \subseteq [rust : BOOLEAN, sessionsJson : {"yes", "no", "missing"}]
ASSUME MaxPollsNat == MaxPolls \in Nat

VARIABLES
    kind,    \* the backend's
    power,   \* the router is up
    file,    \* /etc/tollgate/config.json
    loaded,  \* the configuration the backend runs with, or Nothing
    sock,    \* /var/run/tollgate.sock is there
    session, \* the backend has a session of the phone
    saved,   \* sessions.json has it
    auth,    \* nodogsplash lets the phone through
    tmp,     \* /tmp/config-testmint.json: whose it is, or Nothing
    pc, call, arg, got, polls, outcome,
    silent,  \* history: a command of this call has not run, and nothing has raised
    stale,   \* history: as the call began, the backend did not run with the file
    asked,   \* history: the price set last
    raced    \* history: the file was replaced by another router's

routerVars == <<kind, power, file, loaded, sock, session, saved, auth>>
callVars == <<pc, call, arg, got, polls, outcome, silent, stale>>
vars == <<routerVars, tmp, callVars, asked, raced>>

Operations == {"apply", "restore", "ensure", "replace", "reset", "pay"}
Labels == {"idle", "sed", "cp", "read", "dump", "copy", "remove", "write", "forget",
           "restart", "ready", "health", "deauth", "pay"}

TypeOK ==
    /\ kind \in Kinds
    /\ {power, sock, session, saved, auth, silent, stale, raced} \subseteq BOOLEAN
    /\ file \in Configs \cup {Torn}
    /\ {loaded, got} \subseteq Configs \cup {Nothing}
    /\ tmp \in {"own", "foreign", Nothing}
    /\ pc \in Labels
    /\ call \in Operations \cup {Nothing}
    /\ arg \in Configs
    /\ polls \in 0..MaxPolls
    /\ outcome \in {"ok", "error", Nothing}
    /\ asked \in Prices

Init ==
    /\ kind \in Kinds
    /\ power = TRUE
    /\ file = Backup
    /\ loaded = Backup
    /\ sock = TRUE
    /\ session = FALSE /\ saved = FALSE /\ auth = FALSE
    /\ tmp = Nothing
    /\ pc = "idle"
    /\ call = Nothing /\ arg = Backup /\ got = Nothing
    /\ polls = 0
    /\ outcome = Nothing
    /\ silent = FALSE /\ stale = FALSE
    /\ asked = Backup.price
    /\ raced = FALSE

-----------------------------------------------------------------------------
\* The call is over, and what it was about is gone.
Return(how) ==
    /\ pc' = "idle"
    /\ outcome' = how
    /\ got' = Nothing /\ arg' = Backup /\ polls' = 0

Goto(label) ==
    /\ pc' = label
    /\ polls' = IF label \in {"ready", "health"} THEN MaxPolls ELSE 0
    /\ UNCHANGED <<outcome, arg>>

\* A command the router runs, or one that comes back empty without having run.
Ssh(ran) ==
    /\ ran => power
    /\ silent' = (silent \/ ~ran)

\* A mutant: sessions.json is left as it is.
StartForgetful == [apply |-> "sed", restore |-> "cp", ensure |-> "read", replace |-> "read",
                   pay |-> "pay", reset |-> "restart"]

\* reset_state asks the backend's description for has_sessions_json, which the
\* package's own BackendConfig does not have.
Start == [apply |-> "sed", restore |-> "cp", ensure |-> "read", replace |-> "read",
          pay |-> "pay",
          reset |-> IF kind.sessionsJson = "yes" THEN "forget" ELSE "restart"]

\* The price of apply_pricing and the mints of replace_mints.
Arguments(op) ==
    [mints : IF op = "replace" THEN MintLists ELSE {Backup.mints},
     price : IF op = "apply" THEN Prices ELSE {Backup.price}]

Call(op, a) ==
    /\ pc = "idle"
    /\ call' = op
    /\ arg' = a
    /\ IF op = "reset" /\ kind.sessionsJson = "missing"
       THEN pc' = "idle" /\ outcome' = "error"
       ELSE pc' = Start[op] /\ outcome' = Nothing
    /\ silent' = FALSE
    /\ stale' = (loaded \notin {Nothing, file})
    /\ UNCHANGED <<routerVars, tmp, got, polls, asked, raced>>

\* What is not suppressed raises: a time-out, text that is no JSON, a copy that fails.
\* The process dying is no different, and may come at any time.
Raises ==
    /\ pc \notin {"idle", "ready", "health"}
    /\ Return("error")
    /\ UNCHANGED <<routerVars, tmp, call, silent, stale, asked, raced>>

Crash ==
    /\ pc \in {"ready", "health"}
    /\ Return("error")
    /\ UNCHANGED <<routerVars, tmp, call, silent, stale, asked, raced>>

-----------------------------------------------------------------------------
\* apply_pricing: sed, in place.  The metric is never another one here.
Sed ==
    /\ pc = "sed"
    /\ \E ran \in BOOLEAN :
        /\ Ssh(ran)
        /\ IF ran /\ file # Torn
           THEN file' = [file EXCEPT !.price = arg.price] /\ asked' = arg.price
           ELSE UNCHANGED <<file, asked>>
    /\ Goto("restart")
    /\ UNCHANGED <<kind, power, loaded, sock, session, saved, auth, tmp, call, got, stale, raced>>

\* restore_pricing: cp of the backup.
Cp ==
    /\ pc = "cp"
    /\ \E ran \in BOOLEAN :
        /\ Ssh(ran)
        /\ IF ran
           THEN file' = Backup /\ asked' = Backup.price /\ raced' = FALSE
           ELSE UNCHANGED <<file, asked, raced>>
    /\ Goto("restart")
    /\ UNCHANGED <<kind, power, loaded, sock, session, saved, auth, tmp, call, got, stale>>

\* ensure_test_mint and replace_mints read the file; what is no JSON raises.
Read ==
    /\ pc = "read"
    /\ power /\ file # Torn
    /\ IF call = "ensure" /\ TestMint \in file.mints
       THEN Return("ok")
       ELSE got' = file /\ Goto(IF call = "ensure" THEN "dump" ELSE "write")
    /\ UNCHANGED <<routerVars, tmp, call, silent, stale, asked, raced>>

\* The file as the call would have it.
Wanted == [got EXCEPT !.mints = IF call = "ensure" THEN @ \cup {TestMint} ELSE arg.mints]

\* ensure_test_mint: json.dump to the local file.
Dump ==
    /\ pc = "dump"
    /\ tmp' = "own"
    /\ Goto("copy")
    /\ UNCHANGED <<routerVars, call, got, silent, stale, asked, raced>>

\* A write that fails raises, whatever it has left of the file.
Tears(new) ==
    /\ file' \in {file, Torn, new}
    /\ Return("error")

\* scp_to: the local file, whatever it is by now.
Copy ==
    /\ pc = "copy" /\ power
    /\ LET copied == IF tmp = "own" THEN Wanted ELSE Foreign IN
       \/ tmp # Nothing /\ file' = copied /\ Goto("remove") /\ UNCHANGED got
       \/ tmp # Nothing /\ Tears(copied)
    /\ raced' = (raced \/ tmp = "foreign")
    /\ UNCHANGED <<kind, power, loaded, sock, session, saved, auth, tmp, call, silent, stale, asked>>

\* os.remove raises if another process has been faster.
Remove ==
    /\ pc = "remove"
    /\ tmp' = Nothing
    /\ IF tmp = Nothing THEN Return("error") ELSE Goto("restart") /\ got' = Nothing
    /\ UNCHANGED <<routerVars, call, silent, stale, asked, raced>>

\* A mutant: the pricing of the backup goes along with the mints.
WriteTemplate ==
    /\ pc = "write" /\ power
    /\ \/ file' = [Backup EXCEPT !.mints = arg.mints] /\ Goto("restart") /\ got' = Nothing
       \/ Tears(Wanted)
    /\ UNCHANGED <<kind, power, loaded, sock, session, saved, auth, tmp, call, silent, stale, asked,
                   raced>>

\* replace_mints: write_remote_json.
Write ==
    /\ pc = "write" /\ power
    /\ \/ file' = Wanted /\ Goto("restart") /\ got' = Nothing
       \/ Tears(Wanted)
    /\ UNCHANGED <<kind, power, loaded, sock, session, saved, auth, tmp, call, silent, stale, asked,
                   raced>>

\* reset_state: sessions.json is emptied.
ForgetSessions ==
    /\ pc = "forget"
    /\ \E ran \in BOOLEAN :
        /\ Ssh(ran)
        /\ saved' = (saved /\ ~ran)
    /\ Goto("restart")
    /\ UNCHANGED <<kind, power, file, loaded, sock, session, auth, tmp, call, got, stale, asked,
                   raced>>

-----------------------------------------------------------------------------
\* The backend's process ends; its socket may stay behind.
Ends ==
    /\ loaded' = Nothing
    /\ session' = FALSE
    /\ sock' \in {sock, FALSE}

\* A mutant: a reload is taken to be enough.
RestartNot ==
    /\ pc = "restart"
    /\ \E ran \in BOOLEAN : Ssh(ran)
    /\ Goto("ready")
    /\ UNCHANGED <<routerVars, tmp, call, got, stale, asked, raced>>

\* restart_backend: the service is restarted.
Restart ==
    /\ pc = "restart"
    /\ \E ran \in BOOLEAN :
        /\ Ssh(ran)
        /\ IF ran THEN Ends ELSE UNCHANGED <<loaded, session, sock>>
    /\ Goto("ready")
    /\ UNCHANGED <<kind, power, file, saved, auth, tmp, call, got, stale, asked, raced>>

\* What the caller does when the backend is ready.
AfterRestart == [apply |-> "health", restore |-> "health", reset |-> "deauth"]

\* restart_backend's wait: for the answer of a rust backend, and otherwise for the
\* socket, be it that of the process before.
IsReady == power /\ IF kind.rust THEN loaded # Nothing ELSE sock

Ready ==
    /\ pc = "ready"
    /\ \/ /\ IsReady
          /\ IF call \in DOMAIN AfterRestart
             THEN Goto(AfterRestart[call]) /\ UNCHANGED got
             ELSE Return("ok")
       \/ /\ polls > 0
          /\ polls' = polls - 1
          /\ UNCHANGED <<pc, outcome, arg, got>>
       \/ /\ polls = 0
          /\ Return("error")
    /\ UNCHANGED <<routerVars, tmp, call, silent, stale, asked, raced>>

\* A mutant: no deadline.
HealthForever ==
    /\ pc = "health"
    /\ power /\ loaded # Nothing
    /\ Return("ok")
    /\ UNCHANGED <<routerVars, tmp, call, silent, stale, asked, raced>>

\* _wait_for_backend: the deadline is no error.
Health ==
    /\ pc = "health"
    /\ \/ /\ (power /\ loaded # Nothing) \/ polls = 0
          /\ Return("ok")
       \/ /\ polls > 0
          /\ polls' = polls - 1
          /\ UNCHANGED <<pc, outcome, arg, got>>
    /\ UNCHANGED <<routerVars, tmp, call, silent, stale, asked, raced>>

\* reset_state: the phone is shut out, now that the backend has no session for it.
Deauth ==
    /\ pc = "deauth"
    /\ \E ran \in BOOLEAN :
        /\ Ssh(ran)
        /\ auth' = (auth /\ ~ran)
    /\ Return("ok") \/ Return("error")
    /\ UNCHANGED <<kind, power, file, loaded, sock, session, saved, tmp, call, stale, asked, raced>>

\* pay_direct: the backend takes the token or it does not.
Pay ==
    /\ pc = "pay"
    /\ IF power /\ loaded # Nothing
       THEN session' \in {session, TRUE}
       ELSE UNCHANGED session
    /\ saved' = (saved \/ (session' /\ kind.sessionsJson = "yes"))
    /\ Return("ok") \/ Return("error")
    /\ UNCHANGED <<kind, power, file, loaded, sock, auth, tmp, call, silent, stale, asked, raced>>

Step ==
    \/ Sed \/ Cp \/ Read \/ Dump \/ Copy \/ Remove \/ Write \/ ForgetSessions
    \/ Restart \/ Ready \/ Health \/ Deauth \/ Pay \/ Raises

-----------------------------------------------------------------------------
\* The backend starts with the file, the sessions it has saved, and a socket of its own.
BackendStarts ==
    /\ power /\ loaded = Nothing /\ file # Torn
    /\ loaded' = file
    /\ sock' = TRUE
    /\ session' = saved
    /\ UNCHANGED <<kind, power, file, saved, auth, tmp, callVars, asked, raced>>

BackendDies ==
    /\ loaded # Nothing
    /\ Ends
    /\ UNCHANGED <<kind, power, file, saved, auth, tmp, callVars, asked, raced>>

\* The backend has nodogsplash let a phone through some time after it has paid.
DelayedAuth ==
    /\ session /\ ~auth
    /\ auth' = TRUE
    /\ UNCHANGED <<kind, power, file, loaded, sock, session, saved, tmp, callVars, asked, raced>>

SessionExpires ==
    /\ session
    /\ session' = FALSE /\ saved' = FALSE /\ auth' = FALSE
    /\ UNCHANGED <<kind, power, file, loaded, sock, tmp, callVars, asked, raced>>

\* The router loses its power; /var/run and the firewall are in memory.
PowerLoss ==
    /\ power
    /\ power' = FALSE
    /\ loaded' = Nothing /\ session' = FALSE
    /\ sock' = FALSE /\ auth' = FALSE
    /\ UNCHANGED <<kind, file, saved, tmp, callVars, asked, raced>>

PowerBack ==
    /\ ~power
    /\ power' = TRUE
    /\ UNCHANGED <<kind, file, loaded, sock, session, saved, auth, tmp, callVars, asked, raced>>

\* ensure_test_mint in another process, for another router.
OtherDumps ==
    /\ tmp' = "foreign"
    /\ UNCHANGED <<routerVars, callVars, asked, raced>>

OtherRemoves ==
    /\ tmp' = Nothing
    /\ UNCHANGED <<routerVars, callVars, asked, raced>>

Environment ==
    \/ BackendStarts \/ BackendDies \/ DelayedAuth \/ SessionExpires
    \/ PowerLoss \/ PowerBack \/ OtherDumps \/ OtherRemoves

Next ==
    \/ \E op \in Operations : \E a \in Arguments(op) : Call(op, a)
    \/ Step \/ Crash
    \/ Environment

Spec == Init /\ [][Next]_vars

\* A call that runs keeps running.
FairSpec == Spec /\ WF_vars(Step)
-----------------------------------------------------------------------------
\* Setting the mints does not undo the pricing, as long as no other process's
\* configuration is copied to the router.
PricingKept == file # Torn /\ ~raced => file.price = asked

\* A call that has succeeded in changing the configuration leaves no backend that runs
\* with the one before, unless the restart was lost without a word - or the call has
\* found the test mint in a file that another call had changed and not got as far as
\* the restart.  The test mint it has ensured is in the file, whole, unless another
\* process's configuration has been copied there.
SuccessIsLoaded ==
    pc = "idle" /\ outcome = "ok" =>
        /\ /\ call \in {"apply", "restore", "ensure", "replace"}
           /\ ~silent /\ (call = "ensure" => ~stale)
           => loaded \in {Nothing, file}
        /\ call = "ensure" /\ ~raced => file # Torn /\ TestMint \in file.mints

\* After reset_state nothing is left of the phone's session: neither is it let through,
\* nor will the backend let it through again, now or after its next start.
ResetIsClean ==
    pc = "idle" /\ outcome = "ok" /\ call = "reset" /\ ~silent => ~session /\ ~saved /\ ~auth

\* Every call comes back, whether or not the backend does.
CallsEnd == pc # "idle" ~> pc = "idle"
=============================================================================
