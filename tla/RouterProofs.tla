---------------------------- MODULE RouterProofs ----------------------------
(***************************************************************************)
(* What a test process may rely on after a call to its router (Router),    *)
(* for any configurations, prices and kinds of backend, and what the       *)
(* strategy that brings a router up claims of it (Bringup), for any number *)
(* of attempts.                                                            *)
(***************************************************************************)
EXTENDS Router, Bringup, TLAPS

-----------------------------------------------------------------------------
\* The router's backend.

\* Which calls get where.
ControlInv ==
    /\ pc = "sed" => call = "apply"
    /\ pc = "cp" => call = "restore"
    /\ pc = "read" => call \in {"ensure", "replace"}
    /\ pc \in {"dump", "copy", "remove"} => call = "ensure"
    /\ pc = "write" => call = "replace"
    /\ pc \in {"forget", "deauth"} => call = "reset"
    /\ pc \in {"restart", "ready"} =>
           call \in {"apply", "restore", "ensure", "replace", "reset"}
    /\ pc = "health" => call \in {"apply", "restore"}
    /\ pc = "pay" => call = "pay"

\* What a call has read is still what the file says when it writes.
ReadInv == pc \in {"dump", "copy", "write"} => got = file /\ file \in Configs

PricingInv == ReadInv /\ PricingKept

MintOnFile == file # Torn /\ TestMint \in file.mints

\* The two halves of SuccessIsLoaded.
LoadedIfOk ==
    /\ pc = "idle" /\ outcome = "ok" /\ call \in {"apply", "restore", "ensure", "replace"}
    /\ ~silent /\ (call = "ensure" => ~stale)
    => loaded \in {Nothing, file}

MintIfOk == pc = "idle" /\ outcome = "ok" /\ call = "ensure" /\ ~raced => MintOnFile

\* Between the write and the restart the backend may run with any configuration; from
\* the restart on it runs with the file, if it runs.
LoadedInv ==
    /\ pc \in {"ready", "health"} /\ ~silent => loaded \in {Nothing, file}
    /\ pc = "read" /\ ~stale => loaded \in {Nothing, file}

\* ensure_test_mint has the mint in the file from the copy on.
MintInv == call = "ensure" /\ pc \in {"remove", "restart", "ready"} /\ ~raced => MintOnFile

\* The order of reset_state: what is saved goes before the backend does, the backend
\* before the phone is shut out.
ForgottenInv ==
    /\ saved => kind.sessionsJson = "yes"
    /\ call = "reset" /\ ~silent /\ pc \in {"restart", "ready", "deauth"} => ~saved
    /\ call = "reset" /\ ~silent /\ pc \in {"ready", "deauth"} => ~session

RouterInv ==
    /\ TypeOK /\ ControlInv
    /\ PricingInv
    /\ LoadedInv /\ LoadedIfOk
    /\ MintInv /\ MintIfOk
    /\ ForgottenInv /\ ResetIsClean

-----------------------------------------------------------------------------
\* What a configuration is made of.
LEMMA ConfigFields ==
    /\ \A c \in Configs : c.mints \in SUBSET Mints /\ c.price \in Prices
    /\ \A c \in Configs, p \in Prices :
        [c EXCEPT !.price = p] \in Configs /\ [c EXCEPT !.price = p].price = p
    /\ \A c \in Configs, m \in SUBSET Mints :
        /\ [c EXCEPT !.mints = m] \in Configs /\ [c EXCEPT !.mints = m].price = c.price
        /\ [c EXCEPT !.mints = m].mints = m
BY DEF Configs

LEMMA InitHolds == Init => RouterInv
<1> SUFFICES ASSUME Init
             PROVE  RouterInv
  OBVIOUS
<1> USE DEF Init
<1>1. TypeOK
  <2>1. Backup \in Configs /\ Backup.price \in Prices
    BY ConfigsKnown, ConfigFields
  <2>2. 0 \in 0..MaxPolls
    BY MaxPollsNat
  <2> QED
    BY <2>1, <2>2 DEF TypeOK, Labels
<1>2. ControlInv /\ PricingInv
  BY DEF ControlInv, PricingInv, ReadInv, PricingKept
<1>3. LoadedInv /\ LoadedIfOk /\ MintInv /\ MintIfOk
  BY DEF LoadedInv, LoadedIfOk, MintInv, MintIfOk
<1>4. ForgottenInv /\ ResetIsClean
  BY DEF ForgottenInv, ResetIsClean
<1> QED
  BY <1>1, <1>2, <1>3, <1>4 DEF RouterInv

LEMMA ArgumentsAreConfigs == \A op \in Operations : Arguments(op) \subseteq Configs
BY ConfigsKnown, MintsKnown DEF Arguments, Configs

\* What ensure_test_mint and replace_mints write differs from what they have read in the
\* mints alone.
LEMMA WantedKeepsPrice ==
    ASSUME TypeOK, ReadInv, pc \in {"copy", "write"}
    PROVE  Wanted \in Configs /\ Wanted.price = file.price
<1>1. got = file /\ got \in Configs /\ arg \in Configs
  BY DEF ReadInv, TypeOK
<1>2. DEFINE m == IF call = "ensure" THEN got.mints \cup {TestMint} ELSE arg.mints
<1>3. m \in SUBSET Mints
  BY <1>1, ConfigFields, MintsKnown
<1>4. Wanted = [got EXCEPT !.mints = m]
  BY DEF Wanted
<1> QED
  BY <1>1, <1>3, <1>4, ConfigFields

FlagsOK == {power, sock, session, saved, auth, silent, stale, raced} \subseteq BOOLEAN

ValuesOK ==
    /\ kind \in Kinds
    /\ file \in Configs \cup {Torn}
    /\ {loaded, got} \subseteq Configs \cup {Nothing}
    /\ tmp \in {"own", "foreign", Nothing}
    /\ pc \in Labels
    /\ call \in Operations \cup {Nothing}
    /\ arg \in Configs
    /\ polls \in 0..MaxPolls
    /\ outcome \in {"ok", "error", Nothing}
    /\ asked \in Prices

LEMMA Halves == TypeOK <=> FlagsOK /\ ValuesOK
BY DEF TypeOK, FlagsOK, ValuesOK

LEMMA FlagsStep == TypeOK /\ [Next]_vars => FlagsOK'
<1> SUFFICES ASSUME FlagsOK, [Next]_vars
             PROVE  FlagsOK'
  BY Halves
<1> USE DEF FlagsOK, routerVars, callVars, Ssh, Return, Goto, Tears, Ends
<1>1. ASSUME NEW op \in Operations, NEW a \in Arguments(op), Call(op, a)
      PROVE  FlagsOK'
  BY <1>1 DEF Call
<1>2. CASE Sed \/ Cp \/ Read \/ Dump
  BY <1>2 DEF Sed, Cp, Read, Dump
<1>3. CASE Copy \/ Remove \/ Write \/ ForgetSessions
  BY <1>3 DEF Copy, Remove, Write, ForgetSessions
<1>4. CASE Restart \/ Ready \/ Health \/ Deauth
  BY <1>4 DEF Restart, Ready, Health, Deauth
<1>5. CASE Pay
  BY <1>5 DEF Pay
<1>6. CASE Raises \/ Crash
  BY <1>6 DEF Raises, Crash
<1>7. CASE BackendStarts \/ BackendDies \/ DelayedAuth \/ SessionExpires
  BY <1>7 DEF BackendStarts, BackendDies, DelayedAuth, SessionExpires
<1>8. CASE PowerLoss \/ PowerBack \/ OtherDumps \/ OtherRemoves
  BY <1>8 DEF PowerLoss, PowerBack, OtherDumps, OtherRemoves
<1>9. CASE UNCHANGED vars
  BY <1>9 DEF vars
<1> QED
  BY <1>1, <1>2, <1>3, <1>4, <1>5, <1>6, <1>7, <1>8, <1>9 DEF Next, Step, Environment

LEMMA ValuesStep ==
    ASSUME TypeOK, ControlInv, ReadInv, [Next]_vars
    PROVE  ValuesOK' /\ ControlInv'
<1>0. ValuesOK /\ FlagsOK
  BY Halves
<1>p. MaxPolls \in Nat /\ 0 \in 0..MaxPolls /\ MaxPolls \in 0..MaxPolls
  BY MaxPollsNat
<1>b. Backup \in Configs /\ Foreign \in Configs
  BY ConfigsKnown
<1> USE <1>0, <1>p, <1>b DEF ValuesOK, ControlInv, routerVars, callVars, Ssh, Return, Goto,
        Ends, Labels
<1>1. ASSUME NEW op \in Operations, NEW a \in Arguments(op), Call(op, a)
      PROVE  ValuesOK' /\ ControlInv'
  <2>1. a \in Configs
    BY ArgumentsAreConfigs
  <2> QED
    BY <1>1, <2>1 DEF Call, Start, Operations
<1>2. CASE Sed
  BY <1>2, ConfigFields DEF Sed
<1>3. CASE Cp
  BY <1>3, ConfigFields DEF Cp
<1>4. CASE Read
  BY <1>4 DEF Read
<1>5. CASE Dump
  BY <1>5 DEF Dump
<1>6. CASE Copy
  <2>1. Wanted \in Configs
    BY <1>6, WantedKeepsPrice DEF Copy
  <2> QED
    BY <1>6, <2>1 DEF Copy, Tears
<1>7. CASE Remove
  BY <1>7 DEF Remove
<1>8. CASE Write
  <2>1. Wanted \in Configs
    BY <1>8, WantedKeepsPrice DEF Write
  <2> QED
    BY <1>8, <2>1 DEF Write, Tears
<1>9. CASE ForgetSessions \/ Deauth \/ Pay
  BY <1>9 DEF ForgetSessions, Deauth, Pay
<1>10. CASE Restart
  BY <1>10 DEF Restart
<1>11. CASE Ready
  BY <1>11 DEF Ready, AfterRestart
<1>12. CASE Health
  BY <1>12 DEF Health
<1>13. CASE Raises \/ Crash
  BY <1>13 DEF Raises, Crash
<1>14. CASE Environment
  <2>1. CASE BackendStarts
    BY <2>1 DEF BackendStarts
  <2>2. CASE BackendDies \/ DelayedAuth \/ SessionExpires
    BY <2>2 DEF BackendDies, DelayedAuth, SessionExpires
  <2>3. CASE PowerLoss \/ PowerBack \/ OtherDumps \/ OtherRemoves
    BY <2>3 DEF PowerLoss, PowerBack, OtherDumps, OtherRemoves
  <2> QED
    BY <1>14, <2>1, <2>2, <2>3 DEF Environment
<1>15. CASE UNCHANGED vars
  BY <1>15 DEF vars
<1> QED
  BY <1>1, <1>2, <1>3, <1>4, <1>5, <1>6, <1>7, <1>8, <1>9, <1>10, <1>11, <1>12, <1>13,
     <1>14, <1>15 DEF Next, Step

\* Only this process writes the file, and it keeps the price it has found there; what it
\* copies of another process's is marked.
LEMMA PricingStep ==
    ASSUME TypeOK, ControlInv, PricingInv, [Next]_vars
    PROVE  PricingInv'
<1>0. ReadInv /\ PricingKept /\ (file = Torn \/ file \in Configs) /\ arg \in Configs
  BY DEF PricingInv, TypeOK
<1>t. Torn \notin Configs
  BY NoConfigs
<1> USE <1>0, <1>t DEF PricingInv, ReadInv, PricingKept, routerVars, callVars, Return, Goto
<1>1. ASSUME NEW op \in Operations, NEW a \in Arguments(op), Call(op, a)
      PROVE  PricingInv'
  BY <1>1 DEF Call, Start, Operations
<1>2. CASE Sed
  <2>1. file \in Configs => [file EXCEPT !.price = arg.price].price = arg.price
    BY ConfigFields
  <2> QED
    BY <1>2, <2>1 DEF Sed
<1>3. CASE Cp
  BY <1>3 DEF Cp
<1>4. CASE Read \/ Dump
  BY <1>4 DEF Read, Dump
<1>5. CASE Copy
  <2>1. Wanted.price = file.price
    BY <1>5, WantedKeepsPrice DEF Copy
  <2> QED
    BY <1>5, <2>1 DEF Copy, Tears, TypeOK
<1>6. CASE Write
  <2>1. Wanted.price = file.price
    BY <1>6, WantedKeepsPrice DEF Write
  <2> QED
    BY <1>6, <2>1 DEF Write, Tears
<1>7. CASE Remove \/ ForgetSessions \/ Restart
  BY <1>7 DEF Remove, ForgetSessions, Restart
<1>8. CASE Ready \/ Health
  BY <1>8 DEF Ready, AfterRestart, Health
<1>9. CASE Deauth \/ Pay \/ Raises \/ Crash
  BY <1>9 DEF Deauth, Pay, Raises, Crash
<1>10. CASE Environment
  BY <1>10 DEF Environment, BackendStarts, BackendDies, DelayedAuth, SessionExpires,
       PowerLoss, PowerBack, OtherDumps, OtherRemoves
<1>11. CASE UNCHANGED vars
  BY <1>11 DEF vars
<1> QED
  BY <1>1, <1>2, <1>3, <1>4, <1>5, <1>6, <1>7, <1>8, <1>9, <1>10, <1>11 DEF Next, Step

\* The file changes before the restart only, and what starts after that starts with it.
LEMMA LoadedStep ==
    ASSUME TypeOK, ControlInv, LoadedInv, LoadedIfOk, [Next]_vars
    PROVE  LoadedInv' /\ LoadedIfOk'
<1> USE DEF LoadedInv, LoadedIfOk, ControlInv, routerVars, callVars, Return, Goto
<1>1. ASSUME NEW op \in Operations, NEW a \in Arguments(op), Call(op, a)
      PROVE  LoadedInv' /\ LoadedIfOk'
  <2>1. stale' = (loaded \notin {Nothing, file}) /\ UNCHANGED <<loaded, file>>
    BY <1>1 DEF Call
  <2>2. ~stale' => loaded' \in {Nothing, file'}
    BY <2>1, Zenon
  <2>3. LoadedInv'
    BY <1>1, <2>2 DEF Call, Start, Operations
  <2>4. pc' = "idle" => outcome' = "error"
    BY <1>1 DEF Call, Start, Operations
  <2> QED
    BY <2>3, <2>4
<1>2. CASE Sed \/ Cp \/ Dump \/ Remove
  BY <1>2 DEF Sed, Cp, Dump, Remove
<1>3. CASE Read
  BY <1>3 DEF Read
<1>4. CASE Copy \/ Write
  BY <1>4 DEF Copy, Write, Tears
<1>5. CASE ForgetSessions \/ Deauth \/ Pay
  BY <1>5 DEF ForgetSessions, Deauth, Pay
<1>6. CASE Restart
  BY <1>6 DEF Restart, Ends, Ssh, TypeOK
<1>7. CASE Ready \/ Health
  BY <1>7 DEF Ready, AfterRestart, Health
<1>8. CASE Raises \/ Crash
  BY <1>8 DEF Raises, Crash
<1>9. CASE Environment
  BY <1>9 DEF Environment, BackendStarts, BackendDies, DelayedAuth, SessionExpires, Ends,
       PowerLoss, PowerBack, OtherDumps, OtherRemoves
<1>10. CASE UNCHANGED vars
  BY <1>10 DEF vars
<1> QED
  BY <1>1, <1>2, <1>3, <1>4, <1>5, <1>6, <1>7, <1>8, <1>9, <1>10 DEF Next, Step

\* The copy that the mint is in is the last write of the call.
LEMMA MintStep ==
    ASSUME TypeOK, ControlInv, ReadInv, MintInv, MintIfOk, [Next]_vars
    PROVE  MintInv' /\ MintIfOk'
<1> USE DEF MintInv, MintIfOk, MintOnFile, ControlInv, routerVars, callVars, Return, Goto
<1>1. ASSUME NEW op \in Operations, NEW a \in Arguments(op), Call(op, a)
      PROVE  MintInv' /\ MintIfOk'
  BY <1>1 DEF Call, Start, Operations
<1>2. CASE Sed \/ Cp \/ Write \/ Dump
  BY <1>2 DEF Sed, Cp, Write, Dump
<1>3. CASE Read
  BY <1>3 DEF Read
<1>4. CASE Copy
  <2>1. call = "ensure" /\ got \in Configs
    BY <1>4 DEF Copy, ReadInv
  <2>2. Wanted.mints = got.mints \cup {TestMint} /\ Wanted \in Configs
    BY <2>1, ConfigFields, MintsKnown DEF Wanted
  <2>3. tmp = "own" /\ pc' = "remove" => file' = Wanted
    BY <1>4 DEF Copy, Tears
  <2>4. UNCHANGED call /\ raced' = (raced \/ tmp = "foreign")
    BY <1>4 DEF Copy
  <2>5. pc' = "remove" => tmp # Nothing
    BY <1>4 DEF Copy, Tears
  <2>6. pc' = "remove" \/ (pc' = "idle" /\ outcome' = "error")
    BY <1>4 DEF Copy, Tears
  <2>7. ~raced' /\ pc' = "remove" => file' = Wanted
    BY <2>3, <2>4, <2>5 DEF TypeOK
  <2> QED
    BY <2>2, <2>4, <2>6, <2>7, NoConfigs
<1>5. CASE Remove
  BY <1>5 DEF Remove
<1>6. CASE Restart \/ Ready
  BY <1>6 DEF Restart, Ready, AfterRestart
<1>7. CASE ForgetSessions \/ Health \/ Deauth \/ Pay
  BY <1>7 DEF ForgetSessions, Health, Deauth, Pay
<1>8. CASE Raises \/ Crash
  BY <1>8 DEF Raises, Crash
<1>9. CASE Environment
  BY <1>9 DEF Environment, BackendStarts, BackendDies, DelayedAuth, SessionExpires,
       PowerLoss, PowerBack, OtherDumps, OtherRemoves
<1>10. CASE UNCHANGED vars
  BY <1>10 DEF vars
<1> QED
  BY <1>1, <1>2, <1>3, <1>4, <1>5, <1>6, <1>7, <1>8, <1>9, <1>10 DEF Next, Step

\* Once the saved sessions are gone the backend that is started has none, and only a
\* session lets the phone through.
LEMMA ForgottenStep ==
    ASSUME TypeOK, ControlInv, ForgottenInv, ResetIsClean, [Next]_vars
    PROVE  ForgottenInv' /\ ResetIsClean'
<1>k. kind.sessionsJson \in {"yes", "no", "missing"}
  BY KindsKnown DEF TypeOK
<1> USE <1>k DEF ForgottenInv, ResetIsClean, ControlInv, routerVars, callVars, Return, Goto,
        Ssh, Ends
<1>f. FlagsOK
  BY Halves
<1>1. ASSUME NEW op \in Operations, NEW a \in Arguments(op), Call(op, a)
      PROVE  ForgottenInv' /\ ResetIsClean'
  BY <1>1 DEF Call, Start, Operations
<1>2. CASE Sed \/ Cp \/ Read \/ Dump
  BY <1>2 DEF Sed, Cp, Read, Dump
<1>3. CASE Copy \/ Remove \/ Write
  BY <1>3 DEF Copy, Remove, Write, Tears
<1>4. CASE ForgetSessions
  BY <1>4, <1>f DEF ForgetSessions, FlagsOK
<1>5. CASE Restart
  BY <1>5, <1>f DEF Restart, FlagsOK
<1>6. CASE Ready \/ Health
  BY <1>6 DEF Ready, AfterRestart, Health
<1>7. CASE Deauth
  BY <1>7, <1>f DEF Deauth, FlagsOK
<1>8. CASE Pay
  BY <1>8, <1>f DEF Pay, FlagsOK
<1>9. CASE Raises \/ Crash
  BY <1>9 DEF Raises, Crash
<1>10. CASE BackendStarts
  <2>1. UNCHANGED <<kind, call, silent, pc, outcome, saved, auth>> /\ session' = saved
    BY <1>10 DEF BackendStarts
  <2>2. ~saved => ~session'
    BY <2>1, Zenon
  <2> QED
    BY <2>1, <2>2
<1>11. CASE BackendDies
  BY <1>11 DEF BackendDies
<1>12. CASE DelayedAuth \/ SessionExpires
  BY <1>12 DEF DelayedAuth, SessionExpires
<1>13. CASE PowerLoss \/ PowerBack \/ OtherDumps \/ OtherRemoves
  BY <1>13 DEF PowerLoss, PowerBack, OtherDumps, OtherRemoves
<1>14. CASE UNCHANGED vars
  BY <1>14 DEF vars
<1> QED
  BY <1>1, <1>2, <1>3, <1>4, <1>5, <1>6, <1>7, <1>8, <1>9, <1>10, <1>11, <1>12, <1>13, <1>14
  DEF Next, Step, Environment

LEMMA RouterInvariant == Spec => []RouterInv
<1>1. RouterInv /\ [Next]_vars => RouterInv'
  <2> SUFFICES ASSUME RouterInv, [Next]_vars
               PROVE  RouterInv'
    OBVIOUS
  <2>0. TypeOK /\ ControlInv /\ PricingInv /\ ReadInv
    BY DEF RouterInv, PricingInv
  <2>1. TypeOK'
    <3>1. FlagsOK' /\ ValuesOK'
      BY <2>0, FlagsStep, ValuesStep
    <3> QED
      BY <3>1 DEF TypeOK, FlagsOK, ValuesOK
  <2>2. ControlInv'
    BY <2>0, ValuesStep
  <2>3. PricingInv'
    BY <2>0, PricingStep
  <2>4. LoadedInv' /\ LoadedIfOk'
    BY <2>0, LoadedStep DEF RouterInv
  <2>6. MintInv' /\ MintIfOk'
    BY <2>0, MintStep DEF RouterInv
  <2>5. ForgottenInv' /\ ResetIsClean'
    BY <2>0, ForgottenStep DEF RouterInv
  <2> QED
    BY <2>1, <2>2, <2>3, <2>4, <2>5, <2>6 DEF RouterInv
<1> QED
  BY InitHolds, <1>1, PTL DEF Spec

-----------------------------------------------------------------------------
\* Every variable keeps its type, whatever the router does and whenever a call ends.
THEOREM TypeCorrect == Spec => []TypeOK
<1>1. RouterInv => TypeOK
  BY DEF RouterInv
<1> QED
  BY RouterInvariant, <1>1, PTL

\* ensure_test_mint and replace_mints never undo apply_pricing or restore_pricing, as
\* long as no other process's configuration is copied to the router.
THEOREM PricingIsKept == Spec => []PricingKept
<1>1. RouterInv => PricingKept
  BY DEF RouterInv, PricingInv
<1> QED
  BY RouterInvariant, <1>1, PTL

\* After a change of the configuration that has succeeded, restart_backend has left no
\* backend that runs with the one before, and ensure_test_mint the mint in the file.
THEOREM SuccessLoaded == Spec => []SuccessIsLoaded
<1>1. RouterInv => SuccessIsLoaded
  BY DEF RouterInv, LoadedIfOk, MintIfOk, MintOnFile, SuccessIsLoaded
<1> QED
  BY RouterInvariant, <1>1, PTL

\* After reset_state nothing is left of the phone's session, in the backend, in
\* sessions.json or in nodogsplash.
THEOREM ResetClean == Spec => []ResetIsClean
<1>1. RouterInv => ResetIsClean
  BY DEF RouterInv
<1> QED
  BY RouterInvariant, <1>1, PTL

-----------------------------------------------------------------------------
\* Bringing the router up.

\* The rungs of transition: a place is worked at only in the state below it, and the
\* service started first has been told to start by the time the second is.
RungsInv ==
    /\ at \in {"start_fips", "start_tollgate"} => state = "shell"
    /\ at = "start_tollgate" => "fips" \in started
    /\ at = "verify" => state = "service_running"
    /\ at \in {"download", "upload", "install", "start", "status"} => goal \in Services

BringupInv == BringupTypeOK /\ RungsInv /\ StateIsEarned

LEMMA BringupStarts == BringupInit => BringupInv
BY MaxAttemptsNat
DEF BringupInit, BringupInv, BringupTypeOK, RungsInv, StateIsEarned, States, Places, Services

\* Transition's choice, without its CASE.
LEMMA TransitionCases ==
    ASSUME NEW target \in States, Transition(target)
    PROVE  /\ at = "idle" /\ target # state /\ goal' = target
           /\ UNCHANGED <<serviceVars, started>>
           /\ \/ Over("raised") /\ UNCHANGED state
              \/ Over("reached") /\ state = "unknown" /\ state' = "boot"
              \/ /\ at' = Lowest(target) /\ answer' = "none" /\ UNCHANGED state
                 /\ attempts' \in {MaxAttempts, 0}
BY DEF Transition

LEMMA BringupStepKeeps ==
    ASSUME BringupInv, [BringupNext]_bringupVars
    PROVE  /\ BringupInv'
           /\ state' # state =>
                 \/ <<state, state'>> \in RungEdges
                 \/ state' = "unknown" /\ answer' = "none"
<1> DEFINE Rungs ==
        state' # state =>
            \/ <<state, state'>> \in RungEdges
            \/ state' = "unknown" /\ answer' = "none"
<1>0. 0 \in 0..MaxAttempts /\ MaxAttempts \in 0..MaxAttempts
  BY MaxAttemptsNat
<1> USE <1>0
    DEF BringupInv, BringupTypeOK, RungsInv, StateIsEarned, States, Places, Services,
        serviceVars, Over, Proceed, Climb, Starts, RungEdges
<1>1. ASSUME NEW target \in States, Transition(target)
      PROVE  BringupInv' /\ Rungs
  BY <1>1, TransitionCases DEF Lowest
<1>2. ASSUME NEW s \in Services, Install(s)
      PROVE  BringupInv' /\ Rungs
  BY <1>2 DEF Install
<1>3. CASE GotoShell
  <2>1. at = "shell" /\ UNCHANGED <<serviceVars, goal>>
    BY <1>3 DEF GotoShell
  <2>2. CASE started' = {} /\ Climb("shell", "start_fips")
    BY <2>1, <2>2
  <2>3. CASE attempts > 0 /\ attempts' = attempts - 1 /\ UNCHANGED <<state, at, answer, started>>
    BY <2>1, <2>3, MaxAttemptsNat
  <2>4. CASE Over("raised") /\ UNCHANGED <<state, started>>
    BY <2>1, <2>4
  <2> QED
    BY <1>3, <2>2, <2>3, <2>4 DEF GotoShell
<1>4. CASE StartFips
  BY <1>4 DEF StartFips
<1>5. CASE StartTollGate
  BY <1>5 DEF StartTollGate
<1>6. CASE Verify
  BY <1>6 DEF Verify
<1>7. CASE Download \/ Upload
  BY <1>7 DEF Download, Upload
<1>8. CASE OpkgInstall
  BY <1>8 DEF OpkgInstall
<1>9. CASE StartInstalled
  BY <1>9 DEF StartInstalled
<1>10. CASE Status \/ CommandRaises \/ ProcessDies
  BY <1>10 DEF Status, CommandRaises, ProcessDies
<1>11. CASE RouterDown \/ RouterBoots
  <2>1. UNCHANGED <<installed, state, at, goal, attempts, answer, started>>
    BY <1>11 DEF RouterDown, RouterBoots
  <2>2. up' \in BOOLEAN
    BY <1>11 DEF RouterDown, RouterBoots
  <2>3. running' \subseteq installed
    BY <1>11 DEF RouterDown, RouterBoots
  <2> QED
    BY <2>1, <2>2, <2>3
<1>12. CASE UNCHANGED bringupVars
  BY <1>12 DEF bringupVars
<1> QED
  BY <1>1, <1>2, <1>3, <1>4, <1>5, <1>6, <1>7, <1>8, <1>9, <1>10, <1>11, <1>12
  DEF BringupNext, BringupStep

LEMMA BringupInvariant == BringupSpec => []BringupInv
BY BringupStarts, BringupStepKeeps, PTL DEF BringupSpec

-----------------------------------------------------------------------------
\* Every variable of the strategy and the installations keeps its type.
THEOREM BringupTypeCorrect == BringupSpec => []BringupTypeOK
<1>1. BringupInv => BringupTypeOK
  BY DEF BringupInv
<1> QED
  BY BringupInvariant, <1>1, PTL

\* The strategy claims running services only after it has told both to start, however
\* the transitions, their failures and the installations follow each other.
THEOREM StatesAreEarned == BringupSpec => []StateIsEarned
<1>1. BringupInv => StateIsEarned
  BY DEF BringupInv
<1> QED
  BY BringupInvariant, <1>1, PTL

\* Above shell no transition skips a rung on its way up, and none goes down but to shell;
\* from unknown the first rung may be skipped.
THEOREM RungsAreInOrder == BringupSpec => RungsInOrder
BY BringupInvariant, BringupStepKeeps, PTL DEF BringupSpec, RungsInOrder
=============================================================================
