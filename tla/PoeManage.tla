------------------------------ MODULE PoeManage ------------------------------
(***************************************************************************)
(* drivers/zyxel_poe.py: on(), off() and cycle() of one PoE port over ssh  *)
(* and ubus, each manage call verified by polling `poe info`.  The MCU may *)
(* reject a manage that returned rc=0, the info shown lags behind it, the  *)
(* daemon may wedge (info frozen, manages dropped) until somebody restarts *)
(* it by hand, and any ssh call may fail.                                  *)
(*                                                                         *)
(* Time is counted in polling rounds: Settling, Grace and Deadline stand   *)
(* for SETTLING_S, FROZEN_GRACE_S and VERIFY_TIMEOUT_S.  A healthy daemon  *)
(* shows a change within Lag rounds.  Protected ports are refused before   *)
(* any of this.                                                            *)
(***************************************************************************)
EXTENDS Integers

CONSTANTS Settling, Grace, Deadline, Lag, Attempts

ASSUME Windows == /\ Settling \in Nat /\ Grace \in Nat /\ Deadline \in Nat
                  /\ Attempts \in Nat \ {0}
ASSUME LagTolerated == Lag \in 0..Settling
\* The last reading within the lag is still followed by one before the deadline.
ASSUME DeadlineBeyondSettling == Settling + 1 < Deadline

VARIABLES
    mcu,      \* the port itself: powered, disabled, or enabled but in fault
    info,     \* the status `poe info` shows, "initializing" after a restart
    watts,    \* the consumption shown, as far as two readings differ
    behind,   \* rounds for which info has not been the port's status
    wedged,   \* the daemon is wedged
    pc,       \* where the driver is
    call,     \* the operation it is in
    want,     \* what the manage call at hand asks for
    attempt,  \* which of the MANAGE_ATTEMPTS this is
    elapsed,  \* rounds since verification started
    frozen,   \* elapsed when the digest was first seen frozen, or -1
    last,     \* the last digest, or NoDigest
    outcome,  \* how the last call went
    taken,    \* history: the MCU took the last manage
    trouble,  \* history: ssh failed, or the daemon or the port misbehaved, in this call
    current,  \* history: info was up to date when the call began
    sawOff    \* history: the port was unpowered during the call

portVars == <<mcu, info, watts, behind, wedged>>
driverVars == <<pc, call, want, attempt, elapsed, frozen, last, outcome>>
historyVars == <<taken, trouble, current, sawOff>>
vars == <<portVars, driverVars, historyVars>>

Statuses == {"on", "off", "fault"}

Loads == {"low", "high"}

NoDigest == <<"none", "none">>

TypeOK ==
    /\ mcu \in Statuses
    /\ info \in Statuses \cup {"initializing"}
    /\ watts \in Loads
    /\ behind \in 0..Lag
    /\ wedged \in BOOLEAN
    /\ pc \in {"idle", "budget", "manage", "verify", "sleep", "dwell"}
    /\ call \in {"none", "on", "off", "cycle"}
    /\ want \in {"on", "off"}
    /\ attempt \in 1..Attempts
    /\ elapsed \in 0..Deadline
    /\ frozen \in -1..Deadline
    /\ last \in (Statuses \cup {"initializing"}) \X Loads \cup {NoDigest}
    /\ outcome \in {"none", "ok", "error"}
    /\ taken \in BOOLEAN /\ trouble \in BOOLEAN /\ current \in BOOLEAN /\ sawOff \in BOOLEAN

Init ==
    /\ mcu \in Statuses
    /\ info = mcu
    /\ watts = "low"
    /\ behind = 0
    /\ wedged = FALSE
    /\ pc = "idle"
    /\ call = "none"
    /\ want = "on"
    /\ attempt = 1
    /\ elapsed = 0
    /\ frozen = -1
    /\ last = NoDigest
    /\ outcome = "none"
    /\ taken = FALSE /\ trouble = FALSE /\ current = TRUE /\ sawOff = FALSE

-----------------------------------------------------------------------------
\* A mutant: a faulted port passes for a powered one.
ShowsFaultAsOn(state) ==
    info # "initializing" /\ (state = "off" <=> info = "off")

\* OFF_STATES, TRANSIENT_STATES: a faulted port is off-class, a starting daemon
\* shows neither.
Shows(state) ==
    info # "initializing" /\ (state = "off" <=> info \in {"off", "fault"})

Digest == <<info, watts>>

\* The start of _set: enabling looks at the budget first.
BeginSet(state) ==
    /\ want' = state
    /\ attempt' = 1
    /\ pc' = IF state = "on" THEN "budget" ELSE "manage"

Call(op) ==
    /\ pc = "idle"
    /\ call' = op
    /\ BeginSet(IF op = "on" THEN "on" ELSE "off")
    /\ outcome' = "none"
    /\ taken' = FALSE
    /\ trouble' = wedged
    /\ current' = (info = mcu)
    /\ sawOff' = (mcu # "on")
    /\ UNCHANGED <<portVars, elapsed, frozen, last>>

\* The call returns or raises; its locals are gone.
Return(how) ==
    /\ pc' = "idle"
    /\ outcome' = how
    /\ attempt' = 1
    /\ elapsed' = 0
    /\ frozen' = -1
    /\ last' = NoDigest

\* Reading `poe info` may fail or time out; the ExecutionError is no drop.
SshFails ==
    /\ pc \in {"budget", "verify"}
    /\ Return("error")
    /\ trouble' = TRUE
    /\ UNCHANGED <<portVars, call, want, taken, current, sawOff>>

\* _budget_guard only reads and warns.
BudgetGuard ==
    /\ pc = "budget"
    /\ pc' = "manage"
    /\ UNCHANGED <<portVars, call, want, attempt, elapsed, frozen, last, outcome, historyVars>>

\* ubus call poe manage: rc=0 whether the MCU takes it or not, and an ssh that
\* times out may have delivered it.
Manage ==
    /\ pc = "manage"
    /\ \E delivered \in BOOLEAN :
        /\ delivered => ~wedged
        /\ mcu' = IF delivered THEN want ELSE mcu
        /\ taken' = delivered
        /\ sawOff' = (sawOff \/ mcu' # "on")
        /\ behind' = IF info = mcu' THEN 0 ELSE behind
    /\ \/ /\ pc' = "verify"
          /\ elapsed' = 0
          /\ frozen' = -1
          /\ last' = NoDigest
          /\ UNCHANGED <<attempt, outcome, trouble>>
       \/ /\ Return("error")
          /\ trouble' = TRUE
    /\ UNCHANGED <<info, watts, wedged, call, want, current>>

\* A mutant: no allowance for the readback lag.
FrozenSinceUnsettled ==
    IF Digest # last THEN -1 ELSE IF frozen = -1 THEN elapsed ELSE frozen

\* The frozen-digest bookkeeping of _verify_manage.
FrozenSince ==
    IF elapsed < Settling \/ Digest # last THEN -1
    ELSE IF frozen = -1 THEN elapsed ELSE frozen

Dropped == frozen # -1 /\ FrozenSince # -1 /\ elapsed - frozen > Grace

\* The state asked for shows: _set returns; cycle goes on from off to its delay.
Reflected ==
    /\ pc = "verify" /\ elapsed < Deadline
    /\ Shows(want)
    /\ IF call = "cycle" /\ want = "off"
       THEN /\ pc' = "dwell"
            /\ attempt' = 1 /\ elapsed' = 0 /\ frozen' = -1 /\ last' = NoDigest
            /\ UNCHANGED outcome
       ELSE Return("ok")
    /\ UNCHANGED <<portVars, call, want, historyVars>>

\* DROPPED: one more manage, or the error.
Retry ==
    /\ pc = "verify" /\ elapsed < Deadline
    /\ ~Shows(want) /\ Dropped
    /\ IF attempt < Attempts
       THEN /\ attempt' = attempt + 1
            /\ pc' = "manage"
            /\ UNCHANGED <<elapsed, frozen, last, outcome>>
       ELSE Return("error")
    /\ UNCHANGED <<portVars, call, want, historyVars>>

PollAgain ==
    /\ pc = "verify" /\ elapsed < Deadline
    /\ ~Shows(want) /\ ~Dropped
    /\ frozen' = FrozenSince
    /\ last' = Digest
    /\ pc' = "sleep"
    /\ UNCHANGED <<portVars, call, want, attempt, elapsed, outcome, historyVars>>

\* A mutant: a cycle does not mind that its off was not verified.
UnverifiedTolerated ==
    /\ pc = "verify" /\ elapsed = Deadline
    /\ IF call = "cycle" /\ want = "off"
       THEN /\ pc' = "dwell"
            /\ attempt' = 1 /\ elapsed' = 0 /\ frozen' = -1 /\ last' = NoDigest
            /\ UNCHANGED outcome
       ELSE Return("error")
    /\ UNCHANGED <<portVars, call, want, historyVars>>

\* UNVERIFIED is not retried.
Unverified ==
    /\ pc = "verify" /\ elapsed = Deadline
    /\ Return("error")
    /\ UNCHANGED <<portVars, call, want, historyVars>>

\* The second half of cycle, after its delay.
CycleOn ==
    /\ pc = "dwell"
    /\ BeginSet("on")
    /\ UNCHANGED <<portVars, call, elapsed, frozen, last, outcome, historyVars>>

\* A mutant: the deadline starts afresh whenever the readings move.
TickProgressing ==
    /\ pc = "sleep"
    /\ info # mcu /\ ~wedged => behind < Lag
    /\ behind' = IF info # mcu /\ ~wedged THEN behind + 1 ELSE behind
    /\ elapsed' = IF Digest # last THEN 0 ELSE elapsed + 1
    /\ pc' = "verify"
    /\ UNCHANGED <<mcu, info, watts, wedged, call, want, attempt, frozen, last, outcome,
                   historyVars>>

\* A polling round goes by.  A healthy daemon has caught up by the end of its lag.
Tick ==
    /\ pc = "sleep"
    /\ info # mcu /\ ~wedged => behind < Lag
    /\ behind' = IF info # mcu /\ ~wedged THEN behind + 1 ELSE behind
    /\ elapsed' = elapsed + 1
    /\ pc' = "verify"
    /\ UNCHANGED <<mcu, info, watts, wedged, call, want, attempt, frozen, last, outcome,
                   historyVars>>

-----------------------------------------------------------------------------
Refresh ==
    /\ ~wedged /\ info # mcu
    /\ info' = mcu
    /\ behind' = 0
    /\ UNCHANGED <<mcu, watts, wedged, driverVars, historyVars>>

\* The device's consumption varies; a wedged daemon does not notice.
Consumption ==
    /\ ~wedged /\ info = "on"
    /\ watts' \in Loads \ {watts}
    /\ UNCHANGED <<mcu, info, behind, wedged, driverVars, historyVars>>

Wedge ==
    /\ ~wedged
    /\ wedged' = TRUE
    /\ trouble' = TRUE
    /\ UNCHANGED <<mcu, info, watts, behind, driverVars, taken, current, sawOff>>

\* Somebody restarts the daemon by hand, which blips every port.
Restart ==
    /\ wedged
    /\ wedged' = FALSE
    /\ info' = "initializing"
    /\ behind' = 0
    /\ sawOff' = TRUE
    /\ trouble' = TRUE
    /\ UNCHANGED <<mcu, watts, driverVars, taken, current>>

\* An enabled port faults, or recovers.
Fault ==
    /\ mcu # "off"
    /\ mcu' = IF mcu = "on" THEN "fault" ELSE "on"
    /\ behind' = IF info = mcu' THEN 0 ELSE behind
    /\ sawOff' = TRUE
    /\ trouble' = TRUE
    /\ UNCHANGED <<info, watts, wedged, driverVars, taken, current>>

Driver ==
    \/ BudgetGuard \/ Manage \/ Reflected \/ Retry \/ PollAgain \/ Unverified
    \/ CycleOn \/ SshFails

Next ==
    \/ \E op \in {"on", "off", "cycle"} : Call(op)
    \/ Driver
    \/ Tick
    \/ Refresh \/ Consumption \/ Wedge \/ Restart \/ Fault

Spec == Init /\ [][Next]_vars

\* A call keeps running, time passes, and a healthy daemon catches up.
FairSpec == Spec /\ WF_vars(Driver) /\ WF_vars(Tick) /\ WF_vars(Refresh)

-----------------------------------------------------------------------------
\* A call that reports success has happened: unless the port faulted or the
\* daemon wedged meanwhile, or info was out of date from the outset, the port is
\* as asked for, although rejected manages look like accepted ones.
SuccessIsReal ==
    outcome = "ok" /\ current /\ ~trouble =>
        IF want = "on" THEN mcu = "on" ELSE mcu # "on"

\* The lag of a healthy daemon is never taken for a wedge or a failure: a call
\* whose last manage the MCU took fails only if something did go wrong.
HealthyCallsSucceed == outcome = "error" => trouble \/ ~taken

\* A power cycle that succeeded did cut the power.
CyclesCutPower == outcome = "ok" /\ call = "cycle" /\ current => sawOff

\* Every call comes back: flapping readings end in UNVERIFIED, frozen ones in
\* DROPPED after the one retry.
CallsEnd == pc # "idle" ~> pc = "idle"
=============================================================================
