--------------------------- MODULE PoeManageProofs ---------------------------
(***************************************************************************)
(* What the outcome of a call tells, for every lag, settling window, grace *)
(* and deadline, and every number of attempts.                             *)
(***************************************************************************)
EXTENDS PoeManage, TLAPS

Achieved(state) == IF state = "on" THEN mcu = "on" ELSE mcu # "on"

\* While nothing has gone wrong, info shows a change asked for only when the port
\* has made it.
ShownIsReal ==
    current /\ ~trouble /\ pc # "idle" =>
        /\ Shows(want) => Achieved(want)
        /\ pc = "dwell" /\ Shows("on") => Achieved("on")

\* A port that never lost its power is also shown as powered.
PowerCutIsSeen == call # "none" /\ current /\ ~sawOff => mcu = "on" /\ info = "on"

\* The second half of a cycle comes after the first.
CycleOrder ==
    /\ pc # "idle" => outcome = "none" /\ call # "none"
    /\ pc = "dwell" \/ want = "on" =>
           (call = "cycle" /\ current => sawOff)
    /\ pc = "dwell" => call = "cycle"
    /\ pc = "budget" => want = "on"
    /\ outcome = "ok" /\ call = "cycle" => want = "on"
    /\ call = "none" => outcome = "none"

\* While the port has what was asked for and info does not show it, no more
\* rounds have gone by than info is behind.
LagInv ==
    /\ frozen # -1 => frozen >= Settling
    /\ pc \in {"verify", "sleep"} /\ taken /\ ~trouble =>
        /\ ~wedged
        /\ mcu = want
        /\ ~Shows(want) => elapsed <= behind
        /\ elapsed <= Lag + (IF pc = "verify" THEN 1 ELSE 0)
    /\ wedged /\ pc # "idle" => trouble

\* The deadline is looked at before every round.
RoundsInTime == pc = "sleep" => elapsed < Deadline

PoeInv ==
    /\ TypeOK
    /\ ShownIsReal /\ PowerCutIsSeen /\ CycleOrder /\ LagInv /\ RoundsInTime
    /\ SuccessIsReal /\ HealthyCallsSucceed /\ CyclesCutPower

\* The two halves of the typing invariant, which different provers take.
FlagsOK ==
    /\ wedged \in BOOLEAN
    /\ taken \in BOOLEAN /\ trouble \in BOOLEAN /\ current \in BOOLEAN /\ sawOff \in BOOLEAN

ValuesOK ==
    /\ mcu \in Statuses
    /\ info \in Statuses \cup {"initializing"}
    /\ watts \in Loads
    /\ behind \in 0..Lag
    /\ pc \in {"idle", "budget", "manage", "verify", "sleep", "dwell"}
    /\ call \in {"none", "on", "off", "cycle"}
    /\ want \in {"on", "off"}
    /\ attempt \in 1..Attempts
    /\ elapsed \in 0..Deadline
    /\ frozen \in -1..Deadline
    /\ last \in (Statuses \cup {"initializing"}) \X Loads \cup {NoDigest}
    /\ outcome \in {"none", "ok", "error"}

LEMMA Halves == TypeOK <=> FlagsOK /\ ValuesOK
BY DEF TypeOK, FlagsOK, ValuesOK

LEMMA InitHolds == Init => PoeInv
<1> SUFFICES ASSUME Init PROVE PoeInv
  OBVIOUS
<1>1. FlagsOK
  BY DEF Init, FlagsOK
<1>2. ValuesOK
  BY Windows, LagTolerated, DeadlineBeyondSettling
  DEF Init, ValuesOK, Statuses, Loads, NoDigest
<1>3. ShownIsReal /\ PowerCutIsSeen /\ CycleOrder /\ LagInv /\ RoundsInTime
  BY DEF Init, ShownIsReal, PowerCutIsSeen, CycleOrder, LagInv, RoundsInTime
<1>4. SuccessIsReal /\ HealthyCallsSucceed /\ CyclesCutPower
  BY DEF Init, SuccessIsReal, HealthyCallsSucceed, CyclesCutPower
<1> QED
  BY <1>1, <1>2, <1>3, <1>4, Halves DEF PoeInv

LEMMA FlagsStep ==
    ASSUME FlagsOK, [Next]_vars
    PROVE  FlagsOK'
<1> USE DEF FlagsOK, portVars, historyVars
<1>1. ASSUME NEW op \in {"on", "off", "cycle"}, Call(op)
      PROVE  FlagsOK'
  BY <1>1 DEF Call
<1>2. CASE Driver
  <2>1. CASE BudgetGuard \/ SshFails
    BY <2>1 DEF BudgetGuard, SshFails
  <2>2. CASE Manage
    BY <2>2 DEF Manage
  <2>3. CASE Reflected
    BY <2>3 DEF Reflected
  <2>4. CASE Retry
    BY <2>4 DEF Retry
  <2>5. CASE PollAgain
    BY <2>5 DEF PollAgain
  <2>6. CASE Unverified \/ CycleOn
    BY <2>6 DEF Unverified, CycleOn
  <2> QED
    BY <1>2, <2>1, <2>2, <2>3, <2>4, <2>5, <2>6 DEF Driver
<1>3. CASE Tick
  BY <1>3 DEF Tick
<1>4. CASE Refresh \/ Consumption \/ Wedge \/ Restart \/ Fault
  BY <1>4 DEF Refresh, Consumption, Wedge, Restart, Fault
<1>5. CASE UNCHANGED vars
  BY <1>5 DEF vars
<1> QED
  BY <1>1, <1>2, <1>3, <1>4, <1>5 DEF Next

LEMMA ValuesStep ==
    ASSUME ValuesOK, RoundsInTime, [Next]_vars
    PROVE  ValuesOK'
<1> USE Windows, LagTolerated, DeadlineBeyondSettling
    DEF ValuesOK, Statuses, Loads, NoDigest, Return, BeginSet, Digest, portVars, driverVars
<1>1. ASSUME NEW op \in {"on", "off", "cycle"}, Call(op)
      PROVE  ValuesOK'
  BY <1>1 DEF Call
<1>2. CASE Driver
  <2>1. CASE BudgetGuard \/ SshFails
    BY <2>1 DEF BudgetGuard, SshFails
  <2>2. CASE Manage
    BY <2>2 DEF Manage
  <2>3. CASE Reflected
    BY <2>3 DEF Reflected
  <2>4. CASE Retry
    BY <2>4 DEF Retry
  <2>5. CASE PollAgain
    BY <2>5 DEF PollAgain, FrozenSince
  <2>6. CASE Unverified \/ CycleOn
    BY <2>6 DEF Unverified, CycleOn
  <2> QED
    BY <1>2, <2>1, <2>2, <2>3, <2>4, <2>5, <2>6 DEF Driver
<1>3. CASE Tick
  <2>1. behind' \in 0..Lag /\ elapsed' \in 0..Deadline
    BY <1>3 DEF Tick, RoundsInTime
  <2> QED
    BY <1>3, <2>1 DEF Tick
<1>4. CASE Refresh \/ Consumption \/ Wedge \/ Restart \/ Fault
  <2>1. CASE Refresh
    BY <2>1 DEF Refresh
  <2>2. CASE Consumption
    BY <2>2 DEF Consumption
  <2>3. CASE Wedge \/ Restart
    BY <2>3 DEF Wedge, Restart
  <2>4. CASE Fault
    BY <2>4 DEF Fault
  <2> QED
    BY <1>4, <2>1, <2>2, <2>3, <2>4
<1>5. CASE UNCHANGED vars
  BY <1>5 DEF vars
<1> QED
  BY <1>1, <1>2, <1>3, <1>4, <1>5 DEF Next

LEMMA TypeStep ==
    ASSUME TypeOK, RoundsInTime, [Next]_vars
    PROVE  TypeOK'
<1>1. FlagsOK' /\ ValuesOK'
  BY Halves, FlagsStep, ValuesStep
<1> QED
  BY <1>1 DEF TypeOK, FlagsOK, ValuesOK

\* What a dropped manage and a missed deadline have in common: more rounds have
\* gone by than a healthy daemon lags, so a taken manage would show.
LEMMA LagExcused ==
    ASSUME PoeInv, pc = "verify", taken, ~trouble
    PROVE  elapsed < Deadline /\ (~Shows(want) => ~Dropped)
<1>1. elapsed \in Nat /\ behind \in Nat /\ frozen \in Int /\ behind <= Lag
  BY Windows, LagTolerated DEF PoeInv, TypeOK
<1>2. elapsed <= Lag + 1 /\ (~Shows(want) => elapsed <= behind)
  BY DEF PoeInv, LagInv
<1>3. elapsed < Deadline
  BY <1>1, <1>2, Windows, LagTolerated, DeadlineBeyondSettling
<1>4. ASSUME ~Shows(want), Dropped
      PROVE  FALSE
  <2>1. frozen >= Settling /\ elapsed - frozen > Grace
    BY <1>4 DEF Dropped, PoeInv, LagInv
  <2> QED
    BY <1>1, <1>2, <1>4, <2>1, Windows, LagTolerated
<1> QED
  BY <1>3, <1>4

LEMMA PoeStep ==
    ASSUME PoeInv, [Next]_vars
    PROVE  PoeInv'
<1>1. TypeOK'
  BY TypeStep DEF PoeInv
<1> USE DEF PoeInv, TypeOK, Statuses, Loads, ShownIsReal, Achieved, Shows, PowerCutIsSeen,
            CycleOrder, LagInv, RoundsInTime, SuccessIsReal, HealthyCallsSucceed, CyclesCutPower,
            Return, BeginSet, portVars, driverVars, historyVars
<1>2. ASSUME NEW op \in {"on", "off", "cycle"}, Call(op)
      PROVE  PoeInv'
  BY <1>1, <1>2 DEF Call
<1>3. CASE Driver
  <2>1. CASE BudgetGuard
    BY <1>1, <2>1 DEF BudgetGuard
  <2>2. CASE SshFails
    BY <1>1, <2>2 DEF SshFails
  <2>3. CASE Manage
    BY <1>1, <2>3, LagTolerated, Windows DEF Manage
  <2>4. CASE Reflected
    BY <1>1, <2>4 DEF Reflected
  <2>5. CASE Retry
    <3>1. trouble \/ ~taken
      BY <2>5, LagExcused DEF Retry
    <3> QED
      BY <1>1, <2>5, <3>1 DEF Retry
  <2>6. CASE PollAgain
    <3>1. frozen' # -1 => frozen' >= Settling
      BY <2>6, Windows DEF PollAgain, FrozenSince
    <3> QED
      BY <1>1, <2>6, <3>1, Windows, LagTolerated DEF PollAgain
  <2>7. CASE Unverified
    <3>1. trouble \/ ~taken
      BY <2>7, LagExcused, DeadlineBeyondSettling, Windows DEF Unverified
    <3> QED
      BY <1>1, <2>7, <3>1 DEF Unverified
  <2>8. CASE CycleOn
    BY <1>1, <2>8 DEF CycleOn
  <2> QED
    BY <1>3, <2>1, <2>2, <2>3, <2>4, <2>5, <2>6, <2>7, <2>8 DEF Driver
<1>4. CASE Tick
  BY <1>1, <1>4, Windows, LagTolerated DEF Tick
<1>5. CASE Refresh
  BY <1>1, <1>5 DEF Refresh
<1>6. CASE Consumption
  BY <1>1, <1>6 DEF Consumption
<1>7. CASE Wedge
  BY <1>1, <1>7 DEF Wedge
<1>8. CASE Restart
  BY <1>1, <1>8 DEF Restart
<1>9. CASE Fault
  BY <1>1, <1>9 DEF Fault
<1>10. CASE UNCHANGED vars
  BY <1>1, <1>10 DEF vars
<1> QED
  BY <1>2, <1>3, <1>4, <1>5, <1>6, <1>7, <1>8, <1>9, <1>10 DEF Next

LEMMA PoeInvariant == Spec => []PoeInv
BY InitHolds, PoeStep, PTL DEF Spec

\* A call that reports success has put the port into the state asked for, as
\* verified in `poe info`, unless something outside the driver interfered.
THEOREM SuccessesAreReal == Spec => []SuccessIsReal
<1>1. PoeInv => SuccessIsReal
  BY DEF PoeInv
<1> QED
  BY PoeInvariant, <1>1, PTL

\* Whatever the windows, provided the settling one covers the lag: a manage that
\* was taken is never reported as dropped or unverified without cause.
THEOREM LagIsTolerated == Spec => []HealthyCallsSucceed
<1>1. PoeInv => HealthyCallsSucceed
  BY DEF PoeInv
<1> QED
  BY PoeInvariant, <1>1, PTL

\* cycle() returns normally only if the port lost its power on the way.
THEOREM CyclesAreReal == Spec => []CyclesCutPower
<1>1. PoeInv => CyclesCutPower
  BY DEF PoeInv
<1> QED
  BY PoeInvariant, <1>1, PTL

\* The port, the daemon's info and the call stay well-typed.
THEOREM TypeCorrect == Spec => []TypeOK
<1>1. PoeInv => TypeOK
  BY DEF PoeInv
<1> QED
  BY PoeInvariant, <1>1, PTL
=============================================================================
