--------------------------- MODULE PcscdCtlProofs ---------------------------
(***************************************************************************)
(* The domain lock, for any number of readers and disturbances and any     *)
(* timeout; then coordinated restarts, for any number of pcscd-ctl runs,   *)
(* readers, other disturbances and labgrid places.  Every step of PcscdCtl *)
(* takes a step of the domain lock or leaves it alone, so what the first   *)
(* part says of the lock carries over.                                     *)
(***************************************************************************)
EXTENDS PcscdCtl, TLAPS

\* "acquired" is the journal's last word on a live acquisition only while its
\* caller is in the protected region and has not begun to release.
JournalInv == \A p \in journaled : pc[p] = "held"

\* Only a disturbance writes the file.
OnlyDisturbancesWrite ==
    \A p \in Handles : pc[p] \in {"truncate", "write"} => p \in Disturbers

DomainInv ==
    /\ TypeOK
    /\ OnlyDisturbancesWrite
    /\ FlockMatchesCode
    /\ FileNamesDisturbance
    /\ JournalInv

\* Every kind of step the lock's users take, crashes included.
DomainStep(p) ==
    \/ \E timeout \in 0..MaxPolls : Open(p, timeout)
    \/ Advance(p)
    \/ LogReleased(p)
    \/ Crash(p)

LEMMA TypeStep ==
    ASSUME TypeOK, NEW p \in Handles, DomainStep(p)
    PROVE  TypeOK'
<1> USE MaxPollsNat, NoHolderFresh DEF TypeOK, Labels, Goto
<1>1. CASE \E timeout \in 0..MaxPolls : Open(p, timeout)
  BY <1>1 DEF Open
<1>2. CASE Grant(p)
  BY <1>2 DEF Grant, Mode
<1>3. CASE Wait(p)
  <2>1. polls[p] - 1 \in 0..MaxPolls
    BY <1>3 DEF Wait
  <2> QED
    BY <1>3, <2>1 DEF Wait
<1>4. CASE GiveUp(p) \/ Blame(p)
  BY <1>4 DEF GiveUp, Blame
<1>5. CASE Truncate(p) \/ WriteHolder(p)
  BY <1>5 DEF Truncate, WriteHolder
<1>6. CASE LogAcquired(p) \/ LogReleased(p)
  BY <1>6 DEF LogAcquired, LogReleased
<1>7. CASE Unlock(p) \/ Crash(p)
  BY <1>7 DEF Unlock, Crash
<1> QED
  BY <1>1, <1>2, <1>3, <1>4, <1>5, <1>6, <1>7 DEF DomainStep, Advance

\* The flock part: only Grant adds a lock, and it looks at every other one.
LEMMA FlockStep ==
    ASSUME TypeOK, FlockMatchesCode, NEW p \in Handles, DomainStep(p)
    PROVE  FlockMatchesCode'
<1> USE DEF TypeOK, Labels, Goto, FlockMatchesCode, Locked, Mode
<1>1. CASE \E timeout \in 0..MaxPolls : Open(p, timeout)
  BY <1>1 DEF Open
<1>2. CASE Grant(p)
  BY <1>2 DEF Grant, Grantable
<1>3. CASE Wait(p) \/ GiveUp(p) \/ Blame(p)
  BY <1>3 DEF Wait, GiveUp, Blame
<1>4. CASE Truncate(p) \/ WriteHolder(p) \/ LogAcquired(p) \/ LogReleased(p)
  BY <1>4 DEF Truncate, WriteHolder, LogAcquired, LogReleased
<1>5. CASE Unlock(p) \/ Crash(p)
  BY <1>5 DEF Unlock, Crash
<1> QED
  BY <1>1, <1>2, <1>3, <1>4, <1>5 DEF DomainStep, Advance

\* A disturbance that holds its flock is the only handle that holds one.
LEMMA LockedAlone ==
    ASSUME TypeOK, FlockMatchesCode, NEW p \in Disturbers, NEW q \in Handles,
           Locked(p), Locked(q)
    PROVE  p = q
BY DEF FlockMatchesCode, Mode, Handles

\* The file part: who writes the file holds the exclusive flock.
LEMMA FileStep ==
    ASSUME TypeOK, OnlyDisturbancesWrite, FlockMatchesCode, FileNamesDisturbance,
           NEW p \in Handles, DomainStep(p)
    PROVE  FileNamesDisturbance'
<1> SUFFICES ASSUME NEW d \in Disturbers, pc'[d] \in {"log", "held", "unlock"}
             PROVE  content' = d
  BY DEF FileNamesDisturbance
<1> USE DEF TypeOK, Labels, Goto, FileNamesDisturbance, Handles
<1>1. CASE \E timeout \in 0..MaxPolls : Open(p, timeout)
  BY <1>1 DEF Open
<1>2. CASE Grant(p)
  BY <1>2 DEF Grant
<1>3. CASE Wait(p) \/ GiveUp(p) \/ Blame(p)
  BY <1>3 DEF Wait, GiveUp, Blame
<1>4. CASE Truncate(p) \/ WriteHolder(p)
  <2>1. p \in Disturbers /\ Locked(p)
    BY <1>4 DEF Truncate, WriteHolder, Locked, OnlyDisturbancesWrite
  <2>2. d # p => ~Locked(d)
    BY <2>1, LockedAlone
  <2> QED
    BY <1>4, <2>2 DEF Truncate, WriteHolder, Locked
<1>5. CASE LogAcquired(p) \/ LogReleased(p)
  BY <1>5 DEF LogAcquired, LogReleased
<1>6. CASE Unlock(p) \/ Crash(p)
  BY <1>6 DEF Unlock, Crash
<1> QED
  BY <1>1, <1>2, <1>3, <1>4, <1>5, <1>6 DEF DomainStep, Advance

LEMMA WriterStep ==
    ASSUME TypeOK, OnlyDisturbancesWrite, NEW p \in Handles, DomainStep(p)
    PROVE  OnlyDisturbancesWrite'
<1> USE DEF TypeOK, Labels, Goto, OnlyDisturbancesWrite
<1>1. CASE \E timeout \in 0..MaxPolls : Open(p, timeout)
  BY <1>1 DEF Open
<1>2. CASE Grant(p) \/ Wait(p) \/ GiveUp(p) \/ Blame(p)
  BY <1>2 DEF Grant, Wait, GiveUp, Blame
<1>3. CASE Truncate(p) \/ WriteHolder(p) \/ LogAcquired(p) \/ LogReleased(p)
  BY <1>3 DEF Truncate, WriteHolder, LogAcquired, LogReleased
<1>4. CASE Unlock(p) \/ Crash(p)
  BY <1>4 DEF Unlock, Crash
<1> QED
  BY <1>1, <1>2, <1>3, <1>4 DEF DomainStep, Advance

LEMMA JournalStep ==
    ASSUME TypeOK, JournalInv, NEW p \in Handles, DomainStep(p)
    PROVE  JournalInv'
<1> USE DEF TypeOK, Labels, Goto, JournalInv
<1>1. CASE \E timeout \in 0..MaxPolls : Open(p, timeout)
  BY <1>1 DEF Open
<1>2. CASE Grant(p) \/ Wait(p) \/ GiveUp(p) \/ Blame(p)
  BY <1>2 DEF Grant, Wait, GiveUp, Blame
<1>3. CASE Truncate(p) \/ WriteHolder(p)
  BY <1>3 DEF Truncate, WriteHolder
<1>4. CASE LogAcquired(p) \/ LogReleased(p)
  BY <1>4 DEF LogAcquired, LogReleased
<1>5. CASE Unlock(p) \/ Crash(p)
  BY <1>5 DEF Unlock, Crash
<1> QED
  BY <1>1, <1>2, <1>3, <1>4, <1>5 DEF DomainStep, Advance

LEMMA DomainInvInit == Init => DomainInv
BY MaxPollsNat DEF Init, DomainInv, TypeOK, Labels, OnlyDisturbancesWrite,
   FlockMatchesCode, Locked, FileNamesDisturbance, JournalInv, Handles

\* Stated without Next, so that a composition whose steps are domain steps or
\* leave the domain alone can cite it.
LEMMA DomainInvStep ==
    ASSUME DomainInv,
           UNCHANGED domainVars \/ \E p \in Handles : DomainStep(p)
    PROVE  DomainInv'
<1>1. CASE \E p \in Handles : DomainStep(p)
  <2> PICK p \in Handles : DomainStep(p)
    BY <1>1
  <2> QED
    BY TypeStep, WriterStep, FlockStep, FileStep, JournalStep DEF DomainInv
<1>2. CASE UNCHANGED domainVars
  BY <1>2 DEF domainVars, DomainInv, TypeOK, OnlyDisturbancesWrite,
     FlockMatchesCode, Locked, FileNamesDisturbance, JournalInv
<1> QED
  BY <1>1, <1>2

LEMMA DomainInvariant == Spec => []DomainInv
<1>1. DomainInv /\ [Next]_domainVars => DomainInv'
  BY DomainInvStep DEF Next, DomainStep
<1> QED
  BY DomainInvInit, <1>1, PTL DEF Spec

-----------------------------------------------------------------------------
LEMMA InvGivesExclusion == DomainInv => DisturbanceIsAlone
BY LockedAlone DEF DomainInv, DisturbanceIsAlone, Inside, Locked, Handles

LEMMA InvGivesJournal == DomainInv => JournalShowsExclusion
<1> SUFFICES ASSUME DomainInv, NEW p \in journaled \cap Disturbers, NEW q \in journaled
             PROVE  q = p
  BY DEF JournalShowsExclusion
<1>1. Locked(p) /\ Locked(q) /\ q \in Handles
  BY DEF DomainInv, JournalInv, Locked, TypeOK
<1> QED
  BY <1>1, LockedAlone DEF DomainInv

\* The lock's state stays well-typed.
THEOREM TypeCorrect == Spec => []TypeOK
<1>1. DomainInv => TypeOK
  BY DEF DomainInv
<1> QED
  BY DomainInvariant, <1>1, PTL

\* Readers and disturbances exclude each other, and so do two disturbances,
\* through any crash and any timeout, for any number of each.
THEOREM MutualExclusion == Spec => []DisturbanceIsAlone
BY DomainInvariant, InvGivesExclusion, PTL

\* While a disturbance's acquisition is logged and not yet undone, the lock
\* file names it.
THEOREM HolderOnFile == Spec => []FileNamesDisturbance
<1>1. DomainInv => FileNamesDisturbance
  BY DEF DomainInv
<1> QED
  BY DomainInvariant, <1>1, PTL

\* The journal never shows a disturbance overlapping another live acquisition.
THEOREM JournalExclusion == Spec => []JournalShowsExclusion
BY DomainInvariant, InvGivesJournal, PTL

\* The lock file implements the shared/exclusive region of SharedDomain.
THEOREM Implements == Spec => ImplementsDomain
<1> DEFINE now == {p \in Handles : Inside(p)}
<1> USE DEF Domain!Handles, Handles
<1>1. Init => Domain!Init
  BY DEF Init, Domain!Init, Inside
<1>2. ASSUME DomainInv, [Next]_domainVars
      PROVE  [Domain!Next]_now
  <2>1. CASE UNCHANGED domainVars
    BY <2>1 DEF domainVars, Inside, now
  <2>2. ASSUME NEW p \in Handles, DomainStep(p)
        PROVE  [Domain!Next]_now
    <3> USE DEF TypeOK, DomainInv, Labels, Goto, Inside
    <3>1. CASE LogAcquired(p)
      <4>1. now' = now \cup {p} /\ p \notin now
        BY <1>2, <3>1 DEF LogAcquired, now
      <4>2. Domain!Admits(p)
        <5>1. \A q \in now : p \in Disturbers \/ q \in Disturbers => q = p
          BY <1>2, <3>1, LockedAlone DEF LogAcquired, Locked, now
        <5> QED
          BY <5>1, <4>1 DEF Domain!Admits
      <4> QED
        BY <4>1, <4>2 DEF Domain!Next, Domain!Enter
    <3>2. CASE Unlock(p)
      <4>1. now' = now \ {p} /\ p \in now
        BY <1>2, <3>2 DEF Unlock, now
      <4> QED
        BY <4>1 DEF Domain!Next, Domain!Leave
    <3>3. CASE Crash(p)
      <4>1. now' = now \ {p}
        BY <1>2, <3>3 DEF Crash, now
      <4> QED
        BY <4>1 DEF Domain!Next, Domain!Leave
    <3>4. CASE LogReleased(p) \/ \E timeout \in 0..MaxPolls : Open(p, timeout)
      <4>1. now' = now
        BY <1>2, <3>4 DEF LogReleased, Open, now
      <4> QED
        BY <4>1
    <3>5. CASE Grant(p) \/ Wait(p) \/ GiveUp(p) \/ Blame(p)
                \/ Truncate(p) \/ WriteHolder(p)
      <4>1. now' = now
        BY <1>2, <3>5 DEF Grant, Wait, GiveUp, Blame, Truncate, WriteHolder, now
      <4> QED
        BY <4>1
    <3> QED
      BY <2>2, <3>1, <3>2, <3>3, <3>4, <3>5 DEF DomainStep, Advance
  <2> QED
    BY <1>2, <2>1, <2>2 DEF Next, DomainStep
<1> QED
  BY <1>1, <1>2, DomainInvariant, PTL DEF Spec, ImplementsDomain, Domain!Spec

-----------------------------------------------------------------------------
\* Where a run of restart() is says where its acquisition is.
CtlMatchesDomain ==
    \A r \in Restarters :
        /\ ctl[r] \in {"off", "denied"} => pc[r] = "idle"
        /\ ctl[r] = "acquire" =>
              pc[r] \in {"poll", "blame", "truncate", "write", "log", "held"}
        /\ ctl[r] \in {"restart", "systemctl", "probe"} => pc[r] = "held"
        /\ ctl[r] = "leave" => pc[r] \in {"held", "unlock"}

\* A job with a run behind it is one that run is waiting for, what it has done was
\* not undone by another run's, and until it is through there is no exit 0.
JobsAreAwaited ==
    \A r \in Restarters :
        /\ job[r] # "none" => ctl[r] = "systemctl"
        /\ job[r] = "done" => lastBy \in {r, NoHolder}
        /\ ctl[r] \in {"off", "acquire", "restart", "systemctl"} => outcome[r].rc # "0"

CtlInv ==
    /\ DomainInv
    /\ CtlTypeOK
    /\ CtlMatchesDomain
    /\ JobsAreAwaited
    /\ RestartOnlyOnClearCheck
    /\ AnswerIsOfOwnRestart

LEMMA RestartersAreHandles == Restarters \subseteq Handles
BY RestartersDisturb DEF Handles

\* A step of the composition is a step of the domain lock or a stutter of it.
LEMMA CtlStepIsDomainStep ==
    ASSUME CtlNext
    PROVE  UNCHANGED domainVars \/ \E p \in Handles : DomainStep(p)
<1>1. CASE \E r \in Restarters :
              \/ \E timeout \in 0..MaxPolls : Start(r, timeout)
              \/ CtlAdvance(r)
              \/ CtlCrash(r)
  <2>1. PICK r \in Restarters :
              \/ \E timeout \in 0..MaxPolls : Start(r, timeout)
              \/ CtlAdvance(r)
              \/ CtlCrash(r)
    BY <1>1
  <2>2. r \in Handles
    BY RestartersAreHandles
  <2>3. CASE \E timeout \in 0..MaxPolls : Start(r, timeout)
    BY <2>2, <2>3 DEF Start, DomainStep
  <2>4. CASE CtlAdvance(r)
    <3>1. UNCHANGED domainVars \/ Advance(r) \/ LogReleased(r)
      BY <2>4 DEF CtlAdvance, Acquiring, Contention, LateCheck, Systemctl, SystemctlReturns,
         SystemctlTimesOut, Probe, ProbesExhausted, Leave, Exit, Advance
    <3> QED
      BY <2>2, <3>1 DEF DomainStep
  <2>5. CASE CtlCrash(r)
    BY <2>2, <2>5 DEF CtlCrash, DomainStep
  <2> QED
    BY <2>1, <2>3, <2>4, <2>5
<1>2. CASE \E p \in Handles \ Restarters : OtherHandle(p)
  BY <1>2 DEF OtherHandle, DomainStep
<1>3. CASE (\E pl \in Places : AcquirePlace(pl) \/ ReleasePlace(pl)) \/ DaemonUp
  BY <1>3 DEF AcquirePlace, ReleasePlace, DaemonUp
<1>4. CASE (\E r \in Restarters : SystemdRestarts(r)) \/ StrayRestarts
  BY <1>4 DEF SystemdRestarts, StrayRestarts
<1> QED
  BY <1>1, <1>2, <1>3, <1>4 DEF CtlNext

\* The pcscd-ctl composition is a behaviour of the domain lock.
THEOREM CtlRefinesLock == CtlSpec => Spec
<1>1. CtlInit => Init
  BY DEF CtlInit
<1>2. [CtlNext]_vars => [Next]_domainVars
  BY CtlStepIsDomainStep DEF vars, Next, DomainStep
<1> QED
  BY <1>1, <1>2, PTL DEF CtlSpec, Spec

-----------------------------------------------------------------------------
LEMMA OutcomeTypes ==
    /\ NoOutcome \in Outcomes
    /\ Denied \in Outcomes
    /\ \A rc \in {"none", "-1", "0", "1"}, b \in BOOLEAN :
          [rc |-> rc, stable |-> b] \in Outcomes
    /\ \A out \in Outcomes : out.rc \in {"none", "-1", "0", "1"}
BY DEF NoOutcome, Denied, Outcomes

LEMMA CtlTypeStep ==
    ASSUME CtlTypeOK, CtlNext
    PROVE  CtlTypeOK'
<1> USE DEF CtlTypeOK, CtlLabels, GoCtl, systemVars
<1>1. ASSUME NEW r \in Restarters, NEW timeout \in 0..MaxPolls, Start(r, timeout)
      PROVE  CtlTypeOK'
  BY <1>1, OutcomeTypes DEF Start
<1>2. ASSUME NEW r \in Restarters, Acquiring(r) \/ Leave(r)
      PROVE  CtlTypeOK'
  BY <1>2 DEF Acquiring, Leave, ctlVars, systemVars
<1>3. ASSUME NEW r \in Restarters, Contention(r) \/ ProbesExhausted(r)
      PROVE  CtlTypeOK'
  BY <1>3 DEF Contention, ProbesExhausted
<1>4. ASSUME NEW r \in Restarters, LateCheck(r)
      PROVE  CtlTypeOK'
  <2>1. ForeignHeld(r) \in SUBSET Places
    BY DEF ForeignHeld
  <2> QED
    BY <1>4, <2>1, OutcomeTypes DEF LateCheck
<1>5. ASSUME NEW r \in Restarters, Systemctl(r) \/ SystemctlReturns(r) \/ SystemctlTimesOut(r)
      PROVE  CtlTypeOK'
  <2>1. CASE Systemctl(r)
    BY <2>1 DEF Systemctl
  <2>2. CASE SystemctlReturns(r)
    <3>1. outcome' \in [Restarters -> Outcomes]
      BY <2>2, OutcomeTypes DEF SystemctlReturns
    <3>2. probes' \in [Restarters -> 0..MaxProbes]
      BY <2>2, MaxProbesNat DEF SystemctlReturns
    <3> QED
      BY <2>2, <3>1, <3>2 DEF SystemctlReturns
  <2>3. CASE SystemctlTimesOut(r)
    BY <2>3 DEF SystemctlTimesOut, Abandon
  <2> QED
    BY <1>5, <2>1, <2>2, <2>3
<1>6. ASSUME NEW r \in Restarters, Probe(r)
      PROVE  CtlTypeOK'
  <2>1. outcome' \in [Restarters -> Outcomes]
    <3>1. [rc |-> outcome[r].rc, stable |-> TRUE] \in Outcomes
      BY OutcomeTypes
    <3> QED
      BY <1>6, <3>1, OutcomeTypes DEF Probe
  <2>2. probes' \in [Restarters -> 0..MaxProbes]
    BY <1>6, MaxProbesNat DEF Probe
  <2> QED
    BY <1>6, <2>1, <2>2 DEF Probe
<1>7. ASSUME NEW r \in Restarters, Exit(r) \/ CtlCrash(r)
      PROVE  CtlTypeOK'
  <2>1. outcome' \in [Restarters -> Outcomes]
    BY <1>7, OutcomeTypes DEF Exit, CtlCrash
  <2>2. probes' \in [Restarters -> 0..MaxProbes]
    BY <1>7, MaxProbesNat DEF Exit, CtlCrash
  <2>3. lastBy' \in Restarters \cup {NoHolder}
    BY <1>7 DEF Exit, CtlCrash, ForgetRun
  <2>4. ctl' \in [Restarters -> CtlLabels] /\ unseen' \in [Restarters -> SUBSET Places]
    BY <1>7 DEF Exit, CtlCrash, Abandon
  <2>5. job' \in [Restarters -> {"none", "queued", "done", "failed"}] /\ stray' \in BOOLEAN
    BY <1>7 DEF Exit, CtlCrash, Abandon
  <2> QED
    BY <1>7, <2>1, <2>2, <2>3, <2>4, <2>5 DEF Exit, CtlCrash
<1>8. ASSUME NEW p \in Handles \ Restarters, OtherHandle(p)
      PROVE  CtlTypeOK'
  BY <1>8 DEF OtherHandle, ctlVars, systemVars
<1>9. ASSUME NEW pl \in Places, AcquirePlace(pl) \/ ReleasePlace(pl)
      PROVE  CtlTypeOK'
  BY <1>9 DEF AcquirePlace, ReleasePlace
<1>10. CASE DaemonUp \/ StrayRestarts
  BY <1>10 DEF DaemonUp, StrayRestarts
<1>11. ASSUME NEW r \in Restarters, SystemdRestarts(r)
       PROVE  CtlTypeOK'
  BY <1>11 DEF SystemdRestarts
<1> QED
  BY <1>1, <1>2, <1>3, <1>4, <1>5, <1>6, <1>7, <1>8, <1>9, <1>10, <1>11
     DEF CtlNext, CtlAdvance

LEMMA MatchStep ==
    ASSUME TypeOK, CtlTypeOK, CtlMatchesDomain, CtlNext
    PROVE  CtlMatchesDomain'
<1> USE RestartersAreHandles
    DEF TypeOK, CtlTypeOK, CtlLabels, Labels, CtlMatchesDomain, GoCtl, Goto
<1>1. ASSUME NEW r \in Restarters, NEW timeout \in 0..MaxPolls, Start(r, timeout)
      PROVE  CtlMatchesDomain'
  BY <1>1 DEF Start, Open, domainVars
<1>2. ASSUME NEW r \in Restarters, Acquiring(r)
      PROVE  CtlMatchesDomain'
  <2>1. CASE Grant(r) \/ Wait(r) \/ GiveUp(r)
    BY <1>2, <2>1 DEF Acquiring, ctlVars, systemVars, Grant, Wait, GiveUp
  <2>2. CASE Truncate(r) \/ WriteHolder(r) \/ LogAcquired(r)
    BY <1>2, <2>2 DEF Acquiring, ctlVars, systemVars, Truncate, WriteHolder, LogAcquired
  <2> QED
    BY <1>2, <2>1, <2>2 DEF Acquiring
<1>3. ASSUME NEW r \in Restarters, Contention(r)
      PROVE  CtlMatchesDomain'
  BY <1>3 DEF Contention, Blame
<1>4. ASSUME NEW r \in Restarters, LateCheck(r)
      PROVE  CtlMatchesDomain'
  BY <1>4 DEF LateCheck, domainVars
<1>5. ASSUME NEW r \in Restarters, Systemctl(r) \/ SystemctlReturns(r) \/ SystemctlTimesOut(r)
      PROVE  CtlMatchesDomain'
  BY <1>5 DEF Systemctl, SystemctlReturns, SystemctlTimesOut, domainVars
<1>6. ASSUME NEW r \in Restarters, Probe(r) \/ ProbesExhausted(r)
      PROVE  CtlMatchesDomain'
  BY <1>6 DEF Probe, ProbesExhausted, domainVars
<1>7. ASSUME NEW r \in Restarters, Leave(r)
      PROVE  CtlMatchesDomain'
  BY <1>7 DEF Leave, LogReleased, ctlVars, systemVars
<1>8. ASSUME NEW r \in Restarters, Exit(r)
      PROVE  CtlMatchesDomain'
  BY <1>8 DEF Exit, Unlock, domainVars
<1>9. ASSUME NEW r \in Restarters, CtlCrash(r)
      PROVE  CtlMatchesDomain'
  BY <1>9 DEF CtlCrash, Crash, domainVars
<1>10. ASSUME NEW p \in Handles \ Restarters, OtherHandle(p)
       PROVE  CtlMatchesDomain'
  <2>1. \A r \in Restarters : pc'[r] = pc[r]
    BY <1>10 DEF OtherHandle, Open, Advance, Grant, Wait, GiveUp, Blame, Truncate,
       WriteHolder, LogAcquired, Unlock, LogReleased, Crash
  <2> QED
    BY <1>10, <2>1 DEF OtherHandle, ctlVars, systemVars
<1>11. CASE (\E pl \in Places : AcquirePlace(pl) \/ ReleasePlace(pl)) \/ DaemonUp
  BY <1>11 DEF AcquirePlace, ReleasePlace, DaemonUp, domainVars
<1>12. CASE (\E r \in Restarters : SystemdRestarts(r)) \/ StrayRestarts
  BY <1>12 DEF SystemdRestarts, StrayRestarts, domainVars
<1> QED
  BY <1>1, <1>2, <1>3, <1>4, <1>5, <1>6, <1>7, <1>8, <1>9, <1>10, <1>11, <1>12
     DEF CtlNext, CtlAdvance

\* A run past its late check holds the exclusive flock, so no other handle is
\* in its protected region and no other run is past its late check.
LEMMA PastCheckAlone ==
    ASSUME DomainInv, CtlTypeOK, CtlMatchesDomain, NEW r \in Restarters,
           ctl[r] \in {"restart", "systemctl", "probe", "leave"},
           NEW q \in Handles, Inside(q)
    PROVE  q = r
<1>1. Locked(r) /\ Locked(q)
  BY DEF CtlMatchesDomain, Locked, Inside
<1> QED
  BY <1>1, LockedAlone, RestartersDisturb DEF DomainInv

LEMMA ClearCheckStep ==
    ASSUME CtlTypeOK, RestartOnlyOnClearCheck, CtlNext
    PROVE  RestartOnlyOnClearCheck'
<1> SUFFICES ASSUME NEW q \in Restarters, Checked(q)'
             PROVE  ForeignHeld(q)' \subseteq unseen'[q]
  BY DEF RestartOnlyOnClearCheck
<1> USE DEF CtlTypeOK, CtlLabels, GoCtl, RestartOnlyOnClearCheck, ForeignHeld, Checked
<1>1. ASSUME NEW r \in Restarters, NEW timeout \in 0..MaxPolls, Start(r, timeout)
      PROVE  ForeignHeld(q)' \subseteq unseen'[q]
  BY <1>1 DEF Start
<1>2. ASSUME NEW r \in Restarters, Acquiring(r) \/ Leave(r)
      PROVE  ForeignHeld(q)' \subseteq unseen'[q]
  BY <1>2 DEF Acquiring, Leave, ctlVars, systemVars
<1>3. ASSUME NEW r \in Restarters, Contention(r) \/ ProbesExhausted(r)
      PROVE  ForeignHeld(q)' \subseteq unseen'[q]
  BY <1>3 DEF Contention, ProbesExhausted
<1>4. ASSUME NEW r \in Restarters, LateCheck(r)
      PROVE  ForeignHeld(q)' \subseteq unseen'[q]
  BY <1>4 DEF LateCheck
<1>5. ASSUME NEW r \in Restarters, Systemctl(r) \/ SystemctlReturns(r) \/ SystemctlTimesOut(r)
      PROVE  ForeignHeld(q)' \subseteq unseen'[q]
  BY <1>5 DEF Systemctl, SystemctlReturns, SystemctlTimesOut, Abandon
<1>6. ASSUME NEW r \in Restarters, Probe(r)
      PROVE  ForeignHeld(q)' \subseteq unseen'[q]
  BY <1>6 DEF Probe
<1>7. ASSUME NEW r \in Restarters, Exit(r) \/ CtlCrash(r)
      PROVE  ForeignHeld(q)' \subseteq unseen'[q]
  BY <1>7 DEF Exit, CtlCrash, Abandon
<1>8. ASSUME NEW p \in Handles \ Restarters, OtherHandle(p)
      PROVE  ForeignHeld(q)' \subseteq unseen'[q]
  BY <1>8 DEF OtherHandle, ctlVars, systemVars
<1>9. ASSUME NEW pl \in Places, AcquirePlace(pl) \/ ReleasePlace(pl)
      PROVE  ForeignHeld(q)' \subseteq unseen'[q]
  BY <1>9 DEF AcquirePlace, ReleasePlace
<1>10. CASE DaemonUp \/ StrayRestarts \/ \E r \in Restarters : SystemdRestarts(r)
  BY <1>10 DEF DaemonUp, StrayRestarts, SystemdRestarts
<1> QED
  BY <1>1, <1>2, <1>3, <1>4, <1>5, <1>6, <1>7, <1>8, <1>9, <1>10
     DEF CtlNext, CtlAdvance

\* A restart can only be the last while its run is the only one past its late check.
LEMMA RestartIsAlone ==
    ASSUME DomainInv, CtlTypeOK, CtlMatchesDomain, JobsAreAwaited,
           NEW r \in Restarters, job[r] = "queued", NEW q \in Restarters,
           ctl[q] \in {"systemctl", "probe", "leave"}
    PROVE  q = r
<1>1. ctl[r] = "systemctl"
  BY DEF JobsAreAwaited
<1>2. Inside(r) /\ r \in Handles
  BY <1>1, RestartersAreHandles DEF CtlMatchesDomain, Inside
<1> QED
  BY <1>2, PastCheckAlone

LEMMA JobStep ==
    ASSUME DomainInv, CtlTypeOK, CtlMatchesDomain, JobsAreAwaited, CtlNext
    PROVE  JobsAreAwaited'
<1> SUFFICES ASSUME NEW q \in Restarters
             PROVE  /\ job'[q] # "none" => ctl'[q] = "systemctl"
                    /\ job'[q] = "done" => lastBy' \in {q, NoHolder}
                    /\ ctl'[q] \in {"off", "acquire", "restart", "systemctl"} =>
                          outcome'[q].rc # "0"
  BY DEF JobsAreAwaited
<1> DEFINE Goal == /\ job'[q] # "none" => ctl'[q] = "systemctl"
                   /\ job'[q] = "done" => lastBy' \in {q, NoHolder}
                   /\ ctl'[q] \in {"off", "acquire", "restart", "systemctl"} =>
                         outcome'[q].rc # "0"
<1> USE DEF CtlTypeOK, CtlLabels, GoCtl, JobsAreAwaited
<1>1. ASSUME NEW r \in Restarters, NEW timeout \in 0..MaxPolls, Start(r, timeout)
      PROVE  Goal
  BY <1>1 DEF Start, systemVars
<1>2. ASSUME NEW r \in Restarters, Acquiring(r) \/ Leave(r)
      PROVE  Goal
  BY <1>2 DEF Acquiring, Leave, ctlVars, systemVars
<1>3. ASSUME NEW r \in Restarters,
             Contention(r) \/ LateCheck(r) \/ Probe(r) \/ ProbesExhausted(r)
      PROVE  Goal
  BY <1>3 DEF Contention, LateCheck, Probe, ProbesExhausted, systemVars
<1>4. ASSUME NEW r \in Restarters, Systemctl(r)
      PROVE  Goal
  BY <1>4 DEF Systemctl
<1>5. ASSUME NEW r \in Restarters, SystemctlReturns(r) \/ SystemctlTimesOut(r)
      PROVE  Goal
  BY <1>5 DEF SystemctlReturns, SystemctlTimesOut, Abandon
<1>6. ASSUME NEW r \in Restarters, Exit(r) \/ CtlCrash(r)
      PROVE  Goal
  BY <1>6 DEF Exit, CtlCrash, Abandon, ForgetRun, NoOutcome
<1>7. ASSUME NEW r \in Restarters, SystemdRestarts(r)
      PROVE  Goal
  <2>1. job'[q] = "done" => q = r
    BY <1>7, RestartIsAlone DEF SystemdRestarts
  <2> QED
    BY <1>7, <2>1 DEF SystemdRestarts
<1>8. ASSUME NEW p \in Handles \ Restarters, OtherHandle(p)
      PROVE  Goal
  BY <1>8 DEF OtherHandle, ctlVars, systemVars
<1>9. ASSUME NEW pl \in Places, AcquirePlace(pl) \/ ReleasePlace(pl)
      PROVE  Goal
  BY <1>9 DEF AcquirePlace, ReleasePlace, systemVars
<1>10. CASE DaemonUp \/ StrayRestarts
  BY <1>10 DEF DaemonUp, StrayRestarts
<1> QED
  BY <1>1, <1>2, <1>3, <1>4, <1>5, <1>6, <1>7, <1>8, <1>9, <1>10
     DEF CtlNext, CtlAdvance

LEMMA OwnRestartStep ==
    ASSUME DomainInv, CtlTypeOK, CtlMatchesDomain, JobsAreAwaited, AnswerIsOfOwnRestart,
           CtlNext
    PROVE  AnswerIsOfOwnRestart'
<1> SUFFICES ASSUME NEW q \in Restarters, ctl'[q] \in {"probe", "leave"},
                    outcome'[q].rc = "0"
             PROVE  lastBy' \in {q, NoHolder}
  BY DEF AnswerIsOfOwnRestart
<1> USE DEF CtlTypeOK, CtlLabels, GoCtl, AnswerIsOfOwnRestart
<1>1. ASSUME NEW r \in Restarters, NEW timeout \in 0..MaxPolls, Start(r, timeout)
      PROVE  lastBy' \in {q, NoHolder}
  BY <1>1 DEF Start, Denied, systemVars
<1>2. ASSUME NEW r \in Restarters, Acquiring(r) \/ Leave(r)
      PROVE  lastBy' \in {q, NoHolder}
  BY <1>2 DEF Acquiring, Leave, ctlVars, systemVars
<1>3. ASSUME NEW r \in Restarters, Contention(r) \/ ProbesExhausted(r)
      PROVE  lastBy' \in {q, NoHolder}
  BY <1>3 DEF Contention, ProbesExhausted, systemVars
<1>4. ASSUME NEW r \in Restarters, LateCheck(r)
      PROVE  lastBy' \in {q, NoHolder}
  BY <1>4 DEF LateCheck, Denied, systemVars
<1>5. ASSUME NEW r \in Restarters, SystemctlReturns(r)
      PROVE  lastBy' \in {q, NoHolder}
  <2>1. CASE q = r
    <3>1. job[r] = "done"
      BY <1>5, <2>1 DEF SystemctlReturns
    <3> QED
      BY <1>5, <2>1, <3>1 DEF SystemctlReturns, JobsAreAwaited
  <2>2. CASE q # r
    BY <1>5, <2>2 DEF SystemctlReturns
  <2> QED
    BY <2>1, <2>2
<1>6. ASSUME NEW r \in Restarters, Probe(r)
      PROVE  lastBy' \in {q, NoHolder}
  BY <1>6 DEF Probe, NoOutcome, systemVars
<1>7. ASSUME NEW r \in Restarters, Exit(r) \/ CtlCrash(r)
      PROVE  lastBy' \in {q, NoHolder}
  BY <1>7 DEF Exit, CtlCrash, ForgetRun
<1>8. ASSUME NEW p \in Handles \ Restarters, OtherHandle(p)
      PROVE  lastBy' \in {q, NoHolder}
  BY <1>8 DEF OtherHandle, ctlVars, systemVars
<1>9. ASSUME NEW pl \in Places, AcquirePlace(pl) \/ ReleasePlace(pl)
      PROVE  lastBy' \in {q, NoHolder}
  BY <1>9 DEF AcquirePlace, ReleasePlace, systemVars
<1>10. CASE DaemonUp \/ StrayRestarts
  BY <1>10 DEF DaemonUp, StrayRestarts
<1>11. ASSUME NEW r \in Restarters, SystemdRestarts(r)
       PROVE  lastBy' \in {q, NoHolder}
  <2>1. q = r
    BY <1>11, RestartIsAlone DEF SystemdRestarts
  <2> QED
    BY <1>11, <2>1 DEF SystemdRestarts
<1>12. ASSUME NEW r \in Restarters, Systemctl(r)
       PROVE  lastBy' \in {q, NoHolder}
  BY <1>12 DEF Systemctl
<1>13. ASSUME NEW r \in Restarters, SystemctlTimesOut(r)
       PROVE  lastBy' \in {q, NoHolder}
  BY <1>13 DEF SystemctlTimesOut, JobsAreAwaited
<1> QED
  BY <1>1, <1>2, <1>3, <1>4, <1>5, <1>6, <1>7, <1>8, <1>9, <1>10, <1>11, <1>12, <1>13
     DEF CtlNext, CtlAdvance

LEMMA CtlInvariant == CtlSpec => []CtlInv
<1>1. CtlInit => CtlInv
  <2> SUFFICES ASSUME CtlInit PROVE CtlInv
    OBVIOUS
  <2>1. DomainInv
    BY DomainInvInit DEF CtlInit
  <2>2. CtlTypeOK
    <3>1. stray \in BOOLEAN
      BY DEF CtlInit
    <3> QED
      BY <3>1, OutcomeTypes, MaxProbesNat DEF CtlInit, CtlTypeOK, CtlLabels
  <2>3. CtlMatchesDomain /\ JobsAreAwaited
    BY RestartersAreHandles DEF CtlInit, Init, CtlMatchesDomain, JobsAreAwaited, NoOutcome
  <2>4. RestartOnlyOnClearCheck /\ AnswerIsOfOwnRestart
    BY DEF CtlInit, RestartOnlyOnClearCheck, AnswerIsOfOwnRestart, Checked
  <2> QED
    BY <2>1, <2>2, <2>3, <2>4 DEF CtlInv
<1>2. CtlInv /\ [CtlNext]_vars => CtlInv'
  <2>1. ASSUME CtlInv, CtlNext
        PROVE  CtlInv'
    <3>1. DomainInv'
      BY <2>1, CtlStepIsDomainStep, DomainInvStep DEF CtlInv
    <3>2. CtlTypeOK' /\ CtlMatchesDomain' /\ JobsAreAwaited'
      BY <2>1, CtlTypeStep, MatchStep, JobStep DEF CtlInv, DomainInv
    <3>3. RestartOnlyOnClearCheck' /\ AnswerIsOfOwnRestart'
      BY <2>1, ClearCheckStep, OwnRestartStep DEF CtlInv
    <3> QED
      BY <3>1, <3>2, <3>3 DEF CtlInv
  <2>2. ASSUME CtlInv, UNCHANGED vars
        PROVE  CtlInv'
    <3>1. DomainInv'
      BY <2>2, DomainInvStep DEF CtlInv, vars
    <3>2. CtlTypeOK'
      BY <2>2 DEF CtlInv, vars, ctlVars, systemVars, CtlTypeOK
    <3>3. CtlMatchesDomain' /\ JobsAreAwaited'
      BY <2>2 DEF CtlInv, vars, ctlVars, systemVars, domainVars, CtlMatchesDomain, JobsAreAwaited
    <3>4. RestartOnlyOnClearCheck' /\ AnswerIsOfOwnRestart'
      BY <2>2 DEF CtlInv, vars, ctlVars, systemVars, RestartOnlyOnClearCheck, Checked,
         ForeignHeld, AnswerIsOfOwnRestart
    <3> QED
      BY <3>1, <3>2, <3>3, <3>4 DEF CtlInv
  <2> QED
    BY <2>1, <2>2
<1> QED
  BY <1>1, <1>2, PTL DEF CtlSpec

-----------------------------------------------------------------------------
\* systemd restarts pcscd for a run that waits for it only while no other session or
\* disturbance is in its protected region, and none comes in until the run's wait for
\* PC/SC is over.  A restart whose run has timed out or died is not covered.
THEOREM RestartsSpareReaders == CtlSpec => RestartSparesReaders
<1>1. ASSUME CtlInv, [CtlNext]_vars, NEW r \in Restarters, SystemdRestarts(r) \/ Disturbing(r)
      PROVE  Alone(r)
  <2>1. ctl[r] \in {"restart", "systemctl", "probe"}
    BY <1>1 DEF Disturbing, SystemdRestarts, CtlInv, JobsAreAwaited
  <2> QED
    BY <1>1, <2>1, PastCheckAlone DEF Alone, CtlInv
<1>2. CtlInv /\ [CtlNext]_vars =>
        [\A r \in Restarters : SystemdRestarts(r) \/ Disturbing(r) => Alone(r)]_vars
  BY <1>1
<1> QED
  BY CtlInvariant, <1>2, PTL DEF CtlSpec, RestartSparesReaders

\* Until systemctl is through, every foreign place held is one labgrid did not show
\* the run at its check under the lock.
THEOREM ClearCheckBeforeRestart == CtlSpec => []RestartOnlyOnClearCheck
<1>1. CtlInv => RestartOnlyOnClearCheck
  BY DEF CtlInv
<1> QED
  BY CtlInvariant, <1>1, PTL

\* Between a run's restart and its unlock, pcscd is restarted for no other run that
\* is still there; a restart left behind by one that is not may come in between.
THEOREM OwnRestartAnswered == CtlSpec => []AnswerIsOfOwnRestart
<1>1. CtlInv => AnswerIsOfOwnRestart
  BY DEF CtlInv
<1> QED
  BY CtlInvariant, <1>1, PTL

\* A finished run holds nothing, whichever way restart() was left.
THEOREM FinishedRunsAreClean == CtlSpec => []FinishedRunsHoldNothing
<1>1. CtlInv => FinishedRunsHoldNothing
  <2> SUFFICES ASSUME CtlInv, NEW r \in Restarters, ctl[r] = "off"
               PROVE  flock[r] = "none" /\ pc[r] = "idle"
    BY DEF FinishedRunsHoldNothing
  <2>1. pc[r] = "idle"
    BY DEF CtlInv, CtlMatchesDomain
  <2> QED
    BY <2>1, RestartersAreHandles DEF CtlInv, DomainInv, FlockMatchesCode, Locked
<1> QED
  BY CtlInvariant, <1>1, PTL

\* The restarts leave the domain lock's promise to every other user intact.
THEOREM CtlImplementsDomain == CtlSpec => ImplementsDomain
BY CtlRefinesLock, Implements, PTL

\* The state of restart(), of labgrid and of the daemon stays well-typed.
THEOREM CtlTypeCorrect == CtlSpec => []CtlTypeOK
<1>1. CtlInv => CtlTypeOK
  BY DEF CtlInv
<1> QED
  BY CtlInvariant, <1>1, PTL

\* The kernel and the code agree on who has which flock, through every failed
\* poll, deadline and death.
THEOREM FlockAgrees == Spec => []FlockMatchesCode
<1>1. DomainInv => FlockMatchesCode
  BY DEF DomainInv
<1> QED
  BY DomainInvariant, <1>1, PTL
=============================================================================
