------------------------------ MODULE PcscdCtl ------------------------------
(***************************************************************************)
(* pcscd_ctl.py: coordinated pcscd restarts.  Some disturbances of the     *)
(* pcscd domain (Restarters) are runs of `pcscd-ctl restart`: they consult *)
(* labgrid's place holders before and after taking the domain lock, call   *)
(* systemctl, wait for PC/SC to answer and turn the outcome into an exit   *)
(* code.  The other handles use the domain lock alone.                     *)
(*                                                                         *)
(* systemctl only asks systemd for a restart and waits.  The restart is    *)
(* systemd's: a run that stops waiting, by its time-out or by dying, leaves*)
(* it behind (stray), and with it drops the lock.                          *)
(*                                                                         *)
(* Names of projects and places are sets of tokens (Tokens); labgrid and   *)
(* the daemon are the environment.  MaxProbes bounds the probes that fit   *)
(* in stable_timeout_s.                                                    *)
(***************************************************************************)
EXTENDS PcscdDomain

CONSTANTS
    Restarters,  \* the disturbances that are pcscd-ctl runs
    Places,      \* labgrid places
    Tokens,      \* the lane tokens of each restarter's project and each place
    Reachable,   \* what the coordinator may answer with: SUBSET BOOLEAN
    MaxProbes

ASSUME RestartersDisturb == Restarters \subseteq Disturbers
ASSUME MaxProbesNat == MaxProbes \in Nat
ASSUME ReachableAnswers == Reachable \in SUBSET BOOLEAN

VARIABLES
    ctl,      \* where each run of restart() is
    probes,   \* probes left before the stability deadline
    outcome,  \* systemctl_rc and stable, once restart() has a result
    held,     \* labgrid places currently acquired
    unseen,   \* history: held places a run's late check did not report
    job,      \* what has become of the restart a run waits for
    stray,    \* a restart that nobody waits for any more is still to come
    daemon,   \* pcscd: "up" answers PC/SC, "starting" will, "down" does not
    lastBy    \* history: the run the last restart was for, if it is not over

systemVars == <<job, stray, daemon, lastBy>>
ctlVars == <<ctl, probes, outcome, held, unseen, systemVars>>
vars == <<domainVars, ctlVars>>

Outcomes == [rc : {"none", "-1", "0", "1"}, stable : BOOLEAN]
NoOutcome == [rc |-> "none", stable |-> FALSE]
Denied == [rc |-> "-1", stable |-> FALSE]

CtlLabels == {"off", "acquire", "restart", "systemctl", "probe", "leave", "denied"}

CtlTypeOK ==
    /\ ctl \in [Restarters -> CtlLabels]
    /\ probes \in [Restarters -> 0..MaxProbes]
    /\ outcome \in [Restarters -> Outcomes]
    /\ held \in SUBSET Places
    /\ unseen \in [Restarters -> SUBSET Places]
    /\ job \in [Restarters -> {"none", "queued", "done", "failed"}]
    /\ stray \in BOOLEAN
    /\ daemon \in {"up", "starting", "down"}
    /\ lastBy \in Restarters \cup {NoHolder}

CtlInit ==
    /\ Init
    /\ ctl = [r \in Restarters |-> "off"]
    /\ probes = [r \in Restarters |-> 0]
    /\ outcome = [r \in Restarters |-> NoOutcome]
    /\ held = {}
    /\ unseen = [r \in Restarters |-> {}]
    /\ job = [r \in Restarters |-> "none"]
    /\ stray = FALSE
    /\ daemon = "up"
    /\ lastBy = NoHolder

-----------------------------------------------------------------------------
SharesLaneToken(r, place) == Tokens[r] \cap Tokens[place] # {}

ForeignHeld(r) == {pl \in held : ~SharesLaneToken(r, pl)}

\* An unreachable coordinator counts as "no holders".
LabgridOtherHolders(r, reachable) == IF reachable THEN ForeignHeld(r) ELSE {}

GoCtl(r, label) == ctl' = [ctl EXCEPT ![r] = label]

\* The history forgets a run that is over.
ForgetRun(r) == IF lastBy = r THEN NoHolder ELSE lastBy

\* restart(): the snapshot before the lock, then either a denial or _acquire.
Start(r, timeout) ==
    /\ ctl[r] = "off"
    /\ \E reachable \in Reachable :
        \/ /\ LabgridOtherHolders(r, reachable) # {}
           /\ outcome' = [outcome EXCEPT ![r] = Denied]
           /\ GoCtl(r, "denied")
           /\ UNCHANGED domainVars
        \/ /\ LabgridOtherHolders(r, reachable) = {}
           /\ Open(r, timeout)
           /\ GoCtl(r, "acquire")
           /\ UNCHANGED outcome
    /\ UNCHANGED <<probes, held, unseen, systemVars>>

\* The steps of _acquire that leave restart() where it is.
Acquiring(r) ==
    /\ ctl[r] = "acquire"
    /\ \/ Grant(r) \/ Wait(r) \/ GiveUp(r)
       \/ Truncate(r) \/ WriteHolder(r) \/ LogAcquired(r)
    /\ UNCHANGED ctlVars

\* Contention is caught and the restart goes ahead without the lock.
ContentionIgnored(r) ==
    /\ ctl[r] = "acquire"
    /\ Blame(r)
    /\ GoCtl(r, "restart")
    /\ UNCHANGED <<probes, outcome, held, unseen, systemVars>>

\* PcscdDomainHeldError reaches main: exit 3.
Contention(r) ==
    /\ ctl[r] = "acquire"
    /\ Blame(r)
    /\ GoCtl(r, "off")
    /\ UNCHANGED <<probes, outcome, held, unseen, systemVars>>

\* The check before the lock is taken to be enough.
LateCheckTrusted(r) ==
    /\ ctl[r] = "acquire"
    /\ pc[r] = "held"
    /\ GoCtl(r, "restart")
    /\ UNCHANGED <<domainVars, probes, outcome, held, unseen, systemVars>>

\* The revalidation under the lock: release without restarting, or go on.
LateCheck(r) ==
    /\ ctl[r] = "acquire"
    /\ pc[r] = "held"
    /\ \E reachable \in Reachable :
        \/ /\ LabgridOtherHolders(r, reachable) # {}
           /\ outcome' = [outcome EXCEPT ![r] = Denied]
           /\ GoCtl(r, "leave")
           /\ UNCHANGED unseen
        \/ /\ LabgridOtherHolders(r, reachable) = {}
           /\ unseen' = [unseen EXCEPT ![r] = ForeignHeld(r)]
           /\ GoCtl(r, "restart")
           /\ UNCHANGED outcome
    /\ UNCHANGED <<domainVars, probes, held, systemVars>>

\* systemctl restart pcscd: systemd takes the job or refuses it.
Systemctl(r) ==
    /\ ctl[r] = "restart"
    /\ \E answer \in {"queued", "failed"} : job' = [job EXCEPT ![r] = answer]
    /\ GoCtl(r, "systemctl")
    /\ UNCHANGED <<domainVars, probes, outcome, held, unseen, stray, daemon, lastBy>>

\* systemd stops pcscd and starts it, which may fail.
SystemdRestarts(r) ==
    /\ job[r] = "queued"
    /\ \/ job' = [job EXCEPT ![r] = "done"] /\ daemon' = "starting"
       \/ job' = [job EXCEPT ![r] = "failed"] /\ daemon' = "down"
    /\ lastBy' = r
    /\ UNCHANGED <<domainVars, ctl, probes, outcome, held, unseen, stray>>

\* systemd gets to a restart that was left behind.
StrayRestarts ==
    /\ stray
    /\ stray' = FALSE
    /\ daemon' \in {"starting", "down"}
    /\ lastBy' = NoHolder
    /\ UNCHANGED <<domainVars, ctl, probes, outcome, held, unseen, job>>

\* systemctl comes back with what became of its job, and the wait for PC/SC begins.
SystemctlReturns(r) ==
    /\ ctl[r] = "systemctl" /\ job[r] \in {"done", "failed"}
    /\ outcome' = [outcome EXCEPT ![r] =
            [rc |-> IF job[r] = "done" THEN "0" ELSE "1", stable |-> FALSE]]
    /\ job' = [job EXCEPT ![r] = "none"]
    /\ probes' = [probes EXCEPT ![r] = MaxProbes]
    /\ unseen' = [unseen EXCEPT ![r] = {}]
    /\ GoCtl(r, "probe")
    /\ UNCHANGED <<domainVars, held, stray, daemon, lastBy>>

\* A run that no longer waits for its restart leaves it to systemd.
Abandon(r) ==
    /\ job' = [job EXCEPT ![r] = "none"]
    /\ stray' = (stray \/ job[r] = "queued")
    /\ unseen' = [unseen EXCEPT ![r] = {}]

\* subprocess.run kills systemctl after its time-out, not the job, and raises; the
\* exception leaves through the finally clause.
SystemctlTimesOut(r) ==
    /\ ctl[r] = "systemctl"
    /\ Abandon(r)
    /\ GoCtl(r, "leave")
    /\ UNCHANGED <<domainVars, probes, outcome, held, daemon, lastBy>>

\* One round of the wait: PC/SC answers, does not, or the probe itself raises.
Probe(r) ==
    /\ ctl[r] = "probe"
    /\ probes[r] > 0
    /\ \/ /\ daemon = "up"
          /\ outcome' = [outcome EXCEPT ![r] = [rc |-> @.rc, stable |-> TRUE]]
          /\ probes' = [probes EXCEPT ![r] = 0]
          /\ GoCtl(r, "leave")
       \/ /\ daemon # "up"
          /\ probes' = [probes EXCEPT ![r] = @ - 1]
          /\ UNCHANGED <<ctl, outcome>>
       \/ /\ outcome' = [outcome EXCEPT ![r] = NoOutcome]
          /\ probes' = [probes EXCEPT ![r] = 0]
          /\ GoCtl(r, "leave")
    /\ UNCHANGED <<domainVars, held, unseen, systemVars>>

\* The deadline passes with PC/SC silent.
ProbesExhausted(r) ==
    /\ ctl[r] = "probe"
    /\ probes[r] = 0
    /\ GoCtl(r, "leave")
    /\ UNCHANGED <<domainVars, probes, outcome, held, unseen, systemVars>>

\* finally: lock.release(), its journal line first.
Leave(r) ==
    /\ ctl[r] = "leave"
    /\ LogReleased(r)
    /\ UNCHANGED ctlVars

\* main prints the result and turns it into an exit code, once the lock is gone.
Exit(r) ==
    /\ \/ ctl[r] = "leave" /\ Unlock(r)
       \/ ctl[r] = "denied" /\ UNCHANGED domainVars
    /\ GoCtl(r, "off")
    /\ outcome' = [outcome EXCEPT ![r] = NoOutcome]
    /\ lastBy' = ForgetRun(r)
    /\ UNCHANGED <<probes, held, unseen, job, stray, daemon>>

\* A run of pcscd-ctl dies; its systemctl and the job live on.
CtlCrash(r) ==
    /\ ctl[r] # "off"
    /\ \/ Crash(r)
       \/ pc[r] = "idle" /\ UNCHANGED domainVars
    /\ GoCtl(r, "off")
    /\ probes' = [probes EXCEPT ![r] = 0]
    /\ outcome' = [outcome EXCEPT ![r] = NoOutcome]
    /\ Abandon(r)
    /\ lastBy' = ForgetRun(r)
    /\ UNCHANGED <<held, daemon>>

CtlAdvance(r) ==
    \/ Acquiring(r) \/ Contention(r) \/ LateCheck(r) \/ Systemctl(r)
    \/ SystemctlReturns(r) \/ SystemctlTimesOut(r) \/ Probe(r) \/ ProbesExhausted(r) \/ Leave(r) \/ Exit(r)

\* Every other user of the domain lock.
OtherHandle(p) ==
    /\ \/ \E timeout \in 0..MaxPolls : Open(p, timeout)
       \/ Advance(p)
       \/ LogReleased(p)
       \/ Crash(p)
    /\ UNCHANGED ctlVars

\* A run has found nobody in its way, and its restart is still to come.
Checked(r) == ctl[r] \in {"restart", "systemctl"}

\* labgrid-client acquire / release, by any lane, under no lock of the bench's.
AcquirePlace(pl) ==
    /\ pl \notin held
    /\ held' = held \cup {pl}
    /\ unseen' = [r \in Restarters |->
            IF Checked(r) /\ ~SharesLaneToken(r, pl)
            THEN unseen[r] \cup {pl} ELSE unseen[r]]
    /\ UNCHANGED <<domainVars, ctl, probes, outcome, systemVars>>

ReleasePlace(pl) ==
    /\ pl \in held
    /\ held' = held \ {pl}
    /\ unseen' = [r \in Restarters |-> unseen[r] \ {pl}]
    /\ UNCHANGED <<domainVars, ctl, probes, outcome, systemVars>>

DaemonUp ==
    /\ daemon = "starting"
    /\ daemon' = "up"
    /\ UNCHANGED <<domainVars, ctl, probes, outcome, held, unseen, job, stray, lastBy>>

CtlNext ==
    \/ \E r \in Restarters :
        \/ \E timeout \in 0..MaxPolls : Start(r, timeout)
        \/ CtlAdvance(r)
        \/ CtlCrash(r)
        \/ SystemdRestarts(r)
    \/ StrayRestarts
    \/ \E p \in Handles \ Restarters : OtherHandle(p)
    \/ \E pl \in Places : AcquirePlace(pl) \/ ReleasePlace(pl)
    \/ DaemonUp

CtlSpec == CtlInit /\ [][CtlNext]_vars

\* Running processes keep executing: a pcscd-ctl run is never idle, another
\* handle is only while its session lasts.
CtlFairSpec ==
    /\ CtlSpec
    /\ \A r \in Restarters : WF_vars(CtlAdvance(r))
    /\ \A p \in Handles \ Restarters : WF_vars(Advance(p) /\ UNCHANGED ctlVars)

-----------------------------------------------------------------------------
Disturbing(r) == ctl[r] \in {"restart", "systemctl", "probe"}

Alone(r) == \A q \in Handles \ {r} : ~Inside(q)

\* systemd restarts pcscd for a run that waits for it only while no reader session
\* and no other disturbance is in its protected region, and none comes in until PC/SC
\* answers or the deadline passes.  Nothing is promised of a restart whose run has timed
\* out or died: the lock is gone, and it aborts the exchange of whoever has taken it.
RestartSparesReaders ==
    [][\A r \in Restarters : SystemdRestarts(r) \/ Disturbing(r) => Alone(r)]_vars

\* Every foreign place held until systemctl is through was acquired after this run's
\* check under the lock, or while labgrid did not answer: the wait for the lock
\* hides no holder.
RestartOnlyOnClearCheck ==
    \A r \in Restarters : Checked(r) => ForeignHeld(r) \subseteq unseen[r]

\* Whatever path restart() leaves by - a denial, contention, a failed or timed
\* out systemctl, a probe that raises - a finished run holds no domain lock, so
\* the next session is not shut out.
FinishedRunsHoldNothing ==
    \A r \in Restarters : ctl[r] = "off" => flock[r] = "none" /\ pc[r] = "idle"

\* The answer a run waits for, and the exit 0 it turns it into, are about its
\* own restart: from then on until it unlocks, pcscd is restarted for no other run
\* that is still there.  A restart left behind may come in between.
AnswerIsOfOwnRestart ==
    \A r \in Restarters :
        (ctl[r] \in {"probe", "leave"} /\ outcome[r].rc = "0") => lastBy \in {r, NoHolder}

\* Every run of pcscd-ctl comes back, however the readers behave.
RestartReturns ==
    \A r \in Restarters : ctl[r] # "off" ~> ctl[r] = "off"
=============================================================================
