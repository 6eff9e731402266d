------------------------------- MODULE BenchRun -------------------------------
(***************************************************************************)
(* A harness run as the bench rules have it: the bench flock first         *)
(* (hardware/bench_lock.py), then the disk hygiene before any build        *)
(* (disk_hygiene.py), then the legacy hardware.lock (hardware/lock.py);    *)
(* next to it the people who use the same files under no bench lock: `make *)
(* lock`, a `with HardwareLock()` block (hardware/__init__.py), the hygiene*)
(* command, a build elsewhere on the host.                                 *)
(*                                                                         *)
(* hardware.lock is a plain file, read, judged and replaced in separate    *)
(* steps; its age is counted in ticks, Stale of them being the hour after  *)
(* which it counts for nothing.  A process is one use, dead for good once  *)
(* it has died.                                                            *)
(***************************************************************************)
EXTENDS Naturals

CONSTANTS
    Runs,       \* harness runs, which take the bench lock first
    Outsiders,  \* everybody who works without it
    Users, User,
    Elsewhere,  \* the builds of nobody here
    MaxPolls, Stale,
    NoOne, NoLock,
    Patient     \* runs that never die and are started again when refused

Procs == Runs \cup Outsiders

ASSUME RolesDisjoint == Runs \cap Outsiders = {}
ASSUME UserOfProcs == User \in [Procs -> Users]
ASSUME BoundsNat == MaxPolls \in Nat /\ Stale \in Nat
ASSUME NoOneFresh == NoOne \notin Procs /\ Elsewhere \notin Procs
ASSUME PatientRuns == Patient \subseteq Runs

VARIABLES
    flock,    \* who has the kernel's lock on the bench file
    text,     \* whom the bench file names
    pc,       \* where each process is
    polls,    \* attempts left to a run that polls for the bench
    hw,       \* hardware.lock
    refuser,  \* whose hardware.lock a run was last refused for
    low,      \* less than min_free_gb is free
    debug,    \* the shared cargo target has its debug tree
    tmp,      \* the /tmp/opencode directory of some session
    builds,   \* whose cargo processes are alive
    damaged,  \* history: live runs whose tree another run removed under a build
    meddled   \* history: runs whose hardware.lock an outsider changed

benchVars == <<flock, text, polls>>
lockVars == <<hw, refuser, meddled>>
diskVars == <<low, debug, tmp, builds, damaged>>
vars == <<pc, benchVars, lockVars, diskVars>>

Entry == [user : Users, by : Procs, age : 0..(Stale + 1)]

ASSUME NoLockFresh == NoLock \notin Entry

Hygiene == {"headroom", "debug", "rmtree", "opencode", "rmtmp"}
Legacy == {"read", "replace", "hold", "unlink"}
Labels == Hygiene \cup Legacy \cup
    {"idle", "poll", "blame", "truncate", "write", "unlock", "block", "dead"}

TypeOK ==
    /\ flock \in Runs \cup {NoOne}
    /\ text \in Runs \cup {NoOne}
    /\ pc \in [Procs -> Labels]
    /\ polls \in [Runs -> 0..MaxPolls]
    /\ hw \in Entry \cup {NoLock}
    /\ refuser \in [Runs -> Procs \cup {NoOne}]
    /\ low \in BOOLEAN
    /\ debug \in BOOLEAN
    /\ tmp \in {"absent", "fresh", "stale"}
    /\ builds \subseteq Runs \cup {Elsewhere}
    /\ damaged \subseteq Runs
    /\ meddled \subseteq Runs

Init ==
    /\ flock = NoOne
    /\ text = NoOne
    /\ pc = [p \in Procs |-> "idle"]
    /\ polls = [r \in Runs |-> 0]
    /\ hw = NoLock
    /\ refuser = [r \in Runs |-> NoOne]
    /\ low \in BOOLEAN
    /\ debug \in BOOLEAN
    /\ tmp \in {"absent", "fresh", "stale"}
    /\ builds = {}
    /\ damaged = {}
    /\ meddled = {}

-----------------------------------------------------------------------------
Goto(p, label) == pc' = [pc EXCEPT ![p] = label]

\* Where hygiene, and the refusal or the removal of hardware.lock, lead to:
\* a run goes on, or lets go of the bench; an outsider is done.
AfterHygiene(p) == IF p \in Runs THEN "read" ELSE "idle"
AfterLegacy(p) == IF p \in Runs THEN "unlock" ELSE "idle"

(* ------------------------- hardware/bench_lock.py ----------------------- *)

\* acquire_bench_lock: open and create; timeout_s allows some polls or none.
Open(r) ==
    /\ pc[r] = "idle"
    /\ \E n \in 0..MaxPolls : polls' = [polls EXCEPT ![r] = n]
    /\ refuser' = [refuser EXCEPT ![r] = NoOne]
    /\ Goto(r, "poll")
    /\ UNCHANGED <<flock, text, hw, meddled, diskVars>>

\* LOCK_SH in the place of LOCK_EX.
GrantShared(r) ==
    /\ pc[r] = "poll"
    /\ flock' = r
    /\ Goto(r, "truncate")
    /\ UNCHANGED <<text, polls, lockVars, diskVars>>

\* flock(LOCK_EX | LOCK_NB) succeeds.
Grant(r) ==
    /\ pc[r] = "poll" /\ flock = NoOne
    /\ flock' = r
    /\ Goto(r, "truncate")
    /\ UNCHANGED <<text, polls, lockVars, diskVars>>

\* BlockingIOError before the deadline: sleep and try again.
Wait(r) ==
    /\ pc[r] = "poll" /\ flock # NoOne /\ polls[r] > 0
    /\ polls' = [polls EXCEPT ![r] = @ - 1]
    /\ UNCHANGED <<flock, text, pc, lockVars, diskVars>>

\* The deadline only ends the loop: no exception is raised.
GiveUpAnyway(r) ==
    /\ pc[r] = "poll" /\ flock # NoOne /\ polls[r] = 0
    /\ Goto(r, "truncate")
    /\ UNCHANGED <<benchVars, lockVars, diskVars>>

\* BlockingIOError at the deadline: the descriptor is closed.
GiveUp(r) ==
    /\ pc[r] = "poll" /\ flock # NoOne /\ polls[r] = 0
    /\ Goto(r, "blame")
    /\ UNCHANGED <<benchVars, lockVars, diskVars>>

\* BenchLockHeldError with whomever the file names by now.
Blame(r) ==
    /\ pc[r] = "blame"
    /\ Goto(r, "idle")
    /\ UNCHANGED <<benchVars, lockVars, diskVars>>

\* os.ftruncate, after `git branch` has been asked.
Truncate(r) ==
    /\ pc[r] = "truncate"
    /\ text' = NoOne
    /\ Goto(r, "write")
    /\ UNCHANGED <<flock, polls, lockVars, diskVars>>

\* os.write of the holder, one call; the caller has its BenchLock.
WriteHolder(r) ==
    /\ pc[r] = "write"
    /\ text' = r
    /\ Goto(r, "headroom")
    /\ UNCHANGED <<flock, polls, lockVars, diskVars>>

\* BenchLock.release, on every way out of the with block; the text stays.
Unlock(r) ==
    /\ pc[r] = "unlock"
    /\ flock' = NoOne
    /\ polls' = [polls EXCEPT ![r] = 0]
    /\ Goto(r, "idle")
    /\ UNCHANGED <<text, lockVars, diskVars>>

(* --------------------------- disk_hygiene.py ---------------------------- *)

\* main(): the command, by somebody without the bench lock; --force goes for
\* the debug tree without asking for builds.
Clean(o) ==
    /\ pc[o] = "idle"
    /\ \E label \in {"headroom"} \cup IF debug THEN {"rmtree"} ELSE {} : Goto(o, label)
    /\ UNCHANGED <<benchVars, lockVars, diskVars>>

\* ensure_run_headroom: nothing to do with headroom.
Headroom(p) ==
    /\ pc[p] = "headroom"
    /\ Goto(p, IF low THEN "debug" ELSE AfterHygiene(p))
    /\ UNCHANGED <<benchVars, lockVars, diskVars>>

\* build_processes_running: pgrep takes one pattern and is given four, so that
\* it fails (rc=2) whether or not a build is alive, and that counts as no
\* build; only a pgrep that cannot be run, or hangs, counts as one.
BuildAnswers == {TRUE, FALSE}

\* prune_cargo_debug, its decision.  A skip counts as an action: the free
\* space is read again; with no tree there is no action and no such reading.
PruneDebug(p) ==
    /\ pc[p] = "debug"
    /\ IF ~debug
       THEN Goto(p, "opencode")
       ELSE \E running \in BuildAnswers :
              Goto(p, IF ~running THEN "rmtree"
                      ELSE IF low THEN "opencode" ELSE AfterHygiene(p))
    /\ UNCHANGED <<benchVars, lockVars, diskVars>>

\* What removing something may do to the free space.
Freed == low' \in {low, FALSE}

\* prune_cargo_debug, rmtree: whoever builds there loses files under the build.
RemoveDebug(p) ==
    /\ pc[p] = "rmtree"
    /\ Freed
    /\ debug' = FALSE
    /\ damaged' = damaged \cup
         {q \in builds \cap Runs : p \in Runs /\ pc[q] = "hold"}
    /\ Goto(p, IF low' THEN "opencode" ELSE AfterHygiene(p))
    /\ UNCHANGED <<tmp, builds, benchVars, lockVars>>

\* prune_tmp_opencode: the newest file's age decides ...
LookAtTmp(p) ==
    /\ pc[p] = "opencode"
    /\ Goto(p, IF tmp = "stale" THEN "rmtmp" ELSE AfterHygiene(p))
    /\ UNCHANGED <<benchVars, lockVars, diskVars>>

\* ... and the directory goes, whatever was written to it since.
RemoveTmp(p) ==
    /\ pc[p] = "rmtmp"
    /\ Freed
    /\ tmp' = "absent"
    /\ Goto(p, AfterHygiene(p))
    /\ UNCHANGED <<debug, builds, damaged, benchVars, lockVars>>

HygieneStep(p) ==
    Headroom(p) \/ PruneDebug(p) \/ RemoveDebug(p) \/ LookAtTmp(p) \/ RemoveTmp(p)

(* ------------------- hardware/lock.py, hardware/__init__.py ------------- *)

\* `make lock`: acquire_hardware_lock by somebody without the bench lock.
Lock(o) ==
    /\ pc[o] = "idle"
    /\ Goto(o, "read")
    /\ UNCHANGED <<benchVars, lockVars, diskVars>>

\* A lock that never grows stale.
BlocksForEver(e, p) == e # NoLock /\ e.user # User[p]

\* The lock of another user, less than the threshold old.
Blocks(e, p) == e # NoLock /\ e.user # User[p] /\ e.age <= Stale

\* acquire_hardware_lock reads and judges; a run that is refused leaves its
\* with block by the RuntimeError.
ReadLock(p) ==
    /\ pc[p] = "read"
    /\ IF Blocks(hw, p)
       THEN /\ Goto(p, AfterLegacy(p))
            /\ refuser' = IF p \in Runs THEN [refuser EXCEPT ![p] = hw.by] ELSE refuser
       ELSE Goto(p, "replace") /\ UNCHANGED refuser
    /\ UNCHANGED <<hw, meddled, benchVars, diskVars>>

\* The runs that have their hardware.lock.
Holding == {r \in Runs : pc[r] \in {"hold", "unlink"}}

\* acquire_hardware_lock: os.replace, whatever has come to be there.
Replace(p) ==
    /\ pc[p] = "replace"
    /\ hw' = [user |-> User[p], by |-> p, age |-> 0]
    /\ meddled' = IF p \in Runs THEN meddled \ {p} ELSE meddled \cup Holding
    /\ Goto(p, "hold")
    /\ UNCHANGED <<refuser, benchVars, diskVars>>

\* HardwareLock.__enter__: require_hardware_lock, whose refusal acquire()
\* turns into a False that nobody looks at.
EnterBlock(o) ==
    /\ pc[o] = "idle"
    /\ Goto(o, "block")
    /\ UNCHANGED <<benchVars, lockVars, diskVars>>

\* The run or the person forgets release_hardware_lock.
FinishForgetting(p) ==
    /\ pc[p] \in {"hold", "block"}
    /\ p \notin builds
    /\ Goto(p, AfterLegacy(p))
    /\ UNCHANGED <<benchVars, lockVars, diskVars>>

\* The work is over; a build has been waited for.
Finish(p) ==
    /\ pc[p] \in {"hold", "block"}
    /\ p \notin builds
    /\ Goto(p, "unlink")
    /\ UNCHANGED <<benchVars, lockVars, diskVars>>

\* release_hardware_lock: unlink, whosever the file is.
Unlink(p) ==
    /\ pc[p] = "unlink"
    /\ hw' = NoLock
    /\ meddled' = IF p \in Runs THEN meddled ELSE meddled \cup Holding
    /\ Goto(p, AfterLegacy(p))
    /\ UNCHANGED <<refuser, benchVars, diskVars>>

(* ------------------------------ surroundings ---------------------------- *)

\* A build by a run that has its locks, or by anybody elsewhere.
StartBuild(b) ==
    /\ b \notin builds
    /\ b \in Runs => pc[b] = "hold"
    /\ builds' = builds \cup {b}
    /\ debug' = TRUE
    /\ UNCHANGED <<pc, low, tmp, damaged, benchVars, lockVars>>

FinishBuild(b) ==
    /\ b \in builds
    /\ builds' = builds \ {b}
    /\ UNCHANGED <<pc, low, debug, tmp, damaged, benchVars, lockVars>>

\* The disk fills up; a session writes to its directory, or has not for days.
Fill ==
    /\ ~low
    /\ low' = TRUE
    /\ UNCHANGED <<pc, debug, tmp, builds, damaged, benchVars, lockVars>>

TouchTmp ==
    /\ tmp' \in {"fresh", "stale"} \ {tmp}
    /\ tmp' = "stale" => tmp = "fresh"
    /\ UNCHANGED <<pc, low, debug, builds, damaged, benchVars, lockVars>>

\* The process dies: the kernel drops its flock, hardware.lock stays, and a
\* cargo it has started may live on.
Crash(p) ==
    /\ p \notin Patient
    /\ pc[p] # "dead"
    /\ Goto(p, "dead")
    /\ flock' = IF flock = p THEN NoOne ELSE flock
    /\ builds' \in {builds, builds \ {p}}
    /\ UNCHANGED <<text, polls, low, debug, tmp, damaged, lockVars>>

Tick ==
    /\ hw # NoLock /\ hw.age <= Stale
    /\ hw' = [hw EXCEPT !.age = @ + 1]
    /\ UNCHANGED <<pc, refuser, meddled, benchVars, diskVars>>

LegacyStep(p) == ReadLock(p) \/ Replace(p) \/ Unlink(p)

Run(r) ==
    \/ Grant(r) \/ Wait(r) \/ GiveUp(r) \/ Blame(r) \/ Truncate(r)
    \/ WriteHolder(r) \/ Unlock(r) \/ HygieneStep(r) \/ LegacyStep(r)

Next ==
    \/ \E r \in Runs : Open(r) \/ Run(r)
    \/ \E o \in Outsiders : Clean(o) \/ Lock(o) \/ EnterBlock(o)
                               \/ HygieneStep(o) \/ LegacyStep(o)
    \/ \E p \in Procs : Finish(p) \/ Crash(p)
    \/ \E b \in Runs \cup {Elsewhere} : StartBuild(b) \/ FinishBuild(b)
    \/ Fill \/ TouchTmp \/ Tick

Spec == Init /\ [][Next]_vars

\* Time passes, what a run does on its own goes on, a patient run is started
\* again and ends some time.
FairSpec ==
    /\ Spec
    /\ WF_vars(Tick)
    /\ \A r \in Patient : WF_vars(Open(r) \/ Run(r))

-----------------------------------------------------------------------------
\* bench_lock.py: past the write, the file names the run that has the bench.
FileNamesHolder ==
    \A r \in Runs : pc[r] \in Hygiene \cup Legacy \cup {"unlock"} => text = r /\ flock = r

\* hardware.lock is read, judged, replaced and unlinked under no lock of its
\* own; the bench lock around it makes that safe among runs.  A run that has
\* replaced it finds its user in it until it unlinks it itself, unless somebody
\* outside the bench rules has changed it.
LockIsOwn ==
    \A r \in Holding \ meddled : hw # NoLock /\ hw.user = User[r]

\* "BenchLock FIRST, then any legacy/project locks": a run that keeps to that
\* order never loses its turn to another one that does and is alive - a refusal
\* is due to an outsider's lock or to the lock of a run that has died.
RunsNeverRefuseRuns ==
    \A r \in Runs : refuser[r] \in Runs => pc[refuser[r]] = "dead"

\* A run's own build keeps its tree: the hygiene of the next run waits for the
\* bench, although the check for builds never sees one.
RunsSpareRuns == damaged = {}

\* The runs that acquire_bench_lock has returned to and that have yet to release.
Benched == {r \in Runs : pc[r] \in Hygiene \cup Legacy \cup {"unlock"}}

Bench == INSTANCE SharedDomain WITH Readers <- {}, Disturbers <- Runs, inside <- Benched

\* The bench is a domain of disturbances alone: whatever becomes of the file, its text
\* and the polls, a run comes in when the one before it has left or died.
ImplementsBench == Bench!Spec

\* The dead keep nobody from the bench: once everybody else has died, a run
\* that is tried again and again gets both locks, whatever was left behind.
DeadBlockNobody ==
    \A r \in Patient :
        (\A p \in Procs \ {r} : pc[p] = "dead") ~> pc[r] = "hold"

\* "NEVER prune while cargo/rustc/ldproxy processes are running": the decision
\* to remove the debug tree is only made when no build is alive.
PrunesOnlyIdle ==
    [][\A p \in Procs : pc[p] = "debug" /\ pc'[p] = "rmtree" => builds = {}]_vars
=============================================================================
