---------------------------- MODULE BenchRunProofs ----------------------------
(***************************************************************************)
(* The bench lock makes hardware.lock and the disk hygiene safe among the  *)
(* runs that take it first, for any number of runs, users and outsiders    *)
(* and any threshold.                                                      *)
(***************************************************************************)
EXTENDS BenchRun, TLAPS

\* Where a run is while the kernel's lock is its own.
Inside == Hygiene \cup Legacy \cup {"truncate", "write", "unlock"}

\* Whoever is inside has the flock, hence is alone; no run enters a
\* HardwareLock block.
InsideInv ==
    \A r \in Runs : /\ pc[r] \in Inside => flock = r
                    /\ pc[r] # "block"

\* A run's hardware.lock on file is that of a run that has yet to remove it, or
\* that has died.
EntryInv == hw # NoLock /\ hw.by \in Runs => pc[hw.by] \in {"hold", "unlink", "dead"}

BenchInv ==
    /\ TypeOK
    /\ InsideInv
    /\ FileNamesHolder
    /\ EntryInv
    /\ LockIsOwn
    /\ RunsNeverRefuseRuns
    /\ RunsSpareRuns

LEMMA TypeStep ==
    ASSUME TypeOK, [Next]_vars
    PROVE  TypeOK'
<1> USE DEF TypeOK, Labels, Hygiene, Legacy, Goto, AfterHygiene, AfterLegacy, Procs,
            benchVars, lockVars, diskVars
<1>1. ASSUME NEW r \in Runs, Open(r)
      PROVE  TypeOK'
  BY <1>1 DEF Open
<1>2. ASSUME NEW r \in Runs,
             Grant(r) \/ GiveUp(r) \/ Blame(r) \/ Truncate(r) \/ WriteHolder(r)
      PROVE  TypeOK'
  BY <1>2 DEF Grant, GiveUp, Blame, Truncate, WriteHolder
<1>3. ASSUME NEW r \in Runs, Wait(r) \/ Unlock(r)
      PROVE  TypeOK'
  BY <1>3, BoundsNat DEF Wait, Unlock
<1>4. ASSUME NEW p \in Procs, HygieneStep(p)
      PROVE  TypeOK'
  BY <1>4 DEF HygieneStep, Headroom, PruneDebug, RemoveDebug, LookAtTmp, RemoveTmp, Freed
<1>5. ASSUME NEW p \in Procs, ReadLock(p)
      PROVE  TypeOK'
  <2>1. CASE Blocks(hw, p)
    <3>1. hw.by \in Procs
      BY <2>1 DEF Blocks, Entry
    <3> QED
      BY <1>5, <2>1, <3>1 DEF ReadLock
  <2>2. CASE ~Blocks(hw, p)
    BY <1>5, <2>2 DEF ReadLock
  <2> QED
    BY <2>1, <2>2
<1>6. ASSUME NEW p \in Procs, Replace(p)
      PROVE  TypeOK'
  <2>1. hw' \in Entry
    <3>1. User[p] \in Users /\ 0 \in 0..(Stale + 1)
      BY UserOfProcs, BoundsNat
    <3> QED
      BY <1>6, <3>1 DEF Replace, Entry
  <2> QED
    BY <1>6, <2>1 DEF Replace, Holding
<1>7. ASSUME NEW p \in Procs, Unlink(p)
      PROVE  TypeOK'
  BY <1>7 DEF Unlink, Holding
<1>8. ASSUME NEW o \in Outsiders, Clean(o) \/ Lock(o) \/ EnterBlock(o)
      PROVE  TypeOK'
  BY <1>8 DEF Clean, Lock, EnterBlock
<1>9. ASSUME NEW p \in Procs, Finish(p)
      PROVE  TypeOK'
  BY <1>9 DEF Finish
<1>10. ASSUME NEW p \in Procs, Crash(p)
       PROVE  TypeOK'
  BY <1>10 DEF Crash
<1>11. CASE \E b \in Runs \cup {Elsewhere} : StartBuild(b) \/ FinishBuild(b)
  BY <1>11 DEF StartBuild, FinishBuild
<1>12. CASE Fill \/ TouchTmp
  BY <1>12 DEF Fill, TouchTmp
<1>13. CASE Tick
  <2>1. hw \in Entry /\ hw.age + 1 \in 0..(Stale + 1)
    BY <1>13, BoundsNat DEF Tick, Entry
  <2>2. hw' \in Entry
    BY <1>13, <2>1 DEF Tick, Entry
  <2> QED
    BY <1>13, <2>2 DEF Tick
<1>14. CASE UNCHANGED vars
  BY <1>14 DEF vars
<1> QED
  BY <1>1, <1>2, <1>3, <1>4, <1>5, <1>6, <1>7, <1>8, <1>9, <1>10, <1>11, <1>12,
     <1>13, <1>14 DEF Next, Run, LegacyStep

\* A step of one process changes where that one is, and nobody else.
LEMMA OthersStay ==
    ASSUME TypeOK, NEW p \in Procs,
           \/ p \in Runs /\ (Open(p) \/ Run(p))
           \/ p \in Outsiders /\ (Clean(p) \/ Lock(p) \/ EnterBlock(p)
                                     \/ HygieneStep(p) \/ LegacyStep(p))
           \/ Finish(p) \/ Crash(p)
    PROVE  /\ \A q \in Procs \ {p} : pc'[q] = pc[q]
           /\ pc' \in [Procs -> Labels]
<1>1. \E label \in Labels : pc' = [pc EXCEPT ![p] = label]
  <2> USE DEF TypeOK, Labels, Hygiene, Legacy, Goto, AfterHygiene, AfterLegacy
  <2>1. CASE p \in Runs /\ (Open(p) \/ Run(p))
    <3>1. CASE Open(p) \/ Grant(p) \/ GiveUp(p) \/ Blame(p) \/ Truncate(p)
                  \/ WriteHolder(p) \/ Unlock(p)
      BY <3>1 DEF Open, Grant, GiveUp, Blame, Truncate, WriteHolder, Unlock
    <3>2. CASE Wait(p)
      <4>1. pc' = [pc EXCEPT ![p] = "poll"]
        BY <3>2 DEF Wait
      <4> QED
        BY <4>1
    <3>3. CASE HygieneStep(p) \/ LegacyStep(p)
      BY <3>3 DEF HygieneStep, Headroom, PruneDebug, RemoveDebug, LookAtTmp, RemoveTmp,
         LegacyStep, ReadLock, Replace, Unlink
    <3> QED
      BY <2>1, <3>1, <3>2, <3>3 DEF Run
  <2>2. CASE p \in Outsiders /\ (Clean(p) \/ Lock(p) \/ EnterBlock(p)
                                    \/ HygieneStep(p) \/ LegacyStep(p))
    BY <2>2 DEF Clean, Lock, EnterBlock, HygieneStep, Headroom, PruneDebug, RemoveDebug,
       LookAtTmp, RemoveTmp, LegacyStep, ReadLock, Replace, Unlink
  <2>3. CASE Finish(p) \/ Crash(p)
    BY <2>3 DEF Finish, Crash
  <2> QED
    BY <2>1, <2>2, <2>3
<1> QED
  BY <1>1 DEF TypeOK

\* What every step keeps of where the runs are and what the bench file names.
Places == InsideInv /\ FileNamesHolder

LEMMA PlacesStep ==
    ASSUME TypeOK, TypeOK', Places, [Next]_vars
    PROVE  Places'
<1> USE DEF Places, InsideInv, FileNamesHolder, Inside, Hygiene, Legacy, Goto, Procs
<1>1. ASSUME NEW r \in Runs, Open(r) \/ Run(r)
      PROVE  Places'
  <2>1. \A q \in Runs \ {r} : pc'[q] = pc[q]
    BY <1>1, OthersStay
  <2>2. pc' \in [Procs -> Labels] /\ pc \in [Procs -> Labels]
    BY DEF TypeOK
  <2>3. CASE Open(r) \/ Wait(r) \/ GiveUp(r) \/ Blame(r)
    BY <2>1, <2>2, <2>3 DEF Open, Wait, GiveUp, Blame, TypeOK, benchVars
  <2>4. CASE Grant(r)
    <3>1. \A q \in Runs : pc[q] \notin Inside
      BY <2>4, NoOneFresh DEF Grant
    <3> QED
      BY <2>1, <2>2, <2>4, <3>1 DEF Grant, TypeOK
  <2>5. CASE Truncate(r) \/ WriteHolder(r) \/ Unlock(r)
    <3>1. \A q \in Runs \ {r} : pc[q] \notin Inside
      BY <2>5 DEF Truncate, WriteHolder, Unlock
    <3> QED
      BY <2>1, <2>2, <2>5, <3>1 DEF Truncate, WriteHolder, Unlock, TypeOK
  <2>6. CASE HygieneStep(r) \/ LegacyStep(r)
    <3>1. UNCHANGED <<flock, text>>
      BY <2>6 DEF HygieneStep, LegacyStep, Headroom, PruneDebug, RemoveDebug, LookAtTmp,
         RemoveTmp, ReadLock, Replace, Unlink, benchVars
    <3>2. pc[r] \in Hygiene \cup Legacy
      BY <2>6 DEF HygieneStep, LegacyStep, Headroom, PruneDebug, RemoveDebug, LookAtTmp,
         RemoveTmp, ReadLock, Replace, Unlink
    <3>3. pc'[r] # "block"
      BY <2>2, <2>6 DEF HygieneStep, LegacyStep, Headroom, PruneDebug, RemoveDebug,
         LookAtTmp, RemoveTmp, ReadLock, Replace, Unlink, AfterHygiene, AfterLegacy
    <3> QED
      BY <2>1, <3>1, <3>2, <3>3
  <2> QED
    BY <1>1, <2>3, <2>4, <2>5, <2>6 DEF Run
<1>2. ASSUME NEW o \in Outsiders, Clean(o) \/ Lock(o) \/ EnterBlock(o)
                                      \/ HygieneStep(o) \/ LegacyStep(o)
      PROVE  Places'
  <2>1. \A q \in Runs : pc'[q] = pc[q]
    BY <1>2, OthersStay, RolesDisjoint
  <2>2. UNCHANGED <<flock, text>>
    BY <1>2 DEF Clean, Lock, EnterBlock, HygieneStep, LegacyStep, Headroom, PruneDebug,
       RemoveDebug, LookAtTmp, RemoveTmp, ReadLock, Replace, Unlink, benchVars
  <2> QED
    BY <2>1, <2>2
<1>3. ASSUME NEW p \in Procs, Finish(p)
      PROVE  Places'
  BY <1>3 DEF Finish, TypeOK, benchVars
<1>4. ASSUME NEW p \in Procs, Crash(p)
      PROVE  Places'
  <2>1. pc' = [pc EXCEPT ![p] = "dead"] /\ pc \in [Procs -> Labels]
    BY <1>4 DEF Crash, TypeOK
  <2>2. flock' = IF flock = p THEN NoOne ELSE flock
    BY <1>4 DEF Crash
  <2>3. text' = text
    BY <1>4 DEF Crash
  <2> QED
    BY <2>1, <2>2, <2>3
<1>5. CASE (\E b \in Runs \cup {Elsewhere} : StartBuild(b) \/ FinishBuild(b))
              \/ Fill \/ TouchTmp \/ Tick \/ UNCHANGED vars
  BY <1>5 DEF StartBuild, FinishBuild, Fill, TouchTmp, Tick, vars, benchVars
<1> QED
  BY <1>1, <1>2, <1>3, <1>4, <1>5 DEF Next

\* A run inside is the only one there.
LEMMA InsideAlone ==
    ASSUME InsideInv, NEW r \in Runs, NEW q \in Runs, pc[r] \in Inside, pc[q] \in Inside
    PROVE  q = r
BY DEF InsideInv

\* No step but Replace and Unlink touches hardware.lock's user and writer, and
\* only they and a process's own end move it out of its hold.
Quiet(p) ==
    \/ p \in Runs /\ (Open(p) \/ Grant(p) \/ Wait(p) \/ GiveUp(p) \/ Blame(p) \/ Truncate(p)
                          \/ WriteHolder(p) \/ Unlock(p) \/ HygieneStep(p))
    \/ p \in Outsiders /\ (Clean(p) \/ Lock(p) \/ EnterBlock(p) \/ HygieneStep(p))
    \/ ReadLock(p)

LEMMA QuietKeeps ==
    ASSUME TypeOK, NEW p \in Procs, Quiet(p)
    PROVE  /\ UNCHANGED <<hw, meddled>>
           /\ \A q \in Procs \ {p} : pc'[q] = pc[q]
           /\ pc[p] \notin {"hold", "unlink", "dead"}
           /\ pc'[p] \notin {"hold", "unlink", "dead"}
<1>1. UNCHANGED <<hw, meddled>> /\ pc[p] \notin {"hold", "unlink", "dead"}
  BY DEF Quiet, Open, Grant, Wait, GiveUp, Blame, Truncate, WriteHolder, Unlock, HygieneStep,
     Headroom, PruneDebug, RemoveDebug, LookAtTmp, RemoveTmp, Clean, Lock, EnterBlock,
     ReadLock, Hygiene, Legacy, lockVars
<1>2. \E label \in Labels \ {"hold", "unlink", "dead"} : pc' = [pc EXCEPT ![p] = label]
  <2>1. CASE Wait(p)
    BY <2>1 DEF Wait, TypeOK, Labels
  <2> QED
    BY <2>1 DEF Quiet, Open, Grant, GiveUp, Blame, Truncate, WriteHolder, Unlock, HygieneStep,
       Headroom, PruneDebug, RemoveDebug, LookAtTmp, RemoveTmp, Clean, Lock, EnterBlock,
       ReadLock, Goto, AfterHygiene, AfterLegacy, Labels, Hygiene, Legacy
<1> QED
  BY <1>1, <1>2 DEF TypeOK

\* Who is where when a process replaces or unlinks hardware.lock.
LEMMA WriterMoves ==
    ASSUME TypeOK, NEW p \in Procs, Replace(p) \/ Unlink(p)
    PROVE  /\ \A q \in Procs \ {p} : pc'[q] = pc[q]
           /\ Replace(p) => pc[p] = "replace" /\ pc'[p] = "hold"
           /\ Unlink(p) => pc[p] = "unlink" /\ pc'[p] = AfterLegacy(p)
BY DEF TypeOK, Replace, Unlink, Goto

LockInv == EntryInv /\ LockIsOwn

LEMMA LockStep ==
    ASSUME TypeOK, InsideInv, InsideInv', LockInv, [Next]_vars
    PROVE  LockInv'
<1> USE DEF LockInv, EntryInv, LockIsOwn, Holding, Procs
<1>1. ASSUME NEW p \in Procs, Quiet(p)
      PROVE  LockInv'
  BY <1>1, QuietKeeps
<1>2. ASSUME NEW p \in Procs, Replace(p)
      PROVE  LockInv'
  <2>1. hw' = [user |-> User[p], by |-> p, age |-> 0] /\ hw' # NoLock
    <3>1. hw' \in Entry
      BY <1>2, UserOfProcs, BoundsNat DEF Replace, Entry
    <3> QED
      BY <1>2, <3>1, NoLockFresh DEF Replace
  <2>2. EntryInv'
    BY <1>2, <2>1, WriterMoves
  <2>3. CASE p \in Runs
    <3>1. \A q \in Runs \ {p} : pc'[q] \notin {"hold", "unlink"}
      BY <1>2, <2>3, InsideAlone, WriterMoves DEF Inside, Legacy
    <3> QED
      BY <2>1, <2>2, <3>1
  <2>4. CASE p \in Outsiders
    <3>1. Holding' = Holding /\ meddled' = meddled \cup Holding
      BY <1>2, <2>4, WriterMoves, RolesDisjoint DEF Replace
    <3> QED
      BY <2>2, <3>1
  <2> QED
    BY <2>3, <2>4
<1>3. ASSUME NEW p \in Procs, Unlink(p)
      PROVE  LockInv'
  <2>1. hw' = NoLock
    BY <1>3 DEF Unlink
  <2>2. CASE p \in Runs
    <3>1. \A q \in Runs \ {p} : pc'[q] \notin {"hold", "unlink"}
      BY <1>3, <2>2, InsideAlone, WriterMoves DEF Inside, Legacy
    <3>2. pc'[p] = "unlock"
      BY <1>3, <2>2, WriterMoves DEF AfterLegacy
    <3> QED
      BY <2>1, <3>1, <3>2
  <2>3. CASE p \in Outsiders
    <3>1. Holding' = Holding /\ meddled' = meddled \cup Holding
      BY <1>3, <2>3, WriterMoves, RolesDisjoint DEF Unlink
    <3> QED
      BY <2>1, <3>1
  <2> QED
    BY <2>2, <2>3
<1>4. ASSUME NEW p \in Procs, Finish(p)
      PROVE  LockInv'
  <2>1. pc' = [pc EXCEPT ![p] = "unlink"] /\ pc[p] \in {"hold", "block"} /\ UNCHANGED <<hw, meddled>>
    BY <1>4 DEF Finish, Goto, lockVars
  <2>2. p \in Runs => pc[p] = "hold"
    BY <2>1 DEF InsideInv
  <2> QED
    BY <2>1, <2>2 DEF TypeOK
<1>5. ASSUME NEW p \in Procs, Crash(p)
      PROVE  LockInv'
  <2>1. pc' = [pc EXCEPT ![p] = "dead"] /\ UNCHANGED <<hw, meddled>>
    BY <1>5 DEF Crash, Goto, lockVars
  <2> QED
    BY <2>1 DEF TypeOK
<1>6. CASE Tick
  <2>1. /\ hw \in Entry /\ hw # NoLock
        /\ hw' = [hw EXCEPT !.age = hw.age + 1]
        /\ UNCHANGED <<pc, meddled>>
    BY <1>6 DEF Tick, TypeOK
  <2>2. hw'.user = hw.user /\ hw'.by = hw.by /\ hw' # NoLock
    <3>1. hw.age <= Stale /\ hw.age + 1 \in 0..(Stale + 1)
      BY <1>6, <2>1, BoundsNat DEF Tick, Entry
    <3>2. hw' \in Entry
      BY <2>1, <3>1 DEF Entry
    <3> QED
      BY <2>1, <3>2, NoLockFresh DEF Entry
  <2> QED
    BY <2>1, <2>2
<1>7. CASE (\E b \in Runs \cup {Elsewhere} : StartBuild(b) \/ FinishBuild(b))
              \/ Fill \/ TouchTmp \/ UNCHANGED vars
  BY <1>7 DEF StartBuild, FinishBuild, Fill, TouchTmp, vars, lockVars
<1> QED
  BY <1>1, <1>2, <1>3, <1>4, <1>5, <1>6, <1>7 DEF Next, Run, LegacyStep, Quiet

\* A refusal by a run's lock is by a dead run's: it is on file, its writer has
\* not removed it, and the one that reads it has the bench.
LEMMA RefusalStep ==
    ASSUME TypeOK, InsideInv, EntryInv, RunsNeverRefuseRuns, [Next]_vars
    PROVE  RunsNeverRefuseRuns'
<1> USE DEF RunsNeverRefuseRuns, Procs
<1>1. \A p \in Procs : pc[p] = "dead" => pc'[p] = "dead"
  <2>1. ASSUME NEW p \in Procs, pc[p] = "dead", NEW q \in Procs,
               \/ Quiet(q) \/ Replace(q) \/ Unlink(q) \/ Finish(q) \/ Crash(q)
        PROVE  pc'[p] = "dead"
    <3>1. CASE Quiet(q)
      BY <2>1, <3>1, QuietKeeps
    <3>2. CASE Replace(q) \/ Unlink(q)
      BY <2>1, <3>2, WriterMoves
    <3>3. CASE Finish(q) \/ Crash(q)
      BY <2>1, <3>3 DEF Finish, Crash, Goto, TypeOK
    <3> QED
      BY <2>1, <3>1, <3>2, <3>3
  <2>2. CASE (\E b \in Runs \cup {Elsewhere} : StartBuild(b) \/ FinishBuild(b))
                \/ Fill \/ TouchTmp \/ Tick \/ UNCHANGED vars
    BY <2>2 DEF StartBuild, FinishBuild, Fill, TouchTmp, Tick, vars
  <2> QED
    BY <2>1, <2>2 DEF Next, Run, LegacyStep, Quiet
<1>2. \A r \in Runs : \/ refuser'[r] \in {refuser[r], NoOne}
                      \/ ReadLock(r) /\ refuser'[r] = hw.by /\ hw # NoLock
  <2>1. ASSUME NEW p \in Procs, ReadLock(p), NEW r \in Runs
        PROVE  \/ refuser'[r] = refuser[r]
               \/ p = r /\ refuser'[r] = hw.by /\ hw # NoLock
    <3>1. CASE Blocks(hw, p) /\ p \in Runs
      BY <2>1, <3>1 DEF ReadLock, Blocks, TypeOK
    <3>2. CASE ~(Blocks(hw, p) /\ p \in Runs)
      BY <2>1, <3>2 DEF ReadLock
    <3> QED
      BY <3>1, <3>2
  <2>2. ASSUME NEW r \in Runs, Open(r)
        PROVE  \A q \in Runs : refuser'[q] \in {refuser[q], NoOne}
    BY <2>2 DEF Open, TypeOK
  <2>3. ASSUME NEW r \in Runs, Grant(r) \/ Wait(r) \/ GiveUp(r) \/ Blame(r) \/ Truncate(r)
                                   \/ WriteHolder(r) \/ Unlock(r)
        PROVE  refuser' = refuser
    BY <2>3 DEF Grant, Wait, GiveUp, Blame, Truncate, WriteHolder, Unlock, lockVars
  <2>4. ASSUME NEW p \in Procs, HygieneStep(p) \/ Replace(p) \/ Unlink(p) \/ Clean(p)
                                    \/ Lock(p) \/ EnterBlock(p) \/ Finish(p) \/ Crash(p)
        PROVE  refuser' = refuser
    BY <2>4 DEF HygieneStep, Headroom, PruneDebug, RemoveDebug, LookAtTmp, RemoveTmp, Replace,
       Unlink, Clean, Lock, EnterBlock, Finish, Crash, lockVars
  <2>5. ASSUME \/ \E b \in Runs \cup {Elsewhere} : StartBuild(b) \/ FinishBuild(b)
               \/ Fill \/ TouchTmp \/ Tick \/ UNCHANGED vars
        PROVE  refuser' = refuser
    BY <2>5 DEF StartBuild, FinishBuild, Fill, TouchTmp, Tick, vars, lockVars
  <2>6. \/ refuser' = refuser
        \/ \E r \in Runs : Open(r)
        \/ \E p \in Procs : ReadLock(p)
    BY <2>3, <2>4, <2>5 DEF Next, Run, LegacyStep
  <2> QED
    BY <2>1, <2>2, <2>6
<1>3. ASSUME NEW r \in Runs, ReadLock(r), hw # NoLock, hw.by \in Runs
      PROVE  pc[hw.by] = "dead"
  <2>1. pc[r] = "read" /\ hw.by # r
    BY <1>3 DEF ReadLock, EntryInv
  <2> QED
    BY <1>3, <2>1, InsideAlone DEF EntryInv, Inside, Legacy
<1>4. ASSUME NEW r \in Runs, refuser'[r] \in Runs
      PROVE  pc'[refuser'[r]] = "dead"
  <2>1. pc[refuser'[r]] = "dead"
    BY <1>2, <1>3, <1>4, NoOneFresh
  <2> QED
    BY <1>1, <1>4, <2>1
<1> QED
  BY <1>4

\* The one that removes the tree has the bench, so that no other run builds.
LEMMA SpareStep ==
    ASSUME TypeOK, InsideInv, RunsSpareRuns, [Next]_vars
    PROVE  RunsSpareRuns'
<1> USE DEF RunsSpareRuns, Procs
<1>1. ASSUME NEW p \in Procs, RemoveDebug(p)
      PROVE  RunsSpareRuns'
  <2>1. \A q \in Runs : p \in Runs => pc[q] # "hold"
    BY <1>1, InsideAlone DEF RemoveDebug, Inside, Hygiene, Legacy
  <2> QED
    BY <1>1, <2>1 DEF RemoveDebug
<1>2. ASSUME NEW p \in Procs, Headroom(p) \/ PruneDebug(p) \/ LookAtTmp(p) \/ RemoveTmp(p)
                                  \/ LegacyStep(p) \/ Finish(p) \/ Crash(p)
      PROVE  RunsSpareRuns'
  BY <1>2 DEF Headroom, PruneDebug, LookAtTmp, RemoveTmp, LegacyStep, ReadLock, Replace,
     Unlink, Finish, Crash, diskVars
<1>3. ASSUME NEW r \in Runs, Open(r) \/ Grant(r) \/ Wait(r) \/ GiveUp(r) \/ Blame(r)
                                 \/ Truncate(r) \/ WriteHolder(r) \/ Unlock(r)
      PROVE  RunsSpareRuns'
  BY <1>3 DEF Open, Grant, Wait, GiveUp, Blame, Truncate, WriteHolder, Unlock, diskVars
<1>4. ASSUME NEW o \in Outsiders, Clean(o) \/ Lock(o) \/ EnterBlock(o)
      PROVE  RunsSpareRuns'
  BY <1>4 DEF Clean, Lock, EnterBlock, diskVars
<1>5. CASE (\E b \in Runs \cup {Elsewhere} : StartBuild(b) \/ FinishBuild(b))
              \/ Fill \/ TouchTmp \/ Tick \/ UNCHANGED vars
  BY <1>5 DEF StartBuild, FinishBuild, Fill, TouchTmp, Tick, vars, diskVars
<1> QED
  BY <1>1, <1>2, <1>3, <1>4, <1>5 DEF Next, Run, HygieneStep

LEMMA BenchInvariant == Spec => []BenchInv
<1>1. Init => BenchInv
  BY RolesDisjoint, NoOneFresh, NoLockFresh, BoundsNat
  DEF Init, BenchInv, TypeOK, Labels, InsideInv, Inside, Hygiene, Legacy, FileNamesHolder,
      EntryInv, LockIsOwn, Holding, RunsNeverRefuseRuns, RunsSpareRuns, Procs
<1>2. BenchInv /\ [Next]_vars => BenchInv'
  <2> SUFFICES ASSUME BenchInv, [Next]_vars
               PROVE  BenchInv'
    OBVIOUS
  <2>1. TypeOK'
    BY TypeStep DEF BenchInv
  <2>2. InsideInv' /\ FileNamesHolder'
    BY <2>1, PlacesStep DEF BenchInv, Places
  <2>3. EntryInv' /\ LockIsOwn'
    BY <2>2, LockStep DEF BenchInv, LockInv
  <2>4. RunsNeverRefuseRuns' /\ RunsSpareRuns'
    BY RefusalStep, SpareStep DEF BenchInv
  <2> QED
    BY <2>1, <2>2, <2>3, <2>4 DEF BenchInv
<1> QED
  BY <1>1, <1>2, PTL DEF Spec

-----------------------------------------------------------------------------
\* The locks, the disk and the runs stay well-typed.
THEOREM TypeCorrect == Spec => []TypeOK
<1>1. BenchInv => TypeOK
  BY DEF BenchInv
<1> QED
  BY BenchInvariant, <1>1, PTL

\* Past the write, the bench file names the run that has the kernel's lock.
THEOREM HolderOnFile == Spec => []FileNamesHolder
<1>1. BenchInv => FileNamesHolder
  BY DEF BenchInv
<1> QED
  BY BenchInvariant, <1>1, PTL

\* A run that has taken the bench first loses its hardware.lock to outsiders only.
THEOREM HardwareLockIsOwn == Spec => []LockIsOwn
<1>1. BenchInv => LockIsOwn
  BY DEF BenchInv
<1> QED
  BY BenchInvariant, <1>1, PTL

\* Runs that take the bench first never refuse one another while they live.
THEOREM OrderedRunsPass == Spec => []RunsNeverRefuseRuns
<1>1. BenchInv => RunsNeverRefuseRuns
  BY DEF BenchInv
<1> QED
  BY BenchInvariant, <1>1, PTL

\* No run's hygiene removes the tree under another run's build.
THEOREM BuildsAreSpared == Spec => []RunsSpareRuns
<1>1. BenchInv => RunsSpareRuns
  BY DEF BenchInv
<1> QED
  BY BenchInvariant, <1>1, PTL

\* bench_lock.py implements a region that the runs are in one at a time.
THEOREM BenchImplements == Spec => ImplementsBench
<1> USE DEF Bench!Handles
<1>1. Init => Bench!Init
  BY DEF Init, Bench!Init, Benched, Hygiene, Legacy, Procs
<1>2. ASSUME BenchInv, [Next]_vars
      PROVE  [Bench!Next]_Benched
  <2> USE DEF Procs, Benched, Hygiene, Legacy
  <2>0. TypeOK /\ InsideInv
    BY <1>2 DEF BenchInv
  <2>t. pc \in [Procs -> Labels]
    BY <2>0 DEF TypeOK
  <2>1. ASSUME NEW r \in Runs, WriteHolder(r)
        PROVE  Bench!Next
    <3>1. Benched' = Benched \cup {r} /\ r \notin Benched
      BY <2>1, <2>t DEF WriteHolder, Goto
    <3>2. Benched = {}
      BY <2>0, <2>1, InsideAlone, <3>1 DEF WriteHolder, Inside
    <3> QED
      BY <3>1, <3>2 DEF Bench!Next, Bench!Enter, Bench!Admits
  <2>2. ASSUME NEW r \in Runs, Unlock(r)
        PROVE  Bench!Next
    <3>1. Benched' = Benched \ {r} /\ r \in Benched
      BY <2>2, <2>t DEF Unlock, Goto
    <3> QED
      BY <3>1 DEF Bench!Next, Bench!Leave
  <2>3. ASSUME NEW p \in Procs, Crash(p)
        PROVE  [Bench!Next]_Benched
    <3>1. Benched' = Benched \ {p}
      BY <2>3, <2>t DEF Crash, Goto
    <3> QED
      BY <3>1 DEF Bench!Next, Bench!Leave
  <2>4. ASSUME NEW r \in Runs, Open(r) \/ Grant(r) \/ Wait(r) \/ GiveUp(r) \/ Blame(r) \/ Truncate(r)
        PROVE  Benched' = Benched
    BY <2>4, <2>t DEF Open, Grant, Wait, GiveUp, Blame, Truncate, Goto
  <2>5. ASSUME NEW p \in Procs, HygieneStep(p) \/ LegacyStep(p) \/ Finish(p)
        PROVE  Benched' = Benched
    <3>1. \A q \in Procs \ {p} : pc'[q] = pc[q]
      BY <2>5, <2>t DEF HygieneStep, LegacyStep, Headroom, PruneDebug, RemoveDebug, LookAtTmp,
         RemoveTmp, ReadLock, Replace, Unlink, Finish, Goto
    <3>2. CASE p \in Runs
      <4>1. pc[p] \in Hygiene \cup Legacy /\ pc'[p] \in Hygiene \cup Legacy \cup {"unlock"}
        BY <2>0, <2>5, <2>t, <3>2 DEF InsideInv, HygieneStep, LegacyStep, Headroom, PruneDebug,
           RemoveDebug, LookAtTmp, RemoveTmp, ReadLock, Replace, Unlink, Finish, Goto,
           AfterHygiene, AfterLegacy
      <4> QED
        BY <3>1, <4>1
    <3>3. CASE p \notin Runs
      BY <3>1, <3>3
    <3> QED
      BY <3>2, <3>3
  <2>6. ASSUME NEW o \in Outsiders, Clean(o) \/ Lock(o) \/ EnterBlock(o)
        PROVE  Benched' = Benched
    BY <2>6, <2>t, RolesDisjoint DEF Clean, Lock, EnterBlock, Goto
  <2>7. CASE (\E b \in Runs \cup {Elsewhere} : StartBuild(b) \/ FinishBuild(b))
                \/ Fill \/ TouchTmp \/ Tick \/ UNCHANGED vars
    BY <2>7 DEF StartBuild, FinishBuild, Fill, TouchTmp, Tick, vars
  <2> QED
    BY <1>2, <2>1, <2>2, <2>3, <2>4, <2>5, <2>6, <2>7 DEF Next, Run
<1> QED
  BY <1>1, <1>2, BenchInvariant, PTL DEF Spec, ImplementsBench, Bench!Spec
=============================================================================
