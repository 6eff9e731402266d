-------------------------- MODULE OccupancyProofs --------------------------
(***************************************************************************)
(* The two records of who is on the bench, for any number of processes.    *)
(* Reservations exclude each other as long as no call changes a file other *)
(* than the one it read; status() says of no live session that it is lost. *)
(***************************************************************************)
EXTENDS Reservation, SessionRegistry, TLAPS

-----------------------------------------------------------------------------
\* Board reservations.

\* What a call decided still holds of the entry it read: one that is about to
\* replace it read no live entry of another project, one about to unlink it
\* read none of another project at all, and has left its block.
Decided(p) ==
    /\ pc[p] = "replace" /\ seen[p] # NoEntry =>
          seen[p].project = Project[p] \/ seen[p].left <= 0
    /\ pc[p] = "unlink" /\ seen[p] # NoEntry => seen[p].project = Project[p]
    /\ pc[p] \in {"read", "unlink"} => hold[p] = 0

HoldInv ==
    /\ TypeOK
    /\ \A p \in Procs : Decided(p)
    /\ HoldIsOnFile

LEMMA EntryFields ==
    ASSUME NEW e \in MaybeEntry, e # NoEntry
    PROVE  e.project \in Projects /\ e.left \in -MaxStall..TTL
BY DEF MaybeEntry, Entry

LEMMA GrantedType ==
    ASSUME NEW p \in Procs, age[p] \in 0..MaxStall
    PROVE  /\ Granted(p) \in Entry
           /\ Granted(p).project = Project[p]
           /\ Granted(p).left = TTL - age[p]
<1>1. TTL - age[p] \in -MaxStall..TTL
  BY TTLPositive, MaxStallNat
<1>2. Project[p] \in Projects
  BY ProjectOfProcs
<1> QED
  BY <1>1, <1>2 DEF Granted, Entry

\* Ageing an entry lowers left by at most one and keeps the rest.
LEMMA AgedEntry ==
    ASSUME NEW e \in MaybeEntry
    PROVE  /\ Aged(e) \in MaybeEntry
           /\ Aged(e) = NoEntry <=> e = NoEntry
           /\ e # NoEntry => /\ Aged(e).project = e.project
                             /\ Aged(e).left <= e.left
                             /\ Aged(e).left >= e.left - 1
<1>1. CASE e = NoEntry
  BY <1>1 DEF Aged, MaybeEntry
<1>2. CASE e # NoEntry /\ e.left = -MaxStall
  BY <1>2, EntryFields, MaxStallNat DEF Aged
<1>3. CASE e # NoEntry /\ e.left # -MaxStall
  <2>1. e \in Entry /\ e.left - 1 \in -MaxStall..TTL
    BY <1>3, MaxStallNat, TTLPositive DEF MaybeEntry, Entry
  <2>2. Aged(e) = [e EXCEPT !.left = e.left - 1]
    BY <1>3 DEF Aged
  <2>3. Aged(e) \in Entry /\ Aged(e).project = e.project /\ Aged(e).left = e.left - 1
    BY <2>1, <2>2 DEF Entry
  <2> QED
    BY <1>3, <2>1, <2>3, NoEntryFresh, MaxStallNat, TTLPositive DEF MaybeEntry, Entry
<1> QED
  BY <1>1, <1>2, <1>3

LEMMA TypeStep ==
    ASSUME TypeOK, [Next]_vars
    PROVE  TypeOK'
<1> USE DEF TypeOK, Labels, Goto
<1>1. ASSUME NEW p \in Procs, Begin(p)
      PROVE  TypeOK'
  BY <1>1, MaxStallNat DEF Begin
<1>2. ASSUME NEW p \in Procs, ReserveRead(p)
      PROVE  TypeOK'
  BY <1>2, MaxStallNat DEF ReserveRead
<1>3. ASSUME NEW p \in Procs, ReserveReplace(p)
      PROVE  TypeOK'
  <2>1. file' \in MaybeEntry /\ seen' \in [Procs -> MaybeEntry]
    BY <1>3, GrantedType DEF ReserveReplace, MaybeEntry
  <2>2. hold' \in [Procs -> 0..TTL] /\ age' \in [Procs -> 0..MaxStall]
    <3>1. (IF age[p] < TTL THEN TTL - age[p] ELSE 0) \in 0..TTL
      BY TTLPositive, MaxStallNat
    <3>2. 0 \in 0..MaxStall
      BY MaxStallNat
    <3> QED
      BY <1>3, <3>1, <3>2 DEF ReserveReplace
  <2>3. undone' \in SUBSET Procs
    BY <1>3 DEF ReserveReplace, Siblings
  <2> QED
    BY <1>3, <2>1, <2>2, <2>3 DEF ReserveReplace
<1>4. ASSUME NEW p \in Procs, ReleaseExists(p) \/ ReleaseRead(p)
      PROVE  TypeOK'
  <2>1. 0 \in 0..TTL
    BY TTLPositive
  <2> QED
    BY <1>4, <2>1 DEF ReleaseExists, ReleaseRead
<1>5. ASSUME NEW p \in Procs, ReleaseUnlink(p) \/ Crash(p)
      PROVE  TypeOK'
  <2>1. 0 \in 0..TTL /\ 0 \in 0..MaxStall /\ NoEntry \in MaybeEntry
    BY TTLPositive, MaxStallNat DEF MaybeEntry
  <2>2. CASE ReleaseUnlink(p)
    BY <2>1, <2>2 DEF ReleaseUnlink, Siblings
  <2>3. CASE Crash(p)
    BY <2>1, <2>3 DEF Crash
  <2> QED
    BY <1>5, <2>2, <2>3
<1>6. CASE Tick
  <2>1. file' \in MaybeEntry /\ seen' \in [Procs -> MaybeEntry]
    BY <1>6, AgedEntry DEF Tick
  <2>2. age' \in [Procs -> 0..MaxStall] /\ hold' \in [Procs -> 0..TTL]
    BY <1>6, MaxStallNat, TTLPositive DEF Tick
  <2> QED
    BY <1>6, <2>1, <2>2 DEF Tick
<1>7. CASE UNCHANGED vars
  BY <1>7 DEF vars
<1> QED
  BY <1>1, <1>2, <1>3, <1>4, <1>5, <1>6, <1>7 DEF Next, Call

LEMMA DecidedStep ==
    ASSUME TypeOK, \A p \in Procs : Decided(p), [Next]_vars,
           NEW q \in Procs
    PROVE  Decided(q)'
<1> USE DEF TypeOK, Labels, Goto, Decided
<1>1. ASSUME NEW p \in Procs, Begin(p)
      PROVE  Decided(q)'
  BY <1>1 DEF Begin
<1>2. ASSUME NEW p \in Procs, ReserveRead(p)
      PROVE  Decided(q)'
  <2>1. CASE q = p
    BY <1>2, <2>1, EntryFields, MaxStallNat, TTLPositive DEF ReserveRead, LiveAt
  <2>2. CASE q # p
    BY <1>2, <2>2 DEF ReserveRead
  <2> QED
    BY <2>1, <2>2
<1>3. ASSUME NEW p \in Procs, ReserveReplace(p)
      PROVE  Decided(q)'
  BY <1>3 DEF ReserveReplace
<1>4. ASSUME NEW p \in Procs, ReleaseExists(p) \/ ReleaseRead(p)
      PROVE  Decided(q)'
  BY <1>4 DEF ReleaseExists, ReleaseRead
<1>5. ASSUME NEW p \in Procs, ReleaseUnlink(p) \/ Crash(p)
      PROVE  Decided(q)'
  BY <1>5 DEF ReleaseUnlink, Crash
<1>6. CASE Tick
  <2>1. seen'[q] = Aged(seen[q]) /\ pc' = pc /\ (hold[q] = 0 => hold'[q] = 0)
    BY <1>6 DEF Tick
  <2> QED
    BY <2>1, AgedEntry, EntryFields, MaxStallNat, TTLPositive
<1>7. CASE UNCHANGED vars
  BY <1>7 DEF vars
<1> QED
  BY <1>1, <1>2, <1>3, <1>4, <1>5, <1>6, <1>7 DEF Next, Call

LEMMA HoldStep ==
    ASSUME TypeOK, \A p \in Procs : Decided(p), HoldIsOnFile, [Next]_vars
    PROVE  HoldIsOnFile'
<1> SUFFICES ASSUME ~raced', NEW q \in Procs, Holds(q)'
             PROVE  file' # NoEntry /\ file'.project = Project[q] /\ file'.left >= hold'[q]
  BY DEF HoldIsOnFile
<1> DEFINE Goal == file' # NoEntry /\ file'.project = Project[q] /\ file'.left >= hold'[q]
<1> USE DEF TypeOK, Holds
<1>1. ASSUME NEW p \in Procs, Begin(p)
      PROVE  Goal
  BY <1>1 DEF Begin, HoldIsOnFile
<1>2. ASSUME NEW p \in Procs, ReserveRead(p) \/ ReleaseExists(p) \/ ReleaseRead(p) \/ Crash(p)
      PROVE  Goal
  BY <1>2 DEF ReserveRead, ReleaseExists, ReleaseRead, Crash, HoldIsOnFile
<1>3. ASSUME NEW p \in Procs, ReserveReplace(p)
      PROVE  Goal
  <2>1. ~raced /\ file = seen[p] /\ file' = Granted(p)
    BY <1>3 DEF ReserveReplace
  <2>2. Granted(p) # NoEntry /\ Granted(p).project = Project[p]
           /\ Granted(p).left = TTL - age[p]
    BY GrantedType, NoEntryFresh
  <2>3. CASE q = p
    <3>1. age[p] \in 0..MaxStall /\ hold'[q] = IF age[p] < TTL THEN TTL - age[p] ELSE 0
      BY <1>3, <2>3 DEF ReserveReplace
    <3> QED
      BY <2>1, <2>2, <2>3, <3>1, TTLPositive, MaxStallNat
  <2>4. CASE q # p /\ Project[q] = Project[p]
    <3>1. hold'[q] = hold[q] /\ ~(hold[q] > TTL - age[p])
      BY <1>3, <2>4 DEF ReserveReplace, Siblings
    <3>2. hold[q] \in Int /\ TTL - age[p] \in Int
      BY TTLPositive, MaxStallNat
    <3> QED
      BY <2>1, <2>2, <2>4, <3>1, <3>2
  <2>5. CASE Project[q] # Project[p]
    <3>1. hold'[q] = hold[q] /\ Holds(q)
      BY <1>3, <2>5 DEF ReserveReplace
    <3>2. seen[p] # NoEntry /\ seen[p].project = Project[q] /\ seen[p].left >= hold[q]
      BY <2>1, <3>1 DEF HoldIsOnFile
    <3>3. seen[p].left <= 0
      BY <1>3, <2>5, <3>2 DEF ReserveReplace, Decided
    <3>4. seen[p].left \in Int /\ hold[q] \in Nat
      BY <3>2, EntryFields, MaxStallNat, TTLPositive
    <3> QED
      BY <3>1, <3>2, <3>3, <3>4
  <2> QED
    BY <2>3, <2>4, <2>5
<1>4. ASSUME NEW p \in Procs, ReleaseUnlink(p)
      PROVE  Goal
  <2>1. ~raced /\ file \in {NoEntry, seen[p]}
    BY <1>4 DEF ReleaseUnlink
  <2>2. hold'[q] = hold[q] /\ q # p /\ Holds(q)
    BY <1>4 DEF ReleaseUnlink, Decided
  <2>3. Project[q] # Project[p]
    BY <1>4, <2>2 DEF ReleaseUnlink, Siblings
  <2>4. file = seen[p] /\ seen[p] # NoEntry /\ seen[p].project = Project[q]
    BY <2>1, <2>2 DEF HoldIsOnFile
  <2>5. seen[p].project = Project[p]
    BY <1>4, <2>4 DEF ReleaseUnlink, Decided
  <2> QED
    BY <2>3, <2>4, <2>5
<1>5. CASE Tick
  <2>1. ~raced /\ file' = Aged(file)
    BY <1>5 DEF Tick
  <2>2. hold[q] \in 0..TTL /\ Holds(q) /\ hold'[q] = hold[q] - 1
    BY <1>5, TTLPositive DEF Tick
  <2>3. file # NoEntry /\ file.project = Project[q] /\ file.left >= hold[q]
    BY <2>1, <2>2 DEF HoldIsOnFile
  <2>4. file.left \in Int /\ Aged(file).left \in Int
    BY <2>3, EntryFields, AgedEntry, MaxStallNat, TTLPositive
  <2> QED
    BY <2>1, <2>2, <2>3, <2>4, AgedEntry
<1>6. CASE UNCHANGED vars
  BY <1>6 DEF vars, HoldIsOnFile
<1> QED
  BY <1>1, <1>2, <1>3, <1>4, <1>5, <1>6 DEF Next, Call

LEMMA ReservationInvariant == Spec => []HoldInv
<1>1. Init => HoldInv
  <2> SUFFICES ASSUME Init PROVE HoldInv
    OBVIOUS
  <2>1. 0 \in 0..TTL /\ 0 \in 0..MaxStall /\ NoEntry \in MaybeEntry
    BY TTLPositive, MaxStallNat DEF MaybeEntry
  <2>2. TypeOK
    BY <2>1 DEF Init, TypeOK, Labels
  <2> QED
    BY <2>2 DEF Init, HoldInv, Decided, HoldIsOnFile, Holds
<1>2. HoldInv /\ [Next]_vars => HoldInv'
  BY TypeStep, DecidedStep, HoldStep DEF HoldInv
<1> QED
  BY <1>1, <1>2, PTL DEF Spec

-----------------------------------------------------------------------------
\* While a process may count on the board, its own project has not undone its grant
\* and no call has raced, the file names its project for at least as long.
THEOREM HoldsAreOnFile == Spec => []HoldIsOnFile
<1>1. HoldInv => HoldIsOnFile
  BY DEF HoldInv
<1> QED
  BY ReservationInvariant, <1>1, PTL

\* Processes of two projects hold the board together only after some call changed a
\* file that was not the one it had read, or a project undid the grant of one of them.
THEOREM ExclusionUnlessRaced == Spec => []ExclusiveUnlessRaced
<1>1. HoldInv => ExclusiveUnlessRaced
  BY DEF HoldInv, HoldIsOnFile, ExclusiveUnlessRaced
<1> QED
  BY ReservationInvariant, <1>1, PTL

\* The reservation file, the calls and the holds stay well-typed.
THEOREM TypeCorrect == Spec => []TypeOK
<1>1. HoldInv => TypeOK
  BY DEF HoldInv
<1> QED
  BY ReservationInvariant, <1>1, PTL

-----------------------------------------------------------------------------
\* The session registry.

Begun(s) == at[s] \notin {"absent", "flock", "failed"}

\* While its record is young, an opened file is at its path, and a live
\* session has the flock found there.
FilesInv ==
    \A s \in Sessions :
        /\ at[s] \in {"absent", "flock"} => locked[s] = NoOne
        /\ record[s] \in {"running", "done"} => Begun(s)
        /\ at[s] # "absent" /\ ~expired[s] => record[s] # "none"
        /\ Holding(s) /\ ~expired[s] => locked[s] = s

\* A viewer that reached the probe read a record, so the session had begun; one
\* that got the flock, or gave up on the file, found no holder there.
Declares(v) == look[v] \in {"unlock", "lost"} \/ verdict[v] = "LOST"

LooksInv ==
    \A v \in Viewers :
        /\ look[v] = "probe" \/ Declares(v) => Begun(subject[v])
        /\ Declares(v) => expired[subject[v]] \/ ~Holding(subject[v])

\* Whoever is in the journal as lost had begun, so that it cannot begin any more.
LostInv == \A s \in lost : Begun(s) /\ (expired[s] \/ ~Holding(s))

RegistryInv == RegistryTypeOK /\ BeginNeverBlocked /\ FilesInv /\ LooksInv /\ LostInv

LEMMA RegistryTypeStep ==
    ASSUME RegistryTypeOK, [RegistryNext]_registryVars
    PROVE  RegistryTypeOK'
<1> USE RolesApart, NoOneFresh
    DEF RegistryTypeOK, Places, Looks, Verdicts, Move, GoLook, Report, viewerVars, sessionVars, Unlocked
<1>1. ASSUME NEW s \in Sessions, SessionStep(s)
      PROVE  RegistryTypeOK'
  <2>1. CASE Open(s)
    BY <2>1 DEF Open
  <2>2. CASE Flock(s)
    BY <2>2 DEF Flock
  <2>3. CASE Note(s) \/ End(s)
    BY <2>3 DEF Note, End
  <2>4. CASE Truncate(s)
    BY <2>4 DEF Truncate
  <2>5. CASE Write(s)
    BY <2>5 DEF Write
  <2>6. CASE Log(s)
    BY <2>6 DEF Log
  <2>7. CASE Close(s) \/ Dies(s)
    BY <2>7 DEF Close, Dies
  <2>8. CASE Expire(s)
    BY <2>8 DEF Expire
  <2> QED
    BY <1>1, <2>1, <2>2, <2>3, <2>4, <2>5, <2>6, <2>7, <2>8 DEF SessionStep
<1>2. ASSUME NEW v \in Viewers, NEW s \in Sessions, Look(v, s)
      PROVE  RegistryTypeOK'
  BY <1>2 DEF Look
<1>3. ASSUME NEW v \in Viewers, ViewerStep(v)
      PROVE  RegistryTypeOK'
  <2>1. CASE Read(v)
    BY <2>1 DEF Read
  <2>2. CASE Probe(v)
    BY <2>2 DEF Probe
  <2>3. CASE Unlock(v)
    BY <2>3 DEF Unlock
  <2>4. CASE Lose(v)
    BY <2>4 DEF Lose
  <2>5. CASE Return(v)
    BY <2>5 DEF Return
  <2> QED
    BY <1>3, <2>1, <2>2, <2>3, <2>4, <2>5 DEF ViewerStep
<1>4. CASE UNCHANGED registryVars
  BY <1>4 DEF registryVars
<1> QED
  BY <1>1, <1>2, <1>3, <1>4 DEF RegistryNext

\* Every step a session takes or suffers.
LEMMA SessionKeeps ==
    ASSUME RegistryInv, NEW s \in Sessions, SessionStep(s)
    PROVE  BeginNeverBlocked' /\ FilesInv' /\ LooksInv' /\ LostInv'
<1> USE RolesApart, NoOneFresh
    DEF RegistryInv, RegistryTypeOK, Places, BeginNeverBlocked, FilesInv, LooksInv, LostInv, Declares, Begun,
        Holding, Move, viewerVars, sessionVars, Unlocked
<1>1. CASE Open(s)
  BY <1>1 DEF Open
<1>2. CASE Flock(s)
  <2>1. locked[s] = NoOne
    BY <1>2 DEF Flock
  <2>2. /\ locked' = [locked EXCEPT ![s] = s]
        /\ at' = [at EXCEPT ![s] = "truncate"]
        /\ UNCHANGED <<phase, record, expired, viewerVars, lost>>
    BY <1>2, <2>1 DEF Flock
  <2>3. \A v \in Viewers : (look[v] = "probe" \/ Declares(v)) => subject[v] # s
    BY <1>2 DEF Flock
  <2>4. LooksInv' /\ LostInv'
    BY <2>2, <2>3, <1>2 DEF Flock
  <2>5. BeginNeverBlocked' /\ FilesInv'
    BY <2>2, <1>2 DEF Flock
  <2> QED
    BY <2>4, <2>5
<1>3. CASE Note(s) \/ End(s)
  BY <1>3 DEF Note, End
<1>4. CASE Truncate(s)
  BY <1>4 DEF Truncate
<1>5. CASE Write(s)
  BY <1>5 DEF Write
<1>6. CASE Log(s)
  BY <1>6 DEF Log
<1>7. CASE Close(s) \/ Dies(s)
  <2>1. /\ locked' = [locked EXCEPT ![s] = IF locked[s] = s THEN NoOne ELSE locked[s]]
        /\ at' \in {[at EXCEPT ![s] = "over"], [at EXCEPT ![s] = "dead"]}
        /\ UNCHANGED <<phase, record, expired, viewerVars, lost>>
    BY <1>7 DEF Close, Dies
  <2>2. at[s] \notin {"absent", "failed"}
    BY <1>7 DEF Close, Dies
  <2>3. BeginNeverBlocked'
    BY <2>1
  <2>4. FilesInv'
    BY <2>1, <2>2, <1>7 DEF Close, Dies
  <2>5. LooksInv' /\ LostInv'
    BY <2>1, <2>2
  <2> QED
    BY <2>3, <2>4, <2>5
<1>8. CASE Expire(s)
  BY <1>8 DEF Expire
<1> QED
  BY <1>1, <1>2, <1>3, <1>4, <1>5, <1>6, <1>7, <1>8 DEF SessionStep

\* Every step of a viewer's look.
LEMMA ViewerKeeps ==
    ASSUME RegistryInv, NEW v \in Viewers,
           ViewerStep(v) \/ \E s \in Sessions : Look(v, s)
    PROVE  BeginNeverBlocked' /\ FilesInv' /\ LooksInv' /\ LostInv'
<1> USE RolesApart, NoOneFresh
    DEF RegistryInv, RegistryTypeOK, Looks, BeginNeverBlocked, FilesInv, LooksInv, LostInv, Declares, Begun,
        Holding, GoLook, Report, sessionVars
<1>1. CASE \E s \in Sessions : Look(v, s)
  BY <1>1 DEF Look
<1>2. CASE Read(v)
  BY <1>2 DEF Read
<1>3. CASE Probe(v)
  BY <1>3 DEF Probe
<1>4. CASE Unlock(v)
  BY <1>4 DEF Unlock
<1>5. CASE Lose(v)
  BY <1>5 DEF Lose
<1>6. CASE Return(v)
  BY <1>6 DEF Return
<1> QED
  BY <1>1, <1>2, <1>3, <1>4, <1>5, <1>6 DEF ViewerStep

LEMMA RegistryInvariant == RegistrySpec => []RegistryInv
<1>1. RegistryInit => RegistryInv
  BY RolesApart, NoOneFresh
  DEF RegistryInit, RegistryInv, RegistryTypeOK, Places, Looks, Verdicts, BeginNeverBlocked, FilesInv,
      LooksInv, LostInv, Declares, Begun, Holding
<1>2. RegistryInv /\ [RegistryNext]_registryVars => RegistryInv'
  <2> SUFFICES ASSUME RegistryInv, [RegistryNext]_registryVars
               PROVE  RegistryInv'
    OBVIOUS
  <2>1. RegistryTypeOK'
    BY RegistryTypeStep DEF RegistryInv
  <2>2. BeginNeverBlocked' /\ FilesInv' /\ LooksInv' /\ LostInv'
    <3>1. ASSUME NEW s \in Sessions, SessionStep(s)
          PROVE  BeginNeverBlocked' /\ FilesInv' /\ LooksInv' /\ LostInv'
      BY <3>1, SessionKeeps
    <3>2. ASSUME NEW v \in Viewers, ViewerStep(v) \/ \E s \in Sessions : Look(v, s)
          PROVE  BeginNeverBlocked' /\ FilesInv' /\ LooksInv' /\ LostInv'
      BY <3>2, ViewerKeeps
    <3>3. CASE UNCHANGED registryVars
      BY <3>3 DEF RegistryInv, registryVars, sessionVars, viewerVars, BeginNeverBlocked, FilesInv,
                  LooksInv, LostInv, Declares, Begun, Holding
    <3> QED
      BY <3>1, <3>2, <3>3 DEF RegistryNext
  <2> QED
    BY <2>1, <2>2 DEF RegistryInv
<1> QED
  BY <1>1, <1>2, PTL DEF RegistrySpec

\* No live session whose record is young enough is ever reported or journaled as
\* LOST, nor becomes live after that, however its rewrites and any number of status() calls interleave.
THEOREM LiveSessionsAreNotLost == RegistrySpec => []LiveNeverLost
<1>1. RegistryInv => LiveNeverLost
  BY DEF RegistryInv, LooksInv, LostInv, Declares, LiveNeverLost
<1> QED
  BY <1>1, RegistryInvariant, PTL

\* session_begin never finds its fresh file's flock taken by a status() probe.
THEOREM BeginIsNeverBlocked == RegistrySpec => []BeginNeverBlocked
<1>1. RegistryInv => BeginNeverBlocked
  BY DEF RegistryInv
<1> QED
  BY <1>1, RegistryInvariant, PTL

\* Sessions, records, flocks and viewers stay well-typed.
THEOREM RegistryTypeCorrect == RegistrySpec => []RegistryTypeOK
<1>1. RegistryInv => RegistryTypeOK
  BY DEF RegistryInv
<1> QED
  BY RegistryInvariant, <1>1, PTL
=============================================================================
