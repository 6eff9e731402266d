----------------------------- MODULE Reservation -----------------------------
(***************************************************************************)
(* reservation.py: one board's reservation file, shared by the processes   *)
(* of several projects.  reserve() reads the clock, reads the file, decides*)
(* and replaces the file; release() looks, reads, decides and unlinks.     *)
(* No lock spans those steps.  A process is one use of BoardReservation:   *)
(* reserve on enter, release on exit.                                      *)
(*                                                                         *)
(* Times are relative to the present: an entry's left is expires_at minus  *)
(* time.time(), a call's age is time.time() minus the `now` it read.       *)
(* MaxStall bounds the age of a call's `now`.                              *)
(***************************************************************************)
EXTENDS Integers

CONSTANTS Procs, Projects, Project, TTL, MaxStall, NoEntry,
          Patient  \* processes that never die and retry a refused reserve

ASSUME ProjectOfProcs == Project \in [Procs -> Projects]
ASSUME TTLPositive == TTL \in Nat \ {0}
ASSUME MaxStallNat == MaxStall \in Nat
ASSUME PatientProcs == Patient \subseteq Procs

VARIABLES
    file,   \* <serial>.json: NoEntry when absent
    pc,     \* where each process is in its use of the board
    age,    \* how old the `now` of a running reserve is
    seen,   \* what a running call read from the file
    hold,   \* how long each process may count on the board by its last grant
    undone, \* history: those whose grant another process of their project took back
    raced   \* history: a call changed a file that was not the one it had read

vars == <<file, pc, age, seen, hold, undone, raced>>

Entry == [project : Projects, left : -MaxStall..TTL]
MaybeEntry == Entry \cup {NoEntry}

ASSUME NoEntryFresh == NoEntry \notin Entry

Labels == {"idle", "check", "replace", "using", "read", "unlink", "dead"}

TypeOK ==
    /\ file \in MaybeEntry
    /\ pc \in [Procs -> Labels]
    /\ age \in [Procs -> 0..MaxStall]
    /\ seen \in [Procs -> MaybeEntry]
    /\ hold \in [Procs -> 0..TTL]
    /\ undone \in SUBSET Procs
    /\ raced \in BOOLEAN

Init ==
    /\ file = NoEntry
    /\ pc = [p \in Procs |-> "idle"]
    /\ age = [p \in Procs |-> 0]
    /\ seen = [p \in Procs |-> NoEntry]
    /\ hold = [p \in Procs |-> 0]
    /\ undone = {}
    /\ raced = FALSE

-----------------------------------------------------------------------------
Goto(p, label) == pc' = [pc EXCEPT ![p] = label]

Siblings(p) == {q \in Procs \ {p} : Project[q] = Project[p]}

\* A fresh entry, expiring ttl_secs after the `now` of the call that writes it.
Granted(p) == [project |-> Project[p], left |-> TTL - age[p]]

\* Expiry judged the wrong way round the clock, and not at all.
LiveAtEarly(e, a) == e # NoEntry /\ e.left - a > 0

LiveAtForever(e, a) == e # NoEntry

\* Not _expired, by the clock reading of a call that is a old.
LiveAt(e, a) == e # NoEntry /\ e.left + a > 0

\* reserve: now = _now()
Begin(p) ==
    /\ pc[p] = "idle"
    /\ age' = [age EXCEPT ![p] = 0]
    /\ Goto(p, "check")
    /\ UNCHANGED <<file, seen, hold, undone, raced>>

\* reserve: path.exists() and read_text() amount to one read, a file that
\* vanishes between them being taken for an absent one.  A live entry of
\* another project refuses the call; anything else is (re)claimed.
ReserveRead(p) ==
    /\ pc[p] = "check"
    /\ IF LiveAt(file, age[p]) /\ file.project # Project[p]
       THEN /\ Goto(p, "idle")
            /\ age' = [age EXCEPT ![p] = 0]
            /\ UNCHANGED seen
       ELSE /\ Goto(p, "replace")
            /\ seen' = [seen EXCEPT ![p] = file]
            /\ UNCHANGED age
    /\ UNCHANGED <<file, hold, undone, raced>>

\* reserve and _write: os.replace of a complete temporary file, then return.  The new
\* entry counts for the whole project, though it may expire sooner than the last.
ReserveReplace(p) ==
    /\ pc[p] = "replace"
    /\ file' = Granted(p)
    /\ hold' = [hold EXCEPT ![p] = IF age[p] < TTL THEN TTL - age[p] ELSE 0]
    /\ undone' = (undone \ {p}) \cup {q \in Siblings(p) : hold[q] > TTL - age[p]}
    /\ raced' = (raced \/ file # seen[p])
    /\ Goto(p, "using")
    /\ age' = [age EXCEPT ![p] = 0]
    /\ seen' = [seen EXCEPT ![p] = NoEntry]

\* release: the process counts on the board no more; an absent file returns False.
ReleaseExists(p) ==
    /\ pc[p] = "using"
    /\ Goto(p, IF file = NoEntry THEN "idle" ELSE "read")
    /\ hold' = [hold EXCEPT ![p] = 0]
    /\ UNCHANGED <<file, age, seen, undone, raced>>

\* release() does not ask whose entry it is.
ReleaseReadAny(p) ==
    /\ pc[p] = "read"
    /\ Goto(p, "unlink")
    /\ seen' = [seen EXCEPT ![p] = file]
    /\ UNCHANGED <<file, age, hold, undone, raced>>

\* release: a file gone by now counts as unreadable and is unlinked; another
\* project's entry, live or expired, raises ReservationError.
ReleaseRead(p) ==
    /\ pc[p] = "read"
    /\ IF file # NoEntry /\ file.project # Project[p]
       THEN Goto(p, "idle") /\ UNCHANGED seen
       ELSE Goto(p, "unlink") /\ seen' = [seen EXCEPT ![p] = file]
    /\ UNCHANGED <<file, age, hold, undone, raced>>

\* release: path.unlink(missing_ok=True), whatever is there by now, and whoever of
\* the project is still in its block.
ReleaseUnlink(p) ==
    /\ pc[p] = "unlink"
    /\ file' = NoEntry
    /\ raced' = (raced \/ file \notin {NoEntry, seen[p]})
    /\ undone' = undone \cup {q \in Siblings(p) : hold[q] > 0}
    /\ Goto(p, "idle")
    /\ seen' = [seen EXCEPT ![p] = NoEntry]
    /\ UNCHANGED <<age, hold>>

\* The process dies for good; its entry stays until it expires.
Crash(p) ==
    /\ p \notin Patient
    /\ pc[p] # "dead"
    /\ Goto(p, "dead")
    /\ age' = [age EXCEPT ![p] = 0]
    /\ seen' = [seen EXCEPT ![p] = NoEntry]
    /\ UNCHANGED <<file, hold, undone, raced>>

Aged(e) ==
    IF e = NoEntry \/ e.left = -MaxStall THEN e ELSE [e EXCEPT !.left = @ - 1]

InReserve(p) == pc[p] \in {"check", "replace"}

\* A second passes.
Tick ==
    /\ \A p \in Procs : InReserve(p) => age[p] < MaxStall
    /\ file' = Aged(file)
    /\ seen' = [p \in Procs |-> Aged(seen[p])]
    /\ age' = [p \in Procs |-> IF InReserve(p) THEN age[p] + 1 ELSE age[p]]
    /\ hold' = [p \in Procs |-> IF hold[p] > 0 THEN hold[p] - 1 ELSE 0]
    /\ UNCHANGED <<pc, undone, raced>>

Call(p) == ReserveRead(p) \/ ReserveReplace(p) \/ ReleaseRead(p) \/ ReleaseUnlink(p)

Next ==
    \/ \E p \in Procs : Begin(p) \/ Call(p) \/ ReleaseExists(p) \/ Crash(p)
    \/ Tick

Spec == Init /\ [][Next]_vars

\* Time passes, a call in progress runs on, a patient caller tries again.
FairSpec ==
    /\ Spec
    /\ WF_vars(Tick)
    /\ \A p \in Procs : WF_vars(Call(p))
    /\ \A p \in Patient : WF_vars(Begin(p))

-----------------------------------------------------------------------------
\* A process that may count on the board by what reserve returned to it, and whose
\* own project has not taken that back: any process of the project may release the
\* entry, or refresh it with an older clock reading, under one still in its block.
Holds(p) == hold[p] > 0 /\ p \notin undone

\* "Reserve a board exclusively for `project`": processes of two projects never both
\* hold the board, as long as every call changed the very file it had read and apart
\* from those whose own project has undone their grant.  Crashes, expiries, takeovers
\* and clock readings that are already old break nothing.
ExclusiveUnlessRaced ==
    ~raced => \A p, q \in Procs : Holds(p) /\ Holds(q) => Project[p] = Project[q]

\* Nor is a hold lost silently, with the same two exceptions: while a process may count
\* on the board, the file names its project, for at least as long.
HoldIsOnFile ==
    ~raced => \A p \in Procs : Holds(p) =>
        file # NoEntry /\ file.project = Project[p] /\ file.left >= hold[p]

\* A crashed session cannot wedge the bench: when everyone else has died, a
\* caller that keeps trying gets the board, whatever the dead left behind.
DeadHoldersAreReclaimed ==
    \A p \in Patient :
        (\A q \in Procs \ {p} : pc[q] = "dead") ~> pc[p] = "using"
=============================================================================
