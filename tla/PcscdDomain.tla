----------------------------- MODULE PcscdDomain -----------------------------
(***************************************************************************)
(* The pcscd-domain lock of hardware/pcscd_domain.py: one flock'd file,    *)
(* LOCK_SH for reader sessions and LOCK_EX for disturbances, taken by      *)
(* polling with LOCK_NB until a deadline.  An element of Readers or        *)
(* Disturbers is one acquisition, that is one open file description: two   *)
(* acquisitions of one process conflict like those of two processes.       *)
(*                                                                         *)
(* MaxPolls bounds timeout_s, counted in half-second polling rounds.       *)
(***************************************************************************)
EXTENDS Naturals

CONSTANTS Readers, Disturbers, MaxPolls, NoHolder

ASSUME RolesDisjoint == Readers \cap Disturbers = {}
ASSUME MaxPollsNat == MaxPolls \in Nat
ASSUME NoHolderFresh == NoHolder \notin Readers \cup Disturbers

VARIABLES
    pc,        \* where each acquisition is in _acquire / release
    flock,     \* the kernel's view: the mode each file description holds
    polls,     \* polling rounds left before the deadline, 0 outside the loop
    content,   \* whom the text in the lock file names
    journaled  \* acquisitions whose last journal line is "acquired"

domainVars == <<pc, flock, polls, content, journaled>>

Handles == Readers \cup Disturbers

Labels == {"idle", "poll", "blame", "truncate", "write", "log", "held", "unlock"}

TypeOK ==
    /\ pc \in [Handles -> Labels]
    /\ flock \in [Handles -> {"none", "sh", "ex"}]
    /\ polls \in [Handles -> 0..MaxPolls]
    /\ content \in Handles \cup {NoHolder}
    /\ journaled \in SUBSET Handles

Init ==
    /\ pc = [p \in Handles |-> "idle"]
    /\ flock = [p \in Handles |-> "none"]
    /\ polls = [p \in Handles |-> 0]
    /\ content = NoHolder
    /\ journaled = {}

-----------------------------------------------------------------------------
\* Mutants carry the name of the definition they stand in for and a word for the
\* bug: here, every caller asks for LOCK_SH.
ModeShared(p) == "sh"

\* `how` in _acquire.
Mode(p) == IF p \in Disturbers THEN "ex" ELSE "sh"

\* flock(2): a shared lock bears other shared locks, an exclusive one bears none.
Grantable(p) ==
    \A q \in Handles \ {p} :
        \/ flock[q] = "none"
        \/ flock[q] = "sh" /\ Mode(p) = "sh"

Goto(p, label) == pc' = [pc EXCEPT ![p] = label]

\* The file is opened with "w", so merely trying for the lock empties it.
OpenTruncating(p, timeout) ==
    /\ pc[p] = "idle"
    /\ polls' = [polls EXCEPT ![p] = timeout]
    /\ content' = NoHolder
    /\ Goto(p, "poll")
    /\ UNCHANGED <<flock, journaled>>

\* _acquire: open the file, note the deadline.
Open(p, timeout) ==
    /\ pc[p] = "idle"
    /\ polls' = [polls EXCEPT ![p] = timeout]
    /\ Goto(p, "poll")
    /\ UNCHANGED <<flock, content, journaled>>

\* The non-blocking flock call succeeds.
Grant(p) ==
    /\ pc[p] = "poll"
    /\ Grantable(p)
    /\ flock' = [flock EXCEPT ![p] = Mode(p)]
    /\ polls' = [polls EXCEPT ![p] = 0]
    /\ Goto(p, IF p \in Disturbers THEN "truncate" ELSE "log")
    /\ UNCHANGED <<content, journaled>>

\* No deadline.
WaitForever(p) ==
    /\ pc[p] = "poll"
    /\ ~Grantable(p)
    /\ UNCHANGED domainVars

\* BlockingIOError before the deadline: sleep and poll again.
Wait(p) ==
    /\ pc[p] = "poll"
    /\ ~Grantable(p)
    /\ polls[p] > 0
    /\ polls' = [polls EXCEPT ![p] = @ - 1]
    /\ UNCHANGED <<pc, flock, content, journaled>>

\* BlockingIOError at the deadline: close the file, then read the holder.
GiveUp(p) ==
    /\ pc[p] = "poll"
    /\ ~Grantable(p)
    /\ polls[p] = 0
    /\ Goto(p, "blame")
    /\ UNCHANGED <<flock, polls, content, journaled>>

\* raise PcscdDomainHeldError(holder=_read_holder(path)): the error names whom the
\* file names by now.
Blame(p) ==
    /\ pc[p] = "blame"
    /\ Goto(p, "idle")
    /\ UNCHANGED <<flock, polls, content, journaled>>

\* A disturbance writes itself into the file in two calls; a reader writes nothing.
Truncate(p) ==
    /\ pc[p] = "truncate"
    /\ content' = NoHolder
    /\ Goto(p, "write")
    /\ UNCHANGED <<flock, polls, journaled>>

WriteHolder(p) ==
    /\ pc[p] = "write"
    /\ content' = p
    /\ Goto(p, "log")
    /\ UNCHANGED <<flock, polls, journaled>>

\* bench_event("... acquired"), then the lock object is returned.
LogAcquired(p) ==
    /\ pc[p] = "log"
    /\ journaled' = journaled \cup {p}
    /\ Goto(p, "held")
    /\ UNCHANGED <<flock, polls, content>>

\* release() forgets its journal line.
LogReleasedSilent(p) ==
    /\ pc[p] = "held"
    /\ Goto(p, "unlock")
    /\ UNCHANGED <<flock, polls, content, journaled>>

\* release(): the journal line first, then LOCK_UN and close.  The file keeps its text.
LogReleased(p) ==
    /\ pc[p] = "held"
    /\ journaled' = journaled \ {p}
    /\ Goto(p, "unlock")
    /\ UNCHANGED <<flock, polls, content>>

Unlock(p) ==
    /\ pc[p] = "unlock"
    /\ flock' = [flock EXCEPT ![p] = "none"]
    /\ Goto(p, "idle")
    /\ UNCHANGED <<polls, content, journaled>>

\* The process dies anywhere: the kernel closes its descriptions and drops the
\* flock, the text in the file stays.  A dead process has no open journal entry.
Crash(p) ==
    /\ pc[p] # "idle"
    /\ pc' = [pc EXCEPT ![p] = "idle"]
    /\ flock' = [flock EXCEPT ![p] = "none"]
    /\ polls' = [polls EXCEPT ![p] = 0]
    /\ journaled' = journaled \ {p}
    /\ UNCHANGED content

\* The steps _acquire and release take without waiting for their caller.
Advance(p) ==
    \/ Grant(p) \/ Wait(p) \/ GiveUp(p) \/ Blame(p)
    \/ Truncate(p) \/ WriteHolder(p) \/ LogAcquired(p) \/ Unlock(p)

Next ==
    \E p \in Handles :
        \/ \E timeout \in 0..MaxPolls : Open(p, timeout)
        \/ Advance(p)
        \/ LogReleased(p)
        \/ Crash(p)

Spec == Init /\ [][Next]_domainVars

\* A running process keeps executing; nothing obliges a session to end.
FairSpec == Spec /\ \A p \in Handles : WF_domainVars(Advance(p))

-----------------------------------------------------------------------------
Locked(p) == pc[p] \in {"truncate", "write", "log", "held", "unlock"}

Inside(p) == pc[p] \in {"held", "unlock"}

\* An acquisition holds a flock exactly where the code thinks it does, in the
\* mode of its role, and no exclusive flock coexists with another.
FlockMatchesCode ==
    /\ \A p \in Handles : flock[p] = IF Locked(p) THEN Mode(p) ELSE "none"
    /\ \A p, q \in Handles : p # q /\ flock[p] = "ex" => flock[q] = "none"

\* Readers and disturbances are mutually exclusive, and so are two
\* disturbances (B32): while a disturbance's caller is in its protected region,
\* no other caller is in one, whoever crashed or timed out before.
DisturbanceIsAlone ==
    \A p \in Disturbers, q \in Handles : Inside(p) /\ Inside(q) => p = q

\* From the moment a disturbance's acquisition is logged until it unlocks, the
\* file names that disturbance: no reader, loser or dead process rewrites it.
FileNamesDisturbance ==
    \A p \in Disturbers : pc[p] \in {"log", "held", "unlock"} => content = p

\* The journal's acquired/released lines of live processes never show a
\* disturbance overlapping anyone: "acquired" is logged after the flock is
\* granted and "released" before it is dropped.
JournalShowsExclusion ==
    \A p \in journaled \cap Disturbers : journaled = {p}

\* No acquisition outlives its timeout: each ends in a held lock or an error,
\* even when the holders never let go.
AcquireEnds == \A p \in Handles : pc[p] = "poll" ~> pc[p] # "poll"

\* The lock file implements the shared/exclusive region.
Domain == INSTANCE SharedDomain WITH inside <- {p \in Handles : Inside(p)}

ImplementsDomain == Domain!Spec
=============================================================================
