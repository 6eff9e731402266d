--------------------------- MODULE SessionRegistry ---------------------------
(***************************************************************************)
(* session_registry.py: announced sessions and the processes that look at  *)
(* them.  A session keeps one JSON file, rewrites it in place (truncate,   *)
(* then write) and holds a flock on it for life; sessions_status() reads   *)
(* each file and probes the flock of the running-marked ones by taking it  *)
(* for a moment.  Nothing orders the two sides.                            *)
(*                                                                         *)
(* A viewer's look is one round of the loop in sessions_status: one file.  *)
(* Ages are abstracted to whether a record has outlived                    *)
(* MAX_RECORD_AGE_SECS.                                                    *)
(*                                                                         *)
(* No name here is one of Reservation's: OccupancyProofs extends both.     *)
(***************************************************************************)
CONSTANTS Sessions, Viewers, NoOne

ASSUME RolesApart == Sessions \cap Viewers = {}
ASSUME NoOneFresh == NoOne \notin Sessions \cup Viewers

VARIABLES
    at,       \* where each session's process is
    phase,    \* the call it is in: session_begin, a note or add_pid, end
    record,   \* what its file holds; a truncated file is "torn"
    locked,   \* who holds the flock of the file now at its path
    expired,  \* the record has outlived MAX_RECORD_AGE_SECS
    look,     \* where each viewer is in its look
    subject,  \* the session it looks at
    verdict,  \* what it reports
    lost      \* sessions with a "lost" line in the journal

sessionVars == <<at, phase>>
viewerVars == <<look, subject, verdict>>
registryVars == <<sessionVars, record, locked, expired, viewerVars, lost>>

Places == {"absent", "flock", "truncate", "write", "log", "running", "close",
           "over", "dead", "failed"}
Looks == {"idle", "read", "probe", "unlock", "lost", "report"}
Verdicts == {"none", "skipped", "pruned", "running", "done", "LOST"}

RegistryTypeOK ==
    /\ at \in [Sessions -> Places]
    /\ phase \in [Sessions -> {"begin", "note", "end"}]
    /\ record \in [Sessions -> {"none", "torn", "running", "done"}]
    /\ locked \in [Sessions -> Sessions \cup Viewers \cup {NoOne}]
    /\ expired \in [Sessions -> BOOLEAN]
    /\ look \in [Viewers -> Looks]
    /\ subject \in [Viewers -> Sessions \cup {NoOne}]
    /\ verdict \in [Viewers -> Verdicts]
    /\ \A v \in Viewers : (subject[v] = NoOne) <=> (look[v] = "idle")
    /\ \A v \in Viewers : (verdict[v] = "none") <=> (look[v] # "report")
    /\ lost \in SUBSET Sessions

RegistryInit ==
    /\ at = [s \in Sessions |-> "absent"]
    /\ phase = [s \in Sessions |-> "begin"]
    /\ record = [s \in Sessions |-> "none"]
    /\ locked = [s \in Sessions |-> NoOne]
    /\ expired = [s \in Sessions |-> FALSE]
    /\ look = [v \in Viewers |-> "idle"]
    /\ subject = [v \in Viewers |-> NoOne]
    /\ verdict = [v \in Viewers |-> "none"]
    /\ lost = {}

-----------------------------------------------------------------------------
Move(s, label) == at' = [at EXCEPT ![s] = label]

\* The record is written before the flock is asked for.
OpenAnnounced(s) ==
    /\ at[s] = "absent"
    /\ record' = [record EXCEPT ![s] = "running"]
    /\ Move(s, "flock")
    /\ UNCHANGED <<phase, locked, expired, viewerVars, lost>>

\* session_begin: os.open with O_CREAT.
Open(s) ==
    /\ at[s] = "absent"
    /\ record' = [record EXCEPT ![s] = "torn"]
    /\ Move(s, "flock")
    /\ UNCHANGED <<phase, locked, expired, viewerVars, lost>>

\* The session goes on without the flock it just took: its descriptor is closed.
FlockDropped(s) ==
    /\ at[s] = "flock"
    /\ Move(s, "truncate")
    /\ UNCHANGED <<phase, record, locked, expired, viewerVars, lost>>

\* session_begin: the flock, without waiting; BlockingIOError leaves the call.
Flock(s) ==
    /\ at[s] = "flock"
    /\ IF locked[s] = NoOne
       THEN /\ locked' = [locked EXCEPT ![s] = s]
            /\ Move(s, "truncate")
       ELSE /\ Move(s, "failed")
            /\ UNCHANGED locked
    /\ UNCHANGED <<phase, record, expired, viewerVars, lost>>

\* note, add_pid and end change the record, then flush it.
Note(s) ==
    /\ at[s] = "running"
    /\ phase' = [phase EXCEPT ![s] = "note"]
    /\ Move(s, "truncate")
    /\ UNCHANGED <<record, locked, expired, viewerVars, lost>>

End(s) ==
    /\ at[s] = "running"
    /\ phase' = [phase EXCEPT ![s] = "end"]
    /\ Move(s, "truncate")
    /\ UNCHANGED <<record, locked, expired, viewerVars, lost>>

\* _flush: write_text truncates the file at the path, a new one when the old was
\* pruned, and then writes the record.
Truncate(s) ==
    /\ at[s] = "truncate"
    /\ record' = [record EXCEPT ![s] = "torn"]
    /\ Move(s, "write")
    /\ UNCHANGED <<phase, locked, expired, viewerVars, lost>>

\* A status() in between may have pruned nothing here: a torn file is skipped.
Write(s) ==
    /\ at[s] = "write"
    /\ record' = [record EXCEPT ![s] = IF phase[s] = "end" THEN "done" ELSE "running"]
    /\ Move(s, IF phase[s] = "note" THEN "running" ELSE "log")
    /\ UNCHANGED <<phase, locked, expired, viewerVars, lost>>

\* The "begin" and "end" lines of the journal.
Log(s) ==
    /\ at[s] = "log"
    /\ Move(s, IF phase[s] = "begin" THEN "running" ELSE "close")
    /\ UNCHANGED <<phase, record, locked, expired, viewerVars, lost>>

Unlocked(s) == [locked EXCEPT ![s] = IF @ = s THEN NoOne ELSE @]

\* end: os.close releases the flock of the file the session opened.
Close(s) ==
    /\ at[s] = "close"
    /\ locked' = Unlocked(s)
    /\ Move(s, "over")
    /\ UNCHANGED <<phase, record, expired, viewerVars, lost>>

\* The process dies: the kernel releases its flock, the file stays as it is.
Dies(s) ==
    /\ at[s] \notin {"absent", "over", "dead", "failed"}
    /\ locked' = Unlocked(s)
    /\ Move(s, "dead")
    /\ UNCHANGED <<phase, record, expired, viewerVars, lost>>

\* A week passes since a session that has begun was started.
Expire(s) ==
    /\ ~expired[s]
    /\ at[s] \in {"running", "over", "dead"}
    /\ expired' = [expired EXCEPT ![s] = TRUE]
    /\ UNCHANGED <<sessionVars, record, locked, viewerVars, lost>>

-----------------------------------------------------------------------------
GoLook(v, label) == look' = [look EXCEPT ![v] = label]

Report(v, what) ==
    /\ GoLook(v, "report")
    /\ verdict' = [verdict EXCEPT ![v] = what]

\* sessions_status: the next path of the glob.
Look(v, s) ==
    /\ look[v] = "idle"
    /\ record[s] # "none"
    /\ subject' = [subject EXCEPT ![v] = s]
    /\ GoLook(v, "read")
    /\ UNCHANGED <<sessionVars, record, locked, expired, verdict, lost>>

\* read_text: what does not parse or is gone is skipped, what is too old is
\* unlinked with whatever flock it carries, what is marked running is probed.
Read(v) ==
    /\ look[v] = "read"
    /\ LET s == subject[v] IN
        \/ /\ record[s] \in {"none", "torn"}
           /\ Report(v, "skipped")
           /\ UNCHANGED <<record, locked>>
        \/ /\ record[s] \in {"running", "done"} /\ expired[s]
           /\ Report(v, "pruned")
           /\ record' = [record EXCEPT ![s] = "none"]
           /\ locked' = [locked EXCEPT ![s] = NoOne]
        \/ /\ record[s] = "done" /\ ~expired[s]
           /\ Report(v, "done")
           /\ UNCHANGED <<record, locked>>
        \/ /\ record[s] = "running" /\ ~expired[s]
           /\ GoLook(v, "probe")
           /\ UNCHANGED <<verdict, record, locked>>
    /\ UNCHANGED <<sessionVars, expired, subject, lost>>

\* _flock_held: a file that cannot be opened counts as not held; a flock held by
\* anyone, another viewer's probe included, counts as the session's.
Probe(v) ==
    /\ look[v] = "probe"
    /\ LET s == subject[v] IN
        \/ /\ record[s] = "none"
           /\ GoLook(v, "lost")
           /\ UNCHANGED <<locked, verdict>>
        \/ /\ record[s] # "none" /\ locked[s] = NoOne
           /\ locked' = [locked EXCEPT ![s] = v]
           /\ GoLook(v, "unlock")
           /\ UNCHANGED verdict
        \/ /\ record[s] # "none" /\ locked[s] # NoOne
           /\ Report(v, "running")
           /\ UNCHANGED locked
    /\ UNCHANGED <<sessionVars, record, expired, subject, lost>>

\* The probe's descriptor leaks and keeps the flock.
UnlockLeaking(v) ==
    /\ look[v] = "unlock"
    /\ Report(v, "running")
    /\ UNCHANGED <<sessionVars, record, locked, expired, subject, lost>>

\* _flock_held: LOCK_UN and close.
Unlock(v) ==
    /\ look[v] = "unlock"
    /\ locked' = [locked EXCEPT ![subject[v]] = IF @ = v THEN NoOne ELSE @]
    /\ GoLook(v, "lost")
    /\ UNCHANGED <<sessionVars, record, expired, subject, verdict, lost>>

\* The record is reported as LOST and the journal says so; the file still says
\* running.
Lose(v) ==
    /\ look[v] = "lost"
    /\ lost' = lost \cup {subject[v]}
    /\ Report(v, "LOST")
    /\ UNCHANGED <<sessionVars, record, locked, expired, subject>>

\* records.append, and on to the next path.
Return(v) ==
    /\ look[v] = "report"
    /\ GoLook(v, "idle")
    /\ subject' = [subject EXCEPT ![v] = NoOne]
    /\ verdict' = [verdict EXCEPT ![v] = "none"]
    /\ UNCHANGED <<sessionVars, record, locked, expired, lost>>

-----------------------------------------------------------------------------
SessionStep(s) ==
    \/ Open(s) \/ Flock(s) \/ Note(s) \/ End(s) \/ Truncate(s) \/ Write(s)
    \/ Log(s) \/ Close(s) \/ Dies(s) \/ Expire(s)

ViewerStep(v) == Read(v) \/ Probe(v) \/ Unlock(v) \/ Lose(v) \/ Return(v)

RegistryNext ==
    \/ \E s \in Sessions : SessionStep(s)
    \/ \E v \in Viewers : ViewerStep(v) \/ \E s \in Sessions : Look(v, s)

RegistrySpec == RegistryInit /\ [][RegistryNext]_registryVars

\* A look that has begun is finished, and somebody looks at every file again.
FairRegistrySpec ==
    /\ RegistrySpec
    /\ \A v \in Viewers : WF_registryVars(ViewerStep(v))
    /\ \A v \in Viewers, s \in Sessions : SF_registryVars(Look(v, s))

-----------------------------------------------------------------------------
\* The process of the session is alive and has its flock by its own account.
Holding(s) == at[s] \in {"truncate", "write", "log", "running", "close"}

\* Nobody is told of a live session that it is LOST, whatever the interleaving of its
\* rewrites and other viewers' probes, as long as its record is not too old; and what the
\* journal says is lost does not come back.
LiveNeverLost ==
    /\ \A v \in Viewers :
           (look[v] = "lost" \/ verdict[v] = "LOST")
               => expired[subject[v]] \/ ~Holding(subject[v])
    /\ \A s \in lost : expired[s] \/ ~Holding(s)

\* session_begin never fails on a concurrent status(): a probe takes the flock of
\* a file only after reading a record from it, which is written under the flock.
BeginNeverBlocked == \A s \in Sessions : at[s] # "failed"

\* A session that dies with its record on file is journaled as lost, although
\* probes of concurrent viewers hide its death from one another.
DeadAreJournaled ==
    \A s \in Sessions :
        (at[s] = "dead" /\ record[s] = "running") ~> (s \in lost \/ expired[s])
=============================================================================
