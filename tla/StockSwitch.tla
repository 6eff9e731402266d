----------------------------- MODULE StockSwitch -----------------------------
(***************************************************************************)
(* One PoE port of the stock-firmware switch and the clients that toggle   *)
(* it through its web API: StockZyxelPoEDriver (drivers/stock_zyxel_poe.py)*)
(* on top of StockWeb (hardware/zyxel_stock.py).  The switch has a single  *)
(* web session: a login evicts whoever had it.  Repairers stand for direct *)
(* users of StockWeb, manual maintenance: they repair a port's priority    *)
(* with set_poe_state, save the running configuration and reboot the       *)
(* switch.  The drivers take one lock file, DriverLock; the bench rule asks*)
(* a lock of maintenance too, but no code says which of LockFiles it is.   *)
(*                                                                         *)
(* A client handles one request at a time: pc is the request of _set it is *)
(* at, mode how far that request has got.  MaxPolls bounds each of the     *)
(* waits, whose timeouts the code states in seconds.                       *)
(***************************************************************************)
EXTENDS Naturals

CONSTANTS Drivers, Repairers, DriverLock, LockFiles, Priorities, MaxPolls, Browser

Clients == Drivers \cup Repairers

ASSUME KindsDisjoint == Drivers \cap Repairers = {}
ASSUME MaxPollsNat == MaxPolls \in Nat
ASSUME BrowserOutside == Browser \notin Clients

VARIABLES
    row,      \* what cmd=773 shows of the port
    startup,  \* what the saved configuration has for the port
    attached, \* a powered device is plugged in
    asked,    \* history: the priority a repair or a reboot asked for last
    rebooting, \* the switch is about to go down for a reboot
    owner,    \* whose login the switch's web session is
    web,      \* clients that have a StockWeb object
    fresh,    \* clients whose xssid is that of the switch's session
    tokenless, \* history: whose login took the session and broke off before its token was read
    lockFile, \* the lock file each repairer takes
    pc, mode, \* the request a client is at, and how far it got
    locked,   \* clients holding the flock on their lock file
    polls,    \* rounds left in the wait a client is in
    want,     \* the state a client's call is to bring about
    field,    \* the priority the client read to send along
    outcome,  \* how the call went
    overlap   \* history: calls, or a call and a reboot, have overlapped lately

switchVars == <<row, startup, attached, asked, rebooting>>
webVars == <<owner, web, fresh, tokenless>>
lockVars == <<lockFile, overlap>>
callVars == <<pc, mode, locked, polls, want, field, outcome, lockVars>>
vars == <<switchVars, webVars, callVars>>

\* The requests that go through _fetch, and the one that does not.
Fetched == {"pre", "read", "post", "poll", "verify", "form"}
Requests == Fetched \cup {"submit"}
Labels == Requests \cup {"idle", "lock", "unlock"}

Wants == {"Enable", "Disable", "save", "reboot"}
Configurations == [state : {"Enable", "Disable"}, priority : Priorities]

TypeOK ==
    /\ row \in [state : {"Enable", "Disable"}, priority : Priorities, power : BOOLEAN]
    /\ startup \in Configurations
    /\ attached \in BOOLEAN
    /\ asked \in Priorities
    /\ rebooting \in BOOLEAN
    /\ owner \in Clients \cup {Browser}
    /\ web \in SUBSET Clients
    /\ fresh \in SUBSET Clients
    /\ tokenless \in SUBSET Clients
    /\ lockFile \in [Repairers -> LockFiles]
    /\ pc \in [Clients -> Labels]
    /\ mode \in [Clients -> {"send", "login", "token", "resend"}]
    /\ locked \in SUBSET Clients
    /\ polls \in [Clients -> 0..MaxPolls]
    /\ want \in [Clients -> Wants]
    /\ field \in [Clients -> Priorities]
    /\ outcome \in [Clients -> {"none", "ok", "noop", "error"}]
    /\ overlap \in BOOLEAN

Init ==
    /\ attached \in BOOLEAN
    /\ asked \in Priorities
    /\ \E state \in {"Enable", "Disable"} :
        row = [state |-> state, priority |-> asked,
               power |-> (attached /\ state = "Enable")]
    /\ startup = [state |-> row.state, priority |-> row.priority]
    /\ rebooting = FALSE
    /\ owner = Browser
    /\ web = {}
    /\ fresh = {}
    /\ tokenless = {}
    /\ lockFile \in [Repairers -> LockFiles]
    /\ pc = [c \in Clients |-> "idle"]
    /\ mode = [c \in Clients |-> "send"]
    /\ locked = {}
    /\ polls = [c \in Clients |-> 0]
    /\ want = [c \in Clients |-> "Enable"]
    /\ field = [c \in Clients |-> CHOOSE priority \in Priorities : TRUE]
    /\ outcome = [c \in Clients |-> "none"]
    /\ overlap = FALSE

-----------------------------------------------------------------------------
\* The next request of a call, or its end, and the wait that comes with it.
Proceed(c, label) ==
    /\ pc' = [pc EXCEPT ![c] = label]
    /\ mode' = [mode EXCEPT ![c] = IF c \in web \/ label = "unlock" THEN "send" ELSE "login"]
    /\ polls' = [polls EXCEPT ![c] = IF label \in {"lock", "poll", "verify"} THEN MaxPolls ELSE 0]

Finish(c, how) ==
    /\ Proceed(c, "unlock")
    /\ outcome' = [outcome EXCEPT ![c] = how]

\* What a call was about is gone when it is over.
Forget(c) ==
    /\ want' = [want EXCEPT ![c] = "Enable"]
    /\ field' = [field EXCEPT ![c] = CHOOSE priority \in Priorities : TRUE]

\* on() and off(); a repair gives the state to keep with the priority.  The
\* maintenance calls are save_config() and reboot().
Call(c) ==
    /\ pc[c] = "idle"
    /\ \E w \in IF c \in Repairers THEN Wants ELSE {"Enable", "Disable"} :
          want' = [want EXCEPT ![c] = w]
    /\ Proceed(c, "lock")
    /\ UNCHANGED <<switchVars, webVars, locked, field, outcome, lockVars>>

LockOf(c) == IF c \in Drivers THEN DriverLock ELSE lockFile[c]

Busy(c) == \E d \in locked \ {c} : LockOf(d) = LockOf(c)

\* _bench_flock: granted, polled again, or given up with an error.  The first call
\* after an overlap takes the priority as it is left.
Lock(c) ==
    /\ pc[c] = "lock" /\ ~Busy(c)
    /\ locked' = locked \cup {c}
    /\ Proceed(c, IF c \in Drivers THEN "pre"
                  ELSE IF want[c] \in {"save", "reboot"} THEN "form" ELSE "read")
    /\ overlap' = (locked # {} \/ rebooting)
    /\ asked' = IF overlap /\ ~overlap' THEN row.priority ELSE asked
    /\ UNCHANGED <<row, startup, attached, rebooting, webVars, want, field, outcome, lockFile>>

LockWait(c) ==
    /\ pc[c] = "lock" /\ Busy(c)
    /\ IF polls[c] > 0
       THEN /\ polls' = [polls EXCEPT ![c] = @ - 1]
            /\ UNCHANGED <<pc, want, field>>
       ELSE /\ pc' = [pc EXCEPT ![c] = "idle"]
            /\ Forget(c)
            /\ UNCHANGED polls
    /\ mode' = [mode EXCEPT ![c] = "send"]
    /\ UNCHANGED <<switchVars, webVars, locked, outcome, lockVars>>

-----------------------------------------------------------------------------
\* _fetch: a login page instead of the answer means our session is gone; log in
\* once more, then send once more, then give up.
Evicted(c) ==
    /\ pc[c] \in Fetched /\ mode[c] = "send" /\ owner # c
    /\ mode' = [mode EXCEPT ![c] = "login"]
    /\ UNCHANGED <<switchVars, webVars, pc, locked, polls, want, field, outcome, lockVars>>

\* Every eviction is met with another login.
EvictedAgain(c) ==
    /\ pc[c] \in Fetched /\ mode[c] = "resend" /\ owner # c
    /\ mode' = [mode EXCEPT ![c] = "login"]
    /\ UNCHANGED <<switchVars, webVars, pc, locked, polls, want, field, outcome, lockVars>>

EvictedTwice(c) ==
    /\ pc[c] \in Fetched /\ mode[c] = "resend" /\ owner # c
    /\ Finish(c, "error")
    /\ UNCHANGED <<switchVars, webVars, locked, want, field, lockVars>>

\* opener.open raises: a timeout or a refused connection.
RequestFails(c) ==
    /\ pc[c] \in Fetched /\ mode[c] \in {"send", "resend"}
    /\ Finish(c, "error")
    /\ UNCHANGED <<switchVars, webVars, locked, want, field, lockVars>>

\* _login: the two phases succeed in one of the three attempts and take the web
\* session over, or the call fails.
Login(c) ==
    /\ pc[c] \in Fetched /\ mode[c] = "login"
    /\ \/ /\ owner' = c
          /\ fresh' = {}
          /\ tokenless' = {}
          /\ mode' = [mode EXCEPT ![c] = "token"]
          /\ UNCHANGED <<pc, polls, outcome>>
       \/ /\ Finish(c, "error")
          /\ UNCHANGED <<owner, fresh, tokenless>>
    /\ UNCHANGED <<switchVars, web, locked, want, field, lockVars>>

\* _xssid: read the session's token off a page.  Somebody else's session by now, a
\* request that fails or pages without the token are an error.  A StockWeb that
\* there was before keeps its new session then, and its old token.  The first login
\* has no request to repeat.
Token(c) ==
    /\ pc[c] \in Fetched /\ mode[c] = "token"
    /\ \/ /\ owner = c
          /\ fresh' = fresh \cup {c}
          /\ web' = web \cup {c}
          /\ mode' = [mode EXCEPT ![c] = IF c \in web THEN "resend" ELSE "send"]
          /\ UNCHANGED <<pc, polls, outcome, tokenless>>
       \/ /\ Finish(c, "error")
          /\ tokenless' = IF owner = c THEN {c} \cap web ELSE tokenless
          /\ UNCHANGED <<fresh, web>>
    /\ UNCHANGED <<switchVars, owner, locked, want, field, lockVars>>

\* The switch answers the request c is at.
Answered(c, label) ==
    pc[c] = label /\ mode[c] \in {"send", "resend"} /\ owner = c

-----------------------------------------------------------------------------
\* _set: an enabled port that draws nothing is accepted as it is.
Pre(c) ==
    /\ Answered(c, "pre")
    /\ IF want[c] = "Enable" /\ row.state = "Enable" /\ ~row.power
       THEN Finish(c, "noop")
       ELSE Proceed(c, "read") /\ UNCHANGED outcome
    /\ UNCHANGED <<switchVars, webVars, locked, want, field, lockVars>>

\* The sibling fields are those the client read the last time.
ReadRowCached(c) ==
    /\ Answered(c, "read")
    /\ Proceed(c, "post")
    /\ UNCHANGED <<switchVars, webVars, locked, want, field, outcome, lockVars>>

\* set_poe_state: the sibling fields to send along come from the current row; a
\* repair has its own.
ReadRow(c) ==
    /\ Answered(c, "read")
    /\ field' = IF c \in Drivers THEN [field EXCEPT ![c] = row.priority] ELSE field
    /\ Proceed(c, "post")
    /\ UNCHANGED <<switchVars, webVars, locked, want, outcome, lockVars>>

\* The second attempt sends the form of the first, token and all.
FormIsFreshOnce(c) == mode[c] = "send" /\ c \in fresh

\* post_cmd builds the form anew for the second attempt, with the new token.
FormIsFresh(c) == c \in fresh

\* What the form says of the priority: a repair's own, or what the row said.
FormPriorities(c) == IF c \in Repairers THEN Priorities ELSE {field[c]}

\* post_cmd(775): a form with the session's token is taken, another silently dropped;
\* so may the change be.  The response tells neither, if one arrives at all.
Post(c) ==
    /\ Answered(c, "post")
    /\ \E priority \in FormPriorities(c) :
        /\ \/ row' = row
           \/ /\ FormIsFresh(c)
              /\ row' = [state |-> want[c], priority |-> priority, power |-> row.power]
        /\ asked' = IF c \in Repairers /\ row' # row THEN priority ELSE asked
    /\ \/ Proceed(c, "poll") /\ UNCHANGED outcome
       \/ Finish(c, "error")
    /\ UNCHANGED <<startup, attached, rebooting, webVars, locked, want, field, lockVars>>

\* A round of a wait: the row is right, or another round, or the timeout's error.
Round(c, right, next) ==
    IF right THEN next
    ELSE IF polls[c] > 0
    THEN /\ polls' = [polls EXCEPT ![c] = @ - 1]
         /\ mode' = [mode EXCEPT ![c] = "send"]
         /\ UNCHANGED <<pc, outcome>>
    ELSE Finish(c, "error")

\* set_poe_state waits for watts when enabling, for the state when disabling.
PollRight(c) == IF want[c] = "Enable" THEN row.power ELSE row.state = "Disable"

\* The driver leaves the verification to set_poe_state.
PollTrusting(c) ==
    /\ Answered(c, "poll")
    /\ Round(c, PollRight(c), Finish(c, "ok"))
    /\ UNCHANGED <<switchVars, webVars, locked, want, field, lockVars>>

Poll(c) ==
    /\ Answered(c, "poll")
    /\ Round(c, PollRight(c),
             IF c \in Drivers THEN Proceed(c, "verify") /\ UNCHANGED outcome
             ELSE Finish(c, "ok"))
    /\ UNCHANGED <<switchVars, webVars, locked, want, field, lockVars>>

\* _verify wants both the state and the watts that go with it.
RowIs(state) == row.state = state /\ row.power = (state = "Enable")

Verify(c) ==
    /\ Answered(c, "verify")
    /\ Round(c, RowIs(want[c]), Finish(c, "ok"))
    /\ UNCHANGED <<switchVars, webVars, locked, want, field, lockVars>>

\* _verify: a row frozen in another state is taken for a wedge.  Which rows count as
\* frozen, by their digests, settling window and grace, is left open here.
Frozen(c) ==
    /\ Answered(c, "verify")
    /\ row.state # want[c] /\ polls[c] < MaxPolls
    /\ Finish(c, "error")
    /\ UNCHANGED <<switchVars, webVars, locked, want, field, lockVars>>

\* save_config and reboot: the form's page is fetched, its token read off it.
Form(c) ==
    /\ Answered(c, "form")
    /\ Proceed(c, "submit")
    /\ UNCHANGED <<switchVars, webVars, locked, want, field, outcome, lockVars>>

\* What the switch has for the port, the watts aside.
Running == [state |-> row.state, priority |-> row.priority]

\* save_config: the form goes out without a look for a login page.  The switch
\* copies running to startup and says so, unless the session is somebody
\* else's by now; no such words is False, a time-out raises, and neither tells
\* whether it was copied.
SubmitSave(c) ==
    /\ pc[c] = "submit" /\ want[c] = "save"
    /\ \/ /\ owner = c
          /\ startup' = Running
          /\ Finish(c, "ok")
       \/ /\ startup' \in {startup} \cup IF owner = c THEN {Running} ELSE {}
          /\ Finish(c, "error")
    /\ UNCHANGED <<row, attached, asked, rebooting, webVars, locked, want, field, lockVars>>

\* reboot: the same, with every exception suppressed; nothing tells the caller
\* whether the switch took it, and nobody waits for the reboot to be over.
SubmitReboot(c) ==
    /\ pc[c] = "submit" /\ want[c] = "reboot"
    /\ rebooting' \in {rebooting} \cup IF owner = c THEN {TRUE} ELSE {}
    /\ Finish(c, "ok")
    /\ UNCHANGED <<row, startup, attached, asked, webVars, locked, want, field, lockVars>>

\* The client's StockWeb is gone; a session it leaves on the switch is nobody's.
DropWeb(c) ==
    /\ web' = web \ {c}
    /\ fresh' = fresh \ {c}
    /\ tokenless' = tokenless \ {c}
    /\ owner' = IF owner = c THEN Browser ELSE owner

\* A client is past its lock no longer.
Depart(c) ==
    /\ pc' = [pc EXCEPT ![c] = "idle"]
    /\ locked' = locked \ {c}
    /\ outcome' = [outcome EXCEPT ![c] = "none"]
    /\ Forget(c)
    /\ UNCHANGED lockVars

\* The finally clause of _bench_flock; the call returns or raises.  The driver
\* keeps its StockWeb for the next call, a maintenance script ends.
Unlock(c) ==
    /\ pc[c] = "unlock"
    /\ Depart(c)
    /\ IF c \in Drivers THEN UNCHANGED webVars ELSE DropWeb(c)
    /\ UNCHANGED <<switchVars, mode, polls>>

\* The client's process dies; the kernel drops its flock.
Crash(c) ==
    /\ pc[c] # "idle"
    /\ Depart(c)
    /\ DropWeb(c)
    /\ mode' = [mode EXCEPT ![c] = "send"]
    /\ polls' = [polls EXCEPT ![c] = 0]
    /\ UNCHANGED switchVars

-----------------------------------------------------------------------------
\* The port's consumption follows its state.
PowerSettles ==
    /\ row.power # (attached /\ row.state = "Enable")
    /\ row' = [row EXCEPT !.power = ~@]
    /\ UNCHANGED <<startup, attached, asked, rebooting, webVars, callVars>>

NobodysSession == owner' = Browser /\ fresh' = {} /\ tokenless' = {}

\* The switch goes down and comes up with the saved configuration, which is what
\* rebooting asks for, and with no session.
Reboots ==
    /\ rebooting
    /\ rebooting' = FALSE
    /\ row' = [state |-> startup.state, priority |-> startup.priority, power |-> FALSE]
    /\ asked' = startup.priority
    /\ NobodysSession
    /\ UNCHANGED <<startup, attached, web, callVars>>

\* Somebody logs in with a browser.
BrowserLogin ==
    /\ owner # Browser
    /\ NobodysSession
    /\ UNCHANGED <<switchVars, web, callVars>>

Step(c) ==
    \/ Lock(c) \/ LockWait(c) \/ Evicted(c) \/ EvictedTwice(c) \/ Login(c) \/ Token(c)
    \/ Pre(c) \/ ReadRow(c) \/ Post(c) \/ Poll(c) \/ Verify(c) \/ Frozen(c)
    \/ Form(c) \/ SubmitSave(c) \/ SubmitReboot(c) \/ Unlock(c)

Next ==
    \/ \E c \in Clients : Call(c) \/ Step(c) \/ RequestFails(c) \/ Crash(c)
    \/ PowerSettles
    \/ Reboots
    \/ BrowserLogin

Spec == Init /\ [][Next]_vars

\* A client that is in a call keeps going.
FairSpec == Spec /\ \A c \in Clients : WF_vars(Step(c))

-----------------------------------------------------------------------------
\* A driver's on() or off() that reports success did verify it: when it lets go
\* of the lock the port is in the state asked for, with or without watts
\* accordingly - although responses lie, writes are dropped, watts lag behind and
\* evictions force requests to be repeated.  Not so while calls overlap, which takes
\* another lock file than the drivers', or a reboot that nobody waits for.
SuccessIsReal ==
    ~overlap => \A c \in Drivers : outcome[c] = "ok" => RowIs(want[c])

\* No toggle drifts the port's sibling fields: the priority stays what a repair
\* or a reboot set last, whatever a toggle had read, unless calls overlap.
SiblingsKept == ~overlap => row.priority = asked

\* A write that is answered reached the switch with the token of its session, even
\* when the session was lost between building the form and sending it.  The one way
\* to send an old token is a login that broke off after it had taken the session.
AnsweredWritesLand ==
    [][\A c \in Clients : pc[c] = "post" /\ pc'[c] = "poll" =>
          FormIsFresh(c) \/ c \in tokenless]_vars

\* Every call comes back, however often the session is taken away.
CallsEnd == \A c \in Clients : pc[c] # "idle" ~> pc[c] = "idle"
=============================================================================
