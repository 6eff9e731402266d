-------------------------- MODULE StockSwitchProofs --------------------------
(***************************************************************************)
(* What the stock-switch driver promises for any number of clients and any *)
(* lock files: what calls that share a file are spared, and what even those*)
(* that do not are promised.                                               *)
(***************************************************************************)
EXTENDS StockSwitch, TLAPS

Working(c) == pc[c] \in Requests \cup {"unlock"}

\* Unless calls overlap there is one at a time, and while a reboot is to come no call
\* but the one that asked for it.
LockInv ==
    /\ \A c \in Clients : Working(c) <=> c \in locked
    /\ ~overlap => /\ \A c, d \in locked : c = d
                   /\ rebooting => \A c \in locked : c \notin Drivers /\ pc[c] = "unlock"

\* Drivers only toggle, and the requests of a toggle are not those of maintenance.
WantInv ==
    /\ \A c \in Drivers : want[c] \in {"Enable", "Disable"}
    /\ \A c \in Clients :
          pc[c] \in {"pre", "read", "post", "poll", "verify"} => want[c] \in {"Enable", "Disable"}

Typed == TypeOK /\ WantInv

\* A client has the token of its session except between the halves of a login and
\* after one that broke off there, and sends no request before its first login.
TokenInv ==
    \A c \in Clients :
        /\ c \in web /\ owner = c =>
              c \in fresh \cup tokenless \/ (pc[c] \in Requests /\ mode[c] = "token")
        /\ pc[c] \in Requests /\ mode[c] \in {"send", "resend"} => c \in web
        /\ pc[c] = "submit" => mode[c] = "send"

\* What a toggle read is still what the row says when it posts it.
ReadInv == ~overlap => \A c \in Drivers : pc[c] = "post" => field[c] = row.priority

\* Watts need a device, and success is declared last.
RowInv ==
    /\ row.power => attached
    /\ \A c \in Clients : outcome[c] = "ok" => pc[c] = "unlock"

StockInv ==
    /\ Typed
    /\ LockInv
    /\ TokenInv
    /\ ReadInv
    /\ RowInv
    /\ SiblingsKept
    /\ SuccessIsReal

LEMMA TypeStep ==
    ASSUME Typed, [Next]_vars
    PROVE  TypeOK'
<1> USE MaxPollsNat, BrowserOutside
    DEF Typed, TypeOK, Labels, Requests, Fetched, Wants, Configurations, Clients,
        switchVars, webVars, callVars, lockVars
<1>1. ASSUME NEW c \in Clients, Call(c)
      PROVE  TypeOK'
  BY <1>1 DEF Call, Proceed
<1>2. ASSUME NEW c \in Clients, Step(c)
      PROVE  TypeOK'
  <2>1. CASE Lock(c)
    BY <2>1 DEF Lock, Proceed
  <2>2. CASE LockWait(c)
    BY <2>2 DEF LockWait, Forget
  <2>3. CASE Evicted(c)
    BY <2>3 DEF Evicted
  <2>4. CASE EvictedTwice(c)
    BY <2>4 DEF EvictedTwice, Finish, Proceed
  <2>5. CASE Login(c)
    BY <2>5 DEF Login, Finish, Proceed
  <2>6. CASE Token(c)
    BY <2>6 DEF Token, Finish, Proceed
  <2>7. CASE Pre(c)
    BY <2>7 DEF Pre, Finish, Proceed
  <2>8. CASE ReadRow(c)
    BY <2>8 DEF ReadRow, Proceed
  <2>9. CASE Post(c)
    <3>1. PICK priority \in FormPriorities(c) :
            /\ \/ row' = row
               \/ row' = [state |-> want[c], priority |-> priority, power |-> row.power]
            /\ asked' \in {priority, asked}
      BY <2>9 DEF Post
    <3>2. priority \in Priorities
      BY DEF FormPriorities
    <3>3. row' \in [state : {"Enable", "Disable"}, priority : Priorities, power : BOOLEAN]
      <4>1. want[c] \in {"Enable", "Disable"} /\ row.power \in BOOLEAN
        BY <2>9 DEF WantInv, Post, Answered
      <4> QED
        BY <3>1, <3>2, <4>1
    <3>4. asked' \in Priorities
      BY <3>1, <3>2
    <3>5. /\ pc' \in {[pc EXCEPT ![c] = "poll"], [pc EXCEPT ![c] = "unlock"]}
          /\ mode' \in {[mode EXCEPT ![c] = "send"], [mode EXCEPT ![c] = "login"]}
          /\ polls' \in {[polls EXCEPT ![c] = MaxPolls], [polls EXCEPT ![c] = 0]}
          /\ outcome' \in {outcome, [outcome EXCEPT ![c] = "error"]}
          /\ UNCHANGED <<startup, attached, rebooting, webVars, locked, want, field, lockVars>>
      BY <2>9 DEF Post, Finish, Proceed
    <3> HIDE <2>9
    <3> QED
      BY <3>3, <3>4, <3>5
  <2>10. CASE Poll(c)
    BY <2>10 DEF Poll, Round, Finish, Proceed
  <2>11. CASE Verify(c)
    BY <2>11 DEF Verify, Round, Finish, Proceed
  <2>12. CASE Unlock(c)
    BY <2>12 DEF Unlock, Depart, Forget, DropWeb
  <2>13. CASE Frozen(c)
    BY <2>13 DEF Frozen, Finish, Proceed
  <2>14. CASE Form(c)
    BY <2>14 DEF Form, Proceed
  <2>15. CASE SubmitSave(c)
    BY <2>15 DEF SubmitSave, Running, Finish, Proceed
  <2>16. CASE SubmitReboot(c)
    <3>1. rebooting' \in BOOLEAN
      BY <2>16 DEF SubmitReboot
    <3>2. /\ pc' = [pc EXCEPT ![c] = "unlock"]
          /\ mode' = [mode EXCEPT ![c] = "send"]
          /\ polls' = [polls EXCEPT ![c] = 0]
          /\ outcome' = [outcome EXCEPT ![c] = "ok"]
          /\ UNCHANGED <<row, startup, attached, asked, webVars, locked, want, field, lockVars>>
      BY <2>16 DEF SubmitReboot, Finish, Proceed
    <3> HIDE <2>16
    <3> QED
      BY <3>1, <3>2
  <2> QED
    BY <1>2, <2>1, <2>2, <2>3, <2>4, <2>5, <2>6, <2>7, <2>8, <2>9, <2>10, <2>11, <2>12, <2>13,
       <2>14, <2>15, <2>16
    DEF Step
<1>3. ASSUME NEW c \in Clients, RequestFails(c) \/ Crash(c)
      PROVE  TypeOK'
  BY <1>3 DEF RequestFails, Crash, Depart, Forget, DropWeb, Finish, Proceed
<1>4. CASE PowerSettles \/ BrowserLogin
  BY <1>4 DEF PowerSettles, BrowserLogin, NobodysSession
<1>5. CASE Reboots
  <2>1. row' \in [state : {"Enable", "Disable"}, priority : Priorities, power : BOOLEAN]
    <3>1. startup.state \in {"Enable", "Disable"} /\ startup.priority \in Priorities
      OBVIOUS
    <3> QED
      BY <1>5, <3>1 DEF Reboots
  <2>2. asked' \in Priorities
    BY <1>5 DEF Reboots
  <2>3. rebooting' \in BOOLEAN
    BY <1>5 DEF Reboots
  <2> QED
    BY <1>5, <2>1, <2>2, <2>3 DEF Reboots, NobodysSession
<1>6. CASE UNCHANGED vars
  BY <1>6 DEF vars
<1> QED
  BY <1>1, <1>2, <1>3, <1>4, <1>5, <1>6 DEF Next

LEMMA WantStep ==
    ASSUME Typed, [Next]_vars
    PROVE  WantInv'
<1> USE KindsDisjoint
    DEF Typed, TypeOK, WantInv, Labels, Requests, Fetched, Clients, switchVars, webVars, callVars, lockVars
<1>1. ASSUME NEW c \in Clients, Call(c)
      PROVE  WantInv'
  BY <1>1 DEF Call, Proceed
<1>2. ASSUME NEW c \in Clients, Lock(c) \/ LockWait(c)
      PROVE  WantInv'
  <2>1. CASE Lock(c)
    <3>1. /\ want' = want
          /\ pc' = [pc EXCEPT ![c] = IF c \in Drivers THEN "pre"
                                     ELSE IF want[c] \in {"save", "reboot"} THEN "form" ELSE "read"]
      BY <2>1 DEF Lock, Proceed
    <3>2. want[c] \in Wants
      OBVIOUS
    <3> QED
      BY <3>1, <3>2 DEF Wants
  <2>2. CASE LockWait(c)
    BY <2>2 DEF LockWait, Forget
  <2> QED
    BY <1>2, <2>1, <2>2
<1>3. ASSUME NEW c \in Clients,
             Evicted(c) \/ EvictedTwice(c) \/ Login(c) \/ Token(c)
      PROVE  WantInv'
  BY <1>3 DEF Evicted, EvictedTwice, Login, Token, Finish, Proceed
<1>4. ASSUME NEW c \in Clients, Pre(c) \/ ReadRow(c) \/ Post(c)
      PROVE  WantInv'
  <2>1. /\ want' = want
        /\ pc' \in {[pc EXCEPT ![c] = l] : l \in {"read", "post", "poll", "unlock"}}
        /\ pc[c] \in {"pre", "read", "post"}
    BY <1>4 DEF Pre, ReadRow, Post, Answered, Finish, Proceed
  <2> QED
    BY <2>1
<1>5. ASSUME NEW c \in Clients, Poll(c) \/ Verify(c) \/ Frozen(c)
      PROVE  WantInv'
  <2>1. /\ want' = want
        /\ pc' \in {pc, [pc EXCEPT ![c] = "verify"], [pc EXCEPT ![c] = "unlock"]}
        /\ pc[c] \in {"poll", "verify"}
    BY <1>5 DEF Poll, Verify, Frozen, Round, Answered, Finish, Proceed
  <2> QED
    BY <2>1
<1>6. ASSUME NEW c \in Clients, Form(c) \/ SubmitSave(c) \/ SubmitReboot(c)
      PROVE  WantInv'
  <2>1. /\ want' = want
        /\ pc' \in {[pc EXCEPT ![c] = "submit"], [pc EXCEPT ![c] = "unlock"]}
    BY <1>6 DEF Form, SubmitSave, SubmitReboot, Finish, Proceed
  <2> QED
    BY <2>1
<1>7. ASSUME NEW c \in Clients, Unlock(c) \/ RequestFails(c) \/ Crash(c)
      PROVE  WantInv'
  BY <1>7 DEF Unlock, RequestFails, Crash, Depart, Forget, Finish, Proceed
<1>8. CASE PowerSettles \/ Reboots \/ BrowserLogin \/ UNCHANGED vars
  BY <1>8 DEF PowerSettles, Reboots, BrowserLogin, vars
<1> QED
  BY <1>1, <1>2, <1>3, <1>4, <1>5, <1>6, <1>7, <1>8 DEF Next, Step

\* The steps of one client and of the environment, crashes included.
ClientStep(c) == Call(c) \/ Step(c) \/ RequestFails(c) \/ Crash(c)

\* Whoever passes the lock alone is alone until another one does.
LEMMA LockStep ==
    ASSUME Typed, LockInv, NEW c \in Clients, ClientStep(c)
    PROVE  LockInv'
<1> USE DEF Typed, TypeOK, WantInv, Labels, Requests, Fetched, LockInv, Working, switchVars, lockVars
<1>1. CASE Call(c)
  BY <1>1 DEF Call, Proceed
<1>2. CASE Lock(c)
  <2>1. ~overlap' => locked = {} /\ ~rebooting'
    BY <1>2 DEF Lock
  <2> QED
    BY <1>2, <2>1 DEF Lock, Proceed
<1>3. CASE LockWait(c)
  BY <1>3 DEF LockWait, Forget
<1>4. CASE Evicted(c) \/ EvictedTwice(c)
  BY <1>4 DEF Evicted, EvictedTwice, Finish, Proceed
<1>5. CASE Login(c) \/ Token(c)
  BY <1>5 DEF Login, Token, Finish, Proceed
<1>6. CASE Pre(c) \/ ReadRow(c) \/ Post(c)
  BY <1>6 DEF Pre, ReadRow, Post, Answered, Finish, Proceed
<1>7. CASE Poll(c) \/ Verify(c) \/ Frozen(c)
  BY <1>7 DEF Poll, Verify, Frozen, Answered, Round, Finish, Proceed
<1>8. CASE Unlock(c) \/ RequestFails(c) \/ Crash(c)
  BY <1>8 DEF Unlock, RequestFails, Crash, Depart, Forget, DropWeb, Finish, Proceed
<1>9. CASE Form(c) \/ SubmitSave(c)
  BY <1>9 DEF Form, SubmitSave, Answered, Finish, Proceed
<1>10. CASE SubmitReboot(c)
  <2>1. c \notin Drivers
    BY <1>10 DEF SubmitReboot
  <2> QED
    BY <1>10, <2>1 DEF SubmitReboot, Finish, Proceed
<1> QED
  BY <1>1, <1>2, <1>3, <1>4, <1>5, <1>6, <1>7, <1>8, <1>9, <1>10 DEF ClientStep, Step

LEMMA TokenStep ==
    ASSUME TypeOK, TokenInv, NEW c \in Clients, ClientStep(c)
    PROVE  TokenInv'
<1> USE DEF TypeOK, Labels, Requests, Fetched, TokenInv, webVars
<1>1. CASE Call(c)
  BY <1>1 DEF Call, Proceed
<1>2. CASE Lock(c) \/ LockWait(c)
  BY <1>2 DEF Lock, LockWait, Forget, Proceed
<1>3. CASE Evicted(c) \/ EvictedTwice(c)
  BY <1>3 DEF Evicted, EvictedTwice, Finish, Proceed
<1>4. CASE Login(c)
  BY <1>4 DEF Login, Finish, Proceed
<1>5. CASE Token(c)
  BY <1>5 DEF Token, Finish, Proceed
<1>6. CASE Pre(c) \/ ReadRow(c) \/ Post(c)
  BY <1>6 DEF Pre, ReadRow, Post, Answered, Finish, Proceed
<1>7. CASE Poll(c) \/ Verify(c) \/ Frozen(c)
  BY <1>7 DEF Poll, Verify, Frozen, Answered, Round, Finish, Proceed
<1>8. CASE RequestFails(c)
  BY <1>8 DEF RequestFails, Finish, Proceed
<1>9. CASE Unlock(c) \/ Crash(c)
  <2>1. /\ pc' = [pc EXCEPT ![c] = "idle"]
        /\ mode' \in {mode, [mode EXCEPT ![c] = "send"]}
        /\ \/ /\ web' = web \ {c}
              /\ fresh' = fresh \ {c}
              /\ tokenless' = tokenless \ {c}
              /\ owner' = IF owner = c THEN Browser ELSE owner
           \/ UNCHANGED webVars /\ pc[c] = "unlock"
    BY <1>9 DEF Unlock, Crash, Depart, DropWeb
  <2> QED
    BY <2>1, BrowserOutside
<1>10. CASE Form(c)
  BY <1>10 DEF Form, Answered, Proceed
<1>11. CASE SubmitSave(c)
  BY <1>11 DEF SubmitSave, Finish, Proceed
<1>12. CASE SubmitReboot(c)
  BY <1>12 DEF SubmitReboot, Finish, Proceed
<1> QED
  BY <1>1, <1>2, <1>3, <1>4, <1>5, <1>6, <1>7, <1>8, <1>9, <1>10, <1>11, <1>12 DEF ClientStep, Step

\* A request that is answered is sent within the client's own session, so a form
\* sent with it has that session's token, if the client ever read it.
LEMMA AnsweredIsFresh ==
    ASSUME TypeOK, TokenInv, NEW c \in Clients, Answered(c, "post")
    PROVE  FormIsFresh(c) \/ c \in tokenless
BY DEF TokenInv, Answered, FormIsFresh, Requests, Fetched

\* Only an answer leads from a post to the wait for the row.
LEMMA OnlyAnswersProceed ==
    ASSUME TypeOK, [Next]_vars, NEW c \in Clients, pc[c] = "post", pc'[c] = "poll"
    PROVE  Answered(c, "post")
<1> USE DEF TypeOK, Labels, Requests, Fetched
<1>1. ASSUME NEW d \in Clients, ClientStep(d)
      PROVE  Answered(c, "post")
  <2>1. CASE Call(d) \/ Lock(d) \/ LockWait(d)
    BY <2>1 DEF Call, Lock, LockWait, Proceed
  <2>2. CASE Evicted(d) \/ EvictedTwice(d) \/ Login(d) \/ Token(d)
    BY <2>2 DEF Evicted, EvictedTwice, Login, Token, Finish, Proceed
  <2>3. CASE Pre(d) \/ ReadRow(d)
    BY <2>3 DEF Pre, ReadRow, Finish, Proceed
  <2>4. CASE Post(d)
    BY <2>4 DEF Post, Finish, Proceed
  <2>5. CASE Poll(d) \/ Verify(d) \/ Frozen(d)
    BY <2>5 DEF Poll, Verify, Frozen, Answered, Round, Finish, Proceed
  <2>6. CASE Form(d) \/ SubmitSave(d) \/ SubmitReboot(d)
    BY <2>6 DEF Form, SubmitSave, SubmitReboot, Finish, Proceed
  <2>7. CASE Unlock(d) \/ RequestFails(d) \/ Crash(d)
    BY <2>7 DEF Unlock, RequestFails, Crash, Depart, Finish, Proceed
  <2> QED
    BY <1>1, <2>1, <2>2, <2>3, <2>4, <2>5, <2>6, <2>7 DEF ClientStep, Step
<1>2. CASE PowerSettles \/ Reboots \/ BrowserLogin \/ UNCHANGED vars
  BY <1>2 DEF PowerSettles, Reboots, BrowserLogin, vars, callVars
<1> QED
  BY <1>1, <1>2 DEF Next, ClientStep

\* Among clients only a post changes the row, and unless calls overlap nobody else is
\* past the lock then: no other client has read a row it is about to post, or declared
\* a success.
LEMMA RowStep ==
    ASSUME Typed, LockInv, RowInv, ReadInv, SiblingsKept, SuccessIsReal,
           NEW c \in Clients, ClientStep(c)
    PROVE  RowInv' /\ ReadInv' /\ SiblingsKept' /\ SuccessIsReal'
<1> USE DEF Typed, TypeOK, WantInv, Labels, Requests, Fetched, Clients, RowInv, ReadInv, SiblingsKept, SuccessIsReal,
            RowIs, switchVars, lockVars
<1>1. CASE Call(c)
  BY <1>1 DEF Call, Proceed
<1>2. CASE Lock(c)
  <2>1. /\ pc' \in {[pc EXCEPT ![c] = l] : l \in {"pre", "form", "read"}}
        /\ asked' = IF overlap /\ ~overlap' THEN row.priority ELSE asked
        /\ UNCHANGED <<row, attached, want, field, outcome>>
        /\ pc[c] = "lock"
    BY <1>2 DEF Lock, Proceed
  <2>2. ~overlap' => \A d \in Clients : d # c => pc[d] \notin Requests \cup {"unlock"}
    BY <1>2 DEF Lock, LockInv, Working
  <2>3. RowInv'
    BY <2>1
  <2>4. SiblingsKept'
    BY <2>1
  <2>5. ReadInv' /\ SuccessIsReal'
    BY <2>1, <2>2
  <2> QED
    BY <2>3, <2>4, <2>5
<1>12. CASE LockWait(c)
  BY <1>12 DEF LockWait, Forget
<1>3. CASE Evicted(c) \/ EvictedTwice(c)
  BY <1>3 DEF Evicted, EvictedTwice, Finish, Proceed
<1>4. CASE Login(c) \/ Token(c)
  BY <1>4 DEF Login, Token, Finish, Proceed
<1>5. CASE Pre(c) \/ ReadRow(c)
  BY <1>5 DEF Pre, ReadRow, Answered, Finish, Proceed
<1>6. CASE Post(c)
  <2>1. /\ pc[c] = "post"
        /\ \/ pc' = [pc EXCEPT ![c] = "poll"] /\ outcome' = outcome
           \/ pc' = [pc EXCEPT ![c] = "unlock"] /\ outcome' = [outcome EXCEPT ![c] = "error"]
        /\ attached' = attached /\ want' = want /\ field' = field /\ overlap' = overlap
    BY <1>6 DEF Post, Answered, Finish, Proceed
  <2>2. ~overlap => \A d \in Clients : d # c => pc[d] \notin Requests \cup {"unlock"}
    BY <2>1 DEF LockInv, Working
  <2>3. PICK priority \in FormPriorities(c) :
          /\ \/ row' = row
             \/ row' = [state |-> want[c], priority |-> priority, power |-> row.power]
          /\ asked' = IF c \in Repairers /\ row' # row THEN priority ELSE asked
    BY <1>6 DEF Post
  <2>4. RowInv'
    BY <2>1, <2>3
  <2>5. ReadInv'
    BY <2>1, <2>2
  <2>6. SiblingsKept'
    <3>1. CASE c \in Repairers
      BY <3>1, <2>1, <2>3
    <3>2. CASE c \in Drivers /\ c \notin Repairers
      BY <3>2, <2>1, <2>3 DEF FormPriorities
    <3> QED
      BY <3>1, <3>2
  <2>7. SuccessIsReal'
    BY <2>1, <2>2
  <2> QED
    BY <2>4, <2>5, <2>6, <2>7
<1>7. CASE Poll(c)
  BY <1>7 DEF Poll, Answered, Round, Finish, Proceed
<1>8. CASE Verify(c) \/ Frozen(c)
  BY <1>8 DEF Verify, Frozen, Answered, Round, Finish, Proceed
<1>9. CASE Unlock(c) \/ RequestFails(c) \/ Crash(c)
  BY <1>9 DEF Unlock, RequestFails, Crash, Depart, Forget, DropWeb, Finish, Proceed
<1>10. CASE Form(c)
  BY <1>10 DEF Form, Answered, Finish, Proceed
<1>11. CASE SubmitSave(c) \/ SubmitReboot(c)
  <2>1. c \notin Drivers
    BY <1>11 DEF SubmitSave, SubmitReboot
  <2>2. /\ pc' = [pc EXCEPT ![c] = "unlock"]
        /\ outcome' \in {[outcome EXCEPT ![c] = "ok"], [outcome EXCEPT ![c] = "error"]}
        /\ UNCHANGED <<row, attached, asked, want, field, overlap>>
    BY <1>11 DEF SubmitSave, SubmitReboot, Finish, Proceed
  <2> HIDE <1>11
  <2> QED
    BY <2>1, <2>2
<1> QED
  BY <1>1, <1>2, <1>3, <1>4, <1>5, <1>6, <1>7, <1>8, <1>9, <1>10, <1>11, <1>12 DEF ClientStep, Step

LEMMA InitTyped == Init => Typed
<1> SUFFICES ASSUME Init
             PROVE  Typed
  OBVIOUS
<1>1. PICK state \in {"Enable", "Disable"} :
        row = [state |-> state, priority |-> asked, power |-> (attached /\ state = "Enable")]
  BY DEF Init
<1>2. (attached /\ state = "Enable") \in BOOLEAN
  OBVIOUS
<1>3. row \in [state : {"Enable", "Disable"}, priority : Priorities, power : BOOLEAN]
  BY <1>1, <1>2 DEF Init
<1>4. startup \in Configurations
  <2>1. startup = [state |-> row.state, priority |-> row.priority]
    BY DEF Init
  <2> QED
    BY <1>3, <2>1 DEF Configurations
<1>5. TypeOK
  <2>1. rebooting \in BOOLEAN /\ overlap \in BOOLEAN
    BY DEF Init
  <2> QED
    BY <1>3, <1>4, <2>1, MaxPollsNat DEF Init, TypeOK, Labels, Requests, Wants
<1>6. WantInv
  BY DEF Init, WantInv, Clients
<1> QED
  BY <1>5, <1>6 DEF Typed

LEMMA EnvironmentStep ==
    ASSUME StockInv, PowerSettles \/ Reboots \/ BrowserLogin \/ UNCHANGED vars
    PROVE  StockInv'
<1>1. Typed'
  <2>1. [Next]_vars
    BY DEF Next
  <2> QED
    BY <2>1, TypeStep, WantStep DEF StockInv, Typed
<1> USE DEF StockInv, Typed, TypeOK, LockInv, Working, TokenInv, ReadInv, RowInv,
            SiblingsKept, SuccessIsReal, RowIs, callVars, lockVars, webVars, switchVars
<1>2. CASE PowerSettles
  <2>1. /\ row'.state = row.state /\ row'.priority = row.priority
        /\ row'.power = (attached /\ row.state = "Enable")
        /\ row.power # row'.power
        /\ UNCHANGED <<startup, attached, asked, rebooting, webVars, callVars>>
    BY <1>2 DEF PowerSettles
  <2> QED
    BY <1>1, <2>1
<1>3. CASE Reboots
  <2>1. /\ rebooting /\ rebooting' = FALSE
        /\ row'.power = FALSE /\ row'.priority = asked'
        /\ owner' = Browser
        /\ UNCHANGED <<attached, web, callVars>>
    BY <1>3 DEF Reboots, NobodysSession
  <2>2. TokenInv'
    BY <2>1, BrowserOutside
  <2>3. LockInv' /\ RowInv' /\ SiblingsKept'
    BY <2>1
  <2>4. ReadInv' /\ SuccessIsReal'
    <3>1. ~overlap => \A c \in Drivers : pc[c] \notin Requests \cup {"unlock"}
      BY <2>1 DEF Clients
    <3> QED
      BY <2>1, <3>1 DEF Requests, Fetched, Clients
  <2> QED
    BY <1>1, <2>2, <2>3, <2>4
<1>4. CASE BrowserLogin
  BY <1>1, <1>4, BrowserOutside DEF BrowserLogin, NobodysSession
<1>5. CASE UNCHANGED vars
  BY <1>1, <1>5 DEF vars
<1> QED
  BY <1>2, <1>3, <1>4, <1>5

LEMMA StockInvariant == Spec => []StockInv
<1>1. Init => StockInv
  <2> SUFFICES ASSUME Init
               PROVE  StockInv
    OBVIOUS
  <2>1. Typed
    BY InitTyped
  <2>2. LockInv /\ TokenInv /\ ReadInv /\ SuccessIsReal
    BY BrowserOutside
    DEF Init, Labels, Requests, Fetched, Clients, LockInv, Working, TokenInv, ReadInv,
        SuccessIsReal
  <2>3. RowInv /\ SiblingsKept
    <3>1. PICK state \in {"Enable", "Disable"} :
            row = [state |-> state, priority |-> asked,
                   power |-> (attached /\ state = "Enable")]
      BY DEF Init
    <3>2. row.priority = asked /\ (row.power => attached)
      BY <3>1
    <3>3. \A c \in Clients : outcome[c] # "ok"
      BY DEF Init
    <3> QED
      BY <3>2, <3>3 DEF RowInv, SiblingsKept
  <2> QED
    BY <2>1, <2>2, <2>3 DEF StockInv
<1>2. StockInv /\ [Next]_vars => StockInv'
  <2> SUFFICES ASSUME StockInv, [Next]_vars
               PROVE  StockInv'
    OBVIOUS
  <2>1. ASSUME NEW c \in Clients, ClientStep(c)
        PROVE  StockInv'
    <3>1. Typed'
      BY TypeStep, WantStep DEF StockInv, Typed
    <3>2. LockInv'
      BY <2>1, LockStep DEF StockInv, Typed
    <3>3. TokenInv'
      BY <2>1, TokenStep DEF StockInv, Typed
    <3>4. RowInv' /\ ReadInv' /\ SiblingsKept' /\ SuccessIsReal'
      BY <2>1, RowStep DEF StockInv, Typed
    <3> QED
      BY <3>1, <3>2, <3>3, <3>4 DEF StockInv
  <2>2. CASE PowerSettles \/ Reboots \/ BrowserLogin \/ UNCHANGED vars
    BY <2>2, EnvironmentStep
  <2> QED
    BY <2>1, <2>2 DEF Next, ClientStep
<1> QED
  BY <1>1, <1>2, PTL DEF Spec

\* Unless calls overlap, a verified toggle has happened, for any clients and lock files.
THEOREM VerifiedTogglesAreReal == Spec => []SuccessIsReal
<1>1. StockInv => SuccessIsReal
  BY DEF StockInv
<1> QED
  BY <1>1, StockInvariant, PTL

\* Unless calls overlap, no toggle undoes a repair, whichever lock files the repairers
\* take.
THEOREM TogglesKeepSiblings == Spec => []SiblingsKept
<1>1. StockInv => SiblingsKept
  BY DEF StockInv
<1> QED
  BY <1>1, StockInvariant, PTL

\* An answered write carried the token of its session or followed a login that broke
\* off before it had one, for any clients, evictions and lock files.
THEOREM AnsweredWritesHaveLanded == Spec => AnsweredWritesLand
<1>1. ASSUME StockInv, [Next]_vars, NEW c \in Clients, pc[c] = "post" /\ pc'[c] = "poll"
      PROVE  FormIsFresh(c) \/ c \in tokenless
  BY <1>1, OnlyAnswersProceed, AnsweredIsFresh DEF StockInv, Typed
<1>2. StockInv /\ [Next]_vars =>
        [\A c \in Clients : pc[c] = "post" /\ pc'[c] = "poll" =>
            FormIsFresh(c) \/ c \in tokenless]_vars
  BY <1>1
<1> QED
  BY <1>2, StockInvariant, PTL DEF Spec, AnsweredWritesLand

\* Calls, the web session, its tokens and the port's row stay well-typed, for any
\* lock files.
THEOREM TypeCorrect == Spec => []TypeOK
<1>1. Typed /\ [Next]_vars => Typed'
  BY TypeStep, WantStep DEF Typed
<1>2. Typed => TypeOK
  BY DEF Typed
<1> QED
  BY InitTyped, <1>1, <1>2, PTL DEF Spec
=============================================================================
