------------------------------- MODULE NetFS -------------------------------
(***************************************************************************)
(* misc/netfs1 and netfs2, challenge/server.py: a server that forks a      *)
(* process per connection; a session logs in and is then served files.     *)
(* Every blocking part stands in "with Timeout(n)", whose SIGALRM raises   *)
(* TimeoutError at whatever statement the session has reached. The two     *)
(* servers differ in what a wrong password leads to.                       *)
(***************************************************************************)
EXTENDS Naturals

CONSTANTS
    Session,      \* the connections of a run (bound), and the processes that serve them
    Editions,     \* the servers of a run
    PasswordLen   \* length of both passwords, for admin scaled down

Server == "server"

ASSUME SessionAssumption == Server \notin Session
\* The assert on admin's password; guest's is "guest".
ASSUME PasswordAssumption == PasswordLen \in Nat \ {0}

\* slow: a wrong password is refused only when the time for it is up.
netfs1 == [slow |-> FALSE, late |-> "timeout"]
netfs2 == [slow |-> TRUE,  late |-> "incorrect"]

ASSUME EditionsAssumption == Editions \subseteq {netfs1, netfs2}

Users == {"guest", "admin"}
Paths == {"public", "protected"}

VARIABLES
    edition,    \* netfs1 or netfs2
    srv,        \* where the accept loop is
    newest,     \* the connection it has accepted last
    held,       \* [process -> connections it has a descriptor of]
    children,   \* the list ps: started and not yet joined
    pc,         \* [Session -> statement of its process]
    client,     \* [Session -> BOOLEAN]: the client is still there
    alarm,      \* [Session -> state of its SIGALRM]: off, on, or spent: raised and swallowed
    late,       \* [Session -> BOOLEAN]: the time of its latest Timeout is up
    user,       \* [Session -> the name it logs in with]
    auth,       \* [Session -> BOOLEAN]: _auth
    right,      \* [Session -> number of characters of the password it has got right]
    told        \* [Session -> SUBSET verdicts it was sent]

srvVars == <<srv, newest, held, children>>
vars == <<edition, srv, newest, held, children, pc, client, alarm, late, user, auth, right,
          told>>

Alive == {s \in Session : pc[s] \notin {"none", "gone"}}

\* The statements within authenticate's two "with Timeout", and within serve's.
Login   == {"askName", "name", "noUser", "leaveName", "askPassword", "password", "newline",
            "wrong", "wait", "reject", "leavePassword", "leave"}
Serving == {"prompt", "path", "opening", "reading", "answer", "leave"}

Init ==
    /\ edition \in Editions
    /\ srv = "accept" /\ newest \in Session /\ children = {}
    /\ held = [p \in Session \cup {Server} |-> {}]
    /\ pc = [s \in Session |-> "none"]
    /\ client = [s \in Session |-> FALSE]
    /\ alarm = [s \in Session |-> "off"]
    /\ late = [s \in Session |-> FALSE]
    /\ user = [s \in Session |-> "guest"]
    /\ auth = [s \in Session |-> FALSE]
    /\ right = [s \in Session |-> 0]
    /\ told = [s \in Session |-> {}]

-----------------------------------------------------------------------------
(* The accept loop *)

SessionVars == <<edition, alarm, late, user, auth, right, told>>

Accept(s) ==
    /\ srv = "accept" /\ pc[s] = "none" /\ ~client[s]
    /\ client' = [client EXCEPT ![s] = TRUE]
    /\ held' = [held EXCEPT ![Server] = @ \cup {s}]
    /\ newest' = s /\ srv' = "fork"
    /\ UNCHANGED <<children, pc, SessionVars>>

\* The child has every descriptor of its parent. Process.start first joins the dead.
Fork ==
    /\ srv = "fork"
    /\ held' = [held EXCEPT ![newest] = held[Server]]
    /\ pc' = [pc EXCEPT ![newest] = "start"]
    /\ children' = (children \cap Alive) \cup {newest}
    /\ srv' = "close"
    /\ UNCHANGED <<newest, client, SessionVars>>

Release_KeepsOpen(conns, c) == conns

Release(conns, c) == conns \ {c}

Close ==
    /\ srv = "close"
    /\ held' = [held EXCEPT ![Server] = Release(@, newest)]
    /\ srv' = "reap"
    /\ UNCHANGED <<newest, children, pc, client, SessionVars>>

Reap ==
    /\ srv = "reap"
    /\ children' = children \cap Alive
    /\ srv' = "accept"
    /\ UNCHANGED <<newest, held, pc, client, SessionVars>>

-----------------------------------------------------------------------------
(* class Timeout *)

At(s, here, there) ==
    /\ pc[s] = here
    /\ pc' = [pc EXCEPT ![s] = there]
    /\ UNCHANGED <<edition, srvVars, client>>

Clock(s) == <<alarm, late>>
Who == <<user, auth, right>>

Enter(s, here, there) ==
    /\ At(s, here, there)
    /\ alarm' = [alarm EXCEPT ![s] = "on"]
    /\ late' = [late EXCEPT ![s] = FALSE]
    /\ UNCHANGED <<Who, told>>

Cancelled_Runs(a) == a

Cancelled(a) == "off"

Exit(s, here, there) ==
    /\ At(s, here, there)
    /\ alarm' = [alarm EXCEPT ![s] = Cancelled(@)]
    /\ UNCHANGED <<late, Who, told>>

Plain(s, here, there) ==
    /\ At(s, here, there)
    /\ UNCHANGED <<alarm, late, Who, told>>

Say(s, here, there, verdict) ==
    /\ At(s, here, there)
    /\ told' = [told EXCEPT ![s] = @ \cup verdict]
    /\ UNCHANGED <<alarm, late, Who>>

\* A bare except around open, and one of OSError around read, catch the TimeoutError too.
Swallowing == {"opening", "reading"}

\* Time is up while the alarm is on: handle_timeout raises where the session stands, and
\* it is caught around the statement, by pynetfs_main, or ends serve.
TimeOut(s) ==
    /\ alarm[s] = "on" /\ pc[s] \in Login \cup Serving
    /\ late' = [late EXCEPT ![s] = TRUE]
    /\ alarm' = [alarm EXCEPT ![s] = IF pc[s] \in Swallowing THEN "spent" ELSE "off"]
    /\ pc' = [pc EXCEPT ![s] = IF pc[s] \in Swallowing THEN "answer"
                                 ELSE IF auth[s] THEN "over" ELSE "tooLate"]
    /\ UNCHANGED <<edition, srvVars, client, Who, told>>

TimePasses(s) ==
    /\ pc[s] = "wait" /\ ~late[s]
    /\ late' = [late EXCEPT ![s] = TRUE]
    /\ UNCHANGED <<edition, srvVars, pc, client, alarm, Who, told>>

-----------------------------------------------------------------------------
(* authenticate; a line or a character comes from the client, or the end of its input *)

AskName(s) == Say(s, "askName", "name", {})

\* recvline, and the look-up in LOGIN_USERS.
Name(s) ==
    \/ /\ client[s]
       /\ \/ /\ At(s, "name", "leaveName")
             /\ \E u \in Users : user' = [user EXCEPT ![s] = u]
             /\ UNCHANGED <<alarm, late, auth, right, told>>
          \/ Plain(s, "name", "noUser")
    \/ ~client[s] /\ Plain(s, "name", "leave")

NoUser(s) == Say(s, "noUser", "leave", {"noUser"})

LeaveName(s) == Exit(s, "leaveName", "enterPassword")

EnterPassword(s) == Enter(s, "enterPassword", "askPassword")

AskPassword(s) == Say(s, "askPassword", "password", {})

RightCharacter_Longer(s) ==
    /\ client[s]
    /\ At(s, "password", IF right[s] = PasswordLen THEN "newline" ELSE "password")
    /\ right' = [right EXCEPT ![s] = @ + 1]
    /\ UNCHANGED <<alarm, late, user, auth, told>>

RightCharacter(s) ==
    /\ client[s]
    /\ At(s, "password", IF right[s] + 1 = PasswordLen THEN "newline" ELSE "password")
    /\ right' = [right EXCEPT ![s] = @ + 1]
    /\ UNCHANGED <<alarm, late, user, auth, told>>

WrongCharacter(s) == client[s] /\ Plain(s, "password", "wrong")

NoCharacter(s) ==
    ~client[s] /\ Plain(s, "password", IF edition.slow THEN "wrong" ELSE "leave")

\* recv(1) # b'\n' is also true of the end of the input.
Newline(s) ==
    \/ client[s] /\ Plain(s, "newline", "leavePassword")
    \/ Plain(s, "newline", "wrong")

Wrong_AtOnce(s) == Plain(s, "wrong", "reject")

\* netfs2 calls timer.wait(), which first of all switches the alarm off.
Wrong(s) ==
    IF edition.slow THEN Exit(s, "wrong", "wait") ELSE Plain(s, "wrong", "reject")

Wait(s) == late[s] /\ Plain(s, "wait", "reject")

Reject(s) == Say(s, "reject", "leave", {"incorrect"})

LeavePassword(s) == Exit(s, "leavePassword", "welcome")

Welcome(s) ==
    /\ At(s, "welcome", "enterServe")
    /\ auth' = [auth EXCEPT ![s] = TRUE]
    /\ told' = [told EXCEPT ![s] = @ \cup {"loggedIn"}]
    /\ UNCHANGED <<alarm, late, user, right>>

\* pynetfs_main, except TimeoutError.
TooLate(s) == Say(s, "tooLate", "over", {edition.late})

Leave(s) == Exit(s, "leave", "over")

-----------------------------------------------------------------------------
(* serve *)

EnterServe_Untimed(s) == Plain(s, "enterServe", "prompt")

EnterServe(s) == Enter(s, "enterServe", "prompt")

Prompt(s) == Say(s, "prompt", "path", {})

Path(s) ==
    \/ /\ client[s]
       /\ \E f \in Paths :
            Plain(s, "path", IF f = "protected" /\ user[s] # "admin"
                             THEN "answer" ELSE "opening")
    \/ ~client[s] /\ Plain(s, "path", "leave")

\* The file may be missing, forbidden, or impossible to open.
Open(s) == \E there \in {"reading", "answer"} : Plain(s, "opening", there)

\* The file is read and sent, or an OSError of either is answered with an error.
Read(s) == \E there \in {"prompt", "answer"} : Plain(s, "reading", there)

\* Permission denied, File not found, System error.
Answer(s) == Say(s, "answer", "prompt", {})

-----------------------------------------------------------------------------
(* The client, and the end of a session *)

HangUp(s) ==
    /\ client[s]
    /\ client' = [client EXCEPT ![s] = FALSE]
    /\ UNCHANGED <<srvVars, pc, SessionVars>>

\* send or recv raises an OSError once the client is gone: caught only around read.
Broken(s) ==
    /\ ~client[s]
    /\ pc[s] \in {"askName", "name", "noUser", "askPassword", "password", "newline", "reject",
                  "welcome", "tooLate", "prompt", "path", "reading", "answer"}
    /\ pc' = [pc EXCEPT ![s] = IF pc[s] = "reading" THEN "answer" ELSE "over"]
    /\ alarm' = [alarm EXCEPT ![s] = IF pc[s] = "reading" THEN @ ELSE "off"]
    /\ UNCHANGED <<edition, srvVars, client, late, Who, told>>

\* The process ends: its descriptors are closed and its memory is no more.
Finish(s) ==
    /\ pc[s] = "over"
    /\ pc' = [pc EXCEPT ![s] = "gone"]
    /\ held' = [held EXCEPT ![s] = {}]
    /\ user' = [user EXCEPT ![s] = "guest"] /\ auth' = [auth EXCEPT ![s] = FALSE]
    /\ right' = [right EXCEPT ![s] = 0] /\ alarm' = [alarm EXCEPT ![s] = "off"]
    /\ UNCHANGED <<edition, srv, newest, children, client, late, told>>

-----------------------------------------------------------------------------

Start(s) == Enter(s, "start", "askName")

\* What the process of a session does without waiting for its client.
Own(s) ==
    \/ Start(s) \/ AskName(s) \/ NoUser(s) \/ LeaveName(s)
    \/ EnterPassword(s) \/ AskPassword(s) \/ Wrong(s) \/ Wait(s) \/ Reject(s)
    \/ LeavePassword(s) \/ Welcome(s) \/ TooLate(s) \/ Leave(s)
    \/ EnterServe(s) \/ Finish(s)

\* What waits for the client: for its input, or for room to send a file to it.
WithClient(s) ==
    \/ Name(s) \/ RightCharacter(s) \/ WrongCharacter(s) \/ NoCharacter(s) \/ Newline(s)
    \/ Prompt(s) \/ Path(s) \/ Open(s) \/ Read(s) \/ Answer(s)
    \/ HangUp(s) \/ Broken(s)

Listen == Fork \/ Close \/ Reap \/ \E s \in Session : Accept(s)

Next ==
    \/ Listen
    \/ \E s \in Session : Own(s) \/ WithClient(s) \/ TimeOut(s) \/ TimePasses(s)

Spec == Init /\ [][Next]_vars

\* The server and its processes run and clocks go on; clients owe nothing. What is sent
\* before a session is served fits into the socket's buffer.
FairSpec ==
    /\ Spec
    /\ WF_vars(Fork \/ Close \/ Reap)
    /\ \A s \in Session : WF_vars(Own(s)) /\ WF_vars(TimeOut(s) \/ TimePasses(s))

-----------------------------------------------------------------------------

(* The variables keep their types, and the server is the parent of every live process. *)
TypeOK ==
    /\ edition \in {netfs1, netfs2}
    /\ srv \in {"accept", "fork", "close", "reap"} /\ newest \in Session
    /\ held \in [Session \cup {Server} -> SUBSET Session]
    /\ Alive \subseteq children /\ children \subseteq Session
    /\ pc \in [Session -> Login \cup Serving \cup {"none", "start", "enterPassword",
                 "welcome", "enterServe", "tooLate", "over", "gone"}]
    /\ client \in [Session -> BOOLEAN] /\ auth \in [Session -> BOOLEAN]
    /\ alarm \in [Session -> {"off", "on", "spent"}] /\ late \in [Session -> BOOLEAN]
    /\ user \in [Session -> Users] /\ right \in [Session -> 0 .. PasswordLen]
    /\ told \in [Session -> SUBSET {"noUser", "incorrect", "timeout", "loggedIn"}]

(* The alarm is on only inside a "with Timeout": a TimeoutError raised outside of one,  *)
(* in the welcome or in pynetfs_main's own handler, would be caught by nobody.          *)
AlarmInside == \A s \in Session : alarm[s] # "off" => pc[s] \in Login \cup Serving

(* netfs2/task.yml: "delays for few seconds when I enter an invalid password". Whichever *)
(* way a login fails, nobody is told "Incorrect password." before the time of its        *)
(* Timeout is up; and nobody is told it who is logged in.                                *)
NoEarlyVerdict ==
    \A s \in Session : "incorrect" \in told[s] =>
        /\ edition = netfs2 => late[s]
        /\ "loggedIn" \notin told[s]

(* A process has a descriptor of its own connection and of no other's, and the server   *)
(* only of the one it is about to hand over: a connection ends with its session.        *)
OwnConnection ==
    /\ \A s \in Session : held[s] = IF s \in Alive THEN {s} ELSE {}
    /\ held[Server] = IF srv \in {"fork", "close"} THEN {newest} ELSE {}

-----------------------------------------------------------------------------
(* The inductive invariant: what a session has been told, and may still be told, follows *)
(* from the statement it stands at.                                                      *)

Unserved == (Login \ {"leave"}) \cup {"none", "start", "enterPassword", "welcome", "tooLate"}

\* A refusal is the last thing a session is told; nobody is logged in before the welcome.
Verdicts ==
    \A s \in Session :
        /\ "incorrect" \in told[s] => pc[s] \in {"leave", "tooLate", "over", "gone"}
        /\ pc[s] \in Unserved => ~auth[s] /\ "loggedIn" \notin told[s]
        /\ ~auth[s] => pc[s] = "gone" \/ "loggedIn" \notin told[s]

\* Where a session is refused, its time is up, if its server makes it wait.
Delayed ==
    \A s \in Session :
        /\ pc[s] = "reject" /\ edition = netfs2 => late[s]
        /\ pc[s] = "tooLate" => late[s]

\* The password is compared from its beginning, and only as long as it is incomplete.
Compared ==
    \A s \in Session :
        /\ pc[s] \in {"none", "start", "askName", "name", "noUser", "leaveName",
                      "enterPassword", "askPassword"} => right[s] = 0
        /\ pc[s] = "password" => right[s] < PasswordLen
        /\ pc[s] \in {"newline", "leavePassword", "welcome", "enterServe"} \cup (Serving \ {"leave"})
               => right[s] = PasswordLen
        /\ auth[s] => right[s] = PasswordLen

\* The server forks for a connection nobody serves yet.
Fresh == srv = "fork" => pc[newest] = "none"

(* All of it, which every step of server, sessions, alarms and clients keeps.            *)
NetInv ==
    /\ TypeOK /\ AlarmInside /\ NoEarlyVerdict /\ OwnConnection
    /\ Verdicts /\ Delayed /\ Compared /\ Fresh

-----------------------------------------------------------------------------

(* A session ends although its client may be silent or never reads what it is sent: the *)
(* alarms see to it, unless the only alarm of serve was swallowed around open or read.  *)
SessionEnds == \A s \in Session : pc[s] = "start" ~> (pc[s] = "gone" \/ alarm[s] = "spent")
=============================================================================
