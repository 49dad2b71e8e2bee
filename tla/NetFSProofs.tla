---------------------------- MODULE NetFSProofs ----------------------------
(***************************************************************************)
(* For any number of connections and any password: whoever is served has   *)
(* given the whole password, whoever is refused has waited, an alarm is    *)
(* always caught, and a connection ends with its session.                  *)
(***************************************************************************)
EXTENDS NetFS, TLAPS

USE SessionAssumption, PasswordAssumption, EditionsAssumption

Statement == Login \cup Serving \cup {"none", "start", "enterPassword", "welcome",
                                      "enterServe", "tooLate", "over", "gone"}

\* The types of what belongs to a session.
Typed ==
    /\ pc \in [Session -> Statement]
    /\ client \in [Session -> BOOLEAN] /\ auth \in [Session -> BOOLEAN]
    /\ alarm \in [Session -> {"off", "on", "spent"}] /\ late \in [Session -> BOOLEAN]
    /\ user \in [Session -> Users] /\ right \in [Session -> 0 .. PasswordLen]
    /\ told \in [Session -> SUBSET {"noUser", "incorrect", "timeout", "loggedIn"}]

\* The parts of the invariant that are about one session.
Heard(s) ==
    /\ "incorrect" \in told[s] /\ edition = netfs2 => late[s]
    /\ "incorrect" \in told[s] => "loggedIn" \notin told[s]
    /\ "incorrect" \in told[s] => pc[s] \in {"leave", "tooLate", "over", "gone"}
    /\ pc[s] \in Unserved => ~auth[s] /\ "loggedIn" \notin told[s]
    /\ ~auth[s] => pc[s] = "gone" \/ "loggedIn" \notin told[s]
    /\ pc[s] = "reject" /\ edition = netfs2 => late[s]
    /\ pc[s] = "tooLate" => late[s]

Guessed(s) ==
    /\ pc[s] \in {"none", "start", "askName", "name", "noUser", "leaveName",
                  "enterPassword", "askPassword"} => right[s] = 0
    /\ pc[s] = "password" => right[s] < PasswordLen
    /\ pc[s] \in {"newline", "leavePassword", "welcome", "enterServe"} \cup (Serving \ {"leave"})
           => right[s] = PasswordLen
    /\ auth[s] => right[s] = PasswordLen

Timed(s) == alarm[s] # "off" => pc[s] \in Login \cup Serving

Local(s) == Heard(s) /\ Guessed(s) /\ Timed(s)

\* The parts that are about the server.
Kept ==
    /\ edition \in {netfs1, netfs2}
    /\ srv \in {"accept", "fork", "close", "reap"} /\ newest \in Session
    /\ held \in [Session \cup {Server} -> SUBSET Session]
    /\ Alive \subseteq children /\ children \subseteq Session
    /\ OwnConnection /\ Fresh

(* The invariant, part by part. *)
LEMMA Parts == NetInv <=> Typed /\ Kept /\ \A s \in Session : Local(s)
  <1>1. TypeOK /\ OwnConnection /\ Fresh <=> Typed /\ Kept
    BY DEF TypeOK, Typed, Kept, Statement
  <1>2. NoEarlyVerdict /\ Verdicts /\ Delayed <=> \A s \in Session : Heard(s)
    BY Zenon DEF NoEarlyVerdict, Verdicts, Delayed, Heard
  <1>3. Compared <=> \A s \in Session : Guessed(s)
    BY Zenon DEF Compared, Guessed
  <1>4. AlarmInside <=> \A s \in Session : Timed(s)
    BY Zenon DEF AlarmInside, Timed
  <1>5. (\A s \in Session : Local(s)) <=> /\ \A s \in Session : Heard(s)
                                          /\ \A s \in Session : Guessed(s)
                                          /\ \A s \in Session : Timed(s)
    BY Zenon DEF Local
  <1> QED BY <1>1, <1>2, <1>3, <1>4, <1>5, Zenon DEF NetInv

(* The same of the next state. *)
LEMMA PartsNext == NetInv' <=> Typed' /\ Kept' /\ (\A s \in Session : Local(s))'
  BY Parts, PTL

(* The two editions: which one waits, and what its handler of a timeout says. *)
LEMMA EditionFacts ==
  ASSUME edition \in {netfs1, netfs2}
  PROVE  /\ edition.slow <=> edition = netfs2
         /\ edition.late \in {"timeout", "incorrect"}
         /\ edition.late = "incorrect" => edition = netfs2
  <1>1. netfs1.slow = FALSE /\ netfs2.slow = TRUE /\ netfs1.late = "timeout"
        /\ netfs2.late = "incorrect"
    BY DEF netfs1, netfs2
  <1> QED BY <1>1

-----------------------------------------------------------------------------
(* A session's own steps leave the server and the other sessions alone *)

Same(t) ==
    /\ pc'[t] = pc[t] /\ alarm'[t] = alarm[t] /\ late'[t] = late[t]
    /\ auth'[t] = auth[t] /\ right'[t] = right[t] /\ told'[t] = told[t]

Lives(p) == p \notin {"none", "gone"}

\* What every such step does.
Moves(s) ==
    /\ UNCHANGED <<edition, srvVars>>
    /\ Typed'
    /\ Lives(pc[s]) /\ Lives(pc'[s])
    /\ \A t \in Session \ {s} : Same(t)

(* It is enough to look at the session that moves. *)
LEMMA MovesKeep ==
  ASSUME Typed, Kept, \A t \in Session : Local(t), NEW s \in Session, Moves(s), Local(s)'
  PROVE  NetInv'
  <1>1. ASSUME NEW t \in Session, t # s PROVE Local(t)'
    <2>1. Same(t) /\ edition' = edition /\ Local(t)
      BY <1>1 DEF Moves
    <2>2. Heard(t)'
      BY <2>1 DEF Local, Heard, Same
    <2>3. Guessed(t)'
      BY <2>1 DEF Local, Guessed, Same
    <2>4. Timed(t)'
      BY <2>1 DEF Local, Timed, Same
    <2> QED BY <2>2, <2>3, <2>4 DEF Local
  <1>2. \A t \in Session : Lives(pc'[t]) <=> Lives(pc[t])
    BY DEF Moves, Same
  <1>3. Alive' = Alive
    BY <1>2 DEF Alive, Lives
  <1>4. Fresh'
    BY DEF Kept, Fresh, Moves, srvVars, Same, Lives
  <1>5. OwnConnection'
    BY <1>3 DEF Kept, OwnConnection, Moves, srvVars
  <1>6. Kept'
    BY <1>3, <1>4, <1>5 DEF Kept, Moves, srvVars
  <1>7. \A t \in Session : Local(t)'
    BY <1>1
  <1>8. Typed'
    BY DEF Moves
  <1> QED BY <1>6, <1>7, <1>8, PartsNext

(* What each of these steps changes, and that it keeps the invariant of its session. *)
LEMMA SessionStep ==
  ASSUME NetInv, NEW s \in Session,
         \/ Own(s) /\ ~Finish(s)
         \/ WithClient(s) \/ TimeOut(s) \/ TimePasses(s)
  PROVE  NetInv'
  <1>0. Typed /\ Kept /\ \A t \in Session : Local(t)
    BY Parts
  <1>50. /\ edition.slow <=> edition = netfs2
         /\ edition.late \in {"timeout", "incorrect"}
         /\ edition.late = "incorrect" => edition = netfs2
    BY <1>0, EditionFacts DEF Kept
  <1>51. Local(s)
    BY <1>0
  <1>1. ASSUME Start(s) PROVE NetInv'
    <2>1. Moves(s)
      BY <1>0, <1>1, <1>50, <1>51 DEF Start, Enter, At, Clock, Who, srvVars, Moves, Same, Lives, Typed,
         Statement, Login, Serving, Users, Local, Guessed
    <2>2. Local(s)'
      BY <1>0, <1>1, <1>50, <1>51, <2>1 DEF Start, Enter, At, Clock, Who, srvVars, Local, Heard, Guessed, Timed,
         Unserved, Login, Serving, Typed, Moves
    <2> QED BY <1>0, <2>1, <2>2, MovesKeep
  <1>2. ASSUME AskName(s) PROVE NetInv'
    <2>1. Moves(s)
      BY <1>0, <1>2, <1>50, <1>51 DEF AskName, Say, At, Clock, Who, srvVars, Moves, Same, Lives, Typed,
         Statement, Login, Serving, Users, Local, Guessed
    <2>2. Local(s)'
      BY <1>0, <1>2, <1>50, <1>51, <2>1 DEF AskName, Say, At, Clock, Who, srvVars, Local, Heard, Guessed, Timed,
         Unserved, Login, Serving, Typed, Moves
    <2> QED BY <1>0, <2>1, <2>2, MovesKeep
  <1>3. ASSUME Name(s) PROVE NetInv'
    <2>1. Moves(s)
      BY <1>0, <1>3, <1>50, <1>51 DEF Name, At, Plain, Clock, Who, srvVars, Moves, Same, Lives, Typed,
         Statement, Login, Serving, Users, Local, Guessed
    <2>2. Local(s)'
      BY <1>0, <1>3, <1>50, <1>51, <2>1 DEF Name, At, Plain, Clock, Who, srvVars, Local, Heard, Guessed, Timed,
         Unserved, Login, Serving, Typed, Moves
    <2> QED BY <1>0, <2>1, <2>2, MovesKeep
  <1>4. ASSUME NoUser(s) PROVE NetInv'
    <2>1. Moves(s)
      BY <1>0, <1>4, <1>50, <1>51 DEF NoUser, Say, At, Clock, Who, srvVars, Moves, Same, Lives, Typed,
         Statement, Login, Serving, Users, Local, Guessed
    <2>2. Local(s)'
      BY <1>0, <1>4, <1>50, <1>51, <2>1 DEF NoUser, Say, At, Clock, Who, srvVars, Local, Heard, Guessed, Timed,
         Unserved, Login, Serving, Typed, Moves
    <2> QED BY <1>0, <2>1, <2>2, MovesKeep
  <1>5. ASSUME LeaveName(s) PROVE NetInv'
    <2>1. Moves(s)
      BY <1>0, <1>5, <1>50, <1>51 DEF LeaveName, Exit, At, Cancelled, Clock, Who, srvVars, Moves, Same, Lives, Typed,
         Statement, Login, Serving, Users, Local, Guessed
    <2>2. Local(s)'
      BY <1>0, <1>5, <1>50, <1>51, <2>1 DEF LeaveName, Exit, At, Cancelled, Clock, Who, srvVars, Local, Heard, Guessed, Timed,
         Unserved, Login, Serving, Typed, Moves
    <2> QED BY <1>0, <2>1, <2>2, MovesKeep
  <1>6. ASSUME EnterPassword(s) PROVE NetInv'
    <2>1. Moves(s)
      BY <1>0, <1>6, <1>50, <1>51 DEF EnterPassword, Enter, At, Clock, Who, srvVars, Moves, Same, Lives, Typed,
         Statement, Login, Serving, Users, Local, Guessed
    <2>2. Local(s)'
      BY <1>0, <1>6, <1>50, <1>51, <2>1 DEF EnterPassword, Enter, At, Clock, Who, srvVars, Local, Heard, Guessed, Timed,
         Unserved, Login, Serving, Typed, Moves
    <2> QED BY <1>0, <2>1, <2>2, MovesKeep
  <1>7. ASSUME AskPassword(s) PROVE NetInv'
    <2>1. Moves(s)
      BY <1>0, <1>7, <1>50, <1>51 DEF AskPassword, Say, At, Clock, Who, srvVars, Moves, Same, Lives, Typed,
         Statement, Login, Serving, Users, Local, Guessed
    <2>2. Local(s)'
      BY <1>0, <1>7, <1>50, <1>51, <2>1 DEF AskPassword, Say, At, Clock, Who, srvVars, Local, Heard, Guessed, Timed,
         Unserved, Login, Serving, Typed, Moves
    <2> QED BY <1>0, <2>1, <2>2, MovesKeep
  <1>8. ASSUME RightCharacter(s) PROVE NetInv'
    <2>1. Moves(s)
      BY <1>0, <1>8, <1>50, <1>51 DEF RightCharacter, At, Clock, Who, srvVars, Moves, Same, Lives, Typed,
         Statement, Login, Serving, Users, Local, Guessed
    <2>2. Local(s)'
      BY <1>0, <1>8, <1>50, <1>51, <2>1 DEF RightCharacter, At, Clock, Who, srvVars, Local, Heard, Guessed, Timed,
         Unserved, Login, Serving, Typed, Moves
    <2> QED BY <1>0, <2>1, <2>2, MovesKeep
  <1>9. ASSUME WrongCharacter(s) PROVE NetInv'
    <2>1. Moves(s)
      BY <1>0, <1>9, <1>50, <1>51 DEF WrongCharacter, Plain, At, Clock, Who, srvVars, Moves, Same, Lives, Typed,
         Statement, Login, Serving, Users, Local, Guessed
    <2>2. Local(s)'
      BY <1>0, <1>9, <1>50, <1>51, <2>1 DEF WrongCharacter, Plain, At, Clock, Who, srvVars, Local, Heard, Guessed, Timed,
         Unserved, Login, Serving, Typed, Moves
    <2> QED BY <1>0, <2>1, <2>2, MovesKeep
  <1>10. ASSUME NoCharacter(s) PROVE NetInv'
    <2>1. Moves(s)
      BY <1>0, <1>10, <1>50, <1>51 DEF NoCharacter, Plain, At, Clock, Who, srvVars, Moves, Same, Lives, Typed,
         Statement, Login, Serving, Users, Local, Guessed
    <2>2. Local(s)'
      BY <1>0, <1>10, <1>50, <1>51, <2>1 DEF NoCharacter, Plain, At, Clock, Who, srvVars, Local, Heard, Guessed, Timed,
         Unserved, Login, Serving, Typed, Moves
    <2> QED BY <1>0, <2>1, <2>2, MovesKeep
  <1>11. ASSUME Newline(s) PROVE NetInv'
    <2>1. Moves(s)
      BY <1>0, <1>11, <1>50, <1>51 DEF Newline, Plain, At, Clock, Who, srvVars, Moves, Same, Lives, Typed,
         Statement, Login, Serving, Users, Local, Guessed
    <2>2. Local(s)'
      BY <1>0, <1>11, <1>50, <1>51, <2>1 DEF Newline, Plain, At, Clock, Who, srvVars, Local, Heard, Guessed, Timed,
         Unserved, Login, Serving, Typed, Moves
    <2> QED BY <1>0, <2>1, <2>2, MovesKeep
  <1>12. ASSUME Wrong(s) PROVE NetInv'
    <2>1. Moves(s)
      BY <1>0, <1>12, <1>50, <1>51 DEF Wrong, Exit, Plain, At, Cancelled, Clock, Who, srvVars, Moves, Same,
         Lives, Typed, Statement, Login, Serving
    <2>2. /\ pc[s] = "wrong" /\ pc'[s] \in {"wait", "reject"}
          /\ pc'[s] = "reject" => edition # netfs2
          /\ UNCHANGED <<edition, late, auth, right, told>>
      <3>1. CASE edition = netfs2
        <4>1. Exit(s, "wrong", "wait")
          BY <1>12, <1>50, <3>1 DEF Wrong
        <4> QED BY <1>0, <3>1, <4>1 DEF Exit, At, Typed, Who
      <3>2. CASE edition # netfs2
        <4>1. Plain(s, "wrong", "reject")
          BY <1>12, <1>50, <3>2 DEF Wrong
        <4> QED BY <1>0, <3>2, <4>1 DEF Plain, At, Typed, Who
      <3> QED BY <3>1, <3>2
    <2>3. Local(s)'
      BY <1>0, <1>51, <2>2 DEF Local, Heard, Guessed, Timed, Unserved, Login, Serving, Typed
    <2> QED BY <1>0, <2>1, <2>3, MovesKeep
  <1>13. ASSUME Wait(s) PROVE NetInv'
    <2>1. Moves(s)
      BY <1>0, <1>13, <1>50, <1>51 DEF Wait, Plain, At, Clock, Who, srvVars, Moves, Same, Lives, Typed,
         Statement, Login, Serving, Users, Local, Guessed
    <2>2. Local(s)'
      BY <1>0, <1>13, <1>50, <1>51, <2>1 DEF Wait, Plain, At, Clock, Who, srvVars, Local, Heard, Guessed, Timed,
         Unserved, Login, Serving, Typed, Moves
    <2> QED BY <1>0, <2>1, <2>2, MovesKeep
  <1>14. ASSUME Reject(s) PROVE NetInv'
    <2>1. Moves(s)
      BY <1>0, <1>14, <1>50, <1>51 DEF Reject, Say, At, Clock, Who, srvVars, Moves, Same, Lives, Typed,
         Statement, Login, Serving, Users, Local, Guessed
    <2>2. Local(s)'
      BY <1>0, <1>14, <1>50, <1>51, <2>1 DEF Reject, Say, At, Clock, Who, srvVars, Local, Heard, Guessed, Timed,
         Unserved, Login, Serving, Typed, Moves
    <2> QED BY <1>0, <2>1, <2>2, MovesKeep
  <1>15. ASSUME LeavePassword(s) PROVE NetInv'
    <2>1. Moves(s)
      BY <1>0, <1>15, <1>50, <1>51 DEF LeavePassword, Exit, At, Cancelled, Clock, Who, srvVars, Moves, Same, Lives, Typed,
         Statement, Login, Serving, Users, Local, Guessed
    <2>2. Local(s)'
      BY <1>0, <1>15, <1>50, <1>51, <2>1 DEF LeavePassword, Exit, At, Cancelled, Clock, Who, srvVars, Local, Heard, Guessed, Timed,
         Unserved, Login, Serving, Typed, Moves
    <2> QED BY <1>0, <2>1, <2>2, MovesKeep
  <1>16. ASSUME Welcome(s) PROVE NetInv'
    <2>1. Moves(s)
      BY <1>0, <1>16, <1>50, <1>51 DEF Welcome, At, Clock, Who, srvVars, Moves, Same, Lives, Typed,
         Statement, Login, Serving, Users, Local, Guessed
    <2>2. Local(s)'
      BY <1>0, <1>16, <1>50, <1>51, <2>1 DEF Welcome, At, Clock, Who, srvVars, Local, Heard, Guessed, Timed,
         Unserved, Login, Serving, Typed, Moves
    <2> QED BY <1>0, <2>1, <2>2, MovesKeep
  <1>17. ASSUME TooLate(s) PROVE NetInv'
    <2>1. PICK verdict \in {"timeout", "incorrect"} :
              /\ Say(s, "tooLate", "over", {verdict})
              /\ verdict = "incorrect" => edition = netfs2
      <3>1. Say(s, "tooLate", "over", {edition.late})
        BY <1>17 DEF TooLate
      <3> QED BY <1>50, <3>1, Zenon
    <2>2. Moves(s)
      BY <1>0, <2>1 DEF Say, At, Clock, Who, srvVars, Moves, Same, Lives, Typed, Statement
    <2>3. Local(s)'
      BY <1>0, <1>51, <2>1, <2>2 DEF Say, At, Clock, Who, Local, Heard, Guessed, Timed,
         Unserved, Login, Serving, Typed
    <2> QED BY <1>0, <2>2, <2>3, MovesKeep
  <1>18. ASSUME Leave(s) PROVE NetInv'
    <2>1. Moves(s)
      BY <1>0, <1>18, <1>50, <1>51 DEF Leave, Exit, At, Cancelled, Clock, Who, srvVars, Moves, Same, Lives, Typed,
         Statement, Login, Serving, Users, Local, Guessed
    <2>2. Local(s)'
      BY <1>0, <1>18, <1>50, <1>51, <2>1 DEF Leave, Exit, At, Cancelled, Clock, Who, srvVars, Local, Heard, Guessed, Timed,
         Unserved, Login, Serving, Typed, Moves
    <2> QED BY <1>0, <2>1, <2>2, MovesKeep
  <1>19. ASSUME EnterServe(s) PROVE NetInv'
    <2>1. Moves(s)
      BY <1>0, <1>19, <1>50, <1>51 DEF EnterServe, Enter, At, Clock, Who, srvVars, Moves, Same, Lives, Typed,
         Statement, Login, Serving, Users, Local, Guessed
    <2>2. Local(s)'
      BY <1>0, <1>19, <1>50, <1>51, <2>1 DEF EnterServe, Enter, At, Clock, Who, srvVars, Local, Heard, Guessed, Timed,
         Unserved, Login, Serving, Typed, Moves
    <2> QED BY <1>0, <2>1, <2>2, MovesKeep
  <1>20. ASSUME Prompt(s) PROVE NetInv'
    <2>1. Moves(s)
      BY <1>0, <1>20, <1>50, <1>51 DEF Prompt, Say, At, Clock, Who, srvVars, Moves, Same, Lives, Typed,
         Statement, Login, Serving, Users, Local, Guessed
    <2>2. Local(s)'
      BY <1>0, <1>20, <1>50, <1>51, <2>1 DEF Prompt, Say, At, Clock, Who, srvVars, Local, Heard, Guessed, Timed,
         Unserved, Login, Serving, Typed, Moves
    <2> QED BY <1>0, <2>1, <2>2, MovesKeep
  <1>21. ASSUME Path(s) PROVE NetInv'
    <2>1. Moves(s)
      BY <1>0, <1>21, <1>50, <1>51 DEF Path, Plain, At, Clock, Who, srvVars, Moves, Same, Lives, Typed,
         Statement, Login, Serving, Users, Local, Guessed
    <2>2. Local(s)'
      BY <1>0, <1>21, <1>50, <1>51, <2>1 DEF Path, Plain, At, Clock, Who, srvVars, Local, Heard, Guessed, Timed,
         Unserved, Login, Serving, Typed, Moves
    <2> QED BY <1>0, <2>1, <2>2, MovesKeep
  <1>22. ASSUME Open(s) PROVE NetInv'
    <2>1. Moves(s)
      BY <1>0, <1>22, <1>50, <1>51 DEF Open, Plain, At, Clock, Who, srvVars, Moves, Same, Lives, Typed,
         Statement, Login, Serving, Users, Local, Guessed
    <2>2. Local(s)'
      BY <1>0, <1>22, <1>50, <1>51, <2>1 DEF Open, Plain, At, Clock, Who, srvVars, Local, Heard, Guessed, Timed,
         Unserved, Login, Serving, Typed, Moves
    <2> QED BY <1>0, <2>1, <2>2, MovesKeep
  <1>23. ASSUME Read(s) PROVE NetInv'
    <2>1. Moves(s)
      BY <1>0, <1>23, <1>50, <1>51 DEF Read, Plain, At, Clock, Who, srvVars, Moves, Same, Lives, Typed,
         Statement, Login, Serving, Users, Local, Guessed
    <2>2. Local(s)'
      BY <1>0, <1>23, <1>50, <1>51, <2>1 DEF Read, Plain, At, Clock, Who, srvVars, Local, Heard, Guessed, Timed,
         Unserved, Login, Serving, Typed, Moves
    <2> QED BY <1>0, <2>1, <2>2, MovesKeep
  <1>24. ASSUME Answer(s) PROVE NetInv'
    <2>1. Moves(s)
      BY <1>0, <1>24, <1>50, <1>51 DEF Answer, Say, At, Clock, Who, srvVars, Moves, Same, Lives, Typed,
         Statement, Login, Serving, Users, Local, Guessed
    <2>2. Local(s)'
      BY <1>0, <1>24, <1>50, <1>51, <2>1 DEF Answer, Say, At, Clock, Who, srvVars, Local, Heard, Guessed, Timed,
         Unserved, Login, Serving, Typed, Moves
    <2> QED BY <1>0, <2>1, <2>2, MovesKeep
  <1>25. ASSUME TimeOut(s) PROVE NetInv'
    <2>1. Moves(s)
      BY <1>0, <1>25, <1>50, <1>51 DEF TimeOut, Swallowing, Clock, Who, srvVars, Moves, Same, Lives, Typed,
         Statement, Login, Serving
    <2>2. /\ alarm[s] = "on" /\ pc[s] \in Login \cup Serving /\ late'[s]
          /\ UNCHANGED <<edition, auth, right, told>>
      BY <1>0, <1>25 DEF TimeOut, Who, Typed
    <2>3. CASE pc[s] \in Swallowing
      <3>1. pc'[s] = "answer"
        BY <1>0, <1>25, <2>3 DEF TimeOut, Typed
      <3> QED BY <1>0, <1>51, <2>1, <2>2, <2>3, <3>1, MovesKeep DEF Swallowing, Local, Heard, Guessed,
              Timed, Unserved, Login, Serving, Typed
    <2>4. CASE pc[s] \notin Swallowing /\ auth[s]
      <3>1. pc'[s] = "over" /\ alarm'[s] = "off"
        BY <1>0, <1>25, <2>4 DEF TimeOut, Typed
      <3> QED BY <1>0, <1>51, <2>1, <2>2, <2>4, <3>1, MovesKeep DEF Local, Heard, Guessed,
              Timed, Unserved, Login, Serving, Typed
    <2>5. CASE pc[s] \notin Swallowing /\ ~auth[s]
      <3>1. pc'[s] = "tooLate" /\ alarm'[s] = "off"
        BY <1>0, <1>25, <2>5 DEF TimeOut, Typed
      <3> QED BY <1>0, <1>51, <2>1, <2>2, <2>5, <3>1, MovesKeep DEF Local, Heard, Guessed,
              Timed, Unserved, Login, Serving, Typed
    <2> QED BY <2>3, <2>4, <2>5
  <1>26. ASSUME TimePasses(s) PROVE NetInv'
    <2>1. Moves(s)
      BY <1>0, <1>26, <1>50, <1>51 DEF TimePasses, Clock, Who, srvVars, Moves, Same, Lives, Typed,
         Statement, Login, Serving, Users, Local, Guessed
    <2>2. Local(s)'
      BY <1>0, <1>26, <1>50, <1>51, <2>1 DEF TimePasses, Clock, Who, srvVars, Local, Heard, Guessed, Timed,
         Unserved, Login, Serving, Typed, Moves
    <2> QED BY <1>0, <2>1, <2>2, MovesKeep
  <1>27. ASSUME Broken(s) PROVE NetInv'
    <2>1. Moves(s)
      BY <1>0, <1>27, <1>50, <1>51 DEF Broken, Clock, Who, srvVars, Moves, Same, Lives, Typed,
         Statement, Login, Serving, Users, Local, Guessed
    <2>2. Local(s)'
      BY <1>0, <1>27, <1>50, <1>51, <2>1 DEF Broken, Clock, Who, srvVars, Local, Heard, Guessed, Timed,
         Unserved, Login, Serving, Typed, Moves
    <2> QED BY <1>0, <2>1, <2>2, MovesKeep
  <1>28. ASSUME HangUp(s) PROVE NetInv'
    <2>1. UNCHANGED <<edition, srvVars, pc, alarm, late, user, auth, right, told>>
      BY <1>28 DEF HangUp, SessionVars
    <2>2. Typed' /\ Kept'
      BY <1>0, <1>28, <2>1 DEF HangUp, Typed, Kept, srvVars, Alive, OwnConnection, Fresh
    <2>3. \A t \in Session : Local(t)'
      BY <1>0, <2>1 DEF Local, Heard, Guessed, Timed
    <2> QED BY <2>2, <2>3, PartsNext
  <1> QED
    BY <1>1, <1>2, <1>3, <1>4, <1>5, <1>6, <1>7, <1>8, <1>9, <1>10, <1>11, <1>12, <1>13, <1>14, <1>15, <1>16, <1>17, <1>18, <1>19, <1>20, <1>21, <1>22, <1>23, <1>24, <1>25, <1>26, <1>27, <1>28 DEF Own, WithClient

(* The end of a session: its descriptors are closed, and nothing of it is left. *)
LEMMA FinishStep ==
  ASSUME NetInv, NEW s \in Session, Finish(s)
  PROVE  NetInv'
  <1>0. Typed /\ Kept /\ \A t \in Session : Local(t)
    BY Parts
  <1>1. /\ pc[s] = "over" /\ pc' = [pc EXCEPT ![s] = "gone"]
        /\ \A t \in Session \ {s} : Same(t)
        /\ UNCHANGED <<edition, srv, newest, children>>
    BY <1>0 DEF Finish, Same, Typed
  <1>2. Typed'
    BY <1>0 DEF Finish, Typed, Statement, Users
  <1>3. Alive' = Alive \ {s}
    BY <1>0, <1>1 DEF Alive, Same, Typed
  <1>4. \A t \in Session : Local(t)'
    <2>1. ASSUME NEW t \in Session, t # s PROVE Local(t)'
      <3>1. Same(t) /\ edition' = edition /\ Local(t)
        BY <1>0, <1>1, <2>1
      <3> QED BY <3>1 DEF Local, Heard, Guessed, Timed, Same
    <2>2. Local(s)'
      BY <1>0, <1>1 DEF Finish, Local, Heard, Guessed, Timed, Unserved, Login, Serving, Typed
    <2> QED BY <2>1, <2>2
  <1>5. newest # s \/ srv # "fork"
    BY <1>0, <1>1 DEF Kept, Fresh
  <1>6. Fresh'
    BY <1>0, <1>1, <1>5 DEF Kept, Fresh, Same
  <1>7. OwnConnection'
    BY <1>0, <1>1, <1>3 DEF Finish, Kept, OwnConnection
  <1>8. held' \in [Session \cup {Server} -> SUBSET Session]
    BY <1>0 DEF Finish, Kept
  <1>9. Kept'
    BY <1>0, <1>1, <1>3, <1>6, <1>7, <1>8 DEF Kept
  <1> QED BY <1>2, <1>4, <1>9, PartsNext

(* The accept loop: a connection is handed over before the next is accepted. *)
LEMMA ListenStep ==
  ASSUME NetInv, Listen
  PROVE  NetInv'
  <1>0. Typed /\ Kept /\ \A t \in Session : Local(t)
    BY Parts
  <1>1. UNCHANGED SessionVars
    BY DEF Listen, Accept, Fork, Close, Reap, SessionVars
  <1>2. ASSUME UNCHANGED pc PROVE Alive' = Alive /\ \A t \in Session : Local(t)'
    BY <1>0, <1>1, <1>2 DEF SessionVars, Alive, Local, Heard, Guessed, Timed
  <1>3. ASSUME NEW s \in Session, Accept(s) PROVE NetInv'
    <2>1. Typed'
      BY <1>0, <1>1, <1>3 DEF Accept, SessionVars, Typed
    <2>2. UNCHANGED pc /\ Alive' = Alive
      BY <1>2, <1>3 DEF Accept
    <2>3. OwnConnection' /\ held' \in [Session \cup {Server} -> SUBSET Session]
      BY <1>0, <1>3, <2>2 DEF Accept, Kept, OwnConnection
    <2>4. Kept'
      BY <1>0, <1>1, <1>3, <2>2, <2>3 DEF Accept, Kept, Fresh, SessionVars
    <2> QED BY <1>2, <2>1, <2>2, <2>4, PartsNext
  <1>4. CASE Fork
    <2>1. Typed'
      BY <1>0, <1>1, <1>4 DEF Fork, SessionVars, Typed, Statement, Kept
    <2>2. pc[newest] = "none" /\ newest \in Session /\ pc' = [pc EXCEPT ![newest] = "start"]
      BY <1>0, <1>4 DEF Fork, Kept, Fresh
    <2>3. Alive' = Alive \cup {newest}
      BY <1>0, <2>2 DEF Alive, Typed
    <2>4. OwnConnection' /\ held' \in [Session \cup {Server} -> SUBSET Session]
      BY <1>0, <1>4, <2>2, <2>3 DEF Fork, Kept, OwnConnection
    <2>5. Kept'
      BY <1>0, <1>1, <1>4, <2>2, <2>3, <2>4 DEF Fork, Kept, Fresh, SessionVars, Alive
    <2>6. ASSUME NEW t \in Session PROVE Local(t)'
      <3>1. CASE t = newest
        BY <1>0, <1>1, <2>2, <3>1 DEF SessionVars, Local, Heard, Guessed, Timed, Unserved, Login,
           Serving, Typed
      <3>2. CASE t # newest
        BY <1>0, <1>1, <2>2, <3>2 DEF SessionVars, Local, Heard, Guessed, Timed, Typed
      <3> QED BY <3>1, <3>2
    <2> QED BY <2>1, <2>5, <2>6, PartsNext
  <1>5. CASE Close
    <2>1. Typed'
      BY <1>0, <1>1, <1>5 DEF Close, SessionVars, Typed
    <2>2. UNCHANGED pc /\ Alive' = Alive
      BY <1>2, <1>5 DEF Close
    <2>3. OwnConnection' /\ held' \in [Session \cup {Server} -> SUBSET Session]
      BY <1>0, <1>5, <2>2 DEF Close, Release, Kept, OwnConnection
    <2>4. Kept'
      BY <1>0, <1>1, <1>5, <2>2, <2>3 DEF Close, Kept, Fresh, SessionVars
    <2> QED BY <1>2, <2>1, <2>2, <2>4, PartsNext
  <1>6. CASE Reap
    <2>1. Typed'
      BY <1>0, <1>1, <1>6 DEF Reap, SessionVars, Typed
    <2>2. UNCHANGED pc /\ Alive' = Alive
      BY <1>2, <1>6 DEF Reap
    <2>3. OwnConnection'
      BY <1>0, <1>6, <2>2 DEF Reap, Kept, OwnConnection
    <2>4. Kept'
      BY <1>0, <1>1, <1>6, <2>2, <2>3 DEF Reap, Kept, Fresh, SessionVars
    <2> QED BY <1>2, <2>1, <2>2, <2>4, PartsNext
  <1> QED BY <1>3, <1>4, <1>5, <1>6 DEF Listen

(* Nobody is connected at the start. *)
LEMMA InvInit == Init => NetInv
  <1> SUFFICES ASSUME Init PROVE NetInv
    OBVIOUS
  <1>1. Typed
    BY DEF Init, Typed, Statement, Users
  <1>2. Alive = {}
    BY DEF Init, Alive
  <1>3. Kept
    BY <1>2 DEF Init, Kept, OwnConnection, Fresh
  <1>4. \A t \in Session : Local(t)
    BY DEF Init, Local, Heard, Guessed, Timed, Unserved, Login, Serving
  <1> QED BY <1>1, <1>3, <1>4, Parts

(* The invariant, for any number of connections that come, wait, guess and hang up. *)
THEOREM NetInvariant == Spec => []NetInv
  <1>1. ASSUME NetInv, [Next]_vars PROVE NetInv'
    <2>1. CASE UNCHANGED vars
      <3>1. Typed /\ Kept /\ \A t \in Session : Local(t)
        BY <1>1, Parts
      <3>2. Typed'
        BY <2>1, <3>1 DEF vars, Typed
      <3>3. Kept'
        BY <2>1, <3>1 DEF vars, srvVars, Kept, Alive, OwnConnection, Fresh
      <3>4. \A t \in Session : Local(t)'
        BY <2>1, <3>1 DEF vars, Local, Heard, Guessed, Timed
      <3> QED BY <3>2, <3>3, <3>4, PartsNext
    <2>2. ASSUME NEW s \in Session, Own(s) \/ WithClient(s) \/ TimeOut(s) \/ TimePasses(s)
          PROVE  NetInv'
      BY <1>1, <2>2, SessionStep, FinishStep
    <2>3. CASE Listen
      BY <1>1, <2>3, ListenStep
    <2> QED BY <1>1, <2>1, <2>2, <2>3 DEF Next
  <1> QED BY InvInit, <1>1, PTL DEF Spec

(* An alarm that is on is caught: no TimeoutError leaves a session's process. *)
THEOREM AlarmsCaught == Spec => []AlarmInside
  BY NetInvariant, PTL DEF NetInv

(* A refusal comes only after the delay, and never to somebody who is logged in. *)
THEOREM RefusedLate == Spec => []NoEarlyVerdict
  BY NetInvariant, PTL DEF NetInv

(* A connection is held by its own session only, and ends with it. *)
THEOREM ConnectionsEnd == Spec => []OwnConnection
  BY NetInvariant, PTL DEF NetInv

(* Nobody is served, by whichever way through guesses, waits and timeouts, without having *)
(* given the whole password: server.py sets _auth behind the loop over its characters.    *)
THEOREM ServedWithPassword ==
    Spec => [](\A s \in Session : auth[s] => right[s] = PasswordLen)
  <1>1. NetInv => \A s \in Session : auth[s] => right[s] = PasswordLen
    BY DEF NetInv, Compared
  <1> QED BY <1>1, NetInvariant, PTL

-----------------------------------------------------------------------------
(* Who waits for a client does so on the clock *)

\* The statements that a client can hold up: what it is to send, and what it is to read.
AtItsMercy == {"askName", "name", "noUser", "askPassword", "password", "newline",
               "prompt", "path", "opening", "reading", "answer"}

\* Only who is logged in can be without a clock, after its one alarm came and was swallowed.
Clocked(s) ==
    /\ pc[s] \in AtItsMercy => alarm[s] = "on" \/ alarm[s] = "spent"
    /\ alarm[s] = "spent" => auth[s] /\ late[s]
    /\ pc[s] \in (Serving \ {"leave"}) \cup {"enterServe"} => auth[s]

OnTheClock == \A s \in Session : Clocked(s)

Served(s) ==
    \/ Prompt(s) \/ Path(s) \/ Open(s) \/ Read(s) \/ Answer(s)

Guesses(s) ==
    \/ RightCharacter(s) \/ WrongCharacter(s) \/ NoCharacter(s) \/ Newline(s)

(* What a session does leaves the clocks of the others alone. *)
LEMMA OthersSame ==
  ASSUME Typed, NEW s \in Session, NEW t \in Session, t # s,
         Own(s) \/ WithClient(s) \/ TimeOut(s) \/ TimePasses(s)
  PROVE  Same(t)
  <1>1. CASE Start(s) \/ EnterPassword(s) \/ EnterServe(s)
    BY <1>1 DEF Start, EnterPassword, EnterServe, Enter, At, Who, Same, Typed
  <1>2. CASE LeaveName(s) \/ LeavePassword(s) \/ Leave(s)
    BY <1>2 DEF LeaveName, LeavePassword, Leave, Exit, At, Who, Same, Typed
  <1>3. CASE AskName(s) \/ NoUser(s) \/ AskPassword(s) \/ Reject(s) \/ TooLate(s)
    BY <1>3 DEF AskName, NoUser, AskPassword, Reject, TooLate, Say, At, Who, Same, Typed
  <1>4. CASE Name(s)
    BY <1>4 DEF Name, Plain, At, Who, Same, Typed
  <1>5. CASE Guesses(s)
    BY <1>5 DEF Guesses, RightCharacter, WrongCharacter, NoCharacter, Newline, Plain, At, Who,
       Same, Typed
  <1>6. CASE Wrong(s) \/ Wait(s)
    BY <1>6 DEF Wrong, Wait, Exit, Plain, At, Who, Same, Typed
  <1>7. CASE Served(s)
    BY <1>7 DEF Served, Prompt, Path, Open, Read, Answer, Say, Plain, At, Who, Same, Typed
  <1>8. CASE Welcome(s) \/ Finish(s)
    BY <1>8 DEF Welcome, Finish, At, Same, Typed
  <1>9. CASE Broken(s) \/ TimePasses(s) \/ HangUp(s)
    BY <1>9 DEF Broken, TimePasses, HangUp, SessionVars, Who, Same, Typed
  <1>10. CASE TimeOut(s)
    BY <1>10 DEF TimeOut, Who, Same, Typed
  <1> QED
    BY <1>1, <1>2, <1>3, <1>4, <1>5, <1>6, <1>7, <1>8, <1>9, <1>10
       DEF Own, WithClient, Served, Guesses

(* A session of its own enters a Timeout before it waits, and leaves it behind the wait. *)
LEMMA ClockStep ==
  ASSUME Typed, NEW s \in Session, Local(s), Clocked(s), edition \in {netfs1, netfs2},
         Own(s) \/ WithClient(s) \/ TimeOut(s) \/ TimePasses(s)
  PROVE  Clocked(s)'
  <1>1. CASE Start(s) \/ EnterPassword(s) \/ EnterServe(s)
    BY <1>1 DEF Start, EnterPassword, EnterServe, Enter, At, Who, Clocked, AtItsMercy, Serving,
       Typed
  <1>2. CASE LeaveName(s) \/ LeavePassword(s) \/ Leave(s)
    BY <1>2 DEF LeaveName, LeavePassword, Leave, Exit, Cancelled, At, Who, Clocked, AtItsMercy,
       Serving, Typed
  <1>3. CASE AskName(s) \/ NoUser(s) \/ AskPassword(s) \/ Reject(s) \/ TooLate(s)
    BY <1>3 DEF AskName, NoUser, AskPassword, Reject, TooLate, Say, At, Who, Clocked, AtItsMercy,
       Serving, Typed
  <1>4. CASE Name(s)
    BY <1>4 DEF Name, Plain, At, Who, Clocked, AtItsMercy, Serving, Typed
  <1>5. CASE Guesses(s)
    BY <1>5 DEF Guesses, RightCharacter, WrongCharacter, NoCharacter, Newline, Plain, At, Who,
       Clocked, AtItsMercy, Serving, Typed
  <1>6. CASE Wrong(s) \/ Wait(s)
    BY <1>6 DEF Wrong, Wait, Exit, Plain, Cancelled, At, Who, Clocked, AtItsMercy, Serving, Typed
  <1>7. CASE Served(s)
    BY <1>7 DEF Served, Prompt, Path, Open, Read, Answer, Say, Plain, At, Who, Clocked,
       AtItsMercy, Serving, Typed
  <1>8. CASE Welcome(s) \/ Finish(s)
    BY <1>8 DEF Welcome, Finish, At, Clocked, AtItsMercy, Serving, Typed
  <1>9. CASE Broken(s) \/ TimePasses(s) \/ HangUp(s)
    BY <1>9 DEF Broken, TimePasses, HangUp, SessionVars, Who, Clocked, AtItsMercy, Serving, Typed
  <1>10. CASE TimeOut(s)
    <2>1. UNCHANGED auth /\ late'[s]
      BY <1>10 DEF TimeOut, Who, Typed
    <2>2. CASE pc[s] \in Swallowing
      <3>1. pc'[s] = "answer" /\ alarm'[s] = "spent" /\ auth[s]
        BY <1>10, <2>2 DEF TimeOut, Swallowing, Clocked, Serving, Typed
      <3> QED BY <2>1, <3>1 DEF Clocked
    <2>3. CASE pc[s] \notin Swallowing
      <3>1. pc'[s] \in {"over", "tooLate"} /\ alarm'[s] = "off"
        BY <1>10, <2>3 DEF TimeOut, Typed
      <3> QED BY <3>1 DEF Clocked, AtItsMercy, Serving
    <2> QED BY <2>2, <2>3
  <1> QED
    BY <1>1, <1>2, <1>3, <1>4, <1>5, <1>6, <1>7, <1>8, <1>9, <1>10
       DEF Own, WithClient, Served, Guesses

(* The safety half of SessionEnds, for any number of connections: wherever a client can   *)
(* hold a session up, the alarm is on, except that one swallowed by the bare except of     *)
(* open, or by that around read, leaves a logged-in client without a clock. Login is never *)
(* without one.                                                                            *)
THEOREM ClockRuns == Spec => []OnTheClock
  <1>1. Init => OnTheClock
    BY DEF Init, OnTheClock, Clocked, AtItsMercy, Serving
  <1>2. ASSUME NetInv, OnTheClock, [Next]_vars PROVE OnTheClock'
    <2>0. Typed /\ Kept /\ \A t \in Session : Local(t)
      BY <1>2, Parts
    <2>1. ASSUME NEW t \in Session, Same(t) PROVE Clocked(t)'
      BY <1>2, <2>1 DEF OnTheClock, Clocked, Same
    <2>2. CASE UNCHANGED vars
      BY <2>1, <2>2 DEF vars, Same, OnTheClock
    <2>3. CASE Listen
      <3>1. UNCHANGED SessionVars
        BY <2>3 DEF Listen, Accept, Fork, Close, Reap, SessionVars
      <3>2. CASE Fork
        <4>1. newest \in Session /\ pc[newest] = "none" /\ pc' = [pc EXCEPT ![newest] = "start"]
          BY <2>0, <3>2 DEF Fork, Kept, Fresh
        <4>2. ASSUME NEW t \in Session PROVE Clocked(t)'
          BY <1>2, <2>0, <3>1, <4>1 DEF SessionVars, OnTheClock, Clocked, AtItsMercy, Serving, Typed
        <4> QED BY <4>2 DEF OnTheClock
      <3>3. CASE ~Fork
        <4>1. UNCHANGED pc
          BY <2>3, <3>3 DEF Listen, Accept, Close, Reap
        <4> QED BY <2>1, <3>1, <4>1 DEF SessionVars, Same, OnTheClock
      <3> QED BY <3>2, <3>3
    <2>4. ASSUME NEW s \in Session, Own(s) \/ WithClient(s) \/ TimeOut(s) \/ TimePasses(s)
          PROVE  OnTheClock'
      <3>1. ASSUME NEW t \in Session PROVE Clocked(t)'
        <4>1. CASE t = s
          BY <1>2, <2>0, <2>4, <4>1, ClockStep DEF OnTheClock, Kept
        <4>2. CASE t # s
          BY <2>0, <2>1, <2>4, <4>2, OthersSame
        <4> QED BY <4>1, <4>2
      <3> QED BY <3>1 DEF OnTheClock
    <2> QED BY <1>2, <2>2, <2>3, <2>4 DEF Next
  <1> QED BY <1>1, <1>2, NetInvariant, PTL DEF Spec
=============================================================================
