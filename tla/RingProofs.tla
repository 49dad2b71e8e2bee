----------------------------- MODULE RingProofs -----------------------------
(***************************************************************************)
(* Proofs about RingNetwork, for every number of processes and chunks,     *)
(* every table of checks and any number of failing system calls.           *)
(***************************************************************************)
EXTENDS RingProperties, FiniteSetTheorems, WellFoundedInduction, TLAPS

USE NAssumption, ChunksAssumption, QuorumAssumption, FaultsAssumption

(* The ring: Succ and Pred stay within Node and undo each other. *)
LEMMA Ring ==
    ASSUME NEW n \in Node
    PROVE  /\ Succ(n) \in Node /\ Pred(n) \in Node
           /\ Succ(n) # n /\ Pred(n) # n
           /\ Pred(Succ(n)) = n /\ Succ(Pred(n)) = n
           /\ n # N - 1 => n + 1 \in Node /\ Succ(n) = n + 1
  BY DEF Node, Succ, Pred

(* Some processes have a last one among them: the one nearest to the tail. *)
LEMMA LastOf ==
    ASSUME NEW S, S \subseteq Node, S # {}
    PROVE  \E n \in S : \A m \in S : m <= n
  <1> DEFINE Behind == {i \in Nat : \E n \in S : i = N - 1 - n}
  <1>1. Behind \subseteq Nat /\ Behind # {}
    <2>1. PICK n \in S : TRUE
      OBVIOUS
    <2>2. n \in 0 .. N - 1
      BY DEF Node
    <2>3. N - 1 - n \in Nat
      BY <2>2
    <2>4. N - 1 - n \in Behind
      BY <2>3
    <2> QED BY <2>4
  <1> HIDE DEF Behind
  <1>2. IsWellFoundedOn(OpToRel(<, Nat), Nat)
    BY NatLessThanWellFounded
  <1>3. PICK i \in Behind : \A j \in Behind : <<j, i>> \notin OpToRel(<, Nat)
    BY <1>1, <1>2, WFMin
  <1>4. PICK n \in S : i = N - 1 - n
    BY DEF Behind
  <1>5. ASSUME NEW m \in S PROVE m <= n
    <2>1. N - 1 - m \in Behind
      BY DEF Behind, Node
    <2>2. ~(N - 1 - m < i)
      BY <1>1, <1>3, <2>1 DEF OpToRel
    <2> QED BY <1>4, <2>2 DEF Node
  <1> QED BY <1>5

(* The messages the program sends are messages. *)
LEMMA Messages ==
    /\ Ping \in Message /\ Quit \in Message
    /\ \A b \in BOOLEAN : Reply(b) \in Message
    /\ \A v \in Voter, c \in Value : Ask(v, c) \in Message
  BY DEF Ping, Quit, Reply, Ask, Msg, Message, Voter, Data, BROADCAST, NoData

(* The type invariant holds initially. *)
LEMMA TypeInit == Init => TypeOK
  <1> SUFFICES ASSUME Init PROVE TypeOK
    OBVIOUS
  <1>1. Msg("zero", 0, NoData) \in Message
    BY DEF Msg, Message, Data
  <1>2. 1 \in Voter /\ 0 \in 0 .. Chunks /\ 0 \in 0 .. MaxFaults
    BY DEF Voter
  <1>3. pc \in [Node -> Located]
    BY DEF Init, Located, Active
  <1> QED BY <1>1, <1>2, <1>3 DEF Init, TypeOK

(* Every action keeps the types; the head's bounds need to know where it stands. *)
LEMMA TypeStep == TypeOK /\ HeadLine /\ [Next]_vars => TypeOK'
  <1> SUFFICES ASSUME TypeOK, HeadLine, [Next]_vars PROVE TypeOK'
    OBVIOUS
  <1> USE Ring, Messages DEF TypeOK
  <1>1. ASSUME NEW n \in Node, Fork(n) PROVE TypeOK'
    <2>1. pc' \in [Node -> Located]
      BY <1>1 DEF Fork, Located, Active
    <2>2. segs' \subseteq 0 .. N
      BY <1>1 DEF Fork, Made, Node
    <2> QED BY <1>1, <2>1, <2>2 DEF Fork, headVars
  <1>2. ASSUME NEW n \in Node, Attach(n) PROVE TypeOK'
    BY <1>2 DEF Attach, headVars, Located, Active
  <1>3. ASSUME NEW n \in Node, SetupFail(n) PROVE TypeOK'
    <2>1. pc' \in [Node -> Located] /\ faults' \in 0 .. MaxFaults
      BY <1>3 DEF SetupFail, Located, Active
    <2>2. Made(n) \subseteq 0 .. N
      BY DEF Made, Node
    <2>3. PICK made \in {{}, {N} \cap Made(n), Made(n)} :
              segs' = IF pc[n] = "setup" THEN segs \cup made ELSE segs
      BY <1>3, Zenon DEF SetupFail
    <2>4. made \subseteq Made(n)
      BY <2>3, Zenon
    <2>5. segs' \subseteq 0 .. N
      BY <2>2, <2>3, <2>4
    <2> QED BY <1>3, <2>1, <2>5 DEF SetupFail, headVars
  <1>4. ASSUME NEW n \in Node, Store(n) PROVE TypeOK'
    <2>1. Msg(out[n].cmd, out[n].dest,
              IF out[n].data = NoData THEN slot[n].data ELSE out[n].data) \in Message
      BY DEF Msg, Message
    <2> QED BY <1>4, <2>1 DEF Store, headVars, Located, Active
  <1>5. ASSUME NEW n \in Node, Wake(n) PROVE TypeOK'
    BY <1>5 DEF Wake, Resume, headVars, Located, Active
  <1>6. ASSUME NEW n \in Node, Sleep(n) PROVE TypeOK'
    BY <1>6 DEF Sleep, headVars, Located
  <1>7. ASSUME NEW n \in Node, Accept(n) PROVE TypeOK'
    BY <1>7 DEF Accept, headVars, Located, Active
  <1>8. ASSUME NEW n \in Node, Forward(n) PROVE TypeOK'
    BY <1>8 DEF Forward, Inbox, headVars, Located, Active
  <1>e. ASSUME NEW n \in Node, WakeError(n) PROVE TypeOK'
    BY <1>e DEF WakeError, Resume, headVars, Located, Active
  <1>9. ASSUME NEW n \in Node, RecvError(n) PROVE TypeOK'
    BY <1>9 DEF RecvError, headVars, Located
  <1>10. ASSUME NEW n \in Node, HandlePing(n) PROVE TypeOK'
    BY <1>10 DEF HandlePing, Send, headVars, Located, Active
  <1>11. ASSUME NEW n \in Node, HandleFlag(n) PROVE TypeOK'
    <2>1. n \in Voter
      BY <1>11 DEF HandleFlag, Node, Voter
    <2>2. (calls[n] \in Chunk /\ Inbox(n).data = Expected[n][calls[n]]) \in BOOLEAN
      OBVIOUS
    <2>3. Reply(calls[n] \in Chunk /\ Inbox(n).data = Expected[n][calls[n]]) \in Message
      BY <2>2, Messages, Zenon
    <2> QED BY <1>11, <2>1, <2>3 DEF HandleFlag, Send, headVars, Located, Active
  <1>12. ASSUME NEW n \in Node, HandleRest(n) PROVE TypeOK'
    BY <1>12 DEF HandleRest, Send, Resume, headVars, Located, Active
  <1>13. ASSUME NEW n \in Node, Reap(n) PROVE TypeOK'
    BY <1>13 DEF Reap, headVars, Located
  <1>14. ASSUME NEW n \in Node, Destroy(n) PROVE TypeOK'
    BY <1>14 DEF Destroy, headVars, Located
  <1>15. CASE Handshake
    <2>1. 0 \in Node /\ 1 \in Voter /\ flag[0] \in Value
      BY DEF Node, Voter, Chunk
    <2> QED BY <1>15, <2>1 DEF Handshake, Send, Located, Active
  <1>16. CASE CountReply
    <2>1. 0 \in Node /\ Tally \in Nat
      BY DEF Node, Tally
    <2>2. peer + 1 \in Voter
      BY <1>16 DEF CountReply, Voter
    <2>3. flag[round] \in Value
      BY <1>16 DEF CountReply, Got, HeadLine, Chunk
    <2> QED BY <1>16, <2>1, <2>2, <2>3 DEF CountReply, Send, Located, Active
  <1>17. CASE CloseRound
    <2>1. 0 \in Node /\ 1 \in Voter /\ Short \in BOOLEAN
      BY DEF Node, Voter, Short
    <2>2. round + 1 \in Chunk /\ flag[round + 1] \in Value
      BY <1>17 DEF CloseRound, Chunk
    <2>3. round + 1 \in 0 .. Chunks
      BY <2>2 DEF Chunk
    <2> QED BY <1>17, <2>1, <2>2, <2>3 DEF CloseRound, Send, Located, Active
  <1>18. CASE Announce
    <2>1. 0 \in Node /\ 1 \in Voter /\ Short \in BOOLEAN
      BY DEF Node, Voter, Short
    <2>2. round + 1 \in 0 .. Chunks
      BY <1>18 DEF Announce
    <2> QED BY <1>18, <2>1, <2>2 DEF Announce, Send, Located, Active
  <1>19. CASE GiveUp
    <2>1. 0 \in Node
      BY DEF Node
    <2>2. faults' \in 0 .. MaxFaults
      BY <1>19 DEF GiveUp, Refused
    <2> QED BY <1>19, <2>1, <2>2 DEF GiveUp, Send, Located, Active
  <1>20. CASE UNCHANGED vars
    BY <1>20 DEF vars, headVars
  <1> QED
    BY <1>e, <1>1, <1>2, <1>3, <1>4, <1>5, <1>6, <1>7, <1>8, <1>9, <1>10, <1>11, <1>12,
       <1>13, <1>14, <1>15, <1>16, <1>17, <1>18, <1>19, <1>20
       DEF Next, Run, Boot, Queue, Voting, Exit, Head

(* The head starts in setup, with nothing counted. *)
LEMMA HeadLineInit == Init => HeadLine
  BY DEF Init, HeadLine, Node, Active

(* Every action keeps what the head's location says about its loop variables. *)
LEMMA HeadLineStep ==
    TypeOK /\ HeadLine /\ (GaveUp \/ UnderWay) /\ [Next]_vars => HeadLine'
  <1> SUFFICES ASSUME TypeOK, HeadLine, GaveUp \/ UnderWay, [Next]_vars PROVE HeadLine'
    OBVIOUS
  <1>0. 0 \in Node
    BY DEF Node
  <1> USE <1>0, Ring DEF TypeOK, HeadLine, Active, headVars
  <1>1. ASSUME NEW n \in Node, Fork(n) PROVE HeadLine'
    BY <1>1 DEF Fork, Node
  <1>2. ASSUME NEW n \in Node, Attach(n) PROVE HeadLine'
    BY <1>2 DEF Attach
  <1>3. ASSUME NEW n \in Node, SetupFail(n) PROVE HeadLine'
    BY <1>3 DEF SetupFail
  <1>4. ASSUME NEW n \in Node, Store(n) PROVE HeadLine'
    BY <1>4 DEF Store
  <1>5. ASSUME NEW n \in Node, Wake(n) PROVE HeadLine'
    <2>1. pc'[0] \notin {"setup", "attach"}
      BY <1>5 DEF Wake, Resume
    <2>2. phase = "bye" => pc[Succ(n)] = "wait" /\ Succ(n) # 0
      BY <1>5 DEF Wake
    <2>3. phase = "bye" /\ n = 0 => Resume(out[0].cmd) = "leave"
      BY <1>5 DEF Wake, Resume
    <2>4. phase # "bye" => out[n].cmd # "QUIT"
      BY <1>5 DEF Wake, GaveUp, UnderWay, Consistent, Held, AskUnderWay, ReplyUnderWay, Ask, Reply, Msg
    <2> QED BY <1>5, <2>1, <2>2, <2>3, <2>4 DEF Wake, Resume
  <1>6. ASSUME NEW n \in Node, Sleep(n) PROVE HeadLine'
    BY <1>6 DEF Sleep
  <1>7. ASSUME NEW n \in Node, Accept(n) PROVE HeadLine'
    BY <1>7 DEF Accept
  <1>8. ASSUME NEW n \in Node, Forward(n) PROVE HeadLine'
    BY <1>8 DEF Forward
  <1>e. ASSUME NEW n \in Node, WakeError(n) PROVE HeadLine'
    <2>1. phase = "bye" /\ n = 0 => Resume(out[0].cmd) = "leave"
      BY <1>e DEF WakeError, Resume
    <2>2. phase # "bye" => out[n].cmd # "QUIT"
      BY <1>e DEF WakeError, GaveUp, UnderWay, Consistent, Held, AskUnderWay, ReplyUnderWay, Ask,
                  Reply, Msg
    <2> QED BY <1>e, <2>1, <2>2 DEF WakeError, Resume
  <1>9. ASSUME NEW n \in Node, RecvError(n) PROVE HeadLine'
    BY <1>9 DEF RecvError
  <1>10. ASSUME NEW n \in Node, HandlePing(n) PROVE HeadLine'
    BY <1>10 DEF HandlePing, Send
  <1>11. ASSUME NEW n \in Node, HandleFlag(n) PROVE HeadLine'
    BY <1>11 DEF HandleFlag, Send
  <1>12. ASSUME NEW n \in Node, HandleRest(n) PROVE HeadLine'
    BY <1>12 DEF HandleRest, Send, Resume
  <1>13. ASSUME NEW n \in Node, Reap(n) PROVE HeadLine'
    BY <1>13 DEF Reap
  <1>14. ASSUME NEW n \in Node, Destroy(n) PROVE HeadLine'
    BY <1>14 DEF Destroy
  <1>15. CASE Handshake
    BY <1>15 DEF Handshake, Got, Wanted, Send
  <1>16. CASE CountReply
    BY <1>16 DEF CountReply, Got, Wanted, Send
  <1>17. CASE CloseRound
    BY <1>17 DEF CloseRound, Got, Wanted, Send
  <1>18. CASE Announce
    BY <1>18 DEF Announce, Got, Wanted, Send, Quit, Msg
  <1>19. CASE GiveUp
    BY <1>19 DEF GiveUp, Refused, Send, Quit, Msg
  <1>20. CASE UNCHANGED vars
    BY <1>20 DEF vars
  <1> QED
    BY <1>e, <1>1, <1>2, <1>3, <1>4, <1>5, <1>6, <1>7, <1>8, <1>9, <1>10, <1>11, <1>12,
       <1>13, <1>14, <1>15, <1>16, <1>17, <1>18, <1>19, <1>20
       DEF Next, Run, Boot, Queue, Voting, Exit, Head

(* Once the head has given up there is no verdict any more. *)
LEMMA GaveUpStep == HeadLine /\ GaveUp /\ [Next]_vars => GaveUp'
  BY DEF HeadLine, GaveUp, Next, Run, Boot, Queue, Voting, Exit, Head, Fork, Attach,
         SetupFail, Store, Wake, Sleep, Accept, Forward, WakeError, RecvError,
         HandlePing, HandleFlag,
         HandleRest, Reap, Destroy, Handshake, CountReply, CloseRound, Announce, GiveUp,
         Got, vars, headVars

(* Initially no message is under way. *)
LEMMA OneMessageInit == Init => OneMessage
  BY DEF Init, OneMessage, Active, Node

(* A message is only sent by the process that has taken the last one. *)
LEMMA OneMessageStep ==
    TypeOK /\ HeadLine /\ OneMessage /\ [Next]_vars => OneMessage'
  <1> SUFFICES ASSUME TypeOK, HeadLine, OneMessage, [Next]_vars, ~GaveUp'
               PROVE  \A l, m \in Node : pc'[l] \in Active /\ pc'[m] \in Active => l = m
    BY DEF OneMessage
  <1>0. 0 \in Node /\ \A l, m \in Node : pc[l] \in Active /\ pc[m] \in Active => l = m
    BY GaveUpStep DEF OneMessage, Node
  <1> DEFINE Goal == \A l, m \in Node : pc'[l] \in Active /\ pc'[m] \in Active => l = m
  <1> USE <1>0, Ring DEF TypeOK, Active, headVars
  <1>1. ASSUME NEW n \in Node, Fork(n) PROVE Goal
    BY <1>1 DEF Fork, Node
  <1>2. ASSUME NEW n \in Node, Attach(n) PROVE Goal
    BY <1>2 DEF Attach, HeadLine
  <1>3. ASSUME NEW n \in Node, SetupFail(n) PROVE Goal
    BY <1>3 DEF SetupFail
  <1>4. ASSUME NEW n \in Node, Store(n) PROVE Goal
    BY <1>4 DEF Store
  <1>5. ASSUME NEW n \in Node, Wake(n) PROVE Goal
    BY <1>5 DEF Wake, Resume
  <1>6. ASSUME NEW n \in Node, Sleep(n) PROVE Goal
    BY <1>6 DEF Sleep
  <1>7. ASSUME NEW n \in Node, Accept(n) PROVE Goal
    BY <1>7 DEF Accept
  <1>8. ASSUME NEW n \in Node, Forward(n) PROVE Goal
    BY <1>8 DEF Forward
  <1>e. ASSUME NEW n \in Node, WakeError(n) PROVE Goal
    BY <1>e DEF WakeError, Resume
  <1>9. ASSUME NEW n \in Node, RecvError(n) PROVE Goal
    BY <1>9 DEF RecvError
  <1>10. ASSUME NEW n \in Node, HandlePing(n) PROVE Goal
    BY <1>10 DEF HandlePing, Send
  <1>11. ASSUME NEW n \in Node, HandleFlag(n) PROVE Goal
    BY <1>11 DEF HandleFlag, Send
  <1>12. ASSUME NEW n \in Node, HandleRest(n) PROVE Goal
    BY <1>12 DEF HandleRest, Send, Resume
  <1>13. ASSUME NEW n \in Node, Reap(n) PROVE Goal
    BY <1>13 DEF Reap
  <1>14. ASSUME NEW n \in Node, Destroy(n) PROVE Goal
    BY <1>14 DEF Destroy
  <1>15. CASE Handshake
    BY <1>15 DEF Handshake, Got, Wanted, Send
  <1>16. CASE CountReply
    BY <1>16 DEF CountReply, Got, Wanted, Send
  <1>17. CASE CloseRound
    BY <1>17 DEF CloseRound, Got, Wanted, Send
  <1>18. CASE Announce
    BY <1>18 DEF Announce, Got, Wanted, Send
  <1>19. CASE GiveUp
    BY <1>19 DEF GiveUp, Refused, Send, HeadLine, GaveUp
  <1>20. CASE UNCHANGED vars
    BY <1>20 DEF vars
  <1> QED
    BY <1>e, <1>1, <1>2, <1>3, <1>4, <1>5, <1>6, <1>7, <1>8, <1>9, <1>10, <1>11, <1>12,
       <1>13, <1>14, <1>15, <1>16, <1>17, <1>18, <1>19, <1>20
       DEF Next, Run, Boot, Queue, Voting, Exit, Head

(* Initially no process holds a message. *)
LEMMA UnderWayInit == Init => UnderWay
  BY DEF Init, UnderWay, Active, Node

(* Whoever holds the message holds the one the head's loop is waiting for. *)
LEMMA UnderWayStep ==
    TypeOK /\ HeadLine /\ OneMessage /\ (GaveUp \/ UnderWay) /\ Counted /\ [Next]_vars
        => (GaveUp \/ UnderWay)'
  <1> SUFFICES ASSUME TypeOK, HeadLine, OneMessage, UnderWay, Counted, [Next]_vars,
                      ~GaveUp, ~GaveUp',
                      NEW m \in Node, pc'[m] \in Active
               PROVE  Consistent(m)'
    BY GaveUpStep DEF UnderWay
  <1>0. /\ 0 \in Node
        /\ \A k, l \in Node : pc[k] \in Active /\ pc[l] \in Active => k = l
    BY DEF OneMessage, Node
  <1>a. pc[m] \in Active => Consistent(m)
    BY DEF UnderWay
  <1>u. ASSUME pc[m] \in Active,
               UNCHANGED <<slot, out, calls, flag, phase, round, peer>>, pc'[m] = pc[m]
        PROVE  Consistent(m)'
    BY <1>u, <1>a DEF Consistent, Held, Inbox, AskUnderWay, ReplyUnderWay
  <1> USE <1>0, Ring DEF TypeOK, headVars
  <1>1. ASSUME NEW n \in Node, Fork(n) PROVE Consistent(m)'
    BY <1>1, <1>u DEF Fork, Active
  <1>2. ASSUME NEW n \in Node, Attach(n) PROVE Consistent(m)'
    <2>1. CASE n = 0
      <3>1. m = 0 /\ phase = "hello"
        BY <1>2, <2>1 DEF Attach, HeadLine, Active
      <3> QED BY <1>2, <2>1, <3>1 DEF Attach, Consistent, Held, Ping, Msg
    <2>2. CASE n # 0
      BY <1>2, <2>2, <1>u DEF Attach, Active
    <2> QED BY <2>1, <2>2
  <1>3. ASSUME NEW n \in Node, SetupFail(n) PROVE Consistent(m)'
    BY <1>3, <1>u DEF SetupFail, Active
  <1>4. ASSUME NEW n \in Node, Store(n) PROVE Consistent(m)'
    <2>1. m = n /\ pc[n] = "send" /\ Consistent(n) /\ pc'[n] = "wake"
      BY <1>4, <1>a DEF Store, Active
    <2>2. Held(n) = out[n] /\ Held(n)' = slot'[n]
      BY <2>1 DEF Held
    <2>3. slot'[n].cmd = out[n].cmd /\ slot'[n].dest = out[n].dest
      BY <1>4 DEF Store, Msg
    <2>4. ASSUME NEW v \in Voter, NEW c \in Value, out[n] = Ask(v, c)
          PROVE  slot'[n] = out[n]
      BY <1>4, <2>4, ValueAssumption DEF Store, Ask, Msg, NoData
    <2>5. ASSUME NEW ok \in BOOLEAN, out[n] = Reply(ok)
          PROVE  slot'[n] = out[n]
      BY <1>4, <2>5 DEF Store, Reply, Msg, NoData
    <2>6. CASE phase = "vote"
      <3>1. flag[round] \in Value
        BY <2>6 DEF HeadLine, Chunk
      <3>2. slot'[n] = out[n]
        <4>1. CASE AskUnderWay(n)
          BY <4>1, <3>1, <2>2, <2>4 DEF AskUnderWay
        <4>2. CASE ReplyUnderWay(n)
          BY <4>2, <2>2, <2>5 DEF ReplyUnderWay
        <4> QED BY <4>1, <4>2, <2>1, <2>6 DEF Consistent
      <3> QED BY <1>4, <2>1, <2>2, <2>3, <2>6, <3>2
              DEF Store, Consistent, AskUnderWay, ReplyUnderWay
    <2>7. CASE phase # "vote"
      BY <1>4, <2>1, <2>2, <2>3, <2>7 DEF Store, Consistent
    <2> QED BY <2>6, <2>7
  <1>5. ASSUME NEW n \in Node, Wake(n) PROVE Consistent(m)'
    <2>0. /\ pc[n] = "wake" /\ pc[n] \in Active
          /\ pc'[n] \notin Active
          /\ pc'[Succ(n)] = "woken"
          /\ m # n /\ m # Succ(n) => pc'[m] = pc[m]
      BY <1>5 DEF Wake, Resume, Active
    <2>1. m = Succ(n) /\ pc[n] = "wake" /\ Consistent(n) /\ pc'[m] = "woken"
      BY <2>0 DEF UnderWay
    <2>2. Held(m)' = slot[n] /\ Held(n) = slot[n]
      BY <1>5, <2>1 DEF Wake, Held, Inbox
    <2>3. n # N - 1 => m = n + 1
      BY <2>1
    <2>4. n = N - 1 => m = 0
      BY <2>1 DEF Succ
    <2>5. ASSUME AskUnderWay(n) PROVE AskUnderWay(m)'
      <3>0. n < peer
        BY <2>1, <2>5, Zenon DEF AskUnderWay
      <3>1. m \in 1 .. peer
        BY <2>3, <3>0 DEF Node, Voter
      <3>2. UNCHANGED <<calls, flag, round, peer>>
        BY <1>5 DEF Wake
      <3> QED BY <2>1, <2>2, <2>5, <3>1, <3>2 DEF AskUnderWay
    <2>6. ReplyUnderWay(n) => ReplyUnderWay(m)'
      BY <1>5, <2>1, <2>2, <2>3, <2>4 DEF Wake, ReplyUnderWay, Node, Voter
    <2> QED BY <1>5, <2>1, <2>2, <2>5, <2>6 DEF Wake, Consistent
  <1>6. ASSUME NEW n \in Node, Sleep(n) PROVE Consistent(m)'
    BY <1>6, <1>u DEF Sleep, Active
  <1>7. ASSUME NEW n \in Node, Accept(n) PROVE Consistent(m)'
    <2>1. m = n /\ pc[n] = "woken" /\ Consistent(n) /\ pc'[n] = "handle"
      BY <1>7, <1>a DEF Accept, Active
    <2>2. Held(n)' = Inbox(n) /\ Held(n) = Inbox(n)
      BY <1>7, <2>1 DEF Accept, Held, Inbox
    <2>3. AskUnderWay(n) => AskUnderWay(n)'
      <3>1. ASSUME AskUnderWay(n) PROVE n = peer
        BY <1>7, <2>2, <3>1 DEF Accept, AskUnderWay, Ask, Msg, BROADCAST, Voter
      <3> QED BY <1>7, <2>1, <2>2, <3>1 DEF Accept, AskUnderWay
    <2>4. ReplyUnderWay(n) => ReplyUnderWay(n)'
      <3>1. ASSUME ReplyUnderWay(n) PROVE n = 0
        BY <1>7, <2>2, <3>1 DEF Accept, ReplyUnderWay, Reply, Msg, BROADCAST
      <3> QED BY <1>7, <2>1, <2>2, <3>1 DEF Accept, ReplyUnderWay
    <2> QED BY <1>7, <2>1, <2>2, <2>3, <2>4 DEF Accept, Consistent
  <1>8. ASSUME NEW n \in Node, Forward(n) PROVE Consistent(m)'
    <2>1. m = n /\ pc[n] = "woken" /\ Consistent(n) /\ pc'[n] = "send"
      BY <1>8, <1>a DEF Forward, Active
    <2>2. Held(n)' = Inbox(n) /\ Held(n) = Inbox(n)
      BY <1>8, <2>1 DEF Forward, Held, Inbox
    <2>3. AskUnderWay(n) => AskUnderWay(n)'
      BY <1>8, <2>1, <2>2 DEF Forward, AskUnderWay, Ask, Msg, Node, Voter
    <2>4. ReplyUnderWay(n) => ReplyUnderWay(n)'
      BY <1>8, <2>1, <2>2 DEF Forward, ReplyUnderWay, Reply, Msg, Node, Voter
    <2> QED BY <1>8, <2>1, <2>2, <2>3, <2>4 DEF Forward, Consistent
  <1>e. ASSUME NEW n \in Node, WakeError(n) PROVE Consistent(m)'
    BY <1>e, <1>u DEF WakeError, Resume, Active
  <1>9. ASSUME NEW n \in Node, RecvError(n) PROVE Consistent(m)'
    BY <1>9, <1>u DEF RecvError, Active
  <1>10. ASSUME NEW n \in Node, HandlePing(n) PROVE Consistent(m)'
    <2>1. m = n /\ pc[n] = "handle" /\ Consistent(n) /\ Held(n) = Inbox(n)
      BY <1>10, <1>a DEF HandlePing, Send, Active, Held
    <2>2. phase # "vote"
      BY <1>10, <2>1 DEF HandlePing, Consistent, AskUnderWay, ReplyUnderWay, Ask, Reply, Msg
    <2> QED BY <1>10, <2>1, <2>2 DEF HandlePing, Send, Consistent, Held, Ping, Msg
  <1>11. ASSUME NEW n \in Node, HandleFlag(n) PROVE Consistent(m)'
    <2>1. m = n /\ pc[n] = "handle" /\ Consistent(n) /\ Held(n) = Inbox(n)
      BY <1>11, <1>a DEF HandleFlag, Send, Active, Held
    <2>2. pc'[n] = "send" /\ phase # "hello"
      BY <1>11, <2>1 DEF HandleFlag, Send, Consistent
    <2>3. CASE phase = "vote"
      <3>1. n = peer /\ calls[n] = round /\ Inbox(n).data = flag[round] /\ n \in Voter
        BY <1>11, <2>1, <2>3
           DEF HandleFlag, Consistent, AskUnderWay, ReplyUnderWay, Ask, Reply, Msg
      <3>2. round \in Chunk
        BY <2>3 DEF HeadLine, Chunk
      <3>3. Held(n)' = Reply(calls[n] \in Chunk /\ Inbox(n).data = Expected[n][calls[n]])
        BY <1>11, <2>2 DEF HandleFlag, Send, Held
      <3>4. Held(n)' = Reply(Expected[peer][round] = flag[round])
        BY <3>1, <3>2, <3>3 DEF Reply
      <3>5. calls'[peer] = round + 1
        BY <1>11, <3>1 DEF HandleFlag
      <3>6. UNCHANGED <<phase, peer, round, flag>>
        BY <1>11 DEF HandleFlag
      <3>7. Held(n)' = Reply(Expected[peer'][round'] = flag'[round'])
        BY <3>4, <3>6 DEF Reply
      <3>8. calls'[peer'] = round' + 1 /\ peer' = n /\ n >= peer'
        BY <3>1, <3>5, <3>6 DEF Voter
      <3>9. ReplyUnderWay(n)'
        BY <2>2, <3>7, <3>8, Zenon DEF ReplyUnderWay
      <3> QED BY <2>1, <2>2, <2>3, <3>6, <3>9 DEF Consistent
    <2>4. CASE phase = "bye"
      BY <1>11, <2>1, <2>2, <2>4 DEF HandleFlag, Consistent
    <2> QED BY <2>2, <2>3, <2>4
  <1>12. ASSUME NEW n \in Node, HandleRest(n) PROVE Consistent(m)'
    <2>1. m = n /\ pc[n] = "handle" /\ Consistent(n) /\ Held(n) = Inbox(n)
      BY <1>12, <1>a DEF HandleRest, Send, Resume, Active, Held
    <2>2. phase = "bye"
      BY <1>12, <2>1
         DEF HandleRest, Consistent, AskUnderWay, ReplyUnderWay, Ask, Reply, Msg
    <2> QED BY <1>12, <2>1, <2>2 DEF HandleRest, Send, Resume, Consistent
  <1>13. ASSUME NEW n \in Node, Reap(n) PROVE Consistent(m)'
    BY <1>13, <1>u DEF Reap, Active
  <1>14. ASSUME NEW n \in Node, Destroy(n) PROVE Consistent(m)'
    BY <1>14, <1>u DEF Destroy, Active
  <1>15. CASE Handshake
    <2>1. m = 0 /\ pc'[0] = "send" /\ phase' = "vote" /\ phase = "hello"
      BY <1>15 DEF Handshake, Got, Wanted, Send, Active
    <2>2. Held(0)' = Ask(1, flag[0]) /\ round = 0 /\ peer = 1 /\ calls[1] = 0
      BY <1>15, <2>1 DEF Handshake, Send, Held, HeadLine, Counted, Voter
    <2> QED BY <1>15, <2>1, <2>2 DEF Handshake, Consistent, AskUnderWay
  <1>16. CASE CountReply
    <2>1. m = 0 /\ pc'[0] = "send" /\ phase' = "vote" /\ phase = "vote"
      BY <1>16 DEF CountReply, Got, Wanted, Send, Active
    <2>2. peer + 1 \in Voter
      BY <1>16 DEF CountReply, Voter
    <2>3. Held(0)' = Ask(peer + 1, flag[round]) /\ calls[peer + 1] = round
      BY <1>16, <2>1, <2>2 DEF CountReply, Send, Held, Counted, Voter
    <2> QED BY <1>16, <2>1, <2>2, <2>3 DEF CountReply, Consistent, AskUnderWay, Voter
  <1>17. CASE CloseRound
    <2>1. m = 0 /\ pc'[0] = "send" /\ phase' = "vote" /\ phase = "vote"
      BY <1>17 DEF CloseRound, Got, Wanted, Send, Active
    <2>2. ReplyUnderWay(0)
      BY <1>17, <1>a, <2>1
         DEF CloseRound, Got, Active, Consistent, AskUnderWay, Held, Ask, Msg
    <2>3. calls[1] = round + 1
      BY <1>17, <2>1, <2>2 DEF CloseRound, ReplyUnderWay, Counted, Voter
    <2>4. Held(0)' = Ask(1, flag[round + 1])
      BY <1>17, <2>1 DEF CloseRound, Send, Held
    <2> QED BY <1>17, <2>1, <2>3, <2>4 DEF CloseRound, Consistent, AskUnderWay
  <1>18. CASE Announce
    BY <1>18 DEF Announce, Got, Send, Consistent, Active
  <1>19. CASE GiveUp
    BY <1>19 DEF GiveUp, Refused, GaveUp, HeadLine
  <1>20. CASE UNCHANGED vars
    BY <1>20, <1>u DEF vars
  <1> QED
    BY <1>e, <1>1, <1>2, <1>3, <1>4, <1>5, <1>6, <1>7, <1>8, <1>9, <1>10, <1>11, <1>12,
       <1>13, <1>14, <1>15, <1>16, <1>17, <1>18, <1>19, <1>20
       DEF Next, Run, Boot, Queue, Voting, Exit, Head

(* A reply the head takes is the one of the voter it asks. *)
LEMMA ReplyAtHead ==
    ASSUME TypeOK, HeadLine, GaveUp \/ UnderWay, Got("REPLY")
    PROVE  phase = "vote" /\ ReplyUnderWay(0)
  <1>1. phase = "vote" /\ pc[0] = "handle" /\ 0 \in Node /\ ~GaveUp
    BY DEF Got, Wanted, TypeOK, Node, GaveUp
  <1>2. Consistent(0)
    BY <1>1 DEF UnderWay, Active
  <1>3. Held(0) = Inbox(0) /\ Inbox(0).cmd = "REPLY"
    BY <1>1 DEF Held, Got
  <1> QED BY <1>1, <1>2, <1>3 DEF Consistent, AskUnderWay, Ask, Msg

(* Initially no check function has been called. *)
LEMMA CountedInit == Init => Counted
  BY DEF Init, Counted

(* A check function is called once per round, when its question passes. *)
LEMMA CountedStep ==
    TypeOK /\ HeadLine /\ (GaveUp \/ UnderWay) /\ Counted /\ [Next]_vars => Counted'
  <1> SUFFICES ASSUME TypeOK, HeadLine, GaveUp \/ UnderWay, Counted, [Next]_vars
               PROVE  Counted'
    OBVIOUS
  <1>0. 0 \in Node /\ 1 \in Voter
    BY DEF Node, Voter
  <1> USE <1>0 DEF TypeOK, Counted, headVars
  <1>1. ASSUME NEW n \in Node, Fork(n) PROVE Counted'
    BY <1>1 DEF Fork
  <1>2. ASSUME NEW n \in Node, Attach(n) PROVE Counted'
    BY <1>2 DEF Attach
  <1>3. ASSUME NEW n \in Node, SetupFail(n) PROVE Counted'
    BY <1>3 DEF SetupFail
  <1>4. ASSUME NEW n \in Node, Store(n) PROVE Counted'
    BY <1>4 DEF Store
  <1>5. ASSUME NEW n \in Node, Wake(n) PROVE Counted'
    BY <1>5 DEF Wake, Resume
  <1>6. ASSUME NEW n \in Node, Sleep(n) PROVE Counted'
    BY <1>6 DEF Sleep
  <1>7. ASSUME NEW n \in Node, Accept(n) PROVE Counted'
    BY <1>7 DEF Accept
  <1>8. ASSUME NEW n \in Node, Forward(n) PROVE Counted'
    BY <1>8 DEF Forward
  <1>e. ASSUME NEW n \in Node, WakeError(n) PROVE Counted'
    BY <1>e DEF WakeError, Resume
  <1>9. ASSUME NEW n \in Node, RecvError(n) PROVE Counted'
    BY <1>9 DEF RecvError
  <1>10. ASSUME NEW n \in Node, HandlePing(n) PROVE Counted'
    BY <1>10 DEF HandlePing, Send
  <1>11. ASSUME NEW n \in Node, HandleFlag(n) PROVE Counted'
    <2>1. phase # "bye" => n \in Voter /\ n = peer /\ phase = "vote"
      <3>1. phase # "bye" => Consistent(n)
        BY <1>11 DEF HandleFlag, UnderWay, Active, GaveUp
      <3> QED BY <1>11, <3>1
              DEF HandleFlag, Consistent, AskUnderWay, ReplyUnderWay, Held, Ask, Reply, Msg
    <2> QED BY <1>11, <2>1 DEF HandleFlag
  <1>12. ASSUME NEW n \in Node, HandleRest(n) PROVE Counted'
    BY <1>12 DEF HandleRest, Send, Resume
  <1>13. ASSUME NEW n \in Node, Reap(n) PROVE Counted'
    BY <1>13 DEF Reap
  <1>14. ASSUME NEW n \in Node, Destroy(n) PROVE Counted'
    BY <1>14 DEF Destroy
  <1>15. CASE Handshake
    BY <1>15, <1>0 DEF Handshake, Got, Wanted, Voter, HeadLine
  <1>16. CASE CountReply
    <2>1. phase = "vote" /\ calls[peer] = round + 1
      BY <1>16, ReplyAtHead DEF CountReply, ReplyUnderWay
    <2> QED BY <1>16, <2>1 DEF CountReply, Voter
  <1>17. CASE CloseRound
    <2>1. phase = "vote" /\ calls[peer] = round + 1
      BY <1>17, ReplyAtHead DEF CloseRound, ReplyUnderWay
    <2> QED BY <1>17, <2>1 DEF CloseRound, Voter
  <1>18. CASE Announce
    BY <1>18 DEF Announce, Got, Wanted, Send
  <1>19. CASE GiveUp
    BY <1>19 DEF GiveUp, Refused, Send
  <1>20. CASE UNCHANGED vars
    BY <1>20 DEF vars
  <1> QED
    BY <1>e, <1>1, <1>2, <1>3, <1>4, <1>5, <1>6, <1>7, <1>8, <1>9, <1>10, <1>11, <1>12,
       <1>13, <1>14, <1>15, <1>16, <1>17, <1>18, <1>19, <1>20
       DEF Next, Run, Boot, Queue, Voting, Exit, Head

(* What one more voter adds to an approval. *)
LEMMA ApprovingNext ==
    ASSUME TypeOK, NEW k \in Chunk, NEW p \in Voter
    PROVE  /\ Cardinality(Approving(k, p)) \in Nat
           /\ Cardinality(Approving(k, p + 1)) =
                  Cardinality(Approving(k, p)) + IF Expected[p][k] = flag[k] THEN 1 ELSE 0
  <1>1. IsFiniteSet(1 .. N - 1) /\ Voter = 1 .. N - 1
    BY FS_Interval DEF Voter
  <1>2. IsFiniteSet(Approving(k, p)) /\ Cardinality(Approving(k, p)) \in Nat
    BY <1>1, FS_Subset, FS_CardinalityType DEF Approving
  <1>3. p \notin Approving(k, p)
    BY DEF Approving, Voter
  <1>4. CASE Expected[p][k] = flag[k]
    <2>1. Approving(k, p + 1) = Approving(k, p) \cup {p}
      BY <1>4 DEF Approving, Voter
    <2> QED BY <2>1, <1>2, <1>3, <1>4, FS_AddElement
  <1>5. CASE Expected[p][k] # flag[k]
    <2>1. Approving(k, p + 1) = Approving(k, p)
      BY <1>5 DEF Approving, Voter
    <2> QED BY <2>1, <1>2, <1>5
  <1> QED BY <1>2, <1>4, <1>5

(* No voter below 1 has approved. *)
LEMMA ApprovingNone == \A k : Cardinality(Approving(k, 1)) = 0
  <1>1. \A k : Approving(k, 1) = {}
    BY DEF Approving, Voter
  <1> QED BY <1>1, FS_EmptySet

(* The head adds up the approvals. *)
LEMMA TallyOK ==
    ASSUME TypeOK, HeadLine, GaveUp \/ UnderWay, Tallied, Got("REPLY")
    PROVE  /\ Tally = Cardinality(Approving(round, peer + 1))
           /\ wrong = \E k \in 0 .. round - 1 : Cardinality(Approving(k, N)) < Quorum
  <1>1. phase = "vote" /\ ReplyUnderWay(0)
    BY ReplyAtHead
  <1>2. round \in Chunk /\ peer \in Voter /\ pc[0] = "handle"
    BY <1>1 DEF TypeOK, HeadLine, Chunk, Got
  <1>3. Inbox(0) = Reply(Expected[peer][round] = flag[round])
    BY <1>1, <1>2 DEF ReplyUnderWay, Held
  <1>4. Inbox(0).data = "OK" <=> Expected[peer][round] = flag[round]
    BY <1>3 DEF Reply, Msg
  <1> QED BY <1>1, <1>2, <1>4, ApprovingNext DEF Tally, Tallied

(* Initially there is nothing to tally. *)
LEMMA TalliedInit == Init => Tallied
  BY DEF Init, Tallied

(* vote stays the number of approvals among the voters heard in this round. *)
LEMMA TalliedStep ==
    TypeOK /\ HeadLine /\ (GaveUp \/ UnderWay) /\ Tallied /\ [Next]_vars => Tallied'
  <1> SUFFICES ASSUME TypeOK, HeadLine, GaveUp \/ UnderWay, Tallied, [Next]_vars
               PROVE  Tallied'
    OBVIOUS
  <1>u. ASSUME UNCHANGED <<flag, phase, round, peer, vote, wrong>> PROVE Tallied'
    BY <1>u DEF Tallied, Approving
  <1> USE DEF TypeOK, headVars
  <1>1. ASSUME NEW n \in Node, Fork(n) PROVE Tallied'
    BY <1>1, <1>u DEF Fork
  <1>2. ASSUME NEW n \in Node, Attach(n) PROVE Tallied'
    BY <1>2, <1>u DEF Attach
  <1>3. ASSUME NEW n \in Node, SetupFail(n) PROVE Tallied'
    BY <1>3, <1>u DEF SetupFail
  <1>4. ASSUME NEW n \in Node, Store(n) PROVE Tallied'
    BY <1>4, <1>u DEF Store
  <1>5. ASSUME NEW n \in Node, Wake(n) PROVE Tallied'
    BY <1>5, <1>u DEF Wake, Resume
  <1>6. ASSUME NEW n \in Node, Sleep(n) PROVE Tallied'
    BY <1>6, <1>u DEF Sleep
  <1>7. ASSUME NEW n \in Node, Accept(n) PROVE Tallied'
    BY <1>7, <1>u DEF Accept
  <1>8. ASSUME NEW n \in Node, Forward(n) PROVE Tallied'
    BY <1>8, <1>u DEF Forward
  <1>e. ASSUME NEW n \in Node, WakeError(n) PROVE Tallied'
    BY <1>e, <1>u DEF WakeError, Resume
  <1>9. ASSUME NEW n \in Node, RecvError(n) PROVE Tallied'
    BY <1>9, <1>u DEF RecvError
  <1>10. ASSUME NEW n \in Node, HandlePing(n) PROVE Tallied'
    BY <1>10, <1>u DEF HandlePing, Send
  <1>11. ASSUME NEW n \in Node, HandleFlag(n) PROVE Tallied'
    BY <1>11, <1>u DEF HandleFlag, Send
  <1>12. ASSUME NEW n \in Node, HandleRest(n) PROVE Tallied'
    BY <1>12, <1>u DEF HandleRest, Send, Resume
  <1>13. ASSUME NEW n \in Node, Reap(n) PROVE Tallied'
    BY <1>13, <1>u DEF Reap
  <1>14. ASSUME NEW n \in Node, Destroy(n) PROVE Tallied'
    BY <1>14, <1>u DEF Destroy
  <1>15. CASE Handshake
    <2>1. /\ phase' = "vote" /\ round' = 0 /\ peer' = 1 /\ vote' = 0 /\ wrong' = FALSE
          /\ flag' = flag
      BY <1>15 DEF Handshake, Got, Wanted, HeadLine
    <2>2. \A k, p : Approving(k, p)' = Approving(k, p)
      BY <2>1 DEF Approving
    <2>3. Cardinality(Approving(0, 1)) = 0
      BY ApprovingNone
    <2>4. 0 .. round' - 1 = {}
      BY <2>1
    <2>5. vote' = Cardinality(Approving(round', peer'))
      BY <2>1, <2>3
    <2> QED BY <2>1, <2>2, <2>4, <2>5, Zenon DEF Tallied
  <1>16. CASE CountReply
    <2>1. \A k, p : Approving(k, p)' = Approving(k, p)
      BY <1>16 DEF CountReply, Approving
    <2>2. Tally = Cardinality(Approving(round, peer + 1)) /\ phase = "vote"
      BY <1>16, TallyOK, ReplyAtHead DEF CountReply
    <2>3. /\ vote' = Tally /\ peer' = peer + 1 /\ phase' = phase
          /\ round' = round /\ wrong' = wrong
      BY <1>16 DEF CountReply
    <2>4. vote' = Cardinality(Approving(round', peer'))
      BY <2>2, <2>3
    <2>5. wrong' = \E k \in 0 .. round' - 1 : Cardinality(Approving(k, N)) < Quorum
      BY <2>2, <2>3 DEF Tallied
    <2> QED BY <2>1, <2>4, <2>5, Zenon DEF Tallied
  <1>17. CASE CloseRound
    <2>1. \A k, p : Approving(k, p)' = Approving(k, p)
      BY <1>17 DEF CloseRound, Approving
    <2>t. /\ Tally = Cardinality(Approving(round, peer + 1))
          /\ wrong = \E k \in 0 .. round - 1 : Cardinality(Approving(k, N)) < Quorum
      BY <1>17, TallyOK, Zenon DEF CloseRound
    <2>n. peer + 1 = N
      BY <1>17 DEF CloseRound
    <2>2. /\ Tally = Cardinality(Approving(round, N))
          /\ wrong = \E k \in 0 .. round - 1 : Cardinality(Approving(k, N)) < Quorum
      BY <2>t, <2>n, Zenon
    <2>3. wrong' = \E k \in 0 .. round : Cardinality(Approving(k, N)) < Quorum
      <3>1. wrong' = (wrong \/ Cardinality(Approving(round, N)) < Quorum)
        BY <1>17, <2>2 DEF CloseRound, Short
      <3>2. 0 .. round = (0 .. round - 1) \cup {round}
        OBVIOUS
      <3> QED BY <2>2, <3>1, <3>2, Zenon
    <2>4. round' = round + 1 /\ 0 .. round' - 1 = 0 .. round
      BY <1>17 DEF CloseRound
    <2>5. wrong' = \E k \in 0 .. round' - 1 : Cardinality(Approving(k, N)') < Quorum
      BY <2>1, <2>3, <2>4, Zenon
    <2>6. vote' = 0 /\ Cardinality(Approving(round', 1)) = 0 /\ peer' = 1
      BY <1>17, ApprovingNone DEF CloseRound
    <2> QED BY <2>1, <2>5, <2>6 DEF Tallied
  <1>18. CASE Announce
    BY <1>18 DEF Announce, Tallied
  <1>19. CASE GiveUp
    BY <1>19 DEF GiveUp, Tallied
  <1>20. CASE UNCHANGED vars
    BY <1>20, <1>u DEF vars
  <1> QED
    BY <1>e, <1>1, <1>2, <1>3, <1>4, <1>5, <1>6, <1>7, <1>8, <1>9, <1>10, <1>11, <1>12,
       <1>13, <1>14, <1>15, <1>16, <1>17, <1>18, <1>19, <1>20
       DEF Next, Run, Boot, Queue, Voting, Exit, Head

(* What the head announces. *)
LEMMA AnnounceOK ==
    ASSUME TypeOK, HeadLine, GaveUp \/ UnderWay, Tallied, Announce
    PROVE  /\ verdict' = IF \E k \in Chunk : Cardinality(Approving(k, N)) < Quorum
                         THEN "Wrong" ELSE "Correct"
           /\ Announced'
  <1>1. /\ Tally = Cardinality(Approving(round, peer + 1))
        /\ wrong = \E k \in 0 .. round - 1 : Cardinality(Approving(k, N)) < Quorum
    BY TallyOK, Zenon DEF Announce
  <1>2. peer + 1 = N /\ round \in Chunk /\ Chunk = (0 .. round - 1) \cup {round}
    BY DEF Announce, Chunk, TypeOK
  <1>3. wrong' = (wrong \/ Cardinality(Approving(round, N)) < Quorum)
    BY <1>1, <1>2, Zenon DEF Announce, Short
  <1>4. wrong' = \E k \in Chunk : Cardinality(Approving(k, N)) < Quorum
    BY <1>1, <1>2, <1>3, Zenon
  <1>5. verdict' = IF \E k \in Chunk : Cardinality(Approving(k, N)) < Quorum
                   THEN "Wrong" ELSE "Correct"
    BY <1>4, Zenon DEF Announce
  <1>6. \A k, p : Approving(k, p)' = Approving(k, p)
    BY DEF Announce, Approving
  <1> QED BY <1>5, <1>6, Zenon DEF Announced

(* Initially there is no verdict. *)
LEMMA AnnouncedInit == Init => Announced
  BY DEF Init, Announced

(* A verdict is only printed when wrong says what the poll decides. *)
LEMMA AnnouncedStep ==
    TypeOK /\ HeadLine /\ (GaveUp \/ UnderWay) /\ Tallied /\ Announced /\ [Next]_vars
        => Announced'
  <1> SUFFICES ASSUME TypeOK, HeadLine, GaveUp \/ UnderWay, Tallied, Announced, [Next]_vars
               PROVE  Announced'
    OBVIOUS
  <1>u. ASSUME UNCHANGED <<flag, verdict>> PROVE Announced'
    BY <1>u DEF Announced, Approving
  <1> USE DEF headVars
  <1>1. ASSUME NEW n \in Node, Fork(n) PROVE Announced'
    BY <1>1, <1>u DEF Fork
  <1>2. ASSUME NEW n \in Node, Attach(n) PROVE Announced'
    BY <1>2, <1>u DEF Attach
  <1>3. ASSUME NEW n \in Node, SetupFail(n) PROVE Announced'
    BY <1>3, <1>u DEF SetupFail
  <1>4. ASSUME NEW n \in Node, Store(n) PROVE Announced'
    BY <1>4, <1>u DEF Store
  <1>5. ASSUME NEW n \in Node, Wake(n) PROVE Announced'
    BY <1>5, <1>u DEF Wake, Resume
  <1>6. ASSUME NEW n \in Node, Sleep(n) PROVE Announced'
    BY <1>6, <1>u DEF Sleep
  <1>7. ASSUME NEW n \in Node, Accept(n) PROVE Announced'
    BY <1>7, <1>u DEF Accept
  <1>8. ASSUME NEW n \in Node, Forward(n) PROVE Announced'
    BY <1>8, <1>u DEF Forward
  <1>e. ASSUME NEW n \in Node, WakeError(n) PROVE Announced'
    BY <1>e, <1>u DEF WakeError, Resume
  <1>9. ASSUME NEW n \in Node, RecvError(n) PROVE Announced'
    BY <1>9, <1>u DEF RecvError
  <1>10. ASSUME NEW n \in Node, HandlePing(n) PROVE Announced'
    BY <1>10, <1>u DEF HandlePing, Send
  <1>11. ASSUME NEW n \in Node, HandleFlag(n) PROVE Announced'
    BY <1>11, <1>u DEF HandleFlag, Send
  <1>12. ASSUME NEW n \in Node, HandleRest(n) PROVE Announced'
    BY <1>12, <1>u DEF HandleRest, Send, Resume
  <1>13. ASSUME NEW n \in Node, Reap(n) PROVE Announced'
    BY <1>13, <1>u DEF Reap
  <1>14. ASSUME NEW n \in Node, Destroy(n) PROVE Announced'
    BY <1>14, <1>u DEF Destroy
  <1>15. CASE Handshake
    BY <1>15, <1>u DEF Handshake, Got, Wanted, Send
  <1>16. CASE CountReply
    BY <1>16, <1>u DEF CountReply, Got, Wanted, Send
  <1>17. CASE CloseRound
    BY <1>17, <1>u DEF CloseRound, Got, Wanted, Send
  <1>18. CASE Announce
    BY <1>18, AnnounceOK
  <1>19. CASE GiveUp
    BY <1>19, <1>u DEF GiveUp, Refused, Send
  <1>20. CASE UNCHANGED vars
    BY <1>20, <1>u DEF vars
  <1> QED
    BY <1>e, <1>1, <1>2, <1>3, <1>4, <1>5, <1>6, <1>7, <1>8, <1>9, <1>10, <1>11, <1>12,
       <1>13, <1>14, <1>15, <1>16, <1>17, <1>18, <1>19, <1>20
       DEF Next, Run, Boot, Queue, Voting, Exit, Head

-----------------------------------------------------------------------------
(* The segments: who makes them, who uses them, who removes them. *)

Inner == Located \ {"unborn", "setup", "destroy", "done", "failed"}

\* A step in which no process begins, leaves its loops, or ends.
Within ==
    /\ segs' = segs /\ faults' \in Nat /\ faults' >= faults
    /\ DOMAIN pc' = Node
    /\ \A n \in Node : pc'[n] = pc[n] \/ (pc[n] \in Inner /\ pc'[n] \in Inner)

(* Only four actions begin or end a process. *)
LEMMA Steps ==
    ASSUME TypeOK, [Next]_vars
    PROVE  \/ \E n \in Node : Fork(n) \/ SetupFail(n) \/ Reap(n) \/ Destroy(n)
           \/ Within
  <1> USE Ring DEF TypeOK, Within, Inner, Located, Active
  <1>0. 0 \in Node
    BY DEF Node
  <1>1. ASSUME NEW n \in Node, Attach(n) PROVE Within
    BY <1>1 DEF Attach
  <1>2. ASSUME NEW n \in Node, Store(n) PROVE Within
    BY <1>2 DEF Store
  <1>3. ASSUME NEW n \in Node, Wake(n) PROVE Within
    BY <1>3 DEF Wake, Resume
  <1>4. ASSUME NEW n \in Node, Sleep(n) PROVE Within
    BY <1>4 DEF Sleep
  <1>5. ASSUME NEW n \in Node, Accept(n) PROVE Within
    BY <1>5 DEF Accept
  <1>6. ASSUME NEW n \in Node, Forward(n) PROVE Within
    BY <1>6 DEF Forward
  <1>e. ASSUME NEW n \in Node, WakeError(n) PROVE Within
    BY <1>e DEF WakeError, Resume
  <1>7. ASSUME NEW n \in Node, RecvError(n) PROVE Within
    BY <1>7 DEF RecvError
  <1>8. ASSUME NEW n \in Node, HandlePing(n) PROVE Within
    BY <1>8 DEF HandlePing, Send
  <1>9. ASSUME NEW n \in Node, HandleFlag(n) PROVE Within
    BY <1>9 DEF HandleFlag, Send
  <1>10. ASSUME NEW n \in Node, HandleRest(n) PROVE Within
    BY <1>10 DEF HandleRest, Send, Resume
  <1>11. CASE Handshake
    BY <1>0, <1>11 DEF Handshake, Got, Send
  <1>12. CASE CountReply
    BY <1>0, <1>12 DEF CountReply, Got, Send
  <1>13. CASE CloseRound
    BY <1>0, <1>13 DEF CloseRound, Got, Send
  <1>14. CASE Announce
    BY <1>0, <1>14 DEF Announce, Got, Send
  <1>15. CASE GiveUp
    <2>1. faults' \in Nat /\ faults' >= faults
      BY <1>15 DEF GiveUp
    <2> QED BY <1>0, <1>15, <2>1 DEF GiveUp, Refused, Send
  <1>16. CASE UNCHANGED vars
    BY <1>16 DEF vars
  <1> QED
    BY <1>e, <1>1, <1>2, <1>3, <1>4, <1>5, <1>6, <1>7, <1>8, <1>9, <1>10, <1>11, <1>12, <1>13,
       <1>14, <1>15, <1>16 DEF Next, Run, Boot, Queue, Voting, Exit, Head

(* Before the head has made anything there is nothing to use or remove. *)
LEMMA ExitsInit == Init => Exits
  BY DEF Init, Exits, Bearing, Provided, Childless, SegmentsInUse, Orderly, Node, Voter,
         Located, Active

(* A process makes its segment before it makes the one that will read it. *)
LEMMA ForkExits ==
    ASSUME TypeOK, Exits, NEW n \in Node, Fork(n)
    PROVE  Exits'
  <1> USE DEF Exits, Located, Active
  <1>1. /\ segs' = segs \cup Made(n) /\ faults' = faults /\ pc[n] = "setup"
        /\ pc' = [m \in Node |-> IF m = n THEN "attach"
                                 ELSE IF m = n + 1 THEN "setup" ELSE pc[m]]
        /\ n \in Made(n) /\ (n = 0 => N \in Made(n)) /\ Made(n) \subseteq {n, N}
    BY DEF Fork, Made
  <1>2. N \in segs'
    BY <1>1 DEF Provided, Node, Voter
  <1>3. n + 1 \in Node => pc[n + 1] = "unborn"
    BY <1>1 DEF Bearing, Node, Voter
  <1>4. n # 0 => n - 1 \in segs /\ pc[n - 1] \notin {"unborn", "setup"}
    BY <1>1 DEF Bearing, Provided, Node, Voter
  <1>5. Bearing'
    BY <1>1, <1>3, <1>4 DEF Bearing, Node, Voter
  <1>6. Provided'
    BY <1>1, <1>2 DEF Provided, Node, Voter
  <1>7. Childless'
    BY <1>1, <1>3 DEF Childless, Node, Voter
  <1>8. SegmentsInUse'
    BY <1>1, <1>2, <1>4 DEF SegmentsInUse, Seg, Pred, Node
  <1>9. Orderly'
    <2> SUFFICES ASSUME faults = 0 PROVE Orderly'
      BY <1>1 DEF Orderly
    <2>1. \A m \in Node : n + 1 = m => m \notin segs
      BY <1>3 DEF Orderly
    <2>2. \A m \in Node : pc[m] \in {"destroy", "done"} => n < m
      BY <1>1 DEF Orderly, Node
    <2>3. \A m \in Node : pc[m] \in {"destroy", "done"} => n + 1 < m
      BY <1>3, <2>2 DEF Node
    <2>4. \A m, k \in Node : pc'[k] \in {"destroy", "done"} /\ k < m => pc'[m] = "done"
      BY <1>1, <2>2, <2>3 DEF Orderly, Node
    <2>5. \A m \in Node : m \in segs' <=> pc'[m] \notin {"unborn", "setup", "done"}
      BY <1>1, <1>3 DEF Orderly, Node
    <2>6. pc'[0] # "unborn" /\ pc'[0] # "setup"
      <3>1. n # 0 => N \in segs
        BY <1>1 DEF Provided, Node, Voter
      <3> QED BY <1>1, <3>1 DEF Orderly, Node
    <2>7. \A m \in Node : pc'[m] # "failed"
      BY <1>1 DEF Orderly
    <2> QED BY <1>2, <2>4, <2>5, <2>6, <2>7 DEF Orderly
  <1> QED BY <1>5, <1>6, <1>7, <1>8, <1>9

(* A process that fails removes nothing, and nobody is behind it. *)
LEMMA SetupFailExits ==
    ASSUME TypeOK, Exits, NEW n \in Node, SetupFail(n)
    PROVE  Exits'
  <1> USE DEF Exits, Located, Active
  <1>1. /\ segs \subseteq segs' /\ faults' # 0
        /\ pc[n] \in {"setup", "attach"}
        /\ pc' = [pc EXCEPT ![n] = "failed"] /\ pc \in [Node -> Located]
    BY DEF SetupFail, TypeOK
  <1>2. Bearing'
    BY <1>1 DEF Bearing, Node, Voter
  <1>3. Provided'
    BY <1>1 DEF Provided, Node, Voter
  <1>4. Childless'
    BY <1>1 DEF Childless, Node, Voter
  <1>5. SegmentsInUse'
    BY <1>1 DEF SegmentsInUse
  <1>6. Orderly'
    BY <1>1 DEF Orderly
  <1> QED BY <1>2, <1>3, <1>4, <1>5, <1>6

(* A process leaves wait(NULL) when its child is gone. *)
LEMMA ReapExits ==
    ASSUME TypeOK, Exits, NEW n \in Node, Reap(n)
    PROVE  Exits'
  <1> USE DEF Exits, Located, Active
  <1>1. /\ segs' = segs /\ faults' = faults /\ pc[n] = "leave"
        /\ pc' = [pc EXCEPT ![n] = "destroy"] /\ pc \in [Node -> Located]
        /\ n # N - 1 => pc[n + 1] \in {"done", "failed"}
    BY DEF Reap, TypeOK
  <1>2. Bearing'
    BY <1>1 DEF Bearing, Node, Voter
  <1>3. Provided'
    BY <1>1 DEF Provided, Node, Voter
  <1>4. Childless'
    BY <1>1 DEF Childless, Node, Voter
  <1>5. SegmentsInUse'
    BY <1>1 DEF SegmentsInUse
  <1>6. Orderly'
    <2> SUFFICES ASSUME faults = 0 PROVE Orderly'
      BY <1>1 DEF Orderly
    <2>1. \A m \in Node : n < m => pc[m] = "done"
      BY <1>1 DEF Orderly, Node
    <2>2. \A m, k \in Node : pc'[k] \in {"destroy", "done"} /\ k < m => pc'[m] = "done"
      <3>1. \A m \in Node : pc[m] \in {"destroy", "done"} => n < m
        BY <1>1 DEF Orderly, Node
      <3> QED BY <1>1, <2>1, <3>1 DEF Orderly, Node
    <2>3. \A m \in Node : m \in segs' <=> pc'[m] \notin {"unborn", "setup", "done"}
      BY <1>1 DEF Orderly
    <2>4. /\ \A m \in Node : pc'[m] # "failed"
          /\ pc'[0] # "unborn"
          /\ N \in segs' <=> pc'[0] # "setup"
      BY <1>1 DEF Orderly, Node
    <2> QED BY <2>2, <2>3, <2>4 DEF Orderly
  <1> QED BY <1>2, <1>3, <1>4, <1>5, <1>6

(* What a process removes is used by itself and its child alone. *)
LEMMA DestroyExits ==
    ASSUME TypeOK, Exits, NEW n \in Node, Destroy(n)
    PROVE  Exits'
  <1> USE DEF Exits, Located, Active
  <1>1. /\ segs' = segs \ {n} /\ faults' = faults /\ pc[n] = "destroy"
        /\ pc' = [pc EXCEPT ![n] = "done"] /\ pc \in [Node -> Located]
    BY DEF Destroy, TypeOK
  <1>2. n # N - 1 => n + 1 \in Node /\ pc[n + 1] \in {"done", "failed"}
    BY <1>1 DEF Childless, Node, Voter
  <1>3. Bearing'
    BY <1>1 DEF Bearing, Node, Voter
  <1>4. Provided'
    BY <1>1, <1>2 DEF Provided, Node, Voter
  <1>5. Childless'
    BY <1>1 DEF Childless, Node, Voter
  <1>6. SegmentsInUse'
    <2> SUFFICES ASSUME NEW m \in Node,
                        pc'[m] \in Located \ {"unborn", "setup", "done", "failed"}
                 PROVE  Seg(m) \in segs' /\ Seg(Pred(m)) \in segs'
      BY DEF SegmentsInUse
    <2>1. m # n /\ pc[m] \in Located \ {"unborn", "setup", "done", "failed"}
      BY <1>1
    <2>2. Seg(m) \in segs /\ Seg(Pred(m)) \in segs
      BY <2>1 DEF SegmentsInUse
    <2>3. Seg(m) # n
      BY <2>1 DEF Seg, Node
    <2>4. Seg(Pred(m)) # n
      BY <1>2, <2>1 DEF Seg, Pred, Node
    <2> QED BY <1>1, <2>2, <2>3, <2>4
  <1>7. Orderly'
    <2> SUFFICES ASSUME faults = 0 PROVE Orderly'
      BY <1>1 DEF Orderly
    <2>1. \A m, k \in Node : pc'[k] \in {"destroy", "done"} /\ k < m => pc'[m] = "done"
      BY <1>1 DEF Orderly
    <2>2. \A m \in Node : m \in segs' <=> pc'[m] \notin {"unborn", "setup", "done"}
      BY <1>1 DEF Orderly
    <2>3. /\ \A m \in Node : pc'[m] # "failed"
          /\ pc'[0] # "unborn"
          /\ N \in segs' <=> pc'[0] # "setup"
      BY <1>1 DEF Orderly, Node
    <2> QED BY <2>1, <2>2, <2>3 DEF Orderly
  <1> QED BY <1>3, <1>4, <1>5, <1>6, <1>7

(* A step within the loops. *)
LEMMA WithinExits ==
    ASSUME TypeOK, Exits, Within
    PROVE  Exits'
  <1> USE DEF Exits, Within, Inner
  <1>1. \A x \in {"unborn", "setup", "destroy", "done", "failed"} : \A n \in Node :
           pc'[n] = x <=> pc[n] = x
    OBVIOUS
  <1>2. \A n \in Voter : n \in Node /\ n - 1 \in Node
    BY DEF Node, Voter
  <1>3. Bearing'
    BY <1>1, <1>2 DEF Bearing
  <1>4. Provided'
    BY <1>1, <1>2 DEF Provided
  <1>5. Childless'
    BY <1>1, <1>2 DEF Childless
  <1>6. SegmentsInUse'
    BY <1>1, Zenon DEF SegmentsInUse, TypeOK, Located, Active
  <1>7. Orderly'
    BY <1>1 DEF Orderly, TypeOK, Node
  <1> QED BY <1>3, <1>4, <1>5, <1>6, <1>7

(* Every step, together. *)
LEMMA ExitsStep == TypeOK /\ Exits /\ [Next]_vars => Exits'
  BY Steps, ForkExits, SetupFailExits, ReapExits, DestroyExits, WithinExits

-----------------------------------------------------------------------------
(* Without faults there is always somebody to wait for. *)

(* The first process is about to make the others. *)
LEMMA MovingInit == Init => Moving
  BY DEF Init, Moving, GaveUp, Born, Polling, Quitting, Gone, Node

(* Making a process leaves the next one to be made by it. *)
LEMMA BornStep == TypeOK /\ Born /\ [Next]_vars /\ faults' = 0 => Born'
  <1> SUFFICES ASSUME TypeOK, Born, [Next]_vars, faults' = 0,
                      NEW m \in Node, pc'[m] = "unborn"
               PROVE  \E k \in Node : k < m /\ pc'[k] = "setup"
    BY DEF Born
  <1>1. ASSUME NEW n \in Node, Fork(n)
        PROVE  \E k \in Node : k < m /\ pc'[k] = "setup"
    <2>1. pc' = [l \in Node |-> IF l = n THEN "attach" ELSE IF l = n + 1 THEN "setup" ELSE pc[l]]
      BY <1>1 DEF Fork
    <2>2. pc[m] = "unborn" /\ m # n + 1
      BY <2>1
    <2>3. PICK k \in Node : k < m /\ pc[k] = "setup"
      BY <2>2 DEF Born
    <2>4. CASE k = n
      <3>1. n + 1 \in Node /\ n + 1 < m
        BY <2>2, <2>3, <2>4 DEF Node
      <3> QED BY <2>1, <3>1 DEF Node
    <2>5. CASE k # n
      BY <2>1, <2>3, <2>5
    <2> QED BY <2>4, <2>5
  <1>2. ASSUME NEW n \in Node, SetupFail(n) PROVE FALSE
    BY <1>2 DEF SetupFail, TypeOK
  <1>3. ASSUME NEW n \in Node, Reap(n) \/ Destroy(n)
        PROVE  \E k \in Node : k < m /\ pc'[k] = "setup"
    BY <1>3 DEF Reap, Destroy, TypeOK, Born
  <1>4. CASE Within
    BY <1>4 DEF Within, Inner, Born
  <1> QED BY <1>1, <1>2, <1>3, <1>4, Steps

(* In the hello and the vote, what is under way is a question or its answer, and it reaches *)
(* whoever can handle it.                                                                    *)
LEMMA Understood ==
    ASSUME TypeOK, HeadLine, UnderWay, phase # "bye", NEW n \in Node, pc[n] \in Active
    PROVE  /\ Held(n).cmd \in {"PING", "FLAG", "REPLY"}
           /\ pc[n] = "wake" => out[n].cmd # "QUIT"
           /\ pc[n] = "handle" => Inbox(n).cmd = IF n = 0 THEN Wanted ELSE Held(n).cmd
           /\ pc[n] = "handle" /\ n # 0 => Held(n).cmd \in {"PING", "FLAG"}
  <1>1. Consistent(n) /\ (pc[n] = "handle" => Held(n) = Inbox(n))
    BY DEF UnderWay, Active, Held
  <1>2. phase \in {"hello", "vote"} /\ peer \in Voter
    BY DEF TypeOK
  <1>3. CASE phase = "hello"
    BY <1>1, <1>3 DEF Consistent, Held, Wanted
  <1>4. CASE phase = "vote" /\ AskUnderWay(n)
    <2>1. Held(n).cmd = "FLAG"
      BY <1>4 DEF AskUnderWay, Ask, Msg
    <2>2. pc[n] = "handle" => n # 0
      BY <1>2, <1>4 DEF AskUnderWay, Voter
    <2>3. pc[n] = "wake" => out[n].cmd = "FLAG"
      BY <1>1, <2>1 DEF Consistent, Held
    <2> QED BY <1>1, <2>1, <2>2, <2>3
  <1>5. CASE phase = "vote" /\ ReplyUnderWay(n)
    <2>1. Held(n).cmd = "REPLY"
      BY <1>5 DEF ReplyUnderWay, Reply, Msg
    <2>2. pc[n] = "handle" => n = 0
      BY <1>5 DEF ReplyUnderWay
    <2>3. pc[n] = "wake" => out[n].cmd = "REPLY"
      BY <1>1, <2>1 DEF Consistent, Held
    <2> QED BY <1>1, <1>5, <2>1, <2>2, <2>3 DEF Wanted
  <1> QED BY <1>1, <1>2, <1>3, <1>4, <1>5 DEF Consistent

(* The head gives up only after a system call has failed: it never gets another answer than *)
(* the one it waits for.                                                                     *)
LEMMA NoGiveUp ==
    ASSUME TypeOK, HeadLine, UnderWay, GiveUp
    PROVE  faults' # 0
  <1>1. 0 \in Node /\ phase # "bye"
    BY DEF GiveUp, Refused, HeadLine, Node
  <1>2. CASE pc[0] = "wait"
    BY <1>2 DEF GiveUp, TypeOK
  <1>3. CASE pc[0] = "handle"
    BY <1>1, <1>3, Understood DEF GiveUp, Refused, Active
  <1> QED BY <1>2, <1>3 DEF GiveUp, Refused

(* Before QUIT nobody leaves, and a message is handed on. *)
LEMMA PollingStep ==
    TypeOK /\ HeadLine /\ UnderWay /\ Bearing /\ Polling /\ [Next]_vars /\ faults' = 0
        => Polling'
  <1> SUFFICES ASSUME TypeOK, HeadLine, UnderWay, Bearing, Polling, [Next]_vars, faults' = 0,
                      phase' # "bye"
               PROVE  /\ \A n \in Node : pc'[n] \notin Gone
                      /\ pc'[0] \in {"setup", "attach"} \/ \E n \in Node : pc'[n] \in Active
    BY DEF Polling
  <1> DEFINE Goal == /\ \A n \in Node : pc'[n] \notin Gone
                     /\ pc'[0] \in {"setup", "attach"} \/ \E n \in Node : pc'[n] \in Active
  <1>0. 0 \in Node /\ pc \in [Node -> Located] /\ faults \in Nat
    BY DEF Node, TypeOK
  <1>p. phase # "bye" =>
            /\ \A n \in Node : pc[n] \notin Gone
            /\ pc[0] \in {"setup", "attach"} \/ \E n \in Node : pc[n] \in Active
    BY DEF Polling
  <1>u. ASSUME NEW n \in Node, phase # "bye", pc[n] = "wake" PROVE out[n].cmd # "QUIT"
    BY <1>u, Understood DEF Active
  <1>r. ASSUME NEW n \in Node, phase # "bye", pc[n] = "handle", n # 0
        PROVE  Inbox(n).cmd \in {"PING", "FLAG"}
    BY <1>r, Understood DEF Active, Held
  <1> USE <1>0, <1>p, Ring DEF headVars, Active, Gone
  <1>1. ASSUME NEW n \in Node, Fork(n) PROVE Goal
    <2>1. n + 1 \in Node => pc[n + 1] = "unborn"
      BY <1>1 DEF Fork, Bearing, Node, Voter
    <2> QED BY <1>1, <2>1 DEF Fork, Node
  <1>2. ASSUME NEW n \in Node, Attach(n) PROVE Goal
    BY <1>2 DEF Attach
  <1>3. ASSUME NEW n \in Node, SetupFail(n) \/ WakeError(n) \/ RecvError(n) PROVE FALSE
    BY <1>3 DEF SetupFail, WakeError, RecvError
  <1>4. ASSUME NEW n \in Node, Store(n) PROVE Goal
    BY <1>4 DEF Store
  <1>5. ASSUME NEW n \in Node, Wake(n) PROVE Goal
    <2>1. phase # "bye" /\ pc[n] = "wake" /\ Resume(out[n].cmd) = "recv"
      BY <1>5, <1>u DEF Wake, Resume
    <2> QED BY <1>5, <2>1 DEF Wake
  <1>6. ASSUME NEW n \in Node, Sleep(n) PROVE Goal
    BY <1>6 DEF Sleep
  <1>7. ASSUME NEW n \in Node, Accept(n) PROVE Goal
    BY <1>7 DEF Accept
  <1>8. ASSUME NEW n \in Node, Forward(n) PROVE Goal
    BY <1>8 DEF Forward
  <1>9. ASSUME NEW n \in Node, HandlePing(n) \/ HandleFlag(n) PROVE Goal
    BY <1>9 DEF HandlePing, HandleFlag, Send
  <1>10. ASSUME NEW n \in Node, HandleRest(n) PROVE FALSE
    BY <1>10, <1>r DEF HandleRest
  <1>11. ASSUME NEW n \in Node, Reap(n) \/ Destroy(n) PROVE FALSE
    BY <1>11 DEF Reap, Destroy
  <1>12. CASE Head
    BY <1>12 DEF Head, Handshake, CountReply, CloseRound, Announce, Got, Send
  <1>13. CASE GiveUp
    BY <1>13 DEF GiveUp
  <1>14. CASE UNCHANGED vars
    BY <1>14 DEF vars
  <1> QED
    BY <1>1, <1>2, <1>3, <1>4, <1>5, <1>6, <1>7, <1>8, <1>9, <1>10, <1>11, <1>12, <1>13, <1>14
       DEF Next, Run, Boot, Queue, Voting, Exit

(* QUIT is handed on, or has come to the tail. *)
LEMMA QuittingStep ==
    ASSUME TypeOK, HeadLine, OneMessage, UnderWay, ~GaveUp, Bearing, Polling, Quitting,
           [Next]_vars, faults' = 0
    PROVE  Quitting'
  <1> SUFFICES ASSUME phase' = "bye"
               PROVE  /\ \A m \in Node : pc'[m] \in Active => QuitUnderWay(m)'
                      /\ \/ \E m \in Node : pc'[m] \in Active
                         \/ \A m \in Node : pc'[m] \in Gone
    BY DEF Quitting
  <1> DEFINE Goal == /\ \A m \in Node : pc'[m] \in Active => QuitUnderWay(m)'
                     /\ \/ \E m \in Node : pc'[m] \in Active
                        \/ \A m \in Node : pc'[m] \in Gone
  <1>0. 0 \in Node /\ pc \in [Node -> Located] /\ faults \in Nat
    BY DEF Node, TypeOK
  <1>1. CASE phase # "bye"
    <2>1. \A n \in Node : pc[n] \notin Gone
      BY <1>1 DEF Polling
    <2>2. Announce
      BY <1>1, NoGiveUp DEF Next, Run, Boot, Queue, Voting, Exit, Head, Fork, Attach, SetupFail,
         Store, Wake, Sleep, Accept, Forward, WakeError, RecvError, HandlePing,
         HandleFlag, HandleRest, Reap,
         Destroy, Handshake, CountReply, CloseRound, vars, headVars
    <2>3. /\ pc[0] = "handle" /\ pc' = [pc EXCEPT ![0] = "send"] /\ out' = [out EXCEPT ![0] = Quit]
          /\ out \in [Node -> Message]
      BY <2>2 DEF Announce, Got, Send, TypeOK
    <2>4. \A m \in Node : pc[m] \in Active => m = 0
      BY <1>0, <2>3 DEF OneMessage, Active
    <2>5. ASSUME NEW m \in Node, pc'[m] \in Active PROVE QuitUnderWay(m)'
      <3>1. m = 0 /\ pc'[m] = "send" /\ Held(m)' = Quit
        BY <1>0, <2>3, <2>4, <2>5 DEF Held
      <3>2. \A l \in Node : pc'[l] \notin Gone
        BY <1>0, <2>1, <2>3 DEF Gone
      <3> QED BY <3>1, <3>2 DEF QuitUnderWay, Quit, Msg, Node
    <2> QED BY <1>0, <2>3, <2>5 DEF Active
  <1>2. CASE phase = "bye"
    <2>1. /\ \A n \in Node : pc[n] \in Active => QuitUnderWay(n)
          /\ (\E n \in Node : pc[n] \in Active) \/ \A n \in Node : pc[n] \in Gone
      BY <1>2 DEF Quitting
    <2>2. pc[0] \in {"send", "wake", "leave", "destroy", "done"}
      BY <1>2 DEF HeadLine
    <2>3. \A m, n \in Node : pc[m] \in Active /\ pc[n] \in Active => m = n
      BY DEF OneMessage
    <2>s. ASSUME UNCHANGED <<slot, out>>,
                 \A n \in Node : pc'[n] = pc[n] \/ (pc[n] \notin Active /\ pc'[n] \notin Active
                                                    /\ (pc[n] \in Gone <=> pc'[n] \in Gone))
          PROVE  Goal
      <3>1. ASSUME NEW m \in Node, pc'[m] \in Active PROVE QuitUnderWay(m)'
        <4>1. pc[m] = pc'[m] /\ QuitUnderWay(m)
          BY <2>s, <2>1, <3>1
        <4>2. Held(m)' = Held(m)
          BY <2>s, <4>1 DEF Held, Inbox
        <4> QED BY <2>s, <4>1, <4>2 DEF QuitUnderWay, Active, Gone
      <3> QED BY <2>s, <2>1, <3>1
    <2> USE <1>0, Ring DEF headVars
    <2>4. ASSUME NEW n \in Node, Fork(n) PROVE Goal
      <3>1. n + 1 \in Node => pc[n + 1] = "unborn"
        BY <2>4 DEF Fork, Bearing, Node, Voter
      <3> QED BY <2>4, <2>s, <3>1 DEF Fork, Active, Gone
    <2>5. ASSUME NEW n \in Node, Attach(n) PROVE Goal
      BY <2>2, <2>5, <2>s DEF Attach, Active, Gone
    <2>6. ASSUME NEW n \in Node, SetupFail(n) \/ WakeError(n) \/ RecvError(n) PROVE FALSE
      BY <2>6 DEF SetupFail, WakeError, RecvError
    <2>7. ASSUME NEW n \in Node, Sleep(n) \/ Reap(n) \/ Destroy(n) PROVE Goal
      BY <2>7, <2>s DEF Sleep, Reap, Destroy, Active, Gone
    <2>8. ASSUME NEW n \in Node, Store(n) PROVE Goal
      <3>1. /\ pc[n] = "send" /\ pc' = [pc EXCEPT ![n] = "wake"] /\ QuitUnderWay(n)
            /\ slot'[n].cmd = out[n].cmd /\ slot'[n].dest = out[n].dest
        BY <2>1, <2>8 DEF Store, Msg, Active, TypeOK
      <3>2. Held(n) = out[n] /\ Held(n)' = slot'[n]
        BY <3>1 DEF Held
      <3>3. QuitUnderWay(n)'
        BY <3>1, <3>2 DEF QuitUnderWay, Gone
      <3> QED BY <2>3, <3>1, <3>3 DEF Active
    <2>9. ASSUME NEW n \in Node, Wake(n) PROVE Goal
      <3>1. /\ pc[n] = "wake" /\ pc[Succ(n)] = "wait" /\ QuitUnderWay(n) /\ UNCHANGED <<slot, out>>
            /\ Consistent(n)
        BY <2>1, <2>9 DEF Wake, Active, UnderWay
      <3>2. Held(n) = slot[n] /\ out[n].cmd = "QUIT" /\ Succ(n) = n + 1
        BY <3>1 DEF Held, Consistent, QuitUnderWay
      <3>3. pc' = [pc EXCEPT ![n] = "leave", ![n + 1] = "woken"]
        BY <2>9, <3>2 DEF Wake, Resume
      <3>4. Held(n + 1)' = slot[n] /\ n + 1 \in Node
        BY <3>1, <3>2, <3>3 DEF Held, Inbox
      <3>5. Held(n + 1)'.cmd = "QUIT" /\ Held(n + 1)'.dest = BROADCAST
        BY <3>1, <3>2, <3>4 DEF QuitUnderWay
      <3>6. \A m \in Node : m < n + 1 => pc'[m] \in Gone
        <4>1. \A m \in Node : m < n + 1 => m < n \/ m = n
          BY DEF Node
        <4>2. \A m \in Node : m < n => m # n /\ m # n + 1
          BY DEF Node
        <4> QED BY <1>0, <3>1, <3>3, <4>1, <4>2 DEF QuitUnderWay, Gone
      <3>7. \A m \in Node : m > n + 1 => pc'[m] \notin Gone
        BY <3>1, <3>3 DEF QuitUnderWay, Node
      <3>8. pc'[n + 1] = "woken"
        BY <3>3, <3>4
      <3>9. QuitUnderWay(n + 1)'
        BY <3>5, <3>6, <3>7, <3>8 DEF QuitUnderWay
      <3> QED BY <2>3, <3>1, <3>3, <3>4, <3>9 DEF Active
    <2>10. ASSUME NEW n \in Node, Accept(n) PROVE Goal
      <3>1. pc[n] = "woken" /\ pc' = [pc EXCEPT ![n] = "handle"] /\ QuitUnderWay(n)
        BY <2>1, <2>10 DEF Accept, Active
      <3>2. Held(n) = Inbox(n) /\ Held(n)' = Inbox(n)
        BY <2>10, <3>1 DEF Accept, Held, Inbox
      <3>3. QuitUnderWay(n)'
        BY <3>1, <3>2 DEF QuitUnderWay, Gone
      <3> QED BY <2>3, <3>1, <3>3 DEF Active
    <2>11. ASSUME NEW n \in Node, Forward(n) PROVE FALSE
      <3>1. pc[n] = "woken" /\ QuitUnderWay(n)
        BY <2>1, <2>11 DEF Forward, Active
      <3> QED BY <2>11, <3>1 DEF Forward, QuitUnderWay, Held
    <2>12. ASSUME NEW n \in Node, HandlePing(n) \/ HandleFlag(n) PROVE FALSE
      <3>1. pc[n] = "handle" /\ QuitUnderWay(n)
        BY <2>1, <2>12 DEF HandlePing, HandleFlag, Active
      <3> QED BY <2>12, <3>1 DEF HandlePing, HandleFlag, QuitUnderWay, Held
    <2>13. ASSUME NEW n \in Node, HandleRest(n) PROVE Goal
      <3>1. pc[n] = "handle" /\ QuitUnderWay(n) /\ Inbox(n).cmd = "QUIT"
        BY <2>1, <2>13 DEF HandleRest, Active, QuitUnderWay, Held
      <3>2. CASE n # N - 1
        <4>1. pc' = [pc EXCEPT ![n] = "send"] /\ out' = [out EXCEPT ![n] = Quit]
          BY <2>13, <3>1, <3>2 DEF HandleRest, Send
        <4>2. Held(n)' = Quit
          BY <4>1 DEF Held, TypeOK
        <4>3. QuitUnderWay(n)'
          BY <3>1, <3>2, <4>1, <4>2 DEF QuitUnderWay, Quit, Msg, Gone
        <4> QED BY <2>3, <3>1, <4>1, <4>3 DEF Active
      <3>3. CASE n = N - 1
        <4>1. pc' = [pc EXCEPT ![n] = "leave"]
          BY <2>13, <3>1, <3>3 DEF HandleRest, Resume
        <4>2. \A m \in Node : pc'[m] \in Gone
          BY <3>1, <3>3, <4>1 DEF QuitUnderWay, Gone, Node
        <4> QED BY <4>2 DEF Active, Gone
      <3> QED BY <3>2, <3>3
    <2>14. CASE Head \/ GiveUp
      BY <1>2, <2>2, <2>14
         DEF Head, Handshake, CountReply, CloseRound, Announce, Got, GiveUp, Refused
    <2>15. CASE UNCHANGED vars
      BY <2>15, <2>s DEF vars
    <2> QED
      BY <2>4, <2>5, <2>6, <2>7, <2>8, <2>9, <2>10, <2>11, <2>12, <2>13, <2>14, <2>15
         DEF Next, Run, Boot, Queue, Voting, Exit
  <1> QED BY <1>1, <1>2

(* A run without faults goes on to its end. *)
LEMMA MovingStep == RingInv /\ [Next]_vars => Moving'
  <1> SUFFICES ASSUME RingInv, [Next]_vars, faults' = 0
               PROVE  (~GaveUp)' /\ Born' /\ Polling' /\ Quitting'
    BY DEF Moving
  <1>1. faults = 0
    BY Steps DEF RingInv, TypeOK, Within, Fork, SetupFail, Reap, Destroy
  <1>2. /\ TypeOK /\ HeadLine /\ OneMessage /\ UnderWay /\ Bearing
        /\ ~GaveUp /\ Born /\ Polling /\ Quitting
    BY <1>1 DEF RingInv, Moving, Exits
  <1>3. (~GaveUp)'
    <2>1. ~GiveUp
      BY <1>2, NoGiveUp
    <2> QED BY <1>2, <2>1
            DEF GaveUp, HeadLine, Next, Run, Boot, Queue, Voting, Exit, Head, Fork, Attach,
                SetupFail, Store, Wake, Sleep, Accept, Forward, WakeError, RecvError,
         HandlePing, HandleFlag,
                HandleRest, Reap, Destroy, Handshake, CountReply, CloseRound, Announce, vars,
                headVars
  <1> QED BY <1>2, <1>3, BornStep, PollingStep, QuittingStep

-----------------------------------------------------------------------------
(* The theorems. *)

(* The invariant of the ring: under it the reader can tell from the one message under *)
(* way, and from nothing else, what every voter has counted and what the head knows.  *)
THEOREM RingInvariant == Spec => []RingInv
  <1>1. Init => RingInv
    BY TypeInit, HeadLineInit, OneMessageInit, UnderWayInit, CountedInit, TalliedInit,
       AnnouncedInit, ExitsInit, MovingInit DEF RingInv
  <1>2. RingInv /\ [Next]_vars => RingInv'
    BY TypeStep, HeadLineStep, OneMessageStep, UnderWayStep, CountedStep, TalliedStep,
       AnnouncedStep, ExitsStep, MovingStep DEF RingInv
  <1> QED BY <1>1, <1>2, PTL DEF Spec

(* Every variable keeps its type, whatever fails. *)
THEOREM TypeCorrect == Spec => []TypeOK
  <1>1. RingInv => TypeOK
    BY DEF RingInv
  <1> QED BY <1>1, RingInvariant, PTL

(* No slot is written while its reader is at it: there is one message at most. *)
THEOREM Exclusive == Spec => []OneMessage
  <1>1. RingInv => OneMessage
    BY DEF RingInv
  <1> QED BY <1>1, RingInvariant, PTL

(* The call counter of a check function always is the number of the chunk it is given. *)
THEOREM Synchronised == Spec => []InStep
  <1>1. RingInv => InStep
    <2> SUFFICES ASSUME RingInv, NEW v \in Voter,
                        phase = "vote", pc[v] = "handle", Inbox(v).cmd = "FLAG"
                 PROVE  v = peer /\ calls[v] = round /\ Inbox(v).data = flag[round]
      BY DEF InStep
    <2>1. Consistent(v) /\ Held(v) = Inbox(v)
      BY DEF RingInv, GaveUp, UnderWay, Active, Held, Voter, Node
    <2> QED BY <2>1 DEF Consistent, AskUnderWay, ReplyUnderWay, Ask, Reply, Msg
  <1> QED BY <1>1, RingInvariant, PTL

(* The flag the table was generated for is never answered "Wrong". *)
THEOREM Accepting == Spec => []FlagAccepted
  <1>1. RingInv => FlagAccepted
    <2> SUFFICES ASSUME RingInv, flag = Secret,
                        \A j \in Chunk : Cardinality(Answerers[j]) >= Quorum
                 PROVE  verdict # "Wrong"
      BY DEF FlagAccepted
    <2>1. ASSUME NEW j \in Chunk
          PROVE  ~(Cardinality(Approving(j, N)) < Quorum)
      <3>1. IsFiniteSet(1 .. N - 1) /\ Voter = 1 .. N - 1
        BY FS_Interval DEF Voter
      <3>2. Approving(j, N) \subseteq Voter
        BY DEF Approving
      <3>3. Answerers[j] \subseteq Approving(j, N)
        BY TableAssumption DEF Approving, Expected, Voter
      <3>4. IsFiniteSet(Approving(j, N)) /\ IsFiniteSet(Answerers[j])
        BY <3>1, <3>2, <3>3, FS_Subset
      <3>5. /\ Cardinality(Answerers[j]) <= Cardinality(Approving(j, N))
            /\ Cardinality(Answerers[j]) \in Nat /\ Cardinality(Approving(j, N)) \in Nat
        BY <3>3, <3>4, FS_Subset, FS_CardinalityType
      <3> QED BY <3>5
    <2> QED BY <2>1 DEF RingInv, Announced
  <1> QED BY <1>1, RingInvariant, PTL

(* Nobody removes a segment that another process still attaches, reads or writes. *)
THEOREM SegmentsKept == Spec => []SegmentsInUse
  <1>1. RingInv => SegmentsInUse
    BY DEF RingInv, Exits
  <1> QED BY <1>1, RingInvariant, PTL

(* When the head has exited without a fault, everybody has, and one segment is left. *)
THEOREM HeadIsLast == Spec => []LastOut
  <1>1. RingInv => LastOut
    <2> SUFFICES ASSUME RingInv, pc[0] = "done", faults = 0
                 PROVE  (\A n \in Node : pc[n] = "done") /\ segs = {N}
      BY DEF LastOut
    <2>1. Orderly /\ segs \subseteq 0 .. N
      BY DEF RingInv, Exits, TypeOK
    <2>2. \A n \in Node : pc[n] = "done"
      BY <2>1 DEF Orderly, Node
    <2>3. N \in segs /\ \A n \in Node : n \notin segs
      BY <2>1, <2>2 DEF Orderly
    <2>4. \A n \in segs : n = N
      BY <2>1, <2>3 DEF Node
    <2> QED BY <2>2, <2>3, <2>4
  <1> QED BY <1>1, RingInvariant, PTL

(* As long as no system call fails the processes never all wait for one another, and those *)
(* that leave wait only for those behind them: with any number of processes.                *)
THEOREM NobodyStuck == Spec => []NeverStuck
  <1>1. RingInv => NeverStuck
    <2> SUFFICES ASSUME RingInv, faults = 0, \A n \in Node : pc[n] # "done" => Waits(n)
                 PROVE  \A n \in Node : pc[n] = "done"
      BY DEF NeverStuck
    <2>1. /\ TypeOK /\ HeadLine /\ OneMessage /\ ~GaveUp /\ Born /\ Polling /\ Quitting
          /\ \A n \in Node : pc[n] # "failed"
      BY DEF RingInv, Moving, Exits, Orderly
    <2>2. 0 \in Node /\ N - 1 \in Node /\ pc \in [Node -> Located]
      BY <2>1 DEF TypeOK, Node
    <2>3. \A n \in Node : pc[n] # "setup"
      BY DEF Waits
    <2>4. \A n \in Node : pc[n] # "unborn"
      BY <2>1, <2>3 DEF Born
    <2>5. ASSUME NEW n \in Node, pc[n] \in Active PROVE FALSE
      <3>1. pc[n] = "wake" /\ pc[Succ(n)] # "wait" /\ Succ(n) \in Node /\ Succ(n) # n
        BY <2>5, Ring DEF Active, Waits
      <3>2. pc[Succ(n)] \notin Active
        BY <2>1, <2>5, <3>1 DEF OneMessage
      <3>3. pc[Succ(n)] \in Gone
        BY <2>1, <2>2, <2>3, <2>4, <3>1, <3>2 DEF Waits, Gone, Located
      <3>4. phase = "bye"
        BY <2>1, <3>1, <3>3 DEF Polling
      <3>5. QuitUnderWay(n) /\ n # N - 1
        BY <2>1, <2>5, <3>1, <3>4 DEF Quitting, QuitUnderWay
      <3>6. Succ(n) = n + 1 /\ n + 1 > n
        BY <3>5, Ring DEF Node
      <3> QED BY <3>1, <3>3, <3>5, <3>6 DEF QuitUnderWay
    <2>6. pc[0] # "attach"
      BY <2>2 DEF Waits
    <2>7. phase = "bye" /\ \A n \in Node : pc[n] \in Gone
      BY <2>1, <2>2, <2>3, <2>5, <2>6 DEF Polling, Quitting
    <2> DEFINE Left == {n \in Node : pc[n] # "done"}
    <2> SUFFICES ASSUME Left # {} PROVE FALSE
      OBVIOUS
    <2>8. PICK n \in Left : \A m \in Left : m <= n
      BY LastOf
    <2>9. pc[n] = "leave" /\ n # N - 1 /\ n + 1 \in Node /\ pc[n + 1] # "done"
      BY <2>7, <2>8, Ring DEF Waits, Gone
    <2> QED BY <2>8, <2>9 DEF Node
  <1> QED BY <1>1, RingInvariant, PTL

(* The verdict of the poll, in terms of the head's tallies. *)
LEMMA VerdictOf ==
    Poll!Verdict(flag) = IF \E k \in Chunk : Cardinality(Approving(k, N)) < Quorum
                         THEN "Wrong" ELSE "Correct"
  <1>1. ASSUME NEW k \in Chunk
        PROVE  /\ Poll!Approvers(flag, k) = Approving(k, N)
               /\ Cardinality(Approving(k, N)) \in Nat
    <2>1. Poll!Approvers(flag, k) = Approving(k, N)
      BY DEF Poll!Approvers, Approving, Voter
    <2>2. IsFiniteSet(Voter) /\ Approving(k, N) \subseteq Voter
      BY FS_Interval DEF Voter, Approving
    <2> QED BY <2>1, <2>2, FS_Subset, FS_CardinalityType
  <1>2. \A S : Poll!Cardinality(S) = Cardinality(S)
    BY DEF Poll!Cardinality, Cardinality, Poll!IsFiniteSet, IsFiniteSet
  <1>3. Poll!Chunk = Chunk
    BY DEF Poll!Chunk, Chunk
  <1>4. Poll!Verdict(flag) = IF \A k \in Chunk : Cardinality(Approving(k, N)) >= Quorum
                             THEN "Correct" ELSE "Wrong"
    BY <1>1, <1>2, <1>3 DEF Poll!Verdict
  <1>5. (\A k \in Chunk : Cardinality(Approving(k, N)) >= Quorum)
          <=> ~(\E k \in Chunk : Cardinality(Approving(k, N)) < Quorum)
    BY <1>1
  <1> QED BY <1>4, <1>5

(* Whatever is announced, and whenever, is what polling every voter about every chunk of the *)
(* flag gives: no failing call and no order of steps makes the head print another verdict.   *)
THEOREM VerdictOfTheFlag == Spec => [](verdict # "none" => verdict = Poll!Verdict(flag))
  <1>1. RingInv => (verdict # "none" => verdict = Poll!Verdict(flag))
    BY VerdictOf DEF RingInv, Announced
  <1> QED BY <1>1, RingInvariant, PTL

-----------------------------------------------------------------------------
(* The ring implements the poll. *)

Ballots == {b \in Voter \X Chunk : b[2] < round \/ (b[2] = round /\ b[1] < peer)}

(* A counted reply is one more ballot. *)
LEMMA BallotStep ==
    ASSUME TypeOK, round \in Chunk, flag' = flag,
           \/ round' = round /\ peer' = peer + 1
           \/ round' = round + 1 /\ peer' = 1 /\ peer = N - 1
    PROVE  /\ <<peer, round>> \notin Ballots
           /\ \A w \in Voter, k \in Chunk : k < round => <<w, k>> \in Ballots
           /\ Ballots' = Ballots \cup {<<peer, round>>}
  <1>1. peer \in Voter
    BY DEF TypeOK
  <1>2. ASSUME NEW v \in Voter, NEW k \in Chunk
        PROVE  <<v, k>> \in Ballots' <=> <<v, k>> \in Ballots \/ <<v, k>> = <<peer, round>>
    BY <1>1, <1>2 DEF Ballots, Voter, Chunk
  <1>3. Ballots \subseteq Voter \X Chunk /\ Ballots' \subseteq Voter \X Chunk
    BY DEF Ballots
  <1>4. Ballots' = Ballots \cup {<<peer, round>>}
    <2>1. ASSUME NEW b PROVE b \in Ballots' <=> b \in Ballots \cup {<<peer, round>>}
      <3>1. CASE b \in Voter \X Chunk
        <4>1. PICK v \in Voter, k \in Chunk : b = <<v, k>>
          BY <3>1
        <4> QED BY <4>1, <1>2
      <3>2. CASE b \notin Voter \X Chunk
        BY <3>2, <1>1, <1>3
      <3> QED BY <3>1, <3>2
    <2> QED BY <2>1
  <1> QED BY <1>1, <1>4 DEF Ballots, Voter, Chunk

(* Every step of the ring is a step of the poll or changes nothing the poll sees: the  *)
(* verdict, when there is one, is the one of polling every voter about every chunk.     *)
THEOREM Implements == Spec => PollSpec
  <1>1. Init => Poll!Init
    <2> SUFFICES ASSUME Init PROVE Poll!Init
      OBVIOUS
    <2>1. Ballots = {}
      BY DEF Init, Ballots, Voter, Chunk
    <2> QED BY <2>1 DEF Init, Poll!Init, Poll!Chunk, Chunk, Ballots
  <1>2. ASSUME RingInv, [Next]_vars PROVE [Poll!Next]_Poll!vars
    <2> DEFINE Goal == [Poll!Next]_Poll!vars
    <2>u. ASSUME UNCHANGED <<flag, round, peer, verdict>> PROVE Goal
      BY <2>u DEF Poll!vars
    <2>p. ASSUME Got("REPLY"), peer < N - 1 \/ round < Chunks - 1,
                 flag' = flag, verdict' = verdict,
                 \/ round' = round /\ peer' = peer + 1
                 \/ round' = round + 1 /\ peer' = 1 /\ peer = N - 1
          PROVE  Goal
      <3>1. phase = "vote" /\ verdict = "none" /\ round \in Chunk /\ peer \in Voter
        BY <1>2, <2>p DEF RingInv, TypeOK, HeadLine, Got, Wanted, Chunk
      <3>2. /\ <<peer, round>> \notin Ballots
            /\ \A w \in Voter, k \in Chunk : k < round => <<w, k>> \in Ballots
            /\ Ballots' = Ballots \cup {<<peer, round>>}
        BY <1>2, <2>p, <3>1, BallotStep DEF RingInv
      <3>3. Poll!Poll
        BY <2>p, <3>1, <3>2 DEF Poll!Poll, Poll!Chunk, Chunk, Ballots
      <3> QED BY <3>3 DEF Poll!Next
    <2>1. ASSUME NEW n \in Node, Fork(n) PROVE Goal
      BY <2>1, <2>u DEF Fork, headVars
    <2>2. ASSUME NEW n \in Node, Attach(n) PROVE Goal
      BY <2>2, <2>u DEF Attach, headVars
    <2>3. ASSUME NEW n \in Node, SetupFail(n) PROVE Goal
      BY <2>3, <2>u DEF SetupFail, headVars
    <2>4. ASSUME NEW n \in Node, Store(n) PROVE Goal
      BY <2>4, <2>u DEF Store, headVars
    <2>5. ASSUME NEW n \in Node, Wake(n) PROVE Goal
      BY <2>5, <2>u DEF Wake, Resume, headVars
    <2>6. ASSUME NEW n \in Node, Sleep(n) PROVE Goal
      BY <2>6, <2>u DEF Sleep, headVars
    <2>7. ASSUME NEW n \in Node, Accept(n) PROVE Goal
      BY <2>7, <2>u DEF Accept, headVars
    <2>8. ASSUME NEW n \in Node, Forward(n) PROVE Goal
      BY <2>8, <2>u DEF Forward, headVars
    <2>e. ASSUME NEW n \in Node, WakeError(n) PROVE Goal
      BY <2>e, <2>u DEF WakeError, Resume, headVars
    <2>9. ASSUME NEW n \in Node, RecvError(n) PROVE Goal
      BY <2>9, <2>u DEF RecvError, headVars
    <2>10. ASSUME NEW n \in Node, HandlePing(n) PROVE Goal
      BY <2>10, <2>u DEF HandlePing, Send, headVars
    <2>11. ASSUME NEW n \in Node, HandleFlag(n) PROVE Goal
      BY <2>11, <2>u DEF HandleFlag, Send, headVars
    <2>12. ASSUME NEW n \in Node, HandleRest(n) PROVE Goal
      BY <2>12, <2>u DEF HandleRest, Send, Resume, headVars
    <2>13. ASSUME NEW n \in Node, Reap(n) PROVE Goal
      BY <2>13, <2>u DEF Reap, headVars
    <2>14. ASSUME NEW n \in Node, Destroy(n) PROVE Goal
      BY <2>14, <2>u DEF Destroy, headVars
    <2>15. CASE Handshake
      BY <2>15, <2>u DEF Handshake, Got, Wanted, Send, headVars
    <2>16. CASE CountReply
      <3>1. Got("REPLY") /\ peer < N - 1 /\ UNCHANGED <<flag, verdict, round>>
        BY <2>16 DEF CountReply
      <3>2. peer' = peer + 1
        BY <2>16 DEF CountReply
      <3> QED BY <3>1, <3>2, <2>p
    <2>17. CASE CloseRound
      <3>1. Got("REPLY") /\ round < Chunks - 1 /\ UNCHANGED <<flag, verdict>>
        BY <2>17 DEF CloseRound
      <3>2. round' = round + 1 /\ peer' = 1 /\ peer = N - 1
        BY <2>17 DEF CloseRound
      <3> QED BY <3>1, <3>2, <2>p
    <2>18. CASE Announce
      <3>1. /\ verdict = "none" /\ round \in Chunk /\ peer \in Voter
            /\ round = Chunks - 1 /\ peer = N - 1 /\ flag' = flag
            /\ round' = round + 1 /\ peer' = 1
        BY <1>2, <2>18 DEF RingInv, TypeOK, HeadLine, Announce, Got, Wanted, Chunk
      <3>2. /\ <<peer, round>> \notin Ballots
            /\ \A w \in Voter, k \in Chunk : k < round => <<w, k>> \in Ballots
            /\ Ballots' = Ballots \cup {<<peer, round>>}
        BY <1>2, <3>1, BallotStep DEF RingInv
      <3>3. Ballots' = Voter \X Chunk
        BY <3>1 DEF Ballots, Voter, Chunk
      <3>4. Ballots = (Voter \X Chunk) \ {<<N - 1, Chunks - 1>>}
        BY <3>1, <3>2, <3>3
      <3>5. verdict' = Poll!Verdict(flag)
        <4>1. verdict' = IF \E k \in Chunk : Cardinality(Approving(k, N)) < Quorum
                         THEN "Wrong" ELSE "Correct"
          BY <1>2, <2>18, AnnounceOK DEF RingInv
        <4> QED BY <4>1, VerdictOf
      <3>6. Poll!Announce
        BY <3>1, <3>3, <3>4, <3>5 DEF Poll!Announce, Poll!Chunk, Chunk, Ballots
      <3> QED BY <3>6 DEF Poll!Next
    <2>19. CASE GiveUp
      BY <2>19, <2>u DEF GiveUp, Refused, Send, headVars
    <2>20. CASE UNCHANGED vars
      BY <2>20, <2>u DEF vars, headVars
    <2> QED
      BY <2>e, <1>2, <2>1, <2>2, <2>3, <2>4, <2>5, <2>6, <2>7, <2>8, <2>9, <2>10, <2>11, <2>12,
         <2>13, <2>14, <2>15, <2>16, <2>17, <2>18, <2>19, <2>20
         DEF Next, Run, Boot, Queue, Voting, Exit, Head
  <1> QED BY <1>1, <1>2, RingInvariant, PTL DEF PollSpec, Poll!Spec, Spec
=============================================================================
