---------------------------- MODULE RingNetwork ----------------------------
(***************************************************************************)
(* rev/topology/challenge/template.c: N processes in a ring.  Process n    *)
(* writes messages into one shared-memory slot, slot[n], that only process *)
(* Succ(n) reads, and wakes the reader with a futex.  Process 0, the head, *)
(* polls the others about every chunk of a flag and prints a verdict.      *)
(*                                                                         *)
(* pc[n] is where process n stands:                                        *)
(*   unborn, setup, attach   before and in setup_network                   *)
(*   recv, wait, woken       in recv_msg: before, in and after FUTEX_WAIT  *)
(*   handle                  recv_msg has returned 0                       *)
(*   send, wake              in send_msg: before the stores, in the loop   *)
(*                           around FUTEX_WAKE                             *)
(*   leave, destroy, done    main after the loop: wait(NULL),              *)
(*                           destroy_network, exited                       *)
(*   failed                  exit(EXIT_FAILURE) in setup_network           *)
(***************************************************************************)
EXTENDS Naturals, FiniteSets

CONSTANTS
    N,          \* N_RING
    Chunks,     \* chunks of 8 bytes in the flag buffer
    Quorum,     \* the 5 of "vote < 5"
    Value,      \* contents of a chunk
    Secret,     \* gen.py: the flag, chunk by chunk
    Answerers,  \* gen.py "ans": per chunk, the voters that check the real flag
    Decoy,      \* gen.py randstr: what the other voters check
    MaxFaults   \* failing system calls per behaviour (bound)

Voter == 1 .. N - 1
Node  == 0 .. N - 1
Chunk == 0 .. Chunks - 1

ASSUME NAssumption == N \in Nat /\ N >= 2
ASSUME ChunksAssumption == Chunks \in Nat /\ Chunks >= 1
ASSUME QuorumAssumption == Quorum \in Nat
ASSUME FaultsAssumption == MaxFaults \in Nat
ASSUME ValueAssumption == "NULL" \notin Value
ASSUME TableAssumption ==
    /\ Secret \in [Chunk -> Value]
    /\ Answerers \in [Chunk -> SUBSET Voter]
    /\ Decoy \in [Voter -> [Chunk -> Value]]

\* The j-th case of voter v's check function accepts exactly one chunk.
Expected == [v \in Voter |-> [j \in Chunk |->
                IF v \in Answerers[j] THEN Secret[j] ELSE Decoy[v][j]]]

BROADCAST == N          \* -1 in the code; any number that is no process
NoData    == "NULL"

Msg(cmd, dest, data) == [cmd |-> cmd, dest |-> dest, data |-> data]

Ping         == Msg("PING", BROADCAST, NoData)
Quit         == Msg("QUIT", BROADCAST, NoData)
Ask(v, c)    == Msg("FLAG", v, c)
Reply(ok)    == Msg("REPLY", 0, IF ok THEN "OK" ELSE "NG")

Data    == Value \cup {"OK", "NG", NoData}
Message == [cmd : {"zero", "PING", "FLAG", "REPLY", "QUIT"},
            dest : 0 .. N,
            data : Data]

Succ(n) == IF n = N - 1 THEN 0 ELSE n + 1
Pred(n) == IF n = 0 THEN N - 1 ELSE n - 1

VARIABLES
    pc,         \* [Node -> location]
    slot,       \* [Node -> Message], the message_t that n writes and Succ(n) reads
    out,        \* [Node -> Message], the arguments of n's latest send_msg
    calls,      \* [Voter -> Nat], the static counter of the voter's check function
    segs,       \* segments that exist: n made slot[n]'s, N stands for last_id
    flag,       \* argv[1], chunk by chunk
    phase,      \* where network_main stands: "hello", "vote" or "bye"
    round,      \* j / 8
    peer,       \* i
    vote, wrong, verdict,
    faults      \* failed system calls so far

headVars == <<phase, round, peer, vote, wrong, verdict>>
vars == <<pc, slot, out, calls, segs, flag, headVars, faults>>

\* The segment that process n attaches as next: the tail closes the ring with last_id.
Seg(n) == IF n = N - 1 THEN N ELSE n

\* The message process n finds in prev.
Inbox(n) == slot[Pred(n)]

Init ==
    /\ pc = [n \in Node |-> IF n = 0 THEN "setup" ELSE "unborn"]
    /\ slot = [n \in Node |-> Msg("zero", 0, NoData)]
    /\ out = [n \in Node |-> Msg("zero", 0, NoData)]
    /\ calls = [v \in Voter |-> 0]
    /\ segs = {}
    /\ flag \in [Chunk -> Value]
    /\ phase = "hello" /\ round = 0 /\ peer = 1
    /\ vote = 0 /\ wrong = FALSE /\ verdict = "none"
    /\ faults = 0

-----------------------------------------------------------------------------
(* setup_network *)

\* The segments a process creates: its own, and for the head last_id before it.
Made(n) == IF n = 0 THEN {0, N} ELSE {n}

\* shmget, then fork: the child goes on with the next iteration; the tail does not fork.
Fork(n) ==
    /\ pc[n] = "setup"
    /\ segs' = segs \cup Made(n)
    /\ pc' = [m \in Node |-> IF m = n THEN "attach"
                             ELSE IF m = n + 1 THEN "setup" ELSE pc[m]]
    /\ UNCHANGED <<slot, out, calls, flag, headVars, faults>>

\* shmat of both segments; the head goes on to the handshake, the others to recv_msg.
Attach(n) ==
    /\ pc[n] = "attach"
    /\ IF n = 0
       THEN /\ out' = [out EXCEPT ![n] = Ping]
            /\ pc' = [pc EXCEPT ![n] = "send"]
       ELSE /\ pc' = [pc EXCEPT ![n] = "recv"]
            /\ UNCHANGED out
    /\ UNCHANGED <<slot, calls, segs, flag, headVars, faults>>

\* A failing shmget, fork or shmat: the process exits and leaves what it had made.
SetupFail(n) ==
    /\ faults < MaxFaults
    /\ pc[n] \in {"setup", "attach"}
    /\ \E made \in {{}, {N} \cap Made(n), Made(n)} :
           segs' = IF pc[n] = "setup" THEN segs \cup made ELSE segs
    /\ pc' = [pc EXCEPT ![n] = "failed"]
    /\ faults' = faults + 1
    /\ UNCHANGED <<slot, out, calls, flag, headVars>>

-----------------------------------------------------------------------------
(* send_msg *)

\* The stores into next.  A NULL data argument leaves datalen and data as they were.
Store(n) ==
    /\ pc[n] = "send"
    /\ slot' = [slot EXCEPT ![n] =
                   Msg(out[n].cmd, out[n].dest,
                       IF out[n].data = NoData THEN @.data ELSE out[n].data)]
    /\ pc' = [pc EXCEPT ![n] = "wake"]
    /\ UNCHANGED <<out, calls, segs, flag, headVars, faults>>

\* Every caller of send_msg goes back to recv_msg, except after QUIT, when it returns.
Resume(cmd) == IF cmd = "QUIT" THEN "leave" ELSE "recv"

\* Slip: FUTEX_WAKE is called once, whether or not the reader sleeps by then.
Wake_Once(n) ==
    /\ pc[n] = "wake"
    /\ pc' = [pc EXCEPT ![n] = Resume(out[n].cmd),
                        ![Succ(n)] = IF @ = "wait" THEN "woken" ELSE @]
    /\ UNCHANGED <<slot, out, calls, segs, flag, headVars, faults>>

\* FUTEX_WAKE returns 0, and is tried again, until the reader sleeps in FUTEX_WAIT.
Wake(n) ==
    /\ pc[n] = "wake"
    /\ pc[Succ(n)] = "wait"
    /\ pc' = [pc EXCEPT ![n] = Resume(out[n].cmd), ![Succ(n)] = "woken"]
    /\ UNCHANGED <<slot, out, calls, segs, flag, headVars, faults>>

\* FUTEX_WAKE returns -1: send_msg returns 1, which no caller looks at, so that all go on
\* as if the reader had been woken.
WakeError(n) ==
    /\ pc[n] = "wake"
    /\ faults < MaxFaults
    /\ pc' = [pc EXCEPT ![n] = Resume(out[n].cmd)]
    /\ faults' = faults + 1
    /\ UNCHANGED <<slot, out, calls, segs, flag, headVars>>

-----------------------------------------------------------------------------
(* recv_msg *)

\* FUTEX_WAIT: lock is 0 for ever, so the call always sleeps.
Sleep(n) ==
    /\ pc[n] = "recv"
    /\ pc' = [pc EXCEPT ![n] = "wait"]
    /\ UNCHANGED <<slot, out, calls, segs, flag, headVars, faults>>

\* A message for this process is returned to the caller, any other is passed on.
Accept(n) ==
    /\ pc[n] = "woken"
    /\ Inbox(n).dest \in {BROADCAST, n}
    /\ pc' = [pc EXCEPT ![n] = "handle"]
    /\ UNCHANGED <<slot, out, calls, segs, flag, headVars, faults>>

Forward(n) ==
    /\ pc[n] = "woken"
    /\ Inbox(n).dest \notin {BROADCAST, n}
    /\ out' = [out EXCEPT ![n] = Inbox(n)]
    /\ pc' = [pc EXCEPT ![n] = "send"]
    /\ UNCHANGED <<slot, calls, segs, flag, headVars, faults>>

\* FUTEX_WAIT returns -1 in a voter: rc is compared with EAGAIN where errno is meant,
\* so every error leaves recv_msg, and handle_message returns.
RecvError(n) ==
    /\ n # 0 /\ pc[n] = "wait"
    /\ faults < MaxFaults
    /\ pc' = [pc EXCEPT ![n] = "leave"]
    /\ faults' = faults + 1
    /\ UNCHANGED <<slot, out, calls, segs, flag, headVars>>

-----------------------------------------------------------------------------
(* handle_message: the voters *)

Send(n, m) == /\ out' = [out EXCEPT ![n] = m]
              /\ pc' = [pc EXCEPT ![n] = "send"]

HandlePing(n) ==
    /\ n # 0 /\ pc[n] = "handle"
    /\ Inbox(n).cmd = "PING"
    /\ Send(n, Ping)
    /\ UNCHANGED <<slot, calls, segs, flag, headVars, faults>>

\* Slip: only an approving check counts its call.
HandleFlag_CountsApprovals(n) ==
    /\ n # 0 /\ pc[n] = "handle"
    /\ Inbox(n).cmd = "FLAG"
    /\ LET ok == calls[n] \in Chunk /\ Inbox(n).data = Expected[n][calls[n]]
       IN  /\ Send(n, Reply(ok))
           /\ calls' = [calls EXCEPT ![n] = IF ok THEN @ + 1 ELSE @]
    /\ UNCHANGED <<slot, segs, flag, headVars, faults>>

\* The check function counts its calls and compares the chunk with its next case;
\* out of cases it rejects.
HandleFlag(n) ==
    /\ n # 0 /\ pc[n] = "handle"
    /\ Inbox(n).cmd = "FLAG"
    /\ Send(n, Reply(calls[n] \in Chunk /\ Inbox(n).data = Expected[n][calls[n]]))
    /\ calls' = [calls EXCEPT ![n] = @ + 1]
    /\ UNCHANGED <<slot, segs, flag, headVars, faults>>

\* Slip: the tail passes QUIT on as well.
HandleRest_TailForwards(n) ==
    /\ n # 0 /\ pc[n] = "handle"
    /\ Inbox(n).cmd \notin {"PING", "FLAG"}
    /\ Send(n, Quit)
    /\ UNCHANGED <<slot, calls, segs, flag, headVars, faults>>

\* QUIT is passed on by all but the tail; any other command is dropped.
HandleRest(n) ==
    /\ n # 0 /\ pc[n] = "handle"
    /\ Inbox(n).cmd \notin {"PING", "FLAG"}
    /\ IF Inbox(n).cmd = "QUIT" /\ n # N - 1
       THEN Send(n, Quit)
       ELSE /\ pc' = [pc EXCEPT ![n] = Resume(Inbox(n).cmd)]
            /\ UNCHANGED out
    /\ UNCHANGED <<slot, calls, segs, flag, headVars, faults>>

-----------------------------------------------------------------------------
(* network_main: the head *)

\* The command the head waits for.
Wanted == IF phase = "hello" THEN "PING" ELSE "REPLY"

Got(cmd) == pc[0] = "handle" /\ phase # "bye" /\ Wanted = cmd /\ Inbox(0).cmd = cmd

\* recv_msg() || prev->cmd != CMD_...: the head gives up and sends QUIT.
Refused == \/ pc[0] = "wait" /\ faults < MaxFaults
           \/ pc[0] = "handle" /\ phase # "bye" /\ Inbox(0).cmd # Wanted

\* Slip: after an error the head repeats its message instead of giving up.
GiveUp_Retries ==
    /\ Refused
    /\ Send(0, out[0])
    /\ faults' = IF pc[0] = "wait" THEN faults + 1 ELSE faults
    /\ UNCHANGED <<slot, calls, segs, flag, headVars>>

GiveUp ==
    /\ Refused
    /\ Send(0, Quit)
    /\ phase' = "bye"
    /\ faults' = IF pc[0] = "wait" THEN faults + 1 ELSE faults
    /\ UNCHANGED <<slot, calls, segs, flag, round, peer, vote, wrong, verdict>>

\* The handshake came back: first question.
Handshake ==
    /\ Got("PING")
    /\ Send(0, Ask(1, flag[0]))
    /\ phase' = "vote"
    /\ UNCHANGED <<slot, calls, segs, flag, round, peer, vote, wrong, verdict, faults>>

\* Slip: every reply counts, "NG" too.
Tally_All == vote + 1

Tally == vote + IF Inbox(0).data = "OK" THEN 1 ELSE 0

\* A reply that is not the last of its round: ask the next voter.
CountReply ==
    /\ Got("REPLY") /\ peer < N - 1
    /\ vote' = Tally
    /\ peer' = peer + 1
    /\ Send(0, Ask(peer + 1, flag[round]))
    /\ UNCHANGED <<slot, calls, segs, flag, phase, round, wrong, verdict, faults>>

\* Slip: vote <= 5.
Short_OrEqual == Tally <= Quorum

Short == Tally < Quorum

\* Slip: vote declared outside the loop over the chunks.
CloseRound_KeepsVote ==
    /\ Got("REPLY") /\ peer = N - 1 /\ round < Chunks - 1
    /\ wrong' = (wrong \/ Short)
    /\ vote' = Tally
    /\ peer' = 1
    /\ round' = round + 1
    /\ Send(0, Ask(1, flag[round + 1]))
    /\ UNCHANGED <<slot, calls, segs, flag, phase, verdict, faults>>

\* The last reply of a round that is not the last: begin the next round.
CloseRound ==
    /\ Got("REPLY") /\ peer = N - 1 /\ round < Chunks - 1
    /\ wrong' = (wrong \/ Short)
    /\ vote' = 0
    /\ peer' = 1
    /\ round' = round + 1
    /\ Send(0, Ask(1, flag[round + 1]))
    /\ UNCHANGED <<slot, calls, segs, flag, phase, verdict, faults>>

\* The very last reply: print the verdict and send QUIT.
Announce ==
    /\ Got("REPLY") /\ peer = N - 1 /\ round = Chunks - 1
    /\ wrong' = (wrong \/ Short)
    /\ verdict' = IF wrong' THEN "Wrong" ELSE "Correct"
    /\ round' = round + 1
    /\ vote' = 0
    /\ peer' = 1
    /\ phase' = "bye"
    /\ Send(0, Quit)
    /\ UNCHANGED <<slot, calls, segs, flag, faults>>

-----------------------------------------------------------------------------
(* main, after the loops *)

\* Slip: no wait(NULL).
Reap_NoWait(n) ==
    /\ pc[n] = "leave"
    /\ pc' = [pc EXCEPT ![n] = "destroy"]
    /\ UNCHANGED <<slot, out, calls, segs, flag, headVars, faults>>

\* wait(NULL) returns when the one child has exited; the tail has none to wait for.
Reap(n) ==
    /\ pc[n] = "leave"
    /\ n # N - 1 => pc[n + 1] \in {"done", "failed"}
    /\ pc' = [pc EXCEPT ![n] = "destroy"]
    /\ UNCHANGED <<slot, out, calls, segs, flag, headVars, faults>>

\* destroy_network: a process removes the segment it made; nobody removes last_id.
Destroy(n) ==
    /\ pc[n] = "destroy"
    /\ segs' = segs \ {n}
    /\ pc' = [pc EXCEPT ![n] = "done"]
    /\ UNCHANGED <<slot, out, calls, flag, headVars, faults>>

-----------------------------------------------------------------------------

Boot(n)   == Fork(n) \/ Attach(n)
Queue(n)  == Store(n) \/ Wake(n) \/ Sleep(n) \/ Accept(n) \/ Forward(n)
Voting(n) == HandlePing(n) \/ HandleFlag(n) \/ HandleRest(n)
Exit(n)   == Reap(n) \/ Destroy(n)
Run(n)    == Boot(n) \/ Queue(n) \/ Voting(n) \/ Exit(n)

Head == Handshake \/ CountReply \/ CloseRound \/ Announce

Next == \/ \E n \in Node : Run(n) \/ SetupFail(n) \/ WakeError(n) \/ RecvError(n)
        \/ Head \/ GiveUp

Spec == Init /\ [][Next]_vars

\* The scheduler runs every process; system calls need not fail.
FairSpec == Spec /\ WF_vars(Head) /\ \A n \in Node : WF_vars(Run(n))
=============================================================================
