--------------------------- MODULE RingProperties ---------------------------
(***************************************************************************)
(* What must hold of the ring.  A process is active when a message has     *)
(* been handed to it and it has not yet handed one on.                     *)
(***************************************************************************)
EXTENDS RingNetwork

Active == {"woken", "handle", "send", "wake"}

Located == Active \cup {"unborn", "setup", "attach", "recv", "wait",
                        "leave", "destroy", "done", "failed"}

\* The variables keep their types.
TypeOK ==
    /\ pc \in [Node -> Located]
    /\ slot \in [Node -> Message]
    /\ out \in [Node -> Message]
    /\ calls \in [Voter -> Nat]
    /\ segs \subseteq 0 .. N
    /\ flag \in [Chunk -> Value]
    /\ phase \in {"hello", "vote", "bye"}
    /\ round \in 0 .. Chunks
    /\ peer \in Voter
    /\ vote \in Nat
    /\ wrong \in BOOLEAN
    /\ verdict \in {"none", "Correct", "Wrong"}
    /\ faults \in 0 .. MaxFaults

GaveUp == phase = "bye" /\ verdict = "none"

\* There is no lock on the slots (message_t.lock is only the futex word): what keeps a
\* writer from overwriting a message that its reader has not finished with is that one
\* message at most is under way, in the whole ring, unless the head has given up.
OneMessage ==
    GaveUp \/ \A m, n \in Node : pc[m] \in Active /\ pc[n] \in Active => m = n

\* The check functions count their own calls, the head counts chunks, and nothing
\* compares the two: yet the case a voter evaluates is the one for the chunk it is sent.
InStep ==
    \A v \in Voter :
        phase = "vote" /\ pc[v] = "handle" /\ Inbox(v).cmd = "FLAG"
            => /\ v = peer
               /\ calls[v] = round
               /\ Inbox(v).data = flag[round]

\* gen.py gives every chunk of the flag at least Quorum voters that check it; then the
\* flag itself is never answered "Wrong".
FlagAccepted == (\A j \in Chunk : Cardinality(Answerers[j]) >= Quorum) /\ flag = Secret
                    => verdict # "Wrong"

\* destroy_network removes a segment only when its other user can no longer attach or
\* read it: a process removes its own after its child, the reader, has exited.
SegmentsInUse ==
    \A n \in Node : pc[n] \in Located \ {"unborn", "setup", "done", "failed"} =>
        /\ Seg(n) \in segs
        /\ Seg(Pred(n)) \in segs

\* The command line gets its prompt back only when the whole ring is gone, and all that
\* is left behind is the segment that closes the ring.
LastOut == pc[0] = "done" /\ faults = 0
               => (\A n \in Node : pc[n] = "done") /\ segs = {N}

-----------------------------------------------------------------------------
(* The inductive invariant: where the one message is says what it is, and   *)
(* that says what has been counted.                                         *)

\* The message under way, when n is active.
Held(n) == CASE pc[n] = "send" -> out[n]
             [] pc[n] = "wake" -> slot[n]
             [] OTHER -> Inbox(n)

\* What the head is doing follows from the phase.
HeadLine ==
    /\ pc[0] \in {"setup", "attach"} =>
           phase = "hello" /\ \A n \in Node : pc[n] \notin Active
    /\ phase # "bye" => verdict = "none" /\ pc[0] \notin {"leave", "destroy", "done"}
    /\ phase = "bye" => /\ pc[0] \in {"send", "wake", "leave", "destroy", "done"}
                        /\ pc[0] \in {"send", "wake"} => out[0].cmd = "QUIT"
    /\ phase = "bye" => verdict = "none" \/ round = Chunks
    /\ phase # "bye" => round < Chunks
    /\ phase = "hello" => round = 0 /\ peer = 1 /\ vote = 0 /\ ~wrong

\* A question is upstream of the voter it is for, who has not answered yet ...
AskUnderWay(n) ==
    /\ Held(n) = Ask(peer, flag[round])
    /\ calls[peer] = round
    /\ pc[n] \in {"send", "wake"} => n < peer
    /\ pc[n] = "woken" => n \in 1 .. peer
    /\ pc[n] = "handle" => n = peer

\* ... and an answer is downstream of the voter that gave it.
ReplyUnderWay(n) ==
    /\ Held(n) = Reply(Expected[peer][round] = flag[round])
    /\ calls[peer] = round + 1
    /\ pc[n] \in {"send", "wake"} => n >= peer
    /\ pc[n] = "woken" => n = 0 \/ n > peer
    /\ pc[n] = "handle" => n = 0

Consistent(n) ==
    /\ pc[n] = "wake" => out[n].cmd = slot[n].cmd
    /\ phase = "hello" => Held(n).cmd = "PING" /\ Held(n).dest = BROADCAST
    /\ phase = "vote" => AskUnderWay(n) \/ ReplyUnderWay(n)

UnderWay == \A n \in Node : pc[n] \in Active => Consistent(n)

\* The counters of the voters the head has done with are one ahead of the others.
Counted ==
    /\ phase = "hello" => \A v \in Voter : calls[v] = 0
    /\ phase = "vote" => /\ \A v \in Voter : v < peer => calls[v] = round + 1
                         /\ \A v \in Voter : v > peer => calls[v] = round

Approving(k, p) == {v \in Voter : v < p /\ Expected[v][k] = flag[k]}

\* The head's tallies are those of the flag.
Tallied ==
    /\ phase = "vote" => vote = Cardinality(Approving(round, peer))
    /\ phase = "vote" => wrong = (\E k \in 0 .. round - 1 : Cardinality(Approving(k, N)) < Quorum)

\* The verdict is the one of the flag.
Announced ==
    verdict # "none" => verdict = IF \E k \in Chunk : Cardinality(Approving(k, N)) < Quorum
                                  THEN "Wrong" ELSE "Correct"

\* Processes are made one after the other, each by the one before it ...
Bearing == \A n \in Voter : pc[n - 1] \in {"unborn", "setup"} => pc[n] = "unborn"

\* ... which leaves behind what the new one attaches, next to what the tail closes the
\* ring with.
Provided == \A n \in Voter : pc[n] = "setup" => {n - 1, N} \subseteq segs

\* They end in the opposite order.
Childless == \A n \in Voter : pc[n - 1] = "destroy" => pc[n] \in {"done", "failed"}

\* As long as no system call fails, exactly the segments of the running processes exist.
Orderly ==
    faults = 0 =>
        /\ \A n \in Node : pc[n] # "failed"
        /\ \A m, n \in Node : pc[n] \in {"destroy", "done"} /\ n < m => pc[m] = "done"
        /\ \A n \in Node : n \in segs <=> pc[n] \notin {"unborn", "setup", "done"}
        /\ pc[0] # "unborn"
        /\ N \in segs <=> pc[0] # "setup"

\* What processes make and remove, in order.
Exits == Bearing /\ Provided /\ Childless /\ SegmentsInUse /\ Orderly

\* On its way out, or out.
Gone == {"leave", "destroy", "done"}

\* Who is still missing will be made by somebody before it.
Born == \A m \in Node : pc[m] = "unborn" => \E k \in Node : k < m /\ pc[k] = "setup"

\* Until the head says QUIT everybody stays, and somebody has the message.
Polling == phase # "bye" =>
               /\ \A n \in Node : pc[n] \notin Gone
               /\ pc[0] \in {"setup", "attach"} \/ \E n \in Node : pc[n] \in Active

\* QUIT makes its round: whoever is before its holder is on the way out, nobody behind is.
QuitUnderWay(n) ==
    /\ Held(n).cmd = "QUIT" /\ Held(n).dest = BROADCAST
    /\ pc[n] \in {"send", "wake"} => n # N - 1
    /\ \A m \in Node : m < n => pc[m] \in Gone
    /\ \A m \in Node : m > n => pc[m] \notin Gone

Quitting == phase = "bye" =>
                /\ \A n \in Node : pc[n] \in Active => QuitUnderWay(n)
                /\ (\E n \in Node : pc[n] \in Active) \/ \A n \in Node : pc[n] \in Gone

\* As long as no system call fails there is somebody to wait for: the process that makes
\* the ones still missing, the one with the message, or the last that has left.
Moving == faults = 0 => ~GaveUp /\ Born /\ Polling /\ Quitting

\* The inductive invariant: the parts above are only preserved together, because what a
\* process may do follows from the one message under way. (Exits rests on TypeOK alone.)
RingInv == /\ TypeOK
           /\ OneMessage
           /\ HeadLine
           /\ GaveUp \/ UnderWay
           /\ Counted
           /\ Tallied
           /\ Announced
           /\ Exits
           /\ Moving

-----------------------------------------------------------------------------
\* What a process may have to wait for: to be made, for a message, for its reader to sleep
\* and for its child to exit.
Waits(n) ==
    \/ pc[n] \in {"unborn", "wait"}
    \/ pc[n] = "wake" /\ pc[Succ(n)] # "wait"
    \/ pc[n] = "leave" /\ n # N - 1 /\ pc[n + 1] \notin {"done", "failed"}

\* The processes never all wait for one another: a wake-up is not lost although no lock
\* protects the moment between the stores and FUTEX_WAIT, and the wait(NULL)s end.
NeverStuck ==
    faults = 0 => \/ \A n \in Node : pc[n] = "done"
                  \/ \E n \in Node : pc[n] # "done" /\ ~Waits(n)

-----------------------------------------------------------------------------
Poll == INSTANCE FlagVote WITH
            ballots <- {b \in Voter \X Chunk : b[2] < round \/ (b[2] = round /\ b[1] < peer)}

\* The ring implements the poll: every voter is asked about every chunk, once, in order,
\* and the verdict is the one of the flag.
PollSpec == Poll!Spec

\* ... and gets through it, unless a system call fails: a spinning sender and the reader
\* that is about to sleep always find each other.
PollProgress == <>(faults > 0) \/ Poll!Fairness

\* Then QUIT gets round and the processes exit from the tail to the head.
Termination == <>(faults > 0) \/ <>[](\A n \in Node : pc[n] = "done")
=============================================================================
