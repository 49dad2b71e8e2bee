------------------------------ MODULE FlagVote ------------------------------
(***************************************************************************)
(* What the ring of rev/topology promises its user, without the ring: a    *)
(* flag is cut into chunks, every voter is polled once about every chunk,  *)
(* chunk by chunk, and the verdict is "Correct" exactly when every chunk   *)
(* was approved by a quorum.  The poll may be given up; then no verdict is *)
(* ever announced.                                                         *)
(***************************************************************************)
EXTENDS Naturals, FiniteSets

CONSTANTS
    Voter,      \* the processes that hold a check function
    Chunks,     \* number of 8-byte chunks of the flag
    Quorum,     \* approvals a chunk needs
    Value,      \* contents of a chunk
    Expected    \* Expected[v][j]: the chunk the j-th case of v's function accepts

VARIABLES
    flag,       \* the input
    ballots,    \* the polls done, a set of <<voter, chunk>>
    verdict     \* "none" until announced

vars == <<flag, ballots, verdict>>

Chunk == 0 .. Chunks - 1

Approvers(f, j) == {v \in Voter : Expected[v][j] = f[j]}

Verdict(f) == IF \A j \in Chunk : Cardinality(Approvers(f, j)) >= Quorum
              THEN "Correct"
              ELSE "Wrong"

Init == /\ flag \in [Chunk -> Value]
        /\ ballots = {}
        /\ verdict = "none"

\* A voter is polled about chunk j only when all voters are done with chunk j - 1.
Poll == \E v \in Voter, j \in Chunk :
            /\ verdict = "none"
            /\ <<v, j>> \notin ballots
            /\ \A w \in Voter, k \in Chunk : k < j => <<w, k>> \in ballots
            /\ ballots' = ballots \cup {<<v, j>>}
            /\ UNCHANGED <<flag, verdict>>

\* The last ballot and the announcement are one step: nothing can intervene.
Announce == \E v \in Voter :
                /\ verdict = "none"
                /\ ballots = (Voter \X Chunk) \ {<<v, Chunks - 1>>}
                /\ ballots' = Voter \X Chunk
                /\ verdict' = Verdict(flag)
                /\ UNCHANGED flag

Next == Poll \/ Announce

Spec == Init /\ [][Next]_vars

\* No poll and no announcement is put off for ever.
Fairness == WF_vars(Next)
=============================================================================
