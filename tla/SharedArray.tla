---------------------------- MODULE SharedArray ----------------------------
(***************************************************************************)
(* What pwn/sharr promises its user: one array of Size numbers, on which   *)
(* the requests of one user take effect one after the other, each exactly  *)
(* once and between its call and its answer.                               *)
(***************************************************************************)
EXTENDS Naturals

CONSTANTS
    Size,       \* entries of the array
    Number      \* what an entry can hold

VARIABLES
    arr,        \* the array
    req,        \* the request of the user, or Idle
    served,     \* it has taken effect
    answer      \* what the latest finished "show" printed

vars == <<arr, req, served, answer>>

Index == 0 .. Size - 1
Zero  == <<0, 0>>
Idle  == [cmd |-> "none"]
Request == [cmd : {"edit"}, idx : Index, val : Number] \cup [cmd : {"show"}, idx : Index]

Init ==
    /\ arr = [i \in Index |-> Zero]
    /\ req = Idle
    /\ served = FALSE
    /\ answer = Zero

Call ==
    /\ req = Idle
    /\ req' \in Request
    /\ UNCHANGED <<arr, served, answer>>

Serve ==
    /\ req # Idle /\ ~served
    /\ served' = TRUE
    /\ arr' = IF req.cmd = "edit" THEN [arr EXCEPT ![req.idx] = req.val] ELSE arr
    /\ UNCHANGED <<req, answer>>

Return ==
    /\ served
    /\ req' = Idle /\ served' = FALSE
    /\ answer' = IF req.cmd = "show" THEN arr[req.idx] ELSE answer
    /\ UNCHANGED arr

Next == Call \/ Serve \/ Return

Spec == Init /\ [][Next]_vars
=============================================================================
