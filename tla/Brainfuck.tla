----------------------------- MODULE Brainfuck -----------------------------
(***************************************************************************)
(* The language pwn/brainjit compiles, as an interpreter: the machine the  *)
(* compiled code has to behave like.  A run of equal + - < > may be taken  *)
(* in one step; a "[" that is never closed and not entered leads nowhere   *)
(* ("wild"), and leaving the tape stops the machine ("trap").              *)
(***************************************************************************)
EXTENDS Integers, Sequences, FiniteSets

CONSTANTS Tape, Cells   \* length of the tape; values of a cell are 0 .. Cells - 1

VARIABLES prog, ip, tape, ptr, out, state

vars == <<prog, ip, tape, ptr, out, state>>

READ == ","     \* the instruction that reads a byte

Count(c, i, j) == Cardinality({k \in i .. j : prog[k] = c})

\* The "]" at j closes the "[" at i.
Closes(i, j) ==
    /\ prog[i] = "[" /\ prog[j] = "]" /\ i < j
    /\ Count("[", i, j) = Count("]", i, j)
    /\ \A k \in i .. j - 1 : Count("[", i, k) > Count("]", i, k)

\* Every character is an instruction and every "]" closes a "[".
Legal ==
    \A j \in 1 .. Len(prog) :
        /\ prog[j] \in {"<", ">", "+", "-", READ, ".", "[", "]"}
        /\ prog[j] = "]" => \E i \in 1 .. j : Closes(i, j)

Init ==
    /\ ip = 1 /\ ptr = 0 /\ out = 0
    /\ tape = [a \in 0 .. Tape - 1 |-> 0]
    /\ state = "idle"

Refuse ==
    /\ state = "idle"
    /\ state' = "refused"
    /\ UNCHANGED <<prog, ip, tape, ptr, out>>

Start ==
    /\ state = "idle" /\ Legal
    /\ state' = "run"
    /\ UNCHANGED <<prog, ip, tape, ptr, out>>

Goto(i) == ip' = i /\ UNCHANGED state

\* n equal instructions from ip on.
Run(c, n) ==
    /\ state = "run" /\ ip + n - 1 <= Len(prog)
    /\ \A k \in ip .. ip + n - 1 : prog[k] = c
    /\ UNCHANGED prog

Move(c, d) ==
    \E n \in 1 .. Len(prog) :
        /\ Run(c, n)
        /\ IF ptr + d * n \in 0 .. Tape - 1
           THEN ptr' = ptr + d * n /\ Goto(ip + n)
           ELSE state' = "trap" /\ UNCHANGED <<ip, ptr>>
        /\ UNCHANGED <<tape, out>>

Add(c, d) ==
    \E n \in 1 .. Len(prog) :
        /\ Run(c, n)
        /\ tape' = [tape EXCEPT ![ptr] = (@ + d * n) % Cells]
        /\ Goto(ip + n)
        /\ UNCHANGED <<ptr, out>>

\* At the end of the input the cell stays as it is.
Input ==
    /\ Run(READ, 1)
    /\ \E v \in 0 .. Cells - 1 : tape' = [tape EXCEPT ![ptr] = v]
    /\ Goto(ip + 1)
    /\ UNCHANGED <<ptr, out>>

Output ==
    /\ Run(".", 1)
    /\ out' = tape[ptr]
    /\ Goto(ip + 1)
    /\ UNCHANGED <<tape, ptr>>

Open ==
    /\ Run("[", 1)
    /\ IF tape[ptr] # 0 THEN Goto(ip + 1)
       ELSE \/ \E j \in 1 .. Len(prog) : Closes(ip, j) /\ Goto(j + 1)
            \/ /\ ~\E j \in 1 .. Len(prog) : Closes(ip, j)
               /\ state' = "wild" /\ UNCHANGED ip
    /\ UNCHANGED <<tape, ptr, out>>

Close ==
    /\ Run("]", 1)
    /\ IF tape[ptr] = 0 THEN Goto(ip + 1)
       ELSE \E i \in 1 .. ip : Closes(i, ip) /\ Goto(i + 1)
    /\ UNCHANGED <<tape, ptr, out>>

End ==
    /\ state = "run" /\ ip = Len(prog) + 1
    /\ state' = "done"
    /\ UNCHANGED <<prog, ip, tape, ptr, out>>

Next == \/ Refuse \/ Start \/ Move("<", -1) \/ Move(">", 1) \/ Add("+", 1) \/ Add("-", -1)
        \/ Input \/ Output \/ Open \/ Close \/ End

Spec == Init /\ [][Next]_vars
=============================================================================
