------------------------------- MODULE Sharr -------------------------------
(***************************************************************************)
(* pwn/sharr/challenge/main.c: an interface process takes requests from a  *)
(* user and passes them to a core process that owns an array.  The two     *)
(* share one file, opened before the fork and therefore with ONE offset,   *)
(* that holds a command, an index and a value.  Every access is an lseek   *)
(* and then a read or a write, and the other process may run between the   *)
(* two.                                                                    *)
(*                                                                         *)
(* The file consists of 4-byte words: 1 is the command, 2 padding, 3 and 4 *)
(* the index, 5 and 6 the value.  A number is a pair <<low, high>>.        *)
(* pc[p] names the access p is at; p is between its lseek and its read or  *)
(* write when sought[p].                                                   *)
(***************************************************************************)
EXTENDS Integers

CONSTANTS
    Size,           \* ARR_SIZE
    Word,           \* contents of a word, commands and indices among them
    Value           \* the values the user enters: pairs of words

WAIT == 0
EDIT == 1
SHOW == 2
EXIT == 3

Index == 0 .. Size - 1

ASSUME SizeAssumption == Size \in Nat /\ Size >= 1
ASSUME WordAssumption == Word \subseteq Nat /\ 0 .. 3 \subseteq Word /\ Index \subseteq Word
ASSUME ValueAssumption == Value \subseteq Word \X Word

Proc == {"iface", "core"}

\* An lseek leads to word 4 at most, and each process reads or writes 2 words at most
\* after it, wherever the other has moved the offset meanwhile.
Limit == 8

VARIABLES
    pc,         \* where a process is
    sought,     \* it has done the lseek of its access
    alive,      \* the processes no signal has ended
    file,       \* the words of mapfd, 0 beyond its size
    size,       \* the size of mapfd, in words
    off,        \* the shared offset of mapfd, in words
    req,        \* the interface's idx and val, and the command it sends
    answer,     \* what "show" printed last
    idx,        \* the core's idx
    arr         \* the core's array

vars == <<pc, sought, alive, file, size, off, req, answer, idx, arr>>

\* Where each access seeks: offsetof(ArrayIO, ...), in words.
Offset == [setIndex |-> 2, setValue |-> 4, setCommand |-> 0, waitResponse |-> 0,
           getResult |-> 4,
           waitRequest |-> 0, getCommand |-> 0, editIndex |-> 2, editValue |-> 4,
           showIndex |-> 2, giveValue |-> 4, setWait |-> 0]

Init ==
    /\ pc = [p \in Proc |-> IF p = "iface" THEN "menu" ELSE "calloc"]
    /\ sought = [p \in Proc |-> FALSE]
    /\ alive = Proc
    /\ file = [i \in 1 .. Limit |-> 0] /\ size = 6
    /\ off = 1
    /\ req = [cmd |-> WAIT, idx |-> 0, val |-> <<0, 0>>]
    /\ answer = <<0, 0>>
    /\ idx = <<0, 0>>
    /\ arr = [i \in Index |-> <<0, 0>>]

-----------------------------------------------------------------------------
(* io_set and io_get *)

Seek_Dropped(p) ==
    /\ p \in alive /\ pc[p] \in DOMAIN Offset /\ ~sought[p]
    /\ sought' = [sought EXCEPT ![p] = TRUE]
    /\ UNCHANGED <<pc, alive, file, size, off, req, answer, idx, arr>>

Seek(p) ==
    /\ p \in alive /\ pc[p] \in DOMAIN Offset /\ ~sought[p]
    /\ off' = Offset[pc[p]]
    /\ sought' = [sought EXCEPT ![p] = TRUE]
    /\ UNCHANGED <<pc, alive, file, size, req, answer, idx, arr>>

\* p does the write of the access loc, n words, and goes on to next.
Put(p, loc, n, data, next) ==
    /\ p \in alive /\ pc[p] = loc /\ sought[p]
    /\ file' = [i \in 1 .. Limit |-> IF i \in off + 1 .. off + n THEN data[i - off] ELSE file[i]]
    /\ off' = off + n
    /\ size' = IF off + n > size THEN off + n ELSE size
    /\ sought' = [sought EXCEPT ![p] = FALSE]
    /\ pc' = [pc EXCEPT ![p] = next]

\* p does the read of n words of the access loc: what lies beyond the end of the
\* file is what the uninitialised local held.
Get(p, loc, n, got) ==
    /\ p \in alive /\ pc[p] = loc /\ sought[p]
    /\ \A i \in 1 .. n : off + i <= size => got[i] = file[off + i]
    /\ off' = IF off + n <= size THEN off + n ELSE size
    /\ sought' = [sought EXCEPT ![p] = FALSE]
    /\ UNCHANGED <<file, size>>

Goto(p, next) == pc' = [pc EXCEPT ![p] = next]

-----------------------------------------------------------------------------
(* note_interface *)

InRange_OffByOne(i) == i >= 0 /\ i <= Size

InRange(i) == i >= 0 /\ i < Size

\* An index that is not in range is reported, and nothing else happens.
Menu ==
    /\ "iface" \in alive /\ pc["iface"] = "menu"
    /\ \/ \E i \in -1 .. Size, v \in Value :
              /\ InRange(i)
              /\ req' = [cmd |-> EDIT, idx |-> i, val |-> v]
              /\ Goto("iface", "setIndex")
       \/ \E i \in -1 .. Size :
              /\ InRange(i)
              /\ req' = [req EXCEPT !.cmd = SHOW, !.idx = i]
              /\ Goto("iface", "setIndex")
       \/ /\ req' = [req EXCEPT !.cmd = EXIT]
          /\ Goto("iface", "setCommand")
    /\ UNCHANGED <<sought, alive, file, size, off, answer, idx, arr>>

AfterIndex_NoValue == "setCommand"

AfterIndex == IF req.cmd = EDIT THEN "setValue" ELSE "setCommand"

SetIndex ==
    /\ Put("iface", "setIndex", 2, <<req.idx, 0>>, AfterIndex)
    /\ UNCHANGED <<alive, req, answer, idx, arr>>

SetValue ==
    /\ Put("iface", "setValue", 2, req.val, "setCommand")
    /\ UNCHANGED <<alive, req, answer, idx, arr>>

\* The process ends after CMD_EXIT.
SetCommand ==
    /\ Put("iface", "setCommand", 1, <<req.cmd>>,
           IF req.cmd = EXIT THEN "gone" ELSE "waitResponse")
    /\ UNCHANGED <<alive, req, answer, idx, arr>>

Answered_Always(cmd) == TRUE

Answered(cmd) == cmd = WAIT

WaitResponse ==
    /\ \E c \in Word :
          /\ Get("iface", "waitResponse", 1, <<c>>)
          /\ Goto("iface", IF ~Answered(c) THEN "waitResponse"
                           ELSE IF req.cmd = SHOW THEN "getResult" ELSE "menu")
    /\ UNCHANGED <<alive, req, answer, idx, arr>>

GetResult ==
    /\ answer' \in Word \X Word
    /\ Get("iface", "getResult", 2, answer')
    /\ Goto("iface", "menu")
    /\ UNCHANGED <<alive, req, idx, arr>>

-----------------------------------------------------------------------------
(* note_core *)

Calloc ==
    /\ "core" \in alive /\ pc["core"] = "calloc"
    /\ Goto("core", "waitRequest") \/ Goto("core", "reap")
    /\ UNCHANGED <<sought, alive, file, size, off, req, answer, idx, arr>>

WaitRequest ==
    /\ \E c \in Word :
          /\ Get("core", "waitRequest", 1, <<c>>)
          /\ Goto("core", IF c = WAIT THEN "waitRequest" ELSE "getCommand")
    /\ UNCHANGED <<alive, req, answer, idx, arr>>

Dispatch_ExitGoesOn(c) == IF c \in {EDIT, SHOW} THEN IF c = EDIT THEN "editIndex" ELSE "showIndex"
                          ELSE "waitRequest"

Dispatch(c) == CASE c = EDIT -> "editIndex"
                 [] c = SHOW -> "showIndex"
                 [] OTHER    -> "reap"

\* The command is read a second time for the switch.
GetCommand ==
    /\ \E c \in Word :
          /\ Get("core", "getCommand", 1, <<c>>)
          /\ Goto("core", Dispatch(c))
    /\ UNCHANGED <<alive, req, answer, idx, arr>>

\* arr[idx] is the array's.  Any other access is undefined, and nothing is said of the
\* core from there on.
Defined(i) == i[2] = 0 /\ i[1] \in Index

EditIndex ==
    /\ idx' \in Word \X Word
    /\ Get("core", "editIndex", 2, idx')
    /\ Goto("core", "editValue")
    /\ UNCHANGED <<alive, req, answer, arr>>

EditValue ==
    /\ \E val \in Word \X Word :
          /\ Get("core", "editValue", 2, val)
          /\ IF Defined(idx)
             THEN arr' = [arr EXCEPT ![idx[1]] = val] /\ Goto("core", "setWait")
             ELSE UNCHANGED arr /\ Goto("core", "undefined")
    /\ UNCHANGED <<alive, req, answer, idx>>

ShowIndex ==
    /\ idx' \in Word \X Word
    /\ Get("core", "showIndex", 2, idx')
    /\ Goto("core", IF Defined(idx') THEN "giveValue" ELSE "undefined")
    /\ UNCHANGED <<alive, req, answer, arr>>

GiveValue ==
    /\ Put("core", "giveValue", 2, arr[idx[1]], "setWait")
    /\ UNCHANGED <<alive, req, answer, idx, arr>>

AfterServing_StaleCommand == "getCommand"

AfterServing == "waitRequest"

SetWait ==
    /\ Put("core", "setWait", 1, <<WAIT>>, AfterServing)
    /\ UNCHANGED <<alive, req, answer, idx, arr>>

\* wait(NULL) in main
Reap ==
    /\ "core" \in alive /\ pc["core"] = "reap"
    /\ "iface" \notin alive \/ pc["iface"] = "gone"
    /\ Goto("core", "gone")
    /\ UNCHANGED <<sought, alive, file, size, off, req, answer, idx, arr>>

\* SIGINT reaches either process, SIGALRM only the core: fork clears the child's alarm.
Killed(p) ==
    /\ p \in alive
    /\ alive' = alive \ {p}
    /\ sought' = [sought EXCEPT ![p] = FALSE]
    /\ UNCHANGED <<pc, file, size, off, req, answer, idx, arr>>

Iface == SetIndex \/ SetValue \/ SetCommand \/ WaitResponse \/ GetResult

Core == \/ Calloc \/ WaitRequest \/ GetCommand \/ EditIndex \/ EditValue
        \/ ShowIndex \/ GiveValue \/ SetWait \/ Reap

Next == Menu \/ Iface \/ Core \/ \E p \in Proc : Seek(p) \/ Killed(p)

Spec == Init /\ [][Next]_vars

\* Both processes are scheduled.
Fairness == WF_vars(Seek("iface") \/ Iface) /\ WF_vars(Seek("core") \/ Core)
=============================================================================
