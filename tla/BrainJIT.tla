------------------------------ MODULE BrainJIT ------------------------------
(***************************************************************************)
(* pwn/brainjit/distfiles/app.py: BrainJIT.compile turns a program into    *)
(* x86 code, one block per instruction or run of equal instructions, in    *)
(* one pass that patches the jump of a "[" when it meets the "]"; run      *)
(* executes the code.  A block is a record at its address in the code      *)
(* buffer; jumps are relative to the end of their block, as in the code.   *)
(***************************************************************************)
EXTENDS Integers, Sequences

CONSTANTS
    Programs,   \* the inputs
    Cells,      \* 0x100, the values of a byte
    Tape,       \* MAX_SIZE, bytes of _mem
    MaxCode     \* MAX_SIZE, bytes of _code

ASSUME SizesAssumption ==
    /\ Cells \in Nat /\ Cells >= 1
    /\ Tape \in Nat /\ Tape >= 1
    /\ MaxCode \in Nat /\ MaxCode >= 20
ASSUME ProgramsAssumption == \A p \in Programs : p \in Seq(STRING)

VARIABLES
    insns,      \* the program
    index,      \* the next instruction, from 1
    code,       \* [addresses of blocks -> block]
    top,        \* _code_len
    jumps,      \* stack of the ends of open "[" blocks
    status,     \* compile, run; syntax, memory: refused; done, trap, wild: ended
    pc,         \* address of the block to be executed
    r8, mem,    \* the tape's pointer and cells
    out         \* the byte written last

vars == <<insns, index, code, top, jumps, status, pc, r8, mem, out>>

ENTER == 16     \* len(emit_enter)
LEAVE == 4      \* len(emit_leave)
JUMP  == 13     \* test of the cell and conditional jump

Init ==
    /\ insns \in Programs /\ index = 1
    /\ code = <<>> /\ top = ENTER /\ jumps = <<>>
    /\ status = "compile" /\ pc = ENTER
    /\ r8 = 0 /\ mem = [a \in 0 .. Tape - 1 |-> 0] /\ out = 0

machine == <<pc, r8, mem, out>>

-----------------------------------------------------------------------------
(* compile *)

Repeated == {"<", ">", "+", "-"}

READ == ","     \* the instruction that reads a byte

\* How many equal instructions stand at index.
RunLength ==
    CHOOSE n \in 1 .. Len(insns) - index + 1 :
        /\ \A k \in index .. index + n - 1 : insns[k] = insns[index]
        /\ index + n <= Len(insns) => insns[index + n] # insns[index]

Length == IF insns[index] \in Repeated THEN RunLength ELSE 1

\* Bytes of the block for n instructions c.
Size(c, n) ==
    CASE c \in {"<", ">"}      -> IF n = 1 THEN 13 ELSE 17
      [] c \in {"+", "-"}      -> IF n = 1 THEN 5 ELSE 6
      [] c \in {READ, "."}     -> 16
      [] c \in {"[", "]"}      -> JUMP
      [] OTHER                 -> 0

\* What the block changes a register or byte by: an immediate byte for + and -.
Operand_Once(c, n) == 1

Operand(c, n) == IF c \in {"+", "-"} THEN n % Cells ELSE n

Block(c, n, jump) ==
    [op |-> c, arg |-> Operand(c, n), size |-> Size(c, n), jump |-> jump, src |-> index]

Matched_NotOne == Len(jumps) > 1

Matched == jumps # <<>>

Dest == jumps[Len(jumps)]

\* The jump of the "[" that ends at Dest, once the "]" at top is complete.
Patch_BeforeEmit == top - Dest

Patch == top + JUMP - Dest

Refuse(why) ==
    /\ status' = why
    /\ UNCHANGED <<insns, index, code, top, jumps, machine>>

Fits_ForgetsLeave(n) == top + n <= MaxCode + LEAVE

\* mmap.write raises when the bytes do not fit.
Fits(n) == top + n <= MaxCode

\* _emit: the block at top; fixed is the code with its patch.
Emit(c, n, jump, fixed) ==
    IF ~Fits(Size(c, n)) THEN Refuse("memory")
    ELSE /\ code' = [a \in DOMAIN fixed \cup {top} |->
                        IF a = top THEN Block(c, n, jump) ELSE fixed[a]]
         /\ top' = top + Size(c, n)
         /\ index' = index + n
         /\ jumps' = CASE c = "[" -> Append(jumps, top + JUMP)
                       [] c = "]" -> SubSeq(jumps, 1, Len(jumps) - 1)
                       [] OTHER   -> jumps
         /\ UNCHANGED <<insns, status, machine>>

\* One round of the loop.
Compile ==
    /\ status = "compile" /\ index <= Len(insns)
    /\ LET c == insns[index] IN
       IF \/ c \notin Repeated \cup {READ, ".", "[", "]"}
          \/ c = "]" /\ ~Matched
       THEN Refuse("syntax")
       ELSE IF c = "]"
       THEN Emit(c, 1, Dest - top - JUMP, [code EXCEPT ![Dest - JUMP].jump = Patch])
       ELSE Emit(c, Length, -1, code)

\* emit_leave; what jumps still holds is not looked at.
Leave ==
    /\ status = "compile" /\ index > Len(insns)
    /\ IF ~Fits(LEAVE) THEN Refuse("memory")
       ELSE /\ code' = [a \in DOMAIN code \cup {top} |->
                            IF a = top
                            THEN [op |-> "leave", arg |-> 0, size |-> LEAVE, jump |-> 0,
                             src |-> index]
                            ELSE code[a]]
            /\ top' = top + LEAVE
            /\ status' = "run"
            /\ UNCHANGED <<insns, index, jumps, machine>>

-----------------------------------------------------------------------------
(* run *)

compiled == <<insns, index, code, top, jumps>>

Goto(a) == IF a \in DOMAIN code THEN pc' = a /\ UNCHANGED status
           ELSE status' = "wild" /\ UNCHANGED pc

At(c) == status = "run" /\ code[pc].op = c /\ UNCHANGED compiled

After == pc + code[pc].size

\* cmp r8, MAX_SIZE; jb: an unsigned comparison, so that below 0 is outside too.
InTape(a) == a \in 0 .. Tape - 1

Move(c, d) ==
    /\ At(c)
    /\ LET a == r8 + d * code[pc].arg IN
       IF InTape(a) THEN r8' = a /\ Goto(After)
       ELSE status' = "trap" /\ UNCHANGED <<pc, r8>>
    /\ UNCHANGED <<mem, out>>

Add(c, d) ==
    /\ At(c)
    /\ mem' = [mem EXCEPT ![r8] = (@ + d * code[pc].arg) % Cells]
    /\ Goto(After)
    /\ UNCHANGED <<r8, out>>

\* SYS_read; at the end of the input it stores nothing.
Input ==
    /\ At(READ)
    /\ \E v \in 0 .. Cells - 1 : mem' = [mem EXCEPT ![r8] = v]
    /\ Goto(After)
    /\ UNCHANGED <<r8, out>>

Output ==
    /\ At(".")
    /\ out' = mem[r8]
    /\ Goto(After)
    /\ UNCHANGED <<r8, mem>>

\* jz after "[", jnz after "]".
Jump(c, zero) ==
    /\ At(c)
    /\ Goto(IF (mem[r8] = 0) = zero THEN After + code[pc].jump ELSE After)
    /\ UNCHANGED <<r8, mem, out>>

Return ==
    /\ At("leave")
    /\ status' = "done"
    /\ UNCHANGED <<pc, r8, mem, out>>

Run == \/ Move("<", -1) \/ Move(">", 1) \/ Add("+", 1) \/ Add("-", -1)
       \/ Input \/ Output \/ Jump("[", TRUE) \/ Jump("]", FALSE) \/ Return

Next == Compile \/ Leave \/ Run

Spec == Init /\ [][Next]_vars

-----------------------------------------------------------------------------
(* Properties *)

(* The variables keep their types: blocks lie one after the other, without a gap, from   *)
(* the end of emit_enter to _code_len, which stays within the buffer.                    *)
TypeOK ==
    /\ insns \in Programs /\ index \in 1 .. Len(insns) + 1
    /\ top \in ENTER .. MaxCode
    /\ DOMAIN code \subseteq ENTER .. top - 1
    /\ \A a \in ENTER .. top - 1 :
           \E b \in DOMAIN code : b <= a /\ a < b + code[b].size
    /\ \A a, b \in DOMAIN code : a < b => a + code[a].size <= b
    /\ status \in {"compile", "run", "syntax", "memory", "done", "trap", "wild"}
    /\ mem \in [0 .. Tape - 1 -> 0 .. Cells - 1] /\ out \in 0 .. Cells - 1

(* The two jumps of a loop belong together: each "]" jumps behind a "[" whose patched    *)
(* jump leads right behind that "]".                                                     *)
Paired ==
    \A a \in DOMAIN code :
        code[a].op = "]" =>
            LET o == a + code[a].jump IN
            /\ o \in DOMAIN code /\ code[o].op = "["
            /\ o + JUMP + code[o].jump = a + JUMP

\* Where the machine is in the source.
Position == IF status \in {"run", "done", "trap", "wild"} THEN code[pc].src ELSE 1

Phase == CASE status = "compile" -> "idle"
           [] status \in {"syntax", "memory"} -> "refused"
           [] OTHER -> status

(* The compiled code does what an interpreter of the source would do; only a "[" that is *)
(* never closed can make it jump to an address that is no block.                         *)
Interpreter == INSTANCE Brainfuck WITH
    prog <- insns, ip <- Position, tape <- mem, ptr <- r8, state <- Phase

InterpreterSpec == Interpreter!Spec

(* The one pass with its stack decides what counting decides: a source reported as a     *)
(* syntax error has an unmatched "]" or an unknown character, and one that runs has none. *)
Verdicts ==
    /\ status = "syntax" => ~Interpreter!Legal
    /\ status \notin {"compile", "syntax", "memory"} => Interpreter!Legal

-----------------------------------------------------------------------------
(* The inductive invariant: what every block stands for, also while the code is made.    *)

\* The block at a is for n instructions of the source ...
Stands(a, n) ==
    /\ code[a].src + n <= index
    /\ \A k \in code[a].src .. code[a].src + n - 1 : insns[k] = code[a].op
    /\ code[a].arg = Operand(code[a].op, n)
    /\ code[a].size = Size(code[a].op, n)
    /\ code[a].op \notin Repeated => n = 1

\* ... and the next one for those that follow.
Continues(a, n) ==
    IF a + code[a].size = top
    THEN status # "run" /\ index = code[a].src + n
    ELSE /\ a + code[a].size \in DOMAIN code
         /\ code[a + code[a].size].src = code[a].src + n

Translates(a) ==
    \/ /\ code[a].op = "leave" /\ code[a].size = LEAVE /\ a + LEAVE = top
       /\ code[a].src = Len(insns) + 1 /\ status # "compile"
    \/ /\ code[a].op \in Repeated \cup {READ, ".", "[", "]"}
       /\ \E n \in 1 .. Len(insns) : Stands(a, n) /\ Continues(a, n)

Opcode == Repeated \cup {READ, ".", "[", "]", "leave"}

Blocks == [op : Opcode, arg : Nat, size : Nat \ {0}, jump : Int, src : Nat \ {0}]

Translated ==
    /\ \A a \in DOMAIN code : code[a] \in Blocks /\ Translates(a)
    /\ IF top = ENTER THEN index = 1 ELSE ENTER \in DOMAIN code /\ code[ENTER].src = 1

\* The k-th open "[" has Len(jumps) - k open ones behind it.
OpenAt(o, k) ==
    /\ o \in DOMAIN code /\ code[o].op = "[" /\ code[o].jump = -1
    /\ \A m \in code[o].src .. index - 1 :
          Interpreter!Count("[", code[o].src, m) > Interpreter!Count("]", code[o].src, m)
    /\ Interpreter!Count("[", code[o].src, index - 1)
          = Interpreter!Count("]", code[o].src, index - 1) + Len(jumps) - k + 1

Nested == jumps \in Seq(Int) /\ \A k \in 1 .. Len(jumps) : OpenAt(jumps[k] - JUMP, k)

\* The jumps of the blocks at a and b lead behind each other.
Joined(a, b) ==
    /\ a \in DOMAIN code /\ code[a].op = "["
    /\ b \in DOMAIN code /\ code[b].op = "]"
    /\ a < b /\ code[a].jump = b - a /\ code[b].jump = a - b
    /\ Interpreter!Closes(code[a].src, code[b].src)

Loops ==
    \A a \in DOMAIN code :
        /\ code[a].op = "[" => \/ \E k \in 1 .. Len(jumps) : jumps[k] = a + JUMP
                               \/ \E b \in DOMAIN code : Joined(a, b)
        /\ code[a].op = "]" => Joined(a + code[a].jump, a)

\* What has been compiled is a legal program so far.
Checked ==
    \A j \in 1 .. index - 1 :
        /\ insns[j] \in Repeated \cup {READ, ".", "[", "]"}
        /\ insns[j] = "]" => \E i \in 1 .. j : Interpreter!Closes(i, j)

Machine ==
    /\ r8 \in 0 .. Tape - 1
    /\ status = "compile" => pc = ENTER
    /\ status = "run" => pc \in DOMAIN code /\ index = Len(insns) + 1

CodeInv == TypeOK /\ Translated /\ Nested /\ Loops /\ Checked /\ Machine
=============================================================================
