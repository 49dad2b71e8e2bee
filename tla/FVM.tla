-------------------------------- MODULE FVM --------------------------------
(***************************************************************************)
(* rev/fvm/challenge/main.cpp: a machine whose only data is the stack of   *)
(* eight registers of the x87, return addresses included, and the program  *)
(* it runs.  The registers form a ring; a register is marked empty when it *)
(* is popped, loading into a full one gives a NaN, and "dup" copies into   *)
(* the next register whatever that one holds.                              *)
(***************************************************************************)
EXTENDS FVMProgram

VARIABLES
    ip,         \* position in the stream
    reg, top,   \* the x87's registers and the number of the topmost one
    alive,
    frames,     \* history: the return addresses of calls under way
    got,        \* history: characters read
    passed,     \* history: limits that characters have kept
    hits,       \* history: sums and products that were as expected
    closed,     \* history: the last character was the expected one
    said        \* history: what is being printed: "FLAG:", "NG." or "OK!"

history == <<frames, got, passed, hits, closed, said>>
vars == <<ip, reg, top, alive, history>>

Init ==
    /\ ip = 0 /\ alive = TRUE
    /\ reg = [r \in 0 .. 7 |-> Empty] /\ top = 0
    /\ frames = <<>> /\ got = 0 /\ passed = 0 /\ hits = 0 /\ closed = FALSE /\ said = "FLAG:"

-----------------------------------------------------------------------------
(* The x87 *)

St(i) == (top + i) % 8

\* An operand: an empty register reads as a NaN.
X(i) == IF reg[St(i)] = Empty THEN NaN ELSE reg[St(i)]

Numeric(v) == v.kind \in {"num", "cos", "char"}

Load(v) ==
    /\ top' = St(7)
    /\ reg' = [reg EXCEPT ![St(7)] = IF reg[St(7)] = Empty THEN v ELSE NaN]

Drop == /\ top' = St(1)
        /\ reg' = [reg EXCEPT ![St(0)] = Empty]

Duplicate_Load == Load(X(0))

\* fst st(7); fdecstp
Duplicate == /\ top' = St(7)
             /\ reg' = [reg EXCEPT ![St(7)] = X(0)]

-----------------------------------------------------------------------------
(* emulate *)

Op == Code[ip].op

Next1 == ip + Code[ip].size

On(ops) == alive /\ Op \in ops

Constant ==
    /\ On({"ld0", "ld1", "ldp", "ldl2t", "ldl2e", "ldlg2", "ldln2", "push"})
    /\ Load(CASE Op = "push" -> Code[ip].arg
              [] Op = "ld0"  -> CosOf0(0)
              [] OTHER       -> Num({}))
    /\ ip' = Next1 /\ UNCHANGED <<alive, history>>

Exchange ==
    /\ On({"xch1", "xch2"})
    /\ LET i == IF Op = "xch1" THEN 1 ELSE 2 IN
       reg' = [reg EXCEPT ![St(0)] = X(i), ![St(i)] = X(0)]
    /\ ip' = Next1 /\ UNCHANGED <<top, alive, history>>

Dup ==
    /\ On({"dup"})
    /\ Duplicate
    /\ ip' = Next1 /\ UNCHANGED <<alive, history>>

Pop ==
    /\ On({"pop"})
    /\ Drop
    /\ ip' = Next1 /\ UNCHANGED <<alive, history>>

\* faddp and the like; a number computed from an address is as bad as a NaN
Arithmetic ==
    /\ On({"add", "sub", "mul", "div"})
    /\ top' = St(1)
    /\ reg' = [reg EXCEPT ![St(0)] = Empty,
                          ![St(1)] = IF Numeric(X(0)) /\ Numeric(X(1))
                                     THEN Num(X(0).uses \cup X(1).uses) ELSE NaN]
    /\ ip' = Next1 /\ UNCHANGED <<alive, history>>

Function ==
    /\ On({"neg", "sqrt", "sin", "cos", "rnd"})
    /\ reg' = [reg EXCEPT ![St(0)] = IF Op = "cos" /\ X(0).kind = "cos" THEN CosOf0(X(0).n + 1)
                                     ELSE IF Numeric(X(0)) THEN Num(X(0).uses) ELSE NaN]
    /\ ip' = Next1 /\ UNCHANGED <<top, alive, history>>

\* fistp, then seekg; the stream is at no instruction after any other number
Return ==
    /\ On({"ret"}) /\ X(0).kind = "addr"
    /\ Drop
    /\ ip' = X(0).n
    /\ frames' = IF frames = <<>> THEN <<>> ELSE Tail(frames)
    /\ UNCHANGED <<alive, got, passed, hits, closed, said>>

CallLabel ==
    /\ On({"call"})
    /\ Load(Address(Next1))
    /\ ip' = Next1 + Code[ip].jump
    /\ frames' = <<Next1>> \o frames
    /\ UNCHANGED <<alive, got, passed, hits, closed, said>>

Jmp ==
    /\ On({"jmp"})
    /\ ip' = Next1 + Code[ip].jump
    /\ UNCHANGED <<reg, top, alive, history>>

\* How st(0) compares with st(1): of a number from the input with a constant anything.
Compared ==
    IF ~Numeric(X(0)) \/ ~Numeric(X(1)) THEN {"unordered"}
    ELSE IF X(0).kind = "cos" /\ X(1).kind = "cos"
    THEN IF X(0).n = X(1).n THEN {"="} ELSE {"<", ">"}
    ELSE {"<", "=", ">"}

\* fcomp; fstsw; sahf: unordered sets CF, ZF and PF
Jumps(op, c) == CASE op = "jeq" -> c \in {"=", "unordered"}
                  [] op = "jne" -> c \in {"<", ">"}
                  [] op = "ja"  -> c = ">"
                  [] op = "jbe" -> c # ">"

Branch ==
    /\ On({"jeq", "jne", "ja", "jbe"})
    /\ \E c \in Compared :
          /\ ip' = IF Jumps(Op, c) THEN Next1 + Code[ip].jump ELSE Next1
          /\ passed' = IF Op \in {"ja", "jbe"} /\ ~Jumps(Op, c) THEN passed + 1 ELSE passed
          /\ hits' = IF Op = "jne" /\ c = "=" THEN hits + 1 ELSE hits
          /\ closed' = (closed \/ (Op = "jeq" /\ X(1).kind = "char" /\ c = "="))
    /\ Drop
    /\ UNCHANGED <<alive, frames, got, said>>

\* At the end of the input, c is -1.
Get ==
    /\ On({"get"})
    /\ Load(Char(got + 1))
    /\ got' = got + 1
    /\ ip' = Next1 /\ UNCHANGED <<alive, frames, passed, hits, closed, said>>

Routine(a) == CASE a >= Labels[<<"print_ng">>] /\ a < Labels[<<"print_ok">>] -> "NG."
                [] a >= Labels[<<"print_ok">>] /\ a < Labels[<<"bye">>]      -> "OK!"
                [] OTHER                                                    -> said

Put ==
    /\ On({"put"})
    /\ Drop
    /\ said' = Routine(ip)
    /\ ip' = Next1 /\ UNCHANGED <<alive, frames, got, passed, hits, closed>>

Halt ==
    /\ On({"hlt"})
    /\ alive' = FALSE
    /\ UNCHANGED <<ip, reg, top, history>>

Next == \/ Constant \/ Exchange \/ Dup \/ Pop \/ Arithmetic \/ Function \/ Return \/ CallLabel
        \/ Jmp \/ Branch \/ Get \/ Put \/ Halt

Spec == Init /\ [][Next]_vars

\* The machine runs on; a get does not wait for ever, the input ends.
FairSpec == Spec /\ WF_vars(Next)

-----------------------------------------------------------------------------
(* Properties *)

(* A return address lies among the numbers and is swapped past them by hand: it is on top *)
(* at each ret, and it is the one of the latest call that has not returned.               *)
Returns == Op = "ret" => frames # <<>> /\ X(0) = Address(frames[1])

(* The four calls and three routines leave on the stack what the next comparison needs:  *)
(* it is one of a constant with a number computed from the four characters read last,     *)
(* all of which have been found printable, and from no others.                            *)
Operands ==
    Op = "jne" => /\ X(0) = Num({})
                  /\ X(1) = Num({got - 3, got - 2, got - 1, got})
                  /\ passed = 2 * got

(* "OK!" is printed exactly when all characters were printable, all sums and products as  *)
(* expected and the last character was the expected one: the number of cosines has counted *)
(* what no variable of the program counts.  What is printed is a constant, never a NaN, an *)
(* address or a character, although print_ng is reached with up to six registers in use,  *)
(* and its "dup" then overwrites one of them.                                             *)
Verdict ==
    /\ Op = "put" => X(0) = Num({})
    /\ ~alive => (said = "OK!" <=> passed = 64 /\ hits = 16 /\ closed)

(* The machine halts on every input. *)
Halts == <>~alive
=============================================================================
