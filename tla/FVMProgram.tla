---------------------------- MODULE FVMProgram ----------------------------
(***************************************************************************)
(* rev/fvm/challenge/code.S and the assembler of gen.py: the flag checker  *)
(* that the virtual machine of main.cpp runs.  An item of the source is a  *)
(* label, an operation or an operation with an operand; the constants of   *)
(* the source are numbers the model does not tell apart, except 0 and the  *)
(* last one, 0x3ffebd05c3a01434885a, which is cos applied to 0 sixteen     *)
(* times.                                                                  *)
(***************************************************************************)
EXTENDS Integers, Sequences, SequencesExt

\* What a register of the x87 may hold.  uses: the characters of the input a number
\* was computed from.
Value(kind, n, uses) == [kind |-> kind, n |-> n, uses |-> uses]

Num(uses)  == Value("num", 0, uses)
CosOf0(n)  == Value("cos", n, {})       \* cos(cos(... 0)), n times
Address(a) == Value("addr", a, {})
Char(i)    == Value("char", i, {i})
NaN        == Value("nan", 0, {})
Empty      == Value("empty", 0, {})

NoArg == Value("none", 0, {})

-----------------------------------------------------------------------------
(* code.S *)

Item(op, arg, label) == [op |-> op, arg |-> arg, label |-> label]

Ops(names)   == [i \in 1 .. Len(names) |-> Item(names[i], NoArg, <<>>)]
Label(l)     == <<Item("label", NoArg, l)>>
Jump(op, l)  == <<Item(op, NoArg, l)>>
Call(name)   == Jump("call", <<name>>)
Push(v)      == <<Item("push", v, <<>>)>>

\* put('F'), ..., put(' ')
Prompt ==
    Ops(<<"ldp", "dup", "add", "ldl2t", "mul", "rnd", "ldl2t", "mul", "rnd", "put",
          "ldl2t", "dup", "dup", "add", "mul", "ldln2", "add", "ldl2t", "mul", "rnd", "put",
          "ldl2t", "dup", "dup", "ldp", "sqrt", "mul", "mul", "mul", "rnd", "put",
          "ldp", "ldl2t", "add", "ldl2t", "dup", "mul", "mul", "rnd", "put",
          "ldp", "dup", "dup", "sqrt", "mul", "mul", "ldl2t", "mul", "rnd", "put",
          "ldp", "dup", "dup", "mul", "mul", "rnd", "ld1", "add", "put">>)

\* Four characters: cos is applied to the counter once if their product is the expected
\* one, and once if their sum is.
Part(k) ==
    Call("cycloid_x") \o Call("cardioid_y") \o Call("muladd")
    \o Push(Num({})) \o Jump("jne", <<"ng", k, "a">>)
    \o Ops(<<"xch2", "cos", "xch2">>) \o Label(<<"ng", k, "a">>) \o Ops(<<"pop">>)
    \o Push(Num({})) \o Jump("jne", <<"ng", k, "b">>)
    \o Ops(<<"xch1", "cos", "xch1">>) \o Label(<<"ng", k, "b">>) \o Ops(<<"pop">>)

Parts == FlattenSeq([k \in 1 .. 8 |-> Part(k)])

\* The last character, and the counter.
LastPart_NoPop ==
    Ops(<<"get", "ldp", "dup", "mul", "ldl2e", "add", "ldl2t", "dup", "mul", "mul", "rnd">>)
    \o Jump("jeq", <<"check_cos">>) \o Ops(<<"pop", "pop">>) \o Jump("jmp", <<"print_ng">>)
    \o Label(<<"check_cos">>)
    \o Push(CosOf0(16)) \o Jump("jeq", <<"print_ok">>) \o Jump("jmp", <<"print_ng">>)

LastPart ==
    Ops(<<"get", "ldp", "dup", "mul", "ldl2e", "add", "ldl2t", "dup", "mul", "mul", "rnd">>)
    \o Jump("jeq", <<"check_cos">>) \o Ops(<<"pop", "pop">>) \o Jump("jmp", <<"print_ng">>)
    \o Label(<<"check_cos">>) \o Ops(<<"pop">>)
    \o Push(CosOf0(16)) \o Jump("jeq", <<"print_ok">>) \o Jump("jmp", <<"print_ng">>)

MulAdd_OneDup ==
    Label(<<"muladd">>)
    \o Ops(<<"xch2", "dup", "xch2", "xch1", "xch2", "mul", "xch2", "add", "xch2", "ret">>)

MulAdd ==
    Label(<<"muladd">>)
    \o Ops(<<"xch2", "dup", "xch2", "dup", "xch2", "mul", "xch2", "add", "xch2", "ret">>)

TwoChars_OneCheck == Ops(<<"get">>) \o Call("chk_code") \o Ops(<<"get">>)

\* a, b = get(), get(); theta = 2*pi*b/256
TwoChars == Ops(<<"get">>) \o Call("chk_code") \o Ops(<<"get">>) \o Call("chk_code")

Theta == Ops(<<"ld1", "ld1", "add", "ldp", "mul", "mul", "ldl2t", "dup", "add", "rnd", "ldl2t",
               "dup", "mul", "mul", "rnd", "ldl2t", "mul", "rnd", "div">>)

CycloidX ==
    Label(<<"cycloid_x">>) \o TwoChars \o Theta
    \o Ops(<<"dup", "sin", "sub", "mul", "xch1", "ret">>)

CardioidY ==
    Label(<<"cardioid_y">>) \o TwoChars \o Theta
    \o Ops(<<"dup", "cos", "ld1", "add", "xch1", "sin", "mul", "mul", "xch1", "ret">>)

\* The character below the return address must be at least 0x20 and below 0x7f.
ChkCode_NoSwap ==
    Label(<<"chk_code">>)
    \o Ops(<<"xch1", "ldp", "dup", "mul", "ldp", "mul", "rnd", "ld1", "add">>)
    \o Jump("ja", <<"print_ng">>)
    \o Ops(<<"ldl2t", "dup", "mul", "ldl2t", "mul", "ldl2e", "add", "ldl2t", "mul", "rnd">>)
    \o Jump("jbe", <<"print_ng">>)
    \o Ops(<<"ret">>)

ChkCode ==
    Label(<<"chk_code">>)
    \o Ops(<<"xch1", "ldp", "dup", "mul", "ldp", "mul", "rnd", "ld1", "add">>)
    \o Jump("ja", <<"print_ng">>)
    \o Ops(<<"ldl2t", "dup", "mul", "ldl2t", "mul", "ldl2e", "add", "ldl2t", "mul", "rnd">>)
    \o Jump("jbe", <<"print_ng">>)
    \o Ops(<<"xch1", "ret">>)

\* put('N'), put('G'), put('.')
PrintNg ==
    Label(<<"print_ng">>)
    \o Ops(<<"ldp", "ldl2e", "mul", "ldl2t", "add", "ldp", "dup", "mul", "mul", "rnd", "put",
             "ldp", "ldl2t", "add", "ldl2t", "dup", "mul", "mul", "rnd", "put",
             "ld1", "ldp", "add", "ldl2t", "dup", "mul", "mul", "rnd", "put">>)
    \o Jump("jmp", <<"bye">>)

\* put('O'), put('K'), put('!')
PrintOk ==
    Label(<<"print_ok">>)
    \o Ops(<<"ldp", "ld1", "neg", "add", "ldl2t", "dup", "dup", "mul", "mul", "mul", "rnd", "put",
             "ldl2t", "dup", "ldlg2", "ldp", "add", "ldl2t", "add", "mul", "mul", "rnd", "put",
             "ldp", "dup", "mul", "ldl2t", "mul", "rnd", "put">>)
    \o Jump("jmp", <<"bye">>)

Bye == Label(<<"bye">>) \o Ops(<<"ldp", "dup", "mul", "rnd", "put", "hlt">>)

Source == Prompt \o Ops(<<"ld0">>) \o Parts \o LastPart \o MulAdd \o CycloidX \o CardioidY
          \o ChkCode \o PrintNg \o PrintOk \o Bye

-----------------------------------------------------------------------------
(* gen.py: assemble *)

Branches == {"call", "jmp", "jeq", "jne", "jae", "ja", "jbe", "jb"}

Width(item) == CASE item.op = "label"       -> 0
                 [] item.op = "push"        -> 11
                 [] item.op \in Branches    -> 3
                 [] OTHER                   -> 1

\* pos before the i-th item, in bytes
Pos == FoldLeft(LAMBDA p, item : Append(p, p[Len(p)] + Width(item)), <<0>>, Source)

Labels == [l \in {Source[i].label : i \in {j \in 1 .. Len(Source) : Source[j].op = "label"}} |->
              Pos[CHOOSE i \in 1 .. Len(Source) : Source[i].op = "label" /\ Source[i].label = l]]

\* labels[insn[1]] - pos, which is behind the instruction
Offset(i) == Labels[Source[i].label] - Pos[i + 1]

Assembled(i) == [op   |-> Source[i].op,
                 arg  |-> Source[i].arg,
                 size |-> Width(Source[i]),
                 jump |-> IF Source[i].op \in Branches THEN Offset(i) ELSE 0]

Instructions == {i \in 1 .. Len(Source) : Source[i].op # "label"}

\* The bytes, as instructions at their addresses.
Code == [a \in {Pos[i] : i \in Instructions} |->
            Assembled(CHOOSE i \in Instructions : Pos[i] = a)]

CodeSize == Pos[Len(Source) + 1]
=============================================================================
