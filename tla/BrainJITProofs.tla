--------------------------- MODULE BrainJITProofs ---------------------------
(***************************************************************************)
(* For every program, tape and code buffer: the code BrainJIT makes in one *)
(* pass does what the interpreter of the source does.  First the lemmas on *)
(* runs of instructions, remainders and counted brackets; then every step  *)
(* of the compiler and of the machine keeps CodeInv; then every step of    *)
(* the machine is one of the interpreter.                                  *)
(***************************************************************************)
EXTENDS BrainJIT, FiniteSetTheorems, WellFoundedInduction, TLAPS

(* A set of numbers that is not empty has a least one. *)
LEMMA Least ==
    ASSUME NEW S, S \subseteq Nat, S # {}
    PROVE  \E n \in S : \A m \in S : n <= m
  <1>1. IsWellFoundedOn(OpToRel(<, Nat), Nat)
    BY NatLessThanWellFounded
  <1>2. PICK n \in S : \A m \in S : <<m, n>> \notin OpToRel(<, Nat)
    BY <1>1, WFMin
  <1>3. ASSUME NEW m \in S
        PROVE  n <= m
    <2>1. ~(m < n)
      BY <1>2 DEF OpToRel
    <2> QED BY <2>1
  <1> QED BY <1>3

(* The instructions at index are repeated so often, and not more often. *)
LEMMA RunLengthOK ==
    ASSUME insns \in Seq(STRING), index \in 1 .. Len(insns)
    PROVE  /\ RunLength \in 1 .. Len(insns) - index + 1
           /\ \A k \in index .. index + RunLength - 1 : insns[k] = insns[index]
  <1> DEFINE S == {n \in Nat : index + n > Len(insns) \/ insns[index + n] # insns[index]}
             P(n) == /\ \A k \in index .. index + n - 1 : insns[k] = insns[index]
                     /\ index + n <= Len(insns) => insns[index + n] # insns[index]
  <1>1. Len(insns) - index + 1 \in S
    OBVIOUS
  <1>2. PICK n \in S : \A m \in S : n <= m
    BY <1>1, Least
  <1>3. n \in 1 .. Len(insns) - index + 1
    <2>1. n \in Nat /\ n <= Len(insns) - index + 1
      BY <1>1, <1>2
    <2>2. index + 0 = index /\ index <= Len(insns)
      OBVIOUS
    <2>3. n # 0
      BY <2>2
    <2> QED BY <2>1, <2>3
  <1>4. ASSUME NEW m \in 0 .. n - 1
        PROVE  insns[index + m] = insns[index]
    <2>1. m \in Nat /\ m \notin S
      BY <1>2
    <2> QED BY <2>1
  <1>5. ASSUME NEW k \in index .. index + n - 1
        PROVE  insns[k] = insns[index]
    <2>1. k - index \in 0 .. n - 1 /\ index + (k - index) = k
      OBVIOUS
    <2> QED BY <1>4, <2>1
  <1>6. P(n)
    BY <1>2, <1>5
  <1>7. \E m \in 1 .. Len(insns) - index + 1 : P(m)
    BY <1>3, <1>6
  <1> HIDE DEF S
  <1>8. RunLength = CHOOSE m \in 1 .. Len(insns) - index + 1 : P(m)
    BY DEF RunLength
  <1> HIDE DEF P
  <1>9. RunLength \in 1 .. Len(insns) - index + 1 /\ P(RunLength)
    BY <1>7, <1>8, Zenon
  <1> QED BY <1>9 DEF P

(* A number is whole turns of a byte and a remainder. *)
LEMMA DivMod ==
    ASSUME NEW x \in Int, NEW c \in Nat, c >= 1
    PROVE  /\ x = c * (x \div c) + (x % c)
           /\ x \div c \in Int /\ x % c \in 0 .. c - 1
  <1>1. x % c \in 0 .. c - 1
    OBVIOUS
  <1>2. x \div c \in Int
    OBVIOUS
  <1>3. x = c * (x \div c) + (x % c)
    OBVIOUS
  <1> QED BY <1>1, <1>2, <1>3

(* A number has one remainder only. *)
LEMMA Unique ==
    ASSUME NEW c \in Nat, c >= 1, NEW q \in Int, NEW p \in Int,
           NEW r \in 0 .. c - 1, NEW s \in 0 .. c - 1, c * q + r = c * p + s
    PROVE  r = s
  <1>1. c * (q - p) = s - r
    OBVIOUS
  <1>2. CASE q > p
    <2>1. c * (q - p) >= c
      BY <1>2
    <2> QED BY <1>1, <2>1
  <1>3. CASE q < p
    <2>1. c * (p - q) >= c
      BY <1>3
    <2>2. c * (p - q) = r - s
      OBVIOUS
    <2> QED BY <2>1, <2>2
  <1>4. CASE q = p
    BY <1>1, <1>4
  <1> QED BY <1>2, <1>3, <1>4

(* Whole turns of a byte do not show. *)
LEMMA Wraps ==
    ASSUME NEW c \in Nat, c >= 1, NEW y \in Int, NEW k \in Int
    PROVE  (y + c * k) % c = y % c
  <1>1. /\ y = c * (y \div c) + (y % c)
        /\ y \div c \in Int /\ y % c \in 0 .. c - 1
    BY DivMod
  <1>2. c * k \in Int
    OBVIOUS
  <1> DEFINE z == y + c * k
  <1>3. z \in Int
    BY <1>2
  <1> HIDE DEF z
  <1>4. /\ z = c * (z \div c) + (z % c)
        /\ z \div c \in Int /\ z % c \in 0 .. c - 1
    BY <1>3, DivMod
  <1>5. z = c * (y \div c + k) + (y % c)
    <2> DEFINE d == y \div c
               r == y % c
    <2>1. d \in Int /\ r \in Int /\ y = c * d + r
      BY <1>1
    <2> HIDE DEF d, r
    <2>2. c * (d + k) = c * d + c * k
      BY <2>1
    <2>3. y + c * k = c * (d + k) + r
      BY <2>1, <2>2, <1>2
    <2> QED BY <2>3 DEF d, r, z
  <1>6. z % c = y % c
    <2> DEFINE q == z \div c
               r == z % c
               p == y \div c + k
               s == y % c
    <2>0. q \in Int /\ p \in Int /\ r \in 0 .. c - 1 /\ s \in 0 .. c - 1
      BY <1>1, <1>4
    <2>1. c * q + r = c * p + s
      BY <1>4, <1>5, Zenon
    <2> HIDE DEF q, r, p, s
    <2>2. r = s
      BY <2>0, <2>1, Unique
    <2> QED BY <2>2 DEF r, s
  <1> QED BY <1>6 DEF z

-----------------------------------------------------------------------------
(* Counting brackets. *)

(* The interpreter counts as everybody does. *)
LEMMA SameCardinality == \A S : Interpreter!Cardinality(S) = Cardinality(S)
  BY DEF Interpreter!Cardinality, Cardinality

(* What Count means here. *)
LEMMA CountIs ==
    ASSUME NEW c, NEW i, NEW j
    PROVE  Interpreter!Count(c, i, j) = Cardinality({k \in i .. j : insns[k] = c})
  BY SameCardinality DEF Interpreter!Count

(* It is a number. *)
LEMMA CountType ==
    ASSUME NEW c, NEW i \in Int, NEW j \in Int
    PROVE  Interpreter!Count(c, i, j) \in Nat
  <1> DEFINE S == {k \in i .. j : insns[k] = c}
  <1>1. IsFiniteSet(i .. j) /\ S \subseteq i .. j
    BY FS_Interval
  <1>2. Cardinality(S) \in Nat
    BY <1>1, FS_Subset, FS_CardinalityType
  <1> QED BY <1>2, CountIs

(* Nothing is counted in an empty interval. *)
LEMMA CountEmpty ==
    ASSUME NEW c, NEW i \in Int
    PROVE  Interpreter!Count(c, i, i - 1) = 0
  <1>1. {k \in i .. i - 1 : insns[k] = c} = {}
    OBVIOUS
  <1> QED BY <1>1, FS_EmptySet, CountIs

(* One more character counts if it is the one that is counted. *)
LEMMA CountNext ==
    ASSUME NEW c, NEW i \in Int, NEW j \in Int, i <= j
    PROVE  Interpreter!Count(c, i, j)
             = Interpreter!Count(c, i, j - 1) + IF insns[j] = c THEN 1 ELSE 0
  <1> DEFINE S == {k \in i .. j - 1 : insns[k] = c}
             T == {k \in i .. j : insns[k] = c}
  <1>1. IsFiniteSet(i .. j - 1) /\ S \subseteq i .. j - 1 /\ j \notin S
    BY FS_Interval
  <1>2. IsFiniteSet(S) /\ Cardinality(S) \in Nat
    BY <1>1, FS_Subset, FS_CardinalityType
  <1>3. CASE insns[j] = c
    <2>1. T = S \cup {j}
      BY <1>3
    <2>2. Cardinality(T) = Cardinality(S) + 1
      BY <1>1, <1>2, <2>1, FS_AddElement
    <2> QED BY <1>3, <2>2, CountIs
  <1>4. CASE insns[j] # c
    <2>1. T = S
      BY <1>4
    <2> QED BY <1>2, <1>4, <2>1, CountIs
  <1> QED BY <1>3, <1>4

(* Other characters do not count. *)
LEMMA CountSkip ==
    ASSUME NEW c, NEW i \in Int, NEW j \in Int, NEW n \in Nat,
           \A k \in j .. j + n - 1 : insns[k] # c
    PROVE  Interpreter!Count(c, i, j + n - 1) = Interpreter!Count(c, i, j - 1)
  <1>1. {k \in i .. j + n - 1 : insns[k] = c} = {k \in i .. j - 1 : insns[k] = c}
    OBVIOUS
  <1> QED BY <1>1, CountIs

(* What closes what is a matter of the source alone. *)
LEMMA SameSource ==
    ASSUME insns' = insns
    PROVE  /\ \A c, i, j : Interpreter!Count(c, i, j)' = Interpreter!Count(c, i, j)
           /\ \A i, j : Interpreter!Closes(i, j)' <=> Interpreter!Closes(i, j)
  <1>1. \A c, i, j : Interpreter!Count(c, i, j)' = Interpreter!Count(c, i, j)
    BY DEF Interpreter!Count
  <1> QED BY <1>1, Zenon DEF Interpreter!Closes

-----------------------------------------------------------------------------
(* The blocks the compiler emits. *)

\* What compiles.
Instruction == Repeated \cup {READ, ".", "[", "]"}

(* READ is no other instruction. *)
LEMMA ReadIsOther ==
    /\ READ \notin {"<", ">", "+", "-", ".", "[", "]", "leave"}
    /\ READ = Interpreter!READ
  BY Zenon DEF READ, Interpreter!READ

(* Every instruction has a block of some bytes, and a bracket one of JUMP. *)
LEMMA SizeFacts ==
    ASSUME NEW c \in Instruction, NEW n \in Nat \ {0}
    PROVE  /\ Size(c, n) \in Nat \ {0} /\ Operand(c, n) \in Nat
           /\ c \in Opcode /\ c # "leave"
           /\ c \in {"[", "]"} => Size(c, n) = JUMP
  <1>1. n % Cells \in Nat
    BY SizesAssumption
  <1>2. c \in Opcode /\ c # "leave"
    BY ReadIsOther DEF Opcode, Instruction, Repeated
  <1>3. Operand(c, n) \in Nat
    BY <1>1 DEF Operand
  <1>4. Size(c, n) \in Nat \ {0} /\ (c \in {"[", "]"} => Size(c, n) = JUMP)
    <2>1. CASE c \in {"<", ">"}
      BY <2>1, ReadIsOther DEF Size
    <2>2. CASE c \in {"+", "-"}
      BY <2>2, ReadIsOther DEF Size
    <2>3. CASE c \in {READ, "."}
      BY <2>3, ReadIsOther DEF Size
    <2>4. CASE c \in {"[", "]"}
      BY <2>4, ReadIsOther DEF Size, JUMP
    <2> QED BY <2>1, <2>2, <2>3, <2>4 DEF Instruction, Repeated
  <1> QED BY <1>2, <1>3, <1>4

\* What _emit does when the bytes fit.
Emitted(c, n, jump, fixed) ==
    /\ Fits(Size(c, n))
    /\ code' = [a \in DOMAIN fixed \cup {top} |->
                   IF a = top THEN Block(c, n, jump) ELSE fixed[a]]
    /\ top' = top + Size(c, n)
    /\ index' = index + n
    /\ UNCHANGED <<insns, status, machine>>

\* Patches change jumps only.
Patched(fixed) ==
    /\ DOMAIN fixed = DOMAIN code
    /\ \A a \in DOMAIN code :
          /\ fixed[a] \in Blocks /\ fixed[a].op = code[a].op /\ fixed[a].arg = code[a].arg
          /\ fixed[a].size = code[a].size /\ fixed[a].src = code[a].src

\* The instructions a round of the loop takes.
Taken(c, n) ==
    /\ status = "compile" /\ index <= Len(insns) /\ c \in Instruction
    /\ n \in 1 .. Len(insns) - index + 1
    /\ \A k \in index .. index + n - 1 : insns[k] = c
    /\ c \notin Repeated => n = 1

(* Blocks lie before top, and while the program is compiled they all stand for source. *)
LEMMA BlockFacts ==
    ASSUME CodeInv, NEW a \in DOMAIN code
    PROVE  /\ a \in Int /\ ENTER <= a /\ a < top /\ top \in Int
           /\ code[a] \in Blocks /\ a + code[a].size <= top
           /\ \/ /\ code[a].op = "leave" /\ status # "compile"
                 /\ code[a].src = Len(insns) + 1
              \/ /\ code[a].op \in Instruction
                 /\ \E n \in 1 .. Len(insns) : Stands(a, n) /\ Continues(a, n)
  <1>1. a \in Int /\ ENTER <= a /\ a < top /\ top \in Int
    BY DEF CodeInv, TypeOK, ENTER
  <1>2. code[a] \in Blocks /\ Translates(a)
    BY DEF CodeInv, Translated
  <1>3. ASSUME NEW n, Continues(a, n)
        PROVE  a + code[a].size <= top
    BY <1>1, <1>2, <1>3 DEF Continues, CodeInv, TypeOK, Blocks, ENTER
  <1>4. CASE /\ code[a].op = "leave" /\ code[a].size = LEAVE /\ a + LEAVE = top
             /\ code[a].src = Len(insns) + 1 /\ status # "compile"
    <2>1. a + code[a].size <= top
      BY <1>1, <1>4
    <2> QED BY <1>1, <1>2, <1>4, <2>1
  <1>5. CASE /\ code[a].op \in Instruction
             /\ \E n \in 1 .. Len(insns) : Stands(a, n) /\ Continues(a, n)
    <2>1. a + code[a].size <= top
      BY <1>3, <1>5
    <2> QED BY <1>1, <1>2, <1>5, <2>1
  <1> QED BY <1>2, <1>4, <1>5, Zenon DEF Translates, Instruction

\* The new block, next to the old ones.
Extended(c, n, jump, fixed) ==
    /\ DOMAIN code' = DOMAIN code \cup {top} /\ top \notin DOMAIN code
    /\ \A a \in DOMAIN code : code'[a] = fixed[a]
    /\ code'[top] \in Blocks /\ code'[top].op = c /\ code'[top].src = index
    /\ code'[top].arg = Operand(c, n) /\ code'[top].size = Size(c, n)
    /\ code'[top].jump = jump
    /\ top' = top + Size(c, n) /\ Size(c, n) \in Nat \ {0}
    /\ top \in Int /\ ENTER <= top /\ top' <= MaxCode
    /\ index' = index + n /\ index \in 1 .. Len(insns) /\ n \in Nat \ {0}
    /\ index' <= Len(insns) + 1 /\ Len(insns) \in Nat
    /\ insns' = insns /\ status' = status

(* What _emit leaves behind. *)
LEMMA EmittedFacts ==
    ASSUME CodeInv, NEW c, NEW n, Taken(c, n), NEW jump \in Int, NEW fixed, Patched(fixed),
           Emitted(c, n, jump, fixed)
    PROVE  Extended(c, n, jump, fixed)
  <1>1. top \notin DOMAIN code /\ top \in Int /\ ENTER <= top
    BY DEF CodeInv, TypeOK, ENTER
  <1>2. insns \in Seq(STRING) /\ index \in 1 .. Len(insns) /\ n \in Nat \ {0}
    BY ProgramsAssumption DEF CodeInv, TypeOK, Taken
  <1>3. /\ Size(c, n) \in Nat \ {0} /\ Operand(c, n) \in Nat /\ c \in Opcode
    BY <1>2, SizeFacts DEF Taken
  <1>4. Block(c, n, jump) \in Blocks
    BY <1>2, <1>3 DEF Block, Blocks
  <1>5. /\ DOMAIN code' = DOMAIN code \cup {top} /\ code'[top] = Block(c, n, jump)
        /\ \A a \in DOMAIN code : code'[a] = fixed[a]
    BY <1>1 DEF Emitted, Patched
  <1>6. /\ top' = top + Size(c, n) /\ index' = index + n /\ insns' = insns /\ status' = status
        /\ top' <= MaxCode
    BY DEF Emitted, Fits
  <1>7. index' <= Len(insns) + 1
    BY <1>2, <1>6 DEF Taken
  <1> QED BY <1>1, <1>2, <1>3, <1>4, <1>5, <1>6, <1>7 DEF Block, Extended

(* The blocks still lie one after the other. *)
LEMMA EmittedType ==
    ASSUME CodeInv, NEW c, NEW n, Taken(c, n), NEW jump \in Int, NEW fixed, Patched(fixed),
           Emitted(c, n, jump, fixed)
    PROVE  TypeOK'
  <1>0. Extended(c, n, jump, fixed)
    BY EmittedFacts
  <1>1. \A a \in DOMAIN code : code'[a].size = code[a].size
    BY <1>0 DEF Extended, Patched
  <1>2. index' \in 1 .. Len(insns') + 1
    BY <1>0 DEF Extended
  <1>3. top' \in ENTER .. MaxCode /\ DOMAIN code' \subseteq ENTER .. top' - 1
    <2>1. ENTER <= top /\ top < top' /\ top' <= MaxCode /\ top \in Int /\ top' \in Int
      BY <1>0 DEF Extended
    <2>2. top' \in ENTER .. MaxCode
      BY <2>1, SizesAssumption DEF ENTER
    <2>3. ASSUME NEW a \in DOMAIN code'
          PROVE  a \in ENTER .. top' - 1
      <3>1. a \in DOMAIN code => a \in Int /\ ENTER <= a /\ a < top
        BY BlockFacts
      <3>2. a \in DOMAIN code \/ a = top
        BY <1>0 DEF Extended
      <3> QED BY <2>1, <3>1, <3>2 DEF ENTER
    <2> QED BY <2>2, <2>3
  <1>4. ASSUME NEW a \in ENTER .. top' - 1
        PROVE  \E b \in DOMAIN code' : b <= a /\ a < b + code'[b].size
    <2>1. CASE a < top
      <3>1. a \in ENTER .. top - 1
        BY <1>0, <2>1 DEF Extended, ENTER
      <3>2. PICK b \in DOMAIN code : b <= a /\ a < b + code[b].size
        BY <3>1 DEF CodeInv, TypeOK
      <3> QED BY <1>0, <1>1, <3>2 DEF Extended
    <2>2. CASE a >= top
      BY <1>0, <2>2 DEF Extended, ENTER
    <2> QED BY <1>0, <2>1, <2>2 DEF Extended, ENTER
  <1>5. ASSUME NEW a \in DOMAIN code', NEW b \in DOMAIN code', a < b
        PROVE  a + code'[a].size <= b
    <2>1. CASE a \in DOMAIN code /\ b \in DOMAIN code
      BY <1>1, <1>5, <2>1 DEF CodeInv, TypeOK
    <2>2. CASE a \in DOMAIN code /\ b = top
      BY <1>1, <2>2, BlockFacts
    <2>3. CASE a = top
      BY <1>0, <1>5, <2>3, BlockFacts DEF Extended
    <2> QED BY <1>0, <2>1, <2>2, <2>3 DEF Extended
  <1>6. UNCHANGED <<insns, status, machine>>
    BY DEF Emitted
  <1> QED BY <1>2, <1>3, <1>4, <1>5, <1>6 DEF CodeInv, TypeOK, machine

(* Every block stands for its piece of the source, the new one for the next. *)
LEMMA EmittedTranslated ==
    ASSUME CodeInv, NEW c, NEW n, Taken(c, n), NEW jump \in Int, NEW fixed, Patched(fixed),
           Emitted(c, n, jump, fixed)
    PROVE  Translated'
  <1>0. Extended(c, n, jump, fixed)
    BY EmittedFacts
  <1>1. \A a \in DOMAIN code : /\ code'[a] \in Blocks /\ code'[a].op = code[a].op
                               /\ code'[a].arg = code[a].arg /\ code'[a].size = code[a].size
                               /\ code'[a].src = code[a].src
    BY <1>0 DEF Extended, Patched
  <1>2. ASSUME NEW a \in DOMAIN code
        PROVE  Translates(a)'
    <2>1. status = "compile"
      BY DEF Taken
    <2>2. PICK m \in 1 .. Len(insns) : Stands(a, m) /\ Continues(a, m)
      BY <2>1, BlockFacts
    <2>3. code[a].op \in Instruction
      BY <2>1, BlockFacts
    <2>4. Stands(a, m)'
      <3>1. index' >= index /\ index \in Int /\ index' \in Int /\ insns' = insns
        BY <1>0 DEF Extended
      <3>2. code[a].src \in Nat
        BY <1>1 DEF Blocks
      <3>3. code[a].src + m <= index'
        BY <2>2, <3>1, <3>2 DEF Stands
      <3> QED BY <1>1, <2>2, <3>1, <3>3 DEF Stands
    <2>5. Continues(a, m)'
      <3>1. a + code[a].size <= top
        BY BlockFacts
      <3>2. CASE a + code[a].size = top
        BY <1>0, <1>1, <2>2, <3>2 DEF Extended, Continues
      <3>3. CASE a + code[a].size # top
        <4>1. /\ a + code[a].size \in DOMAIN code
              /\ code[a + code[a].size].src = code[a].src + m
          BY <2>2, <3>3 DEF Continues
        <4>2. a + code[a].size < top
          BY <4>1, BlockFacts
        <4>3. a + code'[a].size = a + code[a].size /\ a + code[a].size # top'
          BY <1>0, <1>1, <4>1, <4>2, BlockFacts DEF Extended
        <4> QED BY <1>0, <1>1, <4>1, <4>3 DEF Extended, Continues
      <3> QED BY <3>2, <3>3
    <2> QED BY <1>0, <1>1, <2>2, <2>3, <2>4, <2>5 DEF Extended, Translates, Instruction
  <1>3. ASSUME NEW a, a = top
        PROVE  Translates(a)'
    <2>1. /\ code'[a].op = c /\ code'[a].src = index /\ code'[a].size = Size(c, n)
          /\ code'[a].arg = Operand(c, n)
      BY <1>0, <1>3 DEF Extended
    <2>2. Stands(a, n)'
      BY <1>0, <2>1 DEF Extended, Stands, Taken
    <2>3. Continues(a, n)'
      BY <1>0, <1>3, <2>1 DEF Extended, Continues, Taken
    <2>4. n \in 1 .. Len(insns')
      BY <1>0 DEF Extended, Taken
    <2> QED BY <2>1, <2>2, <2>3, <2>4 DEF Translates, Taken, Instruction
  <1>4. ENTER \in DOMAIN code' /\ code'[ENTER].src = 1 /\ top' # ENTER
    <2>1. top' # ENTER
      BY <1>0 DEF Extended, ENTER
    <2>2. CASE top = ENTER
      BY <1>0, <2>1, <2>2 DEF Extended, CodeInv, Translated
    <2>3. CASE top # ENTER
      BY <1>0, <1>1, <2>1, <2>3 DEF Extended, CodeInv, Translated
    <2> QED BY <2>2, <2>3, <2>1
  <1> QED BY <1>0, <1>1, <1>2, <1>3, <1>4 DEF Extended, Translated

(* The source up to index stays legal; a "]" has to close a "[". *)
LEMMA EmittedChecked ==
    ASSUME CodeInv, NEW c, NEW n, Taken(c, n), NEW jump \in Int, NEW fixed, Patched(fixed),
           Emitted(c, n, jump, fixed),
           c = "]" => \E i \in 1 .. index : Interpreter!Closes(i, index)
    PROVE  Checked'
  <1>0. Extended(c, n, jump, fixed)
    BY EmittedFacts
  <1> SUFFICES ASSUME NEW j \in 1 .. index' - 1
               PROVE  /\ insns[j] \in Instruction
                      /\ insns[j] = "]" => \E i \in 1 .. j : Interpreter!Closes(i, j)
    <2>1. insns' = insns
      BY <1>0 DEF Extended
    <2>2. \A i, j : Interpreter!Closes(i, j)' <=> Interpreter!Closes(i, j)
      BY <2>1, SameSource
    <2> QED BY <2>1, <2>2, Zenon DEF Checked, Instruction
  <1>1. CASE j < index
    BY <1>0, <1>1 DEF Extended, CodeInv, Checked, Instruction
  <1>2. CASE j >= index
    <2>1. j \in index .. index + n - 1
      BY <1>0, <1>2 DEF Extended
    <2>2. insns[j] = c
      BY <2>1 DEF Taken
    <2>3. c = "]" => j = index
      BY <1>0, <2>1 DEF Taken, Repeated, Extended
    <2> QED BY <2>2, <2>3 DEF Taken
  <1> QED BY <1>0, <1>1, <1>2 DEF Extended

(* The machine waits at the start of the code. *)
LEMMA EmittedMachine ==
    ASSUME CodeInv, NEW c, NEW n, Taken(c, n), NEW jump, NEW fixed, Emitted(c, n, jump, fixed)
    PROVE  Machine'
  BY DEF CodeInv, Machine, Emitted, Taken, machine

-----------------------------------------------------------------------------
(* The stack of open brackets. *)

\* The block at o is an open "[" with d open ones from it on, when i is next.
Opens(o, d, i) ==
    /\ o \in DOMAIN code /\ code[o].op = "[" /\ code[o].jump = -1
    /\ code[o].src \in 1 .. i - 1
    /\ \A m \in code[o].src .. i - 1 :
          Interpreter!Count("[", code[o].src, m) > Interpreter!Count("]", code[o].src, m)
    /\ Interpreter!Count("[", code[o].src, i - 1)
          = Interpreter!Count("]", code[o].src, i - 1) + d

(* The same without its location in the stack. *)
LEMMA OpenIs ==
    ASSUME CodeInv, status = "compile", NEW k \in 1 .. Len(jumps)
    PROVE  /\ Opens(jumps[k] - JUMP, Len(jumps) - k + 1, index)
           /\ insns[code[jumps[k] - JUMP].src] = "["
           /\ code[jumps[k] - JUMP].size = JUMP
           /\ jumps \in Seq(Int) /\ jumps[k] \in Int
  <1>1. OpenAt(jumps[k] - JUMP, k) /\ jumps \in Seq(Int) /\ jumps[k] \in Int
    BY DEF CodeInv, Nested
  <1> DEFINE o == jumps[k] - JUMP
  <1>2. o \in DOMAIN code /\ code[o].op = "["
    BY <1>1 DEF OpenAt
  <1>3. PICK n \in 1 .. Len(insns) : Stands(o, n)
    BY <1>2, BlockFacts
  <1>4. code[o].src \in Nat \ {0}
    BY <1>2, BlockFacts DEF Blocks
  <1>5. n = 1 /\ code[o].src + 1 <= index /\ insns[code[o].src] = "[" /\ code[o].size = JUMP
    <2>1. n = 1 /\ code[o].size = Size("[", 1)
      BY <1>2, <1>3 DEF Stands, Repeated
    <2>2. Size("[", 1) = JUMP
      BY SizeFacts DEF Instruction
    <2> QED BY <1>2, <1>3, <1>4, <2>1, <2>2 DEF Stands
  <1>6. index \in Int
    BY DEF CodeInv, TypeOK
  <1>7. code[o].src \in 1 .. index - 1
    BY <1>4, <1>5, <1>6
  <1> HIDE DEF o
  <1>8. Opens(o, Len(jumps) - k + 1, index)
    <2>1. Len(jumps) \in Nat /\ k \in Int
      BY <1>1
    <2>2. OpenAt(o, k)
      BY <1>1 DEF o
    <2>3. Interpreter!Count("]", code[o].src, index - 1) \in Nat
      BY <1>4, <1>6, CountType
    <2> QED BY <1>7, <2>1, <2>2, <2>3 DEF OpenAt, Opens
  <1> QED BY <1>1, <1>5, <1>8 DEF o

(* One bracket more: another open one, or the last one closed. *)
LEMMA OneBracket ==
    ASSUME index \in 1 .. Len(insns), Len(insns) \in Nat, NEW s \in 1 .. index - 1,
           NEW c \in {"[", "]"}, insns[index] = c
    PROVE  /\ Interpreter!Count("[", s, index)
                = Interpreter!Count("[", s, index - 1) + IF c = "[" THEN 1 ELSE 0
           /\ Interpreter!Count("]", s, index)
                = Interpreter!Count("]", s, index - 1) + IF c = "]" THEN 1 ELSE 0
           /\ \A b \in {"[", "]"}, m \in Int : Interpreter!Count(b, s, m) \in Nat
  <1>1. s \in Int /\ index \in Int /\ s <= index
    OBVIOUS
  <1>2. \A b : Interpreter!Count(b, s, index)
                 = Interpreter!Count(b, s, index - 1) + IF insns[index] = b THEN 1 ELSE 0
    BY <1>1, CountNext
  <1>3. \A b \in {"[", "]"}, m \in Int : Interpreter!Count(b, s, m) \in Nat
    BY <1>1, CountType
  <1> QED BY <1>2, <1>3

\* The block at o is an open "[" after the step, with e open ones from it on.
StillOpen(o, e) ==
    /\ o \in DOMAIN code' /\ code'[o].op = "[" /\ code'[o].jump = -1
    /\ code'[o].src = code[o].src
    /\ \A m \in code[o].src .. index' - 1 :
          Interpreter!Count("[", code[o].src, m) > Interpreter!Count("]", code[o].src, m)
    /\ Interpreter!Count("[", code[o].src, index' - 1)
         = Interpreter!Count("]", code[o].src, index' - 1) + e

(* How an open "[" stays open in a step of _emit. *)
LEMMA StaysOpen ==
    ASSUME CodeInv, NEW c, NEW n, Taken(c, n), NEW jump \in Int, NEW fixed, Patched(fixed),
           Emitted(c, n, jump, fixed), NEW o, NEW d \in Nat \ {0}, Opens(o, d, index),
           fixed[o].jump = -1,
           NEW e \in Nat \ {0},
           c = "[" => e = d + 1, c = "]" => e = d - 1, c \notin {"[", "]"} => e = d
    PROVE  StillOpen(o, e)
  <1> DEFINE s == code[o].src
             O(m) == Interpreter!Count("[", s, m)
             C(m) == Interpreter!Count("]", s, m)
  <1>1. /\ index \in 1 .. Len(insns) /\ Len(insns) \in Nat /\ index' = index + n
        /\ n \in Nat \ {0} /\ s \in 1 .. index - 1
    BY EmittedFacts DEF Extended, Opens
  <1>2. /\ o \in DOMAIN code' /\ code'[o].op = "[" /\ code'[o].jump = -1
        /\ code'[o].src = s
    BY EmittedFacts DEF Extended, Opens, Patched
  <1>3. /\ \A m \in s .. index - 1 : O(m) > C(m)
        /\ O(index - 1) = C(index - 1) + d
    BY DEF Opens
  <1>4. \A m \in Int : O(m) \in Nat /\ C(m) \in Nat
    BY <1>1, CountType
  <1>5. \A m \in index .. index' - 1 : O(m) > C(m) /\ (m = index' - 1 => O(m) = C(m) + e)
    <2>1. CASE c \in {"[", "]"}
      <3>0. n = 1
        BY <2>1 DEF Taken, Repeated
      <3>1. n = 1 /\ insns[index] = c
        <4>1. index \in index .. index + n - 1
          BY <1>1
        <4> QED BY <3>0, <4>1 DEF Taken
      <3>2. /\ O(index) = O(index - 1) + IF c = "[" THEN 1 ELSE 0
            /\ C(index) = C(index - 1) + IF c = "]" THEN 1 ELSE 0
        BY <1>1, <2>1, <3>1, OneBracket
      <3> HIDE DEF O, C
      <3>3. O(index) = C(index) + e
        <4>1. O(index - 1) \in Nat /\ C(index - 1) \in Nat
          BY <1>1, <1>4
        <4>2. CASE c = "["
          BY <1>3, <3>2, <4>1, <4>2
        <4>3. CASE c = "]"
          BY <1>3, <3>2, <4>1, <4>3
        <4> QED BY <2>1, <4>2, <4>3
      <3>4. O(index) > C(index)
        <4>1. O(index) \in Nat /\ C(index) \in Nat
          BY <1>1, <1>4
        <4> QED BY <3>3, <4>1
      <3> QED BY <1>1, <3>1, <3>3, <3>4
    <2>2. CASE c \notin {"[", "]"}
      <3>1. ASSUME NEW m \in index .. index' - 1
            PROVE  O(m) = O(index - 1) /\ C(m) = C(index - 1)
        <4> DEFINE l == m - index + 1
        <4>1. l \in Nat /\ m = index + l - 1
          BY <1>1
        <4>2. \A k \in index .. index + l - 1 : insns[k] = c
          BY <1>1, <4>1 DEF Taken
        <4> HIDE DEF l
        <4>3. \A b \in {"[", "]"} : \A k \in index .. index + l - 1 : insns[k] # b
          BY <2>2, <4>2
        <4>4. s \in Int /\ index \in Int
          BY <1>1
        <4>5. \A b \in {"[", "]"} : Interpreter!Count(b, s, index + l - 1)
                                      = Interpreter!Count(b, s, index - 1)
          BY <4>1, <4>3, <4>4, CountSkip
        <4> QED BY <4>1, <4>5
      <3> HIDE DEF O, C
      <3>2. e = d /\ index - 1 \in Int
        BY <1>1, <2>2
      <3> QED BY <1>3, <1>4, <3>1, <3>2
    <2> QED BY <2>1, <2>2
  <1> HIDE DEF O, C
  <1>6. \A m \in s .. index' - 1 : O(m) > C(m)
    BY <1>1, <1>3, <1>5
  <1>7. O(index' - 1) = C(index' - 1) + e
    BY <1>1, <1>5
  <1> QED BY <1>2, <1>6, <1>7 DEF O, C, StillOpen

(* A place in the stack, from what is known of the block. *)
LEMMA Restacked ==
    ASSUME NEW o, NEW k, o \in DOMAIN code', code'[o].op = "[", code'[o].jump = -1,
           insns' = insns,
           \A m \in code'[o].src .. index' - 1 :
              Interpreter!Count("[", code'[o].src, m) > Interpreter!Count("]", code'[o].src, m),
           code'[o].src \in Int, index' \in Int, k \in Int, Len(jumps') \in Nat,
           NEW d, d = Len(jumps') - k + 1,
           Interpreter!Count("[", code'[o].src, index' - 1)
             = Interpreter!Count("]", code'[o].src, index' - 1) + d
    PROVE  OpenAt(o, k)'
  <1>0. Interpreter!Count("[", code'[o].src, index' - 1)
          = Interpreter!Count("]", code'[o].src, index' - 1) + Len(jumps') - k + 1
    <2>1. Interpreter!Count("]", code'[o].src, index' - 1) \in Nat
      BY CountType
    <2> QED BY <2>1
  <1>1. /\ \A m : /\ Interpreter!Count("[", code[o].src, m)'
                       = Interpreter!Count("[", code'[o].src, m)
                  /\ Interpreter!Count("]", code[o].src, m)'
                       = Interpreter!Count("]", code'[o].src, m)
        /\ Interpreter!Count("[", code[o].src, index - 1)'
             = Interpreter!Count("[", code'[o].src, index' - 1)
        /\ Interpreter!Count("]", code[o].src, index - 1)'
             = Interpreter!Count("]", code'[o].src, index' - 1)
    BY DEF Interpreter!Count
  <1> QED BY <1>0, <1>1 DEF OpenAt

(* Two jumps stay joined when their blocks stay. *)
LEMMA Rejoined ==
    ASSUME NEW a, NEW b, Joined(a, b), insns' = insns,
           a \in DOMAIN code', b \in DOMAIN code',
           code'[a] = code[a], code'[b] = code[b]
    PROVE  Joined(a, b)'
  <1>1. Interpreter!Closes(code[a].src, code[b].src)'
          <=> Interpreter!Closes(code[a].src, code[b].src)
    BY DEF Interpreter!Closes, Interpreter!Count
  <1> QED BY <1>1 DEF Joined

-----------------------------------------------------------------------------
(* The three kinds of blocks _emit appends, and what they leave of CodeInv. *)

(* An open "[" keeps its place in the stack, from its bottom, when "[" and "]" push and  *)
(* pop at the top.                                                                       *)
LEMMA KeepsPlace ==
    ASSUME CodeInv, NEW c, NEW n, Taken(c, n), NEW jump \in Int, NEW fixed, Patched(fixed),
           Emitted(c, n, jump, fixed), NEW k \in 1 .. Len(jumps),
           NEW o, o = jumps[k] - JUMP, fixed[o].jump = -1,
           Len(jumps') = Len(jumps) + IF c = "[" THEN 1 ELSE IF c = "]" THEN -1 ELSE 0,
           k <= Len(jumps')
    PROVE  OpenAt(o, k)'
  <1>0. PICK d, e : d = Len(jumps) - k + 1 /\ e = Len(jumps') - k + 1
    OBVIOUS
  <1>1. Opens(o, d, index) /\ jumps \in Seq(Int)
    BY <1>0, OpenIs DEF Taken
  <1>2. d \in Nat \ {0} /\ e \in Nat \ {0} /\ Len(jumps') \in Nat /\ k \in Int
    BY <1>0, <1>1
  <1>3. /\ c = "[" => e = d + 1
        /\ c = "]" => e = d - 1
        /\ c \notin {"[", "]"} => e = d
    BY <1>0, <1>1
  <1>4. StillOpen(o, e)
    BY <1>1, <1>2, <1>3, StaysOpen
  <1>5. code'[o].src \in Int /\ index' \in Int /\ insns' = insns
    <2>1. Extended(c, n, jump, fixed)
      BY EmittedFacts
    <2>2. index' \in Int /\ insns' = insns
      BY <2>1 DEF Extended
    <2>3. code[o].src \in Int
      BY <1>1 DEF Opens
    <2> QED BY <1>4, <2>2, <2>3 DEF StillOpen
  <1> QED BY <1>0, <1>2, <1>4, <1>5, Restacked DEF StillOpen

(* Loops that are closed stay closed when their blocks are not patched. *)
LEMMA KeepsJoined ==
    ASSUME CodeInv, NEW c, NEW n, Taken(c, n), NEW jump \in Int, NEW fixed, Patched(fixed),
           Emitted(c, n, jump, fixed), NEW a, NEW b, Joined(a, b),
           fixed[a] = code[a], fixed[b] = code[b]
    PROVE  Joined(a, b)'
  <1>1. a \in DOMAIN code /\ b \in DOMAIN code
    BY DEF Joined
  <1>2. Extended(c, n, jump, fixed)
    BY EmittedFacts
  <1> QED BY <1>1, <1>2, Rejoined DEF Extended

(* An instruction that is no bracket. *)
LEMMA PlainKeeps ==
    ASSUME CodeInv, NEW c, NEW n, Taken(c, n), c \notin {"[", "]"},
           Emitted(c, n, -1, code), jumps' = jumps
    PROVE  CodeInv'
  <1>1. Patched(code)
    BY BlockFacts DEF Patched
  <1>2. Extended(c, n, -1, code)
    BY <1>1, EmittedFacts
  <1>3. TypeOK' /\ Translated' /\ Checked' /\ Machine'
    BY <1>1, EmittedType, EmittedTranslated, EmittedChecked, EmittedMachine
  <1>4. Nested'
    <2>1. ASSUME NEW k \in 1 .. Len(jumps)
          PROVE  OpenAt(jumps[k] - JUMP, k)'
      <3>1. PICK o : o = jumps[k] - JUMP
        OBVIOUS
      <3>2. code[o].jump = -1 /\ jumps \in Seq(Int)
        BY <3>1 DEF CodeInv, Nested, OpenAt
      <3>3. OpenAt(o, k)'
        BY <1>1, <3>1, <3>2, KeepsPlace
      <3> QED BY <3>1, <3>3
    <2> QED BY <2>1 DEF Nested, CodeInv
  <1>5. Loops'
    <2>1. ASSUME NEW a, NEW b, Joined(a, b)
          PROVE  Joined(a, b)'
      BY <1>1, <2>1, KeepsJoined
    <2>2. code'[top].op \notin {"[", "]"}
      BY <1>2 DEF Extended
    <2> QED BY <1>2, <2>1, <2>2 DEF CodeInv, Loops, Extended
  <1> QED BY <1>3, <1>4, <1>5 DEF CodeInv

(* A "[": it is the only one that is open from itself on. *)
LEMMA OpenKeeps ==
    ASSUME CodeInv, Taken("[", 1), Emitted("[", 1, -1, code),
           jumps' = Append(jumps, top + JUMP)
    PROVE  CodeInv'
  <1>1. Patched(code)
    BY BlockFacts DEF Patched
  <1>2. Extended("[", 1, -1, code)
    BY <1>1, EmittedFacts
  <1>3. TypeOK' /\ Translated' /\ Checked' /\ Machine'
    BY <1>1, EmittedType, EmittedTranslated, EmittedChecked, EmittedMachine
  <1>4. /\ jumps \in Seq(Int) /\ jumps' \in Seq(Int) /\ Len(jumps') = Len(jumps) + 1
        /\ jumps'[Len(jumps')] = top + JUMP
        /\ \A k \in 1 .. Len(jumps) : jumps'[k] = jumps[k]
    BY <1>2 DEF CodeInv, Nested, Extended, JUMP
  <1>5. ASSUME NEW k \in 1 .. Len(jumps)
        PROVE  OpenAt(jumps[k] - JUMP, k)'
    <2>1. PICK o : o = jumps[k] - JUMP
      OBVIOUS
    <2>2. code[o].jump = -1
      BY <2>1 DEF CodeInv, Nested, OpenAt
    <2>3. OpenAt(o, k)'
      BY <1>1, <1>4, <2>1, <2>2, KeepsPlace
    <2> QED BY <1>4, <2>1, <2>3
  <1>6. ASSUME NEW o, o = top, NEW k, k = Len(jumps')
        PROVE  OpenAt(o, k)'
    <2>1. /\ o \in DOMAIN code' /\ code'[o].op = "[" /\ code'[o].jump = -1
          /\ code'[o].src = index /\ index \in Int /\ index' = index + 1 /\ insns' = insns
      BY <1>2, <1>6 DEF Extended
    <2>2. insns[index] = "["
      BY <2>1 DEF Taken
    <2>3. /\ Interpreter!Count("[", index, index) = 1
          /\ Interpreter!Count("]", index, index) = 0
      BY <2>1, <2>2, CountEmpty, CountNext
    <2>4. index' - 1 = index /\ \A m \in index .. index : m = index
      BY <2>1
    <2>5. 1 = Len(jumps') - k + 1 /\ k \in Int /\ Len(jumps') \in Nat /\ index' \in Int
      BY <1>4, <1>6, <2>1
    <2>6. /\ \A m \in code'[o].src .. index' - 1 :
               Interpreter!Count("[", code'[o].src, m) > Interpreter!Count("]", code'[o].src, m)
          /\ Interpreter!Count("[", code'[o].src, index' - 1)
               = Interpreter!Count("]", code'[o].src, index' - 1) + 1
      BY <2>1, <2>3, <2>4
    <2> QED BY <2>1, <2>5, <2>6, Restacked
  <1>7. Nested'
    <2>1. ASSUME NEW k \in 1 .. Len(jumps')
          PROVE  OpenAt(jumps[k] - JUMP, k)'
      <3>1. PICK o : o = jumps'[k] - JUMP
        OBVIOUS
      <3>2. CASE k = Len(jumps')
        <4>1. o = top
          BY <1>2, <1>4, <3>1, <3>2 DEF Extended, JUMP
        <4> QED BY <1>6, <3>1, <3>2, <4>1
      <3>3. CASE k # Len(jumps')
        <4>1. k \in 1 .. Len(jumps)
          BY <1>4, <3>3
        <4> QED BY <1>5, <4>1
      <3> QED BY <3>2, <3>3
    <2> QED BY <1>4, <2>1 DEF Nested
  <1>8. Loops'
    <2>1. ASSUME NEW a, NEW b, Joined(a, b)
          PROVE  Joined(a, b)'
      BY <1>1, <2>1, KeepsJoined
    <2>2. Len(jumps') \in 1 .. Len(jumps') /\ \A k \in 1 .. Len(jumps) : k \in 1 .. Len(jumps')
      BY <1>4
    <2> QED BY <1>2, <1>4, <2>1, <2>2 DEF CodeInv, Loops, Extended
  <1> QED BY <1>3, <1>7, <1>8 DEF CodeInv

(* What a "]" closes is the "[" on top of the stack. *)
LEMMA TopCloses ==
    ASSUME CodeInv, Taken("]", 1), jumps # <<>>, NEW o, o = jumps[Len(jumps)] - JUMP
    PROVE  /\ code[o].src \in 1 .. index - 1
           /\ Interpreter!Closes(code[o].src, index)
  <1> DEFINE s == code[o].src
  <1>1. /\ Opens(o, 1, index) /\ insns[s] = "["
    <2>1. jumps \in Seq(Int)
      BY DEF CodeInv, Nested
    <2>2. Len(jumps) \in 1 .. Len(jumps) /\ Len(jumps) - Len(jumps) + 1 = 1
      BY <2>1
    <2>3. /\ Opens(o, Len(jumps) - Len(jumps) + 1, index)
          /\ insns[s] = "["
      BY <2>2, OpenIs DEF Taken
    <2> QED BY <2>2, <2>3
  <1>2. s \in 1 .. index - 1 /\ index \in 1 .. Len(insns) /\ Len(insns) \in Nat
    BY <1>1, ProgramsAssumption DEF Opens, CodeInv, TypeOK, Taken
  <1>3. insns[index] = "]"
    <2>1. index \in index .. index + 1 - 1
      BY <1>2
    <2> QED BY <2>1 DEF Taken
  <1>4. /\ Interpreter!Count("[", s, index) = Interpreter!Count("[", s, index - 1)
        /\ Interpreter!Count("]", s, index) = Interpreter!Count("]", s, index - 1) + 1
        /\ Interpreter!Count("[", s, index - 1) \in Nat
    <2>1. s \in Int /\ index \in Int /\ s <= index /\ index - 1 \in Int
      BY <1>2
    <2> HIDE DEF s
    <2>2. \A b : Interpreter!Count(b, s, index)
                   = Interpreter!Count(b, s, index - 1) + IF insns[index] = b THEN 1 ELSE 0
      BY <2>1, CountNext
    <2>3. \A b : Interpreter!Count(b, s, index - 1) \in Nat
      BY <2>1, CountType
    <2>4. Interpreter!Count("[", s, index) = Interpreter!Count("[", s, index - 1) + 0
      BY <1>3, <2>2
    <2> QED BY <1>3, <2>2, <2>3, <2>4
  <1>5. Interpreter!Count("[", s, index) = Interpreter!Count("]", s, index)
    BY <1>1, <1>4 DEF Opens
  <1> QED BY <1>1, <1>2, <1>3, <1>5 DEF Opens, Interpreter!Closes

(* A "]": it closes the "[" on top of the stack, whose jump it patches. *)
LEMMA CloseKeeps ==
    ASSUME CodeInv, Taken("]", 1), jumps # <<>>,
           NEW o, o = jumps[Len(jumps)] - JUMP, NEW fixed,
           fixed = [code EXCEPT ![o].jump = Patch],
           Emitted("]", 1, Dest - top - JUMP, fixed),
           jumps' = SubSeq(jumps, 1, Len(jumps) - 1)
    PROVE  CodeInv'
  <1>0. PICK l, jump : l = Len(jumps) /\ jump = Dest - top - JUMP
    OBVIOUS
  <1>1. /\ jumps \in Seq(Int) /\ l \in 1 .. Len(jumps) /\ Opens(o, 1, index)
        /\ insns[code[o].src] = "["
    <2>1. jumps \in Seq(Int)
      BY DEF CodeInv, Nested
    <2>2. l \in 1 .. Len(jumps) /\ Len(jumps) - l + 1 = 1
      BY <1>0, <2>1
    <2>3. Opens(o, Len(jumps) - l + 1, index) /\ insns[code[o].src] = "["
      BY <1>0, <2>2, OpenIs DEF Taken
    <2> QED BY <2>1, <2>2, <2>3
  <1>2. /\ o \in DOMAIN code /\ code[o].op = "[" /\ code[o].jump = -1
        /\ o \in Int /\ top \in Int /\ o < top /\ code[o] \in Blocks
    BY <1>1, BlockFacts DEF Opens
  <1>3. Patch = top - o /\ jump = o - top /\ jump \in Int
    BY <1>0, <1>1, <1>2 DEF Patch, Dest, JUMP
  <1>4. /\ DOMAIN fixed = DOMAIN code /\ \A a \in DOMAIN code : a # o => fixed[a] = code[a]
        /\ fixed[o] = [code[o] EXCEPT !.jump = top - o]
    BY <1>2, <1>3
  <1>5. /\ fixed[o] \in Blocks /\ fixed[o].op = "[" /\ fixed[o].jump = top - o
        /\ fixed[o].arg = code[o].arg /\ fixed[o].size = code[o].size
        /\ fixed[o].src = code[o].src
    <2>1. /\ code[o] \in [op : Opcode, arg : Nat, size : Nat \ {0}, jump : Int, src : Nat \ {0}]
          /\ top - o \in Int
      BY <1>2 DEF Blocks
    <2>2. [code[o] EXCEPT !.jump = top - o] \in Blocks
      BY <2>1 DEF Blocks
    <2> QED BY <1>2, <1>4, <2>1, <2>2
  <1>6. Patched(fixed)
    BY <1>2, <1>4, <1>5, BlockFacts DEF Patched
  <1>7. Emitted("]", 1, jump, fixed)
    BY <1>0
  <1>8. Extended("]", 1, jump, fixed)
    BY <1>3, <1>6, <1>7, EmittedFacts
  <1>9. Interpreter!Closes(code[o].src, index)
    BY TopCloses
  <1>10. TypeOK' /\ Translated' /\ Checked' /\ Machine'
    <2>1. TypeOK' /\ Translated' /\ Machine'
      BY <1>3, <1>6, <1>7, EmittedType, EmittedTranslated, EmittedMachine
    <2>2. \E i \in 1 .. index : Interpreter!Closes(i, index)
      <3>1. code[o].src \in 1 .. index
        <4>1. code[o].src \in 1 .. index - 1
          BY <1>1 DEF Opens
        <4>2. index \in Int
          BY <1>8 DEF Extended
        <4> QED BY <4>1, <4>2
      <3> QED BY <1>9, <3>1
    <2>3. Checked'
      BY <1>3, <1>6, <1>7, <2>2, EmittedChecked
    <2> QED BY <2>1, <2>3
  <1>11. /\ jumps' \in Seq(Int) /\ Len(jumps') = Len(jumps) - 1
         /\ \A k \in 1 .. Len(jumps') : k \in 1 .. Len(jumps) /\ k # l /\ jumps'[k] = jumps[k]
    BY <1>0, <1>1
  <1>12. ASSUME NEW k \in 1 .. Len(jumps')
         PROVE  OpenAt(jumps[k] - JUMP, k)'
    <2>1. PICK p, d : p = jumps[k] - JUMP /\ d = Len(jumps) - k + 1
      OBVIOUS
    <2>2. Opens(p, d, index)
      BY <1>11, <2>1, OpenIs DEF Taken
    <2>0. k \in 1 .. Len(jumps) /\ k # Len(jumps) /\ Len(jumps) \in Nat /\ d \in Int
      BY <1>0, <1>1, <1>11, <2>1
    <2>3. d # 1
      BY <2>0, <2>1
    <2>4. p # o
      <3>1. index - 1 \in Int /\ code[o].src \in Int /\ d \in Int
        <4>1. index \in Int
          BY <1>8 DEF Extended
        <4> QED BY <1>1, <2>0, <4>1 DEF Opens
      <3>2. Interpreter!Count("]", code[o].src, index - 1) \in Nat
        BY <3>1, CountType
      <3> QED BY <1>1, <2>2, <2>3, <3>1, <3>2 DEF Opens
    <2>5. fixed[p].jump = -1
      BY <1>4, <2>2, <2>4 DEF Opens
    <2>6. OpenAt(p, k)'
      <3>1. Len(jumps') = Len(jumps) + IF "]" = "[" THEN 1 ELSE IF "]" = "]" THEN -1 ELSE 0
        BY <1>11, <2>0
      <3>2. k <= Len(jumps')
        BY <1>11, <2>0
      <3> QED BY <1>3, <1>6, <1>7, <2>0, <2>1, <2>5, <3>1, <3>2, KeepsPlace
    <2> QED BY <1>11, <2>1, <2>6
  <1>13. Nested'
    BY <1>11, <1>12 DEF Nested
  <1>14. ASSUME NEW a, NEW b, Joined(a, b)
         PROVE  Joined(a, b)' /\ a # o /\ b # o
    <2>1. a # o /\ b # o
      BY <1>2, <1>14, BlockFacts DEF Joined
    <2>2. fixed[a] = code[a] /\ fixed[b] = code[b]
      BY <1>4, <1>14, <2>1 DEF Joined
    <2> QED BY <1>3, <1>6, <1>7, <1>14, <2>1, <2>2, KeepsJoined
  <1>15. ASSUME NEW t, t = top
         PROVE  Joined(o, t)'
    <2>1. /\ o \in DOMAIN code' /\ code'[o].op = "[" /\ code'[o].jump = t - o
          /\ code'[o].src = code[o].src
          /\ t \in DOMAIN code' /\ code'[t].op = "]" /\ code'[t].jump = o - t
          /\ code'[t].src = index /\ insns' = insns
      <3>1. code'[o] = fixed[o] /\ o \in DOMAIN code'
        BY <1>2, <1>8 DEF Extended
      <3>2. /\ t \in DOMAIN code' /\ code'[t].op = "]" /\ code'[t].jump = o - t
            /\ code'[t].src = index /\ insns' = insns
        BY <1>3, <1>8, <1>15 DEF Extended
      <3> QED BY <1>5, <1>15, <3>1, <3>2
    <2>2. Interpreter!Closes(code[o].src, code[t].src)'
            <=> Interpreter!Closes(code'[o].src, code'[t].src)
      BY <2>1 DEF Interpreter!Closes, Interpreter!Count
    <2> QED BY <1>2, <1>9, <1>15, <2>1, <2>2 DEF Joined
  <1>16. ASSUME NEW a \in DOMAIN code', code'[a].op = "["
         PROVE  \/ \E k \in 1 .. Len(jumps') : jumps'[k] = a + JUMP
                \/ \E b \in DOMAIN code' : Joined(a, b)'
    <2>1. a \in DOMAIN code /\ code[a].op = "["
      BY <1>2, <1>4, <1>8, <1>16 DEF Extended
    <2>2. ASSUME NEW k \in 1 .. Len(jumps), jumps[k] = a + JUMP
          PROVE  \/ \E j \in 1 .. Len(jumps') : jumps'[j] = a + JUMP
                 \/ \E b \in DOMAIN code' : Joined(a, b)'
      <3>1. CASE k = l
        <4>1. a = o
          BY <1>0, <1>1, <2>1, <2>2, <3>1, BlockFacts DEF JUMP
        <4>2. top \in DOMAIN code'
          BY <1>8 DEF Extended
        <4> QED BY <1>15, <4>1, <4>2
      <3>2. CASE k # l
        <4>1. k \in 1 .. Len(jumps')
          BY <1>0, <1>1, <1>11, <3>2
        <4> QED BY <1>11, <2>2, <4>1
      <3> QED BY <3>1, <3>2
    <2>3. ASSUME NEW b \in DOMAIN code, Joined(a, b)
          PROVE  \E j \in DOMAIN code' : Joined(a, j)'
      BY <1>8, <1>14, <2>3 DEF Extended
    <2> QED BY <2>1, <2>2, <2>3 DEF CodeInv, Loops
  <1>17. ASSUME NEW a \in DOMAIN code', code'[a].op = "]"
         PROVE  Joined(a + code[a].jump, a)'
    <2>1. PICK p : p = a + code'[a].jump
      OBVIOUS
    <2>2. CASE a = top
      <3>1. code'[top].jump = jump
        BY <1>8 DEF Extended
      <3>2. p = o
        BY <1>2, <1>3, <2>1, <2>2, <3>1
      <3> QED BY <1>15, <2>1, <2>2, <3>2
    <2>3. CASE a # top
      <3>1. a \in DOMAIN code /\ a # o
        BY <1>5, <1>8, <1>17, <2>3 DEF Extended
      <3>2. code'[a] = code[a]
        BY <1>4, <1>8, <3>1 DEF Extended
      <3>3. Joined(p, a)
        BY <1>17, <2>1, <3>1, <3>2 DEF CodeInv, Loops
      <3>4. Joined(p, a)'
        BY <1>14, <3>3
      <3> QED BY <2>1, <3>4
    <2> QED BY <2>2, <2>3
  <1>18. Loops'
    BY <1>16, <1>17 DEF Loops
  <1> QED BY <1>10, <1>13, <1>18 DEF CodeInv

-----------------------------------------------------------------------------
(* The other steps. *)

(* Code that is not touched goes on to mean what it meant. *)
LEMMA SameCode ==
    ASSUME CodeInv, UNCHANGED compiled,
           status' = "compile" => status = "compile", status' = "run" => status = "run"
    PROVE  Translated' /\ Nested' /\ Loops' /\ Checked'
  <1>1. /\ insns' = insns /\ index' = index /\ code' = code /\ top' = top /\ jumps' = jumps
    BY DEF compiled
  <1>2. ASSUME NEW a \in DOMAIN code
        PROVE  Translates(a)'
    <2>1. Translates(a)
      BY DEF CodeInv, Translated
    <2>2. ASSUME NEW n, Stands(a, n), Continues(a, n)
          PROVE  Stands(a, n)' /\ Continues(a, n)'
      BY <1>1, <2>2 DEF Stands, Continues
    <2> QED BY <1>1, <2>1, <2>2 DEF Translates
  <1>3. Translated'
    BY <1>1, <1>2 DEF CodeInv, Translated
  <1>4. Nested'
    <2>1. ASSUME NEW k, NEW o, OpenAt(o, k)
          PROVE  OpenAt(o, k)'
      BY <1>1, <2>1 DEF OpenAt, Interpreter!Count
    <2>2. ASSUME NEW k \in 1 .. Len(jumps)
          PROVE  OpenAt(jumps[k] - JUMP, k)'
      <3>1. PICK o : o = jumps[k] - JUMP
        OBVIOUS
      <3>2. OpenAt(o, k)'
        BY <2>1, <3>1 DEF CodeInv, Nested
      <3> QED BY <1>1, <3>1, <3>2
    <2> QED BY <1>1, <2>2 DEF CodeInv, Nested
  <1>5. \A i, j : Interpreter!Closes(i, j)' <=> Interpreter!Closes(i, j)
    BY <1>1, SameSource
  <1>6. ASSUME NEW a, NEW b, Joined(a, b)
        PROVE  Joined(a, b)'
    BY <1>1, <1>6, Rejoined DEF Joined
  <1>7. Loops'
    BY <1>1, <1>6 DEF CodeInv, Loops
  <1>8. Checked'
    BY <1>1, <1>5 DEF CodeInv, Checked
  <1> QED BY <1>3, <1>4, <1>7, <1>8

(* A program that is refused. *)
LEMMA RefuseKeeps ==
    ASSUME CodeInv, NEW why \in {"syntax", "memory"}, Refuse(why)
    PROVE  CodeInv'
  <1>1. /\ insns' = insns /\ index' = index /\ code' = code /\ top' = top /\ jumps' = jumps
        /\ pc' = pc /\ r8' = r8 /\ mem' = mem /\ out' = out /\ status' = why
    BY DEF Refuse, machine
  <1>2. Translated' /\ Nested' /\ Loops' /\ Checked'
    BY <1>1, SameCode DEF compiled
  <1>3. TypeOK'
    BY <1>1 DEF CodeInv, TypeOK
  <1>4. Machine'
    BY <1>1 DEF CodeInv, Machine
  <1> QED BY <1>2, <1>3, <1>4 DEF CodeInv

(* A round of the compiler either refuses the program or emits a block. *)
LEMMA CompileDoes ==
    ASSUME CodeInv, Compile
    PROVE  \/ \E why \in {"syntax", "memory"} : Refuse(why)
           \/ /\ Taken("]", 1) /\ jumps # <<>>
              /\ Emitted("]", 1, Dest - top - JUMP, [code EXCEPT ![Dest - JUMP].jump = Patch])
              /\ jumps' = SubSeq(jumps, 1, Len(jumps) - 1)
           \/ /\ Taken("[", 1) /\ Emitted("[", 1, -1, code)
              /\ jumps' = Append(jumps, top + JUMP)
           \/ \E c, n : /\ Taken(c, n) /\ c \notin {"[", "]"}
                        /\ Emitted(c, n, -1, code) /\ jumps' = jumps
  <1> DEFINE c == insns[index]
  <1>1. /\ insns \in Seq(STRING) /\ index \in 1 .. Len(insns) /\ status = "compile"
    BY ProgramsAssumption DEF CodeInv, TypeOK, Compile
  <1>2. CASE c \notin Repeated \cup {READ, ".", "[", "]"} \/ (c = "]" /\ ~Matched)
    <2>1. Refuse("syntax")
      BY <1>2 DEF Compile
    <2> QED BY <2>1
  <1>3. CASE c \in Instruction /\ ~(c = "]" /\ ~Matched)
    <2>1. \A k \in index .. index + 1 - 1 : insns[k] = c
      BY <1>1
    <2>2. CASE c = "]"
      <3>1. Taken("]", 1)
        BY <1>1, <2>1, <2>2 DEF Taken, Instruction
      <3>2. Emit("]", 1, Dest - top - JUMP, [code EXCEPT ![Dest - JUMP].jump = Patch])
        BY <1>3, <2>2 DEF Compile, Instruction
      <3>3. CASE ~Fits(Size("]", 1))
        BY <3>2, <3>3 DEF Emit
      <3>4. CASE Fits(Size("]", 1))
        BY <1>3, <2>2, <3>1, <3>2, <3>4 DEF Emit, Emitted, Matched
      <3> QED BY <3>3, <3>4
    <2>3. CASE c # "]"
      <3>1. Emit(c, Length, -1, code)
        BY <1>3, <2>3 DEF Compile, Instruction
      <3>2. Taken(c, Length) /\ (c = "[" => Length = 1)
        <4>1. CASE c \in Repeated
          <5>1. Length = RunLength /\ c # "["
            BY <4>1 DEF Length, Repeated
          <5>2. /\ RunLength \in 1 .. Len(insns) - index + 1
                /\ \A k \in index .. index + RunLength - 1 : insns[k] = c
            BY <1>1, RunLengthOK
          <5> QED BY <1>1, <1>3, <4>1, <5>1, <5>2 DEF Taken
        <4>2. CASE c \notin Repeated
          BY <1>1, <1>3, <2>1, <4>2 DEF Taken, Length
        <4> QED BY <4>1, <4>2
      <3> HIDE DEF c
      <3>3. CASE ~Fits(Size(c, Length))
        BY <3>1, <3>3 DEF Emit
      <3>4. CASE Fits(Size(c, Length))
        <4>1. Emitted(c, Length, -1, code)
          BY <3>1, <3>4 DEF Emit, Emitted
        <4>2. CASE c = "["
          BY <3>1, <3>2, <3>4, <4>1, <4>2 DEF Emit
        <4>3. CASE c # "["
          <5>1. jumps' = jumps
            BY <2>3, <3>1, <3>4, <4>3 DEF Emit
          <5> QED BY <2>3, <3>2, <4>1, <4>3, <5>1
        <4> QED BY <4>2, <4>3
      <3> QED BY <3>3, <3>4
    <2> QED BY <2>2, <2>3
  <1> QED BY <1>2, <1>3 DEF Instruction

(* compile keeps the invariant. *)
LEMMA CompileKeeps ==
    ASSUME CodeInv, Compile
    PROVE  CodeInv'
  <1>1. CASE \E why \in {"syntax", "memory"} : Refuse(why)
    BY <1>1, RefuseKeeps
  <1>2. CASE /\ Taken("]", 1) /\ jumps # <<>>
             /\ Emitted("]", 1, Dest - top - JUMP, [code EXCEPT ![Dest - JUMP].jump = Patch])
             /\ jumps' = SubSeq(jumps, 1, Len(jumps) - 1)
    <2>1. PICK o, fixed : /\ o = jumps[Len(jumps)] - JUMP
                          /\ fixed = [code EXCEPT ![o].jump = Patch]
      OBVIOUS
    <2>2. Emitted("]", 1, Dest - top - JUMP, fixed)
      BY <1>2, <2>1 DEF Dest
    <2> QED BY <1>2, <2>1, <2>2, CloseKeeps
  <1>3. CASE /\ Taken("[", 1) /\ Emitted("[", 1, -1, code)
             /\ jumps' = Append(jumps, top + JUMP)
    BY <1>3, OpenKeeps
  <1>4. CASE \E c, n : /\ Taken(c, n) /\ c \notin {"[", "]"}
                       /\ Emitted(c, n, -1, code) /\ jumps' = jumps
    BY <1>4, PlainKeeps
  <1> QED BY <1>1, <1>2, <1>3, <1>4, CompileDoes

(* emit_leave completes the code; the machine can start. *)
LEMMA LeaveKeeps ==
    ASSUME CodeInv, Leave
    PROVE  CodeInv'
  <1>1. CASE ~Fits(LEAVE)
    <2>1. Refuse("memory")
      BY <1>1 DEF Leave
    <2> QED BY <2>1, RefuseKeeps
  <1>2. CASE Fits(LEAVE)
    <2>1. /\ insns' = insns /\ index' = index /\ jumps' = jumps /\ top' = top + LEAVE
          /\ pc' = pc /\ r8' = r8 /\ mem' = mem /\ out' = out
          /\ status = "compile" /\ status' = "run" /\ top' <= MaxCode
      BY <1>2 DEF Leave, machine, Fits
    <2>2. /\ top \notin DOMAIN code /\ top \in Int /\ ENTER <= top /\ top < top'
          /\ Len(insns) \in Nat /\ index = Len(insns) + 1
      BY <2>1, ProgramsAssumption DEF CodeInv, TypeOK, ENTER, LEAVE, Leave
    <2>3. /\ DOMAIN code' = DOMAIN code \cup {top}
          /\ \A a \in DOMAIN code : code'[a] = code[a]
          /\ code'[top].op = "leave" /\ code'[top].arg = 0 /\ code'[top].size = LEAVE
          /\ code'[top].src = index /\ code'[top].jump = 0 /\ code'[top] \in Blocks
      <3>1. code' = [a \in DOMAIN code \cup {top} |->
                        IF a = top
                        THEN [op |-> "leave", arg |-> 0, size |-> LEAVE, jump |-> 0,
                              src |-> index]
                        ELSE code[a]]
        BY <1>2 DEF Leave
      <3>2. /\ DOMAIN code' = DOMAIN code \cup {top}
            /\ \A a \in DOMAIN code : code'[a] = code[a]
            /\ code'[top] = [op |-> "leave", arg |-> 0, size |-> LEAVE, jump |-> 0,
                             src |-> index]
        BY <2>2, <3>1
      <3> QED BY <2>2, <3>2 DEF Blocks, Opcode, LEAVE
    <2>4. TypeOK'
      <3>1. top' \in ENTER .. MaxCode
        BY <2>1, <2>2, SizesAssumption DEF ENTER
      <3>2. DOMAIN code' \subseteq ENTER .. top' - 1
        <4>1. ASSUME NEW a \in DOMAIN code'
              PROVE  a \in ENTER .. top' - 1
          <5>1. CASE a = top
            BY <2>1, <2>2, <5>1 DEF ENTER, LEAVE
          <5>2. CASE a \in DOMAIN code
            BY <2>1, <2>2, <5>2, BlockFacts DEF ENTER, LEAVE
          <5> QED BY <2>3, <5>1, <5>2
        <4> QED BY <4>1
      <3>3. ASSUME NEW a \in ENTER .. top' - 1
            PROVE  \E b \in DOMAIN code' : b <= a /\ a < b + code'[b].size
        <4>1. CASE a < top
          <5>1. a \in ENTER .. top - 1
            BY <2>2, <4>1 DEF ENTER
          <5>2. PICK b \in DOMAIN code : b <= a /\ a < b + code[b].size
            BY <5>1 DEF CodeInv, TypeOK
          <5> QED BY <2>3, <5>2
        <4>2. CASE a >= top
          <5>1. top \in DOMAIN code' /\ top <= a /\ a < top + code'[top].size
            BY <2>1, <2>2, <2>3, <4>2 DEF ENTER, LEAVE
          <5> QED BY <5>1
        <4> QED BY <2>2, <4>1, <4>2 DEF ENTER
      <3>4. ASSUME NEW a \in DOMAIN code', NEW b \in DOMAIN code', a < b
            PROVE  a + code'[a].size <= b
        <4>1. CASE a \in DOMAIN code /\ b \in DOMAIN code
          BY <2>3, <3>4, <4>1 DEF CodeInv, TypeOK
        <4>2. CASE a \in DOMAIN code /\ b = top
          BY <2>3, <4>2, BlockFacts
        <4>3. CASE a = top /\ b \in DOMAIN code
          BY <2>2, <3>4, <4>3, BlockFacts
        <4>4. CASE a = top /\ b = top
          BY <2>2, <3>4, <4>4
        <4> QED BY <2>3, <4>1, <4>2, <4>3, <4>4
      <3> QED BY <2>1, <3>1, <3>2, <3>3, <3>4 DEF CodeInv, TypeOK
    <2>5. ASSUME NEW a \in DOMAIN code
          PROVE  Translates(a)'
      <3>1. PICK n \in 1 .. Len(insns) : Stands(a, n) /\ Continues(a, n)
        BY <2>1, BlockFacts
      <3>2. code[a].op \in Instruction
        BY <2>1, BlockFacts
      <3>3. Stands(a, n)'
        BY <2>1, <2>3, <3>1 DEF Stands
      <3>4. Continues(a, n)'
        <4>1. a + code[a].size <= top /\ code'[a] = code[a] /\ a + code[a].size # top'
          <5>1. a + code[a].size <= top /\ a \in Int /\ code[a].size \in Nat
            BY BlockFacts DEF Blocks
          <5> QED BY <2>1, <2>2, <2>3, <5>1 DEF LEAVE
        <4>2. CASE a + code[a].size = top
          BY <2>1, <2>3, <3>1, <4>1, <4>2 DEF Continues
        <4>3. CASE a + code[a].size # top
          BY <2>1, <2>3, <3>1, <4>1, <4>3 DEF Continues
        <4> QED BY <4>2, <4>3
      <3> QED BY <2>1, <2>3, <3>1, <3>2, <3>3, <3>4 DEF Translates, Instruction
    <2>6. ASSUME NEW a, a = top
          PROVE  Translates(a)'
      BY <2>1, <2>2, <2>3, <2>6 DEF Translates
    <2>7. ENTER \in DOMAIN code' /\ code'[ENTER].src = 1 /\ top' # ENTER
      BY <2>2, <2>3 DEF CodeInv, Translated, ENTER
    <2>8. Translated'
      <3>1. \A a \in DOMAIN code : code'[a] \in Blocks
        BY <2>3, BlockFacts
      <3> QED BY <2>3, <2>5, <2>6, <2>7, <3>1 DEF Translated
    <2>9. Nested'
      <3>1. ASSUME NEW k, NEW o, OpenAt(o, k)
            PROVE  OpenAt(o, k)'
        BY <2>1, <2>3, <3>1 DEF OpenAt, Interpreter!Count
      <3>2. ASSUME NEW k \in 1 .. Len(jumps)
            PROVE  OpenAt(jumps[k] - JUMP, k)'
        <4>1. PICK o : o = jumps[k] - JUMP
          OBVIOUS
        <4>2. OpenAt(o, k)'
          BY <3>1, <4>1 DEF CodeInv, Nested
        <4> QED BY <2>1, <4>1, <4>2
      <3> QED BY <2>1, <3>2 DEF CodeInv, Nested
    <2>10. Loops'
      <3>1. ASSUME NEW a, NEW b, Joined(a, b)
            PROVE  Joined(a, b)'
        BY <2>1, <2>3, <3>1, Rejoined DEF Joined
      <3> QED BY <2>1, <2>3, <3>1 DEF CodeInv, Loops
    <2>11. Checked'
      <3>1. \A i, j : Interpreter!Closes(i, j)' <=> Interpreter!Closes(i, j)
        BY <2>1, SameSource
      <3> QED BY <2>1, <3>1 DEF CodeInv, Checked
    <2>12. Machine'
      BY <2>1, <2>2, <2>7 DEF CodeInv, Machine
    <2> QED BY <2>4, <2>8, <2>9, <2>10, <2>11, <2>12 DEF CodeInv
  <1> QED BY <1>1, <1>2

(* The code runs: whatever the machine does, it stays on the tape and among the blocks. *)
LEMMA RunKeeps ==
    ASSUME CodeInv, Run
    PROVE  CodeInv'
  <1>1. /\ status = "run" /\ UNCHANGED compiled /\ pc \in DOMAIN code
        /\ index = Len(insns) + 1
    BY DEF Run, Move, Add, Input, Output, Jump, Return, At, CodeInv, Machine
  <1>2. code[pc] \in Blocks
    BY <1>1, BlockFacts
  <1>3. \/ status' = "run" /\ pc' \in DOMAIN code
        \/ status' \in {"done", "trap", "wild"}
    BY <1>1 DEF Run, Move, Add, Input, Output, Jump, Return, Goto
  <1>4. r8 \in 0 .. Tape - 1 /\ r8' \in 0 .. Tape - 1
    <2>1. r8 \in 0 .. Tape - 1
      BY DEF CodeInv, Machine
    <2> QED BY <2>1 DEF Run, Move, Add, Input, Output, Jump, Return, InTape
  <1>5. /\ mem' \in [0 .. Tape - 1 -> 0 .. Cells - 1] /\ out' \in 0 .. Cells - 1
    <2>1. mem \in [0 .. Tape - 1 -> 0 .. Cells - 1] /\ out \in 0 .. Cells - 1
      BY DEF CodeInv, TypeOK
    <2>2. mem[r8] \in 0 .. Cells - 1
      BY <1>4, <2>1
    <2>3. ASSUME NEW d \in {-1, 1}
          PROVE  (mem[r8] + d * code[pc].arg) % Cells \in 0 .. Cells - 1
      <3>1. mem[r8] + d * code[pc].arg \in Int
        BY <1>2, <2>2 DEF Blocks
      <3> QED BY <3>1, DivMod, SizesAssumption
    <2>4. CASE Add("+", 1) \/ Add("-", -1)
      BY <1>4, <2>1, <2>3, <2>4 DEF Add
    <2>5. CASE Input
      BY <1>4, <2>1, <2>5 DEF Input
    <2>6. CASE Output
      BY <2>1, <2>2, <2>6 DEF Output
    <2>7. CASE Move("<", -1) \/ Move(">", 1)
      BY <2>1, <2>7 DEF Move
    <2>8. CASE Jump("[", TRUE) \/ Jump("]", FALSE) \/ Return
      BY <2>1, <2>8 DEF Jump, Return
    <2> QED BY <2>4, <2>5, <2>6, <2>7, <2>8 DEF Run
  <1>6. Translated' /\ Nested' /\ Loops' /\ Checked'
    BY <1>1, <1>3, SameCode
  <1>7. TypeOK'
    BY <1>1, <1>3, <1>5 DEF CodeInv, TypeOK, compiled
  <1>8. Machine'
    BY <1>1, <1>3, <1>4 DEF Machine, compiled
  <1> QED BY <1>6, <1>7, <1>8 DEF CodeInv

-----------------------------------------------------------------------------
(* The theorems. *)

(* Before the first instruction there is nothing to be wrong about. *)
LEMMA InitCode == Init => CodeInv
  <1> SUFFICES ASSUME Init PROVE CodeInv
    OBVIOUS
  <1>1. DOMAIN code = {} /\ jumps = <<>> /\ Len(jumps) = 0 /\ insns \in Seq(STRING)
    BY ProgramsAssumption DEF Init
  <1>2. TypeOK
    BY <1>1, SizesAssumption DEF Init, TypeOK, ENTER
  <1>3. Translated /\ Nested /\ Loops /\ Checked
    BY <1>1 DEF Init, Translated, Nested, Loops, Checked
  <1>4. Machine
    BY SizesAssumption DEF Init, Machine
  <1> QED BY <1>2, <1>3, <1>4 DEF CodeInv

(* A step keeps it. *)
LEMMA StepCode == CodeInv /\ [Next]_vars => CodeInv'
  <1> SUFFICES ASSUME CodeInv, [Next]_vars PROVE CodeInv'
    OBVIOUS
  <1>1. CASE UNCHANGED vars
    <2>1. UNCHANGED compiled /\ status' = status
      BY <1>1 DEF vars, compiled
    <2>2. Translated' /\ Nested' /\ Loops' /\ Checked'
      BY <2>1, SameCode
    <2>3. TypeOK' /\ Machine'
      BY <1>1 DEF CodeInv, TypeOK, Machine, vars
    <2> QED BY <2>2, <2>3 DEF CodeInv
  <1>2. CASE Compile
    BY <1>2, CompileKeeps
  <1>3. CASE Leave
    BY <1>3, LeaveKeeps
  <1>4. CASE Run
    BY <1>4, RunKeeps
  <1> QED BY <1>1, <1>2, <1>3, <1>4 DEF Next

(* However long the program, the tape and the code buffer are, every block stands for a  *)
(* run of the source's instructions and is followed by the block for the next; the stack *)
(* holds exactly the "[" that are still open; and the machine is always at a block.      *)
THEOREM CodeInvariant == Spec => []CodeInv
  <1>1. Init => CodeInv
    BY InitCode
  <1>2. CodeInv /\ [Next]_vars => CodeInv'
    BY StepCode
  <1> QED BY <1>1, <1>2, PTL DEF Spec

(* Every "]" jumps behind the "[" whose jump was patched to lead behind that "]".        *)
THEOREM LoopsPaired == Spec => []Paired
  <1>1. ASSUME CodeInv, NEW a \in DOMAIN code, code[a].op = "]"
        PROVE  LET o == a + code[a].jump IN
               /\ o \in DOMAIN code /\ code[o].op = "["
               /\ o + JUMP + code[o].jump = a + JUMP
    <2>1. PICK o : o = a + code[a].jump
      OBVIOUS
    <2>2. Joined(o, a)
      BY <1>1, <2>1 DEF CodeInv, Loops
    <2>3. o \in Int /\ a \in Int
      BY <1>1, <2>2, BlockFacts DEF Joined
    <2>4. o + JUMP + code[o].jump = a + JUMP
      BY <2>2, <2>3 DEF Joined, JUMP
    <2> QED BY <2>1, <2>2, <2>4 DEF Joined
  <1>2. CodeInv => Paired
    BY <1>1 DEF Paired
  <1> QED BY <1>2, CodeInvariant, PTL

-----------------------------------------------------------------------------
(* The interpreter makes the same steps. *)

(* The block that is executed stands for the n instructions from Position on; the code   *)
(* behind it for those that follow.                                                      *)
LEMMA Executed ==
    ASSUME CodeInv, status = "run", NEW a \in DOMAIN code, code[a].op # "leave"
    PROVE  \E n \in 1 .. Len(insns) :
              /\ Stands(a, n)
              /\ a + code[a].size \in DOMAIN code
              /\ code[a + code[a].size].src = code[a].src + n
              /\ code[a].src \in 1 .. Len(insns) /\ code[a].src + n - 1 <= Len(insns)
              /\ \A k \in code[a].src .. code[a].src + n - 1 : insns[k] = code[a].op
  <1>1. PICK n \in 1 .. Len(insns) : Stands(a, n) /\ Continues(a, n)
    BY BlockFacts
  <1>2. code[a].src \in Nat \ {0}
    BY BlockFacts DEF Blocks
  <1>3. index = Len(insns) + 1 /\ index \in Nat /\ Len(insns) \in Nat
    BY DEF CodeInv, Machine, TypeOK
  <1>4. a + code[a].size \in DOMAIN code /\ code[a + code[a].size].src = code[a].src + n
    BY <1>1 DEF Continues
  <1>5. code[a].src + n <= Len(insns) + 1
    BY <1>1, <1>3 DEF Stands
  <1>6. code[a].src \in 1 .. Len(insns) /\ code[a].src + n - 1 <= Len(insns)
    BY <1>2, <1>3, <1>5
  <1> QED BY <1>1, <1>4, <1>6 DEF Stands

(* A bracket stands for itself alone, and its block has JUMP bytes. *)
LEMMA ExecutedBracket ==
    ASSUME CodeInv, status = "run", NEW a \in DOMAIN code, code[a].op \in {"[", "]"}
    PROVE  /\ code[a].size = JUMP /\ a + JUMP \in DOMAIN code
           /\ code[a + JUMP].src = code[a].src + 1
           /\ code[a].src \in 1 .. Len(insns) /\ insns[code[a].src] = code[a].op
  <1>1. PICK n \in 1 .. Len(insns) :
              /\ Stands(a, n)
              /\ a + code[a].size \in DOMAIN code
              /\ code[a + code[a].size].src = code[a].src + n
              /\ code[a].src \in 1 .. Len(insns)
              /\ \A k \in code[a].src .. code[a].src + n - 1 : insns[k] = code[a].op
    BY Executed
  <1>2. n = 1 /\ code[a].size = Size(code[a].op, 1)
    BY <1>1 DEF Stands, Repeated
  <1>3. Size(code[a].op, 1) = JUMP
    <2>1. code[a].op \in Instruction /\ 1 \in Nat \ {0}
      BY DEF Instruction
    <2> QED BY <2>1, SizeFacts
  <1>4. code[a].src \in code[a].src .. code[a].src + n - 1
    BY <1>1, <1>2
  <1> QED BY <1>1, <1>2, <1>3, <1>4

(* Phase and Position while the code is made, and when it runs. *)
LEMMA Shadow ==
    /\ status = "compile" => Phase = "idle" /\ Position = 1
    /\ status \in {"syntax", "memory"} => Phase = "refused" /\ Position = 1
    /\ status \in {"run", "done", "trap", "wild"} => Phase = status /\ Position = code[pc].src
  BY DEF Phase, Position

(* The compiler's rounds are the interpreter's waiting, or its refusal. *)
LEMMA CompileShadow ==
    ASSUME CodeInv, Compile
    PROVE  Interpreter!Refuse \/ UNCHANGED Interpreter!vars
  <1>1. status = "compile"
    BY DEF Compile
  <1>2. ASSUME NEW why \in {"syntax", "memory"}, Refuse(why)
        PROVE  Interpreter!Refuse
    <2>1. status' = why /\ insns' = insns /\ mem' = mem /\ r8' = r8 /\ out' = out
      BY <1>2 DEF Refuse, machine
    <2>2. Phase = "idle" /\ Position = 1 /\ Phase' = "refused" /\ Position' = 1
      BY <1>1, <2>1 DEF Phase, Position
    <2> QED BY <2>1, <2>2 DEF Interpreter!Refuse
  <1>3. ASSUME NEW c, NEW n, NEW jump, NEW fixed, Emitted(c, n, jump, fixed)
        PROVE  UNCHANGED Interpreter!vars
    <2>1. status' = status /\ insns' = insns /\ mem' = mem /\ r8' = r8 /\ out' = out
      BY <1>3 DEF Emitted, machine
    <2>2. Phase' = Phase /\ Position' = Position
      BY <1>1, <2>1 DEF Phase, Position
    <2> QED BY <2>1, <2>2 DEF Interpreter!vars
  <1> QED BY <1>2, <1>3, CompileDoes

(* What has been compiled to its end is a legal program. *)
LEMMA LegalSource ==
    ASSUME CodeInv, Leave
    PROVE  Interpreter!Legal
  <1>1. Len(insns) \in Nat /\ index = Len(insns) + 1
    BY ProgramsAssumption DEF CodeInv, TypeOK, Leave
  <1>2. 1 .. index - 1 = 1 .. Len(insns)
    BY <1>1
  <1>3. \A j \in 1 .. Len(insns) :
            /\ insns[j] \in Repeated \cup {READ, ".", "[", "]"}
            /\ insns[j] = "]" => \E i \in 1 .. j : Interpreter!Closes(i, j)
    BY <1>2, Zenon DEF CodeInv, Checked
  <1> QED BY <1>3, ReadIsOther DEF Interpreter!Legal, Repeated

(* When the code is complete the interpreter starts: the program is legal. *)
LEMMA LeaveShadow ==
    ASSUME CodeInv, Leave
    PROVE  Interpreter!Refuse \/ Interpreter!Start
  <1>1. status = "compile" /\ Phase = "idle" /\ Position = 1
    BY Shadow DEF Leave
  <1>2. CASE ~Fits(LEAVE)
    <2>1. status' = "memory" /\ insns' = insns /\ mem' = mem /\ r8' = r8 /\ out' = out
      BY <1>2 DEF Leave, Refuse, machine
    <2>2. Phase' = "refused" /\ Position' = 1
      BY <2>1 DEF Phase, Position
    <2> QED BY <1>1, <2>1, <2>2 DEF Interpreter!Refuse
  <1>3. CASE Fits(LEAVE)
    <2>1. /\ insns' = insns /\ top' = top + LEAVE /\ pc' = pc
          /\ r8' = r8 /\ mem' = mem /\ out' = out /\ status' = "run"
      BY <1>3 DEF Leave, machine
    <2>2. pc = ENTER /\ top \in Int /\ ENTER <= top
      BY <1>1 DEF CodeInv, Machine, TypeOK, ENTER
    <2>3. CodeInv'
      BY LeaveKeeps
    <2>4. code'[pc'].src = 1
      BY <2>1, <2>2, <2>3 DEF CodeInv, Translated, LEAVE, ENTER
    <2>5. Phase' = "run" /\ Position' = 1
      BY <2>1, <2>4 DEF Phase, Position
    <2>6. Interpreter!Legal
      BY LegalSource
    <2> QED BY <1>1, <2>1, <2>5, <2>6 DEF Interpreter!Start
  <1> QED BY <1>2, <1>3

\* What holds in every step of the machine that is not its last.
Going ==
    /\ CodeInv /\ status = "run" /\ pc \in DOMAIN code
    /\ UNCHANGED compiled
    /\ Phase = "run" /\ Position = code[pc].src /\ code[pc] \in Blocks
    /\ r8 \in 0 .. Tape - 1 /\ mem \in [0 .. Tape - 1 -> 0 .. Cells - 1]

(* A step starts at a block. *)
LEMMA GoingOn ==
    ASSUME CodeInv, NEW c, At(c)
    PROVE  Going /\ code[pc].op = c
  <1>1. status = "run" /\ pc \in DOMAIN code /\ UNCHANGED compiled
    BY DEF CodeInv, Machine, At
  <1>2. Phase = "run" /\ Position = code[pc].src /\ code[pc] \in Blocks
    BY <1>1, Shadow, BlockFacts
  <1>3. r8 \in 0 .. Tape - 1 /\ mem \in [0 .. Tape - 1 -> 0 .. Cells - 1]
    BY DEF CodeInv, Machine, TypeOK
  <1> QED BY <1>1, <1>2, <1>3 DEF At, Going

(* Where a jump to a block leads in the source. *)
LEMMA GotoShadow ==
    ASSUME Going, NEW a \in DOMAIN code, Goto(a)
    PROVE  Interpreter!Goto(code[a].src)
  <1>1. pc' = a /\ status' = "run" /\ code' = code
    BY DEF Going, compiled, Goto
  <1>2. Phase' = "run" /\ Position' = code[a].src
    BY <1>1 DEF Phase, Position
  <1> QED BY <1>2 DEF Interpreter!Goto, Going

(* Elsewhere it ends. *)
LEMMA WildShadow ==
    ASSUME Going, NEW a, a \notin DOMAIN code, Goto(a)
    PROVE  Phase' = "wild" /\ Position' = Position
  <1>1. pc' = pc /\ status' = "wild" /\ code' = code
    BY DEF Going, compiled, Goto
  <1> QED BY <1>1 DEF Phase, Position, Going

(* < and > move by the length of the run, or trap. *)
LEMMA MoveShadow ==
    ASSUME CodeInv, NEW c \in {"<", ">"}, NEW d \in {-1, 1}, Move(c, d)
    PROVE  Interpreter!Move(c, d)
  <1>1. Going /\ code[pc].op = c
    BY GoingOn DEF Move
  <1>2. PICK n \in 1 .. Len(insns) :
              /\ Stands(pc, n)
              /\ After \in DOMAIN code
              /\ code[After].src = code[pc].src + n
              /\ code[pc].src + n - 1 <= Len(insns)
              /\ \A k \in code[pc].src .. code[pc].src + n - 1 : insns[k] = c
    BY <1>1, Executed DEF Going, After
  <1>3. code[pc].arg = n
    BY <1>1, <1>2 DEF Stands, Operand
  <1>4. Interpreter!Run(c, n)
    BY <1>1, <1>2 DEF Interpreter!Run, Going, compiled
  <1>5. CASE r8 + d * n \in 0 .. Tape - 1
    <2>1. r8' = r8 + d * n /\ Goto(After) /\ mem' = mem /\ out' = out
      BY <1>3, <1>5 DEF Move, InTape
    <2>2. Interpreter!Goto(Position + n)
      BY <1>1, <1>2, <2>1, GotoShadow DEF Going
    <2> QED BY <1>4, <1>5, <2>1, <2>2 DEF Interpreter!Move
  <1>6. CASE r8 + d * n \notin 0 .. Tape - 1
    <2>1. status' = "trap" /\ pc' = pc /\ r8' = r8 /\ mem' = mem /\ out' = out
      BY <1>3, <1>6 DEF Move, InTape
    <2>2. Phase' = "trap" /\ Position' = Position
      BY <1>1, <2>1 DEF Phase, Position, Going, compiled
    <2> QED BY <1>4, <1>6, <2>1, <2>2 DEF Interpreter!Move
  <1> QED BY <1>5, <1>6

(* + and - count in bytes; that the operand is a byte, too, makes no difference. *)
LEMMA AddShadow ==
    ASSUME CodeInv, NEW c \in {"+", "-"}, NEW d \in {-1, 1}, Add(c, d)
    PROVE  Interpreter!Add(c, d)
  <1>1. Going /\ code[pc].op = c
    BY GoingOn DEF Add
  <1>2. PICK n \in 1 .. Len(insns) :
              /\ Stands(pc, n)
              /\ After \in DOMAIN code
              /\ code[After].src = code[pc].src + n
              /\ code[pc].src + n - 1 <= Len(insns)
              /\ \A k \in code[pc].src .. code[pc].src + n - 1 : insns[k] = c
    BY <1>1, Executed DEF Going, After
  <1>3. code[pc].arg = n % Cells
    BY <1>1, <1>2 DEF Stands, Operand
  <1>4. Interpreter!Run(c, n)
    BY <1>1, <1>2 DEF Interpreter!Run, Going, compiled
  <1>5. (mem[r8] + d * code[pc].arg) % Cells = (mem[r8] + d * n) % Cells
    <2>1. PICK m, q, r : m = mem[r8] /\ q = n \div Cells /\ r = n % Cells
      OBVIOUS
    <2>2. n = Cells * q + r /\ q \in Int /\ r \in Int /\ m \in Int /\ Cells \in Nat
      BY <1>1, <2>1, DivMod, SizesAssumption DEF Going
    <2>3. m + d * n = (m + d * r) + Cells * (d * q)
      <3>1. CASE d = 1
        BY <2>2, <3>1
      <3>2. CASE d = -1
        BY <2>2, <3>2
      <3> QED BY <3>1, <3>2
    <2>4. m + d * r \in Int /\ d * q \in Int /\ Cells \in Nat /\ Cells >= 1
      BY <2>2, SizesAssumption
    <2>5. (m + d * n) % Cells = (m + d * r) % Cells
      <3>1. PICK y, k : y = m + d * r /\ k = d * q
        OBVIOUS
      <3>2. (y + Cells * k) % Cells = y % Cells
        BY <2>4, <3>1, Wraps
      <3> QED BY <2>3, <3>1, <3>2
    <2> QED BY <1>3, <2>1, <2>5
  <1>6. mem' = [mem EXCEPT ![r8] = (@ + d * n) % Cells]
    BY <1>1, <1>5 DEF Add, Going
  <1>7. Interpreter!Goto(Position + n) /\ r8' = r8 /\ out' = out
    BY <1>1, <1>2, GotoShadow DEF Add, Going
  <1> QED BY <1>4, <1>6, <1>7 DEF Interpreter!Add

(* "," and "." are single instructions. *)
LEMMA SingleShadow ==
    ASSUME CodeInv, Input \/ Output
    PROVE  Interpreter!Input \/ Interpreter!Output
  <1> DEFINE c == code[pc].op
  <1>1. Going /\ c \in {READ, "."}
    BY GoingOn DEF Input, Output
  <1>2. PICK n \in 1 .. Len(insns) :
              /\ Stands(pc, n)
              /\ After \in DOMAIN code
              /\ code[After].src = code[pc].src + n
              /\ code[pc].src + n - 1 <= Len(insns)
              /\ \A k \in code[pc].src .. code[pc].src + n - 1 : insns[k] = c
    BY <1>1, ReadIsOther, Executed DEF Going, After
  <1>3. n = 1
    BY <1>1, <1>2, ReadIsOther DEF Stands, Repeated
  <1>4. Interpreter!Run(c, 1)
    BY <1>1, <1>2, <1>3 DEF Interpreter!Run, Going, compiled
  <1>5. Goto(After)
    BY DEF Input, Output
  <1>6. Interpreter!Goto(Position + 1)
    BY <1>1, <1>2, <1>3, <1>5, GotoShadow DEF Going
  <1>7. CASE Input
    <2>1. c = Interpreter!READ
      BY <1>7, ReadIsOther DEF Input, At
    <2> QED BY <1>4, <1>6, <1>7, <2>1 DEF Input, Interpreter!Input
  <1>8. CASE Output
    <2>1. c = "."
      BY <1>8 DEF Output, At
    <2> QED BY <1>4, <1>6, <1>8, <2>1 DEF Output, Interpreter!Output
  <1> QED BY <1>7, <1>8

(* A "[" that is never closed has no "]". *)
LEMMA NeverClosed ==
    ASSUME CodeInv, status = "run", NEW o, NEW k, OpenAt(o, k)
    PROVE  ~\E j \in 1 .. Len(insns) : Interpreter!Closes(code[o].src, j)
  <1> SUFFICES ASSUME NEW j \in 1 .. Len(insns), Interpreter!Closes(code[o].src, j)
               PROVE  FALSE
    OBVIOUS
  <1>1. /\ index = Len(insns) + 1 /\ Len(insns) \in Nat
        /\ o \in DOMAIN code
    BY ProgramsAssumption DEF CodeInv, Machine, TypeOK, OpenAt
  <1>2. code[o].src \in Nat
    BY <1>1, BlockFacts DEF Blocks
  <1>3. j \in code[o].src .. index - 1
    BY <1>1, <1>2 DEF Interpreter!Closes
  <1>4. Interpreter!Count("[", code[o].src, j) > Interpreter!Count("]", code[o].src, j)
    BY <1>3 DEF OpenAt
  <1>5. Interpreter!Count("[", code[o].src, j) = Interpreter!Count("]", code[o].src, j)
    BY DEF Interpreter!Closes
  <1>6. Interpreter!Count("]", code[o].src, j) \in Nat
    BY <1>2, CountType
  <1> QED BY <1>4, <1>5, <1>6

(* There is no block inside another one. *)
LEMMA NothingInside ==
    ASSUME CodeInv, NEW a \in DOMAIN code, NEW b \in Int, a < b, b < a + code[a].size
    PROVE  b \notin DOMAIN code
  <1> SUFFICES ASSUME b \in DOMAIN code PROVE FALSE
    OBVIOUS
  <1>1. a + code[a].size <= b
    BY DEF CodeInv, TypeOK
  <1>2. a \in Int /\ code[a].size \in Int
    BY BlockFacts DEF Blocks
  <1> QED BY <1>1, <1>2

(* The jump of a "[": into the loop, behind its "]", or, without one, nowhere. *)
LEMMA OpenShadow ==
    ASSUME CodeInv, Jump("[", TRUE)
    PROVE  Interpreter!Open
  <1>1. Going /\ code[pc].op = "["
    BY GoingOn DEF Jump
  <1>2. /\ code[pc].size = JUMP /\ After = pc + JUMP /\ After \in DOMAIN code
        /\ code[After].src = Position + 1
        /\ Position \in 1 .. Len(insns) /\ insns[Position] = "["
    BY <1>1, ExecutedBracket DEF Going, After
  <1>3. Interpreter!Run("[", 1)
    <2>1. Position + 1 - 1 <= Len(insns) /\ \A k \in Position .. Position + 1 - 1 : k = Position
      BY <1>2
    <2> QED BY <1>1, <1>2, <2>1 DEF Interpreter!Run, Going, compiled
  <1>4. r8' = r8 /\ mem' = mem /\ out' = out
    BY DEF Jump
  <1>5. CASE mem[r8] # 0
    <2>1. Goto(After)
      BY <1>5 DEF Jump
    <2>2. Interpreter!Goto(Position + 1)
      BY <1>1, <1>2, <2>1, GotoShadow
    <2> QED BY <1>3, <1>4, <1>5, <2>2 DEF Interpreter!Open
  <1>6. CASE mem[r8] = 0
    <2>1. Goto(After + code[pc].jump)
      BY <1>6 DEF Jump
    <2>2. pc \in Int
      BY <1>1, BlockFacts DEF Going
    <2>3. ASSUME NEW k \in 1 .. Len(jumps), jumps[k] = pc + JUMP
          PROVE  Interpreter!Open
      <3>1. OpenAt(pc, k)
        <4>1. OpenAt(jumps[k] - JUMP, k)
          BY DEF CodeInv, Nested
        <4>2. jumps[k] - JUMP = pc
          BY <2>2, <2>3 DEF JUMP
        <4> QED BY <4>1, <4>2, Zenon
      <3>2. code[pc].jump = -1
        BY <3>1 DEF OpenAt
      <3>3. pc + 12 \notin DOMAIN code
        <4>1. CodeInv /\ pc \in DOMAIN code
          BY <1>1 DEF Going
        <4>2. pc + 12 \in Int /\ pc < pc + 12 /\ pc + 12 < pc + code[pc].size
          BY <1>2, <2>2 DEF JUMP
        <4> QED BY <4>1, <4>2, NothingInside
      <3>4. After + code[pc].jump = pc + 12
        BY <1>2, <2>2, <3>2 DEF JUMP
      <3>5. Phase' = "wild" /\ Position' = Position
        BY <1>1, <2>1, <3>3, <3>4, WildShadow
      <3>6. ~\E j \in 1 .. Len(insns) : Interpreter!Closes(Position, j)
        BY <1>1, <3>1, NeverClosed DEF Going
      <3> QED BY <1>3, <1>4, <1>6, <3>5, <3>6 DEF Interpreter!Open
    <2>4. ASSUME NEW b \in DOMAIN code, Joined(pc, b)
          PROVE  Interpreter!Open
      <3>1. code[b].op = "]" /\ Interpreter!Closes(Position, code[b].src)
        BY <1>1, <2>4 DEF Joined, Going
      <3>2. /\ b + JUMP \in DOMAIN code /\ code[b + JUMP].src = code[b].src + 1
            /\ code[b].src \in 1 .. Len(insns)
        BY <1>1, <3>1, ExecutedBracket DEF Going
      <3>3. After + code[pc].jump = b + JUMP
        <4>1. b \in Int
          BY BlockFacts
        <4> QED BY <1>2, <2>2, <2>4, <4>1 DEF Joined, JUMP
      <3>4. Interpreter!Goto(code[b].src + 1)
        BY <1>1, <2>1, <3>2, <3>3, GotoShadow
      <3> QED BY <1>3, <1>4, <1>6, <3>1, <3>2, <3>4 DEF Interpreter!Open
    <2> QED BY <1>1, <2>3, <2>4 DEF Going, CodeInv, Loops
  <1> QED BY <1>5, <1>6

(* The jump of a "]": out of the loop, or behind its "[". *)
LEMMA CloseShadow ==
    ASSUME CodeInv, Jump("]", FALSE)
    PROVE  Interpreter!Close
  <1>1. Going /\ code[pc].op = "]"
    BY GoingOn DEF Jump
  <1>2. /\ code[pc].size = JUMP /\ After = pc + JUMP /\ After \in DOMAIN code
        /\ code[After].src = Position + 1
        /\ Position \in 1 .. Len(insns) /\ insns[Position] = "]"
    BY <1>1, ExecutedBracket DEF Going, After
  <1>3. Interpreter!Run("]", 1)
    <2>1. Position + 1 - 1 <= Len(insns) /\ \A k \in Position .. Position + 1 - 1 : k = Position
      BY <1>2
    <2> QED BY <1>1, <1>2, <2>1 DEF Interpreter!Run, Going, compiled
  <1>4. r8' = r8 /\ mem' = mem /\ out' = out
    BY DEF Jump
  <1>5. CASE mem[r8] = 0
    <2>1. Goto(After)
      BY <1>5 DEF Jump
    <2>2. Interpreter!Goto(Position + 1)
      BY <1>1, <1>2, <2>1, GotoShadow
    <2> QED BY <1>3, <1>4, <1>5, <2>2 DEF Interpreter!Close
  <1>6. CASE mem[r8] # 0
    <2>1. Goto(After + code[pc].jump)
      BY <1>6 DEF Jump
    <2>2. PICK o : o = pc + code[pc].jump
      OBVIOUS
    <2>3. Joined(o, pc)
      BY <1>1, <2>2 DEF Going, CodeInv, Loops
    <2>4. o \in DOMAIN code /\ code[o].op = "[" /\ Interpreter!Closes(code[o].src, Position)
      BY <1>1, <2>3 DEF Joined, Going
    <2>5. /\ o + JUMP \in DOMAIN code /\ code[o + JUMP].src = code[o].src + 1
          /\ code[o].src \in 1 .. Len(insns)
      BY <1>1, <2>4, ExecutedBracket DEF Going
    <2>6. code[o].src \in 1 .. Position
      BY <1>2, <2>4, <2>5 DEF Interpreter!Closes
    <2>7. After + code[pc].jump = o + JUMP
      <3>1. pc \in Int /\ o \in Int
        BY <1>1, <2>4, BlockFacts DEF Going
      <3>2. code[pc].jump \in Int
        BY <1>1 DEF Going, Blocks
      <3>3. After + code[pc].jump = pc + JUMP + code[pc].jump
        BY <1>2
      <3> QED BY <2>2, <3>1, <3>2, <3>3 DEF JUMP
    <2>8. Interpreter!Goto(code[o].src + 1)
      BY <1>1, <2>1, <2>5, <2>7, GotoShadow
    <2> QED BY <1>3, <1>4, <1>6, <2>4, <2>6, <2>8 DEF Interpreter!Close
  <1> QED BY <1>5, <1>6

(* The code ends behind the last instruction. *)
LEMMA ReturnShadow ==
    ASSUME CodeInv, Return
    PROVE  Interpreter!End
  <1>1. Going /\ code[pc].op = "leave"
    BY GoingOn DEF Return
  <1>2. code[pc].src = Len(insns) + 1
    <2>1. "leave" \notin Instruction
      BY ReadIsOther DEF Instruction, Repeated
    <2> QED BY <1>1, <2>1, BlockFacts DEF Going
  <1>3. status' = "done" /\ pc' = pc /\ r8' = r8 /\ mem' = mem /\ out' = out
    BY DEF Return
  <1>4. Phase' = "done" /\ Position' = Position
    BY <1>1, <1>3 DEF Phase, Position, Going, compiled
  <1> QED BY <1>1, <1>2, <1>3, <1>4 DEF Going, compiled, Interpreter!End

(* For every program and every size of the tape and of the buffer, the compiled code     *)
(* does what the interpreter does with the source, and what it does not compile the      *)
(* interpreter may refuse.                                                               *)
THEOREM Simulates == Spec => InterpreterSpec
  <1>1. Init => Interpreter!Init
    <2>1. Init => Phase = "idle" /\ Position = 1
      BY DEF Init, Phase, Position
    <2> QED BY <2>1 DEF Init, Interpreter!Init
  <1>2. ASSUME CodeInv, [Next]_vars
        PROVE  [Interpreter!Next]_Interpreter!vars
    <2>1. CASE UNCHANGED vars
      <3>1. Phase' = Phase /\ Position' = Position
        BY <2>1 DEF vars, Phase, Position
      <3> QED BY <2>1, <3>1 DEF vars, Interpreter!vars
    <2>2. CASE Compile
      <3>1. Interpreter!Refuse \/ UNCHANGED Interpreter!vars
        BY <1>2, <2>2, CompileShadow
      <3> QED BY <3>1 DEF Interpreter!Next
    <2>3. CASE Leave
      <3>1. Interpreter!Refuse \/ Interpreter!Start
        BY <1>2, <2>3, LeaveShadow
      <3> QED BY <3>1 DEF Interpreter!Next
    <2>4. CASE Run
      <3>1. CASE Move("<", -1)
        <4>1. Interpreter!Move("<", -1)
          BY <1>2, <3>1, MoveShadow
        <4> QED BY <4>1 DEF Interpreter!Next
      <3>2. CASE Move(">", 1)
        <4>1. Interpreter!Move(">", 1)
          BY <1>2, <3>2, MoveShadow
        <4> QED BY <4>1 DEF Interpreter!Next
      <3>3. CASE Add("+", 1)
        <4>1. Interpreter!Add("+", 1)
          BY <1>2, <3>3, AddShadow
        <4> QED BY <4>1 DEF Interpreter!Next
      <3>4. CASE Add("-", -1)
        <4>1. Interpreter!Add("-", -1)
          BY <1>2, <3>4, AddShadow
        <4> QED BY <4>1 DEF Interpreter!Next
      <3>5. CASE Input \/ Output
        <4>1. Interpreter!Input \/ Interpreter!Output
          BY <1>2, <3>5, SingleShadow
        <4> QED BY <4>1 DEF Interpreter!Next
      <3>6. CASE Jump("[", TRUE)
        <4>1. Interpreter!Open
          BY <1>2, <3>6, OpenShadow
        <4> QED BY <4>1 DEF Interpreter!Next
      <3>7. CASE Jump("]", FALSE)
        <4>1. Interpreter!Close
          BY <1>2, <3>7, CloseShadow
        <4> QED BY <4>1 DEF Interpreter!Next
      <3>8. CASE Return
        <4>1. Interpreter!End
          BY <1>2, <3>8, ReturnShadow
        <4> QED BY <4>1 DEF Interpreter!Next
      <3> QED BY <2>4, <3>1, <3>2, <3>3, <3>4, <3>5, <3>6, <3>7, <3>8 DEF Run
    <2> QED BY <1>2, <2>1, <2>2, <2>3, <2>4 DEF Next
  <1> QED BY <1>1, <1>2, CodeInvariant, PTL DEF Spec, InterpreterSpec, Interpreter!Spec

-----------------------------------------------------------------------------
(* What brackets mean, and that one pass with a stack finds it out. *)

(* A "[" is closed by one "]" only: between two of them the count would have come out *)
(* even too early.                                                                      *)
LEMMA ClosedOnce ==
    ASSUME NEW i \in Int, NEW j \in Int, NEW k \in Int,
           Interpreter!Closes(i, j), Interpreter!Closes(i, k)
    PROVE  ~(j < k)
  <1> SUFFICES ASSUME j < k
               PROVE  FALSE
    OBVIOUS
  <1>1. j \in i .. k - 1
    BY DEF Interpreter!Closes
  <1>2. Interpreter!Count("[", i, j) > Interpreter!Count("]", i, j)
    BY <1>1 DEF Interpreter!Closes
  <1>3. Interpreter!Count("[", i, j) = Interpreter!Count("]", i, j)
    BY DEF Interpreter!Closes
  <1>4. Interpreter!Count("]", i, j) \in Nat
    BY CountType
  <1> QED BY <1>2, <1>3, <1>4

\* Every "[" compiled so far is on the stack or closed.
Accounted(i) ==
    \/ \E k \in 1 .. Len(jumps) : code[jumps[k] - JUMP].src = i
    \/ \E j \in 1 .. index - 1 : Interpreter!Closes(i, j)

Sources == \A i \in 1 .. index - 1 : insns[i] = "[" => Accounted(i)

(* What was closed stays so, and what was open stays on the stack, unless it is popped. *)
LEMMA AccountedStays ==
    ASSUME CodeInv, insns' = insns, index' \in Int, index <= index',
           NEW i, Accounted(i), NEW l \in Nat, l <= Len(jumps), l <= Len(jumps'),
           \A k \in 1 .. l : jumps'[k] = jumps[k],
           \A a \in DOMAIN code : a \in DOMAIN code' /\ code'[a].src = code[a].src,
           \A k \in 1 .. Len(jumps) : k > l =>
               \E j \in 1 .. index' - 1 : Interpreter!Closes(code[jumps[k] - JUMP].src, j)
    PROVE  Accounted(i)'
  <1>1. \A m, j : Interpreter!Closes(m, j)' <=> Interpreter!Closes(m, j)
    BY SameSource
  <1>2. index \in Int /\ Len(jumps) \in Nat
    BY DEF CodeInv, TypeOK, Nested
  <1>3. ASSUME NEW j \in 1 .. index - 1, Interpreter!Closes(i, j)
        PROVE  Accounted(i)'
    <2>1. PICK n, m : n = index /\ m = index'
      OBVIOUS
    <2>2. n \in Int /\ m \in Int /\ n <= m /\ j \in 1 .. n - 1
      BY <1>2, <2>1
    <2>3. j \in 1 .. m - 1
      BY <2>2
    <2>4. Interpreter!Closes(i, j)'
      BY <1>1, <1>3
    <2> QED BY <2>1, <2>3, <2>4 DEF Accounted
  <1>4. ASSUME NEW k \in 1 .. Len(jumps), code[jumps[k] - JUMP].src = i, k <= l
        PROVE  Accounted(i)'
    <2>1. PICK o : o = jumps[k] - JUMP
      OBVIOUS
    <2>2. o \in DOMAIN code
      BY <2>1 DEF CodeInv, Nested, OpenAt
    <2>3. k \in 1 .. l
      BY <1>4
    <2>4. o = jumps'[k] - JUMP /\ code'[o].src = i
      BY <1>4, <2>1, <2>2, <2>3
    <2>5. k \in 1 .. Len(jumps')
      BY <1>4, <2>3
    <2> QED BY <2>4, <2>5 DEF Accounted
  <1>5. ASSUME NEW k \in 1 .. Len(jumps), code[jumps[k] - JUMP].src = i, k > l
        PROVE  Accounted(i)'
    <2>1. PICK j \in 1 .. index' - 1 : Interpreter!Closes(i, j)
      BY <1>5
    <2>2. Interpreter!Closes(i, j)'
      BY <1>1, <2>1
    <2> QED BY <2>1, <2>2 DEF Accounted
  <1>6. \A k \in 1 .. Len(jumps) : k <= l \/ k > l
    BY <1>2
  <1> QED BY <1>3, <1>4, <1>5, <1>6 DEF Accounted

(* What _emit appends is accounted for. *)
LEMMA EmittedSources ==
    ASSUME CodeInv, Sources, NEW c, NEW n, Taken(c, n), NEW jump \in Int, NEW fixed,
           Patched(fixed), Emitted(c, n, jump, fixed),
           NEW l \in Nat, l <= Len(jumps), l <= Len(jumps'),
           \A k \in 1 .. l : jumps'[k] = jumps[k],
           \A k \in 1 .. Len(jumps) : k > l =>
               \E j \in 1 .. index' - 1 : Interpreter!Closes(code[jumps[k] - JUMP].src, j),
           c = "[" => \E k \in 1 .. Len(jumps') : jumps'[k] - JUMP = top
    PROVE  Sources'
  <1>1. Extended(c, n, jump, fixed)
    BY EmittedFacts
  <1>2. /\ insns' = insns /\ index \in Int /\ index' = index + n /\ n \in Nat \ {0}
        /\ index' \in Int /\ index <= index'
    BY <1>1 DEF Extended
  <1>3. \A a \in DOMAIN code : a \in DOMAIN code' /\ code'[a].src = code[a].src
    BY <1>1 DEF Extended, Patched
  <1>4. ASSUME NEW i \in 1 .. index - 1, insns[i] = "["
        PROVE  Accounted(i)'
    <2>1. Accounted(i)
      BY <1>4 DEF Sources
    <2> QED BY <1>2, <1>3, <2>1, AccountedStays
  <1>5. ASSUME NEW i \in index .. index' - 1, insns[i] = "["
        PROVE  Accounted(i)'
    <2>1. i \in index .. index + n - 1
      BY <1>2
    <2>2. c = "[" /\ n = 1
      BY <1>5, <2>1 DEF Taken, Repeated
    <2>3. i = index
      BY <1>2, <2>1, <2>2
    <2>4. PICK k \in 1 .. Len(jumps') : jumps'[k] - JUMP = top
      BY <2>2
    <2>5. code'[top].src = i
      BY <1>1, <2>3 DEF Extended
    <2> QED BY <2>4, <2>5 DEF Accounted
  <1>6. ASSUME NEW i \in 1 .. index' - 1
        PROVE  i \in 1 .. index - 1 \/ i \in index .. index' - 1
    BY <1>2
  <1> QED BY <1>2, <1>4, <1>5, <1>6 DEF Sources

(* A round of the compiler accounts for what it takes. *)
LEMMA CompileSources ==
    ASSUME CodeInv, Sources, Compile
    PROVE  Sources'
  <1>1. jumps \in Seq(Int) /\ Patched(code) /\ index \in Int
    BY BlockFacts DEF Patched, CodeInv, Nested, TypeOK
  <1>2. CASE \E why \in {"syntax", "memory"} : Refuse(why)
    <2>1. insns' = insns /\ index' = index /\ code' = code /\ jumps' = jumps
      BY <1>2 DEF Refuse
    <2>2. \A i, j : Interpreter!Closes(i, j)' <=> Interpreter!Closes(i, j)
      BY <2>1, SameSource
    <2> QED BY <2>1, <2>2 DEF Sources, Accounted
  <1>3. CASE /\ Taken("]", 1) /\ jumps # <<>>
             /\ Emitted("]", 1, Dest - top - JUMP, [code EXCEPT ![Dest - JUMP].jump = Patch])
             /\ jumps' = SubSeq(jumps, 1, Len(jumps) - 1)
    <2>1. PICK o, fixed, jump : /\ o = jumps[Len(jumps)] - JUMP
                                /\ fixed = [code EXCEPT ![o].jump = Patch]
                                /\ jump = Dest - top - JUMP
      OBVIOUS
    <2>2. Emitted("]", 1, jump, fixed)
      BY <1>3, <2>1 DEF Dest
    <2>3. code[o].src \in 1 .. index - 1 /\ Interpreter!Closes(code[o].src, index)
      BY <1>3, <2>1, TopCloses
    <2>4. Len(jumps) \in 1 .. Len(jumps) /\ OpenAt(o, Len(jumps))
      BY <1>1, <1>3, <2>1 DEF CodeInv, Nested
    <2>5. o \in DOMAIN code /\ jump \in Int /\ Patch \in Int
      <3>1. top \in Int /\ jumps[Len(jumps)] \in Int
        BY <1>1, <2>4 DEF CodeInv, TypeOK
      <3> QED BY <2>1, <2>4, <3>1 DEF OpenAt, Dest, JUMP, Patch
    <2>6. Patched(fixed)
      <3>1. code[o] \in [op : Opcode, arg : Nat, size : Nat \ {0}, jump : Int, src : Nat \ {0}]
        BY <2>5, BlockFacts DEF Blocks
      <3>2. [code[o] EXCEPT !.jump = Patch] \in Blocks
        BY <2>5, <3>1 DEF Blocks
      <3>3. /\ DOMAIN fixed = DOMAIN code /\ fixed[o] = [code[o] EXCEPT !.jump = Patch]
            /\ \A a \in DOMAIN code : a # o => fixed[a] = code[a]
        BY <2>1, <2>5
      <3> HIDE DEF Patch
      <3> QED BY <3>1, <3>2, <3>3, BlockFacts DEF Patched
    <2>7. PICK l \in Nat : l = Len(jumps) - 1
      BY <2>4
    <2>8. /\ l <= Len(jumps) /\ l <= Len(jumps') /\ \A k \in 1 .. l : jumps'[k] = jumps[k]
      BY <1>1, <1>3, <2>4, <2>7
    <2>9. ASSUME NEW k \in 1 .. Len(jumps), k > l
          PROVE  \E j \in 1 .. index' - 1 : Interpreter!Closes(code[jumps[k] - JUMP].src, j)
      <3>1. k = Len(jumps) /\ index' = index + 1 /\ 1 <= index
        BY <1>1, <1>3, <2>2, <2>3, <2>7, <2>9 DEF Emitted
      <3>2. index \in 1 .. index' - 1
        BY <1>1, <3>1
      <3> QED BY <2>1, <2>3, <3>1, <3>2
    <2>10. Taken("]", 1)
      BY <1>3
    <2> QED BY <2>2, <2>5, <2>6, <2>8, <2>9, <2>10, EmittedSources
  <1>4. CASE /\ Taken("[", 1) /\ Emitted("[", 1, -1, code)
             /\ jumps' = Append(jumps, top + JUMP)
    <2>1. PICK l \in Nat : l = Len(jumps)
      BY <1>1
    <2>2. top \in Int
      BY DEF CodeInv, TypeOK
    <2>3. /\ l <= Len(jumps) /\ l <= Len(jumps') /\ \A k \in 1 .. l : jumps'[k] = jumps[k]
          /\ Len(jumps') \in 1 .. Len(jumps') /\ jumps'[Len(jumps')] - JUMP = top
      BY <1>1, <1>4, <2>1, <2>2 DEF JUMP
    <2>4. \A k \in 1 .. Len(jumps) : ~(k > l)
      BY <2>1
    <2> QED BY <1>1, <1>4, <2>3, <2>4, EmittedSources
  <1>5. ASSUME NEW c, NEW n, Taken(c, n), c \notin {"[", "]"}, Emitted(c, n, -1, code),
               jumps' = jumps
        PROVE  Sources'
    <2>1. PICK l \in Nat : l = Len(jumps)
      BY <1>1
    <2>2. /\ l <= Len(jumps) /\ l <= Len(jumps') /\ \A k \in 1 .. l : jumps'[k] = jumps[k]
          /\ \A k \in 1 .. Len(jumps) : ~(k > l)
      BY <1>5, <2>1
    <2> QED BY <1>1, <1>5, <2>2, EmittedSources
  <1> QED BY <1>2, <1>3, <1>4, <1>5, CompileDoes

(* Every step accounts for every "[". *)
LEMMA StepSources == CodeInv /\ Sources /\ [Next]_vars => Sources'
  <1> SUFFICES ASSUME CodeInv, Sources, [Next]_vars
               PROVE  Sources'
    OBVIOUS
  <1>1. CASE Compile
    BY <1>1, CompileSources
  <1>2. CASE Leave \/ Run \/ UNCHANGED vars
    <2>1. /\ insns' = insns /\ index' = index /\ jumps' = jumps
          /\ \A a \in DOMAIN code : a \in DOMAIN code' /\ code'[a].src = code[a].src
      <3>1. CASE Leave
        <4>1. CASE ~Fits(LEAVE)
          BY <3>1, <4>1 DEF Leave, Refuse
        <4>2. CASE Fits(LEAVE)
          <5>1. \A a \in DOMAIN code : a # top
            BY BlockFacts
          <5> QED BY <3>1, <4>2, <5>1 DEF Leave
        <4> QED BY <4>1, <4>2
      <3>2. CASE Run
        BY <3>2 DEF Run, Move, Add, Input, Output, Jump, Return, At, compiled
      <3>3. CASE UNCHANGED vars
        BY <3>3 DEF vars
      <3> QED BY <1>2, <3>1, <3>2, <3>3
    <2>2. PICK l \in Nat : l = Len(jumps)
      BY DEF CodeInv, Nested
    <2>3. index' \in Int /\ index <= index'
      BY <2>1 DEF CodeInv, TypeOK
    <2>4. /\ l <= Len(jumps) /\ l <= Len(jumps') /\ \A k \in 1 .. l : jumps'[k] = jumps[k]
          /\ \A k \in 1 .. Len(jumps) : ~(k > l)
      BY <2>1, <2>2
    <2>5. ASSUME NEW i \in 1 .. index - 1, insns[i] = "["
          PROVE  Accounted(i)'
      <3>1. Accounted(i)
        BY <2>5 DEF Sources
      <3> QED BY <2>1, <2>3, <2>4, <3>1, AccountedStays
    <2> QED BY <2>1, <2>5 DEF Sources
  <1> QED BY <1>1, <1>2 DEF Next

(* Why a round of the compiler reports a syntax error. *)
LEMMA SyntaxWhy ==
    ASSUME CodeInv, Compile, status' = "syntax"
    PROVE  /\ index \in 1 .. Len(insns)
           /\ insns[index] \notin Instruction \/ (insns[index] = "]" /\ jumps = <<>>)
  <1>1. index \in 1 .. Len(insns)
    BY ProgramsAssumption DEF CodeInv, TypeOK, Compile
  <1>2. ASSUME NEW c, NEW n, NEW jump, NEW fixed, Emit(c, n, jump, fixed)
        PROVE  status' # "syntax"
    BY <1>2 DEF Emit, Refuse, Compile
  <1> QED BY <1>1, <1>2 DEF Compile, Instruction, Matched

(* An error the compiler reports is one: if the "]" at index closed a "[", that one would *)
(* not have been closed before, and would be on the stack.                               *)
LEMMA SyntaxIllegal ==
    ASSUME CodeInv, Sources, Compile, status' = "syntax"
    PROVE  ~Interpreter!Legal
  <1> SUFFICES ASSUME Interpreter!Legal
               PROVE  FALSE
    OBVIOUS
  <1>1. /\ index \in 1 .. Len(insns) /\ index \in Int
        /\ insns[index] \notin Instruction \/ (insns[index] = "]" /\ jumps = <<>>)
    BY SyntaxWhy DEF CodeInv, TypeOK
  <1>2. insns[index] \in Instruction
    <2>1. insns[index] \in {"<", ">", "+", "-", Interpreter!READ, ".", "[", "]"}
      BY <1>1 DEF Interpreter!Legal
    <2> QED BY <2>1, ReadIsOther DEF Instruction, Repeated
  <1>3. PICK i \in 1 .. index : Interpreter!Closes(i, index)
    BY <1>1, <1>2 DEF Interpreter!Legal
  <1>4. i \in Int /\ i \in 1 .. index - 1 /\ insns[i] = "["
    BY <1>1, <1>3 DEF Interpreter!Closes
  <1>5. Accounted(i)
    BY <1>4 DEF Sources
  <1>6. Len(jumps) = 0
    BY <1>1, <1>2
  <1>7. PICK j \in 1 .. index - 1 : Interpreter!Closes(i, j)
    BY <1>5, <1>6 DEF Accounted
  <1>8. j = index
    <2>1. j \in Int /\ index \in Int /\ i \in Int
      BY <1>1, <1>4, <1>7
    <2>2. ~(j < index) /\ ~(index < j)
      BY <2>1, <1>3, <1>7, ClosedOnce
    <2> QED BY <2>1, <2>2
  <1> QED BY <1>1, <1>7, <1>8

(* The verdict stays right. *)
LEMMA StepVerdicts == CodeInv /\ Sources /\ Verdicts /\ [Next]_vars => Verdicts'
  <1> SUFFICES ASSUME CodeInv, Sources, Verdicts, [Next]_vars
               PROVE  Verdicts'
    OBVIOUS
  <1>1. insns' = insns
    BY DEF Next, Compile, Emit, Refuse, Leave, Run, Move, Add, Input, Output, Jump, Return,
           At, compiled, vars
  <1>2. Interpreter!Legal' <=> Interpreter!Legal
    <2>1. \A i, j : Interpreter!Closes(i, j)' <=> Interpreter!Closes(i, j)
      BY <1>1, SameSource
    <2> QED BY <1>1, <2>1 DEF Interpreter!Legal
  <1>3. CASE Compile
    <2>1. status' \in {"compile", "syntax", "memory"}
      BY <1>3 DEF Compile, Emit, Refuse
    <2> QED BY <1>2, <1>3, <2>1, SyntaxIllegal DEF Verdicts
  <1>4. CASE Leave
    <2>1. status' # "syntax"
      BY <1>4 DEF Leave, Refuse
    <2>2. Interpreter!Legal
      BY <1>4, LegalSource
    <2> QED BY <1>2, <2>1, <2>2 DEF Verdicts
  <1>5. CASE Run
    <2>1. status = "run" /\ status' \notin {"compile", "syntax", "memory"}
      BY <1>5 DEF Run, Move, Add, Input, Output, Jump, Return, At, Goto
    <2> QED BY <1>2, <2>1 DEF Verdicts
  <1>6. CASE UNCHANGED vars
    BY <1>2, <1>6 DEF Verdicts, vars
  <1> QED BY <1>3, <1>4, <1>5, <1>6 DEF Next

(* compile raises for a source exactly when it is no legal program, or does not fit the   *)
(* buffer: what it reports as a syntax error is one, and what it runs is legal, although  *)
(* it looks at every instruction once and never counts brackets.                         *)
THEOREM DecidesLegal == Spec => []Verdicts
  <1>1. Init => Sources /\ Verdicts
    <2> SUFFICES ASSUME Init
                 PROVE  Sources /\ Verdicts
      OBVIOUS
    <2>1. index = 1 /\ status = "compile"
      BY DEF Init
    <2> QED BY <2>1 DEF Sources, Verdicts
  <1> QED BY <1>1, StepSources, StepVerdicts, CodeInvariant, PTL DEF Spec

=============================================================================
