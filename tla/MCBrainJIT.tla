---------------------------- MODULE MCBrainJIT ----------------------------
(***************************************************************************)
(* Every program of up to four instructions, and of five and more some     *)
(* with nested loops; bytes of three values, so that a run of three wraps  *)
(* around; and a code buffer that the longest programs do not fit in.      *)
(***************************************************************************)
EXTENDS BrainJIT

Char == {"<", ">", "+", "-", ",", ".", "[", "]", "x"}

MCPrograms ==
    UNION {[1 .. n -> Char] : n \in 0 .. 4}
        \cup {<<",", "[", "[", "-", "]", ">", "]">>,           \* fills the buffer exactly
              <<",", ".", ",", ".", "[", "]">>,                \* leaves no room for emit_leave
              <<",", "[", ">", "+", "<", "-", "]">>,
              <<",", "[", ">", "+", "<", "-", "]", ">", ".">>, \* too long
              <<"[", "[", "]", "[", "]", "]">>, <<"-", "[", "-", "[", "-", "]", "]">>}
=============================================================================
