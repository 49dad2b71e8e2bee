------------------------------ MODULE MCSharr ------------------------------
(* An array of two entries, the words the commands need, and two values. *)
EXTENDS SharrProperties

MCWord  == 0 .. 3
MCValue == {<<1, 0>>, <<0, 3>>}

\* After two accesses that went astray the file is no more than a jumble of words, and
\* what is stated without an exception has been tried: such states are not left again.
MaxStray == 2
FewStray == stray < MaxStray
=============================================================================
