--------------------------- MODULE MCRingNetwork ---------------------------
(***************************************************************************)
(* Four processes and two chunks: voters 1 and 2 check the first chunk of  *)
(* the flag, 2 and 3 the second, and two approvals are needed.  The other  *)
(* two checks look for a decoy; one decoy equals a chunk of the flag, so   *)
(* that three, two, one and no approvals all occur.                        *)
(***************************************************************************)
EXTENDS RingProperties, TLC

MCValue     == {"x", "y"}
MCSecret    == (0 :> "x") @@ (1 :> "y")
MCAnswerers == (0 :> {1, 2}) @@ (1 :> {2, 3})
MCDecoy     == [v \in 1 .. 3 |-> (0 :> "x") @@ (1 :> "x")]
=============================================================================
