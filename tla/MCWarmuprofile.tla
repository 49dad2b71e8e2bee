--------------------------- MODULE MCWarmuprofile ---------------------------
(* Admin and one or two users, two browsers and two requests at a time. *)
EXTENDS Warmuprofile

MCUser == {"admin", "ann", "bob"}
=============================================================================
