------------------------------ MODULE MCNetFS ------------------------------
(* Two connections, so that one is accepted while the other is served. *)
EXTENDS NetFS

BothEditions == {netfs1, netfs2}
=============================================================================
