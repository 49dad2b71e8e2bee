---------------------------- MODULE MCPlainBlog ----------------------------
(* A sample post and one that is created, the index and lists that mix and repeat    *)
(* them and name the prototype, and two threads, whose likes overlap at a limit of *)
(* two; key holders add and take away likes.                                              *)
EXTENDS BlogPage

CONSTANTS old, new

Lists == {<<>>, <<old, new>>, <<new, new>>, <<old, Proto>>}

Addresses == [ids : Lists, admin : {FALSE}] \cup {[ids |-> <<old, new>>, admin |-> TRUE]}

Amounts == {-1, 1, 2}
=============================================================================
