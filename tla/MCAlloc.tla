------------------------------ MODULE MCAlloc ------------------------------
(* A region of 76 bytes behind the list heads: up to six slots, so that    *)
(* both lists take every order.  Requests are of one, two and three words,  *)
(* one of them not a multiple of a word; kfree is called with every word of *)
(* the region, and with NULL.                                               *)
EXTENDS Alloc

MCSizes == {1, 8, 12}
MCPointers == {0} \cup {Base + 4 * i : i \in 0 .. 21}
============================================================================
