------------------------------- MODULE Heap -------------------------------
(***************************************************************************)
(* What a caller of kalloc and kfree may rely on, whatever the allocator   *)
(* behind them: a request is refused, or answered with a block of at least *)
(* the size asked for that shares no byte with a block still handed out;   *)
(* only a block that is handed out can be given back.  Alloc.tla shows     *)
(* that the first-fit allocator of kernel/alloc.c implements this module.  *)
(***************************************************************************)
EXTENDS Integers

CONSTANTS
  Arena,   \* the addresses blocks are cut from
  Sizes,   \* the sizes callers ask for, in bytes
  Slack,   \* how many bytes a block may be longer than asked
  NULL     \* the answer to a refused request

VARIABLES
  blocks,  \* address of a block handed out |-> its length in bytes
  ret      \* what the last kalloc answered

vars == <<blocks, ret>>

Bytes(p, n) == p .. p + n - 1

Init == blocks = << >> /\ ret = NULL

Refuse == ret' = NULL /\ UNCHANGED blocks

Grant(size) ==
  \E p \in Arena, n \in size .. size + Slack :
    /\ ret' = p
    /\ p \notin DOMAIN blocks
    /\ blocks' = [q \in DOMAIN blocks \cup {p} |-> IF q = p THEN n ELSE blocks[q]]
    /\ Bytes(p, n) \subseteq Arena
    /\ \A q \in DOMAIN blocks : Bytes(p, n) \cap Bytes(q, blocks[q]) = {}

Release ==
  \E p \in DOMAIN blocks :
    /\ blocks' = [q \in DOMAIN blocks \ {p} |-> blocks[q]]
    /\ UNCHANGED ret

Next == Refuse \/ (\E size \in Sizes : Grant(size)) \/ Release

Spec == Init /\ [][Next]_vars
============================================================================
