----------------------------- MODULE TypeAhead -----------------------------
(***************************************************************************)
(* What the keyboard driver keeps for a reader of the console: the keys     *)
(* typed, in their order, as many as there is room for.  Backspace takes    *)
(* out the oldest one.  Console.tla shows that the ring buffer of           *)
(* kernel/dev/bcon_kbd.c implements this.                                   *)
(***************************************************************************)
EXTENDS Naturals, Sequences

CONSTANTS Keys, Room

VARIABLE typed

Init == typed = << >>

Type(k)    == Len(typed) < Room /\ typed' = Append(typed, k)
TakeOldest == typed # << >> /\ typed' = Tail(typed)

Next == TakeOldest \/ \E k \in Keys : Type(k)

Spec == Init /\ [][Next]_typed
=============================================================================
