----------------------------- MODULE RoundRobin -----------------------------
(***************************************************************************)
(* What the scheduler promises: one processor, handed around a queue of    *)
(* processes.  Whoever waits longest is next; a process that is preempted  *)
(* goes to the end of the queue; one that ends leaves for good.  Kernel.tla *)
(* shows that the scan of proctab in sched.c implements this queue.        *)
(***************************************************************************)
EXTENDS Naturals, Sequences, SequencesExt

CONSTANTS
  Processes,
  Nobody     \* no process has the processor: before the first, after the last

VARIABLES running, queue

vars == <<running, queue>>

Init == running = Nobody /\ queue = << >>

Add(p) ==
  /\ running = Nobody
  /\ p \notin ToSet(queue)
  /\ queue' = Append(queue, p)
  /\ UNCHANGED running

\* The running process, if there is one, waits again.
Switch ==
  LET waiting == queue \o IF running = Nobody THEN << >> ELSE <<running>>
  IN  /\ waiting # << >>
      /\ running' = Head(waiting)
      /\ queue' = Tail(waiting)

Exit ==
  /\ running # Nobody
  /\ running' = IF queue = << >> THEN Nobody ELSE Head(queue)
  /\ queue' = IF queue = << >> THEN << >> ELSE Tail(queue)

Next == (\E p \in Processes : Add(p)) \/ Switch \/ Exit

Spec == Init /\ [][Next]_vars
=============================================================================
