--------------------------- MODULE AddressSpaces ---------------------------
(***************************************************************************)
(* What the memory manager promises its callers: a process is given frames *)
(* of its own, which no other process and no part of the kernel has, keeps *)
(* exactly those until it ends, and then gives all of them back.           *)
(* MemMan.tla shows that kernel/memman.c implements this module.           *)
(***************************************************************************)
EXTENDS Naturals

CONSTANTS Procs, Frames

VARIABLES
  kernel,  \* the frames the kernel has
  has      \* the frames each process has

vars == <<kernel, has>>

Init ==
  /\ kernel \subseteq Frames
  /\ has = [p \in Procs |-> {}]

\* While the machine boots.
KernelTakes(f) ==
  /\ \A p \in Procs : has[p] = {}
  /\ kernel' = kernel \cup {f}
  /\ UNCHANGED has

Grant(p) ==
  /\ has[p] = {} /\ has'[p] # {} /\ has'[p] \subseteq Frames
  /\ has'[p] \cap kernel = {}
  /\ \A q \in Procs : has'[p] \cap has[q] = {}
  /\ has' = [has EXCEPT ![p] = has'[p]]
  /\ UNCHANGED kernel

Release(p) ==
  /\ has' = [has EXCEPT ![p] = {}]
  /\ UNCHANGED kernel

Next ==
  \/ \E f \in Frames : KernelTakes(f)
  \/ \E p \in Procs : Grant(p) \/ Release(p)

Spec == Init /\ [][Next]_vars
=============================================================================
