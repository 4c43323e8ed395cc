------------------------------- MODULE MemMan -------------------------------
(***************************************************************************)
(* Physical memory: the frame map of kernel/memman.c, the kernel's page    *)
(* tables (arch/i386/paging.c), and the address space each process gets    *)
(* from create_process (arch/i386/process.c) and gives back in             *)
(* process_kill (sched.c).                                                 *)
(*                                                                         *)
(* All of it runs with interrupts disabled.  A call of alloc_addr_space is  *)
(* a sequence of steps, one for each frame it takes, because it may fail at *)
(* any of them.                                                            *)
(*                                                                         *)
(* A definition marked "mutant" is what a plausible mistake would make of   *)
(* the definition after it; it is used to try the properties out.          *)
(***************************************************************************)
EXTENDS Integers, FiniteSets, FiniteSetsExt

CONSTANTS
  Procs,         \* the slots of proctab that are used
  Sizes,         \* the sizes of the address spaces asked for, in bytes
  FRAME_LEN,     \* bytes in a frame (4096)
  PT_ENTRIES,    \* entries of a page table (1024)
  frame_count,   \* frames of physical memory
  KernelFrames,  \* frames of the first 4 MB (1024)
  UintMax        \* the largest uint32

\* The machine has the 4 MB that the kernel is meant to have.
ASSUME MachineAssumption ==
  /\ frame_count \in Nat /\ KernelFrames \in Nat
  /\ KernelFrames <= frame_count
  /\ FRAME_LEN \in Nat \ {0} /\ PT_ENTRIES \in Nat \ {0}
  /\ UintMax \in Nat
ASSUME CallersAssumption ==
  /\ Sizes \subseteq Nat
  /\ \A size \in Sizes : size \div FRAME_LEN + 1 < UintMax

SizeofFrameT == 4

\* frame_map has an element for every 32 frames.
frame_elems == frame_count \div 32 + 1
FrameMap    == 0 .. frame_elems - 1

\* memset( frame_map, ~0, (0x400000/FRAME_LEN)/8 )
Reserved == 0 .. (KernelFrames \div 8) \div SizeofFrameT - 1

\* The page tables that map all of memory for the kernel.
pdes == frame_count \div PT_ENTRIES

\* What kalloc leaves in a word: no frame's address.
Junk == -1

VARIABLES
  pc,           \* where the kernel is
  frame_map,    \* the reference count of each element of the map
  kern_pts,     \* the frames of the kernel's page tables
  space,        \* the address space of each process, or NoSpace
  heap,         \* the kalloc blocks handed out
  proc,         \* the process that is being created
  as,           \* its address space so far
  i, j,         \* alloc_addr_space's loop counters
  proc_frames   \* and the number of frames it has yet to allocate

call == <<proc, as, i, j, proc_frames>>
vars == <<pc, frame_map, kern_pts, space, heap, call>>

\* An address space: the page directory, the list of frames and the list of page
\* tables that are kept to free them, and the frames the page tables point to.
NoSpace == [pd |-> Junk, frames |-> << >>, pts |-> << >>, ptes |-> {}]

\* The kalloc blocks of a process: the two lists of its address space, the address
\* space itself, the architecture's information and the TSS.
Lists(p)  == {<<p, "frames">>, <<p, "pts">>}
Blocks(p) == Lists(p) \cup {<<p, "addr_space">>, <<p, "arch_info">>, <<p, "tss">>}

Init ==
  /\ pc = "init_memman"
  /\ frame_map = [f \in FrameMap |-> 0]
  /\ kern_pts = {}
  /\ space = [p \in Procs |-> NoSpace]
  /\ heap = {}
  /\ proc \in Procs
  /\ as = NoSpace
  /\ i = 0 /\ j = 0 /\ proc_frames = 0

-----------------------------------------------------------------------------
(* Frames                                                                    *)

NotShared == {f \in FrameMap : frame_map[f] <= 1}              \* mutant

\* The frames get_free_frame finds in the map; it takes the first.
FreeFrames == {f \in FrameMap : frame_map[f] = 0}
FirstFree  == Min(FreeFrames)

\* memman_use_frame: count++, a field of 8 bits.
Used(f) == [frame_map EXCEPT ![f] = (@ + 1) % 256]

\* memman_free_frame of each frame of the set S.
Freed(S) == [f \in FrameMap |->
               IF f \in S /\ frame_map[f] # 0 THEN frame_map[f] - 1 ELSE frame_map[f]]

InitMemman ==
  /\ pc = "init_memman"
  /\ heap' = heap \cup {<<"kernel", "frame_map">>}
  /\ frame_map' = [f \in FrameMap |-> IF f \in Reserved THEN 255 ELSE 0]
  /\ pc' = "init_paging"
  /\ UNCHANGED <<kern_pts, space, call>>

\* init_paging takes a frame for each page table; from 4 MB on the map has enough.
KernelTable ==
  /\ pc = "init_paging" /\ Cardinality(kern_pts) < pdes
  /\ FreeFrames # {}
  /\ frame_map' = Used(FirstFree)
  /\ kern_pts' = kern_pts \cup {FirstFree}
  /\ UNCHANGED <<pc, space, heap, call>>

EnablePaging ==
  /\ pc = "init_paging" /\ Cardinality(kern_pts) >= pdes
  /\ pc' = "idle"
  /\ UNCHANGED <<frame_map, kern_pts, space, heap, call>>

-----------------------------------------------------------------------------
(* create_process and alloc_addr_space                                       *)

FullTables(num_frames) == num_frames \div PT_ENTRIES           \* mutant

\* as->num_pts
NumTables(num_frames) == num_frames \div PT_ENTRIES + 1

CreateProcess(p, size) ==
  LET num_frames == size \div FRAME_LEN + 1
      num_pts    == NumTables(num_frames)
  IN  /\ pc = "idle" /\ space[p] = NoSpace
      /\ pc' = "pd"
      /\ proc' = p
      /\ as' = [pd     |-> Junk,
                frames |-> [n \in 0 .. num_frames - 1 |-> Junk],
                pts    |-> [n \in 0 .. num_pts - 1 |-> Junk],
                ptes   |-> {}]
      /\ i' = 0 /\ j' = 0 /\ proc_frames' = num_frames
      /\ heap' = heap \cup Lists(p)
      /\ UNCHANGED <<frame_map, kern_pts, space>>

FramesOnly(p) == {<<p, "frames">>}                            \* mutant

\* What a call that gets no frame for the directory gives back.
GivenBack(p) == Lists(p)

AllocDirectory ==
  /\ pc = "pd"
  /\ \/ /\ FreeFrames # {}
        /\ frame_map' = Used(FirstFree)
        /\ as' = [as EXCEPT !.pd = FirstFree]
        /\ pc' = "pt"
        /\ UNCHANGED heap
     \/ /\ FreeFrames = {}
        /\ heap' = heap \ GivenBack(proc)
        /\ as' = NoSpace
        /\ pc' = "idle"
        /\ UNCHANGED frame_map
  /\ UNCHANGED <<kern_pts, space, proc, i, j, proc_frames>>

\* n - 1, of a uint32.
Decrement(n) == IF n = 0 THEN UintMax ELSE n - 1

AllocTable ==
  /\ pc = "pt" /\ i \in DOMAIN as.pts
  /\ \/ /\ FreeFrames # {}
        /\ frame_map' = Used(FirstFree)
        /\ as' = [as EXCEPT !.pts[i] = FirstFree]
        /\ j' = 0
        /\ pc' = "frame"
        /\ UNCHANGED <<heap, i>>
     \/ /\ FreeFrames = {}
        /\ frame_map' = Freed({as.pd})
        /\ heap' = heap \ {<<proc, "frames">>}
        /\ i' = Decrement(i)
        /\ pc' = "undo_pts"
        /\ UNCHANGED <<as, j>>
  /\ UNCHANGED <<kern_pts, space, proc, proc_frames>>

MoreByOne == j <= PT_ENTRIES /\ proc_frames # 0               \* mutant

\* The loop over the entries of a page table goes on.
MoreEntries == j < PT_ENTRIES /\ proc_frames # 0

AllocFrame ==
  /\ pc = "frame" /\ MoreEntries
  /\ \/ /\ FreeFrames # {}
        /\ frame_map' = Used(FirstFree)
        /\ as' = [as EXCEPT !.frames[j] = FirstFree, !.ptes = @ \cup {FirstFree}]
        /\ j' = j + 1
        /\ proc_frames' = proc_frames - 1
        /\ UNCHANGED pc
     \/ /\ FreeFrames = {}
        /\ frame_map' = Freed({as.pd})
        /\ j' = Decrement(j)
        /\ pc' = "undo_frames"
        /\ UNCHANGED <<as, proc_frames>>
  /\ UNCHANGED <<kern_pts, space, heap, proc, i>>

NextTable ==
  /\ pc = "frame" /\ ~MoreEntries
  /\ i' = i + 1
  /\ pc' = "pt"
  /\ UNCHANGED <<frame_map, kern_pts, space, heap, proc, as, j, proc_frames>>

\* The address space is complete, and create_process allocates the rest.
Created ==
  /\ pc = "pt" /\ i \notin DOMAIN as.pts
  /\ space' = [space EXCEPT ![proc] = as]
  /\ heap' = heap \cup Blocks(proc)
  /\ as' = NoSpace
  /\ pc' = "idle"
  /\ UNCHANGED <<frame_map, kern_pts, proc, i, j, proc_frames>>

\* for( j -= 1; j >= 0; j-- ), and the same for i, whose condition always holds:
\* from the element before the first of the list on, what is freed is no frame of
\* this process, and the loop does not end.
UndoFrames ==
  /\ pc = "undo_frames"
  /\ IF j \in DOMAIN as.frames
     THEN frame_map' = Freed({as.frames[j]}) /\ j' = Decrement(j) /\ UNCHANGED pc
     ELSE pc' = "runaway" /\ UNCHANGED <<frame_map, j>>
  /\ UNCHANGED <<kern_pts, space, heap, proc, as, i, proc_frames>>

UndoTables ==
  /\ pc = "undo_pts"
  /\ IF i \in DOMAIN as.pts
     THEN frame_map' = Freed({as.pts[i]}) /\ i' = Decrement(i) /\ UNCHANGED pc
     ELSE pc' = "runaway" /\ UNCHANGED <<frame_map, i>>
  /\ UNCHANGED <<kern_pts, space, heap, proc, as, j, proc_frames>>

\* Where a frame is asked for.
Asking ==
  \/ pc = "pd"
  \/ pc = "pt" /\ i \in DOMAIN as.pts
  \/ pc = "frame" /\ MoreEntries

\* get_free_frame looks at frame_count elements, more than the map has: a word of
\* another kalloc block may look like a free frame's, and is then incremented.
BeyondTheMap ==
  /\ Asking /\ FreeFrames = {} /\ frame_elems < frame_count
  /\ pc' = "corrupt"
  /\ UNCHANGED <<frame_map, kern_pts, space, heap, call>>

-----------------------------------------------------------------------------
(* process_kill                                                              *)

TablesAndDirectory(s) == {s.pts[n] : n \in DOMAIN s.pts}       \* mutant

\* What free_addr_space gives back.
FramesOf(s) == {s.frames[n] : n \in DOMAIN s.frames} \cup {s.pts[n] : n \in DOMAIN s.pts}
               \cup {s.pd}

\* What destroy_process gives back.
Destroyed(p) == {<<p, "tss">>, <<p, "arch_info">>, <<p, "addr_space">>}

ProcessKill(p) ==
  /\ pc = "idle" /\ space[p] # NoSpace
  /\ IF Junk \in FramesOf(space[p])
     THEN pc' = "corrupt" /\ UNCHANGED <<frame_map, space, heap>>
     ELSE /\ frame_map' = Freed(FramesOf(space[p]))
          /\ heap' = heap \ (Lists(p) \cup Destroyed(p))
          /\ space' = [space EXCEPT ![p] = NoSpace]
          /\ UNCHANGED pc
  /\ UNCHANGED <<kern_pts, call>>

Next ==
  \/ InitMemman \/ KernelTable \/ EnablePaging
  \/ \E p \in Procs : ProcessKill(p) \/ \E size \in Sizes : CreateProcess(p, size)
  \/ AllocDirectory \/ AllocTable \/ AllocFrame \/ NextTable \/ Created
  \/ UndoFrames \/ UndoTables \/ BeyondTheMap

Spec == Init /\ [][Next]_vars
-----------------------------------------------------------------------------
(* Correctness                                                               *)

\* The frames a process uses: the ones its page tables point to, the tables and
\* the directory.
Has(p) == IF space[p] = NoSpace THEN {}
          ELSE space[p].ptes \cup {space[p].pts[n] : n \in DOMAIN space[p].pts}
               \cup {space[p].pd}

Allocated == kern_pts \cup UNION {Has(p) : p \in Procs}

IsAddressSpace(s) ==
  /\ DOMAIN s = {"pd", "frames", "pts", "ptes"}
  /\ s.pd \in FrameMap \cup {Junk}
  /\ \A n \in DOMAIN s.frames : n \in Nat /\ s.frames[n] \in FrameMap \cup {Junk}
  /\ \A n \in DOMAIN s.pts : n \in Nat /\ s.pts[n] \in FrameMap \cup {Junk}
  /\ s.ptes \subseteq FrameMap

\* No entry is written behind the end of a page table (the last conjunct).
TypeOK ==
  /\ pc \in {"init_memman", "init_paging", "idle", "pd", "pt", "frame", "undo_frames",
             "undo_pts", "runaway", "corrupt"}
  /\ frame_map \in [FrameMap -> 0 .. 255]
  /\ kern_pts \subseteq FrameMap
  /\ DOMAIN space = Procs /\ \A p \in Procs : IsAddressSpace(space[p])
  /\ heap \subseteq {<<"kernel", "frame_map">>} \cup UNION {Blocks(p) : p \in Procs}
  /\ proc \in Procs /\ IsAddressSpace(as)
  /\ i \in 0 .. UintMax /\ j \in 0 .. UintMax /\ proc_frames \in 0 .. UintMax
  /\ pc = "frame" => i \in DOMAIN as.pts /\ j <= PT_ENTRIES

\* Between two calls a frame is marked used exactly when the kernel or a process
\* has it, and the kernel's own are never touched: nothing a process had stays
\* marked when it has ended (ChangeLog:35), whatever failed in between.
FramesBalanced ==
  pc = "idle" =>
    \A f \in FrameMap :
      frame_map[f] = IF f \in Reserved THEN 255 ELSE IF f \in Allocated THEN 1 ELSE 0

\* Between two calls the kalloc blocks are those of the processes there are: also
\* kalloc memory is given back, by a process that ends (ChangeLog:16-17) and by one
\* that could not be created for want of a directory (ChangeLog:18-20).
HeapBalanced ==
  pc = "idle" =>
    heap = {<<"kernel", "frame_map">>} \cup
           UNION {Blocks(p) : p \in {q \in Procs : space[q] # NoSpace}}

\* A process has all the memory that was asked for, also when it takes more than
\* one page table.
SpaceIsComplete ==
  \A p \in Procs : Cardinality(space[p].ptes) = Cardinality(DOMAIN space[p].frames)

Promise == INSTANCE AddressSpaces WITH
  Frames <- FrameMap, kernel <- kern_pts \cup Reserved, has <- [p \in Procs |-> Has(p)]

\* The memory manager gives each process frames of its own.
ImplementsAddressSpaces == Promise!Spec

\* "If the the argument is not 0, there is an error (memory is full)" (memman.c:17):
\* when no frame is free, get_free_frame says so and touches nothing else.
MemoryFullIsNoticed == pc # "corrupt"

\* "Reserve the first 4MB for kernel code" (memman.c:55).
KernelMemoryReserved ==
  \A p \in Procs : \A f \in Has(p) : f >= KernelFrames

\* "Now all alloced frames should be freed and all kalloc memory should be freed"
\* if there was an error in alloc_addr_space (ChangeLog:18-20): the cleanup stops at
\* the first frame it has to free.
CleanupEnds == pc # "runaway"
=============================================================================
