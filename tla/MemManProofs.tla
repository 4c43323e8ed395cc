--------------------------- MODULE MemManProofs ---------------------------
(***************************************************************************)
(* What the passing runs of MemMan.tla check, for every size of memory and *)
(* of address spaces.  The inductive invariant says who holds which frame: *)
(* the kernel, the processes, and the call of alloc_addr_space in progress.*)
(* Their frames are disjoint, and they are the ones the map marks.         *)
(***************************************************************************)
EXTENDS MemMan, FiniteSetTheorems, WellFoundedInduction, TLAPS

\* A call of alloc_addr_space that may still succeed.
Growing == pc \in {"pd", "pt", "frame"}

\* The counts are settled.
Counting == Growing \/ pc \in {"init_paging", "idle"}

\* The frames an address space holds, complete or not.
Held(s) == (s.ptes \cup {s.pts[n] : n \in DOMAIN s.pts} \cup {s.pd}) \ {Junk}

InUse == kern_pts \cup (UNION {Held(space[p]) : p \in Procs}) \cup Held(as)

\* The map marks the frames in use, and no others.
MapInv ==
  Counting =>
    \A f \in FrameMap :
      frame_map[f] = IF f \in Reserved THEN 255 ELSE IF f \in InUse THEN 1 ELSE 0

\* Nothing is held twice.
DisjointInv ==
  /\ InUse \cap Reserved = {}
  /\ \A p \in Procs : Held(space[p]) \cap kern_pts = {}
  /\ \A p, q \in Procs : p # q => Held(space[p]) \cap Held(space[q]) = {}
  /\ Held(as) \cap kern_pts = {}
  /\ \A p \in Procs : Held(as) \cap Held(space[p]) = {}

\* A complete address space has its directory and its tables; if nothing on its
\* lists is junk, then the frames it maps are those on the list.
Complete(s) ==
  /\ s.pd \in FrameMap
  /\ \A n \in DOMAIN s.pts : s.pts[n] \in FrameMap
  /\ Junk \notin {s.frames[n] : n \in DOMAIN s.frames} =>
       s.ptes = {s.frames[n] : n \in DOMAIN s.frames}

SpaceInv == \A p \in Procs : space[p] # NoSpace => Complete(space[p])

\* The call in progress, for nf frames and np tables: which elements of its lists are
\* written.  The entries behind those of one table never are.
CallShape(nf, np) ==
  /\ DOMAIN as.frames = 0 .. nf - 1 /\ DOMAIN as.pts = 0 .. np - 1
  /\ proc_frames <= nf
  /\ pc = "pd" => /\ as.pd = Junk /\ as.ptes = {} /\ i = 0 /\ proc_frames = nf
                  /\ \A n \in 0 .. np - 1 : as.pts[n] = Junk
                  /\ \A n \in 0 .. nf - 1 : as.frames[n] = Junk
  /\ pc # "pd" => as.pd \in FrameMap
  /\ pc = "pt" => /\ i <= np
                  /\ \A n \in 0 .. np - 1 : as.pts[n] \in FrameMap <=> n < i
  /\ pc = "frame" => /\ i < np /\ j + proc_frames <= nf
                     /\ \A n \in 0 .. np - 1 : as.pts[n] \in FrameMap <=> n <= i
  /\ \A n \in 0 .. nf - 1 : n >= PT_ENTRIES => as.frames[n] = Junk
  /\ nf <= PT_ENTRIES =>
       /\ as.ptes = {as.frames[n] : n \in 0 .. nf - proc_frames - 1}
       /\ proc_frames # 0 => /\ i = 0
                             /\ pc = "pt" => proc_frames = nf
                             /\ pc = "frame" => j = nf - proc_frames

CallInv ==
  /\ pc = "init_memman" => kern_pts = {} /\ heap = {}
  /\ pc \in {"init_memman", "init_paging", "idle"} => as = NoSpace
  /\ pc \in {"init_memman", "init_paging"} => \A p \in Procs : space[p] = NoSpace
  /\ Growing => /\ space[proc] = NoSpace
                /\ \E nf \in 1 .. UintMax - 1, np \in 1 .. UintMax : CallShape(nf, np)

HeapInv ==
  Counting =>
    heap = {<<"kernel", "frame_map">>}
           \cup (UNION {Blocks(p) : p \in {q \in Procs : space[q] # NoSpace}})
           \cup (IF Growing THEN Lists(proc) ELSE {})

IInv == TypeOK /\ MapInv /\ DisjointInv /\ SpaceInv /\ CallInv /\ HeapInv

-----------------------------------------------------------------------------
(* Lemmas                                                                    *)

\* A set of natural numbers that is not empty has a least element, and Min chooses it.
LEMMA Smallest ==
  ASSUME NEW T, T \subseteq Nat, T # {}
  PROVE  Min(T) \in T /\ \A y \in T : Min(T) <= y
<1> DEFINE R == OpToRel(<, Nat)
<1>1. \A x, y \in Nat : <<x, y>> \in R <=> x < y
  BY DEF OpToRel
<1>2. PICK x \in T : \A y \in T : ~ (<<y, x>> \in R)
  BY NatLessThanWellFounded, WFMin
<1> HIDE DEF R
<1>3. \A y \in T : x <= y
  <2>1. \A y \in T : ~ (y < x)
    BY <1>1, <1>2
  <2> QED BY <2>1
<1> QED BY <1>3 DEF Min

\* A quotient of natural numbers is not larger than what is divided.
LEMMA Quotient ==
  ASSUME NEW a \in Nat, NEW b \in Nat \ {0}
  PROVE  a \div b \in 0 .. a
<1> DEFINE q == a \div b
<1>1. q \in Int /\ b * q <= a /\ a < b * q + b
  BY Z3
<1>2. q >= 0
  BY <1>1
<1>3. q <= b * q
  BY <1>1, <1>2
<1> QED BY <1>1, <1>2, <1>3

\* The reserved frames have elements in the map; junk is no frame.
LEMMA MapFacts ==
  /\ FrameMap \subseteq Nat /\ Junk \notin FrameMap
  /\ Reserved \subseteq FrameMap
BY MachineAssumption, SMT DEF FrameMap, frame_elems, Reserved, SizeofFrameT, Junk

\* The first free frame is held by nobody, and becomes the only one marked anew.
LEMMA Fresh ==
  ASSUME IInv, Counting, FreeFrames # {}
  PROVE  /\ FirstFree \in FrameMap /\ FirstFree \notin Reserved /\ FirstFree \notin InUse
         /\ FirstFree # Junk
         /\ Used(FirstFree) = [f \in FrameMap |-> IF f = FirstFree THEN 1 ELSE frame_map[f]]
<1>1. FreeFrames \subseteq FrameMap /\ FreeFrames \subseteq Nat
  BY MapFacts DEF FreeFrames
<1>2. FirstFree \in FreeFrames
  BY <1>1, Smallest DEF FirstFree
<1>3. FirstFree \in FrameMap /\ frame_map[FirstFree] = 0
  BY <1>2 DEF FreeFrames
<1>4. FirstFree \notin Reserved /\ FirstFree \notin InUse
  BY <1>3 DEF IInv, MapInv
<1>5. Used(FirstFree) = [f \in FrameMap |-> IF f = FirstFree THEN 1 ELSE frame_map[f]]
  <2>1. (frame_map[FirstFree] + 1) % 256 = 1
    BY <1>3
  <2>2. frame_map \in [FrameMap -> 0 .. 255]
    BY DEF IInv, TypeOK
  <2> QED BY <1>3, <2>1, <2>2 DEF Used
<1> QED BY <1>3, <1>4, <1>5, MapFacts

\* A step that takes the first free frame for the call in progress.
LEMMA Take ==
  ASSUME IInv, Growing, FreeFrames # {}, frame_map' = Used(FirstFree),
         kern_pts' = kern_pts, space' = space, Held(as)' = Held(as) \cup {FirstFree}
  PROVE  MapInv' /\ DisjointInv' /\ frame_map' \in [FrameMap -> 0 .. 255]
<1>1. /\ FirstFree \in FrameMap /\ FirstFree \notin Reserved /\ FirstFree \notin InUse
      /\ frame_map' = [f \in FrameMap |-> IF f = FirstFree THEN 1 ELSE frame_map[f]]
  BY Fresh DEF Counting
<1>2. \A p \in Procs : Held(space[p])' = Held(space[p])
  BY DEF Held
<1>3. InUse' = InUse \cup {FirstFree}
  BY <1>2 DEF InUse
<1>4. MapInv'
  BY <1>1, <1>3 DEF IInv, MapInv, Counting
<1>5. DisjointInv'
  <2>1. FirstFree \notin kern_pts /\ \A p \in Procs : FirstFree \notin Held(space[p])
    BY <1>1 DEF InUse
  <2>2. DisjointInv
    BY DEF IInv
  <2>3. InUse' \cap Reserved = {}
    BY <1>1, <1>3, <2>2 DEF DisjointInv
  <2>4. Held(as)' \cap kern_pts = {} /\ \A p \in Procs : Held(as)' \cap Held(space[p]) = {}
    BY <2>1, <2>2 DEF DisjointInv
  <2> QED BY <1>2, <2>2, <2>3, <2>4 DEF DisjointInv
<1>6. frame_map' \in [FrameMap -> 0 .. 255]
  BY <1>1 DEF IInv, TypeOK
<1> QED BY <1>4, <1>5, <1>6

\* A step that takes and gives back nothing.
LEMMA Keep ==
  ASSUME IInv, kern_pts' = kern_pts, space' = space, Held(as)' = Held(as)
  PROVE  /\ DisjointInv'
         /\ frame_map' = frame_map /\ Counting => MapInv'
<1>1. \A p \in Procs : Held(space[p])' = Held(space[p])
  BY DEF Held
<1>2. InUse' = InUse
  BY <1>1 DEF InUse
<1>3. DisjointInv'
  BY <1>1, <1>2 DEF IInv, DisjointInv
<1>4. ASSUME frame_map' = frame_map, Counting
      PROVE  MapInv'
  BY <1>2, <1>4 DEF IInv, MapInv
<1> QED BY <1>3, <1>4

\* A process without an address space holds nothing.
LEMMA EmptySpace ==
  /\ Held(NoSpace) = {} /\ IsAddressSpace(NoSpace)
  /\ NoSpace.pd = Junk
BY MapFacts DEF Held, NoSpace, IsAddressSpace

\* What processes hold depends on their address spaces alone.
LEMMA KeepSpaces ==
  ASSUME IInv, space' = space
  PROVE  SpaceInv' /\ (\A p \in Procs : Held(space[p])' = Held(space[p]))
BY DEF IInv, SpaceInv, Complete, Held

-----------------------------------------------------------------------------
(* The invariant                                                             *)

\* Nothing is held before boot.
LEMMA InitInv == Init => IInv
<1> SUFFICES ASSUME Init PROVE IInv
  OBVIOUS
<1>1. /\ pc = "init_memman" /\ kern_pts = {} /\ heap = {} /\ as = NoSpace
      /\ frame_map = [f \in FrameMap |-> 0] /\ proc \in Procs
      /\ space = [p \in Procs |-> NoSpace]
      /\ i = 0 /\ j = 0 /\ proc_frames = 0
  BY DEF Init
<1>2. TypeOK
  BY <1>1, MachineAssumption, EmptySpace DEF TypeOK
<1>3. MapInv /\ HeapInv /\ SpaceInv /\ CallInv
  BY <1>1 DEF MapInv, HeapInv, SpaceInv, CallInv, Counting, Growing
<1>4. DisjointInv
  <2>1. InUse = {}
    BY <1>1, EmptySpace DEF InUse
  <2> QED BY <1>1, <2>1, EmptySpace DEF DisjointInv
<1> QED BY <1>2, <1>3, <1>4 DEF IInv

\* init_memman marks the reserved frames.
LEMMA InitMemmanStep ==
  ASSUME IInv, InitMemman
  PROVE  IInv'
<1>1. /\ pc = "init_memman" /\ pc' = "init_paging"
      /\ frame_map' = [f \in FrameMap |-> IF f \in Reserved THEN 255 ELSE 0]
      /\ heap' = heap \cup {<<"kernel", "frame_map">>}
      /\ kern_pts' = kern_pts /\ space' = space /\ UNCHANGED call
  BY DEF InitMemman
<1>2. /\ as = NoSpace /\ \A p \in Procs : space[p] = NoSpace
      /\ kern_pts = {} /\ heap = {}
  BY <1>1 DEF IInv, CallInv
<1>3. TypeOK'
  BY <1>1 DEF IInv, TypeOK, call
<1>4. as' = as /\ Held(as)' = Held(as)
  BY <1>1 DEF call, Held
<1>5. InUse' = {}
  BY <1>1, <1>2, <1>4, KeepSpaces, EmptySpace DEF InUse
<1>6. MapInv'
  BY <1>1, <1>5 DEF MapInv
<1>7. DisjointInv' /\ SpaceInv'
  BY <1>1, <1>4, Keep, KeepSpaces
<1>8. CallInv' /\ HeapInv'
  BY <1>1, <1>2, <1>4 DEF CallInv, HeapInv, Growing
<1> QED BY <1>3, <1>6, <1>7, <1>8 DEF IInv

\* init_paging takes frames before there are processes.
LEMMA KernelTableStep ==
  ASSUME IInv, KernelTable
  PROVE  IInv'
<1>1. /\ pc = "init_paging" /\ pc' = pc /\ FreeFrames # {}
      /\ frame_map' = Used(FirstFree)
      /\ kern_pts' = kern_pts \cup {FirstFree}
      /\ heap' = heap /\ space' = space /\ UNCHANGED call
  BY DEF KernelTable
<1>2. /\ FirstFree \in FrameMap /\ FirstFree \notin Reserved
      /\ frame_map' = [f \in FrameMap |-> IF f = FirstFree THEN 1 ELSE frame_map[f]]
  BY <1>1, Fresh DEF Counting
<1>3. as = NoSpace /\ as' = as /\ \A p \in Procs : space[p] = NoSpace
  BY <1>1 DEF IInv, CallInv, call
<1>4. TypeOK'
  BY <1>1, <1>2 DEF IInv, TypeOK, call
<1>5. Held(as)' = {} /\ \A p \in Procs : Held(space[p])' = {}
  BY <1>1, <1>3, KeepSpaces, EmptySpace DEF Held
<1>6. InUse = kern_pts /\ InUse' = kern_pts'
  BY <1>3, <1>5, EmptySpace DEF InUse
<1>7. MapInv'
  BY <1>1, <1>2, <1>6 DEF IInv, MapInv, Counting
<1>8. DisjointInv'
  BY <1>1, <1>2, <1>5, <1>6 DEF IInv, DisjointInv
<1>9. SpaceInv' /\ CallInv' /\ HeapInv'
  BY <1>1, <1>3, KeepSpaces DEF IInv, CallInv, HeapInv, Growing, Counting
<1> QED BY <1>4, <1>7, <1>8, <1>9 DEF IInv

\* From here on processes are created.
LEMMA EnablePagingStep ==
  ASSUME IInv, EnablePaging
  PROVE  IInv'
<1>1. /\ pc = "init_paging" /\ pc' = "idle" /\ as' = as
      /\ UNCHANGED <<frame_map, kern_pts, space, heap, call>>
  BY DEF EnablePaging, call
<1>2. TypeOK'
  BY <1>1 DEF IInv, TypeOK, call
<1>3. Held(as)' = Held(as)
  BY <1>1 DEF Held
<1>4. MapInv' /\ DisjointInv' /\ SpaceInv'
  BY <1>1, <1>3, Keep, KeepSpaces DEF Counting
<1>5. CallInv' /\ HeapInv'
  BY <1>1 DEF IInv, CallInv, HeapInv, Growing, Counting
<1> QED BY <1>2, <1>4, <1>5 DEF IInv

\* alloc_addr_space starts with two lists of junk.
LEMMA CreateProcessStep ==
  ASSUME IInv, NEW p \in Procs, NEW size \in Sizes, CreateProcess(p, size)
  PROVE  IInv'
<1> DEFINE nf == size \div FRAME_LEN + 1
           np == NumTables(nf)
<1>1. /\ pc = "idle" /\ space[p] = NoSpace /\ pc' = "pd" /\ proc' = p
      /\ as' = [pd |-> Junk, frames |-> [n \in 0 .. nf - 1 |-> Junk],
                pts |-> [n \in 0 .. np - 1 |-> Junk], ptes |-> {}]
      /\ i' = 0 /\ j' = 0 /\ proc_frames' = nf
      /\ heap' = heap \cup Lists(p)
      /\ frame_map' = frame_map /\ kern_pts' = kern_pts /\ space' = space
  BY DEF CreateProcess
<1>2. nf \in 1 .. UintMax - 1 /\ np \in 1 .. UintMax
  <2>1. size \in Nat /\ size \div FRAME_LEN \in Nat /\ nf < UintMax
    BY CallersAssumption, MachineAssumption, Quotient
  <2>2. nf \in Nat /\ nf \div PT_ENTRIES \in 0 .. nf
    BY <2>1, MachineAssumption, Quotient
  <2> HIDE DEF nf
  <2> QED BY <2>1, <2>2, MachineAssumption DEF NumTables, nf
<1> HIDE DEF nf, np
<1>3. as = NoSpace /\ Held(as) = {} /\ Held(as)' = {}
  <2>1. as = NoSpace
    BY <1>1 DEF IInv, CallInv
  <2>2. {as'.pts[n] : n \in DOMAIN as'.pts} \subseteq {Junk}
    BY <1>1
  <2>3. Held(as)' = {}
    BY <1>1, <2>2 DEF Held
  <2> QED BY <2>1, <2>3, EmptySpace
<1>4. TypeOK'
  <2>1. IsAddressSpace(as)'
    BY <1>1, <1>2 DEF IsAddressSpace
  <2>2. heap' \subseteq {<<"kernel", "frame_map">>} \cup UNION {Blocks(q) : q \in Procs}
    BY <1>1 DEF IInv, TypeOK, Blocks
  <2> QED BY <1>1, <1>2, <2>1, <2>2, MachineAssumption DEF IInv, TypeOK
<1>5. MapInv' /\ DisjointInv' /\ SpaceInv'
  BY <1>1, <1>3, Keep, KeepSpaces DEF Counting
<1>6. CallInv'
  <2>1. /\ DOMAIN as'.frames = 0 .. nf - 1 /\ DOMAIN as'.pts = 0 .. np - 1
        /\ as'.pd = Junk /\ as'.ptes = {}
        /\ \A n \in 0 .. nf - 1 : as'.frames[n] = Junk
        /\ \A n \in 0 .. np - 1 : as'.pts[n] = Junk
    BY <1>1
  <2>2. {as'.frames[n] : n \in 0 .. nf - nf - 1} = {}
    BY <1>2
  <2>3. CallShape(nf, np)'
    BY <1>1, <1>2, <2>1, <2>2 DEF CallShape
  <2> QED BY <1>1, <1>2, <2>3 DEF IInv, CallInv, Growing
<1>7. HeapInv'
  BY <1>1 DEF IInv, HeapInv, Growing, Counting
<1> QED BY <1>4, <1>5, <1>6, <1>7 DEF IInv

\* memman_free_frame does not count below zero.
LEMMA FreedType ==
  ASSUME TypeOK, NEW S
  PROVE  Freed(S) \in [FrameMap -> 0 .. 255]
BY DEF Freed, TypeOK

\* A step of a call that goes on.
LEMMA CallGoesOn ==
  ASSUME IInv, Growing, NEW nf \in 1 .. UintMax - 1, NEW np \in 1 .. UintMax,
         CallShape(nf, np)', pc' \in {"pd", "pt", "frame"}, space' = space, proc' = proc,
         heap' = heap
  PROVE  CallInv' /\ HeapInv'
BY DEF IInv, CallInv, HeapInv, Growing, Counting

\* The directory is the call's first frame; without one the two lists are given back.
LEMMA AllocDirectoryStep ==
  ASSUME IInv, AllocDirectory
  PROVE  IInv'
<1>1. pc = "pd" /\ Growing
  BY DEF AllocDirectory, Growing
<1>2. PICK nf \in 1 .. UintMax - 1, np \in 1 .. UintMax : CallShape(nf, np)
  BY <1>1 DEF IInv, CallInv
<1>3. /\ DOMAIN as.frames = 0 .. nf - 1 /\ DOMAIN as.pts = 0 .. np - 1
      /\ as.pd = Junk /\ as.ptes = {} /\ i = 0 /\ proc_frames = nf
      /\ \A n \in 0 .. np - 1 : as.pts[n] = Junk
      /\ DOMAIN as = {"pd", "frames", "pts", "ptes"}
  BY <1>1, <1>2 DEF CallShape, IInv, TypeOK, IsAddressSpace
<1>4. Held(as) = {}
  BY <1>3 DEF Held
<1>5. CASE /\ FreeFrames # {} /\ frame_map' = Used(FirstFree)
           /\ as' = [as EXCEPT !.pd = FirstFree]
           /\ pc' = "pt" /\ heap' = heap
  <2>1. UNCHANGED <<kern_pts, space, proc, i, j, proc_frames>>
    BY DEF AllocDirectory
  <2>2. FirstFree \in FrameMap /\ FirstFree # Junk
    BY <1>1, <1>5, Fresh DEF Counting
  <2>3. /\ as'.pd = FirstFree /\ as'.ptes = {} /\ as'.pts = as.pts /\ as'.frames = as.frames
        /\ DOMAIN as' = DOMAIN as
    BY <1>3, <1>5
  <2>4. Held(as)' = Held(as) \cup {FirstFree}
    <3>1. {as'.pts[n] : n \in DOMAIN as'.pts} \subseteq {Junk}
      BY <1>3, <2>3
    <3> QED BY <1>4, <2>2, <2>3, <3>1 DEF Held
  <2>5. MapInv' /\ DisjointInv' /\ SpaceInv' /\ frame_map' \in [FrameMap -> 0 .. 255]
    BY <1>1, <1>5, <2>1, <2>4, Take, KeepSpaces
  <2>6. TypeOK'
    <3>1. IsAddressSpace(as)'
      BY <2>2, <2>3 DEF IInv, TypeOK, IsAddressSpace
    <3>2. UNCHANGED <<kern_pts, space, proc, i, j, proc_frames>> /\ heap' = heap /\ pc' = "pt"
      BY <1>5, <2>1
    <3> QED BY <2>5, <3>1, <3>2 DEF IInv, TypeOK, IsAddressSpace
  <2>7. CallShape(nf, np)'
    <3>1. {as'.frames[n] : n \in 0 .. nf - proc_frames' - 1} = {}
      BY <1>3, <2>1
    <3>2. \A n \in 0 .. np - 1 : as'.pts[n] \notin FrameMap /\ ~ (n < i')
      <4>1. i' = 0
        BY <1>3, <2>1
      <4>2. Junk \notin FrameMap
        BY MapFacts
      <4>3. \A n \in 0 .. np - 1 : as'.pts[n] = Junk
        BY <1>3, <2>3
      <4>4. \A n \in 0 .. np - 1 : ~ (n < i')
        BY <4>1
      <4> QED BY <4>2, <4>3, <4>4
    <3>3. \A n \in 0 .. nf - 1 : n >= PT_ENTRIES => as'.frames[n] = Junk
      BY <1>2, <2>3 DEF CallShape
    <3>4. proc_frames' = nf /\ i' = 0 /\ as'.pd \in FrameMap /\ pc' = "pt"
      BY <1>5, <1>3, <2>1, <2>2, <2>3
    <3>5. /\ DOMAIN as'.frames = 0 .. nf - 1 /\ DOMAIN as'.pts = 0 .. np - 1
      BY <1>3, <2>3
    <3>6. as'.ptes = {as'.frames[n] : n \in 0 .. nf - proc_frames' - 1}
      BY <2>3, <3>1, Zenon
    <3>7. i' <= np /\ proc_frames' <= nf
      BY <3>4
    <3> QED BY <3>2, <3>3, <3>4, <3>5, <3>6, <3>7 DEF CallShape
  <2>8. CallInv' /\ HeapInv'
    BY <1>1, <1>5, <2>1, <2>7, CallGoesOn
  <2> QED BY <2>5, <2>6, <2>7, <2>8 DEF IInv
<1>6. CASE /\ heap' = heap \ Lists(proc) /\ as' = NoSpace /\ pc' = "idle"
           /\ frame_map' = frame_map
  <2>1. UNCHANGED <<kern_pts, space, proc, i, j, proc_frames>>
    BY DEF AllocDirectory
  <2>2. Held(as)' = Held(as)
    BY <1>4, <1>6, EmptySpace DEF Held
  <2>3. MapInv' /\ DisjointInv' /\ SpaceInv'
    BY <1>1, <1>6, <2>1, <2>2, Keep, KeepSpaces DEF Counting
  <2>4. TypeOK'
    BY <1>6, <2>1, EmptySpace DEF IInv, TypeOK, IsAddressSpace
  <2>5. CallInv'
    BY <1>6, <2>1 DEF CallInv, Growing
  <2>6. HeapInv'
    <3>1. /\ space[proc] = NoSpace
          /\ heap = {<<"kernel", "frame_map">>}
                    \cup (UNION {Blocks(p) : p \in {q \in Procs : space[q] # NoSpace}})
                    \cup Lists(proc)
      BY <1>1 DEF IInv, CallInv, HeapInv, Growing, Counting
    <3>2. <<"kernel", "frame_map">> \notin Lists(proc)
      BY DEF Lists
    <3>3. \A p \in Procs : space[p] # NoSpace => Blocks(p) \cap Lists(proc) = {}
      BY <3>1 DEF Blocks, Lists
    <3>4. heap' = {<<"kernel", "frame_map">>}
                  \cup (UNION {Blocks(p) : p \in {q \in Procs : space[q] # NoSpace}})
      BY <1>6, <3>1, <3>2, <3>3
    <3> QED BY <1>6, <2>1, <3>4 DEF HeapInv, Growing
  <2> QED BY <2>3, <2>4, <2>5, <2>6 DEF IInv
<1> QED BY <1>5, <1>6 DEF AllocDirectory, GivenBack

\* The cleanup loops' counters wrap within 32 bits.
LEMMA DecrementType ==
  ASSUME NEW n \in 0 .. UintMax
  PROVE  Decrement(n) \in 0 .. UintMax
BY MachineAssumption DEF Decrement

\* Where a call fails for good, or memory is damaged, nothing more is said.
LEMMA GiveUp ==
  ASSUME IInv, kern_pts' = kern_pts, space' = space, as' = as,
         pc' \in {"undo_frames", "undo_pts", "runaway", "corrupt"}
  PROVE  MapInv' /\ DisjointInv' /\ SpaceInv' /\ CallInv' /\ HeapInv'
<1>1. Held(as)' = Held(as)
  BY DEF Held
<1>2. DisjointInv' /\ SpaceInv'
  BY <1>1, Keep, KeepSpaces
<1> QED BY <1>2 DEF MapInv, CallInv, HeapInv, Counting, Growing

\* A table is the call's next frame, or the call fails for good.
LEMMA AllocTableStep ==
  ASSUME IInv, AllocTable
  PROVE  IInv'
<1>1. /\ pc = "pt" /\ Growing /\ i \in DOMAIN as.pts
      /\ UNCHANGED <<kern_pts, space, proc, proc_frames>>
  BY DEF AllocTable, Growing
<1>2. PICK nf \in 1 .. UintMax - 1, np \in 1 .. UintMax : CallShape(nf, np)
  BY <1>1 DEF IInv, CallInv
<1>3. CASE /\ FreeFrames # {} /\ frame_map' = Used(FirstFree)
           /\ as' = [as EXCEPT !.pts[i] = FirstFree]
           /\ j' = 0 /\ pc' = "frame" /\ UNCHANGED <<heap, i>>
  <2> DEFINE F == FirstFree
  <2>0. /\ FreeFrames # {} /\ frame_map' = Used(F)
        /\ j' = 0 /\ pc' = "frame" /\ heap' = heap /\ i' = i
    BY <1>3
  <2>1. F \in FrameMap /\ F # Junk
    BY <1>1, <2>0, Fresh DEF Counting
  <2> HIDE DEF F
  <2>2. /\ DOMAIN as = {"pd", "frames", "pts", "ptes"}
        /\ \A n \in DOMAIN as.pts : as.pts[n] \in FrameMap \cup {Junk}
        /\ proc_frames \in Nat /\ i \in Nat
    <3>1. IsAddressSpace(as) /\ proc_frames \in Nat /\ i \in Nat
      BY DEF IInv, TypeOK
    <3> QED BY <3>1 DEF IsAddressSpace
  <2>3. /\ as'.pd = as.pd /\ as'.frames = as.frames /\ as'.ptes = as.ptes
        /\ DOMAIN as'.pts = DOMAIN as.pts /\ DOMAIN as' = DOMAIN as
        /\ \A n \in DOMAIN as.pts : as'.pts[n] = IF n = i THEN F ELSE as.pts[n]
    BY <1>1, <1>3, <2>2 DEF F
  <2>4. /\ DOMAIN as.frames = 0 .. nf - 1 /\ DOMAIN as.pts = 0 .. np - 1
        /\ proc_frames <= nf /\ as.pd \in FrameMap
        /\ \A n \in 0 .. np - 1 : as.pts[n] \in FrameMap <=> n < i
    BY <1>1, <1>2 DEF CallShape
  <2>5. as.pts[i] = Junk
    <3> DEFINE P == as.pts
    <3>1. i \in DOMAIN P /\ DOMAIN P = 0 .. np - 1 /\ P[i] \in FrameMap \cup {Junk}
      BY <1>1, <2>2, <2>4
    <3>2. P[i] \in FrameMap <=> i < i
      BY <2>4, <3>1
    <3> HIDE DEF P
    <3>3. P[i] = Junk
      BY <2>2, <3>1, <3>2
    <3> QED BY <3>3 DEF P
  <2>6. Held(as)' = Held(as) \cup {F}
    <3>1. {as'.pts[n] : n \in DOMAIN as'.pts} \subseteq {as.pts[n] : n \in DOMAIN as.pts} \cup {F}
      BY <2>3
    <3>2. {as.pts[n] : n \in DOMAIN as.pts} \subseteq {as'.pts[n] : n \in DOMAIN as'.pts} \cup {Junk}
      BY <2>3, <2>5
    <3>3. F \in {as'.pts[n] : n \in DOMAIN as'.pts}
      BY <1>1, <2>3
    <3> QED BY <2>1, <2>3, <3>1, <3>2, <3>3 DEF Held
  <2>7. MapInv' /\ DisjointInv' /\ SpaceInv' /\ frame_map' \in [FrameMap -> 0 .. 255]
    BY <1>1, <2>0, <2>6, Take, KeepSpaces DEF F
  <2>8. TypeOK'
    <3>1. IsAddressSpace(as)'
      BY <2>1, <2>2, <2>3 DEF IInv, TypeOK, IsAddressSpace
    <3>2. i' \in DOMAIN as'.pts /\ j' <= PT_ENTRIES /\ j' \in 0 .. UintMax
      <4>1. i' \in DOMAIN as'.pts
        BY <1>1, <2>0, <2>3
      <4>2. 0 <= PT_ENTRIES /\ 0 \in 0 .. UintMax
        BY MachineAssumption
      <4> QED BY <2>0, <4>1, <4>2
    <3> QED BY <1>1, <2>0, <2>7, <3>1, <3>2 DEF IInv, TypeOK
  <2>9. CallShape(nf, np)'
    <3>1. i \in 0 .. np - 1 /\ i' = i /\ j' + proc_frames' <= nf /\ proc_frames' <= nf
      BY <1>1, <2>0, <2>2, <2>4
    <3>2. \A n \in 0 .. np - 1 : as'.pts[n] \in FrameMap <=> n <= i'
      <4> TAKE n \in 0 .. np - 1
      <4>1. CASE n = i
        <5>1. as'.pts[i] = F
          BY <1>1, <2>3
        <5>2. n <= i'
          BY <2>2, <3>1, <4>1
        <5> QED BY <2>1, <4>1, <5>1, <5>2
      <4>2. CASE n # i
        <5>1. as'.pts[n] = as.pts[n] /\ (as.pts[n] \in FrameMap <=> n < i)
          BY <2>3, <2>4, <4>2
        <5>2. n < i <=> n <= i'
          BY <2>2, <3>1, <4>2
        <5> QED BY <5>1, <5>2
      <4> QED BY <4>1, <4>2
    <3>3. \A n \in 0 .. nf - 1 : n >= PT_ENTRIES => as'.frames[n] = Junk
      <4>1. \A n \in 0 .. nf - 1 : n >= PT_ENTRIES => as.frames[n] = Junk
        BY <1>2 DEF CallShape
      <4> QED BY <2>3, <4>1
    <3>4. nf <= PT_ENTRIES =>
            as'.ptes = {as'.frames[n] : n \in 0 .. nf - proc_frames' - 1}
      <4>1. nf <= PT_ENTRIES =>
              as.ptes = {as.frames[n] : n \in 0 .. nf - proc_frames - 1}
        BY <1>2 DEF CallShape
      <4>2. as'.ptes = as.ptes /\ as'.frames = as.frames /\ proc_frames' = proc_frames
        BY <1>1, <2>3
      <4> QED BY <4>1, <4>2, Zenon
    <3>5. nf <= PT_ENTRIES /\ proc_frames' # 0 => i' = 0 /\ j' = nf - proc_frames'
      BY <1>1, <1>2, <2>0, <2>2 DEF CallShape
    <3>6. /\ as'.pd \in FrameMap /\ pc' = "frame"
          /\ DOMAIN as'.frames = 0 .. nf - 1 /\ DOMAIN as'.pts = 0 .. np - 1
      BY <2>0, <2>3, <2>4
    <3>7. i' < np
      BY <3>1
    <3> QED BY <3>1, <3>2, <3>3, <3>4, <3>5, <3>6, <3>7 DEF CallShape
  <2>10. CallInv' /\ HeapInv'
    BY <1>1, <2>0, <2>9, CallGoesOn
  <2> QED BY <2>7, <2>8, <2>10 DEF IInv
<1>4. CASE /\ frame_map' = Freed({as.pd}) /\ heap' = heap \ {<<proc, "frames">>}
           /\ i' = Decrement(i) /\ pc' = "undo_pts" /\ UNCHANGED <<as, j>>
  <2>1. TypeOK'
    BY <1>1, <1>4, FreedType, DecrementType DEF IInv, TypeOK
  <2> QED BY <1>1, <1>4, <2>1, GiveUp DEF IInv
<1> QED BY <1>3, <1>4 DEF AllocTable

\* A frame goes on the list at j, which is free as long as one table is enough.
LEMMA AllocFrameStep ==
  ASSUME IInv, AllocFrame
  PROVE  IInv'
<1>1. /\ pc = "frame" /\ Growing /\ j < PT_ENTRIES /\ proc_frames # 0
      /\ UNCHANGED <<kern_pts, space, heap, proc, i>>
  BY DEF AllocFrame, MoreEntries, Growing
<1>2. PICK nf \in 1 .. UintMax - 1, np \in 1 .. UintMax : CallShape(nf, np)
  BY <1>1 DEF IInv, CallInv
<1>3. CASE /\ FreeFrames # {} /\ frame_map' = Used(FirstFree)
           /\ as' = [as EXCEPT !.frames[j] = FirstFree, !.ptes = @ \cup {FirstFree}]
           /\ j' = j + 1 /\ proc_frames' = proc_frames - 1 /\ pc' = pc
  <2> DEFINE F == FirstFree
  <2>0. /\ FreeFrames # {} /\ frame_map' = Used(F)
        /\ j' = j + 1 /\ proc_frames' = proc_frames - 1 /\ pc' = pc
    BY <1>3
  <2>1. F \in FrameMap /\ F # Junk
    BY <1>1, <2>0, Fresh DEF Counting
  <2> HIDE DEF F
  <2>2. /\ DOMAIN as = {"pd", "frames", "pts", "ptes"}
        /\ proc_frames \in Nat /\ j \in Nat /\ i \in Nat
    BY DEF IInv, TypeOK, IsAddressSpace
  <2>3. /\ DOMAIN as.frames = 0 .. nf - 1 /\ DOMAIN as.pts = 0 .. np - 1
        /\ proc_frames <= nf /\ j + proc_frames <= nf /\ i < np
    BY <1>1, <1>2 DEF CallShape
  <2>4. j \in DOMAIN as.frames
    BY <1>1, <2>2, <2>3
  <2>5. /\ as'.pd = as.pd /\ as'.pts = as.pts /\ as'.ptes = as.ptes \cup {F}
        /\ DOMAIN as'.frames = DOMAIN as.frames /\ DOMAIN as' = DOMAIN as
        /\ \A n \in DOMAIN as.frames : as'.frames[n] = IF n = j THEN F ELSE as.frames[n]
    BY <1>3, <2>2, <2>4 DEF F
  <2>6. Held(as)' = Held(as) \cup {F}
    BY <2>1, <2>5 DEF Held
  <2>7. MapInv' /\ DisjointInv' /\ SpaceInv' /\ frame_map' \in [FrameMap -> 0 .. 255]
    BY <1>1, <2>0, <2>6, Take, KeepSpaces DEF F
  <2>8. TypeOK'
    <3>1. IsAddressSpace(as)'
      BY <2>1, <2>5 DEF IInv, TypeOK, IsAddressSpace
    <3>2. j' \in 0 .. UintMax /\ proc_frames' \in 0 .. UintMax
      BY <1>1, <2>0, <2>2, <2>3, MachineAssumption
    <3>3. i' \in DOMAIN as'.pts /\ j' <= PT_ENTRIES
      <4>1. i \in DOMAIN as.pts
        BY <1>1 DEF IInv, TypeOK
      <4>2. i' \in DOMAIN as'.pts
        BY <1>1, <2>5, <4>1
      <4>3. j + 1 <= PT_ENTRIES
        <5>1. j \in Nat /\ PT_ENTRIES \in Nat /\ j < PT_ENTRIES
          BY <1>1, <2>2, MachineAssumption
        <5> QED BY <5>1
      <4> QED BY <2>0, <4>2, <4>3
    <3> QED BY <1>1, <2>0, <2>7, <3>1, <3>2, <3>3 DEF IInv, TypeOK
  <2>9. CallShape(nf, np)'
    <3>1. i' < np /\ j' + proc_frames' <= nf /\ proc_frames' <= nf
      BY <1>1, <2>0, <2>2, <2>3
    <3>2. \A n \in 0 .. np - 1 : as'.pts[n] \in FrameMap <=> n <= i'
      BY <1>1, <1>2, <2>5 DEF CallShape
    <3>3. \A n \in 0 .. nf - 1 : n >= PT_ENTRIES => as'.frames[n] = Junk
      <4>1. \A n \in 0 .. nf - 1 : n >= PT_ENTRIES => as.frames[n] = Junk
        BY <1>2 DEF CallShape
      <4>2. \A n \in 0 .. nf - 1 : n >= PT_ENTRIES => n # j
        BY <1>1, <2>2, MachineAssumption
      <4> QED BY <2>3, <2>5, <4>1, <4>2
    <3>4. ASSUME nf <= PT_ENTRIES
          PROVE  /\ as'.ptes = {as'.frames[n] : n \in 0 .. nf - proc_frames' - 1}
                 /\ i' = 0 /\ j' = nf - proc_frames'
      <4>1. /\ as.ptes = {as.frames[n] : n \in 0 .. nf - proc_frames - 1}
            /\ i = 0 /\ j = nf - proc_frames
        BY <1>1, <1>2, <3>4 DEF CallShape
      <4>2. /\ nf - proc_frames - 1 = j - 1 /\ nf - proc_frames' - 1 = j
            /\ j' = nf - proc_frames'
        BY <2>0, <2>2, <4>1
      <4>3. 0 .. j = (0 .. j - 1) \cup {j} /\ 0 .. j \subseteq DOMAIN as.frames
        BY <2>2, <2>3, <2>4
      <4>4. \A n \in 0 .. j - 1 : as'.frames[n] = as.frames[n]
        <5>1. \A n \in 0 .. j - 1 : n \in 0 .. j /\ n # j
          BY <2>2
        <5> QED BY <2>5, <4>3, <5>1
      <4>5. {as'.frames[n] : n \in 0 .. j} = {as.frames[n] : n \in 0 .. j - 1} \cup {F}
        <5>1. as'.frames[j] = F
          BY <2>4, <2>5
        <5>2. {as'.frames[n] : n \in 0 .. j} = {as'.frames[n] : n \in 0 .. j - 1} \cup {as'.frames[j]}
          BY <4>3
        <5>3. {as'.frames[n] : n \in 0 .. j - 1} = {as.frames[n] : n \in 0 .. j - 1}
          BY <4>4
        <5> QED BY <5>1, <5>2, <5>3
      <4> QED BY <1>1, <2>5, <4>1, <4>2, <4>5
    <3>5. as'.pd \in FrameMap /\ pc' = "frame"
      BY <1>1, <1>2, <2>0, <2>5 DEF CallShape
    <3> QED BY <2>3, <2>5, <3>1, <3>2, <3>3, <3>4, <3>5 DEF CallShape
  <2>10. CallInv' /\ HeapInv'
    BY <1>1, <2>0, <2>9, CallGoesOn
  <2> QED BY <2>7, <2>8, <2>10 DEF IInv
<1>4. CASE /\ frame_map' = Freed({as.pd}) /\ j' = Decrement(j) /\ pc' = "undo_frames"
           /\ UNCHANGED <<as, proc_frames>>
  <2>1. TypeOK'
    BY <1>1, <1>4, FreedType, DecrementType DEF IInv, TypeOK
  <2> QED BY <1>1, <1>4, <2>1, GiveUp DEF IInv
<1> QED BY <1>3, <1>4 DEF AllocFrame

\* With one table enough, the inner loop ends because no frame is left to allocate.
LEMMA NextTableStep ==
  ASSUME IInv, NextTable
  PROVE  IInv'
<1>1. /\ pc = "frame" /\ Growing /\ ~ (j < PT_ENTRIES /\ proc_frames # 0)
      /\ i' = i + 1 /\ pc' = "pt" /\ as' = as /\ j' = j /\ proc_frames' = proc_frames
      /\ proc' = proc /\ frame_map' = frame_map /\ heap' = heap
      /\ kern_pts' = kern_pts /\ space' = space
  BY DEF NextTable, MoreEntries, Growing
<1>2. PICK nf \in 1 .. UintMax - 1, np \in 1 .. UintMax : CallShape(nf, np)
  BY <1>1 DEF IInv, CallInv
<1>3. /\ i \in Nat /\ j \in Nat /\ proc_frames \in Nat /\ i < np
      /\ \A n \in 0 .. np - 1 : as.pts[n] \in FrameMap <=> n <= i
  <2>1. i \in Nat /\ j \in Nat /\ proc_frames \in Nat
    BY DEF IInv, TypeOK
  <2>2. i < np /\ \A n \in 0 .. np - 1 : as.pts[n] \in FrameMap <=> n <= i
    BY <1>1, <1>2 DEF CallShape
  <2> QED BY <2>1, <2>2
<1>4. Held(as)' = Held(as)
  BY <1>1 DEF Held
<1>5. MapInv' /\ DisjointInv' /\ SpaceInv'
  BY <1>1, <1>4, Keep, KeepSpaces DEF Counting
<1>6. TypeOK'
  <2>1. i' \in 0 .. UintMax
    BY <1>1, <1>3, MachineAssumption
  <2> QED BY <1>1, <2>1 DEF IInv, TypeOK
<1>7. CallShape(nf, np)'
  <2>1. \A n \in 0 .. np - 1 : as'.pts[n] \in FrameMap <=> n < i'
    <3>1. \A n \in 0 .. np - 1 : n <= i <=> n < i'
      BY <1>1, <1>3
    <3> QED BY <1>1, <1>3, <3>1
  <2>2. i' <= np
    BY <1>1, <1>3
  <2>3. nf <= PT_ENTRIES => proc_frames = 0
    <3>1. nf <= PT_ENTRIES /\ proc_frames # 0 => j = nf - proc_frames
      BY <1>1, <1>2 DEF CallShape
    <3> QED BY <1>1, <1>3, <3>1, MachineAssumption
  <2> QED BY <1>1, <1>2, <2>1, <2>2, <2>3 DEF CallShape
<1>8. CallInv' /\ HeapInv'
  BY <1>1, <1>7, CallGoesOn
<1> QED BY <1>5, <1>6, <1>8 DEF IInv

\* The frames of the call become the process's.
LEMMA CreatedStep ==
  ASSUME IInv, Created
  PROVE  IInv'
<1>1. /\ pc = "pt" /\ Growing /\ i \notin DOMAIN as.pts
      /\ space' = [space EXCEPT ![proc] = as]
      /\ heap' = heap \cup Blocks(proc)
      /\ as' = NoSpace /\ pc' = "idle"
      /\ frame_map' = frame_map /\ kern_pts' = kern_pts
      /\ UNCHANGED <<proc, i, j, proc_frames>>
  BY DEF Created, Growing
<1>2. PICK nf \in 1 .. UintMax - 1, np \in 1 .. UintMax : CallShape(nf, np)
  BY <1>1 DEF IInv, CallInv
<1>3. /\ DOMAIN space = Procs /\ proc \in Procs /\ space[proc] = NoSpace
      /\ IsAddressSpace(as) /\ i \in Nat /\ proc_frames \in Nat
  BY <1>1 DEF IInv, TypeOK, CallInv
<1>4. \A p \in Procs : space'[p] = IF p = proc THEN as ELSE space[p]
  BY <1>1, <1>3
<1>5. /\ as.pd \in FrameMap /\ DOMAIN as.pts = 0 .. np - 1 /\ i <= np
      /\ \A n \in 0 .. np - 1 : as.pts[n] \in FrameMap <=> n < i
  BY <1>1, <1>2 DEF CallShape
<1>6. i = np
  BY <1>1, <1>3, <1>5
<1>7. as # NoSpace
  BY <1>5, EmptySpace, MapFacts
<1>8. TypeOK'
  <2>1. \A p \in Procs : IsAddressSpace(space'[p])
    BY <1>3, <1>4 DEF IInv, TypeOK
  <2>2. \A p \in Procs : IsAddressSpace(space[p])'
    BY <2>1 DEF IsAddressSpace
  <2>3. heap' \subseteq {<<"kernel", "frame_map">>} \cup UNION {Blocks(p) : p \in Procs}
    BY <1>1, <1>3 DEF IInv, TypeOK
  <2>4. IsAddressSpace(as)' /\ DOMAIN space' = Procs
    BY <1>1, <1>3, EmptySpace DEF IsAddressSpace
  <2> QED BY <1>1, <2>2, <2>3, <2>4 DEF IInv, TypeOK
<1>9. SpaceInv'
  <2>1. \A n \in DOMAIN as.pts : as.pts[n] \in FrameMap
    <3>1. \A n \in 0 .. np - 1 : n < i
      BY <1>6
    <3> QED BY <1>5, <3>1
  <2>2. ASSUME Junk \notin {as.frames[n] : n \in DOMAIN as.frames}
        PROVE  as.ptes = {as.frames[n] : n \in DOMAIN as.frames}
    <3>1. DOMAIN as.frames = 0 .. nf - 1
      BY <1>2 DEF CallShape
    <3>2. nf <= PT_ENTRIES
      <4>1. SUFFICES ASSUME nf > PT_ENTRIES PROVE FALSE
        BY MachineAssumption
      <4>2. PT_ENTRIES \in 0 .. nf - 1
        BY <4>1, MachineAssumption
      <4>3. \A n \in 0 .. nf - 1 : n >= PT_ENTRIES => as.frames[n] = Junk
        BY <1>2 DEF CallShape
      <4>4. PT_ENTRIES >= PT_ENTRIES
        BY MachineAssumption
      <4> QED BY <2>2, <3>1, <4>2, <4>3, <4>4
    <3>3. /\ as.ptes = {as.frames[n] : n \in 0 .. nf - proc_frames - 1}
          /\ proc_frames = 0
      <4>1. proc_frames # 0 => i = 0
        BY <1>2, <3>2 DEF CallShape
      <4>2. as.ptes = {as.frames[n] : n \in 0 .. nf - proc_frames - 1}
        BY <1>2, <3>2 DEF CallShape
      <4> QED BY <1>6, <4>1, <4>2
    <3>4. nf - proc_frames - 1 = nf - 1
      BY <3>3
    <3> QED BY <3>1, <3>3, <3>4
  <2>3. Complete(as)
    BY <1>5, <2>1, <2>2 DEF Complete
  <2>4. \A p \in Procs : space'[p] # NoSpace => Complete(space'[p])
    BY <1>4, <2>3 DEF IInv, SpaceInv
  <2> QED BY <2>4 DEF SpaceInv, Complete
<1>10. /\ \A p \in Procs : Held(space[p])' = IF p = proc THEN Held(as) ELSE Held(space[p])
       /\ Held(space[proc]) = {} /\ Held(as)' = {}
  <2>1. \A p \in Procs : Held(space'[p]) = IF p = proc THEN Held(as) ELSE Held(space[p])
    BY <1>4
  <2>2. \A p \in Procs : Held(space[p])' = Held(space'[p])
    BY DEF Held
  <2>3. Held(as)' = {}
    BY <1>1, EmptySpace DEF Held
  <2> QED BY <1>3, <2>1, <2>2, <2>3, EmptySpace
<1>11. InUse' = InUse
  <2>1. UNION {Held(space[p])' : p \in Procs} = (UNION {Held(space[p]) : p \in Procs}) \cup Held(as)
    BY <1>3, <1>10
  <2>2. InUse' = kern_pts' \cup (UNION {Held(space[p])' : p \in Procs}) \cup Held(as)'
    BY DEF InUse
  <2> QED BY <1>1, <1>10, <2>1, <2>2 DEF InUse
<1>12. MapInv'
  BY <1>1, <1>11 DEF IInv, MapInv, Counting
<1>13. DisjointInv'
  BY <1>1, <1>3, <1>10, <1>11 DEF IInv, DisjointInv
<1>14. CallInv'
  BY <1>1 DEF CallInv, Growing
<1>15. HeapInv'
  <2>1. heap = {<<"kernel", "frame_map">>}
               \cup (UNION {Blocks(p) : p \in {q \in Procs : space[q] # NoSpace}})
               \cup Lists(proc)
    BY <1>1 DEF IInv, HeapInv, Counting
  <2>2. {q \in Procs : space'[q] # NoSpace} = {q \in Procs : space[q] # NoSpace} \cup {proc}
    BY <1>3, <1>4, <1>7
  <2>3. Lists(proc) \subseteq Blocks(proc)
    BY DEF Blocks
  <2>4. heap' = {<<"kernel", "frame_map">>}
                \cup (UNION {Blocks(p) : p \in {q \in Procs : space'[q] # NoSpace}})
    BY <1>1, <2>1, <2>2, <2>3
  <2> QED BY <1>1, <2>4 DEF HeapInv, Growing
<1> QED BY <1>8, <1>9, <1>12, <1>13, <1>14, <1>15 DEF IInv

\* The cleanup loops touch neither address spaces nor blocks.
LEMMA UndoStep ==
  ASSUME IInv, UndoFrames \/ UndoTables \/ BeyondTheMap
  PROVE  IInv'
<1>1. /\ kern_pts' = kern_pts /\ space' = space /\ heap' = heap /\ as' = as /\ proc' = proc
      /\ proc_frames' = proc_frames
      /\ pc' \in {"undo_frames", "undo_pts", "runaway", "corrupt"}
      /\ i' = i \/ i' = Decrement(i)
      /\ j' = j \/ j' = Decrement(j)
      /\ frame_map' = frame_map \/ \E S : frame_map' = Freed(S)
  BY DEF UndoFrames, UndoTables, BeyondTheMap, call
<1>2. TypeOK'
  <2>1. TypeOK /\ frame_map' \in [FrameMap -> 0 .. 255]
    <3>1. TypeOK
      BY DEF IInv
    <3>2. frame_map \in [FrameMap -> 0 .. 255]
      BY <3>1 DEF TypeOK
    <3>3. CASE frame_map' = frame_map
      BY <3>1, <3>2, <3>3
    <3>4. ASSUME NEW S, frame_map' = Freed(S)
          PROVE  TypeOK /\ frame_map' \in [FrameMap -> 0 .. 255]
      BY <3>1, <3>4, FreedType
    <3> QED BY <1>1, <3>3, <3>4
  <2>2. i' \in 0 .. UintMax /\ j' \in 0 .. UintMax
    BY <1>1, <2>1, DecrementType DEF TypeOK
  <2>3. pc' # "frame"
    BY <1>1
  <2> QED BY <1>1, <2>1, <2>2, <2>3 DEF TypeOK
<1> QED BY <1>1, <1>2, GiveUp DEF IInv

\* If nothing on the lists of an address space is junk, what free_addr_space gives back
\* is what the process holds.
LEMMA FreesWhatIsHeld ==
  ASSUME IInv, NEW p \in Procs, space[p] # NoSpace, Junk \notin FramesOf(space[p])
  PROVE  FramesOf(space[p]) = Held(space[p])
<1> DEFINE s == space[p]
<1>1. s.ptes = {s.frames[n] : n \in DOMAIN s.frames}
  <2>1. Junk \notin {s.frames[n] : n \in DOMAIN s.frames}
    BY DEF FramesOf
  <2> QED BY <2>1 DEF IInv, SpaceInv, Complete
<1>2. Junk \notin FramesOf(s)
  OBVIOUS
<1> QED BY <1>1, <1>2 DEF FramesOf, Held

\* process_kill unmarks what the process held, and nothing else.
LEMMA ProcessKillStep ==
  ASSUME IInv, NEW p \in Procs, ProcessKill(p)
  PROVE  IInv'
<1>1. /\ pc = "idle" /\ space[p] # NoSpace /\ kern_pts' = kern_pts /\ UNCHANGED call
  BY DEF ProcessKill
<1>2. as' = as /\ as = NoSpace /\ Held(as)' = {} /\ Held(as) = {}
  BY <1>1, EmptySpace DEF call, IInv, CallInv, Held
<1>3. CASE Junk \in FramesOf(space[p])
  <2>1. pc' = "corrupt" /\ frame_map' = frame_map /\ space' = space /\ heap' = heap
    BY <1>3 DEF ProcessKill
  <2>2. TypeOK'
    BY <1>1, <2>1 DEF IInv, TypeOK, call
  <2> QED BY <1>1, <1>2, <2>1, <2>2, GiveUp DEF IInv
<1>4. CASE Junk \notin FramesOf(space[p])
  <2>1. /\ frame_map' = Freed(Held(space[p]))
        /\ heap' = heap \ (Lists(p) \cup Destroyed(p))
        /\ space' = [space EXCEPT ![p] = NoSpace] /\ pc' = "idle"
    BY <1>1, <1>4, FreesWhatIsHeld DEF ProcessKill
  <2>2. DOMAIN space = Procs
    BY DEF IInv, TypeOK
  <2>3. \A q \in Procs : space'[q] = IF q = p THEN NoSpace ELSE space[q]
    BY <2>1, <2>2
  <2>4. \A q \in Procs : Held(space[q])' = IF q = p THEN {} ELSE Held(space[q])
    BY <2>3, EmptySpace DEF Held
  <2>5. TypeOK'
    <3>1. \A q \in Procs : IsAddressSpace(space'[q])
      BY <2>3, EmptySpace DEF IInv, TypeOK
    <3>2. \A q \in Procs : IsAddressSpace(space[q])'
      BY <3>1 DEF IsAddressSpace
    <3>3. heap' \subseteq {<<"kernel", "frame_map">>} \cup UNION {Blocks(q) : q \in Procs}
      BY <2>1 DEF IInv, TypeOK
    <3>4. frame_map' \in [FrameMap -> 0 .. 255] /\ DOMAIN space' = Procs
      BY <2>1, <2>2, FreedType DEF IInv
    <3> QED BY <1>1, <2>1, <3>2, <3>3, <3>4 DEF IInv, TypeOK, call
  <2>6. SpaceInv'
    <3>1. \A q \in Procs : space'[q] # NoSpace => Complete(space'[q])
      BY <2>3 DEF IInv, SpaceInv
    <3> QED BY <3>1 DEF SpaceInv, Complete
  <2>7. InUse' = InUse \ Held(space[p])
    <3>1. UNION {Held(space[q])' : q \in Procs} = (UNION {Held(space[q]) : q \in Procs}) \ Held(space[p])
      BY <2>4 DEF IInv, DisjointInv
    <3>2. InUse' = kern_pts' \cup (UNION {Held(space[q])' : q \in Procs}) \cup Held(as)'
      BY DEF InUse
    <3>3. Held(space[p]) \cap kern_pts = {}
      BY DEF IInv, DisjointInv
    <3> QED BY <1>1, <1>2, <3>1, <3>2, <3>3 DEF InUse
  <2>8. MapInv'
    <3>1. Held(space[p]) \cap Reserved = {} /\ Held(space[p]) \subseteq InUse
      BY DEF InUse, IInv, DisjointInv
    <3>2. \A f \in FrameMap : frame_map[f] = IF f \in Reserved THEN 255 ELSE IF f \in InUse THEN 1 ELSE 0
      BY <1>1 DEF IInv, MapInv, Counting
    <3>3. \A f \in FrameMap : frame_map'[f] = IF f \in Reserved THEN 255 ELSE IF f \in InUse' THEN 1 ELSE 0
      BY <2>1, <2>7, <3>1, <3>2 DEF Freed
    <3> QED BY <3>3 DEF MapInv
  <2>9. DisjointInv'
    BY <1>1, <1>2, <2>4, <2>7 DEF IInv, DisjointInv
  <2>10. CallInv'
    BY <1>2, <2>1 DEF CallInv, Growing
  <2>11. HeapInv'
    <3>1. heap = {<<"kernel", "frame_map">>}
                 \cup (UNION {Blocks(q) : q \in {r \in Procs : space[r] # NoSpace}})
      BY <1>1 DEF IInv, HeapInv, Counting, Growing
    <3>2. {r \in Procs : space'[r] # NoSpace} = {r \in Procs : space[r] # NoSpace} \ {p}
      BY <2>3
    <3>3. Lists(p) \cup Destroyed(p) = Blocks(p)
      BY DEF Blocks, Destroyed
    <3>4. /\ <<"kernel", "frame_map">> \notin Blocks(p)
          /\ \A q \in Procs : q # p => Blocks(q) \cap Blocks(p) = {}
      BY DEF Blocks, Lists
    <3>5. heap' = {<<"kernel", "frame_map">>}
                  \cup (UNION {Blocks(q) : q \in {r \in Procs : space'[r] # NoSpace}})
      BY <2>1, <3>1, <3>2, <3>3, <3>4
    <3> QED BY <2>1, <3>5 DEF HeapInv, Growing
  <2> QED BY <2>5, <2>6, <2>8, <2>9, <2>10, <2>11 DEF IInv
<1> QED BY <1>3, <1>4

\* A step of others changes nothing here.
LEMMA StutterStep ==
  ASSUME IInv, vars' = vars
  PROVE  IInv'
<1>1. /\ as' = as /\ space' = space /\ kern_pts' = kern_pts /\ frame_map' = frame_map
      /\ heap' = heap /\ pc' = pc /\ UNCHANGED call
  BY DEF vars, call
<1>2. Held(as)' = Held(as)
  BY <1>1 DEF Held
<1>3. DisjointInv' /\ SpaceInv' /\ (Counting => MapInv')
  BY <1>1, <1>2, Keep, KeepSpaces
<1>4. TypeOK' /\ HeapInv'
  BY <1>1 DEF IInv, TypeOK, HeapInv, Counting, Growing, call
<1>5. MapInv'
  BY <1>1, <1>3 DEF MapInv, Counting, Growing
<1>6. CallInv'
  <2>1. CASE Growing
    <3>1. PICK nf \in 1 .. UintMax - 1, np \in 1 .. UintMax : CallShape(nf, np)
      BY <2>1 DEF IInv, CallInv
    <3>2. CallShape(nf, np)'
      BY <1>1, <3>1 DEF CallShape, call
    <3>3. pc' \in {"pd", "pt", "frame"} /\ proc' = proc
      BY <1>1, <2>1 DEF Growing, call
    <3> QED BY <1>1, <2>1, <3>2, <3>3, CallGoesOn
  <2>2. CASE ~Growing
    BY <1>1, <2>2 DEF IInv, CallInv, Growing
  <2> QED BY <2>1, <2>2
<1> QED BY <1>3, <1>4, <1>5, <1>6 DEF IInv

\* The frames of the kernel, of the processes and of the call in progress are disjoint
\* and are those that are marked, through boot, creation, failure and exit.
THEOREM Invariance == Spec => []IInv
<1>1. ASSUME IInv, [Next]_vars
      PROVE  IInv'
  BY <1>1, InitMemmanStep, KernelTableStep, EnablePagingStep, CreateProcessStep,
     AllocDirectoryStep, AllocTableStep, AllocFrameStep, NextTableStep, CreatedStep,
     UndoStep, ProcessKillStep, StutterStep
     DEF Next
<1> QED BY <1>1, InitInv, PTL DEF Spec

\* The counts stay within their 8 bits, the lists hold frames of the map or junk, and
\* the loop counters fit their 32 bits.
THEOREM TypeCorrect == Spec => []TypeOK
<1>1. IInv => TypeOK
  BY DEF IInv
<1> QED BY <1>1, Invariance, PTL

\* A complete address space holds no junk.
LEMMA HeldIsHas ==
  ASSUME IInv, NEW p \in Procs
  PROVE  Has(p) = Held(space[p]) /\ Has(p) \subseteq FrameMap
<1>1. CASE space[p] = NoSpace
  BY <1>1, EmptySpace DEF Has
<1>2. CASE space[p] # NoSpace
  <2>1. /\ space[p].pd \in FrameMap /\ space[p].ptes \subseteq FrameMap
        /\ \A n \in DOMAIN space[p].pts : space[p].pts[n] \in FrameMap
    BY <1>2 DEF IInv, SpaceInv, Complete, TypeOK, IsAddressSpace
  <2> QED BY <1>2, <2>1, MapFacts DEF Has, Held
<1> QED BY <1>1, <1>2

\* Whatever processes were created, failed to be created and ended, the frames
\* in use are those of the kernel and of the processes there are.
THEOREM NothingIsLost == Spec => []FramesBalanced
<1>1. ASSUME IInv PROVE FramesBalanced
  <2>1. SUFFICES ASSUME pc = "idle"
                 PROVE  \A f \in FrameMap : frame_map[f] =
                          IF f \in Reserved THEN 255 ELSE IF f \in Allocated THEN 1 ELSE 0
    BY DEF FramesBalanced
  <2>2. Held(as) = {}
    BY <1>1, <2>1, EmptySpace DEF IInv, CallInv
  <2>3. Allocated = InUse
    BY <1>1, <2>2, HeldIsHas DEF Allocated, InUse
  <2> QED BY <1>1, <2>1, <2>3 DEF IInv, MapInv, Counting
<1> QED BY <1>1, Invariance, PTL

\* And so are the blocks kalloc has handed out.
THEOREM BlocksAreCounted == Spec => []HeapBalanced
<1>1. ASSUME IInv PROVE HeapBalanced
  BY <1>1 DEF IInv, HeapInv, HeapBalanced, Counting, Growing
<1> QED BY <1>1, Invariance, PTL

-----------------------------------------------------------------------------
(* Complete address spaces                                                   *)

\* The call in progress, for nf frames: what it has taken and what is left to take add up,
\* and a table that is begun comes after full ones.
CountShape(nf) ==
  /\ DOMAIN as.frames = 0 .. nf - 1 /\ DOMAIN as.pts = 0 .. nf \div PT_ENTRIES
  /\ IsFiniteSet(as.ptes) /\ Cardinality(as.ptes) + proc_frames = nf
  /\ pc = "pt" => IF i \in DOMAIN as.pts THEN proc_frames = nf - i * PT_ENTRIES
                                         ELSE proc_frames = 0
  /\ pc = "frame" => /\ i \in DOMAIN as.pts /\ j <= PT_ENTRIES
                     /\ proc_frames = nf - (i * PT_ENTRIES + j)

CountInv == SpaceIsComplete /\ (Growing => \E nf \in 1 .. UintMax : CountShape(nf))

\* The last table is the one that is not full: what is left after table k.
LEMMA Remainder ==
  ASSUME NEW nf \in Nat, NEW k \in 0 .. nf \div PT_ENTRIES, NEW e \in 0 .. PT_ENTRIES,
         k * PT_ENTRIES + e <= nf, e = PT_ENTRIES \/ k * PT_ENTRIES + e = nf
  PROVE  IF k + 1 \in 0 .. nf \div PT_ENTRIES
         THEN e = PT_ENTRIES /\ (k + 1) * PT_ENTRIES = k * PT_ENTRIES + e
         ELSE k * PT_ENTRIES + e = nf
<1> DEFINE q == nf \div PT_ENTRIES
           P == PT_ENTRIES
<1>1. P \in Nat \ {0}
  BY MachineAssumption
<1>2. q \in Nat /\ q * P <= nf /\ nf < q * P + P
  <2>1. q \in 0 .. nf
    BY <1>1, Quotient
  <2>2. P * q <= nf /\ nf < P * q + P
    BY <1>1, Z3
  <2>3. P * q = q * P
    BY <1>1, <2>1
  <2> QED BY <2>1, <2>2, <2>3
<1> HIDE DEF q
<1>3. (k + 1) * P = k * P + P
  BY <1>1
<1>4. CASE k + 1 <= q
  <2>1. (k + 1) * P <= q * P
    BY <1>1, <1>2, <1>4
  <2>2. k * P + e = nf => e = P
    BY <1>1, <1>2, <1>3, <2>1
  <2> QED BY <1>2, <1>3, <1>4, <2>2 DEF q
<1>5. CASE ~ (k + 1 <= q)
  <2>1. k = q
    BY <1>2, <1>5 DEF q
  <2>2. e = P => k * P + e > nf
    BY <1>1, <1>2, <2>1
  <2> QED BY <1>1, <1>2, <1>5, <2>2 DEF q
<1> QED BY <1>4, <1>5

LEMMA NoFrames == Cardinality(NoSpace.ptes) = Cardinality(DOMAIN NoSpace.frames)
BY FS_EmptySet DEF NoSpace

LEMMA CountKept ==
  ASSUME SpaceIsComplete, space' = space
  PROVE  SpaceIsComplete'
BY DEF SpaceIsComplete

LEMMA CreateProcessCounts ==
  ASSUME IInv, CountInv, NEW p \in Procs, NEW size \in Sizes, CreateProcess(p, size)
  PROVE  CountInv'
<1> DEFINE nf == size \div FRAME_LEN + 1
<1>1. /\ as' = [pd |-> Junk, frames |-> [n \in 0 .. nf - 1 |-> Junk],
                pts |-> [n \in 0 .. NumTables(nf) - 1 |-> Junk], ptes |-> {}]
      /\ pc' = "pd" /\ proc_frames' = nf /\ space' = space
  BY DEF CreateProcess
<1>2. nf \in 1 .. UintMax /\ nf \div PT_ENTRIES \in Nat
  <2>1. size \in Nat /\ size \div FRAME_LEN \in Nat /\ nf < UintMax
    BY CallersAssumption, MachineAssumption, Quotient
  <2>2. nf \in Nat /\ nf \div PT_ENTRIES \in 0 .. nf
    BY <2>1, MachineAssumption, Quotient
  <2> HIDE DEF nf
  <2> QED BY <2>1, <2>2, MachineAssumption DEF nf
<1> HIDE DEF nf
<1>3. NumTables(nf) - 1 = nf \div PT_ENTRIES
  BY <1>2 DEF NumTables
<1>4. CountShape(nf)'
  BY <1>1, <1>2, <1>3, FS_EmptySet DEF CountShape
<1> QED BY <1>1, <1>2, <1>4, CountKept DEF CountInv

LEMMA AllocTableCounts ==
  ASSUME IInv, CountInv, AllocDirectory \/ AllocTable
  PROVE  CountInv'
<1>1. Growing /\ space' = space
  BY DEF AllocDirectory, AllocTable, Growing
<1>2. PICK nf \in 1 .. UintMax : CountShape(nf)
  BY <1>1 DEF CountInv
<1>3. /\ DOMAIN as = {"pd", "frames", "pts", "ptes"}
      /\ i \in Nat /\ PT_ENTRIES \in Nat \ {0}
  BY MachineAssumption DEF IInv, TypeOK, IsAddressSpace
<1>4. CASE ~ Growing'
  BY <1>1, <1>4, CountKept DEF CountInv
<1>5. CASE Growing' /\ AllocDirectory
  <2>1. /\ as' = [as EXCEPT !.pd = FirstFree] /\ pc = "pd" /\ pc' = "pt"
        /\ i' = i /\ proc_frames' = proc_frames
    BY <1>5 DEF AllocDirectory, Growing
  <2>2. as'.frames = as.frames /\ as'.pts = as.pts /\ as'.ptes = as.ptes
    BY <1>3, <2>1
  <2>3. i = 0 /\ proc_frames = nf /\ 0 \in DOMAIN as.pts
    <3>1. PICK n \in 1 .. UintMax - 1, m \in 1 .. UintMax : CallShape(n, m)
      BY <1>1 DEF IInv, CallInv
    <3>2. i = 0 /\ as.ptes = {} /\ DOMAIN as.pts = 0 .. m - 1
      BY <2>1, <3>1 DEF CallShape
    <3>3. Cardinality(as.ptes) = 0 /\ Cardinality(as.ptes) + proc_frames = nf
      BY <1>2, <3>2, FS_EmptySet DEF CountShape
    <3>4. proc_frames \in Nat
      BY DEF IInv, TypeOK
    <3>5. 0 \in 0 .. m - 1
      OBVIOUS
    <3> QED BY <3>2, <3>3, <3>4, <3>5
  <2>4. CountShape(nf)'
    <3>1. i * PT_ENTRIES = 0 /\ nf - i * PT_ENTRIES = nf
      BY <1>3, <2>3
    <3>2. IF i' \in DOMAIN as'.pts THEN proc_frames' = nf - i' * PT_ENTRIES ELSE proc_frames' = 0
      BY <2>1, <2>2, <2>3, <3>1
    <3> QED BY <1>2, <2>1, <2>2, <3>2 DEF CountShape
  <2> QED BY <1>1, <2>4, CountKept DEF CountInv
<1>6. CASE Growing' /\ AllocTable
  <2>1. /\ as' = [as EXCEPT !.pts[i] = FirstFree] /\ pc = "pt" /\ pc' = "frame"
        /\ i \in DOMAIN as.pts /\ i' = i /\ j' = 0 /\ proc_frames' = proc_frames
    BY <1>6 DEF AllocTable, Growing
  <2>2. as'.frames = as.frames /\ DOMAIN as'.pts = DOMAIN as.pts /\ as'.ptes = as.ptes
    BY <1>3, <2>1
  <2>3. CountShape(nf)'
    <3>1. proc_frames = nf - i * PT_ENTRIES /\ i * PT_ENTRIES \in Nat
      BY <1>2, <1>3, <2>1 DEF CountShape
    <3>2. /\ i' \in DOMAIN as'.pts /\ j' <= PT_ENTRIES
          /\ proc_frames' = nf - (i' * PT_ENTRIES + j')
      <4> DEFINE x == i * PT_ENTRIES
      <4>1. x \in Nat /\ proc_frames = nf - x
        BY <3>1
      <4>2. i' \in DOMAIN as'.pts /\ j' = 0 /\ proc_frames' = proc_frames
        BY <2>1, <2>2
      <4>3. i' * PT_ENTRIES = x
        BY <2>1
      <4> HIDE DEF x
      <4> QED BY <1>3, <4>1, <4>2, <4>3
    <3> QED BY <1>2, <2>1, <2>2, <3>2 DEF CountShape
  <2> QED BY <1>1, <2>3, CountKept DEF CountInv
<1> QED BY <1>4, <1>5, <1>6

\* Each frame is a new one.
LEMMA AllocFrameCounts ==
  ASSUME IInv, CountInv, AllocFrame
  PROVE  CountInv'
<1>1. Growing /\ space' = space /\ pc = "frame"
  BY DEF AllocFrame, Growing
<1>2. PICK nf \in 1 .. UintMax : CountShape(nf)
  BY <1>1 DEF CountInv
<1>3. CASE ~ Growing'
  BY <1>1, <1>3, CountKept DEF CountInv
<1>4. CASE Growing'
  <2>1. /\ FreeFrames # {} /\ j < PT_ENTRIES /\ proc_frames # 0 /\ pc' = pc /\ i' = i
        /\ as' = [as EXCEPT !.frames[j] = FirstFree, !.ptes = @ \cup {FirstFree}]
        /\ j' = j + 1 /\ proc_frames' = proc_frames - 1
    BY <1>4 DEF AllocFrame, Growing, MoreEntries
  <2>2. /\ DOMAIN as = {"pd", "frames", "pts", "ptes"} /\ i \in Nat /\ j \in Nat
        /\ proc_frames \in Nat /\ PT_ENTRIES \in Nat \ {0}
    BY MachineAssumption DEF IInv, TypeOK, IsAddressSpace
  <2>3. as'.pts = as.pts /\ DOMAIN as'.frames = DOMAIN as.frames
        /\ as'.ptes = as.ptes \cup {FirstFree}
    BY <2>1, <2>2
  <2>4. FirstFree \notin as.ptes
    BY <1>1, <2>1, Fresh DEF Counting, InUse, Held
  <2>5. /\ IsFiniteSet(as.ptes) /\ Cardinality(as.ptes) + proc_frames = nf
        /\ Cardinality(as.ptes) \in Nat
    BY <1>2, FS_CardinalityType DEF CountShape
  <2>6. IsFiniteSet(as'.ptes) /\ Cardinality(as'.ptes) = Cardinality(as.ptes) + 1
    <3>1. /\ IsFiniteSet(as.ptes \cup {FirstFree})
          /\ Cardinality(as.ptes \cup {FirstFree}) = Cardinality(as.ptes) + 1
      BY <2>4, <2>5, FS_AddElement
    <3> QED BY <2>3, <3>1
  <2>7. i * PT_ENTRIES \in Nat /\ proc_frames = nf - (i * PT_ENTRIES + j)
    BY <1>1, <1>2, <2>2 DEF CountShape
  <2>8. /\ Cardinality(as'.ptes) + proc_frames' = nf /\ j' <= PT_ENTRIES
        /\ proc_frames' = nf - (i' * PT_ENTRIES + j')
    <3> DEFINE x == i * PT_ENTRIES
               c == Cardinality(as.ptes)
    <3>1. x \in Nat /\ c \in Nat /\ proc_frames = nf - (x + j) /\ c + proc_frames = nf
      BY <2>5, <2>7
    <3>2. i' * PT_ENTRIES = x /\ Cardinality(as'.ptes) = c + 1
      BY <2>1, <2>6
    <3>3. j < PT_ENTRIES /\ j' = j + 1 /\ proc_frames' = proc_frames - 1
      BY <2>1
    <3> HIDE DEF x, c
    <3> QED BY <2>2, <3>1, <3>2, <3>3
  <2>9. CountShape(nf)'
    BY <1>1, <1>2, <2>1, <2>3, <2>6, <2>8 DEF CountShape
  <2> QED BY <1>1, <2>9, CountKept DEF CountInv
<1> QED BY <1>3, <1>4

LEMMA NextTableCounts ==
  ASSUME IInv, CountInv, NextTable
  PROVE  CountInv'
<1>1. /\ Growing /\ pc = "frame" /\ pc' = "pt" /\ i' = i + 1 /\ (j < PT_ENTRIES => proc_frames = 0)
      /\ space' = space /\ as' = as /\ proc_frames' = proc_frames
  BY DEF NextTable, Growing, MoreEntries
<1>2. PICK nf \in 1 .. UintMax : CountShape(nf)
  BY <1>1 DEF CountInv
<1>3. i \in Nat /\ j \in Nat /\ proc_frames \in Nat /\ PT_ENTRIES \in Nat \ {0} /\ nf \in Nat
  BY MachineAssumption DEF IInv, TypeOK
<1>4. /\ DOMAIN as.pts = 0 .. nf \div PT_ENTRIES /\ i \in 0 .. nf \div PT_ENTRIES
      /\ j \in 0 .. PT_ENTRIES /\ proc_frames = nf - (i * PT_ENTRIES + j)
      /\ j = PT_ENTRIES \/ i * PT_ENTRIES + j = nf
  <2>1. /\ DOMAIN as.pts = 0 .. nf \div PT_ENTRIES /\ i \in 0 .. nf \div PT_ENTRIES
        /\ j <= PT_ENTRIES /\ proc_frames = nf - (i * PT_ENTRIES + j)
    BY <1>1, <1>2 DEF CountShape
  <2>2. i * PT_ENTRIES \in Nat
    BY <1>3
  <2> QED BY <1>1, <1>3, <2>1, <2>2
<1>5. i * PT_ENTRIES \in Nat /\ i * PT_ENTRIES + j <= nf
  <2>1. i * PT_ENTRIES \in Nat
    BY <1>3
  <2> QED BY <1>3, <1>4, <2>1
<1>6. IF i + 1 \in DOMAIN as.pts THEN proc_frames = nf - (i + 1) * PT_ENTRIES
                                  ELSE proc_frames = 0
  <2>1. IF i + 1 \in 0 .. nf \div PT_ENTRIES
        THEN j = PT_ENTRIES /\ (i + 1) * PT_ENTRIES = i * PT_ENTRIES + j
        ELSE i * PT_ENTRIES + j = nf
    BY <1>3, <1>4, <1>5, Remainder
  <2> QED BY <1>3, <1>4, <1>5, <2>1
<1>7. CountShape(nf)'
  BY <1>1, <1>2, <1>6 DEF CountShape
<1> QED BY <1>1, <1>7, CountKept DEF CountInv

LEMMA CreatedCounts ==
  ASSUME IInv, CountInv, Created
  PROVE  CountInv'
<1>1. /\ pc = "pt" /\ Growing /\ ~ Growing' /\ i \notin DOMAIN as.pts
      /\ space' = [space EXCEPT ![proc] = as]
  BY DEF Created, Growing
<1>2. PICK nf \in 1 .. UintMax : CountShape(nf)
  BY <1>1 DEF CountInv
<1>3. Cardinality(as.ptes) = nf
  <2>1. IsFiniteSet(as.ptes) /\ Cardinality(as.ptes) + proc_frames = nf /\ proc_frames = 0
    BY <1>1, <1>2 DEF CountShape
  <2> DEFINE c == Cardinality(as.ptes)
  <2>2. c \in Nat
    BY <2>1, FS_CardinalityType
  <2>3. c + proc_frames = nf /\ proc_frames = 0
    BY <2>1
  <2> HIDE DEF c
  <2>4. c = nf
    BY <2>2, <2>3
  <2> QED BY <2>4 DEF c
<1>4. Cardinality(DOMAIN as.frames) = nf
  <2>1. DOMAIN as.frames = 0 .. nf - 1
    BY <1>2 DEF CountShape
  <2>2. 0 \in Int /\ nf - 1 \in Int /\ ~ (0 > nf - 1) /\ (nf - 1) - 0 + 1 = nf
    OBVIOUS
  <2> QED BY <2>1, <2>2, FS_Interval
<1>5. \A p \in Procs : space'[p] = as \/ space'[p] = space[p]
  BY <1>1 DEF IInv, TypeOK
<1>6. SpaceIsComplete'
  BY <1>3, <1>4, <1>5 DEF CountInv, SpaceIsComplete
<1> QED BY <1>1, <1>6 DEF CountInv

LEMMA OthersCount ==
  ASSUME IInv, CountInv, NEW p \in Procs,
         \/ InitMemman \/ KernelTable \/ EnablePaging \/ UndoFrames \/ UndoTables
         \/ BeyondTheMap \/ ProcessKill(p) \/ vars' = vars
  PROVE  CountInv'
<1>1. SpaceIsComplete'
  <2>1. \A q \in Procs : space'[q] = space[q] \/ space'[q] = NoSpace
    BY DEF InitMemman, KernelTable, EnablePaging, UndoFrames, UndoTables, BeyondTheMap,
           ProcessKill, vars, IInv, TypeOK
  <2> QED BY <2>1, NoFrames DEF CountInv, SpaceIsComplete
<1>2. CASE vars' = vars
  BY <1>1, <1>2 DEF vars, call, CountInv, CountShape, Growing
<1>3. CASE vars' # vars
  BY <1>1, <1>3 DEF InitMemman, KernelTable, EnablePaging, UndoFrames, UndoTables,
                    BeyondTheMap, ProcessKill, Growing, CountInv
<1> QED BY <1>2, <1>3

\* Whatever the sizes of the page tables and of the address spaces: a process that is there
\* has all the frames that were asked for, each a different one, also when it takes more
\* than one page table and its list of frames is written over.
THEOREM SpacesAreComplete == Spec => []SpaceIsComplete
<1>1. Init => CountInv
  <2>1. SUFFICES ASSUME Init PROVE CountInv
    OBVIOUS
  <2>2. pc = "init_memman" /\ \A p \in Procs : space[p] = NoSpace
    BY <2>1 DEF Init
  <2> QED BY <2>2, NoFrames DEF CountInv, SpaceIsComplete, Growing
<1>2. ASSUME IInv, CountInv, [Next]_vars PROVE CountInv'
  <2>1. proc \in Procs
    BY <1>2 DEF IInv, TypeOK
  <2> QED BY <1>2, <2>1, CreateProcessCounts, AllocTableCounts, AllocFrameCounts,
       NextTableCounts, CreatedCounts, OthersCount DEF Next
<1>3. CountInv => SpaceIsComplete
  BY DEF CountInv
<1> QED BY <1>1, <1>2, <1>3, Invariance, PTL DEF Spec

-----------------------------------------------------------------------------
(* The abstract specification                                                *)

\* What callers see are the address spaces and the kernel's tables.
LEMMA Unchanged ==
  ASSUME space' = space, kern_pts' = kern_pts
  PROVE  UNCHANGED Promise!vars
BY DEF Promise!vars, Has

\* Creation grants, process_kill releases, boot takes; all else is invisible to callers.
LEMMA StepRefines ==
  ASSUME IInv, IInv', [Next]_vars
  PROVE  [Promise!Next]_(Promise!vars)
<1>1. CASE KernelTable
  <2>1. /\ pc = "init_paging" /\ FreeFrames # {} /\ space' = space
        /\ kern_pts' = kern_pts \cup {FirstFree}
    BY <1>1 DEF KernelTable
  <2>2. FirstFree \in FrameMap
    BY <2>1, Fresh DEF Counting
  <2>3. \A p \in Procs : space[p] = NoSpace
    BY <2>1 DEF IInv, CallInv
  <2>4. \A p \in Procs : Has(p) = {} /\ Has(p)' = Has(p)
    BY <2>1, <2>3 DEF Has
  <2>5. Promise!KernelTakes(FirstFree)
    BY <2>1, <2>4 DEF Promise!KernelTakes
  <2> QED BY <2>2, <2>5 DEF Promise!Next
<1>2. ASSUME NEW q \in Procs, proc = q, Created
      PROVE  Promise!Grant(q)
  <2>1. /\ pc = "pt" /\ Growing /\ space' = [space EXCEPT ![q] = as]
        /\ kern_pts' = kern_pts
    BY <1>2 DEF Created, Growing
  <2>2. DOMAIN space = Procs /\ space[q] = NoSpace
    BY <1>2, <2>1 DEF IInv, TypeOK, CallInv
  <2>3. \A p \in Procs : space'[p] = IF p = q THEN as ELSE space[p]
    BY <2>1, <2>2
  <2>4. as.pd \in FrameMap /\ as.ptes \subseteq FrameMap
    BY <2>1 DEF IInv, CallInv, CallShape, TypeOK, IsAddressSpace
  <2>5. as # NoSpace
    BY <2>4, EmptySpace, MapFacts
  <2>6. \A n \in DOMAIN as.pts : as.pts[n] \in FrameMap
    <3>1. space'[q] = as
      BY <2>3
    <3> QED BY <2>5, <3>1 DEF IInv, SpaceInv, Complete
  <2>7. \A p \in Procs : Has(p)' = IF p = q THEN Held(as) ELSE Has(p)
    <3>1. \A p \in Procs :
            Has(p)' = IF space'[p] = NoSpace THEN {}
                      ELSE space'[p].ptes \cup {space'[p].pts[n] : n \in DOMAIN space'[p].pts}
                           \cup {space'[p].pd}
      BY DEF Has
    <3>2. Held(as) = as.ptes \cup {as.pts[n] : n \in DOMAIN as.pts} \cup {as.pd}
      BY <2>4, <2>6, MapFacts DEF Held
    <3>3. Has(q)' = Held(as)
      <4>1. space'[q] = as
        BY <2>3
      <4>2. Has(q)' = as.ptes \cup {as.pts[n] : n \in DOMAIN as.pts} \cup {as.pd}
        BY <2>5, <4>1 DEF Has
      <4> QED BY <3>2, <4>2
    <3>4. \A p \in Procs : p # q => Has(p)' = Has(p)
      BY <2>3, <3>1 DEF Has
    <3> QED BY <3>3, <3>4
  <2>8. Held(as) # {} /\ Held(as) \subseteq FrameMap
    <3>1. {as.pts[n] : n \in DOMAIN as.pts} \subseteq FrameMap
      BY <2>6
    <3>2. as.pd \in Held(as)
      BY <2>4, MapFacts DEF Held
    <3> QED BY <2>4, <3>1, <3>2 DEF Held
  <2>9. /\ Has(q) = {}
        /\ Held(as) \cap (kern_pts \cup Reserved) = {}
        /\ \A p \in Procs : Held(as) \cap Has(p) = {}
    BY <2>2, HeldIsHas, EmptySpace DEF IInv, DisjointInv, InUse
  <2> QED BY <2>1, <2>7, <2>8, <2>9 DEF Promise!Grant
<1>3. ASSUME NEW p \in Procs, ProcessKill(p)
      PROVE  Promise!Release(p) \/ UNCHANGED Promise!vars
  <2>1. kern_pts' = kern_pts
    BY <1>3 DEF ProcessKill
  <2>2. CASE space' = space
    BY <2>1, <2>2, Unchanged
  <2>3. CASE space' = [space EXCEPT ![p] = NoSpace]
    <3>1. \A q \in Procs : space'[q] = IF q = p THEN NoSpace ELSE space[q]
      BY <2>3 DEF IInv, TypeOK
    <3>2. \A q \in Procs : Has(q)' = IF q = p THEN {} ELSE Has(q)
      BY <3>1 DEF Has
    <3> QED BY <2>1, <3>2 DEF Promise!Release
  <2> QED BY <1>3, <2>2, <2>3 DEF ProcessKill
<1>4. ASSUME \/ InitMemman \/ EnablePaging \/ AllocDirectory \/ AllocTable \/ AllocFrame
             \/ NextTable \/ UndoFrames \/ UndoTables \/ BeyondTheMap \/ vars' = vars
             \/ \E p \in Procs, size \in Sizes : CreateProcess(p, size)
      PROVE  UNCHANGED Promise!vars
  <2>1. space' = space /\ kern_pts' = kern_pts
    BY <1>4 DEF InitMemman, EnablePaging, AllocDirectory, AllocTable, AllocFrame, NextTable,
                UndoFrames, UndoTables, BeyondTheMap, vars, CreateProcess
  <2> QED BY <2>1, Unchanged
<1>5. proc \in Procs
  BY DEF IInv, TypeOK
<1> QED BY <1>1, <1>2, <1>3, <1>4, <1>5 DEF Next, Promise!Next

\* The memory manager gives a process frames that neither the kernel nor another process
\* has, and takes back exactly those.
THEOREM Refinement == Spec => ImplementsAddressSpaces
<1>1. Init => Promise!Init
  <2>1. SUFFICES ASSUME Init PROVE Promise!Init
    OBVIOUS
  <2>2. kern_pts = {} /\ \A p \in Procs : Has(p) = {}
    BY <2>1 DEF Init, Has
  <2> QED BY <2>2, MapFacts DEF Promise!Init
<1>2. IInv /\ IInv' /\ [Next]_vars => [Promise!Next]_(Promise!vars)
  BY StepRefines
<1> QED BY <1>1, <1>2, Invariance, PTL DEF Spec, ImplementsAddressSpaces, Promise!Spec

-----------------------------------------------------------------------------
(* Enough memory                                                             *)

\* The frames of an address space: those asked for, their tables and the directory.
Pages(size) == size \div FRAME_LEN + 1
Cost(size)  == Pages(size) + NumTables(Pages(size)) + 1

\* The map has an element for each frame of the largest processes there can be at a time,
\* none of which needs more than one full page table.
EnoughFrames(most) ==
  /\ IsFiniteSet(Procs)
  /\ \A size \in Sizes : Pages(size) <= PT_ENTRIES /\ Cost(size) <= most
  /\ Cardinality(Reserved) + pdes + Cardinality(Procs) * most <= frame_elems

Asked(s) ==
  \E size \in Sizes : /\ DOMAIN s.frames = 0 .. Pages(size) - 1
                      /\ DOMAIN s.pts = 0 .. NumTables(Pages(size)) - 1

\* No call has failed, and all lists of frames have been written to their ends.
SuccessInv ==
  /\ Growing \/ pc \in {"init_memman", "init_paging", "idle"}
  /\ IsFiniteSet(kern_pts) /\ Cardinality(kern_pts) <= pdes
  /\ as # NoSpace => Asked(as)
  /\ \A p \in Procs : space[p] # NoSpace =>
       Asked(space[p]) /\ Junk \notin {space[p].frames[n] : n \in DOMAIN space[p].frames}

\* The numbers of frames are numbers.
LEMMA SizeFacts ==
  ASSUME NEW most \in Nat, EnoughFrames(most), NEW size \in Sizes
  PROVE  /\ Pages(size) \in Nat \ {0} /\ NumTables(Pages(size)) \in Nat \ {0}
         /\ Pages(size) <= PT_ENTRIES
         /\ Pages(size) + NumTables(Pages(size)) + 1 <= most
<1>1. size \in Nat /\ FRAME_LEN \in Nat \ {0} /\ PT_ENTRIES \in Nat \ {0}
  BY CallersAssumption, MachineAssumption
<1>2. size \div FRAME_LEN \in Nat
  BY <1>1, Quotient
<1>3. Pages(size) \in Nat \ {0}
  BY <1>2 DEF Pages
<1>4. Pages(size) \div PT_ENTRIES \in Nat
  BY <1>1, <1>3, Quotient
<1>5. NumTables(Pages(size)) \in Nat \ {0}
  BY <1>4 DEF NumTables
<1> QED BY <1>3, <1>5 DEF EnoughFrames, Cost

LEMMA MapSize ==
  /\ frame_elems \in Nat /\ pdes \in Nat
  /\ IsFiniteSet(FrameMap) /\ Cardinality(FrameMap) = frame_elems
  /\ IsFiniteSet(Reserved) /\ Cardinality(Reserved) \in Nat
<1>1. frame_elems \in Nat /\ pdes \in Nat
  BY MachineAssumption, Quotient DEF frame_elems, pdes
<1>2. IsFiniteSet(FrameMap) /\ Cardinality(FrameMap) = frame_elems
  BY <1>1, FS_Interval DEF FrameMap
<1>3. IsFiniteSet(Reserved)
  BY <1>2, MapFacts, FS_Subset
<1> QED BY <1>1, <1>2, <1>3, FS_CardinalityType

\* The elements of a list are frames or junk; the first n of them; the set all fits in a
\* list of n.
Word == FrameMap \cup {Junk}
Listed(l, n) == {l[k] : k \in 0 .. n - 1}
Fit(all, n)  == \E g \in [0 .. n - 1 -> Word] : all \subseteq Listed(g, n)

\* A directory and two lists are one list.
LEMMA OneList ==
  ASSUME NEW most \in Nat, NEW nf \in Nat, NEW np \in Nat, nf + np + 1 <= most,
         NEW d \in Word, NEW pts, \A n \in 0 .. np - 1 : pts[n] \in Word,
         NEW fr, \A n \in 0 .. nf - 1 : fr[n] \in Word
  PROVE  Fit({d} \cup Listed(pts, np) \cup Listed(fr, nf), most)
<1> DEFINE g == [k \in 0 .. most - 1 |->
                   IF k \in 1 .. np THEN pts[k - 1]
                   ELSE IF k \in np + 1 .. np + nf THEN fr[k - np - 1] ELSE d]
<1>1. g \in [0 .. most - 1 -> Word]
  <2>1. ASSUME NEW k \in 0 .. most - 1
        PROVE  /\ k \in 1 .. np => k - 1 \in 0 .. np - 1
               /\ k \in np + 1 .. np + nf => k - np - 1 \in 0 .. nf - 1
    OBVIOUS
  <2> QED BY <2>1
<1>2. 0 \in 0 .. most - 1 /\ g[0] = d
  OBVIOUS
<1>3. ASSUME NEW n \in 0 .. np - 1 PROVE n + 1 \in 0 .. most - 1 /\ g[n + 1] = pts[n]
  <2>1. n + 1 \in 0 .. most - 1 /\ n + 1 \in 1 .. np /\ n + 1 - 1 = n
    OBVIOUS
  <2> QED BY <2>1
<1>4. ASSUME NEW n \in 0 .. nf - 1
      PROVE  n + np + 1 \in 0 .. most - 1 /\ g[n + np + 1] = fr[n]
  <2>1. /\ n + np + 1 \in 0 .. most - 1 /\ n + np + 1 \notin 1 .. np
        /\ n + np + 1 \in np + 1 .. np + nf /\ n + np + 1 - np - 1 = n
    OBVIOUS
  <2> QED BY <2>1
<1> HIDE DEF g
<1> DEFINE I == Listed(g, most)
<1>5. \A k \in 0 .. most - 1 : g[k] \in I
  BY DEF Listed
<1> HIDE DEF I
<1>6. d \in I
  BY <1>2, <1>5
<1>7. \A n \in 0 .. np - 1 : pts[n] \in I
  BY <1>3, <1>5
<1>8. \A n \in 0 .. nf - 1 : fr[n] \in I
  BY <1>4, <1>5
<1>9. {d} \cup Listed(pts, np) \cup Listed(fr, nf) \subseteq I
  BY <1>6, <1>7, <1>8 DEF Listed
<1> QED BY <1>1, <1>9 DEF I, Fit

\* What a process holds, or is about to hold: at most as many frames as the largest one
\* has, and while one is asked for, one less.
LEMMA Covered ==
  ASSUME NEW most \in Nat, EnoughFrames(most), IInv, SuccessInv, Asking, NEW p \in Procs
  PROVE  IF p = proc THEN Fit(Held(as) \cup {Junk}, most) ELSE Fit(Held(space[p]), most)
<1>1. CASE p # proc /\ space[p] = NoSpace
  <2>1. [k \in 0 .. most - 1 |-> Junk] \in [0 .. most - 1 -> Word]
    BY DEF Word
  <2>2. Held(space[p]) = {}
    BY <1>1, EmptySpace
  <2> QED BY <1>1, <2>1, <2>2 DEF Fit
<1>2. CASE p # proc /\ space[p] # NoSpace
  <2> DEFINE s == space[p]
  <2>1. PICK size \in Sizes : /\ DOMAIN s.frames = 0 .. Pages(size) - 1
                              /\ DOMAIN s.pts = 0 .. NumTables(Pages(size)) - 1
    BY <1>2 DEF SuccessInv, Asked
  <2> DEFINE nf == Pages(size)
             np == NumTables(nf)
             pts == [n \in 0 .. np - 1 |-> s.pts[n]]
             fr == [n \in 0 .. nf - 1 |-> s.frames[n]]
  <2>2. IsAddressSpace(s)
    BY DEF IInv, TypeOK
  <2>3. /\ s.pd \in Word /\ (\A n \in 0 .. np - 1 : pts[n] \in Word)
           /\ (\A n \in 0 .. nf - 1 : fr[n] \in Word)
    BY <2>1, <2>2 DEF IsAddressSpace, Word
  <2>4. s.ptes = {s.frames[n] : n \in DOMAIN s.frames}
    BY <1>2 DEF IInv, SpaceInv, Complete, SuccessInv
  <2>5. Held(s) \subseteq {s.pd} \cup Listed(pts, np) \cup Listed(fr, nf)
    BY <2>1, <2>4 DEF Held, Listed
  <2>6. nf \in Nat /\ np \in Nat /\ nf + np + 1 <= most
    BY SizeFacts
  <2> HIDE DEF s, nf, np, pts, fr
  <2>7. Fit({s.pd} \cup Listed(pts, np) \cup Listed(fr, nf), most)
    BY <2>3, <2>6, OneList
  <2>8. Fit(Held(s), most)
    BY <2>5, <2>7 DEF Fit
  <2> QED BY <1>2, <2>8 DEF s
<1>3. CASE p = proc
  <2>0. Growing
    BY DEF Asking, Growing
  <2>1. PICK nf \in 1 .. UintMax - 1, np \in 1 .. UintMax : CallShape(nf, np)
    BY <2>0 DEF IInv, CallInv
  <2>2. IsAddressSpace(as) /\ DOMAIN as.frames = 0 .. nf - 1 /\ DOMAIN as.pts = 0 .. np - 1
    BY <2>1 DEF IInv, TypeOK, CallShape
  <2>3. nf + np + 1 <= most /\ nf <= PT_ENTRIES
    <3>1. as # NoSpace
      <4>1. 0 \in DOMAIN as.frames /\ DOMAIN NoSpace.frames = {}
        BY <2>2 DEF NoSpace
      <4> QED BY <4>1
    <3>2. PICK size \in Sizes : /\ DOMAIN as.frames = 0 .. Pages(size) - 1
                                /\ DOMAIN as.pts = 0 .. NumTables(Pages(size)) - 1
      BY <3>1 DEF SuccessInv, Asked
    <3> DEFINE a == Pages(size)
               b == NumTables(a)
    <3>3. a \in Nat \ {0} /\ b \in Nat \ {0} /\ a + b + 1 <= most /\ a <= PT_ENTRIES
      BY SizeFacts
    <3>4. 0 .. nf - 1 = 0 .. a - 1 /\ 0 .. np - 1 = 0 .. b - 1
      BY <2>2, <3>2
    <3> HIDE DEF a, b
    <3>5. nf = a
      <4>1. nf - 1 \in 0 .. a - 1 /\ a - 1 \in 0 .. nf - 1
        BY <3>3, <3>4
      <4> QED BY <3>3, <4>1
    <3>6. np = b
      <4>1. np - 1 \in 0 .. b - 1 /\ b - 1 \in 0 .. np - 1
        BY <3>3, <3>4
      <4> QED BY <3>3, <4>1
    <3> QED BY <3>3, <3>5, <3>6
  <2>4. /\ as.ptes = {as.frames[n] : n \in 0 .. nf - proc_frames - 1}
        /\ proc_frames \in Nat /\ proc_frames <= nf
    <3>1. proc_frames \in Nat
      BY MachineAssumption DEF IInv, TypeOK
    <3>2. proc_frames <= nf
      BY <2>1 DEF CallShape
    <3>3. as.ptes = {as.frames[n] : n \in 0 .. nf - proc_frames - 1}
      BY <2>1, <2>3 DEF CallShape
    <3> QED BY <3>1, <3>2, <3>3
  <2> DEFINE m == nf - proc_frames
             pts == [n \in 0 .. np - 1 |-> as.pts[n]]
             fr == [n \in 0 .. nf - 1 |-> IF n < m THEN as.frames[n] ELSE Junk]
  <2>5. m \in 0 .. nf
    BY <2>4
  <2>6. as.pd \in Word /\ (\A n \in 0 .. np - 1 : pts[n] \in Word)
           /\ (\A n \in 0 .. nf - 1 : fr[n] \in Word)
    BY <2>2 DEF IsAddressSpace, Word
  <2>7. as.ptes \subseteq Listed(fr, nf)
    <3>1. ASSUME NEW n \in 0 .. m - 1 PROVE n \in 0 .. nf - 1 /\ fr[n] = as.frames[n]
      <4>1. n \in 0 .. nf - 1 /\ n < m
        <5> HIDE DEF m
        <5> QED BY <2>5
      <4> QED BY <4>1
    <3> HIDE DEF fr
    <3> QED BY <2>4, <3>1 DEF Listed
  <2>8. Held(as) \subseteq {as.pd} \cup Listed(pts, np) \cup Listed(fr, nf)
    <3>1. {as.pts[n] : n \in DOMAIN as.pts} = Listed(pts, np)
      BY <2>2 DEF Listed
    <3> HIDE DEF fr, pts
    <3> QED BY <2>7, <3>1 DEF Held
  <2>9. Junk \in {as.pd} \cup Listed(pts, np) \cup Listed(fr, nf)
    <3>1. CASE pc = "pd"
      BY <2>1, <3>1 DEF CallShape
    <3>2. CASE pc = "pt" /\ i \in DOMAIN as.pts
      <4>1. i \in 0 .. np - 1 /\ as.pts[i] \notin FrameMap
        <5>1. i \in 0 .. np - 1
          BY <2>2, <3>2
        <5>2. as.pts[i] \in FrameMap <=> i < i
          BY <2>1, <3>2, <5>1 DEF CallShape
        <5>3. ~ (i < i)
          BY <5>1
        <5> QED BY <5>1, <5>2, <5>3
      <4>2. pts[i] = Junk
        BY <2>2, <4>1 DEF IsAddressSpace
      <4> HIDE DEF pts
      <4> QED BY <4>1, <4>2 DEF Listed
    <3>3. CASE pc = "frame" /\ MoreEntries
      <4>1. proc_frames # 0
        BY <3>3 DEF MoreEntries
      <4>2. nf - 1 \in 0 .. nf - 1 /\ ~ (nf - 1 < m)
        BY <2>4, <4>1
      <4>3. fr[nf - 1] = Junk
        BY <4>2
      <4> HIDE DEF fr
      <4> QED BY <4>2, <4>3 DEF Listed
    <3> QED BY <3>1, <3>2, <3>3 DEF Asking
  <2> HIDE DEF pts, fr
  <2>10. Fit({as.pd} \cup Listed(pts, np) \cup Listed(fr, nf), most)
    <3>1. nf \in Nat /\ np \in Nat /\ nf + np + 1 <= most
      BY <2>3
    <3> QED BY <2>6, <3>1, OneList
  <2>11. Fit(Held(as) \cup {Junk}, most)
    BY <2>8, <2>9, <2>10 DEF Fit
  <2> QED BY <1>3, <2>11
<1> QED BY <1>1, <1>2, <1>3

\* So there is always a frame for the one who asks.
LEMMA NotFull ==
  ASSUME NEW most \in Nat, EnoughFrames(most), IInv, SuccessInv, Asking
  PROVE  FreeFrames # {}
<1> DEFINE H(p) == IF p = proc THEN Held(as) \cup {Junk} ELSE Held(space[p])
           P == Procs \X (0 .. most - 1)
           G(p) == CHOOSE g \in [0 .. most - 1 -> Word] : H(p) \subseteq Listed(g, most)
           F == [x \in P |-> G(x[1])[x[2]]]
           V == {F[x] : x \in P}
<1>1. \A p \in Procs : H(p) \subseteq Listed(G(p), most)
  <2>1. \A p \in Procs : \E g \in [0 .. most - 1 -> Word] : H(p) \subseteq Listed(g, most)
    BY Covered DEF Fit
  <2> HIDE DEF H
  <2> QED BY <2>1
<1>2. \A p \in Procs : H(p) \subseteq V
  <2> SUFFICES ASSUME NEW p \in Procs PROVE H(p) \subseteq V
    OBVIOUS
  <2>1. \A k \in 0 .. most - 1 : <<p, k>> \in P /\ F[<<p, k>>] = G(p)[k]
    <3> HIDE DEF G
    <3> QED OBVIOUS
  <2>2. Listed(G(p), most) \subseteq V
    <3> HIDE DEF F, G, P
    <3> QED BY <2>1 DEF Listed
  <2> HIDE DEF V, G, H
  <2> QED BY <1>1, <2>2
<1>3. IsFiniteSet(V) /\ Cardinality(V) <= Cardinality(Procs) * most
  <2>1. IsFiniteSet(0 .. most - 1) /\ Cardinality(0 .. most - 1) = most
    BY FS_Interval
  <2>2. IsFiniteSet(P) /\ Cardinality(P) = Cardinality(Procs) * most
    BY <2>1, FS_Product DEF EnoughFrames
  <2> HIDE DEF P, G
  <2>3. F \in Surjection(P, V)
    BY DEF Surjection
  <2> HIDE DEF F, V
  <2>4. IsFiniteSet(V) /\ Cardinality(V) <= Cardinality(P)
    BY <2>2, <2>3, FS_Surjection
  <2> QED BY <2>2, <2>4
<1> HIDE DEF V
<1>4. Growing /\ proc \in Procs /\ space[proc] = NoSpace
  <2>1. Growing
    BY DEF Asking, Growing
  <2> QED BY <2>1 DEF IInv, TypeOK, CallInv
<1>5. Junk \in V /\ InUse \subseteq kern_pts \cup V
  <2>1. \A p \in Procs : Held(space[p]) \subseteq V
    BY <1>2, <1>4, EmptySpace
  <2>2. Held(as) \subseteq V /\ Junk \in V
    BY <1>2, <1>4
  <2> QED BY <2>1, <2>2 DEF InUse
<1> DEFINE W == V \ {Junk}
<1>6. IsFiniteSet(W) /\ Cardinality(W) = Cardinality(V) - 1
  BY <1>3, <1>5, FS_RemoveElement
<1>7. ASSUME FreeFrames = {} PROVE FALSE
  <2>1. FrameMap \subseteq (Reserved \cup kern_pts) \cup W
    <3>1. \A f \in FrameMap : frame_map[f] # 0
      BY <1>7 DEF FreeFrames
    <3>2. \A f \in FrameMap : f \in Reserved \/ f \in InUse
      BY <1>4, <3>1 DEF IInv, MapInv, Counting
    <3> QED BY <1>5, <3>2, MapFacts
  <2> HIDE DEF W
  <2>2. IsFiniteSet(kern_pts) /\ Cardinality(kern_pts) <= pdes /\ Cardinality(kern_pts) \in Nat
    BY FS_CardinalityType DEF SuccessInv
  <2> DEFINE A == Reserved \cup kern_pts
             B == A \cup W
  <2>3. IsFiniteSet(A) /\ Cardinality(A) <= Cardinality(Reserved) + pdes
    <3>1. /\ IsFiniteSet(A)
          /\ Cardinality(A) = Cardinality(Reserved) + Cardinality(kern_pts)
                              - Cardinality(Reserved \cap kern_pts)
      BY <2>2, MapSize, FS_Union
    <3>2. Cardinality(Reserved \cap kern_pts) \in Nat
      BY <2>2, MapSize, FS_Subset, FS_CardinalityType
    <3> QED BY <2>2, <3>1, <3>2, MapSize
  <2> HIDE DEF A
  <2>4. IsFiniteSet(B) /\ Cardinality(B) <= Cardinality(A) + Cardinality(W)
    <3>1. /\ IsFiniteSet(B)
          /\ Cardinality(B) = Cardinality(A) + Cardinality(W) - Cardinality(A \cap W)
      BY <1>6, <2>3, FS_Union
    <3>2. Cardinality(A \cap W) \in Nat
      BY <2>3, FS_Subset, FS_CardinalityType
    <3>3. Cardinality(A) \in Nat /\ Cardinality(W) \in Nat
      BY <1>6, <2>3, FS_CardinalityType
    <3> QED BY <3>1, <3>2, <3>3
  <2>5. frame_elems <= Cardinality(B)
    <3>1. FrameMap \in SUBSET B
      BY <2>1 DEF A
    <3> HIDE DEF B
    <3> QED BY <2>4, <3>1, MapSize, FS_Subset
  <2>6. /\ Cardinality(A) \in Nat /\ Cardinality(B) \in Nat /\ Cardinality(V) \in Nat
        /\ Cardinality(Procs) \in Nat
    <3> HIDE DEF B
    <3> QED BY <1>3, <2>3, <2>4, FS_CardinalityType DEF EnoughFrames
  <2> HIDE DEF B
  <2> DEFINE x == Cardinality(Procs) * most
             r == Cardinality(Reserved)
             a == Cardinality(A)
             b == Cardinality(B)
             v == Cardinality(V)
  <2>7. x \in Nat
    BY <2>6
  <2>8. /\ r \in Nat /\ a \in Nat /\ b \in Nat /\ v \in Nat /\ pdes \in Nat /\ frame_elems \in Nat
        /\ v <= x /\ a <= r + pdes /\ b <= a + (v - 1) /\ frame_elems <= b
        /\ r + pdes + x <= frame_elems
    BY <1>3, <1>6, <2>3, <2>4, <2>5, <2>6, MapSize DEF EnoughFrames
  <2> HIDE DEF x, r, a, b, v
  <2> QED BY <2>7, <2>8
<1> QED BY <1>7

\* The frames of the kernel's tables are counted until there are enough of them.
LEMMA KernelTableSucceeds ==
  ASSUME IInv, SuccessInv, KernelTable
  PROVE  SuccessInv'
<1>1. /\ pc = "init_paging" /\ pc' = pc /\ Cardinality(kern_pts) < pdes
      /\ kern_pts' = kern_pts \cup {FirstFree}
      /\ UNCHANGED <<space, as>>
  BY DEF KernelTable, call
<1>2. IsFiniteSet(kern_pts) /\ Cardinality(kern_pts) \in Nat
  BY FS_CardinalityType DEF SuccessInv
<1>3. /\ IsFiniteSet(kern_pts')
      /\ Cardinality(kern_pts') \in {Cardinality(kern_pts), Cardinality(kern_pts) + 1}
  BY <1>1, <1>2, FS_AddElement
<1>4. Cardinality(kern_pts') <= pdes
  BY <1>1, <1>2, <1>3, MapSize
<1> QED BY <1>1, <1>3, <1>4 DEF SuccessInv, Asked, Growing

\* What is asked for is as long as the caller wants it.
LEMMA CreateProcessSucceeds ==
  ASSUME SuccessInv, NEW p \in Procs, NEW size \in Sizes, CreateProcess(p, size)
  PROVE  SuccessInv'
<1> DEFINE nf == Pages(size)
           np == NumTables(nf)
<1>1. /\ as' = [pd |-> Junk, frames |-> [n \in 0 .. nf - 1 |-> Junk],
                pts |-> [n \in 0 .. np - 1 |-> Junk], ptes |-> {}]
      /\ pc' = "pd" /\ UNCHANGED <<kern_pts, space>>
  BY DEF CreateProcess, Pages
<1>2. DOMAIN as'.frames = 0 .. nf - 1 /\ DOMAIN as'.pts = 0 .. np - 1
  BY <1>1
<1>3. Asked(as)'
  BY <1>2 DEF Asked
<1> QED BY <1>1, <1>3 DEF SuccessInv, Asked, Growing

\* A frame that is asked for is there, and goes to a list that has a place for it.
LEMMA AllocSucceeds ==
  ASSUME NEW most \in Nat, EnoughFrames(most), IInv, SuccessInv,
         AllocDirectory \/ AllocTable \/ AllocFrame
  PROVE  SuccessInv'
<1>1. FreeFrames # {}
  <2>1. Asking
    BY DEF Asking, AllocDirectory, AllocTable, AllocFrame
  <2> QED BY <2>1, NotFull
<1>2. /\ UNCHANGED <<kern_pts, space>> /\ Growing /\ Growing'
      /\ \/ as' = [as EXCEPT !.pd = FirstFree]
         \/ as' = [as EXCEPT !.pts[i] = FirstFree]
         \/ as' = [as EXCEPT !.frames[j] = FirstFree, !.ptes = @ \cup {FirstFree}]
  BY <1>1 DEF AllocDirectory, AllocTable, AllocFrame, Growing
<1>3. DOMAIN as = {"pd", "frames", "pts", "ptes"}
  BY DEF IInv, TypeOK, IsAddressSpace
<1>4. DOMAIN as'.frames = DOMAIN as.frames /\ DOMAIN as'.pts = DOMAIN as.pts
  BY <1>2, <1>3
<1>5. as # NoSpace
  <2>1. PICK nf \in 1 .. UintMax - 1, np \in 1 .. UintMax : CallShape(nf, np)
    BY <1>2 DEF IInv, CallInv
  <2>2. 0 \in DOMAIN as.frames
    BY <2>1 DEF CallShape
  <2>3. DOMAIN NoSpace.frames = {}
    BY DEF NoSpace
  <2> QED BY <2>2, <2>3
<1>6. Asked(as)'
  BY <1>4, <1>5 DEF SuccessInv, Asked
<1> QED BY <1>2, <1>6 DEF SuccessInv, Asked

\* When the last table has been passed, no frame is left to ask for.
LEMMA CreatedSucceeds ==
  ASSUME NEW most \in Nat, EnoughFrames(most), IInv, SuccessInv, Created
  PROVE  SuccessInv'
<1>1. /\ pc = "pt" /\ i \notin DOMAIN as.pts /\ pc' = "idle" /\ as' = NoSpace
      /\ space' = [space EXCEPT ![proc] = as] /\ kern_pts' = kern_pts
  BY DEF Created
<1>2. PICK nf \in 1 .. UintMax - 1, np \in 1 .. UintMax : CallShape(nf, np)
  BY <1>1 DEF IInv, CallInv, Growing
<1>3. /\ DOMAIN as.frames = 0 .. nf - 1 /\ DOMAIN as.pts = 0 .. np - 1
      /\ i \in Nat /\ i <= np /\ IsAddressSpace(as)
  BY <1>1, <1>2, MachineAssumption DEF CallShape, IInv, TypeOK
<1>4. Asked(as)
  <2>1. 0 \in DOMAIN as.frames
    BY <1>3
  <2>2. DOMAIN NoSpace.frames = {}
    BY DEF NoSpace
  <2> QED BY <2>1, <2>2 DEF SuccessInv
<1>5. nf <= PT_ENTRIES
  <2>1. PICK size \in Sizes : DOMAIN as.frames = 0 .. Pages(size) - 1
    BY <1>4 DEF Asked
  <2> DEFINE a == Pages(size)
  <2>2. a \in Nat \ {0} /\ a <= PT_ENTRIES
    BY SizeFacts
  <2>3. 0 .. nf - 1 = 0 .. a - 1
    BY <1>3, <2>1
  <2> HIDE DEF a
  <2>4. nf - 1 \in 0 .. a - 1
    <3>1. nf - 1 \in 0 .. nf - 1
      OBVIOUS
    <3> QED BY <2>3, <3>1
  <2> QED BY <2>2, <2>4, MachineAssumption
<1>6. proc_frames = 0
  <2>1. i # 0
    BY <1>1, <1>3
  <2> QED BY <1>2, <1>5, <2>1 DEF CallShape
<1>7. Junk \notin {as.frames[n] : n \in DOMAIN as.frames}
  <2>1. as.ptes = {as.frames[n] : n \in 0 .. nf - proc_frames - 1}
    BY <1>2, <1>5 DEF CallShape
  <2>2. nf - proc_frames - 1 = nf - 1
    BY <1>6
  <2>3. as.ptes = {as.frames[n] : n \in DOMAIN as.frames}
    BY <1>3, <2>1, <2>2
  <2> QED BY <1>3, <2>3, MapFacts DEF IsAddressSpace
<1>8. \A p \in Procs : space'[p] = as \/ space'[p] = space[p]
  BY <1>1 DEF IInv, TypeOK
<1>9. \A p \in Procs : space'[p] # NoSpace =>
        Asked(space'[p]) /\ Junk \notin {space'[p].frames[n] : n \in DOMAIN space'[p].frames}
  <2> SUFFICES ASSUME NEW p \in Procs, space'[p] # NoSpace
               PROVE  /\ Asked(space'[p])
                      /\ Junk \notin {space'[p].frames[n] : n \in DOMAIN space'[p].frames}
    OBVIOUS
  <2>1. CASE space'[p] = as
    BY <1>4, <1>7, <2>1
  <2>2. CASE space'[p] = space[p]
    BY <2>2 DEF SuccessInv
  <2> QED BY <1>8, <2>1, <2>2
<1> QED BY <1>1, <1>9 DEF SuccessInv, Asked

\* A process that ends has written no junk to its lists.
LEMMA ProcessKillSucceeds ==
  ASSUME IInv, SuccessInv, NEW p \in Procs, ProcessKill(p)
  PROVE  SuccessInv'
<1>1. Junk \notin FramesOf(space[p])
  <2>1. space[p] # NoSpace
    BY DEF ProcessKill
  <2>2. Complete(space[p]) /\ Junk \notin {space[p].frames[n] : n \in DOMAIN space[p].frames}
    BY <2>1 DEF IInv, SpaceInv, SuccessInv
  <2> QED BY <2>2, MapFacts DEF Complete, FramesOf
<1>2. /\ pc' = pc /\ UNCHANGED <<kern_pts, as>>
      /\ space' = [space EXCEPT ![p] = NoSpace]
  BY <1>1 DEF ProcessKill, call
<1>3. \A q \in Procs : space'[q] = NoSpace \/ space'[q] = space[q]
  BY <1>2 DEF IInv, TypeOK
<1>4. \A q \in Procs : space'[q] # NoSpace =>
        Asked(space'[q]) /\ Junk \notin {space'[q].frames[n] : n \in DOMAIN space'[q].frames}
  <2> SUFFICES ASSUME NEW q \in Procs, space'[q] = space[q], space[q] # NoSpace
               PROVE  /\ Asked(space'[q])
                      /\ Junk \notin {space'[q].frames[n] : n \in DOMAIN space'[q].frames}
    BY <1>3
  <2> QED BY DEF SuccessInv
<1> QED BY <1>2, <1>4 DEF SuccessInv, Asked, Growing

\* If the map has an element for every frame of the processes there can be at a time, then
\* alloc_addr_space never fails: get_free_frame never has to say that memory is full
\* (memman.c:17), never looks behind the map, and the cleanup that does not end is never
\* begun. The three processes of kmain on a machine with 16 MB are such a case: of 129 elements
\* 32 are reserved, 4 are page tables of the kernel, and each process needs 19.
THEOREM MemoryIsEnough ==
  ASSUME NEW CONSTANT most \in Nat, EnoughFrames(most)
  PROVE  Spec => [](MemoryFullIsNoticed /\ CleanupEnds)
<1>1. Init => SuccessInv
  <2> SUFFICES ASSUME Init PROVE SuccessInv
    OBVIOUS
  <2>1. IsFiniteSet(kern_pts) /\ Cardinality(kern_pts) = 0
    BY FS_EmptySet DEF Init
  <2> QED BY <2>1, MapSize DEF Init, SuccessInv
<1>2. IInv /\ SuccessInv /\ [Next]_vars => SuccessInv'
  <2> SUFFICES ASSUME IInv, SuccessInv, [Next]_vars PROVE SuccessInv'
    OBVIOUS
  <2>1. CASE InitMemman \/ EnablePaging \/ NextTable \/ vars' = vars
    BY <2>1 DEF InitMemman, EnablePaging, NextTable, vars, call, SuccessInv, Asked, Growing
  <2>2. CASE UndoFrames \/ UndoTables
    BY <2>2 DEF UndoFrames, UndoTables, SuccessInv, Growing
  <2>3. CASE BeyondTheMap
    <3>1. Asking /\ FreeFrames = {}
      BY <2>3 DEF BeyondTheMap
    <3> QED BY <3>1, NotFull
  <2> QED
    BY <2>1, <2>2, <2>3, KernelTableSucceeds, CreateProcessSucceeds, AllocSucceeds,
       CreatedSucceeds, ProcessKillSucceeds DEF Next
<1>3. SuccessInv => MemoryFullIsNoticed /\ CleanupEnds
  BY DEF SuccessInv, Growing, MemoryFullIsNoticed, CleanupEnds
<1> QED BY <1>1, <1>2, <1>3, Invariance, PTL DEF Spec
=============================================================================
