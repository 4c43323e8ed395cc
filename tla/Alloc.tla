------------------------------- MODULE Alloc -------------------------------
(***************************************************************************)
(* The first-fit allocator of kernel/alloc.c behind kalloc and kfree       *)
(* (kernel/lib/kalloc.c).  A region starts with the heads of two lists;    *)
(* the rest is tiled by slots, each an 8-byte alloc_slot_t header followed *)
(* by its data.  Every slot is on the freelist or on the usedlist.         *)
(*                                                                         *)
(* The two lists are sequences of header addresses (the next pointers of   *)
(* the C code); len[a] is the len field of the header at address a.  A      *)
(* header that a merge absorbs becomes data, which callers overwrite: it    *)
(* leaves the domain of len, and reading it again would be an error.        *)
(*                                                                         *)
(* A definition marked "mutant" is what a plausible mistake would make of   *)
(* the definition after it; it is used to try the properties out.          *)
(***************************************************************************)
EXTENDS Integers, Sequences, SequencesExt

CONSTANTS
  Base,     \* address of the region
  Length,   \* its length in bytes
  Sizes,    \* the sizes callers pass to kalloc
  Pointers  \* the pointers callers pass to kfree

NULL == 0
Word == 4   \* sizeof(void*)
Hdr  == 8   \* sizeof(alloc_slot_t)

\* The region is not at NULL, and holds the two list heads and one header:
\* the single caller, init_cpu, passes at least 64K.
ASSUME RegionAssumption ==
  /\ Base \in Nat \ {NULL}
  /\ Length \in Nat /\ Length >= 2 * Word + Hdr
ASSUME CallersAssumption == Sizes \subseteq Nat /\ Pointers \subseteq Nat

VARIABLES
  inited,    \* kalloc.c's inited flag (KALLOC_ROBUST)
  freelist,  \* the list A_FREELIST(base), head first
  usedlist,  \* the list A_USEDLIST(base), head first
  len,       \* the len field of the header of each slot
  ret        \* the pointer the last kalloc returned

vars == <<inited, freelist, usedlist, len, ret>>

First     == Base + 2 * Word
RegionEnd == Base + Length
Addresses == Base .. RegionEnd

\* A_BLOCK_END: the first address after the slot at a.
BlockEnd(a) == a + Hdr + len[a]

\* The list s without the element a.
Unlink(s, a) == RemoveAt(s, CHOOSE i \in DOMAIN s : s[i] = a)

Init ==
  /\ inited = FALSE
  /\ freelist = << >>
  /\ usedlist = << >>
  /\ len = << >>
  /\ ret = NULL

KallocInit ==
  /\ ~inited
  /\ inited' = TRUE
  /\ freelist' = <<First>>
  /\ usedlist' = << >>
  /\ len' = [a \in {First} |-> Length - 2 * Word - Hdr]
  /\ UNCHANGED ret

-----------------------------------------------------------------------------
(* kalloc                                                                    *)

RoundDown(size) == size - (size % Word)                       \* mutant
Unrounded(size) == size                                       \* mutant
RoundUp(size) == IF size % Word # 0 THEN size + (Word - (size % Word)) ELSE size

\* The positions of the freelist whose slots alloc accepts for size bytes.
Fits(size) == {i \in DOMAIN freelist : len[freelist[i]] >= size + Hdr}

LeftOverNoHeader(p, size)  == len[p] - size                   \* mutant
LeftOverTwoHeaders(p, size) == len[p] - size - 2 * Hdr        \* mutant

\* The length of the slot that is cut off p.
LeftOver(p, size) == len[p] - size - Hdr

\* alloc.c:88: the slot is larger than desired, and is cut in two.
Larger(p, size) == len[p] >= size + Hdr

\* Hand out the slot p: what is left of it behind size bytes is free again, or
\* all of it is handed out if a header would not fit behind them.
Split(p, size) ==
  LET k    == p + Hdr + size
      free == Unlink(freelist, p)
  IN  /\ freelist' = IF Larger(p, size) THEN <<k>> \o free ELSE free
      /\ usedlist' = <<p>> \o usedlist
      /\ len' = IF Larger(p, size)
                THEN [a \in DOMAIN len \cup {k} |->
                        IF a = k THEN LeftOver(p, size)
                                 ELSE IF a = p THEN size ELSE len[a]]
                ELSE len
      /\ ret' = p + Hdr

\* The first slot of the freelist that is large enough is taken.
KallocSucceeds(size) ==
  LET fits == Fits(RoundUp(size))
  IN  /\ inited
      /\ \E i \in fits :
           /\ \A j \in fits : i <= j
           /\ Split(freelist[i], RoundUp(size))
      /\ UNCHANGED inited

\* kalloc before kalloc_init, or no slot large enough.
KallocFails(size) ==
  /\ ~inited \/ Fits(RoundUp(size)) = {}
  /\ ret' = NULL
  /\ UNCHANGED <<inited, freelist, usedlist, len>>

-----------------------------------------------------------------------------
(* kfree                                                                     *)

BeforeNever(f) == {}                                          \* mutant
AfterNever(f)  == {}                                          \* mutant

\* The free slots that end where f starts, and those that start where f ends.
Before(f) == {a \in ToSet(freelist) : BlockEnd(a) = f}
After(f)  == {a \in ToSet(freelist) : BlockEnd(f) = a /\ BlockEnd(a) # f}

OthersAll(f) == freelist                                      \* mutant

\* The freelist without the slot behind f that is absorbed (alloc.c:178-182).
Others(f) == IF After(f) # {} THEN Unlink(freelist, CHOOSE a \in After(f) : TRUE)
                              ELSE freelist

AddsAlways(f) == TRUE                                         \* mutant

\* free_add (alloc.c:171, 187): a slot merged onto the one before it is already
\* on the freelist.
Adds(f) == Before(f) = {}

\* Put the slot f back on the freelist, merged with its free neighbours.
Release(f) ==
  LET before == CHOOSE a \in Before(f) : TRUE
      after  == CHOOSE a \in After(f) : TRUE
      kept   == IF Before(f) # {} THEN before ELSE f
      gone   == (IF Before(f) # {} THEN {f} ELSE {}) \cup
                (IF After(f) # {} THEN {after} ELSE {})
      grown  == (IF Before(f) # {} THEN len[before] + Hdr ELSE 0) + len[f] +
                (IF After(f) # {} THEN Hdr + len[after] ELSE 0)
  IN  /\ usedlist' = Unlink(usedlist, f)
      /\ freelist' = IF Adds(f) THEN <<kept>> \o Others(f) ELSE Others(f)
      /\ len' = [a \in DOMAIN len \ gone |-> IF a = kept THEN grown ELSE len[a]]

Kfree(slot) ==
  /\ inited
  /\ slot - Hdr \in ToSet(usedlist)
  /\ Release(slot - Hdr)
  /\ UNCHANGED <<inited, ret>>

\* kfree before kalloc_init, or of a pointer that is not handed out.
KfreeIgnored(slot) ==
  /\ ~inited \/ slot - Hdr \notin ToSet(usedlist)
  /\ UNCHANGED vars

Next ==
  \/ KallocInit
  \/ \E size \in Sizes : KallocSucceeds(size) \/ KallocFails(size)
  \/ \E slot \in Pointers : Kfree(slot) \/ KfreeIgnored(slot)

Spec == Init /\ [][Next]_vars

-----------------------------------------------------------------------------
(* Correctness                                                               *)

Slots == ToSet(freelist) \cup ToSet(usedlist)

\* Both lists hold addresses of the region, and a header has a length exactly
\* as long as its slot is on a list.
TypeOK ==
  /\ inited \in BOOLEAN
  /\ freelist \in Seq(Addresses)
  /\ usedlist \in Seq(Addresses)
  /\ len \in [Slots -> Nat]
  /\ ret \in Addresses \cup {NULL}

\* A slot lies inside the region, behind the list heads.
Contained == \A a \in Slots : First <= a /\ BlockEnd(a) <= RegionEnd

\* No slot is twice on a list or on both, and no two slots share a byte:
\* what alloc hands out is never overwritten through another slot.
Disjoint ==
  /\ IsInjective(freelist) /\ IsInjective(usedlist)
  /\ ToSet(freelist) \cap ToSet(usedlist) = {}
  /\ \A a, b \in Slots : a # b => BlockEnd(a) <= b \/ BlockEnd(b) <= a

\* No byte is lost: the slots follow each other without a gap from the first
\* address after the list heads to the end of the region.
NoLeak ==
  inited => /\ First \in Slots
            /\ \A a \in Slots : BlockEnd(a) = RegionEnd \/ BlockEnd(a) \in Slots

\* free merges as it goes (alloc.c:151-183): two free slots are never adjacent,
\* so memory that is free in one piece can be allocated in one piece.
Coalesced == \A a, b \in ToSet(freelist) : BlockEnd(a) # b

\* When every block is given back the region is one free slot again, whatever
\* the order of the calls was.
AllFreed ==
  inited /\ usedlist = << >> =>
    freelist = <<First>> /\ len[First] = Length - 2 * Word - Hdr

\* "this macro depends on the fact that all blocks allocated fall on a one word
\* boundry" (alloc.h:23-24).
WordAligned == \A a \in Slots : (a - Base) % Word = 0

\* The blocks callers hold: the data of the slots on the usedlist.
handedOut == [p \in {a + Hdr : a \in ToSet(usedlist)} |-> len[p - Hdr]]

Promise == INSTANCE Heap WITH
  Arena <- First + Hdr .. RegionEnd - 1, Slack <- Word - 1, blocks <- handedOut

\* The allocator keeps the promise of Heap.tla to its callers.
ImplementsHeap == Promise!Spec
============================================================================
