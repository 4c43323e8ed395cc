----------------------------- MODULE EfsProofs -----------------------------
(***************************************************************************)
(* Theorems about the EFS tools, for every size of a disk, of a block and   *)
(* of an inode, and wherever the tools are killed.                          *)
(***************************************************************************)
EXTENDS Efs, FiniteSetTheorems, WellFoundedInduction, TLAPS

\* A set of natural numbers that is not empty has a least element, and Min chooses it.
LEMMA Smallest ==
  ASSUME NEW T, T \subseteq Nat, T # {}
  PROVE  Min(T) \in T /\ \A y \in T : Min(T) <= y
<1> DEFINE R == OpToRel(<, Nat)
<1>1. \A x, y \in Nat : <<x, y>> \in R <=> x < y
  BY DEF OpToRel
<1>2. PICK x \in T : \A y \in T : ~ (<<y, x>> \in R)
  BY NatLessThanWellFounded, WFMin
<1> HIDE DEF R
<1>3. \A y \in T : x <= y
  <2>1. \A y \in T : ~ (y < x)
    BY <1>1, <1>2
  <2> QED BY <2>1
<1> QED BY <1>3 DEF Min

LEMMA Product ==
  ASSUME NEW a \in Nat \ {0}, NEW b \in Nat \ {0}
  PROVE  a * b \in Nat \ {0}
<1>1. a * b >= a
  OBVIOUS
<1> QED BY <1>1

LEMMA Sizes ==
  /\ BlockSize \in Nat \ {0} /\ InodesPerBlock \in Nat \ {0} /\ InodeBlocks \in Nat \ {0}
  /\ Direct \in Nat \ {0} /\ data_count \in Nat \ {0}
  /\ Indirect \in Nat /\ Direct <= Indirect
  /\ InodeCount \in Nat \ {0} /\ InodeCount <= BlockSize
<1>1. InodesPerBlock \in Nat \ {0} /\ InodeBlocks \in Nat \ {0}
  BY EfsAssumption
<1>2. InodeCount \in Nat \ {0}
  BY <1>1, Product DEF InodeCount
<1> QED BY <1>2, EfsAssumption

LEMMA Zeroes ==
  /\ 0 \in Inodes /\ 0 \in Data /\ 0 \in Dir
  /\ ZeroInode \in InodeType
  BY Sizes DEF Inodes, Data, Dir, ZeroInode, InodeType

-----------------------------------------------------------------------------
\* What the helpers return.

LEMMA FreeBlock ==
  ASSUME TypeOK, FindFreeBlock # 0
  PROVE  FindFreeBlock \in Data \ used /\ 0 \in used
<1>1. Data \ used # {} /\ FindFreeBlock = Min(Data \ used)
  BY DEF FindFreeBlock
<1>2. Data \ used \subseteq Nat
  BY Sizes DEF Data
<1>3. FindFreeBlock \in Data \ used /\ \A b \in Data \ used : FindFreeBlock <= b
  BY <1>1, <1>2, Smallest
<1> QED BY <1>2, <1>3, Zeroes

LEMMA FileFound ==
  ASSUME TypeOK, NEW n, Found(n)
  PROVE  /\ Min(Matches(n)) \in Dir /\ dir[Min(Matches(n))].name = n
         /\ FindFile(n) = dir[Min(Matches(n))].inode
         /\ FindFile(n) \in Inodes
<1>1. Matches(n) \subseteq Nat /\ Matches(n) # {}
  BY Sizes DEF Matches, Found, Dir
<1>2. Min(Matches(n)) \in Matches(n)
  BY <1>1, Smallest
<1> QED BY <1>2 DEF Matches, FindFile, TypeOK

LEMMA FreeInode ==
  ASSUME TypeOK, FreeInodes # {}
  PROVE  Min(FreeInodes) \in Inodes /\ inodes[Min(FreeInodes)].refs = 0
<1>1. FreeInodes \subseteq Nat
  BY Sizes DEF FreeInodes, Inodes
<1> QED BY <1>1, Smallest DEF FreeInodes

LEMMA Counters == ASSUME TypeOK PROVE source \in Nat /\ pos \in Nat /\ pos * BlockSize \in Nat
<1>1. source \in Sources \cup {0} /\ pos \in Nat
  BY DEF TypeOK
<1>2. source \in Nat
  <2>1. Sources \subseteq Nat
    BY EfsAssumption
  <2> QED BY <1>1, <2>1
<1>3. pos * BlockSize \in Nat
  BY <1>1, Sizes
<1> QED BY <1>1, <1>2, <1>3

LEMMA Numbers ==
  ASSUME TypeOK
  PROVE  /\ pos + 1 \in Nat
         /\ Data \subseteq Nat /\ Inodes \subseteq Nat
         /\ \A i \in Inodes : inodes[i].size \in Nat
<1>1. \A i \in Inodes : inodes[i].size \in Nat
  BY DEF TypeOK, InodeType
<1>2. Data \subseteq Nat /\ Inodes \subseteq Nat
  BY Sizes DEF Data, Inodes
<1>3. pos + 1 \in Nat
  BY Counters
<1> QED BY <1>1, <1>2, <1>3

LEMMA ReadLen ==
  ASSUME TypeOK, ~ AtEnd
  PROVE  Min({BlockSize, source - pos * BlockSize}) \in 1 .. BlockSize
<1> DEFINE rest == source - pos * BlockSize
<1>1. rest \in Nat \ {0}
  BY Counters DEF AtEnd
<1> HIDE DEF rest
<1>2. {BlockSize, rest} \subseteq Nat /\ {BlockSize, rest} # {}
  BY <1>1, Sizes
<1>3. /\ Min({BlockSize, rest}) \in {BlockSize, rest}
      /\ \A y \in {BlockSize, rest} : Min({BlockSize, rest}) <= y
  BY <1>2, Smallest
<1>4. Min({BlockSize, rest}) \in 1 .. BlockSize
  BY <1>1, <1>3, Sizes
<1> QED BY <1>4 DEF rest

-----------------------------------------------------------------------------
\* What a program that runs knows.

Writing == {"point", "indirect", "zero", "data", "size"}

PcInv ==
  /\ pc \in Writing => ~ AtEnd
  /\ pc \in {"point", "indirect", "zero", "size"} => Found(f_name) /\ block \in Data
  /\ pc = "indirect" => new.num \in Data
  /\ pc \in {"entry", "root", "take"} => new.num \in Inodes
  /\ pc = "data" /\ block # Junk => Found(f_name)

LEMMA InitTyped == ASSUME Init PROVE TypeOK /\ PcInv
<1>1. /\ inodes \in [Inodes -> InodeType] /\ text \in [Data -> {None} \cup Sources \X Nat]
      /\ slot \in [Data -> [Slots -> Data \cup {Junk}]]
      /\ dir \in [Dir -> [name : Names \cup {"", "."}, inode : Inodes]]
  BY Zeroes DEF Init, EntryOf
<1>2. new \in [num : Nat, copy : InodeType]
  BY Zeroes DEF Init, NoNew
<1> QED BY <1>1, <1>2, Zeroes DEF Init, TypeOK, PcInv, Writing, Pcs

LEMMA Exited ==
  ASSUME TypeOK, Exit, UNCHANGED <<superblock, dir, text, slot>>, used' \subseteq Data,
         inodes' \in [Inodes -> InodeType]
  PROVE  TypeOK' /\ PcInv'
  BY Zeroes DEF Exit, NoNew, TypeOK, PcInv, Writing, Pcs

LEMMA MkefsTyped == ASSUME TypeOK, PcInv, Mkefs PROVE TypeOK' /\ PcInv'
<1> USE DEF TypeOK, PcInv, Writing, Pcs
<1>1. CASE CreateSuperblock
  <2>1. pos' \in Nat
    <3> HIDE DEF TypeOK
    <3> QED BY <1>1 DEF CreateSuperblock
  <2> QED BY <1>1, <2>1 DEF CreateSuperblock, call
<1>0. CASE EraseSuperblock
  BY <1>0 DEF EraseSuperblock, call
<1>2. CASE CreateInodeblocks
  <2>1. inodes' \in [Inodes -> InodeType]
    BY <1>2, Zeroes DEF CreateInodeblocks
  <2>2. pos' \in Nat /\ pc' \in {"inodeblocks", "rootdir"}
    <3> HIDE DEF TypeOK
    <3> QED BY <1>2, Numbers DEF CreateInodeblocks
  <2> QED BY <1>2, <2>1, <2>2 DEF CreateInodeblocks, call
<1>3. CASE CreateRootdir
  <2>1. dir' \in [Dir -> [name : Names \cup {"", "."}, inode : Inodes]]
    BY <1>3, Zeroes DEF CreateRootdir, EntryOf
  <2> QED BY <1>3, <2>1 DEF CreateRootdir, call
<1>4. CASE SetRootInode
  <2>1. [ZeroInode EXCEPT !.size = 1, !.refs = 1] \in InodeType
    BY Zeroes DEF InodeType
  <2>2. inodes' \in [Inodes -> InodeType]
    BY <1>4, <2>1 DEF SetRootInode
  <2> QED BY <1>4, <2>2 DEF SetRootInode, call
<1>6. CASE LoseRootInode
  BY <1>6 DEF LoseRootInode, disk, call
<1>5. CASE MarkRoot
  <2> USE <1>5 DEF MarkRoot
  <2>1. used' \subseteq Data /\ inodes' \in [Inodes -> InodeType] /\ Exit
        /\ UNCHANGED <<superblock, dir, text, slot>>
    BY Zeroes
  <2> QED BY <2>1, Exited
<1> QED BY <1>0, <1>1, <1>2, <1>3, <1>4, <1>5, <1>6 DEF Mkefs

\* A change of an inode's fields leaves it one.
LEMMA NewSize ==
  ASSUME NEW t \in [Inodes -> InodeType], NEW i \in Inodes, NEW s \in Nat
  PROVE  [t EXCEPT ![i].size = s] \in [Inodes -> InodeType]
<1>1. [t[i] EXCEPT !.size = s] \in InodeType
  BY DEF InodeType
<1> QED BY <1>1

LEMMA NewFileTyped == ASSUME TypeOK, PcInv, NewFile PROVE TypeOK' /\ PcInv'
<1> USE DEF TypeOK, PcInv, Writing, Pcs
<1>1. ASSUME NEW n \in Names, NEW s \in Sources, Truncate(n, s) PROVE TypeOK' /\ PcInv'
  <2>1. inodes' \in [Inodes -> InodeType]
    BY <1>1, FileFound, NewSize DEF Truncate
  <2>2. block' \in Data \cup {Junk} /\ pos' \in Nat
    BY <1>1, Zeroes DEF Truncate, Start
  <2> QED BY <1>1, <2>1, <2>2 DEF Truncate, Start
<1>2. ASSUME NEW n \in Names, NEW s \in Sources, Create(n, s) PROVE TypeOK' /\ PcInv'
  <2> DEFINE i == Min(FreeInodes)
  <2>1. i \in Inodes
    BY <1>2, FreeInode DEF Create
  <2>2. [inodes[i] EXCEPT !.refs = 1] \in InodeType
    BY <2>1 DEF InodeType
  <2>3. new' = [num |-> i, copy |-> [inodes[i] EXCEPT !.refs = 1]]
    BY <1>2 DEF Create
  <2> HIDE DEF i
  <2>4. i \in Nat
    <3> HIDE DEF TypeOK
    <3> QED BY <2>1, Numbers
  <2>5. new' \in [num : Nat, copy : InodeType] /\ new'.num \in Inodes
    BY <2>1, <2>2, <2>3, <2>4
  <2>6. block' \in Data \cup {Junk} /\ pos' \in Nat
    BY <1>2, Zeroes DEF Create, Start
  <2> QED BY <1>2, <2>5, <2>6 DEF Create, Start, disk
<1>3. CASE AddEntry
  <2>1. EntryOf(f_name, new.num) \in [name : Names \cup {"", "."}, inode : Inodes]
    BY <1>3 DEF AddEntry, EntryOf
  <2>2. dir' \in [Dir -> [name : Names \cup {"", "."}, inode : Inodes]]
    BY <1>3, <2>1 DEF AddEntry
  <2> QED BY <1>3, <2>2 DEF AddEntry, call
<1>4. CASE GrowRoot
  <2>1. inodes[0].size + 1 \in Nat
    <3> HIDE DEF TypeOK
    <3> QED BY Zeroes, Numbers
  <2>2. inodes' \in [Inodes -> InodeType]
    BY <1>4, <2>1, NewSize, Zeroes DEF GrowRoot
  <2> QED BY <1>4, <2>2 DEF GrowRoot, call
<1>5. CASE TakeInode
  <2>1. inodes' \in [Inodes -> InodeType]
    BY <1>5 DEF TakeInode
  <2> QED BY <1>5, <2>1 DEF TakeInode, call
<1> QED BY <1>1, <1>2, <1>3, <1>4, <1>5 DEF NewFile

LEMMA SourceRead == ASSUME TypeOK, ~ AtEnd PROVE source \in Sources
<1>1. source # 0
  BY Counters DEF AtEnd
<1> QED BY <1>1 DEF TypeOK

LEMMA FileIs ==
  ASSUME TypeOK, Found(f_name)
  PROVE  file \in Inodes /\ inodes[file] \in InodeType /\ next \in Nat
<1>1. file \in Inodes
  BY FileFound DEF file
<1>2. inodes[file] \in InodeType /\ inodes[file].size \in Nat
  BY <1>1 DEF TypeOK, InodeType
<1> QED BY <1>1, <1>2, Sizes DEF next

LEMMA AddBlockPointerTyped ==
  ASSUME TypeOK, PcInv, AddBlockPointer
  PROVE  TypeOK' /\ PcInv'
<1>0. /\ pc \in {"point", "indirect", "zero"} /\ Found(f_name) /\ block \in Data /\ ~ AtEnd
  BY DEF AddBlockPointer, PointDirect, NeedsIndirect, MarkIndirect, NoIndirect, SetIndirect,
     ZeroIndirect, PointIndirect, PointDropped, PcInv, Writing
<1>f. file \in Inodes /\ inodes[file] \in InodeType /\ next \in Nat
  BY <1>0, FileIs
<1>k. /\ UNCHANGED <<superblock, dir, call, pos>>
      /\ Found(f_name)' /\ ~ AtEnd'
  BY <1>0 DEF AddBlockPointer, PointDirect, NeedsIndirect, MarkIndirect, NoIndirect,
     SetIndirect, ZeroIndirect, PointIndirect, PointDropped, disk, call, Found, Matches, AtEnd
<1> USE DEF TypeOK, PcInv, Writing, Pcs, call
<1>1. CASE PointDirect
  <2>1. [inodes[file].data EXCEPT ![next] = block] \in [0 .. Direct - 1 -> Data]
    BY <1>0, <1>f DEF InodeType
  <2>2. [inodes[file] EXCEPT !.data[next] = block] \in InodeType
    BY <1>f, <2>1 DEF InodeType
  <2>3. inodes' \in [Inodes -> InodeType]
    BY <1>1, <1>f, <2>2 DEF PointDirect
  <2> QED BY <1>0, <1>1, <1>k, <2>3 DEF PointDirect
<1>2. CASE MarkIndirect
  <2>1. FindFreeBlock \in Data
    BY <1>2, FreeBlock DEF MarkIndirect
  <2>2. used' \subseteq Data
    BY <1>2, <2>1 DEF MarkIndirect
  <2>3. new' \in [num : Nat, copy : InodeType] /\ new'.num \in Data
    <3>0. FindFreeBlock \in Nat
      <4> HIDE DEF TypeOK
      <4> QED BY <2>1, Numbers
    <3>1. FindFreeBlock \in Nat /\ new' = [new EXCEPT !.num = FindFreeBlock]
      BY <1>2, <3>0 DEF MarkIndirect
    <3> QED BY <2>1, <3>1
  <2> QED BY <1>0, <1>2, <1>k, <2>2, <2>3 DEF MarkIndirect
<1>3. CASE NoIndirect
  BY <1>0, <1>3, <1>k DEF NoIndirect, disk
<1>4. CASE SetIndirect
  <2>1. new.num \in Data
    BY <1>4 DEF SetIndirect
  <2>2. [inodes[file] EXCEPT !.indirect = new.num] \in InodeType
    BY <1>f, <2>1 DEF InodeType
  <2>3. inodes' \in [Inodes -> InodeType]
    BY <1>4, <1>f, <2>2 DEF SetIndirect
  <2> QED BY <1>0, <1>4, <1>k, <2>3 DEF SetIndirect
<1>5. CASE ZeroIndirect
  <2>1. [x \in Slots |-> 0] \in [Slots -> Data \cup {Junk}]
    BY Zeroes
  <2>2. slot' \in [Data -> [Slots -> Data \cup {Junk}]]
    BY <1>5, <2>1 DEF ZeroIndirect
  <2>3. text' \in [Data -> {None} \cup Sources \X Nat]
    BY <1>5 DEF ZeroIndirect
  <2> QED BY <1>0, <1>5, <1>k, <2>2, <2>3 DEF ZeroIndirect
<1>6. CASE PointIndirect
  <2>1. inodes[file].indirect \in Data
    BY <1>f DEF InodeType
  <2>2. [slot[inodes[file].indirect] EXCEPT ![next - Direct] = block]
          \in [Slots -> Data \cup {Junk}]
    BY <1>0, <2>1
  <2>3. slot' \in [Data -> [Slots -> Data \cup {Junk}]]
    BY <1>6, <2>1, <2>2 DEF PointIndirect
  <2>4. text' \in [Data -> {None} \cup Sources \X Nat]
    BY <1>6 DEF PointIndirect
  <2> QED BY <1>0, <1>6, <1>k, <2>3, <2>4 DEF PointIndirect
<1>7. CASE PointDropped
  BY <1>0, <1>7, <1>k DEF PointDropped, disk
<1> QED BY <1>1, <1>2, <1>3, <1>4, <1>5, <1>6, <1>7 DEF AddBlockPointer

LEMMA ReadWriteTyped == ASSUME TypeOK, PcInv, ReadWrite PROVE TypeOK' /\ PcInv'
<1> USE DEF TypeOK, PcInv, Writing, Pcs, call
<1>1. CASE Done \/ WriteFails
  BY <1>1, Exited DEF Done, WriteFails, disk
<1>2. CASE MarkBlock
  <2>1. FindFreeBlock \in Data
    BY <1>2, FreeBlock DEF MarkBlock
  <2>2. ~ AtEnd' /\ Found(f_name)'
    BY <1>2 DEF MarkBlock, AtEnd, Found, Matches
  <2> QED BY <1>2, <2>1, <2>2 DEF MarkBlock
<1>3. CASE FallocFails
  <2>1. ~ AtEnd'
    BY <1>3 DEF FallocFails, AtEnd
  <2> QED BY <1>3, <2>1 DEF FallocFails, disk
<1>4. CASE AddBlockPointer
  BY <1>4, AddBlockPointerTyped
<1>5. CASE WriteData
  <2>1. block \in Data /\ ~ AtEnd /\ Found(f_name)
    BY <1>5 DEF WriteData
  <2>2. <<source, pos>> \in Sources \X Nat
    BY <2>1, SourceRead
  <2>3. text' \in [Data -> {None} \cup Sources \X Nat]
    BY <1>5, <2>1, <2>2 DEF WriteData
  <2>4. slot' \in [Data -> [Slots -> Data \cup {Junk}]]
    BY <1>5, <2>1 DEF WriteData
  <2>5. ~ AtEnd' /\ Found(f_name)'
    BY <1>5, <2>1 DEF WriteData, AtEnd, Found, Matches
  <2> QED BY <1>5, <2>1, <2>3, <2>4, <2>5 DEF WriteData
<1>6. CASE SetSize
  <2> DEFINE s == inodes[file].size + Min({BlockSize, source - pos * BlockSize})
  <2>1. Found(f_name) /\ ~ AtEnd
    BY <1>6 DEF SetSize
  <2>2. file \in Inodes /\ inodes[file].size \in Nat
    BY <2>1, FileIs DEF InodeType
  <2>3. s \in Nat
    <3> HIDE DEF TypeOK
    <3>1. Min({BlockSize, source - pos * BlockSize}) \in 1 .. BlockSize
      BY <2>1, ReadLen
    <3> HIDE DEF PcInv
    <3> QED BY <2>2, <3>1, Sizes
  <2>4. inodes' = [inodes EXCEPT ![file].size = s]
    BY <1>6 DEF SetSize
  <2> HIDE DEF s
  <2>5. inodes' \in [Inodes -> InodeType]
    BY <2>2, <2>3, <2>4, NewSize
  <2>6. pos' \in Nat
    <3> HIDE DEF TypeOK
    <3> QED BY <1>6, Numbers DEF SetSize
  <2> QED BY <1>6, <2>5, <2>6 DEF SetSize
<1> QED BY <1>1, <1>2, <1>3, <1>4, <1>5, <1>6 DEF ReadWrite

LEMMA TypeStep == ASSUME TypeOK, PcInv, [Next]_vars PROVE TypeOK' /\ PcInv'
<1>1. CASE Stop
  BY <1>1, Exited DEF Stop, disk, TypeOK
<1>2. CASE UNCHANGED vars
  BY <1>2 DEF vars, disk, call, TypeOK, PcInv, AtEnd, Found, Matches
<1> QED
  BY <1>1, <1>2, MkefsTyped, NewFileTyped, ReadWriteTyped DEF Next

\* writeefs runs on a disk with a superblock.
OnAnEfs == pc \in Writing \cup {"read", "entry", "root", "take"} => superblock

LEMMA OnAnEfsStep == ASSUME OnAnEfs, [Next]_vars PROVE OnAnEfs'
<1> USE DEF OnAnEfs, Writing
<1>1. CASE Mkefs
  BY <1>1 DEF Mkefs, CreateSuperblock, EraseSuperblock, CreateInodeblocks, CreateRootdir,
     SetRootInode, LoseRootInode, MarkRoot, Exit
<1>2. CASE NewFile
  BY <1>2 DEF NewFile, Truncate, Create, Start, AddEntry, GrowRoot, TakeInode, disk
<1>3. CASE ReadWrite
  BY <1>3 DEF ReadWrite, Done, MarkBlock, FallocFails, AddBlockPointer, PointDirect,
     MarkIndirect, NeedsIndirect, NoIndirect, SetIndirect, ZeroIndirect, PointIndirect,
     PointDropped, WriteData, WriteFails, SetSize, Exit, disk
<1>4. CASE Stop \/ UNCHANGED vars
  BY <1>4 DEF Stop, Exit, vars, disk
<1> QED BY <1>1, <1>2, <1>3, <1>4 DEF Next

\* Whatever the tools do to a disk and wherever they are killed, what the disk holds has
\* its type, and each program knows at each of its steps what the next one relies on.
THEOREM Invariance == Spec => [](TypeOK /\ PcInv /\ OnAnEfs)
<1>1. Init => TypeOK /\ PcInv /\ OnAnEfs
  BY InitTyped DEF Init, OnAnEfs, Writing
<1>2. TypeOK /\ PcInv /\ OnAnEfs /\ [Next]_vars => (TypeOK /\ PcInv /\ OnAnEfs)'
  BY TypeStep, OnAnEfsStep
<1> QED BY <1>1, <1>2, PTL DEF Spec

\* The types are right: every number written to the disk is one of an inode or a block,
\* also when the tools run on a disk another one has left half made.
THEOREM TypeCorrect == Spec => []TypeOK
<1> QED BY Invariance, PTL

\* Nothing is allocated on a disk that mkefs did not finish.
THEOREM NothingEarly == Spec => []NothingAllocatedTooEarly
<1>1. Init => NothingAllocatedTooEarly
  BY DEF Init, NothingAllocatedTooEarly
<1>2. TypeOK /\ OnAnEfs /\ NothingAllocatedTooEarly /\ [Next]_vars => NothingAllocatedTooEarly'
  <2> SUFFICES ASSUME TypeOK, OnAnEfs, NothingAllocatedTooEarly, [Next]_vars
               PROVE  NothingAllocatedTooEarly'
    OBVIOUS
  <2>1. CASE MarkBlock \/ MarkIndirect
    <3>1. 0 \in used' /\ superblock'
      BY <2>1, FreeBlock DEF MarkBlock, MarkIndirect, NeedsIndirect, OnAnEfs, Writing
    <3> QED BY <3>1 DEF NothingAllocatedTooEarly, Formatted
  <2>2. CASE CreateSuperblock \/ EraseSuperblock \/ MarkRoot
    BY <2>2 DEF CreateSuperblock, EraseSuperblock, MarkRoot, NothingAllocatedTooEarly, Formatted
  <2>3. CASE UNCHANGED <<superblock, used>>
    BY <2>3 DEF NothingAllocatedTooEarly, Formatted
  <2> QED
    BY <2>1, <2>2, <2>3 DEF Next, Mkefs, CreateInodeblocks, CreateRootdir, SetRootInode,
       NewFile, Truncate, Create, AddEntry, GrowRoot, TakeInode, ReadWrite, Done,
       FallocFails, AddBlockPointer, PointDirect, NoIndirect, SetIndirect, ZeroIndirect,
       PointIndirect, PointDropped, WriteData, WriteFails, SetSize, LoseRootInode, Stop,
       vars, disk
<1> QED BY <1>1, <1>2, Invariance, PTL DEF Spec

-----------------------------------------------------------------------------
\* The directory.

\* The first m entries are the root's and those of the inodes in taken, one each.
Intact(d, m, taken) ==
  /\ m \in 1 .. BlockSize
  /\ d[0] = EntryOf(".", 0)
  /\ \A j \in Dir : d[j].name # "" <=> j < m
  /\ \A j, l \in 0 .. m - 1 :
       d[j].name = d[l].name \/ d[j].inode = d[l].inode => j = l
  /\ \A j \in 0 .. m - 1 : d[j].inode \in taken
  /\ \A i \in taken : \E j \in 0 .. m - 1 : d[j].inode = i

Taken    == {i \in Inodes : inodes[i].refs = 1}
RootOnly == dir = [j \in Dir |-> IF j = 0 THEN EntryOf(".", 0) ELSE EntryOf("", 0)]

\* What mkefs has done so far.
MkefsInv ==
  /\ pc \in {"inodeblocks", "rootdir", "rootinode", "rootmark"} => 0 \notin used
  /\ pc = "inodeblocks" =>
       /\ pos <= InodeBlocks
       /\ \A i \in Inodes : i \div InodesPerBlock < pos - 1 => inodes[i] = ZeroInode
  /\ pc \in {"rootdir", "rootinode"} => \A i \in Inodes : inodes[i] = ZeroInode
  /\ pc \in {"rootinode", "rootmark"} => RootOnly
  /\ pc = "rootmark" /\ superblock =>
       inodes = [i \in Inodes |-> IF i = 0 THEN [ZeroInode EXCEPT !.size = 1, !.refs = 1]
                                  ELSE ZeroInode]

\* The file that new_file is about to enter, and the directory meanwhile.
EntryInv ==
  /\ pc \in {"entry", "root", "take"} =>
       /\ new.num \in Inodes \ Taken /\ new.num # 0
       /\ new.copy.refs = 1
  /\ pc = "entry" => f_name \in Names /\ ~ Found(f_name)
  /\ pc = "root" => Intact(dir, inodes[0].size + 1, Taken \cup {new.num})
  /\ pc = "take" => Intact(dir, inodes[0].size, Taken \cup {new.num})
  /\ pc \notin {"root", "take"} => Intact(dir, inodes[0].size, Taken)
  /\ pc \in Writing \cup {"read", "root", "take"} => f_name \in Names

DirInv == MkefsInv /\ (Formatted => EntryInv)

Uninterrupted == Stops \cap {"root", "take"} = {}

LEMMA IntactFacts ==
  ASSUME NEW m, NEW t, Intact(dir, m, t)
  PROVE  /\ m \in Nat /\ m >= 1 /\ m <= BlockSize
         /\ 0 \in 0 .. m - 1 /\ 0 \in t
         /\ dir[0].name = "." /\ dir[0].inode = 0
         /\ \A j \in Dir : j < m <=> j \in 0 .. m - 1
         /\ 0 .. m - 1 \subseteq Dir
<1>1. m \in 1 .. BlockSize
  BY DEF Intact
<1>2. m \in Nat /\ m >= 1 /\ m <= BlockSize /\ 0 \in 0 .. m - 1 /\ 0 .. m - 1 \subseteq Dir
  BY <1>1, Sizes DEF Dir
<1>3. \A j \in Dir : j < m <=> j \in 0 .. m - 1
  BY <1>1, Sizes DEF Dir
<1>4. dir[0] = EntryOf(".", 0)
  BY DEF Intact
<1>5. dir[0].name = "." /\ dir[0].inode = 0
  BY <1>4 DEF EntryOf
<1>6. dir[0].inode \in t
  BY <1>2 DEF Intact
<1> QED BY <1>2, <1>3, <1>5, <1>6

\* There is room in the directory for one more file.
LEMMA RoomForOne ==
  ASSUME TypeOK, NEW m, Intact(dir, m, Taken), NEW i \in Inodes \ Taken
  PROVE  m + 1 <= BlockSize
<1>1. m \in Nat /\ IsFiniteSet(0 .. m - 1) /\ Cardinality(0 .. m - 1) = m
  <2>1. m \in Nat /\ m >= 1
    BY IntactFacts
  <2> QED BY <2>1, FS_Interval
<1>2. IsFiniteSet(Inodes) /\ Cardinality(Inodes) = InodeCount
  BY FS_Interval, Sizes DEF Inodes
<1>3. IsFiniteSet(Inodes \ {i}) /\ Cardinality(Inodes \ {i}) = InodeCount - 1
  BY <1>2, FS_RemoveElement
<1>4. ASSUME m >= InodeCount PROVE FALSE
  <2> DEFINE f == [j \in 0 .. m - 1 |-> dir[j].inode]
  <2>1. f \in [0 .. m - 1 -> Inodes \ {i}]
    <3>1. \A j \in 0 .. m - 1 : dir[j].inode \in Inodes \ {i}
      BY DEF Intact, Taken
    <3> QED BY <3>1
  <2>2. InodeCount - 1 < m
    BY <1>1, <1>4, Sizes
  <2>3. \E x, y \in 0 .. m - 1 : x # y /\ f[x] = f[y]
    <3> HIDE DEF f
    <3> QED BY <1>1, <1>3, <2>1, <2>2, FS_PigeonHole
  <2> QED BY <2>3 DEF Intact
<1> QED BY <1>1, <1>4, Sizes

\* The file written is not the root directory.
LEMMA NotTheRoot ==
  ASSUME TypeOK, NEW m, NEW t, Intact(dir, m, t), NEW n \in Names, Found(n)
  PROVE  FindFile(n) \in Inodes \ {0}
<1> DEFINE j == Min(Matches(n))
<1>1. j \in Dir /\ dir[j].name = n /\ FindFile(n) = dir[j].inode /\ FindFile(n) \in Inodes
  BY FileFound
<1>2. n # "" /\ n # "."
  BY EfsAssumption
<1>3. j \in 0 .. m - 1 /\ 0 \in 0 .. m - 1
  <2>1. j < m
    BY <1>1, <1>2 DEF Intact
  <2> HIDE DEF j
  <2> QED BY <1>1, <2>1, IntactFacts
<1> HIDE DEF j
<1>4. dir[0].name = "." /\ dir[0].inode = 0
  BY IntactFacts
<1>5. dir[j].inode # 0
  BY <1>1, <1>2, <1>3, <1>4 DEF Intact
<1> QED BY <1>1, <1>5

\* A step that leaves the directory alone.
LEMMA SameDirectory ==
  ASSUME TypeOK, EntryInv, dir' = dir, Taken' = Taken, inodes'[0].size = inodes[0].size,
         pc \notin {"root", "take"}, pc' \notin {"entry", "root", "take"},
         pc' \in Writing \cup {"read"} => f_name' \in Names
  PROVE  EntryInv'
<1>1. Intact(dir, inodes[0].size, Taken)
  BY DEF EntryInv
<1>2. Intact(dir, inodes[0].size, Taken)'
  BY <1>1 DEF Intact
<1> QED BY <1>2 DEF EntryInv

LEMMA InodeBlock ==
  ASSUME NEW i \in Inodes
  PROVE  i \div InodesPerBlock \in 0 .. InodeBlocks - 1
<1> DEFINE q == i \div InodesPerBlock
<1>1. /\ InodesPerBlock \in Nat /\ InodesPerBlock > 0 /\ InodeBlocks \in Nat
      /\ i \in Nat /\ i < InodesPerBlock * InodeBlocks
  BY Sizes DEF Inodes, InodeCount
<1>2. q \in Nat /\ q * InodesPerBlock <= i
  BY <1>1
<1>3. CASE q >= InodeBlocks
  <2>1. InodeBlocks * InodesPerBlock <= q * InodesPerBlock
    BY <1>1, <1>2, <1>3
  <2> QED BY <1>1, <1>2, <2>1
<1> QED BY <1>1, <1>2, <1>3

LEMMA MkefsDirectory == ASSUME TypeOK, DirInv, Mkefs PROVE DirInv'
<1>1. CASE CreateSuperblock
  <2>1. 0 \notin used' /\ pos' \in {0, 1} /\ pc' = "inodeblocks"
    BY <1>1 DEF CreateSuperblock
  <2>2. pos' <= InodeBlocks /\ \A i \in Inodes : ~ (i \div InodesPerBlock < pos' - 1)
    BY <2>1, InodeBlock, Sizes
  <2> QED BY <2>1, <2>2 DEF DirInv, MkefsInv, Formatted
<1>0. CASE EraseSuperblock
  <2>1. 0 \notin used' /\ pos' = 1 /\ pc' = "inodeblocks"
    BY <1>0 DEF EraseSuperblock
  <2>2. pos' <= InodeBlocks /\ \A i \in Inodes : ~ (i \div InodesPerBlock < pos' - 1)
    BY <2>1, InodeBlock, Sizes
  <2> QED BY <2>1, <2>2 DEF DirInv, MkefsInv, Formatted
<1>2. CASE CreateInodeblocks
  <2>1. /\ 0 \notin used' /\ pos \in Nat /\ pos <= InodeBlocks /\ pos' = pos + 1
        /\ pc' = IF pos = InodeBlocks THEN "rootdir" ELSE "inodeblocks"
    BY <1>2, Counters DEF CreateInodeblocks, DirInv, MkefsInv
  <2>2. ASSUME NEW i \in Inodes, i \div InodesPerBlock < pos
        PROVE  inodes'[i] = ZeroInode
    <3>1. i \div InodesPerBlock = pos - 1 \/ i \div InodesPerBlock < pos - 1
      BY <2>1, <2>2, InodeBlock, Sizes
    <3> QED BY <1>2, <3>1 DEF CreateInodeblocks, DirInv, MkefsInv
  <2>3. pos = InodeBlocks => \A i \in Inodes : inodes'[i] = ZeroInode
    BY <2>1, <2>2, InodeBlock, Sizes
  <2>4. pos # InodeBlocks => pos' <= InodeBlocks
    BY <2>1, Sizes
  <2>5. \A i \in Inodes : i \div InodesPerBlock < pos' - 1 => inodes'[i] = ZeroInode
    BY <2>1, <2>2, InodeBlock, Sizes
  <2> QED BY <2>1, <2>3, <2>4, <2>5 DEF DirInv, MkefsInv, Formatted
<1>3. CASE CreateRootdir
  BY <1>3 DEF CreateRootdir, DirInv, MkefsInv, Formatted, RootOnly
<1>4. CASE SetRootInode
  <2>1. /\ pc' = "rootmark" /\ 0 \notin used' /\ RootOnly'
        /\ \A i \in Inodes : inodes[i] = ZeroInode
        /\ inodes' = [inodes EXCEPT ![0] = [ZeroInode EXCEPT !.size = 1, !.refs = 1]]
    BY <1>4 DEF SetRootInode, DirInv, MkefsInv, Formatted, RootOnly
  <2>2. inodes' = [i \in Inodes |-> IF i = 0 THEN [ZeroInode EXCEPT !.size = 1, !.refs = 1]
                                    ELSE ZeroInode]
    BY <2>1 DEF TypeOK
  <2> QED BY <2>1, <2>2 DEF DirInv, MkefsInv, Formatted
<1>6. CASE LoseRootInode
  BY <1>6 DEF LoseRootInode, disk, DirInv, MkefsInv, Formatted, RootOnly
<1>5. CASE MarkRoot
  <2>0. MkefsInv' /\ (Formatted' => superblock)
    BY <1>5 DEF MarkRoot, Exit, MkefsInv, Formatted
  <2> SUFFICES ASSUME superblock PROVE DirInv'
    BY <2>0 DEF DirInv
  <2>1. /\ pc' = "idle" /\ RootOnly' /\ dir' = dir /\ inodes' = inodes
        /\ inodes = [i \in Inodes |-> IF i = 0 THEN [ZeroInode EXCEPT !.size = 1, !.refs = 1]
                                      ELSE ZeroInode]
    BY <1>5 DEF MarkRoot, Exit, DirInv, MkefsInv, RootOnly
  <2>2. /\ inodes'[0].size = 1 /\ Taken' = {0}
    <3>1. inodes'[0].size = 1 /\ inodes'[0].refs = 1
      BY <2>1, Zeroes DEF ZeroInode
    <3>2. \A i \in Inodes \ {0} : inodes'[i].refs = 0
      BY <2>1 DEF ZeroInode
    <3> QED BY <3>1, <3>2, Zeroes DEF Taken
  <2>3. Intact(dir', 1, {0})
    <3>1. dir'[0] = EntryOf(".", 0) /\ \A j \in Dir \ {0} : dir'[j] = EntryOf("", 0)
      BY <2>1, Zeroes DEF RootOnly
    <3>e. /\ EntryOf(".", 0).name = "." /\ EntryOf(".", 0).inode = 0
          /\ EntryOf("", 0).name = ""
      BY DEF EntryOf
    <3>2. dir'[0].name = "." /\ dir'[0].inode = 0 /\ \A j \in Dir \ {0} : dir'[j].name = ""
      BY <3>1, <3>e
    <3>3. 1 \in 1 .. BlockSize /\ 0 .. 1 - 1 = {0} /\ \A j \in Dir : j < 1 <=> j = 0
      BY Sizes DEF Dir
    <3> QED BY <3>1, <3>2, <3>3 DEF Intact
  <2> QED BY <2>0, <2>1, <2>2, <2>3 DEF DirInv, EntryInv, Writing
<1> QED BY <1>0, <1>1, <1>2, <1>3, <1>4, <1>5, <1>6 DEF Mkefs

LEMMA NewFileDirectory == ASSUME TypeOK, DirInv, NewFile PROVE DirInv'
<1>1. MkefsInv'
  BY DEF NewFile, Truncate, Create, AddEntry, GrowRoot, TakeInode, MkefsInv
<1>2. Formatted' = Formatted
  BY DEF NewFile, Truncate, Create, AddEntry, GrowRoot, TakeInode, disk, Formatted
<1> SUFFICES ASSUME Formatted, EntryInv PROVE EntryInv'
  BY <1>1, <1>2 DEF DirInv
<1>3. ASSUME NEW n \in Names, NEW s \in Sources, Truncate(n, s) PROVE EntryInv'
  <2>1. Intact(dir, inodes[0].size, Taken)
    BY <1>3 DEF Truncate, Start, EntryInv
  <2>2. FindFile(n) \in Inodes \ {0}
    BY <1>3, <2>1, NotTheRoot DEF Truncate
  <2>3. inodes'[0].size = inodes[0].size /\ Taken' = Taken
    BY <1>3, <2>2, Zeroes DEF Truncate, Taken, TypeOK, InodeType
  <2> QED BY <1>3, <2>3, SameDirectory DEF Truncate, Start
<1>4. ASSUME NEW n \in Names, NEW s \in Sources, Create(n, s) PROVE EntryInv'
  <2> DEFINE i == Min(FreeInodes)
  <2>1. i \in Inodes /\ inodes[i].refs = 0
    BY <1>4, FreeInode DEF Create
  <2>2. /\ new' = [num |-> i, copy |-> [inodes[i] EXCEPT !.refs = 1]]
        /\ pc' = "entry" /\ dir' = dir /\ inodes' = inodes /\ f_name' = n /\ ~ Found(n)
    BY <1>4 DEF Create, Start, disk
  <2> HIDE DEF i
  <2>3. Intact(dir, inodes[0].size, Taken) /\ Intact(dir, inodes[0].size, Taken)'
    BY <1>4, <2>2 DEF Create, Start, EntryInv, Intact, Taken
  <2>4. i \notin Taken /\ i # 0
    BY <2>1, <2>3, IntactFacts DEF Taken
  <2>5. new'.num = i /\ new'.copy.refs = 1
    BY <2>1, <2>2 DEF TypeOK, InodeType
  <2>6. Taken' = Taken /\ ~ Found(f_name)'
    BY <2>2 DEF Taken, Found, Matches
  <2> QED BY <2>1, <2>2, <2>3, <2>4, <2>5, <2>6 DEF EntryInv, Writing
<1>5. CASE AddEntry
  <2> DEFINE m == inodes[0].size
             e == EntryOf(f_name, new.num)
  <2>1. /\ Intact(dir, m, Taken) /\ new.num \in Inodes \ Taken /\ new.num # 0
        /\ new.copy.refs = 1 /\ f_name \in Names /\ ~ Found(f_name)
    BY <1>5 DEF AddEntry, EntryInv
  <2>2. m \in 1 .. BlockSize - 1 /\ m + 1 <= BlockSize
    <3>1. m \in Nat /\ m >= 1 /\ m <= BlockSize
      BY <2>1, IntactFacts
    <3>2. m + 1 <= BlockSize
      <4> HIDE DEF m
      <4> QED BY <2>1, RoomForOne
    <3> HIDE DEF m
    <3> QED BY <3>1, <3>2, Sizes
  <2>3. m % BlockSize = m
    BY <2>2, Sizes
  <2>4. /\ dir' = [dir EXCEPT ![m] = e] /\ pc' = "root" /\ inodes' = inodes
        /\ new' = new /\ f_name' = f_name
    BY <1>5, <2>3 DEF AddEntry, call
  <2> HIDE DEF m
  <2>5. m \in Dir /\ f_name # "" /\ e.name = f_name /\ e.inode = new.num
    <3>1. m \in Dir
      BY <2>2, Sizes DEF Dir
    <3>2. f_name # ""
      BY <2>1, EfsAssumption
    <3> QED BY <3>1, <3>2 DEF EntryOf
  <2> HIDE DEF e
  <2>6. /\ dir'[m] = e
        /\ \A j \in Dir \ {m} : dir'[j] = dir[j]
    BY <2>4, <2>5 DEF TypeOK
  <2>7. \A j \in Dir : dir[j].name # f_name
    BY <2>1 DEF Found, Matches
  <2>8. 0 .. m = 0 .. m - 1 \cup {m} /\ 0 .. m \subseteq Dir /\ m \notin 0 .. m - 1
    BY <2>2, Sizes DEF Dir
  <2>9. Intact(dir', m + 1, Taken \cup {new.num})
    <3>1. dir'[0] = EntryOf(".", 0)
      <4>1. dir[0] = EntryOf(".", 0)
        BY <2>1 DEF Intact
      <4>2. 0 # m
        BY <2>2, Sizes
      <4> QED BY <2>6, <4>1, <4>2, Zeroes
    <3>2. \A j \in Dir : dir'[j].name # "" <=> j < m + 1
      <4> TAKE j \in Dir
      <4>1. CASE j = m
        <5>1. m < m + 1
          BY <2>2, Sizes
        <5> QED BY <2>5, <2>6, <4>1, <5>1
      <4>2. CASE j # m
        <5>1. j < m <=> j < m + 1
          BY <2>2, <4>2, Sizes DEF Dir
        <5> QED BY <2>1, <2>6, <4>2, <5>1 DEF Intact
      <4> QED BY <4>1, <4>2
    <3>3. ASSUME NEW j \in 0 .. m, NEW l \in 0 .. m,
                 dir'[j].name = dir'[l].name \/ dir'[j].inode = dir'[l].inode
          PROVE  j = l
      <4>1. CASE j \in 0 .. m - 1 /\ l \in 0 .. m - 1
        BY <2>1, <2>6, <2>8, <3>3, <4>1 DEF Intact
      <4>2. ASSUME NEW k \in 0 .. m - 1
            PROVE  dir'[k].name # f_name /\ dir'[k].inode # new.num
        BY <2>1, <2>6, <2>7, <2>8 DEF Intact
      <4> QED BY <2>5, <2>6, <2>8, <3>3, <4>1, <4>2
    <3>4. \A j \in 0 .. m : dir'[j].inode \in Taken \cup {new.num}
      BY <2>1, <2>5, <2>6, <2>8 DEF Intact
    <3>5. ASSUME NEW i \in Taken \cup {new.num} PROVE \E j \in 0 .. m : dir'[j].inode = i
      <4>1. CASE i = new.num
        BY <2>5, <2>6, <2>8, <4>1
      <4>2. CASE i \in Taken
        <5>1. PICK j \in 0 .. m - 1 : dir[j].inode = i
          BY <2>1, <4>2 DEF Intact
        <5> QED BY <2>6, <2>8, <5>1
      <4> QED BY <4>1, <4>2
    <3>6. m + 1 \in 1 .. BlockSize /\ m + 1 - 1 = m
      BY <2>2, Sizes
    <3> DEFINE k == m + 1
               t == Taken \cup {new.num}
    <3>7. k \in 1 .. BlockSize /\ 0 .. k - 1 = 0 .. m
      <4>1. k - 1 = m
        BY <2>2, Sizes
      <4> QED BY <3>6, <4>1
    <3>8. /\ \A j \in Dir : dir'[j].name # "" <=> j < k
          /\ \A j \in 0 .. m : dir'[j].inode \in t
          /\ \A i \in t : \E j \in 0 .. m : dir'[j].inode = i
          /\ \A j, l \in 0 .. m :
               dir'[j].name = dir'[l].name \/ dir'[j].inode = dir'[l].inode => j = l
      BY <3>2, <3>3, <3>4, <3>5
    <3> HIDE DEF k, t
    <3>9. Intact(dir', k, t)
      BY <3>1, <3>7, <3>8, Zenon DEF Intact
    <3> QED BY <3>9 DEF k, t
  <2>10. Taken' = Taken
    BY <2>4 DEF Taken
  <2> QED BY <2>1, <2>4, <2>9, <2>10 DEF EntryInv, Writing, m
<1>6. CASE GrowRoot
  <2>1. /\ pc = "root" /\ pc' = "take" /\ dir' = dir /\ new' = new /\ f_name' = f_name
        /\ inodes' = [inodes EXCEPT ![0].size = @ + 1]
    BY <1>6 DEF GrowRoot, call
  <2>2. inodes'[0].size = inodes[0].size + 1 /\ Taken' = Taken
    BY <2>1, Zeroes DEF TypeOK, InodeType, Taken
  <2>3. Intact(dir, inodes[0].size + 1, Taken \cup {new.num})
    BY <2>1 DEF EntryInv
  <2>4. Intact(dir, inodes[0].size, Taken \cup {new.num})'
    BY <2>1, <2>2, <2>3
  <2> QED BY <2>1, <2>2, <2>4 DEF EntryInv, Writing
<1>7. CASE TakeInode
  <2>1. /\ pc = "take" /\ pc' = "read" /\ dir' = dir /\ f_name' = f_name
        /\ inodes' = [inodes EXCEPT ![new.num] = new.copy]
        /\ new.num \in Inodes \ Taken /\ new.num # 0 /\ new.copy.refs = 1
    BY <1>7 DEF TakeInode, call, EntryInv
  <2>2. inodes'[0].size = inodes[0].size /\ Taken' = Taken \cup {new.num}
    BY <2>1, Zeroes DEF TypeOK, Taken
  <2>3. Intact(dir, inodes[0].size, Taken)'
    BY <2>1, <2>2 DEF EntryInv, Intact
  <2> QED BY <2>1, <2>2, <2>3 DEF EntryInv, Writing
<1> QED BY <1>3, <1>4, <1>5, <1>6, <1>7 DEF NewFile

\* Only a disk that is formatted has a block 0 that is used, and only there is one allocated.
LEMMA WritesOnFormatted ==
  ASSUME TypeOK, OnAnEfs, ReadWrite, Formatted'
  PROVE  Formatted
<1>1. CASE MarkBlock \/ MarkIndirect
  BY <1>1, FreeBlock DEF MarkBlock, MarkIndirect, NeedsIndirect, Formatted, OnAnEfs, Writing
<1>2. CASE UNCHANGED <<superblock, used>>
  BY <1>2 DEF Formatted
<1> QED
  BY <1>1, <1>2 DEF ReadWrite, Done, FallocFails, AddBlockPointer, PointDirect, NoIndirect,
     SetIndirect, ZeroIndirect, PointIndirect, PointDropped, WriteData, WriteFails,
     SetSize, disk

LEMMA ReadWriteDirectory ==
  ASSUME TypeOK, PcInv, OnAnEfs, DirInv, ReadWrite
  PROVE  DirInv'
<1>1. MkefsInv'
  BY DEF ReadWrite, Done, MarkBlock, FallocFails, AddBlockPointer, PointDirect, MarkIndirect,
     NoIndirect, SetIndirect, ZeroIndirect, PointIndirect, PointDropped, WriteData,
     WriteFails, SetSize, Exit, MkefsInv
<1>2. Formatted' => Formatted
  BY WritesOnFormatted
<1> SUFFICES ASSUME Formatted, EntryInv PROVE EntryInv'
  BY <1>1, <1>2 DEF DirInv
<1>3. /\ dir' = dir /\ pc \in Writing \cup {"read"} /\ pc' \in Writing \cup {"read", "idle"}
      /\ pc' # "idle" => f_name' = f_name
  BY DEF ReadWrite, Done, MarkBlock, FallocFails, AddBlockPointer, PointDirect, MarkIndirect,
     NoIndirect, SetIndirect, ZeroIndirect, PointIndirect, PointDropped, WriteData,
     WriteFails, SetSize, Exit, disk, call, NeedsIndirect, Writing
<1>4. inodes'[0].size = inodes[0].size /\ Taken' = Taken
  <2>1. CASE inodes' = inodes
    BY <2>1 DEF Taken
  <2>2. CASE PointDirect \/ SetIndirect \/ SetSize
    <3>1. Found(f_name) /\ f_name \in Names /\ Intact(dir, inodes[0].size, Taken)
      BY <2>2 DEF PointDirect, SetIndirect, SetSize, PcInv, EntryInv, Writing
    <3>2. file \in Inodes \ {0}
      BY <3>1, NotTheRoot DEF file
    <3>3. inodes'[0] = inodes[0]
      BY <2>2, <3>2, Zeroes DEF PointDirect, SetIndirect, SetSize, TypeOK
    <3>4. \A i \in Inodes : inodes'[i].refs = inodes[i].refs
      <4> SUFFICES ASSUME NEW i \in Inodes PROVE inodes'[i].refs = inodes[i].refs
        OBVIOUS
      <4>1. inodes \in [Inodes -> InodeType] /\ inodes[i] \in InodeType
        BY DEF TypeOK
      <4>2. CASE PointDirect
        BY <4>1, <4>2 DEF PointDirect, InodeType
      <4>3. CASE SetIndirect
        BY <4>1, <4>3 DEF SetIndirect, InodeType
      <4>4. CASE SetSize
        BY <4>1, <4>4 DEF SetSize, InodeType
      <4> QED BY <2>2, <4>2, <4>3, <4>4
    <3> QED BY <3>3, <3>4 DEF Taken
  <2> QED
    BY <2>1, <2>2 DEF ReadWrite, Done, MarkBlock, FallocFails, AddBlockPointer, MarkIndirect,
       NoIndirect, ZeroIndirect, PointIndirect, PointDropped, WriteData, WriteFails, disk
<1> QED BY <1>3, <1>4, SameDirectory DEF EntryInv, Writing

LEMMA DirectoryStep ==
  ASSUME Uninterrupted, TypeOK, PcInv, OnAnEfs, DirInv, [Next]_vars
  PROVE  DirInv'
<1>1. CASE Stop
  <2>1. /\ dir' = dir /\ inodes' = inodes /\ pc' = "idle" /\ UNCHANGED <<superblock, used>>
        /\ pc \notin {"root", "take"}
    BY <1>1 DEF Stop, Exit, disk, Uninterrupted
  <2>2. MkefsInv'
    BY <2>1 DEF MkefsInv
  <2>3. EntryInv => EntryInv'
    BY <2>1, SameDirectory DEF Taken, Writing
  <2> QED BY <2>1, <2>2, <2>3 DEF DirInv, Formatted
<1>2. CASE UNCHANGED vars
  <2>1. UNCHANGED <<superblock, used, inodes, dir, pc, f_name, pos, new>>
    BY <1>2 DEF vars, disk, call
  <2>2. (MkefsInv => MkefsInv') /\ (Formatted' <=> Formatted)
    BY <2>1 DEF MkefsInv, RootOnly, Formatted
  <2>3. EntryInv => EntryInv'
    <3>1. Taken' = Taken /\ Found(f_name)' = Found(f_name)
      BY <2>1 DEF Taken, Found, Matches
    <3> QED BY <2>1, <3>1 DEF EntryInv
  <2> QED BY <2>2, <2>3 DEF DirInv
<1> QED
  BY <1>1, <1>2, MkefsDirectory, NewFileDirectory, ReadWriteDirectory DEF Next

LEMMA DirInvSuffices == ASSUME TypeOK, DirInv PROVE DirectoryIntact
<1> SUFFICES ASSUME Formatted, pc \notin {"root", "take"} PROVE DirectoryIntact
  BY DEF DirectoryIntact
<1> DEFINE m == inodes[0].size
<1>1. Intact(dir, m, Taken)
  BY DEF DirInv, EntryInv
<1> HIDE DEF m
<1>2. m <= BlockSize /\ \A j \in Dir : j < m <=> j \in 0 .. m - 1
  BY <1>1, IntactFacts
<1>3. {dir[j].inode : j \in 0 .. m - 1} = Taken
  <2>1. \A j \in 0 .. m - 1 : dir[j].inode \in Taken
    BY <1>1 DEF Intact
  <2>2. \A i \in Taken : \E j \in 0 .. m - 1 : dir[j].inode = i
    BY <1>1 DEF Intact
  <2> QED BY <2>1, <2>2
<1> QED BY <1>1, <1>2, <1>3 DEF DirectoryIntact, Intact, Taken, m

THEOREM DirectoryInvariance == Uninterrupted /\ Spec => []DirInv
<1> SUFFICES ASSUME Uninterrupted PROVE Spec => []DirInv
  OBVIOUS
<1>1. Init => DirInv
  BY DEF Init, DirInv, MkefsInv, Formatted
<1>2. TypeOK /\ PcInv /\ OnAnEfs /\ DirInv /\ [Next]_vars => DirInv'
  BY DirectoryStep
<1> QED BY <1>1, <1>2, Invariance, PTL DEF Spec

\* Unless writeefs is killed in the middle of new_file, the directory stays intact.
THEOREM DirectoryStaysIntact == Uninterrupted /\ Spec => []DirectoryIntact
<1>1. TypeOK /\ DirInv => DirectoryIntact
  BY DirInvSuffices
<1> QED BY <1>1, Invariance, DirectoryInvariance, PTL

-----------------------------------------------------------------------------
\* That no block of a disk holds two things: what the tools know of the blocks at each step,
\* and the theorem.

\* The block at place p, an inode and a logical block, and the places that hold something.
Num(ins, sl, p) ==
  IF p[2] < Direct THEN ins[p[1]].data[p[2]] ELSE sl[ins[p[1]].indirect][p[2] - Direct]
Places    == Inodes \X (0 .. Indirect)
Held(ins) == {p \in Places : p[2] < Chunks(ins[p[1]].size)}

\* No two places have the same block, and none has an indirect block.
Apart(ins, sl, us) ==
  /\ \A p \in Held(ins) : Num(ins, sl, p) \in us
  /\ \A p, q \in Held(ins) : Num(ins, sl, p) = Num(ins, sl, q) => p = q
  /\ \A p \in Held(ins) : p[2] >= Direct => ins[p[1]].indirect # 0
  /\ \A i \in Inodes : ins[i].indirect # 0 =>
       /\ ins[i].indirect \in us
       /\ \A p \in Held(ins) : Num(ins, sl, p) # ins[i].indirect
       /\ \A l \in Inodes \ {i} : ins[l].indirect # ins[i].indirect

\* A block that is marked as used and that nothing on the disk points to.
Loose(b, ins, sl, us) ==
  /\ b \in us \ {0}
  /\ \A p \in Held(ins) : Num(ins, sl, p) # b
  /\ \A i \in Inodes : ins[i].indirect # b

-----------------------------------------------------------------------------
\* What a step makes of the blocks.

\* No place is added, and those that stay keep their block.
LEMMA Unmoved ==
  ASSUME NEW a, NEW sa, NEW ua, NEW b, NEW sb, NEW ub,
         Apart(a, sa, ua),
         Held(b) \subseteq Held(a), ua \subseteq ub,
         \A p \in Held(b) : Num(b, sb, p) = Num(a, sa, p),
         \A i \in Inodes : b[i].indirect = a[i].indirect
  PROVE  /\ Apart(b, sb, ub)
         /\ \A x : Loose(x, a, sa, ua) => Loose(x, b, sb, ub)
<1>0. \A p \in Held(b) : p \in Held(a) /\ p[1] \in Inodes
  BY DEF Held, Places
<1>1. \A p \in Held(b) : Num(b, sb, p) \in ub
  BY <1>0 DEF Apart
<1>2. \A p, q \in Held(b) : Num(b, sb, p) = Num(b, sb, q) => p = q
  <2> TAKE p, q \in Held(b)
  <2>1. Num(b, sb, p) = Num(a, sa, p) /\ Num(b, sb, q) = Num(a, sa, q)
    OBVIOUS
  <2>2. Num(a, sa, p) = Num(a, sa, q) => p = q
    BY <1>0 DEF Apart
  <2> QED BY <2>1, <2>2, Zenon
<1>3. \A p \in Held(b) : p[2] >= Direct => b[p[1]].indirect # 0
  BY <1>0 DEF Apart
<1>4. \A i \in Inodes : b[i].indirect # 0 =>
        /\ b[i].indirect \in ub
        /\ \A p \in Held(b) : Num(b, sb, p) # b[i].indirect
        /\ \A l \in Inodes \ {i} : b[l].indirect # b[i].indirect
  BY <1>0 DEF Apart
<1>5. ASSUME NEW x, Loose(x, a, sa, ua) PROVE Loose(x, b, sb, ub)
  BY <1>0, <1>5 DEF Loose
<1> QED BY <1>1, <1>2, <1>3, <1>4, <1>5 DEF Apart

\* One place is added, with a block that was loose.
LEMMA Extended ==
  ASSUME NEW a, NEW sa, NEW u, NEW b, NEW q \in Places,
         Apart(a, sa, u), Loose(Num(a, sa, q), a, sa, u),
         Held(b) = Held(a) \cup {q},
         \A p \in Held(b) : Num(b, sa, p) = Num(a, sa, p),
         \A i \in Inodes : b[i].indirect = a[i].indirect,
         q[2] >= Direct => a[q[1]].indirect # 0
  PROVE  Apart(b, sa, u)
<1>0. \A p \in Held(b) : p[1] \in Inodes /\ (p \in Held(a) \/ p = q)
  BY DEF Held, Places
<1>1. \A p \in Held(b) : Num(b, sa, p) \in u
  BY <1>0 DEF Apart, Loose
<1>2. \A p, r \in Held(b) : Num(b, sa, p) = Num(b, sa, r) => p = r
  <2> SUFFICES ASSUME NEW p \in Held(b), NEW r \in Held(b), Num(b, sa, p) = Num(b, sa, r)
               PROVE  p = r
    OBVIOUS
  <2>1. Num(a, sa, p) = Num(a, sa, r)
    BY Zenon
  <2>2. CASE p \in Held(a) /\ r \in Held(a)
    BY <2>1, <2>2 DEF Apart
  <2>3. CASE p = q /\ r \in Held(a)
    BY <2>1, <2>3 DEF Loose
  <2>4. CASE p \in Held(a) /\ r = q
    BY <2>1, <2>4 DEF Loose
  <2> QED BY <1>0, <2>2, <2>3, <2>4
<1>3. \A p \in Held(b) : p[2] >= Direct => b[p[1]].indirect # 0
  BY <1>0 DEF Apart
<1>4. \A i \in Inodes : b[i].indirect # 0 =>
        /\ b[i].indirect \in u
        /\ \A p \in Held(b) : Num(b, sa, p) # b[i].indirect
        /\ \A l \in Inodes \ {i} : b[l].indirect # b[i].indirect
  BY <1>0 DEF Apart, Loose
<1> QED BY <1>1, <1>2, <1>3, <1>4 DEF Apart

\* An inode gets an indirect block that was loose; other loose blocks stay so.
LEMMA Attached ==
  ASSUME NEW a, NEW sa, NEW u, NEW b, NEW f \in Inodes, NEW c,
         Apart(a, sa, u), Loose(c, a, sa, u), a[f].indirect = 0,
         Held(b) = Held(a),
         \A i \in Inodes : b[i].data = a[i].data,
         \A i \in Inodes \ {f} : b[i].indirect = a[i].indirect,
         b[f].indirect = c
  PROVE  /\ Apart(b, sa, u)
         /\ \A p \in Held(a) : Num(b, sa, p) = Num(a, sa, p)
         /\ \A x : Loose(x, a, sa, u) /\ x # c => Loose(x, b, sa, u)
<1>0. \A p \in Held(a) : p[1] \in Inodes
  BY DEF Held, Places
<1>1. \A p \in Held(a) : Num(b, sa, p) = Num(a, sa, p)
  <2> TAKE p \in Held(a)
  <2>1. CASE p[2] < Direct
    BY <1>0, <2>1 DEF Num
  <2>2. CASE ~ (p[2] < Direct)
    <3>1. p[2] >= Direct
      BY <2>2, Sizes DEF Held, Places
    <3>2. p[1] # f
      BY <3>1 DEF Apart
    <3> QED BY <1>0, <3>2 DEF Num
  <2> QED BY <2>1, <2>2
<1>2. c # 0
  BY DEF Loose
<1>3. \A p \in Held(b) : Num(b, sa, p) \in u
  BY <1>1 DEF Apart
<1>4. \A p, q \in Held(b) : Num(b, sa, p) = Num(b, sa, q) => p = q
  <2> SUFFICES ASSUME NEW p \in Held(a), NEW q \in Held(a), Num(b, sa, p) = Num(b, sa, q)
               PROVE  p = q
    OBVIOUS
  <2>1. Num(a, sa, p) = Num(a, sa, q)
    BY <1>1, Zenon
  <2> QED BY <2>1 DEF Apart
<1>5. \A p \in Held(b) : p[2] >= Direct => b[p[1]].indirect # 0
  BY <1>0, <1>2 DEF Apart
<1>6. ASSUME NEW i \in Inodes, b[i].indirect # 0
      PROVE  /\ b[i].indirect \in u
             /\ \A p \in Held(b) : Num(b, sa, p) # b[i].indirect
             /\ \A l \in Inodes \ {i} : b[l].indirect # b[i].indirect
  <2>1. CASE i = f
    BY <1>1, <2>1 DEF Loose
  <2>2. CASE i # f
    <3>1. a[i].indirect # 0 /\ b[i].indirect = a[i].indirect
      BY <1>6, <2>2
    <3>2. ASSUME NEW l \in Inodes \ {i} PROVE b[l].indirect # b[i].indirect
      <4>1. CASE l = f
        BY <3>1, <4>1 DEF Loose
      <4>2. CASE l # f
        BY <3>1, <4>2 DEF Apart
      <4> QED BY <4>1, <4>2
    <3> QED BY <1>1, <3>1, <3>2 DEF Apart
  <2> QED BY <2>1, <2>2
<1>7. ASSUME NEW x, Loose(x, a, sa, u), x # c PROVE Loose(x, b, sa, u)
  <2>1. \A i \in Inodes : b[i].indirect # x
    BY <1>7 DEF Loose
  <2>2. \A p \in Held(b) : Num(b, sa, p) # x
    BY <1>1, <1>7 DEF Loose
  <2> QED BY <1>7, <2>1, <2>2 DEF Loose
<1> QED BY <1>1, <1>3, <1>4, <1>5, <1>6, <1>7 DEF Apart

\* A block that was free is loose once it is marked.
LEMMA Marked ==
  ASSUME NEW a, NEW sa, NEW u, Apart(a, sa, u), 0 \in u, NEW c, c \notin u
  PROVE  Loose(c, a, sa, u \cup {c})
<1>1. \A p \in Held(a) : Num(a, sa, p) # c
  BY DEF Apart
<1>2. \A i \in Inodes : a[i].indirect # c
  BY DEF Apart
<1> QED BY <1>1, <1>2 DEF Loose

-----------------------------------------------------------------------------
\* Sizes and blocks.

LEMMA Quotient ==
  ASSUME NEW q \in Nat, NEW r \in 0 .. BlockSize - 1
  PROVE  (q * BlockSize + r) \div BlockSize = q
<1> DEFINE x == q * BlockSize
<1>1. BlockSize \in Nat /\ BlockSize > 0 /\ x \in Nat /\ x + r \in Nat
  BY Sizes
<1>2. \A k \in Nat : k > q => k * BlockSize >= x + BlockSize
  <2> TAKE k \in Nat
  <2> SUFFICES ASSUME k > q PROVE k * BlockSize >= x + BlockSize
    OBVIOUS
  <2>1. k - q - 1 \in Nat
    OBVIOUS
  <2>2. (k - q - 1) * BlockSize >= 0
    BY <1>1, <2>1
  <2>3. (k - q - 1) * BlockSize = k * BlockSize - x - BlockSize
    BY <1>1
  <2> QED BY <1>1, <2>2, <2>3
<1>3. \A k \in Nat : k < q => k * BlockSize + BlockSize <= x
  <2> TAKE k \in Nat
  <2> SUFFICES ASSUME k < q PROVE k * BlockSize + BlockSize <= x
    OBVIOUS
  <2>1. q - k - 1 \in Nat
    OBVIOUS
  <2>2. (q - k - 1) * BlockSize >= 0
    BY <1>1, <2>1
  <2>3. (q - k - 1) * BlockSize = x - k * BlockSize - BlockSize
    BY <1>1
  <2> QED BY <1>1, <2>2, <2>3
<1> DEFINE d == (x + r) \div BlockSize
<1> HIDE DEF x
<1>4. d \in Nat /\ d * BlockSize <= x + r /\ x + r < d * BlockSize + BlockSize
  BY <1>1
<1> HIDE DEF d
<1>5. ~ (d > q) /\ ~ (d < q)
  BY <1>1, <1>2, <1>3, <1>4
<1>6. d = q
  BY <1>4, <1>5
<1> QED BY <1>6 DEF d, x

LEMMA ChunksOf ==
  ASSUME NEW k \in Nat
  PROVE  /\ (k * BlockSize) \div BlockSize = k
         /\ Chunks(k * BlockSize) = k
         /\ \A r \in 1 .. BlockSize : Chunks(k * BlockSize + r) = k + 1
<1>1. BlockSize \in Nat /\ BlockSize > 0 /\ k * BlockSize \in Nat
  BY Sizes
<1>2. (k * BlockSize) \div BlockSize = k
  <2>1. (k * BlockSize + 0) \div BlockSize = k
    BY <1>1, Quotient
  <2> QED BY <1>1, <2>1
<1>3. Chunks(k * BlockSize) = k
  <2>1. (k * BlockSize + (BlockSize - 1)) \div BlockSize = k
    BY <1>1, Quotient
  <2>2. k * BlockSize + (BlockSize - 1) = k * BlockSize + BlockSize - 1
    BY <1>1
  <2> QED BY <2>1, <2>2 DEF Chunks
<1>4. ASSUME NEW r \in 1 .. BlockSize PROVE Chunks(k * BlockSize + r) = k + 1
  <2>1. ((k + 1) * BlockSize + (r - 1)) \div BlockSize = k + 1
    BY <1>1, Quotient
  <2>2. (k + 1) * BlockSize + (r - 1) = k * BlockSize + r + BlockSize - 1
    BY <1>1
  <2> QED BY <2>1, <2>2 DEF Chunks
<1> QED BY <1>2, <1>3, <1>4

LEMMA OneChunk == Chunks(0) = 0 /\ \A m \in 1 .. BlockSize : Chunks(m) = 1
<1>1. 0 * BlockSize = 0
  BY Sizes
<1>2. Chunks(0) = 0
  BY <1>1, ChunksOf
<1>3. \A m \in 1 .. BlockSize : Chunks(0 * BlockSize + m) = 0 + 1
  BY ChunksOf
<1>4. \A m \in 1 .. BlockSize : 0 * BlockSize + m = m
  BY <1>1, Sizes
<1> QED BY <1>2, <1>3, <1>4

-----------------------------------------------------------------------------
\* What the tools know of the blocks.

BlocksApart ==
  /\ Apart(inodes, slot, used)
  /\ inodes[0].data[0] = 0 /\ inodes[0].indirect = 0
  /\ \A i \in Inodes : inodes[i].refs = 0 => inodes[i] = ZeroInode

\* new_file: the inode is an empty one, and it is the file's.
NewFileKnows ==
  /\ pc \in {"entry", "root", "take"} =>
       pos = 0 /\ new.copy = [ZeroInode EXCEPT !.refs = 1]
  /\ pc \in {"root", "take"} => Found(f_name) /\ FindFile(f_name) = new.num

\* read_write: what has been read is what has been written, and the block that comes next
\* belongs to nobody else.
ReadWriteKnows ==
  /\ pc \in Writing \cup {"read"} /\ ~ AtEnd /\ Found(f_name) =>
       inodes[file].size = pos * BlockSize
  /\ pc \in Writing /\ block # Junk => Loose(block, inodes, slot, used)
  /\ pc = "indirect" =>
       /\ Loose(new.num, inodes, slot, used) /\ new.num # block
       /\ inodes[file].indirect = 0 /\ pos = Direct
  /\ pc = "zero" => pos = Direct /\ inodes[file].indirect # 0
  /\ pc \in {"data", "size"} /\ block # Junk /\ pos <= Indirect =>
       /\ Num(inodes, slot, <<file, pos>>) = block
       /\ pos >= Direct => inodes[file].indirect # 0

BlockInv == Formatted => BlocksApart /\ NewFileKnows /\ ReadWriteKnows

\* Of a step: what is held stays where it is.
Stays == \A p \in Held(inodes) : Num(inodes', slot', p) = Num(inodes, slot, p)

\* The file that is written has an inode that is taken and not the root's.
LEMMA FileTaken ==
  ASSUME TypeOK, NEW m, NEW t, Intact(dir, m, t), NEW n \in Names, Found(n)
  PROVE  FindFile(n) \in t
<1> DEFINE j == Min(Matches(n))
<1>1. j \in Dir /\ dir[j].name = n /\ FindFile(n) = dir[j].inode
  BY FileFound
<1>2. n # ""
  BY EfsAssumption
<1>3. j \in 0 .. m - 1
  <2>1. j < m
    BY <1>1, <1>2 DEF Intact
  <2> HIDE DEF j
  <2> QED BY <1>1, <2>1, IntactFacts
<1> HIDE DEF j
<1>4. dir[j].inode \in t
  BY <1>3 DEF Intact
<1> QED BY <1>1, <1>4

LEMMA TheFile ==
  ASSUME TypeOK, DirInv, Formatted, pc \in Writing, Found(f_name)
  PROVE  /\ file \in Inodes \ {0} /\ inodes[file] \in InodeType
         /\ inodes[file].refs = 1
<1>1. Intact(dir, inodes[0].size, Taken) /\ f_name \in Names
  BY DEF DirInv, EntryInv, Writing
<1>2. file \in Inodes \ {0} /\ file \in Taken
  BY <1>1, NotTheRoot, FileTaken DEF file
<1> QED BY <1>2 DEF Taken, TypeOK

\* In the middle of a write the file's places are those that have been read.
LEMMA PlacesOfFile ==
  ASSUME TypeOK, BlockInv, Formatted, pc \in Writing, Found(f_name), ~ AtEnd
  PROVE  /\ next = pos /\ pos \in Nat
         /\ inodes[file].size = pos * BlockSize
         /\ \A p \in Held(inodes) : p[1] = file => p[2] < pos
         /\ \A k \in 0 .. Indirect : file \in Inodes /\ k < pos => <<file, k>> \in Held(inodes)
<1>1. inodes[file].size = pos * BlockSize /\ pos \in Nat
  BY Counters DEF BlockInv, ReadWriteKnows
<1>2. next = pos /\ Chunks(inodes[file].size) = pos
  BY <1>1, ChunksOf DEF next
<1> QED BY <1>1, <1>2 DEF Held, Places

-----------------------------------------------------------------------------
\* add_block_pointer.

LEMMA JunkIsNoBlock == Junk \notin Data
BY Sizes DEF Junk, Data

LEMMA SamePlaces ==
  ASSUME NEW a, NEW b, \A i \in Inodes : b[i].size = a[i].size
  PROVE  Held(b) = Held(a)
BY DEF Held, Places

LEMMA PointDirectBlocks ==
  ASSUME TypeOK, PcInv, DirInv, Formatted, BlocksApart, BlockInv, PointDirect
  PROVE  BlocksApart' /\ ReadWriteKnows' /\ Stays
<1>0. /\ pc = "point" /\ pc' = "data" /\ Found(f_name) /\ block \in Data /\ ~ AtEnd
      /\ UNCHANGED <<used, slot, dir, f_name, source, pos, block, new>>
      /\ inodes' = [inodes EXCEPT ![file].data[next] = block]
      /\ next < Direct
  BY DEF PointDirect, PcInv, Writing, call
<1>1. /\ file \in Inodes \ {0} /\ inodes[file] \in InodeType /\ inodes[file].refs = 1
  BY <1>0, TheFile DEF Writing
<1>2. /\ next = pos /\ pos \in Nat /\ inodes[file].size = pos * BlockSize
      /\ \A p \in Held(inodes) : p[1] = file => p[2] < pos
  BY <1>0, PlacesOfFile DEF Writing
<1>f. file' = file /\ AtEnd' = AtEnd /\ Found(f_name)' = Found(f_name)
  BY <1>0 DEF file, FindFile, Matches, AtEnd, Found
<1> DEFINE f == file
<1> HIDE DEF f
<1>3. /\ inodes'[f].size = inodes[f].size /\ inodes'[f].refs = inodes[f].refs
      /\ inodes'[f].indirect = inodes[f].indirect
      /\ inodes'[f].data = [inodes[f].data EXCEPT ![pos] = block]
      /\ \A i \in Inodes \ {f} : inodes'[i] = inodes[i]
  BY <1>0, <1>1, <1>2 DEF f, TypeOK, InodeType
<1>4. /\ f \in Inodes \ {0} /\ pos \in 0 .. Direct - 1
      /\ inodes[f].data \in [0 .. Direct - 1 -> Data]
  BY <1>0, <1>1, <1>2, Sizes DEF f, InodeType
<1>5. Held(inodes') = Held(inodes)
  BY <1>3, SamePlaces
<1>6. \A p \in Held(inodes) : Num(inodes', slot', p) = Num(inodes, slot, p)
  <2> TAKE p \in Held(inodes)
  <2>1. p[1] \in Inodes /\ p[2] \in Nat /\ slot' = slot
    BY <1>0, Sizes DEF Held, Places
  <2>2. CASE p[1] = f
    <3>1. p[2] # pos
      BY <1>2, <2>1, <2>2 DEF f
    <3>2. p[2] < Direct => inodes'[f].data[p[2]] = inodes[f].data[p[2]]
      BY <1>3, <1>4, <2>1, <3>1, Sizes
    <3> QED BY <1>3, <2>1, <2>2, <3>2 DEF Num
  <2>3. CASE p[1] # f
    BY <1>3, <2>1, <2>3 DEF Num
  <2> QED BY <2>2, <2>3
<1>7. /\ Apart(inodes', slot', used')
      /\ \A x : Loose(x, inodes, slot, used) => Loose(x, inodes', slot', used')
  <2>1. Apart(inodes, slot, used)
    BY DEF BlocksApart
  <2>2. used \subseteq used' /\ \A i \in Inodes : inodes'[i].indirect = inodes[i].indirect
    BY <1>0, <1>3
  <2> QED BY <1>5, <1>6, <2>1, <2>2, Unmoved
<1>8. BlocksApart'
  BY <1>1, <1>3, <1>4, <1>7, Zeroes DEF BlocksApart, f
<1>9. Num(inodes', slot', <<f, pos>>) = block
  BY <1>3, <1>4, Sizes DEF Num
<1>10. Loose(block, inodes', slot', used')
  BY <1>0, <1>7, JunkIsNoBlock DEF BlockInv, ReadWriteKnows, Writing
<1> QED
  <2>1. Stays
    BY <1>6 DEF Stays
  <2> QED
    BY <1>0, <1>2, <1>3, <1>4, <1>8, <1>9, <1>10, <1>f, <2>1, Sizes
       DEF ReadWriteKnows, f, Writing

\* A free block is marked, for the file or for its block numbers.
LEMMA FreshBlock ==
  ASSUME TypeOK, BlocksApart, FindFreeBlock # 0, used' = used \cup {FindFreeBlock},
         inodes' = inodes, slot' = slot
  PROVE  /\ BlocksApart'
         /\ Loose(FindFreeBlock, inodes', slot', used')
         /\ \A x : Loose(x, inodes, slot, used) =>
              Loose(x, inodes', slot', used') /\ FindFreeBlock # x
<1> DEFINE c == FindFreeBlock
<1>1. c \in Data /\ c \notin used /\ 0 \in used
  BY FreeBlock
<1> HIDE DEF c
<1>2. Apart(inodes, slot, used) /\ used \subseteq used'
  BY DEF BlocksApart
<1>3. /\ Apart(inodes', slot', used')
      /\ \A x : Loose(x, inodes, slot, used) => Loose(x, inodes', slot', used')
  BY <1>2, Unmoved
<1>4. Loose(c, inodes, slot, used \cup {c})
  BY <1>1, <1>2, Marked
<1>5. \A x : Loose(x, inodes, slot, used) => c # x
  BY <1>1 DEF Loose
<1> QED BY <1>3, <1>4, <1>5 DEF BlocksApart, c

LEMMA MarkIndirectBlocks ==
  ASSUME TypeOK, PcInv, DirInv, Formatted, BlocksApart, BlockInv, MarkIndirect
  PROVE  BlocksApart' /\ ReadWriteKnows' /\ Stays
<1>0. /\ pc = "point" /\ pc' = "indirect" /\ Found(f_name) /\ block \in Data /\ ~ AtEnd
      /\ UNCHANGED <<inodes, slot, dir, f_name, source, pos, block>>
      /\ used' = used \cup {FindFreeBlock} /\ new' = [new EXCEPT !.num = FindFreeBlock]
      /\ next \in Direct .. Indirect /\ inodes[file].indirect = 0 /\ FindFreeBlock # 0
  BY DEF MarkIndirect, NeedsIndirect, PcInv, Writing, call
<1>1. file \in Inodes
  BY <1>0, TheFile DEF Writing
<1>2. /\ next = pos /\ pos \in Nat /\ inodes[file].size = pos * BlockSize
      /\ \A k \in 0 .. Indirect : k < pos => <<file, k>> \in Held(inodes)
  BY <1>0, <1>1, PlacesOfFile DEF Writing
<1>3. pos = Direct
  <2>1. ASSUME pos # Direct PROVE FALSE
    <3>1. Direct \in 0 .. Indirect /\ Direct < pos /\ Direct >= Direct
      BY <1>0, <1>2, <2>1, Sizes
    <3>2. <<file, Direct>> \in Held(inodes)
      BY <1>2, <3>1
    <3> QED BY <1>0, <3>1, <3>2 DEF BlocksApart, Apart
  <2> QED BY <2>1
<1>4. Loose(block, inodes, slot, used)
  BY <1>0, JunkIsNoBlock DEF BlockInv, ReadWriteKnows, Writing
<1>5. /\ BlocksApart' /\ Loose(FindFreeBlock, inodes', slot', used')
      /\ Loose(block, inodes', slot', used') /\ FindFreeBlock # block
  BY <1>0, <1>4, FreshBlock
<1>6. new'.num = FindFreeBlock
  BY <1>0 DEF TypeOK
<1>f. file' = file
  BY <1>0 DEF file, FindFile, Matches
<1> QED BY <1>0, <1>2, <1>3, <1>5, <1>6, <1>f DEF ReadWriteKnows, Writing, Stays

LEMMA SetIndirectBlocks ==
  ASSUME TypeOK, PcInv, DirInv, Formatted, BlocksApart, BlockInv, SetIndirect
  PROVE  BlocksApart' /\ ReadWriteKnows' /\ Stays
<1>0. /\ pc = "indirect" /\ pc' = "zero" /\ Found(f_name) /\ block \in Data /\ ~ AtEnd
      /\ UNCHANGED <<used, slot, dir, f_name, source, pos, block, new>>
      /\ inodes' = [inodes EXCEPT ![file].indirect = new.num]
  BY DEF SetIndirect, PcInv, Writing, call
<1>1. file \in Inodes \ {0} /\ inodes[file] \in InodeType /\ inodes[file].refs = 1
  BY <1>0, TheFile DEF Writing
<1>2. inodes[file].size = pos * BlockSize
  BY <1>0, PlacesOfFile DEF Writing
<1>f. file' = file
  BY <1>0 DEF file, FindFile, Matches
<1> DEFINE f == file
           c == new.num
<1>3. /\ Loose(c, inodes, slot, used) /\ Loose(block, inodes, slot, used) /\ c # block
      /\ inodes[f].indirect = 0 /\ pos = Direct /\ Apart(inodes, slot, used)
  BY <1>0, JunkIsNoBlock DEF BlockInv, BlocksApart, ReadWriteKnows, Writing
<1> HIDE DEF f, c
<1>4. /\ inodes'[f].size = inodes[f].size /\ inodes'[f].refs = inodes[f].refs
      /\ inodes'[f].data = inodes[f].data /\ inodes'[f].indirect = c
      /\ \A i \in Inodes \ {f} : inodes'[i] = inodes[i]
      /\ f \in Inodes \ {0}
  BY <1>0, <1>1 DEF f, c, TypeOK, InodeType
<1>5. Held(inodes') = Held(inodes)
  BY <1>4, SamePlaces
<1>6. /\ Apart(inodes', slot, used)
      /\ \A p \in Held(inodes) : Num(inodes', slot, p) = Num(inodes, slot, p)
      /\ \A x : Loose(x, inodes, slot, used) /\ x # c => Loose(x, inodes', slot, used)
  BY <1>3, <1>4, <1>5, Attached
<1>7. BlocksApart'
  BY <1>0, <1>1, <1>4, <1>6, Zeroes DEF BlocksApart, f
<1>8. Loose(block, inodes', slot', used')
  BY <1>0, <1>3, <1>6
<1>9. c # 0
  BY <1>3 DEF Loose
<1>10. Stays
  BY <1>0, <1>6 DEF Stays
<1> QED BY <1>0, <1>2, <1>3, <1>4, <1>7, <1>8, <1>9, <1>10, <1>f DEF ReadWriteKnows, Writing, f

LEMMA ZeroIndirectBlocks ==
  ASSUME TypeOK, PcInv, DirInv, Formatted, BlocksApart, BlockInv, ZeroIndirect
  PROVE  BlocksApart' /\ ReadWriteKnows' /\ Stays
<1>0. /\ pc = "zero" /\ pc' = "point" /\ Found(f_name) /\ block \in Data /\ ~ AtEnd
      /\ UNCHANGED <<used, inodes, dir, f_name, source, pos, block, new>>
      /\ slot' = [slot EXCEPT ![inodes[file].indirect] = [x \in Slots |-> 0]]
  BY DEF ZeroIndirect, PcInv, Writing, call
<1>1. file \in Inodes
  BY <1>0, TheFile DEF Writing
<1>2. /\ inodes[file].size = pos * BlockSize
      /\ \A p \in Held(inodes) : p[1] = file => p[2] < pos
  BY <1>0, PlacesOfFile DEF Writing
<1>f. file' = file
  BY <1>0 DEF file, FindFile, Matches
<1>3. pos = Direct /\ inodes[file].indirect # 0 /\ Apart(inodes, slot, used)
  BY <1>0 DEF BlockInv, BlocksApart, ReadWriteKnows
<1>4. \A p \in Held(inodes) : Num(inodes, slot', p) = Num(inodes, slot, p)
  <2> TAKE p \in Held(inodes)
  <2>1. p[1] \in Inodes /\ p[2] \in Nat
    BY Sizes DEF Held, Places
  <2>2. CASE p[2] < Direct
    BY <2>2 DEF Num
  <2>3. CASE ~ (p[2] < Direct)
    <3>1. p[1] # file
      BY <1>2, <1>3, <2>3
    <3>2. inodes[p[1]].indirect # inodes[file].indirect
      BY <1>1, <1>3, <2>1, <3>1 DEF Apart
    <3>3. inodes[p[1]].indirect \in Data
      BY <2>1 DEF TypeOK, InodeType
    <3>4. slot'[inodes[p[1]].indirect] = slot[inodes[p[1]].indirect]
      BY <1>0, <3>2, <3>3 DEF TypeOK
    <3> QED BY <2>3, <3>4 DEF Num
  <2> QED BY <2>2, <2>3
<1>5. /\ Apart(inodes', slot', used')
      /\ \A x : Loose(x, inodes, slot, used) => Loose(x, inodes', slot', used')
  <2>1. /\ Apart(inodes, slot', used)
        /\ \A x : Loose(x, inodes, slot, used) => Loose(x, inodes, slot', used)
    BY <1>3, <1>4, Unmoved
  <2> QED BY <1>0, <2>1
<1>6. BlocksApart'
  BY <1>0, <1>5 DEF BlocksApart
<1>7. Loose(block, inodes', slot', used')
  BY <1>0, <1>5, JunkIsNoBlock DEF BlockInv, ReadWriteKnows, Writing
<1>8. Stays
  BY <1>0, <1>4 DEF Stays
<1> QED BY <1>0, <1>2, <1>6, <1>7, <1>8, <1>f DEF ReadWriteKnows, Writing

LEMMA PointIndirectBlocks ==
  ASSUME TypeOK, PcInv, DirInv, Formatted, BlocksApart, BlockInv, PointIndirect
  PROVE  BlocksApart' /\ ReadWriteKnows' /\ Stays
<1>0. /\ pc = "point" /\ pc' = "data" /\ Found(f_name) /\ block \in Data /\ ~ AtEnd
      /\ UNCHANGED <<used, inodes, dir, f_name, source, pos, block, new>>
      /\ slot' = [slot EXCEPT ![inodes[file].indirect][next - Direct] = block]
      /\ next \in Direct .. Indirect /\ inodes[file].indirect # 0
  BY DEF PointIndirect, PcInv, Writing, call
<1>1. file \in Inodes /\ inodes[file].indirect \in Data
  BY <1>0, TheFile DEF Writing, InodeType
<1>2. /\ inodes[file].size = pos * BlockSize /\ next = pos
      /\ \A p \in Held(inodes) : p[1] = file => p[2] < pos
  BY <1>0, PlacesOfFile DEF Writing
<1>f. file' = file
  BY <1>0 DEF file, FindFile, Matches
<1> DEFINE c == inodes[file].indirect
<1>3. pos \in Direct .. Indirect /\ pos - Direct \in Slots /\ Apart(inodes, slot, used)
  <2>1. pos \in Direct .. Indirect /\ Apart(inodes, slot, used)
    BY <1>0, <1>2 DEF BlocksApart
  <2>2. pos - Direct \in 0 .. Indirect - 1
    BY <2>1, Sizes
  <2> QED BY <2>1, <2>2 DEF Slots
<1>4. /\ slot' = [slot EXCEPT ![c] = [slot[c] EXCEPT ![pos - Direct] = block]]
      /\ c \in Data /\ slot[c] \in [Slots -> Data \cup {Junk}]
      /\ slot \in [Data -> [Slots -> Data \cup {Junk}]]
  BY <1>0, <1>1, <1>2 DEF TypeOK
<1> HIDE DEF c
<1>5. /\ slot'[c][pos - Direct] = block
      /\ \A b \in Data \ {c} : slot'[b] = slot[b]
      /\ \A x \in Slots \ {pos - Direct} : slot'[c][x] = slot[c][x]
  BY <1>3, <1>4
<1>6. \A p \in Held(inodes) : Num(inodes, slot', p) = Num(inodes, slot, p)
  <2> TAKE p \in Held(inodes)
  <2>1. p[1] \in Inodes /\ p[2] \in 0 .. Indirect
    BY DEF Held, Places
  <2>2. CASE p[2] < Direct
    BY <2>2 DEF Num
  <2>3. CASE ~ (p[2] < Direct) /\ p[1] = file
    <3>1. p[2] - Direct \in Slots \ {pos - Direct}
      <4>1. p[2] < pos
        BY <1>2, <2>3
      <4> QED BY <1>3, <2>1, <2>3, <4>1, Sizes DEF Slots
    <3> QED BY <1>5, <2>3, <3>1 DEF Num, c
  <2>4. CASE ~ (p[2] < Direct) /\ p[1] # file
    <3>1. inodes[p[1]].indirect # c
      BY <1>0, <1>1, <1>3, <2>1, <2>4 DEF Apart, c
    <3>2. inodes[p[1]].indirect \in Data
      BY <2>1 DEF TypeOK, InodeType
    <3> QED BY <1>5, <2>4, <3>1, <3>2 DEF Num
  <2> QED BY <2>2, <2>3, <2>4
<1>7. /\ Apart(inodes', slot', used')
      /\ \A x : Loose(x, inodes, slot, used) => Loose(x, inodes', slot', used')
  <2>1. /\ Apart(inodes, slot', used)
        /\ \A x : Loose(x, inodes, slot, used) => Loose(x, inodes, slot', used)
    BY <1>3, <1>6, Unmoved
  <2> QED BY <1>0, <2>1
<1>8. BlocksApart'
  BY <1>0, <1>7 DEF BlocksApart
<1>9. Loose(block, inodes', slot', used')
  BY <1>0, <1>7, JunkIsNoBlock DEF BlockInv, ReadWriteKnows, Writing
<1>10. Num(inodes, slot', <<file, pos>>) = block
  BY <1>3, <1>5, Sizes DEF Num, c
<1>11. Stays
  BY <1>0, <1>6 DEF Stays
<1> QED BY <1>0, <1>2, <1>8, <1>9, <1>10, <1>11, <1>f DEF ReadWriteKnows, Writing

LEMMA AddBlockPointerBlocks ==
  ASSUME TypeOK, PcInv, DirInv, Formatted, BlocksApart, BlockInv, AddBlockPointer
  PROVE  BlocksApart' /\ ReadWriteKnows' /\ Stays
<1>1. CASE NoIndirect
  <2>1. /\ pc = "point" /\ pc' = "data" /\ Found(f_name) /\ ~ AtEnd /\ block' = Junk
        /\ UNCHANGED <<used, inodes, slot, dir, f_name, source, pos, new>>
    BY <1>1 DEF NoIndirect, NeedsIndirect, PcInv, Writing, disk, call
  <2>2. inodes[file].size = pos * BlockSize
    BY <2>1, PlacesOfFile DEF Writing
  <2>f. file' = file
    BY <2>1 DEF file, FindFile, Matches
  <2> QED BY <2>1, <2>2, <2>f DEF BlocksApart, ReadWriteKnows, Writing, Stays
<1>2. CASE PointDropped
  <2>1. /\ pc = "point" /\ pc' = "data" /\ Found(f_name) /\ block \in Data /\ ~ AtEnd
        /\ UNCHANGED <<used, inodes, slot, dir, f_name, source, pos, block, new>>
        /\ next > Indirect
    BY <1>2 DEF PointDropped, PcInv, Writing, disk, call
  <2>2. inodes[file].size = pos * BlockSize /\ next = pos /\ pos \in Nat
    BY <2>1, PlacesOfFile DEF Writing
  <2>3. Loose(block, inodes, slot, used) /\ ~ (pos <= Indirect)
    BY <2>1, <2>2, JunkIsNoBlock, Sizes DEF BlockInv, ReadWriteKnows, Writing
  <2>f. file' = file
    BY <2>1 DEF file, FindFile, Matches
  <2> QED BY <2>1, <2>2, <2>3, <2>f DEF BlocksApart, ReadWriteKnows, Writing, Stays
<1> QED
  BY <1>1, <1>2, PointDirectBlocks, MarkIndirectBlocks, SetIndirectBlocks,
     ZeroIndirectBlocks, PointIndirectBlocks DEF AddBlockPointer

-----------------------------------------------------------------------------
\* The other steps of read_write.

LEMMA MarkBlockBlocks ==
  ASSUME TypeOK, DirInv, Formatted, BlocksApart, BlockInv, MarkBlock
  PROVE  BlocksApart' /\ ReadWriteKnows' /\ Stays
<1>0. /\ pc = "read" /\ pc' = "point" /\ Found(f_name) /\ ~ AtEnd
      /\ UNCHANGED <<inodes, slot, dir, f_name, source, pos, new>>
      /\ used' = used \cup {FindFreeBlock} /\ block' = FindFreeBlock /\ FindFreeBlock # 0
  BY DEF MarkBlock, call
<1>1. BlocksApart' /\ Loose(block', inodes', slot', used')
  BY <1>0, FreshBlock
<1>2. inodes[file].size = pos * BlockSize
  BY <1>0 DEF BlockInv, ReadWriteKnows
<1>f. file' = file
  BY <1>0 DEF file, FindFile, Matches
<1> QED BY <1>0, <1>1, <1>2, <1>f DEF ReadWriteKnows, Writing, Stays

LEMMA FallocFailsBlocks ==
  ASSUME TypeOK, DirInv, Formatted, BlocksApart, BlockInv, FallocFails
  PROVE  BlocksApart' /\ ReadWriteKnows' /\ Stays
<1>0. /\ pc = "read" /\ pc' = "data" /\ ~ AtEnd /\ block' = Junk
      /\ UNCHANGED <<used, inodes, slot, dir, f_name, source, pos, new>>
  BY DEF FallocFails, disk, call
<1>1. Found(f_name) => inodes[file].size = pos * BlockSize
  BY <1>0 DEF BlockInv, ReadWriteKnows
<1>f. file' = file /\ Found(f_name)' = Found(f_name)
  BY <1>0 DEF file, FindFile, Matches, Found
<1> QED BY <1>0, <1>1, <1>f DEF BlocksApart, ReadWriteKnows, Writing, Stays

LEMMA WriteDataBlocks ==
  ASSUME TypeOK, PcInv, DirInv, Formatted, BlocksApart, BlockInv, WriteData
  PROVE  BlocksApart' /\ ReadWriteKnows' /\ Stays
<1>0. /\ pc = "data" /\ pc' = "size" /\ Found(f_name) /\ block \in Data /\ ~ AtEnd
      /\ block # Junk
      /\ UNCHANGED <<used, inodes, dir, f_name, source, pos, block, new>>
      /\ slot' = [slot EXCEPT ![block] = [x \in Slots |-> Junk]]
  BY DEF WriteData, PcInv, Writing, call, TypeOK
<1>1. file \in Inodes
  BY <1>0, TheFile DEF Writing
<1>2. inodes[file].size = pos * BlockSize /\ Loose(block, inodes, slot, used)
  BY <1>0 DEF BlockInv, ReadWriteKnows, Writing
<1>3. Apart(inodes, slot, used)
  BY DEF BlocksApart
<1>f. file' = file
  BY <1>0 DEF file, FindFile, Matches
<1>4. \A i \in Inodes : slot'[inodes[i].indirect] = slot[inodes[i].indirect]
  <2> TAKE i \in Inodes
  <2>1. inodes[i].indirect \in Data /\ inodes[i].indirect # block
    BY <1>2 DEF TypeOK, InodeType, Loose
  <2> QED BY <1>0, <2>1 DEF TypeOK
<1>5. \A p \in Held(inodes) : Num(inodes, slot', p) = Num(inodes, slot, p)
  BY <1>4 DEF Num, Held, Places
<1>6. /\ Apart(inodes', slot', used')
      /\ \A x : Loose(x, inodes, slot, used) => Loose(x, inodes', slot', used')
  <2>1. /\ Apart(inodes, slot', used)
        /\ \A x : Loose(x, inodes, slot, used) => Loose(x, inodes, slot', used)
    BY <1>3, <1>5, Unmoved
  <2> QED BY <1>0, <2>1
<1>7. BlocksApart'
  BY <1>0, <1>6 DEF BlocksApart
<1>8. pos <= Indirect =>
        /\ Num(inodes, slot', <<file, pos>>) = block
        /\ pos >= Direct => inodes[file].indirect # 0
  <2>1. Num(inodes, slot', <<file, pos>>) = Num(inodes, slot, <<file, pos>>)
    BY <1>1, <1>4 DEF Num
  <2> QED BY <1>0, <2>1 DEF BlockInv, ReadWriteKnows
<1>9. Stays
  BY <1>0, <1>5 DEF Stays
<1> QED BY <1>0, <1>2, <1>6, <1>7, <1>8, <1>9, <1>f DEF ReadWriteKnows, Writing

LEMMA SetSizeBlocks ==
  ASSUME TypeOK, PcInv, DirInv, Formatted, BlocksApart, BlockInv, SetSize
  PROVE  BlocksApart' /\ ReadWriteKnows' /\ Stays
<1> DEFINE len == Min({BlockSize, source - pos * BlockSize})
<1>0. /\ pc = "size" /\ pc' = "read" /\ Found(f_name) /\ block \in Data /\ ~ AtEnd
      /\ UNCHANGED <<used, slot, dir, f_name, source>>
      /\ inodes' = [inodes EXCEPT ![file].size = @ + len] /\ pos' = pos + 1
  BY DEF SetSize, PcInv, Writing, call
<1>1. file \in Inodes \ {0} /\ inodes[file] \in InodeType /\ inodes[file].refs = 1
  BY <1>0, TheFile DEF Writing
<1>2. /\ inodes[file].size = pos * BlockSize /\ pos \in Nat
  BY <1>0, PlacesOfFile DEF Writing
<1>3. Apart(inodes, slot, used) /\ Loose(block, inodes, slot, used)
  BY <1>0, JunkIsNoBlock DEF BlocksApart, BlockInv, ReadWriteKnows, Writing
<1>f. file' = file
  BY <1>0 DEF file, FindFile, Matches
<1>4. len \in 1 .. BlockSize
  BY <1>0, ReadLen
<1>5. ~ AtEnd' => len = BlockSize
  <2> SUFFICES ASSUME ~ AtEnd' PROVE len = BlockSize
    OBVIOUS
  <2>1. BlockSize \in Nat /\ pos \in Nat /\ source \in Nat
    BY Sizes, Counters
  <2>2. ~ ((pos + 1) * BlockSize >= source)
    BY <1>0 DEF AtEnd
  <2> DEFINE rest == source - pos * BlockSize
  <2>3. rest \in Nat /\ rest > BlockSize
    BY <2>1, <2>2
  <2> HIDE DEF rest
  <2>4. {BlockSize, rest} \subseteq Nat /\ {BlockSize, rest} # {}
    BY <2>1, <2>3
  <2>5. /\ Min({BlockSize, rest}) \in {BlockSize, rest}
        /\ \A y \in {BlockSize, rest} : Min({BlockSize, rest}) <= y
    BY <2>4, Smallest
  <2>6. Min({BlockSize, rest}) = BlockSize
    BY <2>1, <2>3, <2>5
  <2> QED BY <2>6 DEF rest
<1> HIDE DEF len
<1> DEFINE f == file
<1> HIDE DEF f
<1>6. /\ inodes'[f].size = pos * BlockSize + len /\ inodes'[f].refs = inodes[f].refs
      /\ inodes'[f].data = inodes[f].data /\ inodes'[f].indirect = inodes[f].indirect
      /\ \A i \in Inodes \ {f} : inodes'[i] = inodes[i]
      /\ f \in Inodes \ {0}
  <2>1. /\ f \in Inodes \ {0} /\ inodes[f].size + len = pos * BlockSize + len
        /\ inodes' = [inodes EXCEPT ![f].size = @ + len]
    BY <1>0, <1>1, <1>2 DEF f
  <2> QED BY <1>1, <2>1 DEF f, TypeOK, InodeType
<1>7. Chunks(inodes[f].size) = pos /\ Chunks(inodes'[f].size) = pos + 1
  BY <1>2, <1>4, <1>6, ChunksOf DEF f
<1>8. \A p \in Places : p \in Held(inodes') <=> p \in Held(inodes) \/ p = <<f, pos>>
  <2> TAKE p \in Places
  <2>1. p[1] \in Inodes /\ p[2] \in Nat /\ p = <<p[1], p[2]>>
    BY Sizes DEF Places
  <2>2. CASE p[1] = f
    <3>1. p[2] < pos + 1 <=> p[2] < pos \/ p[2] = pos
      BY <1>2, <2>1
    <3>2. p = <<f, pos>> <=> p[2] = pos
      BY <2>1, <2>2
    <3> QED BY <1>7, <2>2, <3>1, <3>2 DEF Held
  <2>3. CASE p[1] # f
    BY <1>6, <2>1, <2>3 DEF Held
  <2> QED BY <2>2, <2>3
<1>9. \A p \in Places : Num(inodes', slot, p) = Num(inodes, slot, p)
  <2> TAKE p \in Places
  <2>1. p[1] \in Inodes
    BY DEF Places
  <2> QED BY <1>6, <2>1 DEF Num
<1>10. Held(inodes) \subseteq Places /\ Held(inodes') \subseteq Places
  BY DEF Held
<1>11. \A i \in Inodes : inodes'[i].indirect = inodes[i].indirect
  BY <1>6
<1>12. Apart(inodes', slot, used)
  <2>1. CASE pos <= Indirect
    <3> DEFINE q == <<f, pos>>
    <3>1. /\ q \in Places /\ q[1] = f /\ q[2] = pos
      BY <1>2, <1>6, <2>1, Sizes DEF Places
    <3>2. Num(inodes, slot, q) = block /\ (q[2] >= Direct => inodes[q[1]].indirect # 0)
      BY <1>0, <2>1, <3>1, JunkIsNoBlock DEF BlockInv, ReadWriteKnows, f
    <3> HIDE DEF q
    <3>3. Held(inodes') = Held(inodes) \cup {q}
      BY <1>8, <1>10, <3>1 DEF q
    <3> QED BY <1>3, <1>9, <1>10, <1>11, <3>1, <3>2, <3>3, Extended
  <2>2. CASE ~ (pos <= Indirect)
    <3>1. <<f, pos>> \notin Places
      BY <1>2, <2>2, Sizes DEF Places
    <3>2. Held(inodes') \subseteq Held(inodes)
      BY <1>8, <1>10, <3>1
    <3> QED BY <1>3, <1>9, <1>10, <1>11, <3>2, Unmoved
  <2> QED BY <2>1, <2>2
<1>13. BlocksApart'
  BY <1>0, <1>1, <1>6, <1>12, Zeroes DEF BlocksApart, f
<1>14. ~ AtEnd' => inodes'[f].size = (pos + 1) * BlockSize
  <2>1. (pos + 1) * BlockSize = pos * BlockSize + BlockSize
    BY <1>2, Sizes
  <2> QED BY <1>5, <1>6, <2>1
<1>15. Stays
  BY <1>0, <1>9, <1>10 DEF Stays
<1> QED BY <1>0, <1>13, <1>14, <1>15, <1>f DEF ReadWriteKnows, Writing, f

LEMMA ReadWriteBlocks ==
  ASSUME TypeOK, PcInv, OnAnEfs, DirInv, BlockInv, ReadWrite
  PROVE  BlockInv' /\ (Formatted => Stays)
<1>0. NewFileKnows'
  <2>1. pc' \notin {"entry", "root", "take"}
    BY DEF ReadWrite, Done, MarkBlock, FallocFails, AddBlockPointer, PointDirect,
       MarkIndirect, NoIndirect, SetIndirect, ZeroIndirect, PointIndirect, PointDropped,
       WriteData, WriteFails, SetSize, Exit
  <2> QED BY <2>1 DEF NewFileKnows
<1>1. Formatted => BlocksApart' /\ ReadWriteKnows' /\ Stays
  <2> SUFFICES ASSUME Formatted PROVE BlocksApart' /\ ReadWriteKnows' /\ Stays
    OBVIOUS
  <2>1. BlocksApart
    BY DEF BlockInv
  <2>2. CASE Done \/ WriteFails
    BY <2>1, <2>2 DEF Done, WriteFails, Exit, disk, BlocksApart, ReadWriteKnows, Writing,
       Stays
  <2> QED
    BY <2>1, <2>2, MarkBlockBlocks, FallocFailsBlocks, AddBlockPointerBlocks,
       WriteDataBlocks, SetSizeBlocks DEF ReadWrite
<1> QED BY <1>0, <1>1, WritesOnFormatted DEF BlockInv

-----------------------------------------------------------------------------
\* new_file and mkefs.

LEMMA TruncateBlocks ==
  ASSUME TypeOK, DirInv, Formatted, BlocksApart, NEW n \in Names, NEW s \in Sources,
         Truncate(n, s)
  PROVE  BlocksApart' /\ NewFileKnows' /\ ReadWriteKnows' /\ Stays
<1> DEFINE f == FindFile(n)
<1>0. /\ pc = "idle" /\ pc' = "read" /\ Found(n) /\ f_name' = n /\ pos' = 0
      /\ UNCHANGED <<used, slot, dir>>
      /\ inodes' = [inodes EXCEPT ![f].size = 0]
  BY DEF Truncate, Start
<1>1. Intact(dir, inodes[0].size, Taken)
  BY <1>0 DEF DirInv, EntryInv
<1>2. f \in Inodes \ {0} /\ f \in Taken
  BY <1>0, <1>1, NotTheRoot, FileTaken
<1>f. file' = f
  BY <1>0 DEF file, FindFile, Matches
<1> HIDE DEF f
<1>3. /\ inodes'[f].size = 0 /\ inodes'[f].refs = 1
      /\ inodes'[f].data = inodes[f].data /\ inodes'[f].indirect = inodes[f].indirect
      /\ \A i \in Inodes \ {f} : inodes'[i] = inodes[i]
  BY <1>0, <1>2 DEF TypeOK, InodeType, Taken
<1>4. Held(inodes') \subseteq Held(inodes)
  <2> SUFFICES ASSUME NEW p \in Held(inodes') PROVE p \in Held(inodes)
    OBVIOUS
  <2>1. p \in Places /\ p[1] \in Inodes /\ p[2] \in Nat /\ p[2] < Chunks(inodes'[p[1]].size)
    BY Sizes DEF Held, Places
  <2>2. p[1] # f
    <3>1. Chunks(inodes'[f].size) = 0
      BY <1>3, OneChunk
    <3> QED BY <2>1, <3>1
  <2> QED BY <1>3, <2>1, <2>2 DEF Held
<1>5. \A p \in Places : Num(inodes', slot', p) = Num(inodes, slot, p)
  BY <1>0, <1>3 DEF Num, Places
<1>6. Apart(inodes', slot', used')
  <2>1. Apart(inodes, slot, used) /\ used \subseteq used'
        /\ \A i \in Inodes : inodes'[i].indirect = inodes[i].indirect
    BY <1>0, <1>3 DEF BlocksApart
  <2>2. \A p \in Held(inodes') : Num(inodes', slot', p) = Num(inodes, slot, p)
    BY <1>5 DEF Held
  <2> QED BY <1>4, <2>1, <2>2, Unmoved
<1>7. BlocksApart'
  BY <1>2, <1>3, <1>6, Zeroes DEF BlocksApart
<1>8. pos' * BlockSize = 0
  BY <1>0, Sizes
<1>9. Stays
  BY <1>5 DEF Stays, Held
<1> QED BY <1>0, <1>3, <1>7, <1>8, <1>9, <1>f DEF NewFileKnows, ReadWriteKnows, Writing

LEMMA CreateBlocks ==
  ASSUME TypeOK, Formatted, BlocksApart, NEW n \in Names, NEW s \in Sources, Create(n, s)
  PROVE  BlocksApart' /\ NewFileKnows' /\ ReadWriteKnows' /\ Stays
<1> DEFINE i == Min(FreeInodes)
<1>1. /\ pc' = "entry" /\ pos' = 0 /\ UNCHANGED <<inodes, slot, used>>
      /\ i \in Inodes /\ inodes[i].refs = 0
      /\ new' = [num |-> i, copy |-> [inodes[i] EXCEPT !.refs = 1]]
  BY FreeInode DEF Create, Start, disk
<1> HIDE DEF i
<1>2. new'.copy = [ZeroInode EXCEPT !.refs = 1]
  BY <1>1 DEF BlocksApart
<1> QED BY <1>1, <1>2 DEF BlocksApart, NewFileKnows, ReadWriteKnows, Writing, Stays

LEMMA AddEntryBlocks ==
  ASSUME TypeOK, DirInv, Formatted, BlocksApart, NewFileKnows, AddEntry
  PROVE  BlocksApart' /\ NewFileKnows' /\ ReadWriteKnows' /\ Stays
<1> DEFINE m == inodes[0].size
<1>1. /\ Intact(dir, m, Taken) /\ new.num \in Inodes \ Taken /\ f_name \in Names
      /\ \A j \in Dir : dir[j].name # f_name
  BY DEF AddEntry, DirInv, EntryInv, Found, Matches
<1>2. m \in 0 .. BlockSize - 1
  <2>1. m \in Nat /\ m + 1 <= BlockSize
    <3> HIDE DEF m
    <3> QED BY <1>1, IntactFacts, RoomForOne
  <2> HIDE DEF m
  <2> QED BY <2>1, Sizes
<1>3. m % BlockSize = m /\ m \in Dir
  <2> HIDE DEF m
  <2> QED BY <1>2, Sizes DEF Dir
<1>4. /\ pc = "entry" /\ pc' = "root" /\ dir' = [dir EXCEPT ![m] = EntryOf(f_name, new.num)]
      /\ UNCHANGED <<used, inodes, slot, f_name, pos, new>>
  BY <1>3 DEF AddEntry, call
<1> HIDE DEF m
<1>5. /\ dir'[m].name = f_name /\ dir'[m].inode = new.num
      /\ \A j \in Dir \ {m} : dir'[j] = dir[j]
  BY <1>3, <1>4 DEF TypeOK, EntryOf
<1>6. Matches(f_name)' = {m}
  BY <1>1, <1>3, <1>4, <1>5 DEF Matches
<1>7. Min({m}) = m
  <2>1. {m} \subseteq Nat /\ {m} # {}
    BY <1>2, Sizes
  <2> QED BY <2>1, Smallest
<1>8. Found(f_name)' /\ FindFile(f_name)' = new'.num
  BY <1>4, <1>5, <1>6, <1>7 DEF Found, FindFile
<1> QED BY <1>4, <1>8 DEF BlocksApart, NewFileKnows, ReadWriteKnows, Writing, Stays

LEMMA GrowRootBlocks ==
  ASSUME TypeOK, DirInv, Formatted, BlocksApart, NewFileKnows, GrowRoot
  PROVE  BlocksApart' /\ NewFileKnows' /\ ReadWriteKnows' /\ Stays
<1> DEFINE m == inodes[0].size
<1>0. /\ pc = "root" /\ pc' = "take" /\ UNCHANGED <<used, slot, dir, f_name, pos, new>>
      /\ inodes' = [inodes EXCEPT ![0].size = @ + 1]
  BY DEF GrowRoot, call
<1>1. /\ Intact(dir, m + 1, Taken \cup {new.num}) /\ new.num # 0
  BY <1>0 DEF DirInv, EntryInv
<1>2. 0 \in Taken
  BY <1>1, IntactFacts
<1>3. m \in Nat /\ m + 1 \in 1 .. BlockSize
  BY <1>1, Numbers, Zeroes DEF Intact
<1>4. /\ inodes'[0].size = m + 1 /\ inodes'[0].refs = 1
      /\ inodes'[0].data = inodes[0].data /\ inodes'[0].indirect = inodes[0].indirect
      /\ \A i \in Inodes \ {0} : inodes'[i] = inodes[i]
  BY <1>0, <1>2, Zeroes DEF TypeOK, InodeType, Taken
<1>f. Found(f_name)' /\ FindFile(f_name)' = new'.num
  BY <1>0 DEF NewFileKnows, Found, FindFile, Matches
<1>5. m \in 1 .. BlockSize /\ m + 1 \in 1 .. BlockSize
  <2>1. dir[0].inode = 0
    BY <1>1, IntactFacts
  <2> DEFINE k == m + 1
             t == Taken \cup {new.num}
  <2>i. Intact(dir, k, t) /\ new.num \in t
    BY <1>1
  <2>k. k = m + 1
    OBVIOUS
  <2> HIDE DEF k, t
  <2>2. PICK j \in 0 .. k - 1 : dir[j].inode = new.num
    BY <2>i DEF Intact
  <2>3. j # 0
    BY <1>1, <2>1, <2>2
  <2> HIDE DEF m
  <2> QED BY <1>3, <2>3, <2>k, Sizes
<1>6. Chunks(inodes[0].size) = 1 /\ Chunks(inodes'[0].size) = 1
  BY <1>4, <1>5, OneChunk
<1> HIDE DEF m
<1>7. Held(inodes') = Held(inodes)
  BY <1>4, <1>6 DEF Held, Places
<1>8. \A p \in Held(inodes') : Num(inodes', slot', p) = Num(inodes, slot, p)
  BY <1>0, <1>4 DEF Num, Held, Places
<1>9. Apart(inodes', slot', used')
  <2>1. Apart(inodes, slot, used) /\ used \subseteq used'
        /\ \A i \in Inodes : inodes'[i].indirect = inodes[i].indirect
    BY <1>0, <1>4 DEF BlocksApart
  <2> QED BY <1>7, <1>8, <2>1, Unmoved
<1>10. BlocksApart'
  BY <1>4, <1>9, Zeroes DEF BlocksApart
<1>11. Stays
  BY <1>7, <1>8 DEF Stays
<1> QED BY <1>0, <1>10, <1>11, <1>f DEF NewFileKnows, ReadWriteKnows, Writing

LEMMA TakeInodeBlocks ==
  ASSUME TypeOK, DirInv, Formatted, BlocksApart, NewFileKnows, TakeInode
  PROVE  BlocksApart' /\ NewFileKnows' /\ ReadWriteKnows' /\ Stays
<1> DEFINE i == new.num
           z == [ZeroInode EXCEPT !.refs = 1]
<1>0. /\ pc = "take" /\ pc' = "read" /\ UNCHANGED <<used, slot, dir, f_name, source, pos>>
      /\ inodes' = [inodes EXCEPT ![i] = z] /\ pos = 0
      /\ FindFile(f_name) = i
  BY DEF TakeInode, call, NewFileKnows
<1>1. i \in Inodes \ {0} /\ inodes[i] = ZeroInode
  <2>1. i \in Inodes \ Taken /\ i # 0
    BY <1>0 DEF DirInv, EntryInv
  <2>2. inodes[i].refs = 0
    BY <2>1 DEF Taken, TypeOK, InodeType
  <2> QED BY <2>1, <2>2 DEF BlocksApart
<1>2. z.size = 0 /\ z.refs = 1 /\ z.data = ZeroInode.data /\ z.indirect = ZeroInode.indirect
      /\ ZeroInode.size = 0
  BY DEF ZeroInode
<1> HIDE DEF i, z
<1>3. /\ inodes'[i] = z
      /\ \A j \in Inodes \ {i} : inodes'[j] = inodes[j]
  BY <1>0, <1>1 DEF TypeOK
<1>4. \A j \in Inodes : /\ inodes'[j].size = inodes[j].size
                        /\ inodes'[j].data = inodes[j].data
                        /\ inodes'[j].indirect = inodes[j].indirect
  BY <1>1, <1>2, <1>3
<1>5. Held(inodes') = Held(inodes)
  BY <1>4, SamePlaces
<1>6. \A p \in Held(inodes') : Num(inodes', slot', p) = Num(inodes, slot, p)
  BY <1>0, <1>4 DEF Num, Held, Places
<1>7. Apart(inodes', slot', used')
  <2>1. Apart(inodes, slot, used) /\ used \subseteq used'
    BY <1>0 DEF BlocksApart
  <2> QED BY <1>4, <1>5, <1>6, <2>1, Unmoved
<1>8. BlocksApart'
  <2>1. inodes'[0] = inodes[0]
    BY <1>1, <1>3, Zeroes
  <2>2. \A j \in Inodes : inodes'[j].refs = 0 => inodes'[j] = ZeroInode
    BY <1>2, <1>3 DEF BlocksApart
  <2> QED BY <1>7, <2>1, <2>2 DEF BlocksApart
<1>9. inodes'[i].size = pos' * BlockSize
  BY <1>0, <1>2, <1>3, Sizes
<1>f. file' = i
  BY <1>0 DEF file, FindFile, Matches
<1>10. Stays
  BY <1>5, <1>6 DEF Stays
<1> QED BY <1>0, <1>8, <1>9, <1>10, <1>f DEF NewFileKnows, ReadWriteKnows, Writing

LEMMA NewFileBlocks ==
  ASSUME TypeOK, DirInv, BlockInv, NewFile
  PROVE  BlockInv' /\ (Formatted => Stays)
<1>1. Formatted' = Formatted
  BY DEF NewFile, Truncate, Create, AddEntry, GrowRoot, TakeInode, disk, Formatted
<1> SUFFICES ASSUME Formatted
             PROVE  BlocksApart' /\ NewFileKnows' /\ ReadWriteKnows' /\ Stays
  BY <1>1 DEF BlockInv
<1>2. BlocksApart /\ NewFileKnows
  BY DEF BlockInv
<1> QED
  BY <1>2, TruncateBlocks, CreateBlocks, AddEntryBlocks, GrowRootBlocks, TakeInodeBlocks
     DEF NewFile

\* On an empty disk the only place is the root directory's.
LEMMA MarkRootBlocks ==
  ASSUME TypeOK, DirInv, superblock, MarkRoot
  PROVE  BlocksApart' /\ NewFileKnows' /\ ReadWriteKnows'
<1> DEFINE z == [ZeroInode EXCEPT !.size = 1, !.refs = 1]
<1>0. /\ pc' = "idle" /\ used' = used \cup {0} /\ inodes' = inodes
      /\ inodes = [i \in Inodes |-> IF i = 0 THEN z ELSE ZeroInode]
  BY DEF MarkRoot, Exit, DirInv, MkefsInv
<1>1. /\ z.size = 1 /\ z.refs = 1 /\ z.indirect = 0 /\ z.data[0] = 0
      /\ ZeroInode.size = 0 /\ ZeroInode.indirect = 0
  BY Sizes DEF ZeroInode
<1> HIDE DEF z
<1>2. /\ inodes'[0] = z /\ \A i \in Inodes \ {0} : inodes'[i] = ZeroInode
  BY <1>0, Zeroes
<1>3. \A i \in Inodes : inodes'[i].indirect = 0
  BY <1>1, <1>2
<1>4. Held(inodes') = {<<0, 0>>}
  <2>1. Chunks(0) = 0 /\ Chunks(1) = 1
    BY OneChunk, Sizes
  <2>2. \A p \in Held(inodes') : p = <<0, 0>>
    <3> TAKE p \in Held(inodes')
    <3>1. /\ p[1] \in Inodes /\ p[2] \in Nat /\ p = <<p[1], p[2]>>
          /\ p[2] < Chunks(inodes'[p[1]].size)
      BY Sizes DEF Held, Places
    <3>2. p[1] = 0
      BY <1>1, <1>2, <2>1, <3>1
    <3>3. p[2] = 0
      BY <1>1, <1>2, <2>1, <3>1, <3>2
    <3> QED BY <3>1, <3>2, <3>3
  <2>3. <<0, 0>> \in Held(inodes')
    BY <1>1, <1>2, <2>1, Zeroes, Sizes DEF Held, Places
  <2> QED BY <2>2, <2>3
<1>5. Num(inodes', slot', <<0, 0>>) = 0
  BY <1>1, <1>2, Sizes DEF Num
<1>6. Apart(inodes', slot', used')
  <2>1. ~ (0 >= Direct)
    BY Sizes
  <2> QED BY <1>0, <1>3, <1>4, <1>5, <2>1 DEF Apart
<1>7. BlocksApart'
  BY <1>1, <1>2, <1>6 DEF BlocksApart
<1> QED BY <1>0, <1>7 DEF NewFileKnows, ReadWriteKnows, Writing

LEMMA MkefsBlocks == ASSUME TypeOK, DirInv, Mkefs PROVE BlockInv'
<1>1. CASE MarkRoot
  <2>1. Formatted' => superblock
    BY <1>1 DEF MarkRoot, Formatted
  <2> QED BY <1>1, <2>1, MarkRootBlocks DEF BlockInv
<1>2. CASE ~ MarkRoot
  <2>1. 0 \notin used'
    BY <1>2 DEF Mkefs, CreateSuperblock, EraseSuperblock, CreateInodeblocks, CreateRootdir,
       SetRootInode, LoseRootInode, disk, DirInv, MkefsInv
  <2> QED BY <2>1 DEF BlockInv, Formatted
<1> QED BY <1>1, <1>2

-----------------------------------------------------------------------------
\* The theorem.

LEMMA BlockStep ==
  ASSUME TypeOK, PcInv, OnAnEfs, DirInv, BlockInv, [Next]_vars
  PROVE  BlockInv'
<1>1. CASE Stop
  BY <1>1 DEF Stop, Exit, disk, BlockInv, Formatted, BlocksApart, NewFileKnows,
     ReadWriteKnows, Writing
<1>2. CASE UNCHANGED vars
  <2>1. UNCHANGED <<superblock, used, inodes, dir, slot, pc, f_name, source, pos, block, new>>
    BY <1>2 DEF vars, disk, call
  <2>2. /\ file' = file /\ AtEnd' = AtEnd /\ Found(f_name)' = Found(f_name)
        /\ FindFile(f_name)' = FindFile(f_name)
    BY <2>1 DEF file, FindFile, Matches, AtEnd, Found
  <2>3. /\ Formatted' <=> Formatted
        /\ BlocksApart => BlocksApart'
        /\ NewFileKnows => NewFileKnows'
        /\ ReadWriteKnows => ReadWriteKnows'
    BY <2>1, <2>2 DEF Formatted, BlocksApart, NewFileKnows, ReadWriteKnows
  <2> QED BY <2>3 DEF BlockInv
<1> QED BY <1>1, <1>2, MkefsBlocks, NewFileBlocks, ReadWriteBlocks DEF Next

LEMMA BlockInvSuffices == ASSUME TypeOK, BlockInv PROVE NoBlockShared
<1> SUFFICES ASSUME Formatted PROVE NoBlockShared
  BY DEF NoBlockShared
<1>1. Apart(inodes, slot, used)
  BY DEF BlockInv, BlocksApart
<1>2. Blocks = Held(inodes)
  BY DEF Blocks, Held, Places
<1>3. \A p \in Blocks : GetBnum(inodes[p[1]], p[2]) = Num(inodes, slot, p)
  <2> TAKE p \in Blocks
  <2>1. p[2] \in 0 .. Indirect
    BY DEF Blocks
  <2>2. /\ p[2] < Direct => p[2] \notin Direct .. Direct + Indirect - 1
        /\ ~ (p[2] < Direct) => p[2] \in Direct .. Direct + Indirect - 1
    BY <2>1, Sizes
  <2>3. CASE p[2] < Direct
    BY <2>2, <2>3, Zenon DEF GetBnum, Num
  <2>4. CASE ~ (p[2] < Direct)
    BY <2>2, <2>4, Zenon DEF GetBnum, Num
  <2> QED BY <2>3, <2>4
<1>4. \A p \in Blocks : GetBnum(inodes[p[1]], p[2]) \in used
  BY <1>1, <1>2, <1>3 DEF Apart
<1>5. \A p, q \in Blocks : GetBnum(inodes[p[1]], p[2]) = GetBnum(inodes[q[1]], q[2]) => p = q
  <2> SUFFICES ASSUME NEW p \in Blocks, NEW q \in Blocks,
                      GetBnum(inodes[p[1]], p[2]) = GetBnum(inodes[q[1]], q[2])
               PROVE  p = q
    OBVIOUS
  <2>1. Num(inodes, slot, p) = Num(inodes, slot, q)
    BY <1>3, Zenon
  <2> QED BY <1>1, <1>2, <2>1 DEF Apart
<1>6. \A i \in Inodes : inodes[i].indirect # 0 =>
        /\ inodes[i].indirect \in used
        /\ \A p \in Blocks : GetBnum(inodes[p[1]], p[2]) # inodes[i].indirect
        /\ \A l \in Inodes \ {i} : inodes[l].indirect # inodes[i].indirect
  BY <1>1, <1>2, <1>3 DEF Apart
<1> QED BY <1>4, <1>5, <1>6 DEF NoBlockShared

\* Each write finds the blocks as its program left them, and no kill upsets them.
THEOREM BlockInvariance == Uninterrupted /\ Spec => []BlockInv
<1> SUFFICES ASSUME Uninterrupted PROVE Spec => []BlockInv
  OBVIOUS
<1>1. Init => BlockInv
  BY DEF Init, BlockInv, Formatted
<1>2. TypeOK /\ PcInv /\ OnAnEfs /\ DirInv /\ BlockInv /\ [Next]_vars => BlockInv'
  BY BlockStep
<1> QED BY <1>1, <1>2, Invariance, DirectoryInvariance, PTL DEF Spec

\* Unless writeefs is killed in the middle of new_file, no block holds two things: no file
\* ever overwrites another, its block numbers or the root directory.
THEOREM NoBlockIsShared == Uninterrupted /\ Spec => []NoBlockShared
<1>1. TypeOK /\ BlockInv => NoBlockShared
  BY BlockInvSuffices
<1> QED BY <1>1, Invariance, BlockInvariance, PTL

-----------------------------------------------------------------------------
\* What a new file holds.

\* Blocks are written on formatted disks only. An inode that is free is empty, but for the
\* root's on an unformatted disk, which new_file takes after it has grown it.
Empties ==
  /\ pc \in Writing /\ (pc = "data" => block # Junk) => Formatted
  /\ pc \in {"entry", "root", "take"} =>
       /\ new.copy.size = 0 /\ new.copy.refs = 1
       /\ inodes[0].refs = 0 => new.num = 0
  /\ pc = "entry" => ~ Found(f_name)
  /\ pc \in {"root", "take"} => Found(f_name) /\ FindFile(f_name) = new.num
  /\ \A i \in Inodes : inodes[i].refs = 0 => inodes[i].size = 0 \/ (pc = "take" /\ i = 0)
  /\ pc = "read" /\ pos = 0 => Found(f_name) /\ InodeOf(f_name).size = 0

LEMMA MkefsEmpties == ASSUME TypeOK, Empties, Mkefs PROVE Empties'
<1>1. pc' \in {"idle", "inodeblocks", "rootdir", "rootinode", "rootmark"} /\ pc # "take"
  BY DEF Mkefs, CreateSuperblock, EraseSuperblock, CreateInodeblocks, CreateRootdir,
     SetRootInode, LoseRootInode, MarkRoot, Exit
<1>2. ASSUME NEW i \in Inodes, inodes'[i].refs = 0 PROVE inodes'[i].size = 0
  <2>1. CASE inodes' = inodes
    BY <1>1, <1>2, <2>1 DEF Empties
  <2>2. CASE CreateInodeblocks
    <3>1. inodes'[i] = ZeroInode \/ inodes'[i] = inodes[i]
      BY <2>2 DEF CreateInodeblocks
    <3> QED BY <1>1, <1>2, <3>1 DEF Empties, ZeroInode
  <2>3. CASE SetRootInode
    <3>1. i # 0 => inodes'[i] = inodes[i]
      BY <2>3 DEF SetRootInode, TypeOK
    <3>2. i = 0 => inodes'[i].refs = 1
      BY <2>3, Zeroes DEF SetRootInode, TypeOK, ZeroInode
    <3> QED BY <1>1, <1>2, <3>1, <3>2 DEF Empties
  <2> QED BY <2>1, <2>2, <2>3 DEF Mkefs, CreateSuperblock, EraseSuperblock, CreateRootdir,
       LoseRootInode, MarkRoot, disk
<1> QED BY <1>1, <1>2 DEF Empties, Writing

LEMMA NewFileEmpties == ASSUME TypeOK, PcInv, Empties, NewFile PROVE Empties'
<1>1. ASSUME NEW n \in Names, NEW s \in Sources, Truncate(n, s) PROVE Empties'
  <2>1. /\ pc = "idle" /\ pc' = "read" /\ dir' = dir /\ f_name' = n /\ Found(n)
        /\ inodes' = [inodes EXCEPT ![FindFile(n)].size = 0]
    BY <1>1 DEF Truncate, Start
  <2>2. FindFile(n) \in Inodes
    BY <2>1, FileFound
  <2>3. inodes'[FindFile(n)].size = 0
    BY <2>1, <2>2 DEF TypeOK, InodeType
  <2>4. Found(n)' /\ FindFile(n)' = FindFile(n)
    BY <2>1 DEF Found, FindFile, Matches
  <2>5. Found(f_name)' /\ InodeOf(f_name)'.size = 0
    BY <2>1, <2>3, <2>4 DEF InodeOf, Found, FindFile, Matches
  <2>6. ASSUME NEW i \in Inodes, inodes'[i].refs = 0 PROVE inodes'[i].size = 0
    <3>1. CASE i = FindFile(n)
      BY <2>3, <3>1
    <3>2. CASE i # FindFile(n)
      <4>1. inodes'[i] = inodes[i]
        BY <2>1, <2>2, <3>2 DEF TypeOK
      <4> QED BY <2>1, <2>6, <4>1 DEF Empties
    <3> QED BY <3>1, <3>2
  <2> QED BY <2>1, <2>5, <2>6 DEF Empties, Writing
<1>2. ASSUME NEW n \in Names, NEW s \in Sources, Create(n, s) PROVE Empties'
  <2> DEFINE i == Min(FreeInodes)
  <2>1. i \in Inodes /\ inodes[i].refs = 0
    BY <1>2, FreeInode DEF Create
  <2>2. /\ new' = [num |-> i, copy |-> [inodes[i] EXCEPT !.refs = 1]]
        /\ pc = "idle" /\ pc' = "entry" /\ dir' = dir /\ inodes' = inodes /\ f_name' = n
        /\ ~ Found(n)
    BY <1>2 DEF Create, Start, disk
  <2>3. inodes[0].refs = 0 => i = 0
    <3>1. FreeInodes \subseteq Nat /\ FreeInodes # {}
      BY <1>2, Numbers DEF FreeInodes, Create
    <3>2. i \in Nat /\ \A y \in FreeInodes : i <= y
      BY <3>1, Smallest
    <3>3. inodes[0].refs = 0 => 0 \in FreeInodes
      BY Zeroes DEF FreeInodes
    <3> HIDE DEF i
    <3> QED BY <3>2, <3>3
  <2> HIDE DEF i
  <2>4. inodes[i].size = 0
    BY <2>1, <2>2 DEF Empties
  <2>5. new'.num = i /\ new'.copy.size = 0 /\ new'.copy.refs = 1
    BY <2>1, <2>2, <2>4 DEF TypeOK, InodeType
  <2>6. ~ Found(f_name)'
    BY <2>2 DEF Found, Matches
  <2> QED BY <2>2, <2>3, <2>5, <2>6 DEF Empties, Writing
<1>3. CASE AddEntry
  <2> DEFINE k == inodes[0].size % BlockSize
             e == EntryOf(f_name, new.num)
  <2>1. /\ pc = "entry" /\ pc' = "root" /\ dir' = [dir EXCEPT ![k] = e]
        /\ UNCHANGED <<inodes, f_name, new>>
    BY <1>3 DEF AddEntry, call
  <2>2. k \in Dir
    BY Zeroes, Numbers, Sizes DEF Dir
  <2>3. e.name = f_name /\ e.inode = new.num
    BY DEF EntryOf
  <2> HIDE DEF k, e
  <2>4. dir'[k] = e /\ \A j \in Dir \ {k} : dir'[j] = dir[j]
    BY <2>1, <2>2 DEF TypeOK
  <2>5. Matches(f_name)' = {k}
    <3>1. \A j \in Dir : dir[j].name # f_name
      BY <2>1 DEF Empties, Found, Matches
    <3> QED BY <2>1, <2>2, <2>3, <2>4, <3>1 DEF Matches
  <2>6. Min({k}) = k
    <3>1. {k} \subseteq Nat /\ {k} # {}
      BY <2>2, Sizes DEF Dir
    <3> QED BY <3>1, Smallest
  <2>7. Found(f_name)' /\ FindFile(f_name)' = new'.num
    BY <2>1, <2>3, <2>4, <2>5, <2>6 DEF Found, FindFile
  <2> QED BY <2>1, <2>7 DEF Empties, Writing
<1>4. CASE GrowRoot
  <2>1. /\ pc = "root" /\ pc' = "take" /\ UNCHANGED <<dir, f_name, new>>
        /\ inodes' = [inodes EXCEPT ![0].size = @ + 1]
    BY <1>4 DEF GrowRoot, call
  <2>2. \A i \in Inodes \ {0} : inodes'[i] = inodes[i]
    BY <2>1 DEF TypeOK
  <2>3. inodes'[0].refs = inodes[0].refs
    BY <2>1, Zeroes DEF TypeOK, InodeType
  <2>4. Found(f_name)' /\ FindFile(f_name)' = new'.num
    BY <2>1 DEF Empties, Found, FindFile, Matches
  <2> QED BY <2>1, <2>2, <2>3, <2>4 DEF Empties, Writing
<1>5. CASE TakeInode
  <2>1. /\ pc = "take" /\ pc' = "read" /\ UNCHANGED <<dir, f_name>>
        /\ inodes' = [inodes EXCEPT ![new.num] = new.copy]
        /\ new.num \in Inodes /\ new.copy.size = 0 /\ new.copy.refs = 1
    BY <1>5 DEF TakeInode, call, PcInv, Empties
  <2>2. inodes'[new.num] = new.copy /\ \A i \in Inodes \ {new.num} : inodes'[i] = inodes[i]
    BY <2>1 DEF TypeOK
  <2>3. Found(f_name)' /\ FindFile(f_name)' = new.num
    BY <2>1 DEF Empties, Found, FindFile, Matches
  <2>4. Found(f_name)' /\ InodeOf(f_name)'.size = 0
    BY <2>1, <2>2, <2>3 DEF InodeOf
  <2>5. ASSUME NEW i \in Inodes, inodes'[i].refs = 0 PROVE inodes'[i].size = 0
    <3>1. i # new.num
      BY <2>1, <2>2, <2>5
    <3>2. inodes[i].refs = 0 /\ inodes'[i] = inodes[i]
      BY <2>2, <2>5, <3>1
    <3>3. i # 0
      BY <2>1, <3>1, <3>2 DEF Empties
    <3> QED BY <3>2, <3>3 DEF Empties
  <2> QED BY <2>1, <2>4, <2>5 DEF Empties, Writing
<1> QED BY <1>1, <1>2, <1>3, <1>4, <1>5 DEF NewFile

LEMMA ReadWriteEmpties ==
  ASSUME TypeOK, PcInv, OnAnEfs, DirInv, Empties, ReadWrite
  PROVE  Empties'
<1>1. /\ pc \in Writing \cup {"read"} /\ pc' \in Writing \cup {"read", "idle"}
      /\ superblock' = superblock
  BY DEF ReadWrite, Done, MarkBlock, FallocFails, AddBlockPointer, PointDirect, MarkIndirect,
     NoIndirect, SetIndirect, ZeroIndirect, PointIndirect, PointDropped, WriteData,
     WriteFails, SetSize, Exit, disk, NeedsIndirect, Writing
<1>2. pc' \in Writing /\ (pc' = "data" => block' # Junk) => Formatted'
  <2>1. CASE MarkBlock
    BY <2>1, FreeBlock DEF MarkBlock, OnAnEfs, Formatted
  <2>2. CASE AddBlockPointer \/ WriteData
    <3>1. pc \in {"point", "indirect", "zero"} \/ (pc = "data" /\ block # Junk)
      BY <2>2 DEF AddBlockPointer, PointDirect, NeedsIndirect, MarkIndirect, NoIndirect,
         SetIndirect, ZeroIndirect, PointIndirect, PointDropped, WriteData
    <3>2. Formatted
      BY <3>1 DEF Empties, Writing
    <3>3. used \subseteq used'
      BY <2>2 DEF AddBlockPointer, PointDirect, MarkIndirect, NoIndirect, SetIndirect,
         ZeroIndirect, PointIndirect, PointDropped, WriteData, disk
    <3> QED BY <1>1, <3>2, <3>3 DEF Formatted
  <2>3. CASE Done \/ FallocFails \/ WriteFails \/ SetSize
    BY <2>3 DEF Done, FallocFails, WriteFails, SetSize, Exit, Writing
  <2> QED BY <2>1, <2>2, <2>3 DEF ReadWrite
<1>3. \A i \in Inodes : inodes'[i].refs = 0 => inodes'[i].size = 0
  <2> SUFFICES ASSUME NEW i \in Inodes, inodes'[i].refs = 0 PROVE inodes'[i].size = 0
    OBVIOUS
  <2>0. inodes \in [Inodes -> InodeType] /\ inodes[i] \in InodeType
    BY DEF TypeOK
  <2>1. inodes[i].refs = 0 => inodes[i].size = 0
    BY <1>1 DEF Empties, Writing
  <2>2. CASE inodes' = inodes
    BY <2>1, <2>2
  <2>3. CASE PointDirect \/ SetIndirect
    <3>1. CASE PointDirect
      <4>1. inodes'[i].refs = inodes[i].refs /\ inodes'[i].size = inodes[i].size
        BY <2>0, <3>1 DEF PointDirect, InodeType
      <4> QED BY <2>1, <4>1
    <3>2. CASE SetIndirect
      <4>1. inodes'[i].refs = inodes[i].refs /\ inodes'[i].size = inodes[i].size
        BY <2>0, <3>2 DEF SetIndirect, InodeType
      <4> QED BY <2>1, <4>1
    <3> QED BY <2>3, <3>1, <3>2
  <2>4. CASE SetSize
    <3>1. pc = "size" /\ Formatted /\ Found(f_name)
      BY <2>4 DEF SetSize, Empties, PcInv, Writing
    <3>2. inodes[file].refs = 1
      BY <3>1, TheFile DEF Writing
    <3>3. inodes'[i].refs = inodes[i].refs /\ (i # file => inodes'[i] = inodes[i])
      BY <2>0, <2>4 DEF SetSize, InodeType
    <3> QED BY <2>1, <3>2, <3>3
  <2> QED
    BY <2>2, <2>3, <2>4 DEF ReadWrite, Done, MarkBlock, FallocFails, AddBlockPointer,
       MarkIndirect, NoIndirect, ZeroIndirect, PointIndirect, PointDropped, WriteData,
       WriteFails, disk
<1>4. ~ (pc' = "read" /\ pos' = 0)
  <2>1. pc' = "read" => pos' = pos + 1
    BY DEF ReadWrite, Done, MarkBlock, FallocFails, AddBlockPointer, PointDirect,
       MarkIndirect, NeedsIndirect, NoIndirect, SetIndirect, ZeroIndirect, PointIndirect,
       PointDropped, WriteData, WriteFails, SetSize, Exit
  <2> QED BY <2>1, Counters
<1> QED BY <1>1, <1>2, <1>3, <1>4 DEF Empties, Writing

\* Unless writeefs is killed in the middle of new_file, efs.h is right: new_file "makes a new
\* empty file", also on a disk that mkefs did not finish, and an old file is emptied.
THEOREM NewFilesAreEmpty == Uninterrupted /\ Spec => []NewFileIsEmpty
<1> SUFFICES ASSUME Uninterrupted PROVE Spec => []NewFileIsEmpty
  OBVIOUS
<1>1. ASSUME Init PROVE Empties
  <2>1. \A i \in Inodes : inodes[i].size = 0
    BY <1>1 DEF Init, ZeroInode
  <2>2. pc = "idle"
    BY <1>1 DEF Init
  <2> QED BY <2>1, <2>2 DEF Empties, Writing
<1>2. TypeOK /\ PcInv /\ OnAnEfs /\ DirInv /\ Empties /\ [Next]_vars => Empties'
  <2> SUFFICES ASSUME TypeOK, PcInv, OnAnEfs, DirInv, Empties, [Next]_vars PROVE Empties'
    OBVIOUS
  <2>1. CASE Stop
    BY <2>1 DEF Stop, Exit, disk, Uninterrupted, Empties, Writing
  <2>2. CASE UNCHANGED vars
    <3>1. UNCHANGED <<superblock, used, inodes, dir, pc, f_name, pos, block, new>>
      BY <2>2 DEF vars, disk, call
    <3> QED BY <3>1 DEF Empties, Formatted, Found, FindFile, Matches, InodeOf
  <2> QED BY <2>1, <2>2, MkefsEmpties, NewFileEmpties, ReadWriteEmpties DEF Next
<1>3. Empties => NewFileIsEmpty
  BY DEF Empties, NewFileIsEmpty
<1> QED BY <1>1, <1>2, <1>3, Invariance, DirectoryInvariance, PTL DEF Spec
=============================================================================
