-------------------------------- MODULE Efs --------------------------------
(***************************************************************************)
(* The EFS disk and the two programs that write it: mkefs makes an empty    *)
(* file system, writeefs copies a file to its root directory.  They run one *)
(* after another; each write_block is a step, and a run may be killed       *)
(* between any two of them (Stops).                                         *)
(*                                                                         *)
(* The unit of size is a directory entry (16 bytes): a block holds          *)
(* BlockSize of them.  Data blocks are numbered from 0, as in the bitmap    *)
(* and in the inodes, where 0 also means "none": it is the root            *)
(* directory's.  A source is known by its length; what a block holds is     *)
(* its place in the source.  Names have less than 11 characters, so that    *)
(* f_name is terminated, and a disk that is no EFS has none of its ident    *)
(* bytes.                                                                   *)
(*                                                                         *)
(* A definition marked "mutant" is what a plausible mistake would make of   *)
(* the definition after it; it is used to try the properties out.          *)
(***************************************************************************)
EXTENDS Integers, Sequences, FiniteSets, FiniteSetsExt

CONSTANTS
  Names,          \* the names of the files that are written
  Sources,        \* the lengths of the files they are copied from
  BlockSize,      \* entries in a block (64)
  InodesPerBlock, \* 16
  InodeBlocks,    \* 4
  Direct,         \* direct pointers in an inode (5)
  Indirect,       \* INDIRECT_POINTERS (256): the last logical block written
  data_count,     \* the data blocks of the disk
  FormatBound,    \* a bound: mkefs runs on a disk with at most so many blocks in use
  Stops           \* where the programs may be killed

InodeCount == InodesPerBlock * InodeBlocks

ASSUME EfsAssumption ==
  /\ "" \notin Names /\ "." \notin Names
  /\ Sources \subseteq Nat
  /\ {BlockSize, InodesPerBlock, InodeBlocks, Direct, data_count} \subseteq Nat \ {0}
  /\ Indirect \in Nat /\ Direct <= Indirect
  /\ InodeCount <= BlockSize    \* the root directory's only block has a slot for each

Inodes == 0 .. InodeCount - 1
Data   == 0 .. data_count - 1
Dir    == 0 .. BlockSize - 1
Slots  == 0 .. Indirect - 1

None == << >>         \* no part of a source
Junk == -1            \* what is no block number
EntryOf(n, i) == [name |-> n, inode |-> i]
ZeroInode == [size |-> 0, refs |-> 0, data |-> [d \in 0 .. Direct - 1 |-> 0], indirect |-> 0]

NoNew == [num |-> 0, copy |-> ZeroInode]

VARIABLES
  superblock, \* whether there is one of an EFS
  used,       \* the bitmap
  inodes,     \* the inode table
  dir,        \* data block 0 as directory entries
  text,       \* a data block as a block of a source
  slot,       \* a data block as block numbers
  pc,         \* where the program that runs is
  f_name,     \* writeefs: the name,
  source,     \* the file that is read,
  pos,        \* and the blocks read; mkefs: the block of inodes written next
  block,      \* falloc_block's result, or the block it is to return
  new         \* new_file's inode number and copy; add_block_pointer's tmp

disk == <<superblock, used, inodes, dir, text, slot>>
call == <<f_name, source>>
vars == <<disk, pc, call, pos, block, new>>

Init ==
  /\ superblock = FALSE /\ used = {}
  /\ inodes = [i \in Inodes |-> ZeroInode]
  /\ dir = [j \in Dir |-> EntryOf("", 0)]
  /\ text = [b \in Data |-> None] /\ slot = [b \in Data |-> [x \in Slots |-> Junk]]
  /\ pc = "idle"
  /\ f_name = "" /\ source = 0
  /\ pos = 0 /\ block = 0 /\ new = NoNew

\* A program ends: its memory is gone, the disk stays.
Exit ==
  /\ pc' = "idle"
  /\ f_name' = "" /\ source' = 0
  /\ pos' = 0 /\ block' = 0 /\ new' = NoNew

-----------------------------------------------------------------------------
\* Looking things up.

\* find_file: the first entry of that name.  The root inode's other pointers are 0, so
\* that all blocks of the directory are block 0, and the scan does not stop at its size.
Matches(n)  == {j \in Dir : dir[j].name = n}
FindFile(n) == dir[Min(Matches(n))].inode
Found(n)    == Matches(n) # {}

\* find_free_block, and its answer for "none"; mark_block_used is used' = used \cup {b}.
FindFromOne == \* mutant of FindFreeBlock
  IF Data \subseteq used \cup {0} THEN 0 ELSE Min(Data \ (used \cup {0}))
FindOneTooMany == \* mutant of FindFreeBlock
  Min(((Data \cup {data_count}) \ used) \cup {data_count})
FindFreeBlock ==
  IF Data \subseteq used THEN 0 ELSE Min(Data \ used)

\* The block of a file at logical block k, as boot2.S's get_bnum reads it.
GetBnum(inode, k) ==
  CASE k < Direct -> inode.data[k]
    [] k \in Direct .. Direct + Indirect - 1 -> slot[inode.indirect][k - Direct]
    [] OTHER -> Junk

Chunks(size) == (size + BlockSize - 1) \div BlockSize

-----------------------------------------------------------------------------
\* mkefs.

\* sb is freed before create_inodeblocks reads its inode_offset, 1, to begin with.  On
\* x86-64 free() may have put its list's pointer, NULL, in the first 8 bytes: then it is 0.
\* data_offset, behind them, is read after the free() too and taken to be intact: what a C
\* library that writes more of a free block would make of it is left out.
CreateSuperblock ==
  /\ pc = "idle"
  /\ Cardinality(used) <= FormatBound
  /\ superblock' = TRUE /\ used' = {}
  /\ pc' = "inodeblocks" /\ pos' \in {0, 1}
  /\ UNCHANGED <<inodes, dir, text, slot, call, block, new>>

EraseSuperblock ==
  /\ pc = "inodeblocks" /\ pos = 0
  /\ superblock' = FALSE /\ used' = {}
  /\ pos' = 1
  /\ UNCHANGED <<inodes, dir, text, slot, pc, call, block, new>>

CreateInodeblocks ==
  /\ pc = "inodeblocks" /\ pos # 0
  /\ inodes' = [i \in Inodes |-> IF i \div InodesPerBlock = pos - 1 THEN ZeroInode
                                ELSE inodes[i]]
  /\ pos' = pos + 1
  /\ pc' = IF pos = InodeBlocks THEN "rootdir" ELSE pc
  /\ UNCHANGED <<superblock, used, dir, text, slot, call, block, new>>

CreateRootdir ==
  /\ pc = "rootdir"
  /\ dir' = [j \in Dir |-> IF j = 0 THEN EntryOf(".", 0) ELSE EntryOf("", 0)]
  /\ pc' = "rootinode"
  /\ UNCHANGED <<superblock, used, inodes, text, slot, call, pos, block, new>>

SetRootInode ==
  /\ pc = "rootinode" /\ superblock
  /\ inodes' = [inodes EXCEPT ![0] = [ZeroInode EXCEPT !.size = 1, !.refs = 1]]
  /\ pc' = "rootmark"
  /\ UNCHANGED <<superblock, used, dir, text, slot, call, pos, block, new>>

\* Where the superblock is all zeros set_inode writes to block 0, among the boot code.
LoseRootInode ==
  /\ pc = "rootinode" /\ ~ superblock
  /\ pc' = "rootmark"
  /\ UNCHANGED <<disk, call, pos, block, new>>

MarkRoot ==
  /\ pc = "rootmark"
  /\ used' = used \cup {0}
  /\ Exit
  /\ UNCHANGED <<superblock, inodes, dir, text, slot>>

-----------------------------------------------------------------------------
\* writeefs: validate_efs and new_file.

Start(n, s) ==
  /\ pc = "idle" /\ superblock
  /\ f_name' = n /\ source' = s /\ pos' = 0 /\ block' = 0

TruncateNothing(n, s) == \* mutant of Truncate
  /\ Start(n, s)
  /\ Found(n)
  /\ pc' = "read"
  /\ UNCHANGED <<disk, new>>
\* The file exists: its size is 0 from now on, its blocks stay where they are.
Truncate(n, s) ==
  /\ Start(n, s)
  /\ Found(n)
  /\ inodes' = [inodes EXCEPT ![FindFile(n)].size = 0]
  /\ pc' = "read"
  /\ UNCHANGED <<superblock, used, dir, text, slot, new>>

FreeInodes == {i \in Inodes : inodes[i].refs = 0}

\* Without a free inode new_file fails, and nothing has happened.
Create(n, s) ==
  /\ Start(n, s)
  /\ ~ Found(n)
  /\ FreeInodes # {}
  /\ LET i == Min(FreeInodes)
     IN  new' = [num |-> i, copy |-> [inodes[i] EXCEPT !.refs = 1]]
  /\ pc' = "entry"
  /\ UNCHANGED disk

\* add_file writes the entry where the root directory ends, in block 0 again ...
AddEntry ==
  /\ pc = "entry"
  /\ inodes[0].size < Direct * BlockSize
  /\ dir' = [dir EXCEPT ![inodes[0].size % BlockSize] = EntryOf(f_name, new.num)]
  /\ pc' = "root"
  /\ UNCHANGED <<superblock, used, inodes, text, slot, call, pos, block, new>>

ForgetRoot == \* mutant of GrowRoot
  pc = "root" /\ pc' = "take" /\ UNCHANGED <<disk, call, pos, block, new>>
\* ... and then the directory's new size;
GrowRoot ==
  /\ pc = "root"
  /\ inodes' = [inodes EXCEPT ![0].size = @ + 1]
  /\ pc' = "take"
  /\ UNCHANGED <<superblock, used, dir, text, slot, call, pos, block, new>>

\* only now is the inode marked as taken.
TakeInode ==
  /\ pc = "take"
  /\ inodes' = [inodes EXCEPT ![new.num] = new.copy]
  /\ pc' = "read"
  /\ UNCHANGED <<superblock, used, dir, text, slot, call, pos, block, new>>

-----------------------------------------------------------------------------
\* writeefs: the loop of read_write, which copies a block of the source each time.

AtEnd == pos * BlockSize >= source

Done ==
  /\ pc = "read" /\ AtEnd
  /\ Exit
  /\ UNCHANGED disk

DontMarkBlock == \* mutant of MarkBlock
  /\ pc = "read" /\ ~ AtEnd
  /\ Found(f_name) /\ FindFreeBlock # 0
  /\ block' = FindFreeBlock
  /\ pc' = "point"
  /\ UNCHANGED <<disk, call, pos, new>>
\* falloc_block: a free block is marked, then pointed to.  Its error is (uint32)-1, which
\* read_write's test for 0 lets pass.
MarkBlock ==
  /\ pc = "read" /\ ~ AtEnd
  /\ Found(f_name) /\ FindFreeBlock # 0
  /\ used' = used \cup {FindFreeBlock} /\ block' = FindFreeBlock
  /\ pc' = "point"
  /\ UNCHANGED <<superblock, inodes, dir, text, slot, call, pos, new>>

FallocFails ==
  /\ pc = "read" /\ ~ AtEnd
  /\ ~ Found(f_name) \/ FindFreeBlock = 0
  /\ block' = Junk
  /\ pc' = "data"
  /\ UNCHANGED <<disk, call, pos, new>>

\* add_block_pointer(inode, block): next is the logical block the file grows by.
file == FindFile(f_name)
next == inodes[file].size \div BlockSize

PointDirect ==
  /\ pc = "point" /\ next < Direct
  /\ inodes' = [inodes EXCEPT ![file].data[next] = block]
  /\ pc' = "data"
  /\ UNCHANGED <<superblock, used, dir, text, slot, call, pos, block, new>>

NeedsIndirect == pc = "point" /\ next \in Direct .. Indirect /\ inodes[file].indirect = 0

MarkIndirect ==
  /\ NeedsIndirect
  /\ FindFreeBlock # 0
  /\ used' = used \cup {FindFreeBlock} /\ new' = [new EXCEPT !.num = FindFreeBlock]
  /\ pc' = "indirect"
  /\ UNCHANGED <<superblock, inodes, dir, text, slot, call, pos, block>>

NoIndirect ==
  /\ NeedsIndirect
  /\ FindFreeBlock = 0
  /\ block' = Junk
  /\ pc' = "data"
  /\ UNCHANGED <<disk, call, pos, new>>

SetIndirect ==
  /\ pc = "indirect"
  /\ inodes' = [inodes EXCEPT ![file].indirect = new.num]
  /\ pc' = "zero"
  /\ UNCHANGED <<superblock, used, dir, text, slot, call, pos, block, new>>

ZeroIndirect ==
  /\ pc = "zero"
  /\ slot' = [slot EXCEPT ![inodes[file].indirect] = [x \in Slots |-> 0]]
  /\ text' = [text EXCEPT ![inodes[file].indirect] = None]
  /\ pc' = "point"
  /\ UNCHANGED <<superblock, used, inodes, dir, call, pos, block, new>>

PointIndirect ==
  /\ pc = "point" /\ next \in Direct .. Indirect
  /\ inodes[file].indirect # 0
  /\ slot' = [slot EXCEPT ![inodes[file].indirect][next - Direct] = block]
  /\ text' = [text EXCEPT ![inodes[file].indirect] = None]
  /\ pc' = "data"
  /\ UNCHANGED <<superblock, used, inodes, dir, call, pos, block, new>>

\* A double indirect block is "not yet implemented", and no error either.
PointDropped ==
  /\ pc = "point" /\ next > Indirect
  /\ pc' = "data"
  /\ UNCHANGED <<disk, call, pos, block, new>>

WriteData ==
  /\ pc = "data" /\ block # Junk
  /\ text' = [text EXCEPT ![block] = <<source, pos>>]
  /\ slot' = [slot EXCEPT ![block] = [x \in Slots |-> Junk]]
  /\ pc' = "size"
  /\ UNCHANGED <<superblock, used, inodes, dir, call, pos, block, new>>

\* lseek refuses block -1.
WriteFails ==
  /\ pc = "data" /\ block = Junk
  /\ Exit
  /\ UNCHANGED disk

SetSizeByBlocks == \* mutant of SetSize
  /\ pc = "size"
  /\ inodes' = [inodes EXCEPT ![file].size = @ + BlockSize]
  /\ pos' = pos + 1
  /\ pc' = "read"
  /\ UNCHANGED <<superblock, used, dir, text, slot, call, block, new>>
SetSize ==
  /\ pc = "size"
  /\ LET read_len == Min({BlockSize, source - pos * BlockSize})
     IN  inodes' = [inodes EXCEPT ![file].size = @ + read_len]
  /\ pos' = pos + 1
  /\ pc' = "read"
  /\ UNCHANGED <<superblock, used, dir, text, slot, call, block, new>>

\* The program is killed: the disk keeps what has been written.
Stop ==
  /\ pc \in Stops
  /\ Exit
  /\ UNCHANGED disk

Mkefs ==
  CreateSuperblock \/ EraseSuperblock \/ CreateInodeblocks \/ CreateRootdir
  \/ SetRootInode \/ LoseRootInode \/ MarkRoot
NewFile ==
  \/ \E n \in Names, s \in Sources : Truncate(n, s) \/ Create(n, s)
  \/ AddEntry \/ GrowRoot \/ TakeInode
AddBlockPointer ==
  PointDirect \/ MarkIndirect \/ NoIndirect \/ SetIndirect \/ ZeroIndirect
  \/ PointIndirect \/ PointDropped
ReadWrite ==
  Done \/ MarkBlock \/ FallocFails \/ AddBlockPointer \/ WriteData \/ WriteFails \/ SetSize

Next == Mkefs \/ NewFile \/ ReadWrite \/ Stop

Spec == Init /\ [][Next]_vars

-----------------------------------------------------------------------------
\* What the disk means to the one who reads it.

\* Block 0 is marked by mkefs's last step: the disk is formatted, if it is an EFS at all.
Formatted == superblock /\ 0 \in used

InodeOf(n) == inodes[FindFile(n)]
Content(n) ==
  [c \in 1 .. Chunks(InodeOf(n).size) |->
     LET b == GetBnum(InodeOf(n), c - 1) IN IF b \in Data THEN text[b] ELSE None]

Absent == << <<Junk>> >>
Nobody == << >>
Store == INSTANCE FileStore WITH
  Reach  <- Indirect + 1, Lost <- None,
  files  <- [n \in Names |-> IF Formatted /\ Found(n) THEN Content(n) ELSE Absent],
  writer <- IF Formatted /\ pc \notin {"idle", "entry"} THEN <<f_name, source>>
            ELSE Nobody

-----------------------------------------------------------------------------
\* Properties.

Pcs == {"idle", "inodeblocks", "rootdir", "rootinode", "rootmark", "entry", "root", "take",
        "read", "point", "indirect", "zero", "data", "size"}
InodeType == [size : Nat, refs : {0, 1}, data : [0 .. Direct - 1 -> Data], indirect : Data]

TypeOK ==
  /\ superblock \in BOOLEAN /\ used \subseteq Data
  /\ inodes \in [Inodes -> InodeType]
  /\ dir \in [Dir -> [name : Names \cup {"", "."}, inode : Inodes]]
  /\ text \in [Data -> {None} \cup Sources \X Nat]
  /\ slot \in [Data -> [Slots -> Data \cup {Junk}]]
  /\ pc \in Pcs
  /\ f_name \in Names \cup {""} /\ source \in Sources \cup {0}
  /\ pos \in Nat /\ block \in Data \cup {Junk}
  /\ new \in [num : Nat, copy : InodeType]

\* Whatever is formatted, written, cut short by a full disk or by a kill, and written
\* again: the directory's entries are the first ones, "." and files with names and inodes
\* of their own that are marked as taken.
DirectoryIntact ==
  LET entries == 0 .. inodes[0].size - 1
  IN  Formatted /\ pc \notin {"root", "take"} =>
        /\ dir[0] = EntryOf(".", 0)
        /\ inodes[0].size <= BlockSize
        /\ \A j \in Dir : dir[j].name # "" <=> j \in entries
        /\ \A j, l \in entries :
             dir[j].name = dir[l].name \/ dir[j].inode = dir[l].inode => j = l
        /\ {dir[j].inode : j \in entries} = {i \in Inodes : inodes[i].refs = 1}

\* The blocks that hold a file or its block numbers are marked as used, and none of them
\* holds anything else: no file can overwrite another, or the root directory.
Blocks == {p \in Inodes \X (0 .. Indirect) : p[2] < Chunks(inodes[p[1]].size)}
NoBlockShared ==
  Formatted =>
    /\ \A p \in Blocks : GetBnum(inodes[p[1]], p[2]) \in used
    /\ \A p, q \in Blocks : GetBnum(inodes[p[1]], p[2]) = GetBnum(inodes[q[1]], q[2]) => p = q
    /\ \A i \in Inodes : inodes[i].indirect # 0 =>
         /\ inodes[i].indirect \in used
         /\ \A p \in Blocks : GetBnum(inodes[p[1]], p[2]) # inodes[i].indirect
         /\ \A l \in Inodes \ {i} : inodes[l].indirect # inodes[i].indirect

\* A disk that mkefs did not finish passes validate_efs, and writeefs runs on it: that
\* block 0 is free keeps it from allocating anything, as find_free_block's answer is 0.
\* On a disk whose superblock mkefs has erased it does not run, so no more is marked.
NothingAllocatedTooEarly == Formatted \/ used \subseteq {0}

\* When writeefs has reached the end of its source the file is as long as the source, and
\* is all of it, if the source has no more blocks than an inode can name.  If it has more,
\* the last ones are lost and success is reported all the same (inode.c:253-258).
CompleteWhenDone ==
  pc = "read" /\ AtEnd /\ Formatted =>
    /\ InodeOf(f_name).size = source
    /\ Chunks(source) <= Indirect + 1 =>
         Content(f_name) = [c \in 1 .. Chunks(source) |-> <<source, c - 1>>]

\* Kills and full disks included, a name has no file or a prefix of one source, as far as
\* an inode can name its blocks, and no writer disturbs another's file.
ImplementsFileStore == Store!Spec

-----------------------------------------------------------------------------
\* What a header says and the code does not do.

\* efs.h: new_file "makes a new empty file".  A writer killed before it has marked the
\* inode as taken leaves an entry whose inode the next file gets too.
NewFileIsEmpty == pc = "read" /\ pos = 0 => InodeOf(f_name).size = 0
=============================================================================
