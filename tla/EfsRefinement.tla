--------------------------- MODULE EfsRefinement ---------------------------
(***************************************************************************)
(* That the EFS tools implement FileStore.tla, whatever the sizes of a disk *)
(* and wherever they are killed but in the middle of new_file, that a file  *)
(* is complete when writeefs says so, and that the loader loads the         *)
(* beginning of one.                                                        *)
(***************************************************************************)
EXTENDS EfsProofs, Loader

\* What is read from an inode's file, ...
Bnum(inode, sl, k) ==
  CASE k < Direct -> inode.data[k]
    [] k \in Direct .. Direct + Indirect - 1 -> sl[inode.indirect][k - Direct]
    [] OTHER -> Junk
Reading(inode, sl, tx) ==
  [c \in 1 .. Chunks(inode.size) |->
     LET b == Bnum(inode, sl, c - 1) IN IF b \in Data THEN tx[b] ELSE None]

\* ... which is what its places hold, and nothing beyond them.
View(i, ins, sl, tx) ==
  [c \in 1 .. Chunks(ins[i].size) |->
     IF c <= Indirect + 1 THEN tx[Num(ins, sl, <<i, c - 1>>)] ELSE None]

\* Beyond the last place an indirect block has no number but 0, and block 0 no text.
Clean(sl, tx) ==
  /\ tx[0] = None
  /\ \A b \in Data, x \in Slots : x > Indirect - Direct => sl[b][x] \in {0, Junk}

LEMMA ContentReads ==
  ASSUME NEW n
  PROVE  /\ Content(n) = Reading(inodes[FindFile(n)], slot, text)
         /\ Content(n)' = Reading(inodes'[FindFile(n)'], slot', text')
BY DEF Content, InodeOf, GetBnum, Reading, Bnum

LEMMA ChunkCount == \A s \in Nat : Chunks(s) \in Nat
BY Sizes DEF Chunks

LEMMA ReadingIsView ==
  ASSUME NEW ins \in [Inodes -> InodeType], NEW sl \in [Data -> [Slots -> Data \cup {Junk}]],
         NEW tx, NEW us, us \subseteq Data, Apart(ins, sl, us), Clean(sl, tx),
         NEW i \in Inodes
  PROVE  Reading(ins[i], sl, tx) = View(i, ins, sl, tx)
<1>0. ins[i].size \in Nat /\ ins[i].indirect \in Data /\ Chunks(ins[i].size) \in Nat
  BY ChunkCount DEF InodeType
<1>1. ASSUME NEW c \in 1 .. Chunks(ins[i].size)
      PROVE  (LET b == Bnum(ins[i], sl, c - 1) IN IF b \in Data THEN tx[b] ELSE None)
               = IF c <= Indirect + 1 THEN tx[Num(ins, sl, <<i, c - 1>>)] ELSE None
  <2> DEFINE k == c - 1
             b == Bnum(ins[i], sl, k)
  <2>1. k \in Nat /\ k < Chunks(ins[i].size) /\ (c <= Indirect + 1 <=> k <= Indirect)
    BY <1>0, <1>1, Sizes
  <2>2. /\ k < Direct => k \notin Direct .. Direct + Indirect - 1
        /\ ~ (k < Direct) /\ k <= Indirect => k \in Direct .. Direct + Indirect - 1
    BY <2>1, Sizes
  <2> HIDE DEF k
  <2>3. CASE k <= Indirect
    <3>1. <<i, k>> \in Held(ins)
      BY <2>1, <2>3, Sizes DEF Held, Places
    <3>2. Num(ins, sl, <<i, k>>) \in Data
      BY <3>1 DEF Apart
    <3>3. b = Num(ins, sl, <<i, k>>)
      <4>1. CASE k < Direct
        BY <2>2, <4>1, Zenon DEF Bnum, Num
      <4>2. CASE ~ (k < Direct)
        BY <2>2, <2>3, <4>2, Zenon DEF Bnum, Num
      <4> QED BY <4>1, <4>2
    <3> QED BY <2>1, <2>3, <3>2, <3>3 DEF k
  <2>4. CASE ~ (k <= Indirect)
    <3>1. ~ (k < Direct)
      BY <2>1, <2>4, Sizes
    <3>2. b \in {0, Junk}
      <4>1. CASE k \in Direct .. Direct + Indirect - 1
        <5>1. k - Direct \in Slots /\ k - Direct > Indirect - Direct
          BY <2>1, <2>4, <4>1, Sizes DEF Slots
        <5>2. b = sl[ins[i].indirect][k - Direct]
          BY <3>1, <4>1, Zenon DEF Bnum
        <5> QED BY <1>0, <5>1, <5>2 DEF Clean
      <4>2. CASE k \notin Direct .. Direct + Indirect - 1
        BY <3>1, <4>2, Zenon DEF Bnum
      <4> QED BY <4>1, <4>2
    <3> HIDE DEF b
    <3>3. (IF b \in Data THEN tx[b] ELSE None) = None
      BY <3>2, JunkIsNoBlock DEF Clean
    <3> QED BY <2>1, <2>4, <3>3 DEF b, k
  <2> QED BY <2>3, <2>4
<1> QED BY <1>1, Zenon DEF Reading, View

\* The view of a file that keeps its size, its places and what they hold.
LEMMA SameView ==
  ASSUME NEW a, NEW sa, NEW ta, NEW b, NEW sb, NEW tb, NEW i \in Inodes,
         a[i].size \in Nat, b[i].size = a[i].size,
         \A p \in Held(a) : tb[Num(b, sb, p)] = ta[Num(a, sa, p)]
  PROVE  View(i, b, sb, tb) = View(i, a, sa, ta)
<1>1. ASSUME NEW c \in 1 .. Chunks(a[i].size), c <= Indirect + 1
      PROVE  tb[Num(b, sb, <<i, c - 1>>)] = ta[Num(a, sa, <<i, c - 1>>)]
  <2>1. Chunks(a[i].size) \in Nat
    BY ChunkCount
  <2>2. <<i, c - 1>> \in Held(a)
    BY <1>1, <2>1, Sizes DEF Held, Places
  <2> QED BY <2>2
<1> QED BY <1>1 DEF View

-----------------------------------------------------------------------------
\* What has been written.

WhileWriting == Writing \cup {"read"}

\* Of every disk, formatted or not.
Kept ==
  /\ pc \in WhileWriting \cup {"entry", "root", "take"} =>
       f_name \in Names /\ source \in Sources
  /\ pc \in Writing => block # 0
  /\ Clean(slot, text)

\* The file holds what has been read, and when all has been read its size is the source's.
Copied ==
  Formatted =>
    /\ pc \in WhileWriting =>
         /\ Found(f_name)
         /\ View(file, inodes, slot, text) = Store!Prefix(source, pos)
    /\ pc = "read" /\ AtEnd => inodes[file].size = source /\ Chunks(source) = pos
    /\ pc = "size" => text[block] = <<source, pos>>

LEMMA KeptStep == ASSUME TypeOK, PcInv, Kept, [Next]_vars PROVE Kept'
<1> USE DEF WhileWriting, Writing
<1>1. CASE Mkefs
  BY <1>1 DEF Kept, Mkefs, CreateSuperblock, EraseSuperblock, CreateInodeblocks,
     CreateRootdir, SetRootInode, LoseRootInode, MarkRoot, Exit, disk
<1>2. CASE NewFile
  BY <1>2 DEF Kept, NewFile, Truncate, Create, Start, AddEntry, GrowRoot, TakeInode, disk, call
<1>3. CASE Done \/ WriteFails \/ Stop
  BY <1>3 DEF Kept, Done, WriteFails, Stop, Exit, disk
<1>4. CASE MarkBlock \/ FallocFails \/ SetSize \/ PointDirect \/ MarkIndirect \/ NoIndirect
           \/ SetIndirect \/ PointDropped
  BY <1>4 DEF Kept, MarkBlock, FallocFails, SetSize, PointDirect, MarkIndirect, NoIndirect,
     NeedsIndirect, SetIndirect, PointDropped, disk, call, Junk
<1>5. CASE ZeroIndirect
  <2> DEFINE c == inodes[file].indirect
  <2>1. /\ slot' = [slot EXCEPT ![c] = [x \in Slots |-> 0]]
        /\ text' = [text EXCEPT ![c] = None]
    BY <1>5 DEF ZeroIndirect
  <2> HIDE DEF c
  <2>2. Clean(slot', text')
    BY <2>1, Zeroes DEF Kept, Clean, TypeOK
  <2> QED BY <1>5, <2>2 DEF Kept, ZeroIndirect, call
<1>6. CASE PointIndirect
  <2> DEFINE c == inodes[file].indirect
             x == next - Direct
  <2>1. /\ slot' = [slot EXCEPT ![c][x] = block]
        /\ text' = [text EXCEPT ![c] = None]
        /\ ~ (x > Indirect - Direct)
    <3>1. next \in Direct .. Indirect
      BY <1>6 DEF PointIndirect
    <3> QED BY <1>6, <3>1, Sizes DEF PointIndirect
  <2> HIDE DEF c, x
  <2>2. Clean(slot', text')
    <3>1. text'[0] = None
      BY <2>1, Zeroes DEF Kept, Clean, TypeOK
    <3>2. ASSUME NEW b \in Data, NEW y \in Slots, y > Indirect - Direct
          PROVE  slot'[b][y] = slot[b][y]
      <4>1. y # x
        BY <2>1, <3>2
      <4>2. slot[b] \in [Slots -> Data \cup {Junk}]
            /\ slot \in [Data -> [Slots -> Data \cup {Junk}]]
        BY DEF TypeOK
      <4> QED BY <2>1, <4>1, <4>2
    <3> QED BY <3>1, <3>2 DEF Kept, Clean
  <2> QED BY <1>6, <2>2 DEF Kept, PointIndirect, call
<1>7. CASE WriteData
  <2>1. block \in Data /\ block # 0
    BY <1>7 DEF WriteData, TypeOK, Kept
  <2>2. /\ slot' = [slot EXCEPT ![block] = [x \in Slots |-> Junk]]
        /\ text' = [text EXCEPT ![block] = <<source, pos>>]
    BY <1>7 DEF WriteData
  <2>3. Clean(slot', text')
    BY <2>1, <2>2, Zeroes DEF Kept, Clean, TypeOK
  <2> QED BY <1>7, <2>3 DEF Kept, WriteData, call
<1>8. CASE UNCHANGED vars
  BY <1>8 DEF Kept, vars, disk, call
<1> QED
  BY <1>1, <1>2, <1>3, <1>4, <1>5, <1>6, <1>7, <1>8 DEF Next, ReadWrite, AddBlockPointer

LEMMA PrefixIs ==
  \A s, k : Store!Prefix(s, k) =
              [c \in 1 .. k |-> IF c <= Indirect + 1 THEN <<s, c - 1>> ELSE None]
BY DEF Store!Prefix

\* No step writes what a file holds, except to its end.
TextStays ==
  \A p \in Held(inodes) : text'[Num(inodes, slot, p)] = text[Num(inodes, slot, p)]

LEMMA TextStep ==
  ASSUME TypeOK, PcInv, OnAnEfs, DirInv, BlockInv, Formatted, NewFile \/ ReadWrite
  PROVE  TextStays
<1>1. Apart(inodes, slot, used) /\ \A p \in Held(inodes) : Num(inodes, slot, p) \in Data
  BY DEF BlockInv, BlocksApart, Apart, TypeOK
<1>2. CASE ZeroIndirect \/ PointIndirect
  <2> DEFINE c == inodes[file].indirect
  <2>1. /\ text' = [text EXCEPT ![c] = None]
        /\ pc \in {"zero", "point"} /\ Found(f_name)
    BY <1>2 DEF ZeroIndirect, PointIndirect, PcInv
  <2>2. file \in Inodes /\ c # 0
    <3>1. file \in Inodes
      BY <2>1, TheFile DEF Writing
    <3>2. c # 0
      BY <1>2 DEF ZeroIndirect, PointIndirect, BlockInv, ReadWriteKnows
    <3> QED BY <3>1, <3>2
  <2>3. \A p \in Held(inodes) : Num(inodes, slot, p) # c
    BY <1>1, <2>2 DEF Apart
  <2> HIDE DEF c
  <2> QED BY <1>1, <2>1, <2>3 DEF TextStays, TypeOK
<1>3. CASE WriteData
  <2>1. Loose(block, inodes, slot, used)
    BY <1>3 DEF WriteData, BlockInv, ReadWriteKnows, Writing
  <2>2. text' = [text EXCEPT ![block] = <<source, pos>>]
    BY <1>3 DEF WriteData
  <2> QED BY <1>1, <2>1, <2>2 DEF TextStays, TypeOK, Loose
<1>4. CASE text' = text
  BY <1>4 DEF TextStays
<1> QED
  BY <1>2, <1>3, <1>4 DEF NewFile, Truncate, Create, AddEntry, GrowRoot, TakeInode,
     ReadWrite, Done, MarkBlock, FallocFails, AddBlockPointer, PointDirect, MarkIndirect,
     NoIndirect, SetIndirect, PointDropped, WriteFails, SetSize, disk

\* So every file whose size a step leaves alone stays as it is.
LEMMA FileStays ==
  ASSUME TypeOK, Stays, TextStays, NEW i \in Inodes, inodes'[i].size = inodes[i].size
  PROVE  View(i, inodes', slot', text') = View(i, inodes, slot, text)
<1>1. inodes[i].size \in Nat
  BY Numbers
<1>2. \A p \in Held(inodes) :
        text'[Num(inodes', slot', p)] = text[Num(inodes, slot, p)]
  BY DEF Stays, TextStays
<1> QED BY <1>1, <1>2, SameView

\* read_write reads a block and has written it, as a whole, once the size is set.
LEMMA SetSizeWrites ==
  ASSUME TypeOK, PcInv, DirInv, BlockInv, Formatted, Copied, SetSize
  PROVE  /\ file' = file /\ pos \in 0 .. Chunks(source) - 1
         /\ View(file, inodes', slot', text') = Store!Prefix(source, pos + 1)
         /\ AtEnd' => inodes'[file].size = source /\ Chunks(source) = pos + 1
         /\ \A i \in Inodes \ {file} : inodes'[i].size = inodes[i].size
<1> DEFINE len == Min({BlockSize, source - pos * BlockSize})
           f == file
<1>0. /\ pc = "size" /\ Found(f_name) /\ block \in Data /\ ~ AtEnd
      /\ UNCHANGED <<slot, text, dir, f_name, source>>
      /\ inodes' = [inodes EXCEPT ![f].size = @ + len] /\ pos' = pos + 1
  BY DEF SetSize, PcInv, Writing, call
<1>1. f \in Inodes \ {0}
  BY <1>0, TheFile DEF Writing
<1>2. inodes[f].size = pos * BlockSize /\ pos \in Nat
  BY <1>0, PlacesOfFile DEF Writing
<1>f. file' = f
  BY <1>0 DEF file, FindFile, Matches
<1>4. len \in 1 .. BlockSize
  BY <1>0, ReadLen
<1>5. /\ pos * BlockSize < source
      /\ source <= (pos + 1) * BlockSize => len = source - pos * BlockSize
  <2>1. BlockSize \in Nat /\ pos \in Nat /\ source \in Nat
    BY Sizes, Counters
  <2> DEFINE rest == source - pos * BlockSize
  <2>2. pos * BlockSize < source /\ rest \in Nat \ {0}
    BY <1>0, <2>1 DEF AtEnd
  <2>3. source <= (pos + 1) * BlockSize => rest <= BlockSize
    BY <2>1
  <2> HIDE DEF rest
  <2>4. {BlockSize, rest} \subseteq Nat /\ {BlockSize, rest} # {}
    BY <2>1, <2>2
  <2>5. /\ Min({BlockSize, rest}) \in {BlockSize, rest}
        /\ \A y \in {BlockSize, rest} : Min({BlockSize, rest}) <= y
    BY <2>4, Smallest
  <2>6. rest <= BlockSize => Min({BlockSize, rest}) = rest
    BY <2>1, <2>2, <2>5
  <2> QED BY <2>2, <2>3, <2>6 DEF rest
<1> HIDE DEF len, f
<1>6. /\ inodes'[f].size = pos * BlockSize + len
      /\ \A i \in Inodes \ {f} : inodes'[i] = inodes[i]
  <2>1. inodes[f].size + len = pos * BlockSize + len
    BY <1>2
  <2> QED BY <1>0, <1>1, <2>1 DEF TypeOK, InodeType
<1>7. Chunks(inodes[f].size) = pos /\ Chunks(inodes'[f].size) = pos + 1
  BY <1>2, <1>4, <1>6, ChunksOf
<1>8. AtEnd' => inodes'[f].size = source
  <2> SUFFICES ASSUME AtEnd' PROVE inodes'[f].size = source
    OBVIOUS
  <2>1. source <= (pos + 1) * BlockSize
    <3>1. (pos + 1) * BlockSize >= source
      BY <1>0 DEF AtEnd
    <3> QED BY <1>2, <3>1, Sizes, Counters
  <2> QED BY <1>2, <1>5, <1>6, <2>1, Sizes, Counters
<1>9. pos + 1 <= Chunks(source)
  <2>1. source \in Nat /\ Chunks(source) \in Nat
    BY Counters, ChunkCount
  <2>2. source - pos * BlockSize \in Nat \ {0}
    BY <1>2, <1>5, <2>1, Sizes
  <2> DEFINE d == Chunks(source)
  <2>3. d * BlockSize >= source
    <3>1. d = (source + BlockSize - 1) \div BlockSize
      BY DEF Chunks
    <3> HIDE DEF d
    <3> QED BY <2>1, <3>1, Sizes
  <2> HIDE DEF d
  <2>4. ~ (d <= pos)
    <3> SUFFICES ASSUME d <= pos PROVE FALSE
      OBVIOUS
    <3>1. d * BlockSize <= pos * BlockSize
      <4>1. pos - d \in Nat /\ BlockSize \in Nat /\ d \in Nat
        BY <1>2, <2>1, Sizes DEF d
      <4>2. (pos - d) * BlockSize >= 0
        BY <4>1
      <4>3. (pos - d) * BlockSize = pos * BlockSize - d * BlockSize
        BY <1>2, <4>1
      <4> QED BY <1>2, <4>1, <4>2, <4>3
    <3>2. d * BlockSize \in Nat /\ pos * BlockSize \in Nat
      BY <1>2, <2>1, Sizes DEF d
    <3> QED BY <1>5, <2>1, <2>3, <3>1, <3>2
  <2> QED BY <1>2, <2>1, <2>4 DEF d
<1>10. View(f, inodes', slot', text') = Store!Prefix(source, pos + 1)
  <2>1. View(f, inodes, slot, text) = Store!Prefix(source, pos)
    BY <1>0 DEF Copied, WhileWriting, Writing, f
  <2>2. ASSUME NEW c \in 1 .. pos + 1
        PROVE  (IF c <= Indirect + 1 THEN text'[Num(inodes', slot', <<f, c - 1>>)] ELSE None)
                 = IF c <= Indirect + 1 THEN <<source, c - 1>> ELSE None
    <3> SUFFICES ASSUME c <= Indirect + 1
                 PROVE  text'[Num(inodes', slot', <<f, c - 1>>)] = <<source, c - 1>>
      OBVIOUS
    <3>1. Num(inodes', slot', <<f, c - 1>>) = Num(inodes, slot, <<f, c - 1>>)
      <4>1. inodes'[f].data = inodes[f].data /\ inodes'[f].indirect = inodes[f].indirect
        BY <1>0, <1>1 DEF TypeOK, InodeType
      <4> QED BY <1>0, <4>1 DEF Num
    <3>2. CASE c \in 1 .. pos
      <4>1. View(f, inodes, slot, text)[c] = Store!Prefix(source, pos)[c]
        BY <2>1
      <4>2. View(f, inodes, slot, text)[c] = text[Num(inodes, slot, <<f, c - 1>>)]
        BY <1>7, <3>2 DEF View
      <4>3. Store!Prefix(source, pos)[c] = <<source, c - 1>>
        BY <3>2, PrefixIs
      <4> QED BY <1>0, <3>1, <4>1, <4>2, <4>3
    <3>3. CASE c = pos + 1
      <4>1. c - 1 = pos /\ pos <= Indirect
        BY <1>2, <3>3, Sizes
      <4>2. Num(inodes, slot, <<f, pos>>) = block
        BY <1>0, <4>1, JunkIsNoBlock DEF BlockInv, ReadWriteKnows, f
      <4>3. text[block] = <<source, pos>>
        BY <1>0 DEF Copied
      <4> QED BY <1>0, <3>1, <4>1, <4>2, <4>3
    <3> QED BY <1>2, <3>2, <3>3
  <2>3. View(f, inodes', slot', text') =
          [c \in 1 .. pos + 1 |-> IF c <= Indirect + 1
                                  THEN text'[Num(inodes', slot', <<f, c - 1>>)] ELSE None]
    BY <1>7 DEF View
  <2> QED BY <2>2, <2>3, PrefixIs, Zenon
<1>11. AtEnd' => Chunks(source) = pos + 1
  BY <1>7, <1>8
<1>12. pos \in 0 .. Chunks(source) - 1
  <2>1. Chunks(source) \in Nat
    BY Counters, ChunkCount
  <2> QED BY <1>2, <1>9, <2>1
<1> QED BY <1>6, <1>8, <1>10, <1>11, <1>12, <1>f DEF f

\* new_file leaves a file of no size, which is what has been read of the source so far.
LEMMA EmptyView ==
  ASSUME NEW i, NEW ins, NEW sl, NEW tx, NEW s, ins[i].size = 0
  PROVE  View(i, ins, sl, tx) = Store!Prefix(s, 0) /\ View(i, ins, sl, tx) = << >>
<1>1. 1 .. Chunks(ins[i].size) = {} /\ 1 .. 0 = {}
  BY OneChunk
<1>2. View(i, ins, sl, tx) = Store!Prefix(s, 0)
  BY <1>1, PrefixIs DEF View
<1>3. View(i, ins, sl, tx) = << >>
  BY <1>1 DEF View
<1> QED BY <1>2, <1>3

LEMMA SizesKept ==
  ASSUME TypeOK, PcInv, ReadWrite, ~ SetSize
  PROVE  \A i \in Inodes : inodes'[i].size = inodes[i].size
<1>1. CASE inodes' = inodes
  BY <1>1
<1>2. CASE PointDirect \/ SetIndirect
  <2> DEFINE f == file
  <2>1. \/ inodes' = [inodes EXCEPT ![f].data[next] = block]
        \/ inodes' = [inodes EXCEPT ![f].indirect = new.num]
    BY <1>2 DEF PointDirect, SetIndirect
  <2>2. f \in Inodes /\ inodes \in [Inodes -> InodeType]
    <3>1. Found(f_name)
      BY <1>2 DEF PointDirect, SetIndirect, PcInv
    <3> QED BY <3>1, FileIs DEF TypeOK
  <2> HIDE DEF f
  <2>3. inodes'[f].size = inodes[f].size /\ \A i \in Inodes \ {f} : inodes'[i] = inodes[i]
    BY <2>1, <2>2 DEF InodeType
  <2> QED BY <2>3
<1> QED
  BY <1>1, <1>2 DEF ReadWrite, Done, MarkBlock, FallocFails, AddBlockPointer, MarkIndirect,
     NoIndirect, ZeroIndirect, PointIndirect, PointDropped, WriteData, WriteFails, disk

LEMMA CopiedByReadWrite ==
  ASSUME TypeOK, PcInv, OnAnEfs, DirInv, BlockInv, Copied, ReadWrite, Formatted,
         Stays, TextStays
  PROVE  Copied'
<1> USE DEF WhileWriting, Writing
<1>1. CASE SetSize
  <2>1. pc = "size" /\ pc' = "read" /\ UNCHANGED <<dir, f_name, source>> /\ pos' = pos + 1
        /\ Found(f_name)
    BY <1>1 DEF SetSize, call, PcInv
  <2>2. Found(f_name)'
    BY <2>1 DEF Found, Matches
  <2> QED BY <1>1, <2>1, <2>2, SetSizeWrites DEF Copied
<1>2. CASE ~ SetSize
  <2>1. /\ pc \in Writing \cup {"read"}
        /\ pc' \in Writing => UNCHANGED <<dir, f_name, source, pos>>
        /\ pc' # "read"
        /\ pc' = "size" => text'[block'] = <<source', pos'>>
    <3>1. CASE WriteData
      <4>1. block \in Data
        BY <3>1 DEF WriteData, TypeOK
      <4> QED BY <3>1, <4>1 DEF WriteData, call, TypeOK
    <3>2. CASE ~ WriteData
      BY <1>2, <3>2 DEF ReadWrite, Done, MarkBlock, FallocFails, AddBlockPointer, PointDirect,
         MarkIndirect, NeedsIndirect, NoIndirect, SetIndirect, ZeroIndirect, PointIndirect,
         PointDropped, WriteFails, Exit, disk, call
    <3> QED BY <3>1, <3>2
  <2> SUFFICES ASSUME pc' \in Writing
               PROVE  Found(f_name)' /\ View(file, inodes, slot, text)' = Store!Prefix(source, pos)'
    BY <2>1 DEF Copied
  <2>2. Found(f_name) /\ View(file, inodes, slot, text) = Store!Prefix(source, pos)
    BY <2>1 DEF Copied
  <2>f. file' = file /\ Found(f_name)'
    BY <2>1, <2>2 DEF file, FindFile, Matches, Found
  <2>3. file \in Inodes
    BY <2>2, FileIs
  <2>4. inodes'[file].size = inodes[file].size
    BY <1>2, <2>3, SizesKept
  <2>5. View(file, inodes', slot', text') = View(file, inodes, slot, text)
    BY <2>3, <2>4, FileStays
  <2>6. Store!Prefix(source, pos)' = Store!Prefix(source, pos)
    BY <2>1, PrefixIs
  <2> QED BY <2>2, <2>f, <2>5, <2>6
<1> QED BY <1>1, <1>2

LEMMA CopiedByNewFile ==
  ASSUME TypeOK, TypeOK', DirInv, BlockInv, Copied, NewFile, Formatted
  PROVE  Copied'
<1> USE DEF WhileWriting, Writing
<1>1. CASE pc' # "read"
  BY <1>1 DEF NewFile, Truncate, Create, AddEntry, GrowRoot, TakeInode, Copied
<1>2. ASSUME pc' = "read", pos' = 0, Found(f_name)', inodes'[file'].size = 0
      PROVE  Copied'
  <2>1. View(file, inodes, slot, text)' = Store!Prefix(source, pos)'
    <3>1. View(file', inodes', slot', text') = Store!Prefix(source', 0)
      BY <1>2, EmptyView
    <3>2. Store!Prefix(source, pos)' = Store!Prefix(source', 0)
      BY <1>2, PrefixIs
    <3> QED BY <3>1, <3>2
  <2>2. AtEnd' => source' = 0 /\ Chunks(source') = 0
    <3>1. source' \in Nat
      <4>1. source' \in Sources \cup {0} /\ Sources \subseteq Nat
        BY EfsAssumption DEF TypeOK
      <4> QED BY <4>1
    <3>2. AtEnd' => 0 >= source'
      BY <1>2, Sizes DEF AtEnd
    <3> QED BY <3>1, <3>2, OneChunk
  <2> QED BY <1>2, <2>1, <2>2 DEF Copied
<1>3. ASSUME NEW n \in Names, NEW s \in Sources, Truncate(n, s) PROVE Copied'
  <2> DEFINE f == FindFile(n)
  <2>1. /\ pc' = "read" /\ pos' = 0 /\ f_name' = n /\ dir' = dir /\ Found(n)
        /\ inodes' = [inodes EXCEPT ![f].size = 0]
    BY <1>3 DEF Truncate, Start
  <2>2. f \in Inodes /\ file' = f /\ Found(f_name)'
    BY <2>1, FileFound DEF file, FindFile, Matches, Found
  <2> HIDE DEF f
  <2>3. inodes'[f].size = 0
    BY <2>1, <2>2 DEF TypeOK, InodeType
  <2> QED BY <1>2, <2>1, <2>2, <2>3
<1>4. CASE TakeInode
  <2> DEFINE i == new.num
             z == new.copy
  <2>1. /\ pc = "take" /\ pc' = "read" /\ f_name' = f_name /\ dir' = dir /\ pos' = pos
        /\ inodes' = [inodes EXCEPT ![i] = z]
    BY <1>4 DEF TakeInode, call
  <2>2. /\ pos = 0 /\ Found(f_name) /\ FindFile(f_name) = i
        /\ z = [ZeroInode EXCEPT !.refs = 1]
    BY <2>1 DEF BlockInv, NewFileKnows
  <2>3. file' = i /\ Found(f_name)'
    BY <2>1, <2>2 DEF file, FindFile, Matches, Found
  <2>4. i \in Inodes /\ z.size = 0
    BY <2>2, FileFound DEF ZeroInode
  <2> HIDE DEF i, z
  <2>5. inodes'[i].size = 0
    BY <2>1, <2>4 DEF TypeOK
  <2> QED BY <1>2, <2>1, <2>2, <2>3, <2>5
<1>5. CASE pc' = "read"
  BY <1>3, <1>4, <1>5 DEF NewFile, Create, AddEntry, GrowRoot
<1> QED BY <1>1, <1>5

LEMMA CopiedStep ==
  ASSUME TypeOK, TypeOK', PcInv, OnAnEfs, DirInv, BlockInv, Copied, [Next]_vars
  PROVE  Copied'
<1>1. CASE Mkefs
  BY <1>1 DEF Copied, WhileWriting, Writing, Mkefs, CreateSuperblock, EraseSuperblock,
     CreateInodeblocks, CreateRootdir, SetRootInode, LoseRootInode, MarkRoot, Exit
<1>2. CASE NewFile
  <2>1. Formatted' = Formatted
    BY <1>2 DEF NewFile, Truncate, Create, AddEntry, GrowRoot, TakeInode, disk, Formatted
  <2> QED BY <1>2, <2>1, CopiedByNewFile DEF Copied
<1>3. CASE ReadWrite
  <2> SUFFICES ASSUME Formatted' PROVE Copied'
    BY DEF Copied
  <2>1. Formatted
    BY <1>3, WritesOnFormatted
  <2>2. Stays /\ TextStays
    BY <1>3, <2>1, ReadWriteBlocks, TextStep
  <2> QED BY <1>3, <2>1, <2>2, CopiedByReadWrite
<1>4. CASE Stop
  BY <1>4 DEF Stop, Exit, Copied, WhileWriting, Writing
<1>5. CASE UNCHANGED vars
  <2>1. UNCHANGED <<superblock, used, inodes, dir, slot, text, pc, f_name, source, pos, block>>
    BY <1>5 DEF vars, disk, call
  <2>2. /\ file' = file /\ AtEnd' = AtEnd /\ Found(f_name)' = Found(f_name)
        /\ (Formatted' <=> Formatted)
        /\ Store!Prefix(source, pos)' = Store!Prefix(source, pos)
    BY <2>1, PrefixIs DEF file, FindFile, Matches, AtEnd, Found, Formatted
  <2> QED BY <2>1, <2>2 DEF Copied
<1> QED BY <1>1, <1>2, <1>3, <1>4, <1>5 DEF Next

-----------------------------------------------------------------------------
\* The steps of FileStore.tla.

Files  == [n \in Names |-> IF Formatted /\ Found(n) THEN Content(n) ELSE Absent]
Writer == IF Formatted /\ pc \notin {"idle", "entry"} THEN <<f_name, source>> ELSE Nobody

LEMMA StoreInit == ASSUME Files = [n \in Names |-> Absent], Writer = Nobody PROVE Store!Init
BY DEF Store!Init, Store!NoFiles, Files, Writer

LEMMA StoreErase ==
  ASSUME Files' = [n \in Names |-> Absent], Writer' = Nobody
  PROVE  Store!Next
<1>1. Store!Erase
  BY DEF Store!Erase, Store!NoFiles, Files, Writer
<1> QED BY <1>1 DEF Store!Next

LEMMA StoreEnd == ASSUME Files' = Files, Writer' = Nobody PROVE Store!Next
<1>1. Store!End
  BY DEF Store!End, Files, Writer
<1> QED BY <1>1 DEF Store!Next

LEMMA StoreBegin ==
  ASSUME NEW n \in Names, NEW s \in Sources, Writer = Nobody, Writer' = <<n, s>>,
         Files' = [Files EXCEPT ![n] = << >>]
  PROVE  Store!Next
<1>1. Store!Begin(n, s)
  BY DEF Store!Begin, Files, Writer
<1> QED BY <1>1 DEF Store!Next

LEMMA StoreExtend ==
  ASSUME NEW n \in Names, NEW s \in Sources, Writer = <<n, s>>, Writer' = Writer,
         NEW k \in 0 .. Chunks(s) - 1, Files[n] = Store!Prefix(s, k),
         Files' = [Files EXCEPT ![n] = Store!Prefix(s, k + 1)]
  PROVE  Store!Next
<1>1. Store!Chunks(s) = Chunks(s)
  BY DEF Store!Chunks, Chunks
<1>2. Store!Extend(n, s)
  BY <1>1 DEF Store!Extend, Files, Writer
<1> QED BY <1>2 DEF Store!Next

LEMMA StoreStutter ==
  ASSUME Files' = Files, Writer' = Writer
  PROVE  UNCHANGED Store!vars
BY DEF Store!vars, Files, Writer

-----------------------------------------------------------------------------
\* What a step makes of the files.

LEMMA FileView ==
  ASSUME TypeOK, BlocksApart, Kept, NEW n, Found(n)
  PROVE  Content(n) = View(FindFile(n), inodes, slot, text)
<1>1. FindFile(n) \in Inodes
  BY FileFound
<1>2. Reading(inodes[FindFile(n)], slot, text) = View(FindFile(n), inodes, slot, text)
  <2>1. /\ inodes \in [Inodes -> InodeType] /\ slot \in [Data -> [Slots -> Data \cup {Junk}]]
        /\ used \subseteq Data /\ Apart(inodes, slot, used) /\ Clean(slot, text)
    BY DEF TypeOK, BlocksApart, Kept
  <2> QED BY <1>1, <2>1, ReadingIsView
<1> QED BY <1>2, ContentReads

LEMMA NextFileView ==
  ASSUME TypeOK', BlocksApart', Kept', NEW n, FindFile(n)' \in Inodes
  PROVE  Content(n)' = View(FindFile(n)', inodes', slot', text')
<1>1. Reading(inodes'[FindFile(n)'], slot', text') = View(FindFile(n)', inodes', slot', text')
  <2>1. /\ inodes' \in [Inodes -> InodeType] /\ slot' \in [Data -> [Slots -> Data \cup {Junk}]]
        /\ used' \subseteq Data /\ Apart(inodes', slot', used') /\ Clean(slot', text')
    BY DEF TypeOK, BlocksApart, Kept
  <2> QED BY <2>1, ReadingIsView
<1> QED BY <1>1, ContentReads

LEMMA KeepsFile ==
  ASSUME TypeOK, TypeOK', BlocksApart, BlocksApart', Kept, Kept', Stays, TextStays,
         NEW n, Found(n), FindFile(n)' = FindFile(n),
         inodes'[FindFile(n)].size = inodes[FindFile(n)].size
  PROVE  Content(n)' = Content(n)
<1>1. FindFile(n) \in Inodes
  BY FileFound
<1>2. Content(n) = View(FindFile(n), inodes, slot, text)
  BY FileView
<1>3. Content(n)' = View(FindFile(n), inodes', slot', text')
  BY <1>1, NextFileView
<1> QED BY <1>1, <1>2, <1>3, FileStays

LEMMA SameDir ==
  ASSUME dir' = dir
  PROVE  \A n : Found(n)' = Found(n) /\ FindFile(n)' = FindFile(n)
BY DEF Found, FindFile, Matches

\* A step that only changes the size of one file, or of the root directory.
LEMMA OthersKept ==
  ASSUME TypeOK, TypeOK', BlocksApart, BlocksApart', Kept, Kept', Formatted, Formatted',
         Stays, TextStays, dir' = dir, NEW i,
         \A j \in Inodes \ {i} : inodes'[j].size = inodes[j].size
  PROVE  \A n \in Names : (Found(n) /\ FindFile(n) # i) \/ ~ Found(n) => Files'[n] = Files[n]
<1> SUFFICES ASSUME NEW n \in Names, (Found(n) /\ FindFile(n) # i) \/ ~ Found(n)
             PROVE  Files'[n] = Files[n]
  OBVIOUS
<1>1. Found(n)' = Found(n) /\ FindFile(n)' = FindFile(n)
  BY SameDir
<1>2. CASE ~ Found(n)
  BY <1>1, <1>2 DEF Files
<1>3. CASE Found(n)
  <2>1. FindFile(n) \in Inodes \ {i}
    BY <1>3, FileFound
  <2>2. Content(n)' = Content(n)
    BY <1>1, <1>3, <2>1, KeepsFile
  <2> QED BY <1>1, <1>3, <2>2 DEF Files
<1> QED BY <1>2, <1>3

LEMMA FilesSame ==
  ASSUME \A n \in Names : Files'[n] = Files[n]
  PROVE  Files' = Files
BY DEF Files

LEMMA OneFile ==
  ASSUME NEW n \in Names, NEW v, Files'[n] = v,
         \A m \in Names \ {n} : Files'[m] = Files[m]
  PROVE  Files' = [Files EXCEPT ![n] = v]
BY DEF Files

LEMMA AllKept ==
  ASSUME TypeOK, TypeOK', BlocksApart, BlocksApart', Kept, Kept', Formatted, Formatted',
         Stays, TextStays, dir' = dir, \A j \in Inodes : inodes'[j].size = inodes[j].size
  PROVE  Files' = Files
<1>1. \A n \in Names : Found(n) => FindFile(n) # Junk
  BY FileFound, Numbers DEF Junk
<1>2. \A n \in Names : (Found(n) /\ FindFile(n) # Junk) \/ ~ Found(n) => Files'[n] = Files[n]
  BY OthersKept
<1> QED BY <1>1, <1>2, FilesSame

LEMMA DistinctFiles ==
  ASSUME TypeOK, NEW m, NEW t, Intact(dir, m, t), NEW n \in Names, NEW o \in Names,
         Found(n), Found(o), FindFile(n) = FindFile(o)
  PROVE  n = o
<1> DEFINE j == Min(Matches(n))
           l == Min(Matches(o))
<1>1. /\ j \in Dir /\ dir[j].name = n /\ FindFile(n) = dir[j].inode
      /\ l \in Dir /\ dir[l].name = o /\ FindFile(o) = dir[l].inode
  BY FileFound
<1>2. n # "" /\ o # ""
  BY EfsAssumption
<1> HIDE DEF j, l
<1>3. j < m /\ l < m
  BY <1>1, <1>2 DEF Intact
<1>4. j \in 0 .. m - 1 /\ l \in 0 .. m - 1
  BY <1>1, <1>3, IntactFacts
<1>5. j = l
  BY <1>1, <1>4 DEF Intact
<1> QED BY <1>1, <1>5

LEMMA TruncateBegins ==
  ASSUME TypeOK, TypeOK', DirInv, BlocksApart, BlocksApart', Kept, Kept', Formatted,
         Formatted', Stays, TextStays, NEW n \in Names, NEW s \in Sources, Truncate(n, s)
  PROVE  Store!Next
<1> DEFINE f == FindFile(n)
<1>0. /\ pc = "idle" /\ pc' = "read" /\ Found(n) /\ f_name' = n /\ source' = s
      /\ dir' = dir /\ inodes' = [inodes EXCEPT ![f].size = 0]
  BY DEF Truncate, Start
<1>1. Intact(dir, inodes[0].size, Taken)
  BY <1>0 DEF DirInv, EntryInv
<1>2. f \in Inodes /\ f = FindFile(n)' /\ Found(n)'
  BY <1>0, FileFound, SameDir
<1>3. \A m \in Names \ {n} : Found(m) => FindFile(m) # f
  BY <1>0, <1>1, DistinctFiles
<1> HIDE DEF f
<1>4. inodes'[f].size = 0 /\ \A i \in Inodes \ {f} : inodes'[i].size = inodes[i].size
  BY <1>0, <1>2 DEF TypeOK, InodeType
<1>5. \A m \in Names \ {n} : Files'[m] = Files[m]
  <2>1. \A m \in Names : (Found(m) /\ FindFile(m) # f) \/ ~ Found(m) => Files'[m] = Files[m]
    BY <1>0, <1>4, OthersKept
  <2> QED BY <1>3, <2>1
<1>6. Files'[n] = << >>
  <2>1. Content(n)' = View(f, inodes', slot', text')
    BY <1>2, NextFileView
  <2>2. View(f, inodes', slot', text') = << >>
    BY <1>4, EmptyView
  <2> QED BY <1>2, <2>1, <2>2 DEF Files
<1>7. Files' = [Files EXCEPT ![n] = << >>]
  BY <1>5, <1>6, OneFile
<1>8. Writer = Nobody /\ Writer' = <<n, s>>
  BY <1>0 DEF Writer
<1> QED BY <1>7, <1>8, StoreBegin

\* A new name gets an empty file, and the other names keep theirs.
LEMMA AddEntryAdds ==
  ASSUME TypeOK, DirInv, BlocksApart, NewFileKnows', Kept, Formatted, AddEntry
  PROVE  /\ new.num \in Inodes /\ inodes[new.num].size = 0
         /\ f_name \in Names /\ Found(f_name)' /\ FindFile(f_name)' = new.num
         /\ \A o \in Names \ {f_name} :
              Found(o)' = Found(o) /\ (Found(o) => FindFile(o)' = FindFile(o))
<1> DEFINE m == inodes[0].size % BlockSize
           n == f_name
<1>0. /\ pc = "entry" /\ pc' = "root" /\ f_name' = f_name /\ new' = new
      /\ dir' = [dir EXCEPT ![m] = EntryOf(n, new.num)]
  BY DEF AddEntry, call
<1>1. /\ Intact(dir, inodes[0].size, Taken) /\ new.num \in Inodes \ Taken
      /\ n \in Names /\ ~ Found(n)
  BY <1>0 DEF DirInv, EntryInv, Kept
<1>2. m \in Dir /\ dir[m].name = ""
  <2> DEFINE z == inodes[0].size
  <2>1. Intact(dir, z, Taken)
    BY <1>1
  <2> HIDE DEF z
  <2>2. z \in Nat /\ z + 1 <= BlockSize
    BY <1>1, <2>1, IntactFacts, RoomForOne
  <2>3. z % BlockSize = z /\ z \in Dir /\ ~ (z < z)
    BY <2>2, Sizes DEF Dir
  <2>4. dir[z].name = ""
    BY <2>1, <2>3 DEF Intact
  <2> QED BY <2>3, <2>4 DEF z
<1>3. Found(n)' /\ FindFile(n)' = new.num
  BY <1>0 DEF NewFileKnows
<1>4. inodes[new.num].size = 0
  <2>1. inodes[new.num].refs = 0
    BY <1>1 DEF Taken, TypeOK, InodeType
  <2> QED BY <1>1, <2>1 DEF BlocksApart, ZeroInode
<1> HIDE DEF m, n
<1>5. ASSUME NEW o \in Names \ {n}
      PROVE  Found(o)' = Found(o) /\ (Found(o) => FindFile(o)' = FindFile(o))
  <2>1. o # "" /\ o # n
    BY EfsAssumption
  <2>2. \A j \in Dir : dir'[j].name = o <=> dir[j].name = o
    BY <1>0, <1>2, <2>1 DEF TypeOK, EntryOf
  <2>3. Matches(o)' = Matches(o)
    BY <2>2 DEF Matches
  <2>4. Found(o)' = Found(o)
    BY <2>3 DEF Found
  <2>5. ASSUME Found(o) PROVE FindFile(o)' = FindFile(o)
    <3>1. Min(Matches(o)) \in Dir /\ dir[Min(Matches(o))].name = o
      BY <2>5, FileFound
    <3>2. dir'[Min(Matches(o))] = dir[Min(Matches(o))]
      BY <1>0, <1>2, <2>1, <3>1 DEF TypeOK
    <3> QED BY <2>3, <3>2 DEF FindFile
  <2> QED BY <2>4, <2>5
<1> QED BY <1>1, <1>3, <1>4, <1>5 DEF n

LEMMA AddEntryBegins ==
  ASSUME TypeOK, TypeOK', DirInv, BlocksApart, BlocksApart', NewFileKnows', Kept, Kept',
         Formatted, Formatted', AddEntry
  PROVE  Store!Next
<1> DEFINE n == f_name
<1>0. /\ pc = "entry" /\ pc' = "root" /\ f_name' = f_name /\ source' = source
      /\ inodes' = inodes /\ slot' = slot /\ text' = text
  BY DEF AddEntry, call
<1>1. source \in Sources
  BY <1>0 DEF Kept
<1>2. /\ new.num \in Inodes /\ inodes[new.num].size = 0
      /\ n \in Names /\ Found(n)' /\ FindFile(n)' = new.num
      /\ \A o \in Names \ {n} :
           Found(o)' = Found(o) /\ (Found(o) => FindFile(o)' = FindFile(o))
  BY AddEntryAdds
<1>3. Files'[n] = << >>
  <2>1. Content(n)' = View(new.num, inodes', slot', text')
    BY <1>2, NextFileView
  <2>2. View(new.num, inodes', slot', text') = << >>
    BY <1>0, <1>2, EmptyView
  <2> QED BY <1>0, <1>2, <2>1, <2>2 DEF Files
<1> HIDE DEF n
<1>4. ASSUME NEW o \in Names \ {n} PROVE Files'[o] = Files[o]
  <2>1. Found(o) => Content(o)' = Content(o)
    BY <1>0, <1>2, ContentReads
  <2> QED BY <1>2, <2>1 DEF Files
<1>5. Files' = [Files EXCEPT ![n] = << >>]
  BY <1>2, <1>3, <1>4, OneFile
<1>6. Writer = Nobody /\ Writer' = <<n, source>>
  BY <1>0 DEF Writer, n
<1> QED BY <1>1, <1>2, <1>5, <1>6, StoreBegin

LEMMA NewFileStore ==
  ASSUME TypeOK, TypeOK', DirInv, BlockInv, BlockInv', Kept, Kept', Formatted, Formatted',
         NewFile, Stays, TextStays
  PROVE  Store!Next \/ UNCHANGED Store!vars
<1>1. BlocksApart /\ BlocksApart' /\ NewFileKnows'
  BY DEF BlockInv
<1>2. ASSUME NEW n \in Names, NEW s \in Sources, Truncate(n, s) PROVE Store!Next
  BY <1>1, <1>2, TruncateBegins
<1>3. ASSUME NEW n \in Names, NEW s \in Sources, Create(n, s) PROVE UNCHANGED Store!vars
  <2>1. pc = "idle" /\ pc' = "entry" /\ dir' = dir /\ inodes' = inodes
    BY <1>3 DEF Create, Start, disk
  <2>2. Files' = Files
    BY <1>1, <2>1, AllKept
  <2>3. Writer' = Writer
    BY <2>1 DEF Writer
  <2> QED BY <2>2, <2>3, StoreStutter
<1>4. CASE AddEntry
  BY <1>1, <1>4, AddEntryBegins
<1>5. CASE GrowRoot
  <2>1. /\ pc = "root" /\ pc' = "take" /\ UNCHANGED <<dir, f_name, source>>
        /\ inodes' = [inodes EXCEPT ![0].size = @ + 1]
    BY <1>5 DEF GrowRoot, call
  <2>2. \A j \in Inodes \ {0} : inodes'[j].size = inodes[j].size
    BY <2>1 DEF TypeOK
  <2>3. \A n \in Names : Found(n) => FindFile(n) # 0
    <3>1. Intact(dir, inodes[0].size + 1, Taken \cup {new.num})
      BY <2>1 DEF DirInv, EntryInv
    <3> QED BY <3>1, NotTheRoot
  <2>4. \A n \in Names : (Found(n) /\ FindFile(n) # 0) \/ ~ Found(n) => Files'[n] = Files[n]
    BY <1>1, <2>1, <2>2, OthersKept
  <2>5. Files' = Files
    BY <2>3, <2>4, FilesSame
  <2>6. Writer' = Writer
    BY <2>1 DEF Writer
  <2> QED BY <2>5, <2>6, StoreStutter
<1>6. CASE TakeInode
  <2> DEFINE i == new.num
             z == new.copy
  <2>1. /\ pc = "take" /\ pc' = "read" /\ UNCHANGED <<dir, f_name, source>>
        /\ inodes' = [inodes EXCEPT ![i] = z]
    BY <1>6 DEF TakeInode, call
  <2>2. i \in Inodes \ Taken /\ z = [ZeroInode EXCEPT !.refs = 1]
    BY <2>1 DEF DirInv, EntryInv, BlockInv, NewFileKnows
  <2>3. inodes[i].size = 0 /\ z.size = 0
    <3>1. inodes[i].refs = 0
      BY <2>2 DEF Taken, TypeOK, InodeType
    <3> QED BY <1>1, <2>2, <3>1 DEF BlocksApart, ZeroInode
  <2> HIDE DEF i, z
  <2>4. \A j \in Inodes : inodes'[j].size = inodes[j].size
    BY <2>1, <2>2, <2>3 DEF TypeOK
  <2>5. Files' = Files
    BY <1>1, <2>1, <2>4, AllKept
  <2>6. Writer' = Writer
    BY <2>1 DEF Writer
  <2> QED BY <2>5, <2>6, StoreStutter
<1> QED BY <1>2, <1>3, <1>4, <1>5, <1>6 DEF NewFile

LEMMA ReadWriteStore ==
  ASSUME TypeOK, TypeOK', PcInv, DirInv, BlockInv, BlockInv', Kept, Kept', Copied, Copied',
         Formatted, Formatted', ReadWrite, Stays, TextStays
  PROVE  Store!Next \/ UNCHANGED Store!vars
<1> USE DEF WhileWriting, Writing
<1>1. BlocksApart /\ BlocksApart'
  BY DEF BlockInv
<1>2. /\ pc \in WhileWriting /\ dir' = dir
      /\ pc' = "idle" \/ (pc' \in WhileWriting /\ UNCHANGED <<f_name, source>>)
  BY DEF ReadWrite, Done, MarkBlock, FallocFails, AddBlockPointer, PointDirect, MarkIndirect,
     NeedsIndirect, NoIndirect, SetIndirect, ZeroIndirect, PointIndirect, PointDropped,
     WriteData, WriteFails, SetSize, Exit, disk, call
<1>3. CASE SetSize
  <2>0. pc = "size" /\ pc' = "read" /\ f_name \in Names /\ source \in Sources
    BY <1>3 DEF SetSize, Kept
  <2>1. /\ file' = file /\ pos \in 0 .. Chunks(source) - 1
        /\ View(file, inodes', slot', text') = Store!Prefix(source, pos + 1)
        /\ \A i \in Inodes \ {file} : inodes'[i].size = inodes[i].size
    BY <1>3, SetSizeWrites
  <2>2. /\ Found(f_name) /\ View(file, inodes, slot, text) = Store!Prefix(source, pos)
    BY <2>0 DEF Copied
  <2>n. PICK n \in Names : n = f_name
    BY <2>0
  <2>3. /\ Found(n) /\ FindFile(n) = file /\ file \in Inodes
        /\ Found(n)' /\ FindFile(n)' = file
    <3>1. Found(n) /\ FindFile(n) = file /\ file \in Inodes
      BY <2>2, <2>n, FileIs DEF file
    <3> QED BY <1>2, <3>1, SameDir
  <2>4. Files[n] = Store!Prefix(source, pos)
    <3>1. Content(n) = View(file, inodes, slot, text)
      BY <1>1, <2>3, FileView
    <3> QED BY <2>2, <2>3, <3>1 DEF Files
  <2>5. Files'[n] = Store!Prefix(source, pos + 1)
    <3>1. Content(n)' = View(file, inodes', slot', text')
      BY <1>1, <2>3, NextFileView
    <3> QED BY <2>1, <2>3, <3>1 DEF Files
  <2>6. \A o \in Names \ {n} : Files'[o] = Files[o]
    <3>1. \A o \in Names : (Found(o) /\ FindFile(o) # file) \/ ~ Found(o) => Files'[o] = Files[o]
      BY <1>1, <1>2, <2>1, OthersKept
    <3>2. \A o \in Names \ {n} : Found(o) => FindFile(o) # file
      <4>1. Intact(dir, inodes[0].size, Taken)
        BY <2>0 DEF DirInv, EntryInv
      <4> QED BY <2>3, <4>1, DistinctFiles
    <3> QED BY <3>1, <3>2
  <2>7. Files' = [Files EXCEPT ![n] = Store!Prefix(source, pos + 1)]
    BY <2>5, <2>6, OneFile
  <2>8. Writer = <<n, source>> /\ Writer' = Writer
    BY <1>2, <2>0, <2>n DEF Writer
  <2> QED BY <2>0, <2>1, <2>4, <2>7, <2>8, StoreExtend
<1>4. CASE ~ SetSize
  <2>1. Files' = Files
    BY <1>1, <1>2, <1>4, SizesKept, AllKept
  <2>2. Writer' = Nobody \/ Writer' = Writer
    BY <1>2 DEF Writer
  <2> QED BY <2>1, <2>2, StoreEnd, StoreStutter
<1> QED BY <1>3, <1>4

LEMMA StoreStep ==
  ASSUME TypeOK, TypeOK', PcInv, OnAnEfs, DirInv, BlockInv, BlockInv', Kept, Kept', Copied,
         Copied', [Next]_vars
  PROVE  [Store!Next]_(Store!vars)
<1>1. CASE ~ Formatted'
  <2>1. Files' = [n \in Names |-> Absent] /\ Writer' = Nobody
    BY <1>1 DEF Files, Writer
  <2> QED BY <2>1, StoreErase
<1>2. CASE Formatted' /\ Mkefs
  <2>1. MarkRoot /\ superblock
    <3>1. MarkRoot
      BY <1>2 DEF Mkefs, CreateSuperblock, EraseSuperblock, CreateInodeblocks, CreateRootdir,
         SetRootInode, LoseRootInode, disk, DirInv, MkefsInv, Formatted
    <3> QED BY <1>2, <3>1 DEF MarkRoot, Formatted
  <2>2. RootOnly /\ dir' = dir /\ pc' = "idle"
    BY <2>1 DEF MarkRoot, Exit, DirInv, MkefsInv
  <2>3. \A n \in Names : ~ Found(n)'
    <3> SUFFICES ASSUME NEW n \in Names PROVE \A j \in Dir : dir'[j].name # n
      BY DEF Found, Matches
    <3>1. n # "" /\ n # "."
      BY EfsAssumption
    <3>2. EntryOf(".", 0).name = "." /\ EntryOf("", 0).name = ""
      BY DEF EntryOf
    <3> QED BY <2>2, <3>1, <3>2 DEF RootOnly
  <2>4. Files' = [n \in Names |-> Absent] /\ Writer' = Nobody
    BY <2>2, <2>3 DEF Files, Writer
  <2> QED BY <2>4, StoreErase
<1>3. CASE Formatted' /\ NewFile
  <2>1. Formatted
    BY <1>3 DEF NewFile, Truncate, Create, AddEntry, GrowRoot, TakeInode, disk, Formatted
  <2>2. Stays /\ TextStays
    BY <1>3, <2>1, NewFileBlocks, TextStep
  <2> QED BY <1>3, <2>1, <2>2, NewFileStore
<1>4. CASE Formatted' /\ ReadWrite
  <2>1. Formatted
    BY <1>4, WritesOnFormatted
  <2>2. Stays /\ TextStays
    BY <1>4, <2>1, ReadWriteBlocks, TextStep
  <2> QED BY <1>4, <2>1, <2>2, ReadWriteStore
<1>5. ASSUME UNCHANGED disk PROVE Files' = Files
  <2>1. (Formatted' <=> Formatted) /\ \A n : Found(n)' = Found(n) /\ Content(n)' = Content(n)
    BY <1>5, SameDir, ContentReads DEF disk, Formatted
  <2> QED BY <2>1 DEF Files
<1>6. CASE Stop
  <2>1. Files' = Files /\ Writer' = Nobody
    BY <1>5, <1>6 DEF Stop, Exit, Writer
  <2> QED BY <2>1, StoreEnd
<1>7. CASE UNCHANGED vars
  <2>1. UNCHANGED <<disk, superblock, used, pc, f_name, source>>
    BY <1>7 DEF vars, disk, call
  <2>2. Files' = Files
    BY <1>5, <2>1
  <2>3. Writer' = Writer
    BY <2>1 DEF Writer, Formatted
  <2> QED BY <2>2, <2>3, StoreStutter
<1> QED BY <1>1, <1>2, <1>3, <1>4, <1>6, <1>7 DEF Next

-----------------------------------------------------------------------------
\* The theorems.

\* Whatever is killed, a file that is being written holds what has been read of its source.
THEOREM CopyInvariance == Uninterrupted /\ Spec => [](Kept /\ Copied)
<1> SUFFICES ASSUME Uninterrupted PROVE Spec => [](Kept /\ Copied)
  OBVIOUS
<1>1. Init => Kept /\ Copied
  <2> SUFFICES ASSUME Init PROVE Kept /\ Copied
    OBVIOUS
  <2>1. Clean(slot, text)
    BY Zeroes DEF Init, Clean
  <2> QED BY <2>1 DEF Init, Kept, Copied, Formatted, WhileWriting, Writing
<1>2. /\ TypeOK /\ PcInv /\ OnAnEfs /\ DirInv /\ BlockInv /\ Kept /\ Copied /\ TypeOK'
      /\ [Next]_vars
      => (Kept /\ Copied)'
  BY KeptStep, CopiedStep
<1> QED
  BY <1>1, <1>2, Invariance, DirectoryInvariance, BlockInvariance, PTL DEF Spec

\* When writeefs has reached the end of its source and says nothing of an error, the file
\* is as long as the source, and it is the source, all of it, unless an inode has too few
\* pointers for it.
THEOREM FileIsComplete == Uninterrupted /\ Spec => []CompleteWhenDone
<1>1. TypeOK /\ BlockInv /\ Kept /\ Copied => CompleteWhenDone
  <2> SUFFICES ASSUME TypeOK, BlockInv, Kept, Copied, pc = "read", AtEnd, Formatted
               PROVE  /\ InodeOf(f_name).size = source
                      /\ Chunks(source) <= Indirect + 1 =>
                           Content(f_name) = [c \in 1 .. Chunks(source) |-> <<source, c - 1>>]
    BY DEF CompleteWhenDone
  <2>1. /\ Found(f_name) /\ View(file, inodes, slot, text) = Store!Prefix(source, pos)
        /\ inodes[file].size = source /\ Chunks(source) = pos
    BY DEF Copied, WhileWriting
  <2>2. Content(f_name) = View(file, inodes, slot, text)
    BY <2>1, FileView DEF file, BlockInv
  <2>3. ASSUME Chunks(source) <= Indirect + 1
        PROVE  Store!Prefix(source, Chunks(source))
                 = [c \in 1 .. Chunks(source) |-> <<source, c - 1>>]
    <3>1. Chunks(source) \in Nat
      BY <2>1 DEF TypeOK
    <3>2. \A c \in 1 .. Chunks(source) : c <= Indirect + 1
      BY <2>3, <3>1, Sizes
    <3> QED BY <3>2 DEF Store!Prefix
  <2> QED BY <2>1, <2>2, <2>3 DEF InodeOf, file
<1> QED BY <1>1, Invariance, BlockInvariance, CopyInvariance, PTL

\* Kills and full disks included, the tools do to the files of a disk only what
\* FileStore.tla allows: unless writeefs is killed in the middle of new_file.
THEOREM Refinement == Uninterrupted /\ Spec => ImplementsFileStore
<1> SUFFICES ASSUME Uninterrupted PROVE Spec => ImplementsFileStore
  OBVIOUS
<1>1. Init => Store!Init
  <2> SUFFICES ASSUME Init PROVE Store!Init
    OBVIOUS
  <2>1. Files = [n \in Names |-> Absent] /\ Writer = Nobody
    BY DEF Init, Formatted, Files, Writer
  <2> QED BY <2>1, StoreInit
<1>2. /\ TypeOK /\ PcInv /\ OnAnEfs /\ DirInv /\ BlockInv /\ Kept /\ Copied
      /\ (TypeOK /\ BlockInv /\ Kept /\ Copied)'
      /\ [Next]_vars
      => [Store!Next]_(Store!vars)
  BY StoreStep
<1> QED
  BY <1>1, <1>2, Invariance, DirectoryInvariance, BlockInvariance, CopyInvariance, PTL
     DEF Spec, ImplementsFileStore, Store!Spec

-----------------------------------------------------------------------------
\* What the loader loads.

\* A file is the beginning of one source, and either all of it or some whole blocks.
WholeFile(i, ins, sl, tx) ==
  \E s \in Sources :
    /\ ins[i].size = s \/ (ins[i].size < s /\ ins[i].size % BlockSize = 0)
    /\ View(i, ins, sl, tx) = Store!Prefix(s, Chunks(ins[i].size))

FilesWhole ==
  Formatted => \A n \in Names : Found(n) => WholeFile(FindFile(n), inodes, slot, text)

LEMMA Multiple == \A q \in Nat : (q * BlockSize) % BlockSize = 0
<1> TAKE q \in Nat
<1> DEFINE x == q * BlockSize
<1>1. x \in Nat /\ x \div BlockSize = q /\ BlockSize \in Nat \ {0}
  BY ChunksOf, Sizes
<1> HIDE DEF x
<1>2. x = BlockSize * (x \div BlockSize) + (x % BlockSize)
  BY <1>1
<1>3. x = BlockSize * q /\ BlockSize * q \in Nat
  BY <1>1 DEF x
<1>4. x = BlockSize * q + (x % BlockSize) /\ x % BlockSize \in Int
  BY <1>1, <1>2
<1>5. x % BlockSize = 0
  BY <1>3, <1>4
<1> QED BY <1>5 DEF x

LEMMA EmptyWhole ==
  ASSUME NEW i, NEW ins, NEW sl, NEW tx, NEW s \in Sources, ins[i].size = 0
  PROVE  WholeFile(i, ins, sl, tx)
<1>1. 0 % BlockSize = 0 /\ (0 = s \/ 0 < s)
  <2>1. s \in Nat
    BY EfsAssumption
  <2>2. (0 * BlockSize) % BlockSize = 0 /\ 0 * BlockSize = 0
    BY Multiple, Sizes
  <2> QED BY <2>1, <2>2
<1>2. View(i, ins, sl, tx) = Store!Prefix(s, Chunks(ins[i].size))
  BY EmptyView, OneChunk
<1> QED BY <1>1, <1>2 DEF WholeFile

LEMMA StaysWhole ==
  ASSUME TypeOK, Stays, TextStays, NEW i \in Inodes, inodes'[i].size = inodes[i].size,
         WholeFile(i, inodes, slot, text)
  PROVE  WholeFile(i, inodes', slot', text')
BY FileStays DEF WholeFile

\* Of a step that changes the size of one file at most.
LEMMA OthersWhole ==
  ASSUME TypeOK, Stays, TextStays, dir' = dir, Formatted, FilesWhole, NEW i,
         \A l \in Inodes \ {i} : inodes'[l].size = inodes[l].size,
         \A n \in Names : Found(n) /\ FindFile(n) = i => WholeFile(i, inodes', slot', text')
  PROVE  FilesWhole'
<1> SUFFICES ASSUME NEW n \in Names, Found(n)'
             PROVE  WholeFile(FindFile(n)', inodes', slot', text')
  BY DEF FilesWhole, WholeFile, View
<1>1. Found(n) /\ FindFile(n)' = FindFile(n) /\ FindFile(n) \in Inodes
  BY SameDir, FileFound
<1>2. CASE FindFile(n) = i
  BY <1>1, <1>2
<1>3. CASE FindFile(n) # i
  <2>1. WholeFile(FindFile(n), inodes, slot, text)
    BY <1>1 DEF FilesWhole
  <2>2. WholeFile(FindFile(n), inodes', slot', text')
    BY <1>1, <1>3, <2>1, StaysWhole
  <2> QED BY <1>1, <2>2
<1> QED BY <1>2, <1>3

LEMMA NewFileWhole ==
  ASSUME TypeOK, DirInv, BlockInv, BlockInv', Kept, Formatted, Formatted', FilesWhole, NewFile,
         Stays, TextStays
  PROVE  FilesWhole'
<1>0. BlocksApart /\ NewFileKnows'
  BY DEF BlockInv
<1>1. ASSUME NEW n \in Names, NEW s \in Sources, Truncate(n, s) PROVE FilesWhole'
  <2> DEFINE f == FindFile(n)
  <2>1. dir' = dir /\ Found(n) /\ inodes' = [inodes EXCEPT ![f].size = 0]
    BY <1>1 DEF Truncate
  <2>2. f \in Inodes
    BY <2>1, FileFound
  <2> HIDE DEF f
  <2>3. inodes'[f].size = 0 /\ \A l \in Inodes \ {f} : inodes'[l].size = inodes[l].size
    BY <2>1, <2>2 DEF TypeOK, InodeType
  <2>4. WholeFile(f, inodes', slot', text')
    BY <2>3, EmptyWhole
  <2> QED BY <2>1, <2>3, <2>4, OthersWhole
<1>2. ASSUME NEW n \in Names, NEW s \in Sources, Create(n, s) PROVE FilesWhole'
  <2>1. dir' = dir /\ inodes' = inodes
    BY <1>2 DEF Create, disk
  <2>2. \A o \in Names : Found(o) => FindFile(o) # Junk
    BY FileFound, Numbers DEF Junk
  <2> QED BY <2>1, <2>2, OthersWhole
<1>3. CASE AddEntry
  <2>1. /\ new.num \in Inodes /\ inodes[new.num].size = 0
        /\ f_name \in Names /\ Found(f_name)' /\ FindFile(f_name)' = new.num
        /\ \A o \in Names \ {f_name} :
             Found(o)' = Found(o) /\ (Found(o) => FindFile(o)' = FindFile(o))
    BY <1>0, <1>3, AddEntryAdds
  <2>2. f_name' = f_name /\ inodes' = inodes /\ source \in Sources
    BY <1>3 DEF AddEntry, call, Kept
  <2>3. WholeFile(new.num, inodes', slot', text')
    BY <2>1, <2>2, EmptyWhole
  <2>4. ASSUME NEW o \in Names, Found(o)'
        PROVE  WholeFile(FindFile(o)', inodes', slot', text')
    <3>1. CASE o = f_name
      BY <2>1, <2>2, <2>3, <3>1
    <3>2. CASE o # f_name
      <4>1. Found(o) /\ FindFile(o)' = FindFile(o)
        BY <2>1, <2>4, <3>2
      <4>2. FindFile(o) \in Inodes /\ WholeFile(FindFile(o), inodes, slot, text)
        BY <4>1, FileFound DEF FilesWhole
      <4>3. WholeFile(FindFile(o), inodes', slot', text')
        BY <2>2, <4>2, StaysWhole
      <4> QED BY <4>1, <4>3
    <3> QED BY <3>1, <3>2
  <2> QED BY <2>4 DEF FilesWhole, WholeFile, View
<1>4. CASE GrowRoot
  <2>1. pc = "root" /\ dir' = dir /\ inodes' = [inodes EXCEPT ![0].size = @ + 1]
    BY <1>4 DEF GrowRoot
  <2>2. \A l \in Inodes \ {0} : inodes'[l].size = inodes[l].size
    BY <2>1 DEF TypeOK
  <2>3. \A n \in Names : Found(n) => FindFile(n) # 0
    <3>1. Intact(dir, inodes[0].size + 1, Taken \cup {new.num})
      BY <2>1 DEF DirInv, EntryInv
    <3> QED BY <3>1, NotTheRoot
  <2> QED BY <2>1, <2>2, <2>3, OthersWhole
<1>5. CASE TakeInode
  <2> DEFINE i == new.num
             z == new.copy
  <2>1. pc = "take" /\ dir' = dir /\ inodes' = [inodes EXCEPT ![i] = z]
        /\ source \in Sources
    BY <1>5 DEF TakeInode, Kept
  <2>2. i \in Inodes /\ z.size = 0
    <3>1. i \in Inodes /\ z = [ZeroInode EXCEPT !.refs = 1]
      BY <2>1 DEF DirInv, EntryInv, BlockInv, NewFileKnows
    <3> QED BY <3>1 DEF ZeroInode
  <2> HIDE DEF i, z
  <2>3. inodes'[i].size = 0 /\ \A l \in Inodes \ {i} : inodes'[l].size = inodes[l].size
    BY <2>1, <2>2 DEF TypeOK
  <2>4. WholeFile(i, inodes', slot', text')
    BY <2>1, <2>3, EmptyWhole
  <2> QED BY <2>1, <2>3, <2>4, OthersWhole
<1> QED BY <1>1, <1>2, <1>3, <1>4, <1>5 DEF NewFile

\* A block is written and then counted: the file is as long as what has been read.
LEMMA ReadWriteWhole ==
  ASSUME TypeOK, TypeOK', PcInv, BlockInv', Kept, Kept', Copied', Formatted, Formatted',
         FilesWhole, ReadWrite, Stays, TextStays
  PROVE  FilesWhole'
<1>1. CASE ~ SetSize
  <2>1. dir' = dir
    BY DEF ReadWrite, Done, MarkBlock, FallocFails, AddBlockPointer, PointDirect, MarkIndirect,
       NoIndirect, SetIndirect, ZeroIndirect, PointIndirect, PointDropped, WriteData,
       WriteFails, SetSize, disk
  <2>2. \A l \in Inodes : inodes'[l].size = inodes[l].size
    BY <1>1, SizesKept
  <2>3. \A n \in Names : Found(n) => FindFile(n) # Junk
    BY FileFound, Numbers DEF Junk
  <2> QED BY <2>1, <2>2, <2>3, OthersWhole
<1>2. CASE SetSize
  <2>1. /\ pc' = "read" /\ pc = "size" /\ dir' = dir /\ f_name' = f_name /\ Found(f_name)
    BY <1>2 DEF SetSize, call, PcInv, Writing
  <2>2. file' = file /\ file \in Inodes /\ Found(f_name)'
    <3>1. Found(f_name)' /\ file' = file
      BY <2>1 DEF Found, Matches, file, FindFile
    <3> QED BY <2>1, <3>1, FileIs
  <2>3. \A l \in Inodes \ {file} : inodes'[l].size = inodes[l].size
    <3> DEFINE f == file
               len == Min({BlockSize, source - pos * BlockSize})
    <3>1. inodes' = [inodes EXCEPT ![f].size = @ + len] /\ f \in Inodes
      BY <1>2, <2>2 DEF SetSize
    <3> HIDE DEF f, len
    <3>2. \A l \in Inodes \ {f} : inodes'[l].size = inodes[l].size
      BY <3>1 DEF TypeOK
    <3> QED BY <3>2 DEF f
  <2>4. /\ View(file, inodes', slot', text') = Store!Prefix(source', pos')
        /\ AtEnd' => inodes'[file].size = source' /\ Chunks(source') = pos'
        /\ ~ AtEnd' => inodes'[file].size = pos' * BlockSize
    <3>1. View(file, inodes, slot, text)' = Store!Prefix(source, pos)'
      BY <2>1 DEF Copied, WhileWriting
    <3>2. Store!Prefix(source, pos)' = Store!Prefix(source', pos')
      BY PrefixIs
    <3>3. AtEnd' => inodes'[file].size = source' /\ Chunks(source') = pos'
      BY <2>1, <2>2 DEF Copied
    <3>4. ~ AtEnd' => inodes'[file].size = pos' * BlockSize
      BY <2>1, <2>2 DEF BlockInv, ReadWriteKnows
    <3> QED BY <2>2, <3>1, <3>2, <3>3, <3>4
  <2>5. source' \in Sources /\ source' \in Nat /\ pos' \in Nat
    <3>1. source' \in Sources
      BY <2>1 DEF Kept, WhileWriting
    <3> QED BY <3>1, EfsAssumption DEF TypeOK
  <2>6. WholeFile(file, inodes', slot', text')
    <3>1. CASE AtEnd'
      BY <2>4, <2>5, <3>1 DEF WholeFile
    <3>2. CASE ~ AtEnd'
      <4>1. pos' * BlockSize < source'
        <5>1. pos' * BlockSize \in Nat
          <6>1. \A q \in Nat : q * BlockSize \in Nat
            BY Sizes
          <6> QED BY <2>5, <6>1
        <5> QED BY <2>5, <3>2, <5>1 DEF AtEnd
      <4>2. (pos' * BlockSize) % BlockSize = 0 /\ Chunks(pos' * BlockSize) = pos'
        BY <2>5, ChunksOf, Multiple
      <4> QED BY <2>4, <2>5, <3>2, <4>1, <4>2 DEF WholeFile
    <3> QED BY <3>1, <3>2
  <2> QED BY <2>1, <2>3, <2>6, OthersWhole
<1> QED BY <1>1, <1>2

LEMMA WholeStep ==
  ASSUME TypeOK, TypeOK', PcInv, OnAnEfs, DirInv, BlockInv, BlockInv', Kept, Kept', Copied',
         FilesWhole, [Next]_vars
  PROVE  FilesWhole'
<1> SUFFICES ASSUME Formatted' PROVE FilesWhole'
  BY DEF FilesWhole
<1>1. CASE Mkefs
  <2>1. MarkRoot
    BY <1>1 DEF Mkefs, CreateSuperblock, EraseSuperblock, CreateInodeblocks, CreateRootdir,
       SetRootInode, LoseRootInode, disk, DirInv, MkefsInv, Formatted
  <2>2. RootOnly /\ dir' = dir
    BY <2>1 DEF MarkRoot, DirInv, MkefsInv, Formatted
  <2>3. \A n \in Names : ~ Found(n)'
    <3> SUFFICES ASSUME NEW n \in Names PROVE \A j \in Dir : dir'[j].name # n
      BY DEF Found, Matches
    <3>1. n # "" /\ n # "."
      BY EfsAssumption
    <3>2. EntryOf(".", 0).name = "." /\ EntryOf("", 0).name = ""
      BY DEF EntryOf
    <3> QED BY <2>2, <3>1, <3>2 DEF RootOnly
  <2> QED BY <2>3 DEF FilesWhole
<1>2. CASE NewFile
  <2>1. Formatted
    BY <1>2 DEF NewFile, Truncate, Create, AddEntry, GrowRoot, TakeInode, disk, Formatted
  <2>2. Stays /\ TextStays
    BY <1>2, <2>1, NewFileBlocks, TextStep
  <2> QED BY <1>2, <2>1, <2>2, NewFileWhole
<1>3. CASE ReadWrite
  <2>1. Formatted
    BY <1>3, WritesOnFormatted
  <2>2. Stays /\ TextStays
    BY <1>3, <2>1, ReadWriteBlocks, TextStep
  <2> QED BY <1>3, <2>1, <2>2, ReadWriteWhole
<1>4. CASE UNCHANGED disk
  <2>1. UNCHANGED <<superblock, used, inodes, dir, slot, text>>
    BY <1>4 DEF disk
  <2> QED BY <2>1, SameDir DEF FilesWhole, WholeFile, View, Formatted
<1> QED BY <1>1, <1>2, <1>3, <1>4 DEF Next, Stop, vars

\* The loader, while it runs: it has read what the inode's pointers say, block after block.
Contents == {None, RootDirectory} \cup (Sources \X Nat)

LoadInv ==
  /\ boot \in {"off", "load", "run", "lost"}
  /\ boot # "off" =>
       /\ pc = "idle" /\ Found(Kernel)
       /\ cx \in Nat /\ memory \in Seq(Contents) /\ Len(memory) = cx
       /\ last_block = (KernelSize % Word) \div BlockSize
       /\ boot = "run" => cx > last_block
       /\ \A c \in 1 .. cx : memory[c] = FsBlock(GetBnum(InodeOf(Kernel), c - 1))

LEMMA ReadBlock ==
  ASSUME TypeOK, NEW b
  PROVE  FsBlock(b) \in Contents
<1>1. CASE b = 0
  BY <1>1, Zenon DEF FsBlock, Contents
<1>2. CASE b \in Data \ {0}
  <2>1. FsBlock(b) = text[b]
    BY <1>2, Zenon DEF FsBlock
  <2>2. text[b] \in {None} \cup (Sources \X Nat)
    BY <1>2 DEF TypeOK
  <2> QED BY <2>1, <2>2, Zenon DEF Contents
<1>3. CASE b # 0 /\ b \notin Data \ {0}
  BY <1>3, Zenon DEF FsBlock, Contents
<1> QED BY <1>1, <1>2, <1>3

LEMMA LoadStep ==
  ASSUME TypeOK, LoadInv, [LoaderNext]_<<vars, loader>>
  PROVE  LoadInv'
<1>1. CASE Tools
  BY <1>1 DEF Tools, loader, LoadInv
<1>2. CASE UNCHANGED vars
  <2>1. UNCHANGED <<pc, dir, inodes, text, slot>>
    BY <1>2 DEF vars, disk
  <2>2. /\ pc' = pc /\ Found(Kernel)' = Found(Kernel) /\ KernelSize' = KernelSize
        /\ \A k : FsBlock(GetBnum(InodeOf(Kernel), k))' = FsBlock(GetBnum(InodeOf(Kernel), k))
    BY <2>1 DEF Found, Matches, KernelSize, InodeOf, FindFile, FsBlock, GetBnum
  <2>3. CASE FindKernel
    <3>1. /\ boot' = "load" /\ cx' = 0 /\ memory' = << >> /\ pc = "idle" /\ Found(Kernel)
          /\ last_block' = (KernelSize % Word) \div BlockSize
      BY <2>3 DEF FindKernel, Found, Matches, KernelSize
    <3> QED BY <2>2, <3>1 DEF LoadInv
  <2>4. CASE ReadKernLoop
    <3> DEFINE x == FsBlock(GetBnum(InodeOf(Kernel), cx))
    <3>0. /\ boot = "load" /\ memory' = Append(memory, x) /\ cx' = cx + 1
          /\ last_block' = last_block
          /\ boot' = CASE cx >= Room -> "lost"
                       [] cx < Room /\ AnotherBlock(cx') -> "load"
                       [] OTHER -> "run"
      BY <2>4, Zenon DEF ReadKernLoop
    <3>1. /\ boot = "load" /\ memory' = Append(memory, x) /\ cx' = cx + 1
          /\ last_block' = last_block
          /\ boot' \in {"load", "run", "lost"}
          /\ (boot' = "run" => ~ (cx' <= last_block))
      <4> DEFINE full == cx >= Room
                 fits == cx < Room
      <4>1. full \/ fits
        BY <3>0, LoaderAssumption DEF LoadInv
      <4>2. full => ~ fits
        BY <3>0, LoaderAssumption DEF LoadInv
      <4> HIDE DEF full, fits
      <4>3. boot' = CASE full -> "lost" [] fits /\ AnotherBlock(cx') -> "load" [] OTHER -> "run"
        BY <3>0, Zenon DEF full, fits
      <4> QED BY <3>0, <4>1, <4>2, <4>3 DEF AnotherBlock
    <3>2. x \in Contents
      BY ReadBlock
    <3> HIDE DEF x
    <3>3. /\ cx \in Nat /\ memory \in Seq(Contents) /\ Len(memory) = cx
          /\ pc = "idle" /\ Found(Kernel)
          /\ last_block = (KernelSize % Word) \div BlockSize
          /\ \A c \in 1 .. cx : memory[c] = FsBlock(GetBnum(InodeOf(Kernel), c - 1))
      BY <3>1 DEF LoadInv
    <3>4. /\ memory' \in Seq(Contents) /\ Len(memory') = cx' /\ cx' \in Nat
          /\ \A c \in 1 .. cx : memory'[c] = memory[c]
          /\ memory'[cx'] = x
      BY <3>1, <3>2, <3>3
    <3>5. ASSUME NEW c \in 1 .. cx'
          PROVE  memory'[c] = FsBlock(GetBnum(InodeOf(Kernel), c - 1))
      <4>1. CASE c \in 1 .. cx
        BY <3>3, <3>4, <4>1
      <4>2. CASE c = cx'
        <5>1. c - 1 = cx
          BY <3>1, <3>3, <4>2
        <5> QED BY <3>4, <4>2, <5>1 DEF x
      <4> QED BY <3>1, <3>3, <4>1, <4>2
    <3>6. last_block \in Nat
      <4>1. KernelSize \in Nat
        BY <3>3, FileFound, Numbers DEF KernelSize, InodeOf
      <4> HIDE DEF KernelSize
      <4>2. KernelSize % Word \in Nat
        BY <4>1, LoaderAssumption
      <4> QED BY <3>3, <4>2, Sizes
    <3>7. boot' \in {"load", "run", "lost"} /\ (boot' = "run" => cx' > last_block')
      BY <3>1, <3>4, <3>6
    <3> QED BY <2>2, <3>1, <3>3, <3>4, <3>5, <3>7 DEF LoadInv
  <2>5. CASE SwitchOff
    BY <2>5 DEF SwitchOff, LoadInv
  <2>6. CASE UNCHANGED loader
    <3>1. UNCHANGED <<boot, cx, last_block, memory>>
      BY <2>6 DEF loader
    <3> QED BY <2>2, <3>1 DEF LoadInv
  <2> QED BY <1>1, <2>3, <2>4, <2>5, <2>6 DEF LoaderNext
<1> QED BY <1>1, <1>2 DEF LoaderNext, FindKernel, ReadKernLoop, SwitchOff

LEMMA LastBlock ==
  ASSUME NEW z \in Nat
  PROVE  /\ z \div BlockSize \in Nat /\ Chunks(z) <= z \div BlockSize + 1
         /\ z < (Indirect + 1) * BlockSize => z \div BlockSize <= Indirect
<1> DEFINE q == z \div BlockSize
           r == z - q * BlockSize
<1>1. q \in Nat /\ r \in 0 .. BlockSize - 1 /\ z = q * BlockSize + r /\ q * BlockSize \in Nat
  <2>1. BlockSize \in Nat \ {0}
    BY Sizes
  <2>2. q \in Nat
    BY <2>1
  <2>3. BlockSize * q <= z /\ z < BlockSize * q + BlockSize
    BY <2>1, Z3
  <2> HIDE DEF q
  <2>4. BlockSize * q = q * BlockSize /\ q * BlockSize \in Nat
    BY <2>1, <2>2
  <2> QED BY <2>1, <2>2, <2>3, <2>4
<1> HIDE DEF q, r
<1>2. Chunks(z) <= q + 1
  <2>1. CASE r = 0
    BY <1>1, <2>1, ChunksOf
  <2>2. CASE r # 0
    <3>1. r \in 1 .. BlockSize
      BY <1>1, <2>2, Sizes
    <3> QED BY <1>1, <3>1, ChunksOf
  <2> QED BY <2>1, <2>2
<1>3. ASSUME z < (Indirect + 1) * BlockSize PROVE q <= Indirect
  <2> SUFFICES ASSUME q - Indirect - 1 \in Nat PROVE FALSE
    BY <1>1, Sizes
  <2>1. (q - Indirect - 1) * BlockSize >= 0
    BY Sizes
  <2>2. (q - Indirect - 1) * BlockSize = q * BlockSize - (Indirect + 1) * BlockSize
    BY <1>1, Sizes
  <2>3. (Indirect + 1) * BlockSize \in Nat
    BY Sizes
  <2> QED BY <1>1, <1>3, <2>1, <2>2, <2>3, Sizes
<1> QED BY <1>1, <1>2, <1>3 DEF q

LEMMA RunsWhatIsThere ==
  ASSUME TypeOK, DirInv, BlockInv, Kept, FilesWhole, LoadInv
  PROVE  RunsAPrefix
<1> DEFINE i == FindFile(Kernel)
           z == inodes[i].size
<1> SUFFICES ASSUME boot = "run", Formatted, z \in 1 .. Room * BlockSize - 1
             PROVE  \E s \in Sources :
                      /\ z = s \/ (z < s /\ z % BlockSize = 0)
                      /\ Len(memory) >= Chunks(z)
                      /\ \A c \in 1 .. Chunks(z) : memory[c] = <<s, c - 1>>
  BY DEF RunsAPrefix, KernelSize, InodeOf
<1>1. /\ pc = "idle" /\ Found(Kernel) /\ Kernel \in Names
      /\ cx \in Nat /\ Len(memory) = cx /\ cx > last_block
      /\ last_block = (z % Word) \div BlockSize
      /\ \A c \in 1 .. cx : memory[c] = FsBlock(GetBnum(inodes[i], c - 1))
  BY LoaderAssumption DEF LoadInv, KernelSize, InodeOf
<1>2. i \in Inodes \ {0} /\ Intact(dir, inodes[0].size, Taken)
  <2>1. Intact(dir, inodes[0].size, Taken)
    BY <1>1 DEF DirInv, EntryInv
  <2> QED BY <1>1, <2>1, NotTheRoot
<1>3. PICK s \in Sources : /\ z = s \/ (z < s /\ z % BlockSize = 0)
                           /\ View(i, inodes, slot, text) = Store!Prefix(s, Chunks(z))
  BY <1>1 DEF FilesWhole, WholeFile
<1> HIDE DEF z
<1>4. /\ z \in Nat /\ Chunks(z) \in Nat /\ Chunks(z) <= cx /\ Chunks(z) <= Indirect + 1
  <2>0. /\ Room * BlockSize <= (Indirect + 1) * BlockSize
        /\ Room * BlockSize \in Nat /\ (Indirect + 1) * BlockSize \in Nat
    <3> DEFINE d == Indirect + 1 - Room
    <3>1. d \in Nat /\ Room \in Nat /\ Indirect + 1 = Room + d
      BY LoaderAssumption, Sizes
    <3> HIDE DEF d
    <3>2. /\ (Room + d) * BlockSize = Room * BlockSize + d * BlockSize
          /\ Room * BlockSize \in Nat /\ d * BlockSize \in Nat
      BY <3>1, Sizes
    <3> QED BY <3>1, <3>2
  <2>1. z \in Nat /\ z < Word /\ Word \in Nat \ {0} /\ z < (Indirect + 1) * BlockSize
    BY <2>0, LoaderAssumption
  <2>2. z % Word = z
    BY <2>1
  <2>3. /\ z \div BlockSize \in Nat /\ Chunks(z) <= z \div BlockSize + 1
        /\ z \div BlockSize <= Indirect
    BY <2>1, LastBlock
  <2>4. Chunks(z) \in Nat /\ last_block = z \div BlockSize
    BY <1>1, <2>1, <2>2, ChunkCount
  <2> HIDE DEF i
  <2> QED BY <1>1, <2>1, <2>3, <2>4, Sizes
<1>5. ASSUME NEW c \in 1 .. Chunks(z) PROVE memory[c] = <<s, c - 1>>
  <2> DEFINE k == c - 1
             b == Num(inodes, slot, <<i, k>>)
  <2>1. k \in Nat /\ k <= Indirect /\ k < Chunks(z) /\ c <= Indirect + 1 /\ c \in 1 .. cx
    BY <1>1, <1>4, Sizes
  <2>2. <<i, k>> \in Held(inodes)
    BY <1>2, <2>1, Sizes DEF Held, Places, z
  <2>3. b \in Data
    BY <2>2 DEF BlockInv, BlocksApart, Apart, TypeOK
  <2>4. b # 0
    <3>0. 0 \in Inodes
      BY Sizes DEF Inodes
    <3>1. inodes[0].size \in 1 .. BlockSize
      BY <1>2 DEF Intact
    <3>2. <<0, 0>> \in Held(inodes)
      BY <3>0, <3>1, OneChunk, Sizes DEF Held, Places
    <3>3. Num(inodes, slot, <<0, 0>>) = 0
      BY Sizes DEF Num, BlockInv, BlocksApart
    <3>4. <<i, k>> # <<0, 0>>
      BY <1>2
    <3> QED BY <2>2, <3>2, <3>3, <3>4 DEF BlockInv, BlocksApart, Apart
  <2>5. GetBnum(inodes[i], k) = b
    <3> HIDE DEF k
    <3>1. /\ k < Direct => k \notin Direct .. Direct + Indirect - 1
          /\ ~ (k < Direct) => k \in Direct .. Direct + Indirect - 1
      BY <2>1, Sizes
    <3>2. CASE k < Direct
      BY <3>1, <3>2, Zenon DEF GetBnum, Num
    <3>3. CASE ~ (k < Direct)
      BY <3>1, <3>3, Zenon DEF GetBnum, Num
    <3> QED BY <3>2, <3>3
  <2>6. memory[c] = text[b]
    <3>1. memory[c] = FsBlock(b)
      BY <1>1, <2>1, <2>5
    <3> HIDE DEF b
    <3> QED BY <2>3, <2>4, <3>1, Zenon DEF FsBlock
  <2>7. View(i, inodes, slot, text)[c] = text[b]
    BY <2>1 DEF View, z
  <2>8. Store!Prefix(s, Chunks(z))[c] = <<s, c - 1>>
    BY <2>1, PrefixIs
  <2> QED BY <1>3, <2>6, <2>7, <2>8
<1> QED BY <1>1, <1>3, <1>4, <1>5

\* Whatever the tools were told to write, however they ended and whenever the machine is
\* switched on: if the kernel is less than Room blocks, 34 KB, and so does not reach the
\* loader, what is started is the beginning of one of the files that were written, as far
\* as its size says.
THEOREM RunsWhatWasWritten == Uninterrupted /\ LoaderSpec => []RunsAPrefix
<1> SUFFICES ASSUME Uninterrupted PROVE LoaderSpec => []RunsAPrefix
  OBVIOUS
<1>1. LoaderSpec => Spec
  <2>1. LoaderInit => Init
    BY DEF LoaderInit
  <2>2. [LoaderNext]_<<vars, loader>> => [Next]_vars
    BY DEF LoaderNext, Tools, FindKernel, ReadKernLoop, SwitchOff
  <2> QED BY <2>1, <2>2, PTL DEF LoaderSpec, Spec
<1>2. LoaderInit => FilesWhole /\ LoadInv
  BY DEF LoaderInit, Init, FilesWhole, Formatted, LoadInv
<1>3. /\ TypeOK /\ PcInv /\ OnAnEfs /\ DirInv /\ BlockInv /\ Kept /\ Copied
      /\ (TypeOK /\ BlockInv /\ Kept /\ Copied)'
      /\ FilesWhole /\ LoadInv /\ [LoaderNext]_<<vars, loader>>
      => (FilesWhole /\ LoadInv)'
  <2>1. [LoaderNext]_<<vars, loader>> => [Next]_vars
    BY DEF LoaderNext, Tools, FindKernel, ReadKernLoop, SwitchOff
  <2> QED BY <2>1, WholeStep, LoadStep
<1>4. TypeOK /\ DirInv /\ BlockInv /\ Kept /\ FilesWhole /\ LoadInv => RunsAPrefix
  BY RunsWhatIsThere
<1> QED
  BY <1>1, <1>2, <1>3, <1>4, Invariance, DirectoryInvariance, BlockInvariance,
     CopyInvariance, PTL DEF LoaderSpec
=============================================================================
