------------------------------- MODULE Loader -------------------------------
(***************************************************************************)
(* The second stage of the boot loader (boot/boot2.S) on the disks that     *)
(* mkefs and writeefs leave behind: it looks the kernel up in the root      *)
(* directory and reads its blocks to memory, one after another, from        *)
(* 0x500 up.  It runs at 0x9000 itself (boot1.S:7-8, Makefile:19), with its *)
(* variables in its first 256 bytes: 34 blocks fit below them, and the next *)
(* one overwrites the loader.  The tools and the loader never run at the    *)
(* same time.  No name begins with the letter of another here: DirScan.tla  *)
(* has the comparison of names.                                             *)
(***************************************************************************)
EXTENDS Efs

CONSTANTS
  Kernel,  \* the name asked for
  Word,    \* what a 16-bit register counts to, in entries (4096)
  Room     \* the blocks that fit between KERNEL_ADDRESS and the loader (34)

ASSUME LoaderAssumption ==
  /\ Kernel \in Names
  /\ Word \in Nat \ {0} /\ Room \in Nat \ {0}
  /\ Room * BlockSize <= Word /\ Room <= Indirect + 1

VARIABLES
  boot,        \* where the loader is, or "lost" when it is overwritten
  cx,          \* the logical block to read next
  last_block,  \* the last one of the kernel
  memory       \* what is at KERNEL_SEGMENT, a block at a time

loader == <<boot, cx, last_block, memory>>

LoaderInit == Init /\ boot = "off" /\ cx = 0 /\ last_block = 0 /\ memory = << >>

Tools == boot = "off" /\ Next /\ UNCHANGED loader

\* find_kernel stops at the directory's size, unless that is 0.
Scanned == IF inodes[0].size = 0 THEN Dir ELSE 0 .. inodes[0].size - 1

\* The machine is switched on and the kernel found.  Only the low word of its size counts.
\* Without a superblock the inodes are looked for in the loader's own code.
FindKernel ==
  /\ boot = "off" /\ pc = "idle" /\ superblock
  /\ \E j \in Scanned \cap Dir : dir[j].name = Kernel
  /\ boot' = "load" /\ cx' = 0 /\ memory' = << >>
  /\ last_block' = (InodeOf(Kernel).size % Word) \div BlockSize
  /\ UNCHANGED vars

\* Data block 0 is the root directory, read as if it were the kernel.
RootDirectory == <<Junk>>
FsBlock(b) == CASE b = 0 -> RootDirectory [] b \in Data \ {0} -> text[b] [] OTHER -> None

\* Whether there is another block to read.
AnotherBlockButLast(k) == k < last_block \* mutant of AnotherBlock
AnotherBlock(k) == k <= last_block

\* Every block goes behind the one before, and no one looks where that is: the first that
\* does not fit is read over the loader, and of what that does next nothing is claimed.
ReadKernLoop ==
  /\ boot = "load"
  /\ memory' = Append(memory, FsBlock(GetBnum(InodeOf(Kernel), cx)))
  /\ cx' = cx + 1
  /\ boot' = CASE cx >= Room -> "lost" [] cx < Room /\ AnotherBlock(cx') -> "load" [] OTHER -> "run"
  /\ UNCHANGED <<vars, last_block>>

SwitchOff ==
  /\ boot # "off"
  /\ boot' = "off" /\ cx' = 0 /\ last_block' = 0 /\ memory' = << >>
  /\ UNCHANGED vars

LoaderNext == Tools \/ FindKernel \/ ReadKernLoop \/ SwitchOff

LoaderSpec == LoaderInit /\ [][LoaderNext]_<<vars, loader>>

-----------------------------------------------------------------------------
\* Properties.

KernelSize == InodeOf(Kernel).size

\* However the kernel got on the disk, what runs is the beginning of one of the files
\* that were ever written, as long as its size says and not empty, below 34 KB: at 34 KB
\* the loader reads a block over itself, and from 64 KB on it takes the size for less.
RunsAPrefix ==
  boot = "run" /\ Formatted /\ KernelSize \in 1 .. Room * BlockSize - 1 =>
    \E s \in Sources :
      /\ KernelSize = s \/ (KernelSize < s /\ KernelSize % BlockSize = 0)
      /\ Len(memory) >= Chunks(KernelSize)
      /\ \A c \in 1 .. Chunks(KernelSize) : memory[c] = <<s, c - 1>>
=============================================================================
