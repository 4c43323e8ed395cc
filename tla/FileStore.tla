----------------------------- MODULE FileStore -----------------------------
(***************************************************************************)
(* What the EFS tools promise to those who use a disk: a name has no file,  *)
(* or the file is a prefix of one source, cut short, never mixed up, when   *)
(* the writer is killed.  What lies beyond the reach of an inode is lost.   *)
(* Efs.tla shows that the blocks, inodes and directory of src/efs implement *)
(* this.                                                                    *)
(***************************************************************************)
EXTENDS Naturals, Sequences

CONSTANTS
  Names, Sources, BlockSize, Absent, Nobody,
  Reach,  \* the blocks an inode can point to
  Lost    \* what is read beyond

VARIABLES files, writer

vars == <<files, writer>>

\* The chunks of the first k blocks of source s.
Prefix(s, k) == [c \in 1 .. k |-> IF c <= Reach THEN <<s, c - 1>> ELSE Lost]
Chunks(s)    == (s + BlockSize - 1) \div BlockSize

NoFiles == [n \in Names |-> Absent]

Init == files = NoFiles /\ writer = Nobody

\* mkefs: every file is gone when it starts and none is there when it ends.
Erase == files' = NoFiles /\ writer' = Nobody

\* A writer starts from nothing, whatever there was under the name.
Begin(n, s) ==
  /\ writer = Nobody
  /\ writer' = <<n, s>>
  /\ files' = [files EXCEPT ![n] = << >>]

\* The next block of the source arrives as a whole, and no other file notices.
Extend(n, s) ==
  /\ writer = <<n, s>>
  /\ \E k \in 0 .. Chunks(s) - 1 :
       /\ files[n] = Prefix(s, k)
       /\ files' = [files EXCEPT ![n] = Prefix(s, k + 1)]
  /\ UNCHANGED writer

\* The writer is done, has failed or is killed: what it has written stays.
End == writer' = Nobody /\ UNCHANGED files

Next == Erase \/ End \/ \E n \in Names, s \in Sources : Begin(n, s) \/ Extend(n, s)

Spec == Init /\ [][Next]_vars
=============================================================================
