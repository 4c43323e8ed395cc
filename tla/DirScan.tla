------------------------------ MODULE DirScan ------------------------------
(***************************************************************************)
(* How boot2.S looks a name up in the root directory: its loop over the     *)
(* entries and its strcmp, a character at a time.  Characters are numbers,  *)
(* 0 the one that ends a string.  strcmp leaves SI where the strings        *)
(* differ, and the loop goes on from there.                                 *)
(***************************************************************************)
EXTENDS Integers, Sequences

CONSTANTS
  Letters,           \* the characters of names, but "."
  EFS_FILE_NAME_LEN, \* bytes of a name in an entry (12)
  MaxFiles           \* a bound on the files in the directory (63)

Dot == 0 - 1         \* the character "."

\* An entry is a name, filled up with zeros, and the number of its inode.
EntryLen == EFS_FILE_NAME_LEN + 1
FileNames == UNION {[1 .. l -> Letters] : l \in 1 .. EFS_FILE_NAME_LEN - 1}
Names == FileNames \cup {<<Dot>>}

VARIABLES
  files,        \* the names in the directory; entry e has inode e - 1
  kernel_file,  \* the name asked for
  pc, si, di,   \* where the scan and the comparison are
  bp,           \* the entries searched
  ax            \* the inode of the entry under comparison

vars == <<files, kernel_file, pc, si, di, bp, ax>>

Byte(name, d) == IF d < Len(name) THEN name[d + 1] ELSE 0
Buffer(s) ==
  LET e == s \div EntryLen + 1
      d == s % EntryLen
  IN  CASE e > Len(files) -> 0
        [] d = EFS_FILE_NAME_LEN -> e - 1
        [] OTHER -> Byte(files[e], d)

Distinct(fs) == \A e, f \in 1 .. Len(fs) : fs[e] = fs[f] => e = f
Init ==
  /\ kernel_file \in FileNames
  /\ \E n \in 0 .. MaxFiles : \E fs \in [1 .. n -> FileNames] :
       /\ files = << <<Dot>> >> \o fs
       /\ Distinct(fs)
  /\ pc = "search_block" /\ si = 0 /\ di = 0 /\ bp = 0 /\ ax = 0

SearchBlock ==
  /\ pc = "search_block"
  /\ di' = 0 /\ ax' = Buffer(si + EFS_FILE_NAME_LEN)
  /\ pc' = "strcmp"
  /\ UNCHANGED <<files, kernel_file, si, bp>>

Same == Buffer(si) = Byte(kernel_file, di)

StrcmpGoesOn ==
  /\ pc = "strcmp" /\ Same /\ Buffer(si) # 0
  /\ si' = si + 1 /\ di' = di + 1
  /\ UNCHANGED <<files, kernel_file, pc, bp, ax>>

KernFound ==
  /\ pc = "strcmp" /\ Same /\ Buffer(si) = 0
  /\ pc' = "kern_found"
  /\ UNCHANGED <<files, kernel_file, si, di, bp, ax>>

NextEntry ==
  /\ pc = "strcmp" /\ ~ Same
  /\ bp' = bp + 1
  /\ pc' = IF bp' = Len(files) THEN "not_found" ELSE "search_block"
  /\ si' = si + EntryLen
  /\ UNCHANGED <<files, kernel_file, di, ax>>

Next == SearchBlock \/ StrcmpGoesOn \/ KernFound \/ NextEntry

Spec == Init /\ [][Next]_vars

\* boot2.S, "check the root directory for the kernel file": the file is found exactly
\* when it is there, and it is its own inode that is loaded.
FindsTheFile ==
  /\ pc = "kern_found" => files[ax + 1] = kernel_file
  /\ pc = "not_found" => \A e \in 1 .. Len(files) : files[e] # kernel_file
=============================================================================
