--------------------------- MODULE DirScanProofs ---------------------------
(***************************************************************************)
(* When the loader's search is right, although strcmp leaves SI where the  *)
(* names differ: if no entry before the one asked for begins with its      *)
(* first letter, whatever the letters, the length of an entry and the      *)
(* number of files.  This is what Loader.tla takes for granted.            *)
(***************************************************************************)
EXTENDS DirScan, TLAPS

\* Letters are neither the end of a string nor ".", and a name fits an entry.
Characters ==
  /\ Letters \subseteq Nat \ {0}
  /\ EFS_FILE_NAME_LEN \in Nat /\ EFS_FILE_NAME_LEN >= 2

\* What begins with the first letter of the name asked for comes after it in the directory.
LettersDiffer ==
  \A e \in 1 .. Len(files) : files[e][1] = kernel_file[1] =>
    \E f \in 1 .. e : files[f] = kernel_file

\* The directory has at least ".", and a name ends before its entry does.
NamesInv ==
  /\ files \in Seq(Names) /\ Len(files) >= 1 /\ kernel_file \in FileNames
  /\ LettersDiffer

\* Where SI is: at an entry, and in it as far as the names are the same.
ScanInv ==
  /\ bp \in Nat /\ \A e \in 1 .. bp : files[e] # kernel_file
  /\ pc \in {"search_block", "strcmp", "kern_found", "not_found"}
  /\ pc = "not_found" => bp = Len(files)
  /\ pc # "not_found" => bp < Len(files)
  /\ pc = "search_block" => si = bp * EntryLen
  /\ pc \in {"strcmp", "kern_found"} =>
       /\ ax = bp /\ di \in Nat /\ si = bp * EntryLen + di
       /\ di <= Len(kernel_file)
       /\ \A d \in 0 .. di - 1 : Byte(files[bp + 1], d) = Byte(kernel_file, d)
  /\ pc = "kern_found" => files[bp + 1] = kernel_file

IInv == NamesInv /\ ScanInv

-----------------------------------------------------------------------------
\* Where the bytes of an entry are.

LEMMA Entry ==
  ASSUME NEW C \in Nat, NEW b \in Nat, NEW d \in 0 .. C - 1
  PROVE  (b * C + d) \div C = b /\ (b * C + d) % C = d
<1> DEFINE o == b * C + d
           q == o \div C
<1>1. C > 0 /\ o \in Nat /\ b * C <= o /\ o < b * C + C /\ o - b * C = d
  OBVIOUS
<1> HIDE DEF o
<1>2. q \in Nat /\ q * C <= o /\ o < q * C + C /\ o % C = o - q * C
  BY <1>1
<1> HIDE DEF q
<1>3. CASE q < b
  <2>1. (q + 1) * C <= b * C
    BY <1>2, <1>3
  <2> QED BY <1>1, <1>2, <2>1
<1>4. CASE b < q
  <2>1. (b + 1) * C <= q * C
    BY <1>2, <1>4
  <2> QED BY <1>1, <1>2, <2>1
<1>5. CASE q = b
  BY <1>1, <1>2, <1>5 DEF q, o
<1>6. b \in Nat /\ q \in Nat
  BY <1>2
<1> QED BY <1>3, <1>4, <1>5, <1>6

\* A name has letters, as many as its length, and ends before the inode's number.
LEMMA NameFacts ==
  ASSUME Characters, NEW n \in Names
  PROVE  /\ Len(n) \in 1 .. EFS_FILE_NAME_LEN - 1
         /\ Byte(n, 0) = n[1] /\ n[1] # 0
         /\ n \in FileNames => \A d \in Nat : Byte(n, d) = 0 <=> d >= Len(n)
<1>1. CASE n \in FileNames
  <2>1. PICK l \in 1 .. EFS_FILE_NAME_LEN - 1 : n \in [1 .. l -> Letters]
    BY <1>1 DEF FileNames
  <2>2. Len(n) = l
    BY <2>1 DEF Characters
  <2>3. \A d \in 0 .. l - 1 : n[d + 1] \in Nat \ {0}
    <3>1. \A i \in 1 .. l : n[i] \in Nat \ {0}
      BY <2>1 DEF Characters
    <3>2. \A d \in 0 .. l - 1 : d + 1 \in 1 .. l
      BY <2>1 DEF Characters
    <3> QED BY <3>1, <3>2
  <2>4. n[1] # 0
    <3>1. n[0 + 1] \in Nat \ {0}
      BY <2>1, <2>3
    <3> QED BY <3>1
  <2> QED BY <2>1, <2>2, <2>3, <2>4 DEF Byte
<1>2. CASE n = <<Dot>>
  <2>1. n \notin FileNames
    <3> SUFFICES ASSUME n \in FileNames PROVE FALSE
      OBVIOUS
    <3>1. PICK l \in 1 .. EFS_FILE_NAME_LEN - 1 : n \in [1 .. l -> Letters]
      BY DEF FileNames
    <3>2. n[1] \in Letters
      BY <3>1
    <3> QED BY <1>2, <3>2 DEF Dot, Characters
  <2> QED BY <1>2, <2>1 DEF Characters, Byte, Dot
<1> QED BY <1>1, <1>2 DEF Names

\* What SI points to.
LEMMA BufferIs ==
  ASSUME Characters, NamesInv, NEW b \in Nat, b < Len(files),
         NEW d \in 0 .. EFS_FILE_NAME_LEN
  PROVE  Buffer(b * EntryLen + d) =
           IF d = EFS_FILE_NAME_LEN THEN b ELSE Byte(files[b + 1], d)
<1> DEFINE s == b * EntryLen + d
<1>1. EntryLen \in Nat /\ d \in 0 .. EntryLen - 1 /\ d \in Nat /\ Len(files) \in Nat
  BY DEF EntryLen, Characters, NamesInv
<1>2. s \div EntryLen = b /\ s % EntryLen = d
  BY <1>1, Entry
<1> HIDE DEF s
<1>3. /\ ~ (b + 1 > Len(files)) /\ b + 1 - 1 = b
  BY <1>1
<1>4. Buffer(s) = IF d = EFS_FILE_NAME_LEN THEN b ELSE Byte(files[b + 1], d)
  <2>1. CASE d = EFS_FILE_NAME_LEN
    BY <1>2, <1>3, <2>1 DEF Buffer
  <2>2. CASE d # EFS_FILE_NAME_LEN
    BY <1>2, <1>3, <2>2 DEF Buffer
  <2> QED BY <2>1, <2>2
<1> QED BY <1>4 DEF s

-----------------------------------------------------------------------------
\* The steps.

LEMMA Start ==
  ASSUME Characters, Init, LettersDiffer
  PROVE  IInv
<1>1. PICK n \in 0 .. MaxFiles : \E fs \in [1 .. n -> FileNames] : files = << <<Dot>> >> \o fs
  BY DEF Init
<1>2. PICK fs \in [1 .. n -> FileNames] : files = << <<Dot>> >> \o fs
  BY <1>1
<1>3. n \in Nat
  OBVIOUS
<1>4. fs \in Seq(Names)
  <2>1. fs \in [1 .. n -> Names]
    BY DEF Names
  <2> QED BY <1>3, <2>1
<1>5. << <<Dot>> >> \in Seq(Names) /\ Len(<< <<Dot>> >>) = 1
  BY DEF Names
<1>6. files \in Seq(Names) /\ Len(files) = 1 + Len(fs) /\ Len(fs) \in Nat
  BY <1>2, <1>4, <1>5
<1>7. NamesInv
  BY <1>6 DEF NamesInv, Init
<1>8. EntryLen \in Nat
  BY DEF Characters, EntryLen
<1>9. ScanInv
  BY <1>6, <1>8 DEF ScanInv, Init
<1> QED BY <1>7, <1>9 DEF IInv

\* What is compared.
LEMMA AtByte ==
  ASSUME Characters, IInv, pc = "strcmp"
  PROVE  /\ bp \in Nat /\ bp < Len(files) /\ di \in 0 .. EFS_FILE_NAME_LEN - 1
         /\ files[bp + 1] \in Names /\ kernel_file \in Names /\ kernel_file \in FileNames
         /\ Len(files) \in Nat /\ bp + 1 \in 1 .. Len(files)
         /\ Buffer(si) = Byte(files[bp + 1], di)
<1>1. /\ bp \in Nat /\ bp < Len(files) /\ di \in Nat /\ si = bp * EntryLen + di
      /\ di <= Len(kernel_file) /\ kernel_file \in FileNames
      /\ files \in Seq(Names) /\ Len(files) \in Nat
  BY DEF IInv, NamesInv, ScanInv
<1>2. kernel_file \in Names
  BY <1>1 DEF Names
<1>3. Len(kernel_file) \in 1 .. EFS_FILE_NAME_LEN - 1
  BY <1>2, NameFacts
<1>4. di \in 0 .. EFS_FILE_NAME_LEN - 1 /\ EFS_FILE_NAME_LEN \in Nat
  BY <1>1, <1>3 DEF Characters
<1>5. bp + 1 \in 1 .. Len(files)
  BY <1>1
<1>6. files[bp + 1] \in Names
  BY <1>1, <1>5
<1>7. /\ Buffer(si) = IF di = EFS_FILE_NAME_LEN THEN bp ELSE Byte(files[bp + 1], di)
  BY <1>1, <1>4, BufferIs DEF IInv
<1> QED BY <1>1, <1>2, <1>4, <1>5, <1>6, <1>7

\* Once a letter has been the same, it is the name that was asked for.
LEMMA OneLetterIsEnough ==
  ASSUME Characters, IInv, pc = "strcmp", di # 0
  PROVE  files[bp + 1] = kernel_file
<1>1. Byte(files[bp + 1], 0) = Byte(kernel_file, 0)
  BY AtByte DEF IInv, ScanInv
<1>2. files[bp + 1][1] = kernel_file[1]
  BY <1>1, AtByte, NameFacts
<1>3. PICK f \in 1 .. bp + 1 : files[f] = kernel_file
  BY <1>2, AtByte DEF IInv, NamesInv, LettersDiffer
<1>4. f = bp + 1
  BY <1>3, AtByte DEF IInv, ScanInv
<1> QED BY <1>3, <1>4

LEMMA Step ==
  ASSUME Characters, IInv, Next
  PROVE  IInv'
<1>1. NamesInv'
  <2>1. files' = files /\ kernel_file' = kernel_file
    BY DEF Next, SearchBlock, StrcmpGoesOn, KernFound, NextEntry
  <2>2. LettersDiffer' <=> LettersDiffer
    BY <2>1 DEF LettersDiffer
  <2> QED BY <2>1, <2>2 DEF IInv, NamesInv
<1>2. EntryLen \in Nat /\ EFS_FILE_NAME_LEN \in 0 .. EFS_FILE_NAME_LEN
  BY DEF Characters, EntryLen
<1>3. CASE SearchBlock
  <2>1. Buffer(si + EFS_FILE_NAME_LEN) = bp
    <3>1. si = bp * EntryLen /\ bp \in Nat /\ bp < Len(files)
      BY <1>3 DEF IInv, ScanInv, SearchBlock
    <3> QED BY <1>2, <3>1, BufferIs DEF IInv
  <2> QED BY <1>1, <1>2, <1>3, <2>1 DEF IInv, NamesInv, ScanInv, SearchBlock
<1>4. CASE StrcmpGoesOn
  <2>1. Byte(files[bp + 1], di) = Byte(kernel_file, di) /\ Byte(kernel_file, di) # 0
    BY <1>4, AtByte DEF StrcmpGoesOn, Same
  <2>2. di < Len(kernel_file)
    BY <1>4, <2>1, AtByte, NameFacts DEF StrcmpGoesOn
  <2>3. \A d \in 0 .. di' - 1 : Byte(files[bp + 1], d) = Byte(kernel_file, d)
    BY <1>4, <2>1, AtByte DEF StrcmpGoesOn, IInv, ScanInv
  <2> QED BY <1>1, <1>2, <1>4, <2>2, <2>3, AtByte DEF IInv, ScanInv, StrcmpGoesOn
<1>5. CASE KernFound
  <2>1. Byte(kernel_file, di) = 0 /\ pc = "strcmp"
    BY <1>5, AtByte DEF KernFound, Same
  <2>2. di # 0
    BY <2>1, AtByte, NameFacts
  <2>3. files[bp + 1] = kernel_file
    BY <2>1, <2>2, OneLetterIsEnough
  <2> QED BY <1>1, <1>5, <2>3 DEF IInv, ScanInv, KernFound
<1>6. CASE NextEntry
  <2>1. Byte(files[bp + 1], di) # Byte(kernel_file, di) /\ pc = "strcmp"
    BY <1>6, AtByte DEF NextEntry, Same
  <2>2. di = 0 /\ files[bp + 1] # kernel_file
    BY <2>1, OneLetterIsEnough
  <2>3. si' = (bp + 1) * EntryLen
    BY <1>2, <1>6, <2>1, <2>2, AtByte DEF NextEntry, IInv, ScanInv
  <2>4. bp' = bp + 1 /\ bp' \in Nat /\ \A e \in 1 .. bp' : files[e] # kernel_file
    BY <1>6, <2>1, <2>2, AtByte DEF NextEntry, IInv, ScanInv
  <2> QED BY <1>1, <1>6, <2>1, <2>3, <2>4, AtByte DEF IInv, ScanInv, NextEntry
<1> QED BY <1>3, <1>4, <1>5, <1>6 DEF Next

\* The file is found exactly when it is there, and it is its own inode that is loaded, if no
\* entry before it begins with its first letter.
THEOREM SearchIsRight ==
  ASSUME Characters
  PROVE  Spec /\ LettersDiffer => []FindsTheFile
<1>1. Init /\ LettersDiffer => IInv
  BY Start
<1>2. IInv /\ [Next]_vars => IInv'
  <2>1. IInv /\ UNCHANGED vars => IInv'
    BY DEF vars, IInv, NamesInv, ScanInv, LettersDiffer
  <2> QED BY <2>1, Step
<1>3. IInv => FindsTheFile
  BY DEF IInv, ScanInv, FindsTheFile
<1> QED BY <1>1, <1>2, <1>3, PTL DEF Spec
=============================================================================
