---------------------------- MODULE AllocProofs ----------------------------
(***************************************************************************)
(* What Alloc.tla's runs check on a small region, for every region and     *)
(* every sequence of calls.  The inductive invariant says that the two     *)
(* lists partition slots that tile the region; its geometry is proved      *)
(* about sets of addresses first, then carried over to the lists.          *)
(***************************************************************************)
EXTENDS Alloc, SequenceTheorems, TLAPS

-----------------------------------------------------------------------------
(* The lists                                                                 *)

\* Taking an element out of an alloc_slot_t list (alloc.c:77-84, 139-144)
\* removes that element and no other, and duplicates none.
LEMMA UnlinkSet ==
  ASSUME NEW S, NEW s \in Seq(S), IsInjective(s), NEW a \in ToSet(s)
  PROVE  /\ Unlink(s, a) \in Seq(S)
         /\ IsInjective(Unlink(s, a))
         /\ ToSet(Unlink(s, a)) = ToSet(s) \ {a}
<1> DEFINE i == CHOOSE j \in DOMAIN s : s[j] = a
           t == RemoveAt(s, i)
<1>1. DOMAIN s = 1 .. Len(s) /\ Len(s) \in Nat
  OBVIOUS
<1>2. i \in 1 .. Len(s) /\ s[i] = a
  BY <1>1 DEF ToSet
<1>3. /\ t \in Seq(S)
      /\ Len(t) = Len(s) - 1
      /\ \A j \in 1 .. Len(t) : t[j] = IF j < i THEN s[j] ELSE s[j + 1]
  <2> DEFINE u == SubSeq(s, 1, i - 1)  v == SubSeq(s, i + 1, Len(s))
  <2>1. /\ u \in Seq(S)
        /\ Len(u) = i - 1
        /\ \A j \in 1 .. i - 1 : u[j] = s[j]
    BY <1>1, <1>2
  <2>2. /\ v \in Seq(S)
        /\ Len(v) = Len(s) - i
        /\ \A j \in 1 .. Len(s) - i : v[j] = s[j + i]
    BY <1>1, <1>2
  <2> HIDE DEF i, u, v
  <2>3. /\ u \o v \in Seq(S)
        /\ Len(u \o v) = Len(u) + Len(v)
        /\ \A j \in 1 .. Len(u) + Len(v) :
             (u \o v)[j] = IF j <= Len(u) THEN u[j] ELSE v[j - Len(u)]
    BY <2>1, <2>2, ConcatProperties
  <2>4. t = u \o v
    BY DEF RemoveAt, u, v
  <2> HIDE DEF t
  <2>5. Len(t) = Len(s) - 1
    <3>1. Len(t) = Len(u) + Len(v)
      BY <2>3, <2>4
    <3>2. Len(u) = i - 1 /\ Len(v) = Len(s) - i
      BY <2>1, <2>2
    <3>3. i \in Int /\ Len(s) \in Int
      BY <1>1, <1>2
    <3> QED BY <3>1, <3>2, <3>3
  <2>6. ASSUME NEW j \in 1 .. Len(t)
        PROVE  t[j] = IF j < i THEN s[j] ELSE s[j + 1]
    <3>1. CASE j < i
      <4>1. j \in 1 .. Len(u) + Len(v) /\ j \in 1 .. i - 1 /\ j <= Len(u)
        BY <1>1, <1>2, <2>1, <2>2, <2>5, <3>1
      <4>2. (u \o v)[j] = u[j]
        BY <2>3, <4>1
      <4> QED BY <2>1, <2>4, <3>1, <4>1, <4>2
    <3>2. CASE j >= i
      <4>1. t[j] = v[j - (i - 1)]
        BY <1>1, <1>2, <2>1, <2>2, <2>3, <2>4, <2>5, <3>2
      <4>2. j - (i - 1) \in 1 .. Len(s) - i /\ (j - (i - 1)) + i = j + 1
        BY <1>1, <1>2, <2>5, <3>2
      <4> QED BY <1>1, <1>2, <2>2, <3>2, <4>1, <4>2
    <3> QED BY <1>2, <2>5, <3>1, <3>2
  <2> QED BY <2>3, <2>4, <2>5, <2>6
<1>4. Unlink(s, a) = t
  BY DEF Unlink
<1> HIDE DEF i, t
<1>5. DOMAIN t = 1 .. Len(s) - 1
  BY <1>1, <1>3
<1>6. IsInjective(t)
  <2>1. SUFFICES ASSUME NEW j \in 1 .. Len(s) - 1, NEW k \in 1 .. Len(s) - 1,
                        t[j] = t[k]
                 PROVE  j = k
    BY <1>5 DEF IsInjective
  <2> DEFINE from(n) == IF n < i THEN n ELSE n + 1
  <2>2. /\ from(j) \in 1 .. Len(s) /\ t[j] = s[from(j)]
        /\ from(k) \in 1 .. Len(s) /\ t[k] = s[from(k)]
    BY <1>1, <1>2, <1>3
  <2>3. from(j) = from(k)
    BY <1>1, <2>1, <2>2 DEF IsInjective
  <2> QED BY <1>2, <2>3
<1>7. ToSet(t) \subseteq ToSet(s) \ {a}
  <2>1. SUFFICES ASSUME NEW j \in 1 .. Len(s) - 1
                 PROVE  t[j] \in ToSet(s) /\ t[j] # a
    BY <1>5 DEF ToSet
  <2> DEFINE from == IF j < i THEN j ELSE j + 1
  <2>2. from \in 1 .. Len(s) /\ from # i /\ t[j] = s[from]
    BY <1>1, <1>2, <1>3
  <2> QED BY <1>1, <1>2, <2>2 DEF ToSet, IsInjective
<1>8. ASSUME NEW b \in ToSet(s), b # a
      PROVE  b \in ToSet(t)
  <2>1. PICK j \in 1 .. Len(s) : s[j] = b
    BY <1>1 DEF ToSet
  <2>2. CASE j < i
    <3>1. j \in 1 .. Len(s) - 1 /\ t[j] = s[j]
      BY <1>1, <1>2, <1>3, <2>1, <2>2
    <3> QED BY <1>5, <2>1, <3>1 DEF ToSet
  <2>3. CASE j > i
    <3>1. j - 1 \in 1 .. Len(s) - 1 /\ t[j - 1] = s[j]
      BY <1>1, <1>2, <1>3, <2>1, <2>3
    <3> QED BY <1>5, <2>1, <3>1 DEF ToSet
  <2> QED BY <1>1, <1>2, <1>8, <2>1, <2>2, <2>3
<1> QED BY <1>3, <1>4, <1>6, <1>7, <1>8

\* Pushing a new slot on the head of a list (alloc.c:91-93, 99-100, 188-189).
LEMMA PushSet ==
  ASSUME NEW S, NEW s \in Seq(S), IsInjective(s), NEW a \in S, a \notin ToSet(s)
  PROVE  /\ <<a>> \o s \in Seq(S)
         /\ IsInjective(<<a>> \o s)
         /\ ToSet(<<a>> \o s) = ToSet(s) \cup {a}
<1> DEFINE t == <<a>> \o s
<1>1. DOMAIN s = 1 .. Len(s) /\ Len(s) \in Nat
  OBVIOUS
<1>2. /\ t \in Seq(S)
      /\ DOMAIN t = 1 .. Len(s) + 1
      /\ t[1] = a
      /\ \A j \in 2 .. Len(s) + 1 : t[j] = s[j - 1]
  BY <1>1
<1> HIDE DEF t
<1>3. IsInjective(t)
  <2>1. SUFFICES ASSUME NEW j \in 1 .. Len(s) + 1, NEW k \in 1 .. Len(s) + 1,
                        t[j] = t[k]
                 PROVE  j = k
    BY <1>2 DEF IsInjective
  <2>2. \A n \in 2 .. Len(s) + 1 : n - 1 \in DOMAIN s /\ t[n] = s[n - 1] /\ t[n] # a
    BY <1>1, <1>2 DEF ToSet
  <2>3. CASE j = 1 \/ k = 1
    BY <1>1, <1>2, <2>1, <2>2, <2>3
  <2>4. CASE j # 1 /\ k # 1
    <3>1. j \in 2 .. Len(s) + 1 /\ k \in 2 .. Len(s) + 1
      BY <1>1, <2>4
    <3>2. j - 1 = k - 1
      BY <2>1, <2>2, <3>1 DEF IsInjective
    <3> QED BY <3>1, <3>2
  <2> QED BY <2>3, <2>4
<1>4. ToSet(t) \subseteq ToSet(s) \cup {a}
  BY <1>1, <1>2 DEF ToSet
<1>5. a \in ToSet(t)
  BY <1>1, <1>2 DEF ToSet
<1>6. ASSUME NEW b \in ToSet(s)
      PROVE  b \in ToSet(t)
  <2>1. PICK j \in 1 .. Len(s) : s[j] = b
    BY <1>1 DEF ToSet
  <2>2. j + 1 \in 2 .. Len(s) + 1 /\ t[j + 1] = b
    BY <1>1, <1>2, <2>1
  <2> QED BY <1>1, <1>2, <2>2 DEF ToSet
<1> QED BY <1>2, <1>3, <1>4, <1>5, <1>6 DEF t

-----------------------------------------------------------------------------
(* The tiling: a set S of header addresses with length fields L              *)

SlotEnd(L, a) == a + Hdr + L[a]

Tiling(S, L) ==
  /\ S \subseteq Addresses
  /\ L \in [S -> Nat]
  /\ \A a \in S : First <= a /\ SlotEnd(L, a) <= RegionEnd
  /\ \A a, b \in S : a # b => SlotEnd(L, a) <= b \/ SlotEnd(L, b) <= a
  /\ First \in S
  /\ \A a \in S : SlotEnd(L, a) = RegionEnd \/ SlotEnd(L, a) \in S

LEMMA TilingFacts ==
  ASSUME NEW S, NEW L, Tiling(S, L)
  PROVE  /\ First \in Nat /\ RegionEnd \in Nat
         /\ \A a \in S : /\ a \in Nat /\ L[a] \in Nat /\ SlotEnd(L, a) \in Nat
                         /\ a + Hdr <= SlotEnd(L, a)
                         /\ First <= a /\ SlotEnd(L, a) <= RegionEnd
<1>1. Base \in Nat /\ Length \in Nat
  BY RegionAssumption
<1>2. First \in Nat /\ RegionEnd \in Nat /\ Addresses \subseteq Nat
  BY <1>1 DEF RegionEnd, First, Addresses, Word
<1>3. ASSUME NEW a \in S
      PROVE  /\ a \in Nat /\ L[a] \in Nat /\ SlotEnd(L, a) \in Nat
             /\ a + Hdr <= SlotEnd(L, a)
  <2>1. a \in Nat /\ L[a] \in Nat
    BY <1>2 DEF Tiling
  <2> QED BY <2>1 DEF SlotEnd, Hdr
<1> QED BY <1>2, <1>3 DEF Tiling

\* An address range for membership in Addresses.
LEMMA InRegion ==
  ASSUME NEW a \in Nat, First <= a, a <= RegionEnd
  PROVE  a \in Addresses
BY RegionAssumption DEF First, RegionEnd, Addresses, Word

\* Splitting a slot that is at least a header longer than the request
\* (alloc.c:88-96) keeps the tiling.
LEMMA SplitTiling ==
  ASSUME NEW S, NEW L, Tiling(S, L),
         NEW p \in S, NEW size \in Nat, L[p] >= size + Hdr,
         NEW k, k = p + Hdr + size,
         NEW M, M = [a \in S \cup {k} |->
                       IF a = k THEN L[p] - size - Hdr
                                ELSE IF a = p THEN size ELSE L[a]]
  PROVE  k \notin S /\ Tiling(S \cup {k}, M)
<1> DEFINE T == S \cup {k}
<1>1. /\ First \in Nat /\ RegionEnd \in Nat
      /\ p \in Nat /\ L[p] \in Nat /\ k \in Nat
      /\ \A a \in S : /\ a \in Nat /\ L[a] \in Nat /\ SlotEnd(L, a) \in Nat
                      /\ a + Hdr <= SlotEnd(L, a)
                      /\ First <= a /\ SlotEnd(L, a) <= RegionEnd
  BY TilingFacts DEF Hdr
<1>2. p < k /\ k + Hdr <= SlotEnd(L, p)
  BY <1>1 DEF SlotEnd, Hdr
<1>3. \A b \in S : b # p => SlotEnd(L, b) <= p \/ SlotEnd(L, p) <= b
  BY DEF Tiling
<1>4. k \notin S
  BY <1>1, <1>2, <1>3 DEF Hdr
<1>5. First <= k /\ k <= RegionEnd
  BY <1>1, <1>2 DEF Hdr
<1>6. k \in Addresses
  BY <1>1, <1>5, InRegion
<1>7. /\ M[k] = L[p] - size - Hdr /\ M[p] = size
      /\ \A a \in S : a # p => M[a] = L[a]
      /\ DOMAIN M = T
  BY <1>4
<1>8. M[k] \in Nat
  BY <1>1, <1>7 DEF Hdr
<1>9. M \in [T -> Nat]
  BY <1>1, <1>8
<1>10. /\ SlotEnd(M, p) = k
       /\ SlotEnd(M, k) = SlotEnd(L, p)
       /\ \A a \in S : a # p => SlotEnd(M, a) = SlotEnd(L, a)
  BY <1>1, <1>7 DEF SlotEnd, Hdr
<1>11. \A a \in T : First <= a /\ SlotEnd(M, a) <= RegionEnd
  BY <1>1, <1>5, <1>10
<1>12. ASSUME NEW a \in T, NEW b \in T, a # b
       PROVE  SlotEnd(M, a) <= b \/ SlotEnd(M, b) <= a
  <2>1. CASE a \in S \ {p} /\ b \in S \ {p}
    BY <1>10, <1>12, <2>1 DEF Tiling
  <2>2. ASSUME NEW c \in S \ {p}
        PROVE  /\ SlotEnd(M, c) <= p \/ SlotEnd(M, p) <= c
               /\ SlotEnd(M, c) <= k \/ SlotEnd(M, k) <= c
    BY <1>1, <1>2, <1>3, <1>10 DEF Hdr
  <2>3. SlotEnd(M, p) <= k
    BY <1>1, <1>10
  <2> QED BY <1>12, <2>1, <2>2, <2>3
<1>13. \A a \in T : SlotEnd(M, a) = RegionEnd \/ SlotEnd(M, a) \in T
  BY <1>10 DEF Tiling
<1> QED BY <1>4, <1>6, <1>9, <1>11, <1>12, <1>13 DEF Tiling

\* Merging a slot onto the slot that ends where it starts (alloc.c:165, 176)
\* keeps the tiling.
LEMMA MergeTiling ==
  ASSUME NEW S, NEW L, Tiling(S, L),
         NEW p \in S, NEW q \in S, SlotEnd(L, p) = q,
         NEW M, M = [a \in S \ {q} |-> IF a = p THEN L[p] + Hdr + L[q] ELSE L[a]]
  PROVE  Tiling(S \ {q}, M)
<1> DEFINE T == S \ {q}
<1>1. /\ First \in Nat /\ RegionEnd \in Nat
      /\ \A a \in S : /\ a \in Nat /\ L[a] \in Nat /\ SlotEnd(L, a) \in Nat
                      /\ a + Hdr <= SlotEnd(L, a)
                      /\ First <= a /\ SlotEnd(L, a) <= RegionEnd
  BY TilingFacts
<1>2. p # q /\ p < q
  BY <1>1 DEF Hdr
<1>3. /\ DOMAIN M = T
      /\ M[p] = L[p] + Hdr + L[q]
      /\ \A a \in T : a # p => M[a] = L[a]
  BY <1>2
<1>4. M \in [T -> Nat]
  BY <1>1, <1>3 DEF Hdr
<1>5. /\ SlotEnd(M, p) = SlotEnd(L, q)
      /\ \A a \in T : a # p => SlotEnd(M, a) = SlotEnd(L, a)
  BY <1>1, <1>3 DEF SlotEnd, Hdr
<1>6. \A a \in T : First <= a /\ SlotEnd(M, a) <= RegionEnd
  BY <1>1, <1>5
<1>7. ASSUME NEW a \in T, NEW b \in T, a # b
      PROVE  SlotEnd(M, a) <= b \/ SlotEnd(M, b) <= a
  <2>1. \A c, d \in S : c # d => SlotEnd(L, c) <= d \/ SlotEnd(L, d) <= c
    BY DEF Tiling
  <2>2. CASE a # p /\ b # p
    BY <1>5, <1>7, <2>1, <2>2
  <2>3. ASSUME NEW c \in T, c # p
        PROVE  SlotEnd(M, c) <= p \/ SlotEnd(M, p) <= c
    <3>1. SlotEnd(L, c) <= p \/ SlotEnd(L, p) <= c
      BY <2>1, <2>3
    <3>2. SlotEnd(L, c) <= q \/ SlotEnd(L, q) <= c
      BY <2>1
    <3>3. c \in Nat /\ p \in Nat /\ q \in Nat /\ c + Hdr <= SlotEnd(L, c) /\ c # q
          /\ SlotEnd(L, c) \in Nat
      BY <1>1
    <3> QED BY <1>5, <2>3, <3>1, <3>2, <3>3 DEF Hdr
  <2> QED BY <1>7, <2>2, <2>3
<1>8. First \in T
  BY <1>1, <1>2 DEF Tiling
<1>9. ASSUME NEW a \in T
      PROVE  SlotEnd(M, a) = RegionEnd \/ SlotEnd(M, a) \in T
  <2>1. CASE a = p
    <3>1. SlotEnd(L, q) # q
      BY <1>1 DEF Hdr
    <3> QED BY <1>5, <2>1, <3>1 DEF Tiling
  <2>2. CASE a # p
    <3>1. SlotEnd(L, a) # q
      <4>1. SlotEnd(L, a) <= p \/ SlotEnd(L, p) <= a
        BY <2>2 DEF Tiling
      <4> QED BY <1>1, <1>2, <4>1 DEF Hdr
    <3> QED BY <1>5, <2>2, <3>1 DEF Tiling
  <2> QED BY <2>1, <2>2
<1> QED BY <1>4, <1>6, <1>7, <1>8, <1>9 DEF Tiling

-----------------------------------------------------------------------------
(* The inductive invariant                                                   *)

\* Two lists without duplicates or common elements, whose slots tile the region
\* and of whose free slots no two are adjacent.
Shape(fl, ul, L) ==
  /\ fl \in Seq(Addresses) /\ ul \in Seq(Addresses)
  /\ IsInjective(fl) /\ IsInjective(ul)
  /\ ToSet(fl) \cap ToSet(ul) = {}
  /\ Tiling(ToSet(fl) \cup ToSet(ul), L)
  /\ \A a, b \in ToSet(fl) : SlotEnd(L, a) # b

IInv ==
  /\ inited \in BOOLEAN
  /\ ret \in Addresses \cup {NULL}
  /\ inited => Shape(freelist, usedlist, len)
  /\ ~inited => freelist = << >> /\ usedlist = << >> /\ len = << >>
  /\ WordAligned

\* alloc.c:58-59 makes a request a whole number of words, at most three bytes
\* longer.
LEMMA RoundUpBounds ==
  ASSUME NEW size \in Nat
  PROVE  /\ RoundUp(size) \in Nat
         /\ size <= RoundUp(size) /\ RoundUp(size) <= size + Word - 1
         /\ RoundUp(size) % Word = 0
BY DEF RoundUp, Word

\* kalloc_init (alloc.c:27-51) leaves one free slot of all the memory.
LEMMA InitShape ==
  ASSUME KallocInit
  PROVE  Shape(freelist', usedlist', len')
<1>1. /\ freelist' = <<First>> /\ usedlist' = << >>
      /\ len' = [a \in {First} |-> Length - 2 * Word - Hdr]
  BY DEF KallocInit
<1>2. ToSet(freelist') = {First} /\ ToSet(usedlist') = {}
  BY <1>1 DEF ToSet
<1>3. /\ Base \in Nat /\ Length \in Nat
      /\ First \in Nat /\ RegionEnd \in Nat /\ First <= RegionEnd
      /\ Length - 2 * Word - Hdr \in Nat
      /\ First + Hdr + (Length - 2 * Word - Hdr) = RegionEnd
  BY RegionAssumption DEF First, RegionEnd, Word, Hdr
<1>4. First \in Addresses
  BY <1>3, InRegion
<1>5. SlotEnd(len', First) = RegionEnd /\ RegionEnd # First
  BY <1>1, <1>3 DEF SlotEnd, Hdr
<1>6. Tiling({First}, len')
  BY <1>1, <1>3, <1>4, <1>5 DEF Tiling
<1>7. /\ freelist' \in Seq(Addresses) /\ usedlist' \in Seq(Addresses)
      /\ IsInjective(freelist') /\ IsInjective(usedlist')
  BY <1>1, <1>4 DEF IsInjective
<1> QED BY <1>2, <1>5, <1>6, <1>7 DEF Shape

\* A successful kalloc (alloc.c:53-103) keeps the shape, and answers with an
\* address of the region.
LEMMA KallocShape ==
  ASSUME IInv, NEW size \in Nat, KallocSucceeds(size)
  PROVE  /\ Shape(freelist', usedlist', len')
         /\ ret' \in Addresses
         /\ \A a \in Slots' : a \in Slots \/ \E p \in Slots : a = p + Hdr + RoundUp(size)
         /\ \E p \in ToSet(freelist) :
              /\ ToSet(usedlist') = ToSet(usedlist) \cup {p}
              /\ ret' = p + Hdr /\ len'[p] = RoundUp(size)
              /\ len[p] >= RoundUp(size) + Hdr
              /\ \A a \in ToSet(usedlist) : len'[a] = len[a]
<1> DEFINE n == RoundUp(size)
           F == ToSet(freelist)
           U == ToSet(usedlist)
<1>1. n \in Nat
  BY RoundUpBounds
<1>2. Shape(freelist, usedlist, len)
  BY DEF IInv, KallocSucceeds
<1>3. PICK i \in Fits(n) : Split(freelist[i], n)
  BY DEF KallocSucceeds
<1> DEFINE p == freelist[i]
           k == p + Hdr + n
<1>4. p \in F /\ len[p] >= n + Hdr
  BY <1>3 DEF Fits, ToSet
<1>5. Split(p, n)
  BY <1>3
<1> HIDE DEF n, p
<1>6. Tiling(F \cup U, len) /\ F \cap U = {}
  BY <1>2 DEF Shape
<1>7. DOMAIN len = F \cup U
  BY <1>6 DEF Tiling
<1>8. /\ freelist' = <<k>> \o Unlink(freelist, p)
      /\ usedlist' = <<p>> \o usedlist
      /\ len' = [a \in (F \cup U) \cup {k} |->
                   IF a = k THEN len[p] - n - Hdr ELSE IF a = p THEN n ELSE len[a]]
      /\ ret' = p + Hdr
  BY <1>4, <1>5, <1>7 DEF Split, Larger, LeftOver
<1>9. k \notin F \cup U /\ Tiling((F \cup U) \cup {k}, len')
  <2> DEFINE S == F \cup U
  <2>1. /\ Tiling(S, len) /\ p \in S /\ k = p + Hdr + n
        /\ len' = [a \in S \cup {k} |->
                     IF a = k THEN len[p] - n - Hdr ELSE IF a = p THEN n ELSE len[a]]
    BY <1>4, <1>6, <1>8
  <2> HIDE DEF S, k
  <2>2. k \notin S /\ Tiling(S \cup {k}, len')
    BY <1>1, <1>4, <2>1, SplitTiling
  <2> QED BY <2>2 DEF S
<1>10. /\ Unlink(freelist, p) \in Seq(Addresses)
       /\ IsInjective(Unlink(freelist, p))
       /\ ToSet(Unlink(freelist, p)) = F \ {p}
  BY <1>2, <1>4, UnlinkSet DEF Shape
<1>11. /\ freelist' \in Seq(Addresses)
       /\ IsInjective(freelist')
       /\ ToSet(freelist') = (F \ {p}) \cup {k}
  <2>1. k \in Addresses /\ k \notin ToSet(Unlink(freelist, p))
    BY <1>9, <1>10 DEF Tiling
  <2> HIDE DEF k
  <2> QED BY <1>8, <1>10, <2>1, PushSet
<1>12. /\ usedlist' \in Seq(Addresses)
       /\ IsInjective(usedlist')
       /\ ToSet(usedlist') = U \cup {p}
  <2>1. p \in Addresses /\ p \notin U
    BY <1>4, <1>6 DEF Tiling
  <2> QED BY <1>2, <1>8, <2>1, PushSet DEF Shape
<1>13. ToSet(freelist') \cup ToSet(usedlist') = (F \cup U) \cup {k}
  BY <1>4, <1>11, <1>12
<1>14. ToSet(freelist') \cap ToSet(usedlist') = {}
  BY <1>4, <1>6, <1>9, <1>11, <1>12
<1>15. \A a, b \in ToSet(freelist') : SlotEnd(len', a) # b
  <2>1. \A a, b \in F : SlotEnd(len, a) # b
    BY <1>2 DEF Shape
  <2>2. /\ \A a \in F \cup U : a # p => SlotEnd(len', a) = SlotEnd(len, a)
        /\ \A a \in F \cup U : /\ a \in Nat /\ len[a] \in Nat
                               /\ SlotEnd(len, a) \in Nat
                               /\ a + Hdr <= SlotEnd(len, a)
    BY <1>6, <1>8, <1>9, TilingFacts DEF SlotEnd
  <2>3. /\ SlotEnd(len', k) = SlotEnd(len, p)
        /\ p < k /\ k < SlotEnd(len, p) /\ k \in Nat
    <3>1. /\ p \in Nat /\ len[p] \in Nat /\ SlotEnd(len, p) = p + Hdr + len[p]
      BY <1>4, <2>2 DEF SlotEnd
    <3>2. len'[k] = len[p] - n - Hdr /\ SlotEnd(len', k) = k + Hdr + len'[k]
      BY <1>8 DEF SlotEnd
    <3> QED BY <1>1, <1>4, <3>1, <3>2 DEF Hdr
  <2>4. \A a \in F \ {p} : SlotEnd(len, a) <= p \/ SlotEnd(len, p) <= a
    BY <1>4, <1>6 DEF Tiling
  <2>5. \A a \in F \ {p} : SlotEnd(len', a) # k
    BY <1>4, <2>2, <2>3, <2>4 DEF Hdr
  <2>6. SlotEnd(len', k) # k
    BY <2>3
  <2> HIDE DEF k
  <2> QED BY <1>4, <1>11, <2>1, <2>2, <2>3, <2>5, <2>6
<1>16. ret' \in Addresses
  <2>1. /\ p \in Nat /\ First \in Nat /\ RegionEnd \in Nat
        /\ First <= p /\ p + Hdr <= RegionEnd
    BY <1>4, <1>6, TilingFacts DEF Hdr
  <2>2. p + Hdr \in Nat /\ First <= p + Hdr
    BY <2>1 DEF Hdr
  <2> QED BY <1>8, <2>1, <2>2, InRegion
<1>17. \A a \in Slots' : a \in Slots \/ \E q \in Slots : a = q + Hdr + RoundUp(size)
  BY <1>4, <1>13 DEF Slots, n
<1>18. len'[p] = n /\ \A a \in U : len'[a] = len[a]
  BY <1>4, <1>6, <1>8, <1>9
<1>19. \E q \in ToSet(freelist) :
         /\ ToSet(usedlist') = ToSet(usedlist) \cup {q}
         /\ ret' = q + Hdr /\ len'[q] = RoundUp(size)
         /\ len[q] >= RoundUp(size) + Hdr
         /\ \A a \in ToSet(usedlist) : len'[a] = len[a]
  BY <1>4, <1>8, <1>12, <1>18 DEF n
<1> QED BY <1>9, <1>11, <1>12, <1>13, <1>14, <1>15, <1>16, <1>17, <1>19 DEF Shape

\* A successful kfree (alloc.c:106-193) keeps the shape, in each of the four
\* cases of the free neighbours.
LEMMA KfreeShape ==
  ASSUME IInv, NEW slot, Kfree(slot)
  PROVE  /\ Shape(freelist', usedlist', len')
         /\ Slots' \subseteq Slots
         /\ ToSet(usedlist') = ToSet(usedlist) \ {slot - Hdr}
         /\ \A a \in ToSet(usedlist') : len'[a] = len[a]
<1> DEFINE f == slot - Hdr
           F == ToSet(freelist)
           U == ToSet(usedlist)
           S == F \cup U
           b == CHOOSE a \in Before(f) : TRUE
           n == CHOOSE a \in After(f) : TRUE
<1>1. Shape(freelist, usedlist, len) /\ f \in U /\ Release(f)
  BY DEF IInv, Kfree
<1> HIDE DEF f
<1>2. /\ Tiling(S, len) /\ F \cap U = {} /\ f \in S /\ f \notin F
      /\ \A a, c \in F : SlotEnd(len, a) # c
  BY <1>1 DEF Shape
<1>3. DOMAIN len = S
  BY <1>2 DEF Tiling
<1>4. \A a \in S : /\ a \in Nat /\ len[a] \in Nat /\ SlotEnd(len, a) \in Nat
                   /\ a + Hdr <= SlotEnd(len, a)
  BY <1>2, TilingFacts
<1>5. \A a : BlockEnd(a) = SlotEnd(len, a)
  BY DEF BlockEnd, SlotEnd
<1>6. Before(f) # {} => b \in F /\ SlotEnd(len, b) = f
  BY <1>5 DEF Before
<1>7. After(f) # {} => n \in F /\ SlotEnd(len, f) = n
  BY <1>5 DEF After
<1>8. Before(f) = {} => \A a \in F : SlotEnd(len, a) # f
  BY <1>5 DEF Before
<1>9. After(f) = {} => \A a \in F : SlotEnd(len, f) # a
  <2>1. ASSUME NEW a \in F, SlotEnd(len, f) = a
        PROVE  SlotEnd(len, a) # f
    BY <1>2, <1>4, <2>1 DEF Hdr
  <2> QED BY <1>5, <2>1 DEF After
<1>10. /\ usedlist' = Unlink(usedlist, f)
       /\ usedlist' \in Seq(Addresses) /\ IsInjective(usedlist')
       /\ ToSet(usedlist') = U \ {f}
  BY <1>1, UnlinkSet DEF Release, Shape
<1>11. /\ freelist \in Seq(Addresses) /\ IsInjective(freelist)
       /\ f \in Addresses
  BY <1>1, <1>2 DEF Shape, Tiling
<1>12. After(f) # {} => /\ Unlink(freelist, n) \in Seq(Addresses)
                        /\ IsInjective(Unlink(freelist, n))
                        /\ ToSet(Unlink(freelist, n)) = F \ {n}
  BY <1>7, <1>11, UnlinkSet
<1>13. /\ freelist' = IF Before(f) # {}
                       THEN IF After(f) # {} THEN Unlink(freelist, n) ELSE freelist
                       ELSE <<f>> \o IF After(f) # {} THEN Unlink(freelist, n) ELSE freelist
       /\ len' = [a \in S \ ((IF Before(f) # {} THEN {f} ELSE {}) \cup
                             (IF After(f) # {} THEN {n} ELSE {})) |->
                    IF a = (IF Before(f) # {} THEN b ELSE f)
                    THEN (IF Before(f) # {} THEN len[b] + Hdr ELSE 0) + len[f] +
                         (IF After(f) # {} THEN Hdr + len[n] ELSE 0)
                    ELSE len[a]]
  BY <1>1, <1>3 DEF Release, Others, Adds
<1> HIDE DEF b, n, F, U
<1>14. ASSUME Before(f) = {} /\ After(f) = {}
       PROVE  Shape(freelist', usedlist', len') /\ Slots' \subseteq Slots
  <2>1. freelist' = <<f>> \o freelist
    BY <1>14, <1>13
  <2>2. len' = [a \in S |-> IF a = f THEN 0 + len[f] + 0 ELSE len[a]]
    BY <1>14, <1>13
  <2>3. len' = len
    BY <1>2, <1>3, <1>4, <2>2 DEF Tiling
  <2>4. /\ freelist' \in Seq(Addresses) /\ IsInjective(freelist')
        /\ ToSet(freelist') = F \cup {f}
    BY <1>2, <1>11, <2>1, PushSet DEF F
  <2>5. ToSet(freelist') \cup ToSet(usedlist') = S
    BY <1>1, <1>10, <2>4
  <2>6. \A a, c \in F \cup {f} : SlotEnd(len, a) # c
    BY <1>2, <1>4, <1>8, <1>9, <1>14 DEF Hdr
  <2>7. ToSet(freelist') \cap ToSet(usedlist') = {}
    BY <1>2, <1>10, <2>4
  <2> QED BY <1>2, <1>10, <2>3, <2>4, <2>5, <2>6, <2>7 DEF Shape, F, U, Slots
<1>15. ASSUME Before(f) # {} /\ After(f) = {}
       PROVE  Shape(freelist', usedlist', len') /\ Slots' \subseteq Slots
  <2>1. freelist' = freelist
    BY <1>15, <1>13
  <2>2. len' = [a \in S \ {f} |-> IF a = b THEN len[b] + Hdr + len[f] ELSE len[a]]
    <3>1. len' = [a \in S \ {f} |-> IF a = b THEN len[b] + Hdr + len[f] + 0 ELSE len[a]]
      BY <1>15, <1>13
    <3>2. len[b] + Hdr + len[f] + 0 = len[b] + Hdr + len[f]
      BY <1>2, <1>4, <1>6, <1>15 DEF Hdr
    <3> QED BY <3>1, <3>2
  <2>3. b \in S /\ b # f /\ b \in F /\ SlotEnd(len, b) = f
    BY <1>2, <1>6, <1>15
  <2>4. Tiling(S \ {f}, len')
    <3> HIDE DEF S
    <3> QED BY <1>2, <2>2, <2>3, MergeTiling
  <2>5. ToSet(freelist') \cup ToSet(usedlist') = S \ {f}
    BY <1>2, <1>10, <2>1 DEF F
  <2>6. /\ SlotEnd(len', b) = SlotEnd(len, f)
        /\ \A a \in F : a # b => SlotEnd(len', a) = SlotEnd(len, a)
    <3>1. /\ len'[b] = len[b] + Hdr + len[f]
          /\ \A a \in F : a # b => len'[a] = len[a]
      BY <1>2, <2>2, <2>3
    <3> QED BY <1>2, <1>4, <2>3, <3>1 DEF SlotEnd, Hdr
  <2>7. \A a, c \in F : SlotEnd(len', a) # c
    BY <1>2, <1>9, <1>15, <2>3, <2>6
  <2>8. ToSet(freelist') \cap ToSet(usedlist') = {}
    BY <1>2, <1>10, <2>1 DEF F
  <2> QED BY <1>10, <1>11, <2>1, <2>4, <2>5, <2>7, <2>8 DEF Shape, F, U, Slots
<1>16. ASSUME Before(f) = {} /\ After(f) # {}
       PROVE  Shape(freelist', usedlist', len') /\ Slots' \subseteq Slots
  <2>1. freelist' = <<f>> \o Unlink(freelist, n)
    BY <1>16, <1>13
  <2>2. len' = [a \in S \ {n} |-> IF a = f THEN len[f] + Hdr + len[n] ELSE len[a]]
    <3>1. len' = [a \in S \ {n} |-> IF a = f THEN 0 + len[f] + (Hdr + len[n]) ELSE len[a]]
      BY <1>16, <1>13
    <3>2. 0 + len[f] + (Hdr + len[n]) = len[f] + Hdr + len[n]
      BY <1>2, <1>4, <1>7, <1>16 DEF Hdr
    <3> QED BY <3>1, <3>2
  <2>3. n \in S /\ n # f /\ n \in F /\ SlotEnd(len, f) = n
    BY <1>2, <1>7, <1>16
  <2>4. Tiling(S \ {n}, len')
    <3> HIDE DEF S
    <3> QED BY <1>2, <2>2, <2>3, MergeTiling
  <2>5. /\ freelist' \in Seq(Addresses) /\ IsInjective(freelist')
        /\ ToSet(freelist') = (F \ {n}) \cup {f}
    <3>1. f \notin ToSet(Unlink(freelist, n))
      BY <1>2, <1>12, <1>16
    <3> QED BY <1>11, <1>12, <1>16, <2>1, <3>1, PushSet
  <2>6. ToSet(freelist') \cup ToSet(usedlist') = S \ {n}
    BY <1>2, <1>10, <2>3, <2>5
  <2>7. /\ SlotEnd(len', f) = SlotEnd(len, n)
        /\ \A a \in F \ {n} : SlotEnd(len', a) = SlotEnd(len, a)
    <3>1. /\ len'[f] = len[f] + Hdr + len[n]
          /\ \A a \in F \ {n} : len'[a] = len[a]
      BY <1>2, <2>2, <2>3
    <3> QED BY <1>2, <1>4, <2>3, <3>1 DEF SlotEnd, Hdr
  <2>8. \A a, c \in (F \ {n}) \cup {f} : SlotEnd(len', a) # c
    <3>1. SlotEnd(len, n) # f
      BY <1>2, <1>4, <2>3 DEF Hdr
    <3> QED BY <1>2, <1>8, <1>16, <2>3, <2>7, <3>1
  <2>9. ToSet(freelist') \cap ToSet(usedlist') = {}
    BY <1>2, <1>10, <2>5
  <2> QED BY <1>10, <2>4, <2>5, <2>6, <2>8, <2>9 DEF Shape, F, U, Slots
<1>17. ASSUME Before(f) # {} /\ After(f) # {}
       PROVE  Shape(freelist', usedlist', len') /\ Slots' \subseteq Slots
  <2>1. freelist' = Unlink(freelist, n)
    BY <1>17, <1>13
  <2> DEFINE M == [a \in S \ {f} |-> IF a = b THEN len[b] + Hdr + len[f] ELSE len[a]]
  <2>2. /\ b \in S /\ b # f /\ b \in F /\ SlotEnd(len, b) = f
        /\ n \in S /\ n # f /\ n \in F /\ SlotEnd(len, f) = n
        /\ n # b
    BY <1>2, <1>4, <1>6, <1>7, <1>17 DEF Hdr
  <2>3. /\ M[b] = len[b] + Hdr + len[f] /\ M[n] = len[n]
        /\ \A a \in S \ {f} : a # b => M[a] = len[a]
        /\ M = [a \in S \ {f} |-> IF a = b THEN len[b] + Hdr + len[f] ELSE len[a]]
    BY <2>2
  <2>4. /\ b \in Nat /\ f \in Nat /\ n \in Nat
        /\ len[b] \in Nat /\ len[f] \in Nat /\ len[n] \in Nat
    BY <1>2, <1>4, <2>2
  <2> HIDE DEF M
  <2>5. len' = [a \in (S \ {f}) \ {n} |-> IF a = b THEN M[b] + Hdr + M[n] ELSE M[a]]
    <3>1. len' = [a \in S \ ({f} \cup {n}) |->
                    IF a = b THEN len[b] + Hdr + len[f] + (Hdr + len[n]) ELSE len[a]]
      BY <1>17, <1>13
    <3>2. len[b] + Hdr + len[f] + (Hdr + len[n]) = M[b] + Hdr + M[n]
      BY <2>3, <2>4 DEF Hdr
    <3>3. S \ ({f} \cup {n}) = (S \ {f}) \ {n}
      OBVIOUS
    <3> HIDE DEF S
    <3> QED BY <2>3, <3>1, <3>2, <3>3
  <2>6. Tiling(S \ {f}, M)
    <3> HIDE DEF S
    <3> QED BY <1>2, <2>2, <2>3, MergeTiling
  <2>7. SlotEnd(M, b) = n
    BY <2>2, <2>3, <2>4 DEF SlotEnd, Hdr
  <2>8. Tiling((S \ {f}) \ {n}, len')
    <3> DEFINE T == S \ {f}
    <3>1. b \in T /\ n \in T /\ Tiling(T, M)
          /\ len' = [a \in T \ {n} |-> IF a = b THEN M[b] + Hdr + M[n] ELSE M[a]]
      BY <2>2, <2>5, <2>6
    <3> HIDE DEF T
    <3>2. Tiling(T \ {n}, len')
      BY <2>7, <3>1, MergeTiling
    <3> QED BY <3>2 DEF T
  <2>9. /\ freelist' \in Seq(Addresses) /\ IsInjective(freelist')
        /\ ToSet(freelist') = F \ {n}
    BY <1>12, <1>17, <2>1
  <2>10. ToSet(freelist') \cup ToSet(usedlist') = (S \ {f}) \ {n}
    BY <1>2, <1>10, <2>2, <2>9
  <2>11. /\ SlotEnd(len', b) = SlotEnd(len, n)
        /\ \A a \in F \ {n} : a # b => SlotEnd(len', a) = SlotEnd(len, a)
    <3>1. /\ len'[b] = len[b] + Hdr + len[f] + Hdr + len[n]
          /\ \A a \in F \ {n} : a # b => len'[a] = len[a]
      BY <1>2, <2>2, <2>3, <2>5
    <3>2. SlotEnd(len', b) = SlotEnd(len, n)
      BY <2>2, <2>4, <3>1 DEF SlotEnd, Hdr
    <3> QED BY <3>1, <3>2 DEF SlotEnd
  <2>12. \A a, c \in F \ {n} : SlotEnd(len', a) # c
    BY <1>2, <2>2, <2>11
  <2>13. ToSet(freelist') \cap ToSet(usedlist') = {}
    BY <1>2, <1>10, <2>9
  <2> QED BY <1>10, <2>8, <2>9, <2>10, <2>12, <2>13 DEF Shape, F, U, Slots
<1>18. \A a \in U \ {f} : len'[a] = len[a]
  <2>1. \A a \in U \ {f} : a \in S /\ a # f /\ a \notin F
    BY <1>2
  <2>2. (Before(f) # {} => b \in F) /\ (After(f) # {} => n \in F)
    BY <1>6, <1>7
  <2> HIDE DEF S
  <2> QED BY <1>13, <2>1, <2>2
<1>19. Shape(freelist', usedlist', len') /\ Slots' \subseteq Slots
  BY <1>14, <1>15, <1>16, <1>17
<1> QED BY <1>10, <1>18, <1>19 DEF f, U

-----------------------------------------------------------------------------
(* The theorems                                                              *)

\* The lists partition the slots and the slots tile the region, on every reach
\* of alloc.c's three entry points.
THEOREM Invariance == Spec => []IInv
<1>1. Init => IInv
  <2>1. SUFFICES ASSUME Init PROVE IInv
    OBVIOUS
  <2>2. freelist = << >> /\ usedlist = << >>
    BY <2>1 DEF Init
  <2>3. Slots = {}
    BY <2>2 DEF Slots, ToSet
  <2> QED BY <2>1, <2>2, <2>3 DEF Init, IInv, WordAligned
<1>2. ASSUME IInv, [Next]_vars
      PROVE  IInv'
  <2> USE <1>2
  <2>1. CASE KallocInit
    <3>1. Shape(freelist', usedlist', len') /\ inited' = TRUE /\ ret' = ret
      BY <2>1, InitShape DEF KallocInit
    <3>2. Slots' = {First}
      BY <2>1 DEF KallocInit, Slots, ToSet
    <3>3. (First - Base) % Word = 0
      BY RegionAssumption DEF First, Word
    <3> QED BY <3>1, <3>2, <3>3 DEF IInv, WordAligned
  <2>2. ASSUME NEW size \in Sizes, KallocSucceeds(size)
        PROVE  IInv'
    <3>1. size \in Nat
      BY CallersAssumption
    <3>2. /\ Shape(freelist', usedlist', len')
          /\ ret' \in Addresses
          /\ \A a \in Slots' : a \in Slots \/ \E p \in Slots : a = p + Hdr + RoundUp(size)
      BY <2>2, <3>1, KallocShape
    <3>3. inited /\ inited' = inited
      BY <2>2 DEF KallocSucceeds
    <3>4. ASSUME NEW p \in Slots
          PROVE  ((p + Hdr + RoundUp(size)) - Base) % Word = 0
      <4>1. /\ RoundUp(size) \in Nat /\ RoundUp(size) % Word = 0
            /\ (p - Base) % Word = 0
        BY <3>1, RoundUpBounds DEF IInv, WordAligned
      <4>2. p \in Nat /\ Base \in Nat
        BY <3>3, TilingFacts, RegionAssumption DEF IInv, Shape, Slots
      <4> QED BY <4>1, <4>2 DEF Word, Hdr
    <3> QED BY <3>2, <3>3, <3>4 DEF IInv, WordAligned
  <2>3. ASSUME NEW size \in Sizes, KallocFails(size)
        PROVE  IInv'
    BY <2>3 DEF IInv, KallocFails, WordAligned, Slots
  <2>4. ASSUME NEW slot \in Pointers, Kfree(slot)
        PROVE  IInv'
    <3>1. Shape(freelist', usedlist', len') /\ Slots' \subseteq Slots
      BY <2>4, KfreeShape
    <3>2. inited /\ inited' = inited /\ ret' = ret
      BY <2>4 DEF Kfree
    <3> QED BY <3>1, <3>2 DEF IInv, WordAligned
  <2>5. ASSUME NEW slot \in Pointers, KfreeIgnored(slot)
        PROVE  IInv'
    BY <2>5 DEF IInv, KfreeIgnored, vars, WordAligned, Slots
  <2>6. CASE UNCHANGED vars
    BY <2>6 DEF IInv, vars, WordAligned, Slots
  <2> QED BY <2>1, <2>2, <2>3, <2>4, <2>5, <2>6 DEF Next
<1> QED BY <1>1, <1>2, PTL DEF Spec

\* What the invariant says of the state in the words of Alloc.tla.
LEMMA Consequences ==
  ASSUME IInv
  PROVE  /\ TypeOK /\ Contained /\ Disjoint /\ NoLeak /\ Coalesced /\ AllFreed
         /\ WordAligned
<1>1. CASE ~inited
  <2>1. freelist = << >> /\ usedlist = << >> /\ len = << >> /\ Slots = {}
    BY <1>1 DEF IInv, Slots, ToSet
  <2>2. len \in [Slots -> Nat]
    BY <2>1
  <2> QED BY <1>1, <2>1, <2>2 DEF IInv, TypeOK, Contained, Disjoint, NoLeak,
        Coalesced, AllFreed, IsInjective, ToSet
<1>2. CASE inited
  <2>1. Shape(freelist, usedlist, len) /\ Tiling(Slots, len)
    BY <1>2 DEF IInv, Shape, Slots
  <2>2. \A a : BlockEnd(a) = SlotEnd(len, a)
    BY DEF BlockEnd, SlotEnd
  <2>3. TypeOK
    BY <2>1 DEF IInv, TypeOK, Shape, Tiling
  <2>4. Contained /\ Disjoint /\ NoLeak /\ Coalesced
    BY <2>1, <2>2 DEF Contained, Disjoint, NoLeak, Coalesced, Shape, Tiling
  <2>5. AllFreed
    <3>1. SUFFICES ASSUME usedlist = << >>
                   PROVE  freelist = <<First>> /\ len[First] = Length - 2 * Word - Hdr
      BY DEF AllFreed
    <3>2. Slots = ToSet(freelist)
      BY <3>1 DEF Slots, ToSet
    <3>3. /\ First \in Slots /\ SlotEnd(len, First) = RegionEnd
          /\ len[First] \in Nat /\ First \in Nat
      BY <2>1, <3>2, TilingFacts DEF Tiling, Shape
    <3>4. len[First] = Length - 2 * Word - Hdr
      BY <3>3, RegionAssumption DEF SlotEnd, RegionEnd, First, Word, Hdr
    <3>5. ASSUME NEW a \in Slots
          PROVE  a = First
      <4>1. /\ a \in Nat /\ First <= a /\ a + Hdr <= SlotEnd(len, a)
            /\ SlotEnd(len, a) <= RegionEnd /\ SlotEnd(len, a) \in Nat
            /\ First \in Nat /\ RegionEnd \in Nat
        BY <2>1, TilingFacts
      <4>2. a # First => SlotEnd(len, a) <= First \/ SlotEnd(len, First) <= a
        BY <2>1, <3>3 DEF Tiling
      <4> QED BY <3>3, <4>1, <4>2 DEF Hdr
    <3>6. freelist = <<First>>
      <4>1. freelist \in Seq(Addresses) /\ IsInjective(freelist)
        BY <2>1 DEF Shape
      <4>2. \A i \in DOMAIN freelist : freelist[i] = First
        BY <3>2, <3>5 DEF ToSet
      <4>3. DOMAIN freelist = 1 .. Len(freelist) /\ Len(freelist) \in Nat
        BY <4>1
      <4>4. Len(freelist) >= 1
        BY <3>2, <3>3, <4>3 DEF ToSet
      <4>5. Len(freelist) < 2
        <5>1. SUFFICES ASSUME Len(freelist) >= 2 PROVE FALSE
          BY <4>3
        <5>2. 1 \in DOMAIN freelist /\ 2 \in DOMAIN freelist
          BY <4>3, <5>1
        <5> QED BY <4>1, <4>2, <5>2 DEF IsInjective
      <4> QED BY <4>1, <4>2, <4>3, <4>4, <4>5
    <3> QED BY <3>4, <3>6
  <2> QED BY <2>3, <2>4, <2>5 DEF IInv
<1> QED BY <1>1, <1>2 DEF IInv

\* The type invariant of the allocator.
THEOREM TypeCorrect == Spec => []TypeOK
<1>1. IInv => TypeOK
  BY Consequences
<1> QED BY <1>1, Invariance, PTL

\* No two slots share a byte, whatever the calls.
THEOREM SlotsAreDisjoint == Spec => []Disjoint
<1>1. IInv => Disjoint
  BY Consequences
<1> QED BY <1>1, Invariance, PTL

\* No slot leaves the region.
THEOREM SlotsStayInside == Spec => []Contained
<1>1. IInv => Contained
  BY Consequences
<1> QED BY <1>1, Invariance, PTL

\* No byte of the region is lost.
THEOREM SlotsLeaveNoGap == Spec => []NoLeak
<1>1. IInv => NoLeak
  BY Consequences
<1> QED BY <1>1, Invariance, PTL

\* free leaves no two free slots adjacent.
THEOREM FreeSlotsStayMerged == Spec => []Coalesced
<1>1. IInv => Coalesced
  BY Consequences
<1> QED BY <1>1, Invariance, PTL

\* A region whose blocks are all given back is one free slot again.
THEOREM EverythingComesBack == Spec => []AllFreed
<1>1. IInv => AllFreed
  BY Consequences
<1> QED BY <1>1, Invariance, PTL

\* The word alignment A_BLOCK_END depends on (alloc.h:23-24).
THEOREM HeadersAreAligned == Spec => []WordAligned
<1>1. IInv => WordAligned
  BY Consequences
<1> QED BY <1>1, Invariance, PTL

-----------------------------------------------------------------------------
(* Refinement of Heap.tla                                                    *)

\* Every step of the allocator is a step of the abstract heap or leaves it alone.
LEMMA StepRefines ==
  ASSUME IInv, IInv', [Next]_vars
  PROVE  [Promise!Next]_(Promise!vars)
<1> DEFINE U == ToSet(usedlist)
           B == {a + Hdr : a \in U}
<1>1. U \subseteq Nat /\ U' \subseteq Nat
  <2>1. Addresses \subseteq Nat
    BY RegionAssumption DEF Addresses, RegionEnd
  <2>2. usedlist \in Seq(Addresses)
    BY Consequences DEF TypeOK
  <2>3. usedlist' \in Seq(Addresses)
    <3>1. CASE inited'
      BY <3>1 DEF IInv, Shape
    <3>2. CASE ~inited'
      BY <3>2 DEF IInv
    <3> QED BY <3>1, <3>2
  <2>4. \A s \in Seq(Addresses) : ToSet(s) \subseteq Addresses
    BY DEF ToSet
  <2> QED BY <2>1, <2>2, <2>3, <2>4
<1>2. /\ DOMAIN handedOut = B
      /\ \A a \in U : a + Hdr \in B /\ handedOut[a + Hdr] = len[a]
  BY <1>1 DEF handedOut, Hdr
<1>3. /\ DOMAIN handedOut' = B'
      /\ \A a \in U' : a + Hdr \in B' /\ handedOut'[a + Hdr] = len'[a]
  BY <1>1 DEF handedOut, Hdr
<1>4. CASE KallocInit
  <2>1. U = {} /\ U' = {} /\ ret' = ret
    BY <1>4 DEF KallocInit, IInv, ToSet
  <2>2. handedOut' = handedOut
    BY <2>1 DEF handedOut
  <2> QED BY <2>1, <2>2 DEF Promise!vars
<1>5. ASSUME NEW size \in Sizes, KallocSucceeds(size)
      PROVE  Promise!Grant(size)
  <2> DEFINE n == RoundUp(size)
  <2>1. size \in Nat /\ n \in Nat /\ n \in size .. size + (Word - 1)
    BY CallersAssumption, RoundUpBounds DEF Word
  <2>2. PICK p \in ToSet(freelist) :
          /\ U' = U \cup {p}
          /\ ret' = p + Hdr /\ len'[p] = n /\ len[p] >= n + Hdr
          /\ \A a \in U : len'[a] = len[a]
    BY <1>5, <2>1, KallocShape
  <2> HIDE DEF n
  <2>3. inited /\ inited'
    BY <1>5 DEF KallocSucceeds
  <2>4. p \notin U /\ p \in Nat
    BY <1>1, <2>2, <2>3 DEF IInv, Shape
  <2>5. p + Hdr \notin B
    BY <1>1, <2>4 DEF Hdr
  <2>6. B' = B \cup {p + Hdr}
    BY <2>2
  <2>7. handedOut' = [q \in DOMAIN handedOut \cup {p + Hdr} |->
                        IF q = p + Hdr THEN n ELSE handedOut[q]]
    <3>1. ASSUME NEW q \in B'
          PROVE  handedOut'[q] = IF q = p + Hdr THEN n ELSE handedOut[q]
      <4>1. CASE q = p + Hdr
        BY <1>3, <2>2, <4>1
      <4>2. CASE q # p + Hdr
        <5>1. PICK a \in U : q = a + Hdr
          BY <2>6, <4>2
        <5> QED BY <1>2, <1>3, <2>2, <4>2, <5>1
      <4> QED BY <4>1, <4>2
    <3>2. handedOut' = [q \in B' |-> handedOut'[q]]
      BY DEF handedOut
    <3> HIDE DEF B
    <3> QED BY <1>2, <2>6, <3>1, <3>2
  <2>8. /\ Tiling(Slots', len') /\ U' \subseteq Slots' /\ U \subseteq Slots' /\ p \in Slots'
    BY <2>2, <2>3 DEF IInv, Shape, Slots
  <2>9. /\ First \in Nat /\ RegionEnd \in Nat
        /\ \A a \in Slots' : /\ a \in Nat /\ len'[a] \in Nat
                             /\ SlotEnd(len', a) = a + Hdr + len'[a]
                             /\ First <= a /\ SlotEnd(len', a) <= RegionEnd
    BY <2>8, TilingFacts DEF SlotEnd
  <2>10. p + Hdr .. p + Hdr + n - 1 \subseteq First + Hdr .. RegionEnd - 1
    BY <2>1, <2>2, <2>8, <2>9 DEF Hdr
  <2>11. ASSUME NEW q \in DOMAIN handedOut
         PROVE  (p + Hdr .. p + Hdr + n - 1) \cap (q .. q + handedOut[q] - 1) = {}
    <3>1. PICK a \in U : q = a + Hdr /\ handedOut[q] = len'[a]
      BY <1>2, <2>2
    <3>2. SlotEnd(len', a) <= p \/ SlotEnd(len', p) <= a
      BY <2>4, <2>8 DEF Tiling
    <3>3. a \in Nat /\ len'[a] \in Nat
          /\ (a + Hdr + len'[a] <= p \/ p + Hdr + n <= a)
      BY <2>2, <2>8, <2>9, <3>2
    <3> QED BY <2>1, <2>4, <3>1, <3>3 DEF Hdr
  <2>12. p + Hdr \in First + Hdr .. RegionEnd - 1
    <3>1. Tiling(Slots, len) /\ p \in Slots
      BY <2>2, <2>3 DEF IInv, Shape, Slots
    <3>2. /\ len[p] \in Nat /\ SlotEnd(len, p) = p + Hdr + len[p]
          /\ First <= p /\ SlotEnd(len, p) <= RegionEnd
      BY <3>1, TilingFacts DEF SlotEnd
    <3> QED BY <2>1, <2>2, <2>4, <2>9, <3>2 DEF Hdr
  <2> QED BY <1>2, <2>1, <2>2, <2>5, <2>7, <2>10, <2>11, <2>12
          DEF Promise!Grant, Promise!Bytes
<1>6. ASSUME NEW size \in Sizes, KallocFails(size)
      PROVE  Promise!Refuse
  BY <1>6 DEF KallocFails, Promise!Refuse, handedOut
<1>7. ASSUME NEW slot \in Pointers, Kfree(slot)
      PROVE  Promise!Release
  <2> DEFINE f == slot - Hdr
  <2>1. /\ f \in U /\ ret' = ret
        /\ U' = U \ {f}
        /\ \A a \in U' : len'[a] = len[a]
    BY <1>7, KfreeShape DEF Kfree
  <2> HIDE DEF f
  <2>2. B' = B \ {f + Hdr}
    BY <1>1, <2>1 DEF Hdr
  <2>3. handedOut' = [q \in DOMAIN handedOut \ {f + Hdr} |-> handedOut[q]]
    <3>1. ASSUME NEW q \in B'
          PROVE  handedOut'[q] = handedOut[q]
      <4>1. PICK a \in U' : q = a + Hdr
        OBVIOUS
      <4> QED BY <1>2, <1>3, <2>1, <4>1
    <3>2. handedOut' = [q \in B' |-> handedOut'[q]]
      BY DEF handedOut
    <3> HIDE DEF B
    <3> QED BY <1>2, <2>2, <3>1, <3>2
  <2> QED BY <1>2, <2>1, <2>3 DEF Promise!Release
<1>8. ASSUME vars' = vars
      PROVE  UNCHANGED Promise!vars
  BY <1>8 DEF vars, Promise!vars, handedOut
<1> QED BY <1>4, <1>5, <1>6, <1>7, <1>8 DEF Next, KfreeIgnored, Promise!Next

\* The allocator of alloc.c behaves as Heap.tla promises to callers of kalloc and
\* kfree: no two blocks handed out overlap, and none changes while it is held.
THEOREM Refinement == Spec => ImplementsHeap
<1>1. Init => Promise!Init
  <2>1. SUFFICES ASSUME Init PROVE Promise!Init
    OBVIOUS
  <2>2. usedlist = << >> /\ ret = NULL
    BY <2>1 DEF Init
  <2>3. {a + Hdr : a \in ToSet(usedlist)} = {}
    BY <2>2 DEF ToSet
  <2>4. handedOut = << >>
    BY <2>3 DEF handedOut
  <2> QED BY <2>2, <2>4 DEF Promise!Init
<1>2. IInv /\ IInv' /\ [Next]_vars => [Promise!Next]_(Promise!vars)
  BY StepRefines
<1> QED BY <1>1, <1>2, Invariance, PTL DEF Spec, ImplementsHeap, Promise!Spec
============================================================================
