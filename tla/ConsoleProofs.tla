--------------------------- MODULE ConsoleProofs ---------------------------
(***************************************************************************)
(* Theorems about the keyboard and the console, for every size of the       *)
(* screen and of the queue that ConsoleAssumption allows.                   *)
(*                                                                         *)
(* The invariant of CursorOnScreen is that the cursor is at least as far    *)
(* from the screen's beginning as there are characters in the queue:        *)
(* whatever is typed or printed moves it forward or, scrolling, to the last *)
(* line, which is far enough from the beginning for a full queue.           *)
(***************************************************************************)
EXTENDS Console, SequenceTheorems, TLAPS

LastLine == (TERM_LINES - 1) * TERM_COLS

\* From offset o the cursor has gone forward, or is on the last line.
Forward(o, r) == r \in 0 .. ScreenLen - 1 /\ (r > o \/ r >= LastLine)

LEMMA Sizes ==
  /\ TERM_COLS \in Nat /\ TERM_COLS > 0 /\ TERM_LINES \in Nat /\ TERM_LINES > 0
  /\ BCON_KBD_QUEUE_LEN \in Nat /\ BCON_KBD_QUEUE_LEN > 0
  /\ OffsetRange \in Nat /\ OffsetRange > 0
  /\ ScreenLen \in Nat /\ LastLine \in Nat
  /\ ScreenLen = LastLine + TERM_COLS
  /\ BCON_KBD_QUEUE_LEN <= LastLine /\ ScreenLen + TERM_COLS <= OffsetRange
  BY ConsoleAssumption DEF ScreenLen, LastLine

-----------------------------------------------------------------------------
\* Division.

LEMMA Quotient ==
  ASSUME NEW C \in Nat, C > 0, NEW o \in Nat
  PROVE  /\ o \div C \in Nat
         /\ (o \div C) * C <= o
         /\ o < (o \div C) * C + C
  OBVIOUS

LEMMA QuotientIs ==
  ASSUME NEW C \in Nat, C > 0, NEW o \in Nat, NEW m \in Nat, m * C <= o, o < m * C + C
  PROVE  o \div C = m
<1> DEFINE q == o \div C
<1>1. q \in Nat /\ q * C <= o /\ o < q * C + C
  BY Quotient
<1>2. CASE q < m
  <2>1. (q + 1) * C <= m * C
    BY <1>1, <1>2
  <2> QED BY <1>1, <2>1
<1>3. CASE m < q
  <2>1. (m + 1) * C <= q * C
    BY <1>1, <1>3
  <2> QED BY <1>1, <2>1
<1> QED BY <1>1, <1>2, <1>3

LEMMA Remainder ==
  ASSUME NEW C \in Nat, C > 0, NEW o \in Nat
  PROVE  /\ o < C => o % C = o
         /\ C <= o /\ o < C + C => o % C = o - C
  OBVIOUS

-----------------------------------------------------------------------------
\* Where the cursor goes.

\* Being off the end is being behind the last place.
LEMMA OffTheEnd ==
  ASSUME NEW o \in Nat
  PROVE  OffEnd(o) <=> o >= ScreenLen
<1> DEFINE q == o \div TERM_COLS
<1>1. q \in Nat /\ q * TERM_COLS <= o /\ o < q * TERM_COLS + TERM_COLS
  BY Quotient, Sizes
<1>2. CASE q >= TERM_LINES
  <2>1. TERM_COLS * TERM_LINES <= q * TERM_COLS
    BY <1>1, <1>2, Sizes
  <2> QED BY <1>1, <1>2, <2>1, Sizes DEF OffEnd, ScreenLen
<1>3. CASE q < TERM_LINES
  <2>1. (q + 1) * TERM_COLS <= TERM_COLS * TERM_LINES
    BY <1>1, <1>3, Sizes
  <2> QED BY <1>1, <1>3, <2>1, Sizes DEF OffEnd, ScreenLen
<1> QED BY <1>1, <1>2, <1>3, Sizes

\* Scrolling from the line behind the screen leads to the beginning of the last line.
LEMMA Scrolls ==
  ASSUME NEW o \in Nat, o = ScreenLen
  PROVE  ScrolledIfOff(o) = LastLine
<1>1. Up(o) = LastLine
  BY Remainder, Sizes DEF Up
<1>2. LastLine \div TERM_COLS = TERM_LINES - 1
  BY QuotientIs, Sizes DEF LastLine
<1>3. HomeLine(LastLine) = LastLine
  BY <1>2 DEF HomeLine, LastLine
<1> QED BY <1>1, <1>3, OffTheEnd, Sizes DEF ScrolledIfOff, ScrollScreenUp

LEMMA WriteCharMoves ==
  ASSUME NEW o \in 0 .. ScreenLen - 1
  PROVE  /\ Forward(o, WriteChar(o))
         /\ o + 1 < ScreenLen => WriteChar(o) = o + 1
<1>1. (o + 1) % OffsetRange = o + 1
  BY Remainder, Sizes
<1>2. CASE o + 1 < ScreenLen
  BY <1>1, <1>2, OffTheEnd, Sizes DEF WriteChar, ScrolledIfOff, Forward
<1>3. CASE o + 1 = ScreenLen
  BY <1>1, <1>3, Scrolls, Sizes DEF WriteChar, Forward
<1> QED BY <1>2, <1>3, Sizes

LEMMA NewLineMoves ==
  ASSUME NEW o \in 0 .. ScreenLen - 1
  PROVE  Forward(o, NewLine(o))
<1> DEFINE q == o \div TERM_COLS
           n == (q + 1) * TERM_COLS
<1>1. q \in Nat /\ q * TERM_COLS <= o /\ o < q * TERM_COLS + TERM_COLS
  BY Quotient, Sizes
<1>2. n \in Nat /\ n = q * TERM_COLS + TERM_COLS
  BY <1>1, Sizes
<1>3. Down(o) = o + TERM_COLS
  BY Remainder, Sizes DEF Down
<1>4. (o + TERM_COLS) \div TERM_COLS = q + 1
  BY <1>1, <1>2, QuotientIs, Sizes
<1>5. HomeLine(Down(o)) = n
  BY <1>3, <1>4 DEF HomeLine
<1>6. n <= ScreenLen
  <2>1. q < TERM_LINES
    BY OffTheEnd, <1>1, Sizes DEF OffEnd
  <2> QED BY <1>1, <2>1, Sizes DEF ScreenLen
<1>7. CASE n < ScreenLen
  BY <1>1, <1>2, <1>5, <1>7, OffTheEnd, Sizes DEF NewLine, ScrolledIfOff, Forward
<1>8. CASE n = ScreenLen
  BY <1>2, <1>5, <1>8, Scrolls, Sizes DEF NewLine, Forward
<1> QED BY <1>2, <1>6, <1>7, <1>8, Sizes

\* Any character, and the message about a full queue, moves the cursor forward.
LEMMA OutputMoves ==
  ASSUME NEW o \in 0 .. ScreenLen - 1, NEW c
  PROVE  Forward(o, Putchar(c, o)) /\ Forward(o, PutsQueueFull(o))
<1>1. ASSUME NEW r, NEW s, Forward(o, r), Forward(r, s)
      PROVE  Forward(o, s)
  BY <1>1, Sizes DEF Forward
<1>2. ASSUME NEW r, Forward(o, r)
      PROVE  /\ Forward(o, WriteChar(r)) /\ Forward(o, NewLine(r))
  BY <1>1, <1>2, WriteCharMoves, NewLineMoves DEF Forward
<1>3. Forward(o, Tab(o))
  BY <1>2, WriteCharMoves DEF Tab
<1>4. Forward(o, PutsQueueFull(o))
  BY <1>2, NewLineMoves DEF PutsQueueFull
<1> QED BY <1>3, <1>4, WriteCharMoves, NewLineMoves DEF Putchar

LEMMA BackspaceMoves ==
  ASSUME NEW o \in 1 .. ScreenLen - 1
  PROVE  Backspace(o) = o - 1
<1>1. Left(o) = o - 1
  BY Remainder, Sizes DEF Left
<1>2. WriteChar(o - 1) = o
  BY WriteCharMoves, Sizes
<1> QED BY <1>1, <1>2 DEF Backspace

LEMMA AfterIs ==
  ASSUME NEW i \in Places
  PROVE  After(i) = IF i + 1 = BCON_KBD_QUEUE_LEN THEN 0 ELSE i + 1
  BY Remainder, Sizes DEF After, Places

-----------------------------------------------------------------------------
\* The cursor.

CursorInv ==
  /\ cursor \in 0 .. ScreenLen - 1 /\ count <= cursor
  /\ boot # "enabled" => count = 0

LEMMA CursorStep == ASSUME TypeOK, CursorInv, [Next]_vars PROVE CursorInv'
<1> USE DEF CursorInv
<1>1. CASE Boot
  <2>1. count' = count /\ count = 0
    BY <1>1 DEF Boot, BconInit, InitPic, InitTimer, KbdInit, EnableInterrupts, input_queue
  <2>2. cursor' \in {0, cursor}
    BY <1>1 DEF Boot, BconInit, InitPic, InitTimer, KbdInit, EnableInterrupts
  <2> QED BY <2>1, <2>2, Sizes
<1>2. CASE Output
  BY <1>2, OutputMoves, Sizes DEF Output, Forward, TypeOK, input_queue, lines
<1>3. ASSUME NEW k \in Characters, Enqueue(k) PROVE CursorInv'
  BY <1>3, OutputMoves, Sizes DEF Enqueue, KbdInterrupt, Forward, TypeOK, lines
<1>4. CASE QueueFull
  BY <1>4, OutputMoves, Sizes DEF QueueFull, Forward, TypeOK, input_queue, lines
<1>5. CASE Dequeue
  BY <1>5, BackspaceMoves, Sizes DEF Dequeue, KbdInterrupt, TypeOK, lines
<1>6. CASE Modifier
  BY <1>6 DEF Modifier, Press, Release, input_queue, lines
<1>7. CASE UNCHANGED vars
  BY <1>7 DEF vars, input_queue, lines
<1> QED BY <1>1, <1>2, <1>3, <1>4, <1>5, <1>6, <1>7 DEF Next, Key

-----------------------------------------------------------------------------
\* Types.

\* A table of handlers stays one when a handler is bound to line 0 or 1.
Table(t) == /\ DOMAIN t \subseteq {0, 1}
            /\ \A n \in DOMAIN t : t[n] \in {"timer_interrupt", "kbd_interrupt"}
LEMMA BindTable ==
  ASSUME Table(irqs), NEW n \in {0, 1}, NEW h \in {"timer_interrupt", "kbd_interrupt"}
  PROVE  Table(Bind(n, h))
  BY DEF Table, Bind

LEMMA TypeStep == ASSUME TypeOK, CursorInv, [Next]_vars PROVE TypeOK'
<1>0. cursor' \in 0 .. OffsetRange - 1
  BY CursorStep, Sizes DEF CursorInv
<1>t. TypeOK <=> /\ head \in Places /\ tail \in Places /\ count \in 0 .. BCON_KBD_QUEUE_LEN
                 /\ keys \in [Places -> Characters]
                 /\ kbd_state \subseteq {0, 1, 2, 4, 12} /\ down \subseteq Modifiers
                 /\ cursor \in 0 .. OffsetRange - 1
                 /\ rebooted \in BOOLEAN /\ attached \in BOOLEAN
                 /\ unmasked \subseteq 0 .. 15 /\ Table(irqs)
                 /\ boot \in {"init_console", "init_pic", "init_timer", "kbd_init",
                              "enable", "enabled"}
  BY DEF TypeOK, Table
<1>1. CASE Boot
  <2>1. Table(irqs')
    BY <1>1, <1>t, BindTable DEF Boot, BconInit, InitPic, InitTimer, KbdInit, EnableInterrupts
  <2>2. unmasked' \subseteq 0 .. 15
    BY <1>1, <1>t DEF Boot, BconInit, InitPic, InitTimer, KbdInit, EnableInterrupts, Enable
  <2> QED
    BY <1>0, <1>1, <2>1, <2>2 DEF TypeOK, Table, Boot, BconInit, InitPic, InitTimer, KbdInit,
       EnableInterrupts, input_queue
<1>2. CASE Output
  BY <1>0, <1>2 DEF TypeOK, Output, input_queue, lines
<1>3. ASSUME NEW k \in Characters, Enqueue(k) PROVE TypeOK'
  <2>1. tail' \in Places
    BY <1>3, AfterIs, Sizes DEF TypeOK, Enqueue, Places
  <2> QED BY <1>0, <1>3, <2>1, Sizes DEF TypeOK, Enqueue, lines
<1>4. CASE QueueFull
  BY <1>0, <1>4 DEF TypeOK, QueueFull, input_queue, lines
<1>5. CASE Dequeue
  <2>1. head' \in Places
    BY <1>5, AfterIs, Sizes DEF TypeOK, Dequeue, Places
  <2> QED BY <1>0, <1>5, <2>1, Sizes DEF TypeOK, Dequeue, lines
<1>6. ASSUME NEW k \in Modifiers, Press(k) \/ Release(k) PROVE TypeOK'
  <2>1. Bit(k) \in {0, 1, 2, 4, 12}
    BY DEF Bit, Modifiers
  <2>2. kbd_state' \subseteq {0, 1, 2, 4, 12} /\ rebooted' \in BOOLEAN
    BY <1>6, <2>1 DEF TypeOK, Press, Release, Clear, Reboots
  <2> QED BY <1>0, <1>6, <2>2 DEF TypeOK, Press, Release, input_queue, lines
<1>7. CASE UNCHANGED vars
  BY <1>7 DEF TypeOK, vars, input_queue, lines
<1> QED BY <1>1, <1>2, <1>3, <1>4, <1>5, <1>6, <1>7 DEF Next, Key, Modifier

LEMMA InitInv == ASSUME Init PROVE TypeOK /\ CursorInv
<1>1. head \in Places /\ tail \in Places /\ count \in 0 .. BCON_KBD_QUEUE_LEN
  BY Sizes DEF Init, Places
<1>2. keys \in [Places -> Characters]
  BY DEF Init, Places, Characters
<1>3. cursor \in 0 .. ScreenLen - 1 /\ cursor \in 0 .. OffsetRange - 1
  BY Sizes DEF Init
<1>4. DOMAIN irqs = {}
  BY DEF Init
<1> QED BY <1>1, <1>2, <1>3, <1>4, Sizes DEF Init, TypeOK, CursorInv

\* The types are right.
THEOREM TypeCorrect == Spec => []TypeOK
<1>1. Init => TypeOK /\ CursorInv
  BY InitInv
<1>2. TypeOK /\ CursorInv /\ [Next]_vars => TypeOK' /\ CursorInv'
  BY TypeStep, CursorStep
<1> QED BY <1>1, <1>2, PTL DEF Spec

\* The cursor's invariant holds.
THEOREM CursorCorrect == Spec => []CursorInv
<1>1. Init => TypeOK /\ CursorInv
  BY InitInv
<1>2. TypeOK /\ CursorInv /\ [Next]_vars => TypeOK' /\ CursorInv'
  BY TypeStep, CursorStep
<1> QED BY <1>1, <1>2, PTL DEF Spec

\* The cursor stays on the screen, whatever is typed, erased and printed.
THEOREM StaysOnScreen == Spec => []CursorOnScreen
<1>1. CursorInv => CursorOnScreen
  BY DEF CursorInv, CursorOnScreen
<1> QED BY <1>1, CursorCorrect, PTL

-----------------------------------------------------------------------------
\* The modifiers.

LEMMA BitIs ==
  ASSUME NEW k \in Modifiers
  PROVE  /\ Bit(k) \in {0, 1, 2, 4, 12}
         /\ Bit(k) = 0 <=> k \in {"lshift", "rshift"}
         /\ Bit(k) = 1 <=> k = "meta"
         /\ Bit(k) = 2 <=> k = "ctl"
         /\ Bit(k) = 4 <=> k = "caps"
         /\ Bit(k) = 12 <=> k = "del"
  BY DEF Bit, Modifiers

LEMMA ModifierStep ==
  ASSUME TypeOK, NoStuckModifier, [Next]_vars
  PROVE  NoStuckModifier'
<1>1. ASSUME NEW k \in Modifiers, Press(k) PROVE NoStuckModifier'
  <2>1. kbd_state' \subseteq kbd_state \cup {Bit(k)} /\ down' = down \cup {k}
    BY <1>1 DEF Press
  <2> QED BY <2>1 DEF NoStuckModifier
<1>2. ASSUME NEW k \in Modifiers, Release(k) PROVE NoStuckModifier'
  <2>1. down' = down \ {k} /\ down \subseteq Modifiers
    BY <1>2 DEF Release, TypeOK
  <2>2. CASE k = "caps"
    <3>1. kbd_state' = kbd_state
      BY <1>2, <2>2 DEF Release
    <3>2. ASSUME NEW b \in kbd_state \ {4} PROVE \E m \in down' : Bit(m) = b
      <4>1. PICK m \in down : Bit(m) = b
        BY <3>2 DEF NoStuckModifier
      <4>2. m # k
        BY <2>2, <4>1, BitIs DEF Modifiers
      <4> QED BY <2>1, <4>1, <4>2
    <3> QED BY <3>1, <3>2 DEF NoStuckModifier
  <2>3. CASE k # "caps"
    <3>1. kbd_state' = Clear(Bit(k))
      BY <1>2, <2>3 DEF Release
    <3>2. Bit(k) \in {0, 1, 2, 4, 12}
      BY BitIs
    <3>3. ASSUME NEW b \in kbd_state' \ {4} PROVE \E m \in down' : Bit(m) = b
      <4>1. b \in kbd_state \ {4} /\ b \in {0, 1, 2, 4, 12} /\ b > Bit(k)
        BY <3>1, <3>3 DEF Clear, TypeOK
      <4>2. PICK m \in down : Bit(m) = b
        BY <4>1 DEF NoStuckModifier
      <4>3. m # k
        BY <3>2, <4>1, <4>2
      <4> QED BY <2>1, <4>2, <4>3
    <3> QED BY <3>3 DEF NoStuckModifier
  <2> QED BY <2>2, <2>3
<1>3. CASE kbd_state' = kbd_state /\ down' = down
  BY <1>3 DEF NoStuckModifier
<1> QED
  BY <1>1, <1>2, <1>3 DEF Next, Boot, BconInit, InitPic, InitTimer, KbdInit,
     EnableInterrupts, Output, Key, QueueFull, Dequeue, Enqueue, Modifier, vars

\* No modifier is stuck, although releasing one clears the bits below its own as well.
THEOREM NoneIsStuck == Spec => []NoStuckModifier
<1>1. Init => NoStuckModifier
  BY DEF Init, NoStuckModifier
<1>2. TypeOK /\ NoStuckModifier /\ [Next]_vars => NoStuckModifier'
  BY ModifierStep
<1> QED BY <1>1, <1>2, TypeCorrect, PTL DEF Spec

LEMMA RebootStep ==
  ASSUME TypeOK, TypeOK', NoStuckModifier', [Next]_vars, rebooted', ~ rebooted
  PROVE  {"ctl", "meta", "del"} \subseteq down'
<1>1. PICK k \in Modifiers : Press(k)
  BY DEF Next, Boot, BconInit, InitPic, InitTimer, KbdInit, EnableInterrupts, Output, Key,
     QueueFull, Dequeue, Enqueue, Modifier, Release, vars
<1>2. {1, 2, 12} \subseteq kbd_state'
  BY <1>1 DEF Press, Reboots, CtlMetaDel
<1>3. PICK m \in down', c \in down', d \in down' : Bit(m) = 1 /\ Bit(c) = 2 /\ Bit(d) = 12
  BY <1>2 DEF NoStuckModifier
<1>4. m = "meta" /\ c = "ctl" /\ d = "del"
  BY <1>3, BitIs DEF TypeOK
<1> QED BY <1>3, <1>4

\* The machine is rebooted by Ctl-Meta-Del only.
THEOREM RebootsOnly == Spec => RebootsOnlyOnCtlMetaDel
<1>1. TypeOK /\ TypeOK' /\ NoStuckModifier' /\ [Next]_vars
      => [rebooted' /\ ~ rebooted => {"ctl", "meta", "del"} \subseteq down']_vars
  BY RebootStep
<1> QED
  BY <1>1, TypeCorrect, NoneIsStuck, PTL DEF Spec, RebootsOnlyOnCtlMetaDel

-----------------------------------------------------------------------------
\* Boot.

\* What is connected at each stage of it.
BootInv ==
  /\ boot # "init_console" => attached
  /\ boot = "init_timer" => unmasked = {2}
  /\ boot = "kbd_init" => unmasked = {0, 2} /\ 0 \in DOMAIN irqs /\ irqs[0] = "timer_interrupt"
  /\ boot \in {"enable", "enabled"} =>
       /\ unmasked = {0, 1, 2}
       /\ {0, 1} \subseteq DOMAIN irqs
       /\ irqs[0] = "timer_interrupt" /\ irqs[1] = "kbd_interrupt"

LEMMA BootStep == ASSUME BootInv, [Next]_vars PROVE BootInv'
<1>1. CASE BconInit \/ InitPic \/ EnableInterrupts
  BY <1>1 DEF BootInv, BconInit, InitPic, EnableInterrupts
<1>2. CASE InitTimer
  <2>1. irqs' = Bind(0, "timer_interrupt") /\ unmasked' = {0, 2} /\ boot' = "kbd_init"
        /\ attached'
    BY <1>2 DEF InitTimer, Enable, BootInv
  <2>2. 0 \in DOMAIN irqs' /\ irqs'[0] = "timer_interrupt"
    BY <2>1 DEF Bind
  <2> QED BY <2>1, <2>2 DEF BootInv
<1>3. CASE KbdInit
  <2>1. irqs' = Bind(1, "kbd_interrupt") /\ unmasked' = {0, 1, 2} /\ boot' = "enable"
        /\ attached'
    BY <1>3 DEF KbdInit, Enable, BootInv
  <2>2. 0 \in DOMAIN irqs /\ irqs[0] = "timer_interrupt"
    BY <1>3 DEF KbdInit, BootInv
  <2>3. {0, 1} \subseteq DOMAIN irqs' /\ irqs'[0] = irqs[0] /\ irqs'[1] = "kbd_interrupt"
    BY <2>1, <2>2 DEF Bind
  <2> QED BY <2>1, <2>2, <2>3 DEF BootInv
<1>4. CASE UNCHANGED lines
  BY <1>4 DEF lines, BootInv
<1> QED
  BY <1>1, <1>2, <1>3, <1>4 DEF Next, Boot, Output, Key, QueueFull, Dequeue, Enqueue,
     Modifier, Press, Release, vars

LEMMA BootInvSuffices == BootInv => LinesReachTheirHandlers
<1>1. Gate(Vector(0)) = 0 /\ Gate(Vector(1)) = 1
  BY DEF Gate, Vector
<1> QED BY <1>1 DEF BootInv, LinesReachTheirHandlers, Reached

\* Once interrupts are enabled, each line let through reaches its handler.
THEOREM LinesReach == Spec => []LinesReachTheirHandlers
<1>1. Init => BootInv
  BY DEF Init, BootInv
<1>2. BootInv /\ [Next]_vars => BootInv'
  BY BootStep
<1> QED BY <1>1, <1>2, BootInvSuffices, PTL DEF Spec

-----------------------------------------------------------------------------
\* The ring buffer.

\* The place after the last character is the one to write next.
RingInv == tail = IF head + count < BCON_KBD_QUEUE_LEN THEN head + count
                  ELSE head + count - BCON_KBD_QUEUE_LEN

\* The place of a ring's i-th character, and what a ring holds, in its order.
At(h, i) == IF h + i <= BCON_KBD_QUEUE_LEN THEN h + i - 1 ELSE h + i - 1 - BCON_KBD_QUEUE_LEN
Contents(h, c, k) == [i \in 1 .. c |-> k[At(h, i)]]

LEMMA ContentsIs ==
  ASSUME NEW h \in Places, NEW c \in 0 .. BCON_KBD_QUEUE_LEN,
         NEW k \in [Places -> Characters]
  PROVE  /\ Contents(h, c, k) \in Seq(Characters)
         /\ Len(Contents(h, c, k)) = c
         /\ \A i \in 1 .. c : At(h, i) \in Places /\ Contents(h, c, k)[i] = k[At(h, i)]
<1>1. \A i \in 1 .. c : At(h, i) \in Places
  BY Sizes DEF At, Places
<1>2. Contents(h, c, k) \in [1 .. c -> Characters] /\ c \in Nat
  BY <1>1, Sizes DEF Contents
<1> QED BY <1>1, <1>2, SeqDef DEF Contents

Typed == Contents(head, count, keys)

LEMMA TypedIs == Typed = [i \in 1 .. count |-> keys[Place(i)]]
  BY DEF Typed, Contents, At, Place

\* Every step keeps the ring in order.
LEMMA RingStep == ASSUME TypeOK, RingInv, [Next]_vars PROVE RingInv'
<1>1. ASSUME NEW k \in Characters, Enqueue(k) PROVE RingInv'
  BY <1>1, AfterIs, Sizes DEF Enqueue, RingInv, TypeOK, Places
<1>2. CASE Dequeue
  BY <1>2, AfterIs, Sizes DEF Dequeue, RingInv, TypeOK, Places
<1>3. CASE UNCHANGED input_queue
  BY <1>3 DEF input_queue, RingInv
<1> QED
  BY <1>1, <1>2, <1>3 DEF Next, Boot, BconInit, InitPic, InitTimer, KbdInit,
     EnableInterrupts, Output, Key, QueueFull, Modifier, Press, Release, vars

\* A key is appended.
LEMMA EnqueueTypes ==
  ASSUME TypeOK, TypeOK', RingInv, NEW k \in Characters, Enqueue(k)
  PROVE  Len(Typed) < BCON_KBD_QUEUE_LEN /\ Typed' = Append(Typed, k)
<1>1. /\ Typed \in Seq(Characters) /\ Len(Typed) = count
      /\ \A i \in 1 .. count : At(head, i) \in Places /\ Typed[i] = keys[At(head, i)]
  BY ContentsIs DEF Typed, TypeOK
<1>2. /\ count < BCON_KBD_QUEUE_LEN /\ count' = count + 1 /\ head' = head
      /\ keys' = [keys EXCEPT ![tail] = k] /\ keys \in [Places -> Characters]
  BY DEF Enqueue, TypeOK
<1>3. /\ Typed' \in Seq(Characters) /\ Len(Typed') = count + 1
      /\ \A i \in 1 .. count + 1 : Typed'[i] = keys'[At(head, i)]
  <2>1. /\ head' \in Places /\ count' \in 0 .. BCON_KBD_QUEUE_LEN
        /\ keys' \in [Places -> Characters]
    BY DEF TypeOK
  <2>2. Typed' = Contents(head', count', keys')
    BY DEF Typed
  <2>3. /\ Typed' \in Seq(Characters) /\ Len(Typed') = count'
        /\ \A i \in 1 .. count' : Typed'[i] = keys'[At(head', i)]
    BY <2>1, <2>2, ContentsIs
  <2> QED BY <1>2, <2>3
<1>4. /\ Append(Typed, k) \in Seq(Characters) /\ Len(Append(Typed, k)) = count + 1
      /\ \A i \in 1 .. count : Append(Typed, k)[i] = Typed[i]
      /\ Append(Typed, k)[count + 1] = k
  BY <1>1, AppendProperties
<1>5. ASSUME NEW i \in 1 .. count PROVE Typed'[i] = Append(Typed, k)[i]
  <2>1. At(head, i) \in Places /\ At(head, i) # tail
    BY <1>1, <1>2, Sizes DEF At, RingInv, TypeOK, Places
  <2>2. keys'[At(head, i)] = keys[At(head, i)]
    BY <1>2, <2>1
  <2>3. i \in 1 .. count + 1
    BY DEF TypeOK
  <2> QED BY <1>1, <1>3, <1>4, <2>2, <2>3
<1>6. Typed'[count + 1] = k
  <2>1. At(head, count + 1) = tail /\ tail \in Places
    BY <1>2, Sizes DEF At, RingInv, TypeOK, Places
  <2>2. keys'[tail] = k
    BY <1>2, <2>1
  <2> QED BY <1>3, <2>1, <2>2 DEF TypeOK
<1>7. \A i \in 1 .. count + 1 : Typed'[i] = Append(Typed, k)[i]
  BY <1>4, <1>5, <1>6 DEF TypeOK
<1>8. Typed' = Append(Typed, k)
  BY <1>3, <1>4, <1>7, SeqEqual
<1> QED BY <1>1, <1>2, <1>8

\* Backspace takes out the oldest.
LEMMA DequeueTakes ==
  ASSUME TypeOK, TypeOK', Dequeue
  PROVE  Typed # << >> /\ Typed' = Tail(Typed)
<1>1. /\ Typed \in Seq(Characters) /\ Len(Typed) = count
      /\ \A i \in 1 .. count : At(head, i) \in Places /\ Typed[i] = keys[At(head, i)]
  BY ContentsIs DEF Typed, TypeOK
<1>2. count > 0 /\ count' = count - 1 /\ head' = After(head) /\ keys' = keys
  BY DEF Dequeue
<1>3. /\ Typed' \in Seq(Characters) /\ Len(Typed') = count - 1
      /\ \A i \in 1 .. count - 1 : Typed'[i] = keys[At(head', i)]
  BY <1>2, ContentsIs DEF Typed, TypeOK
<1>4. Typed # << >>
  BY <1>1, <1>2, EmptySeq DEF TypeOK
<1>5. /\ Tail(Typed) \in Seq(Characters) /\ Len(Tail(Typed)) = count - 1
      /\ \A i \in 1 .. count - 1 : Tail(Typed)[i] = Typed[i + 1]
  BY <1>1, <1>4, HeadTailProperties
<1>6. ASSUME NEW i \in 1 .. count - 1 PROVE Typed'[i] = Tail(Typed)[i]
  <2>1. At(head', i) = At(head, i + 1)
    BY <1>2, AfterIs, Sizes DEF At, TypeOK, Places
  <2>2. i + 1 \in 1 .. count
    BY DEF TypeOK
  <2> QED BY <1>1, <1>3, <1>5, <2>1, <2>2
<1>7. Typed' = Tail(Typed)
  BY <1>3, <1>5, <1>6, SeqEqual
<1> QED BY <1>4, <1>7

\* The ring buffer is a queue of at most BCON_KBD_QUEUE_LEN keys.
THEOREM RingIsAQueue == Spec => ImplementsTypeAhead
<1> DEFINE held == [i \in 1 .. count |-> keys[Place(i)]]
<1>0. held = Typed
  BY TypedIs
<1>1. Init => RingInv
  BY Sizes DEF Init, RingInv
<1>2. TypeOK /\ RingInv /\ [Next]_vars => RingInv'
  BY RingStep
<1>3. Init => Line!Init
  <2>1. ASSUME Init PROVE Typed = << >>
    <3>1. /\ head \in Places /\ count \in 0 .. BCON_KBD_QUEUE_LEN
          /\ keys \in [Places -> Characters]
      BY <2>1, InitInv DEF TypeOK
    <3>2. Typed \in Seq(Characters) /\ Len(Typed) = count
      BY <3>1, ContentsIs DEF Typed
    <3>3. count = 0
      BY <2>1 DEF Init
    <3> QED BY <3>2, <3>3, EmptySeq
  <2> QED BY <2>1, <1>0 DEF Line!Init
<1>4. held' = Typed'
  BY DEF Typed, Contents, At, Place
<1>5. TypeOK /\ TypeOK' /\ RingInv /\ [Next]_vars => [Line!Next]_held
  <2>1. ASSUME TypeOK, TypeOK', RingInv, [Next]_vars PROVE Line!Next \/ held' = held
    <3>1. CASE UNCHANGED input_queue
      BY <1>0, <1>4, <3>1 DEF input_queue, Typed
    <3>2. CASE Dequeue
      BY <1>0, <1>4, <2>1, <3>2, DequeueTakes DEF Line!Next, Line!TakeOldest
    <3>3. ASSUME NEW k \in Characters, Enqueue(k) PROVE Line!Next
      BY <1>0, <1>4, <2>1, <3>3, EnqueueTypes DEF Line!Next, Line!Type
    <3> QED
      BY <2>1, <3>1, <3>2, <3>3 DEF Next, Boot, BconInit, InitPic, InitTimer, KbdInit,
         EnableInterrupts, Output, Key, QueueFull, Modifier, Press, Release, vars
  <2> QED BY <2>1
<1> QED
  BY <1>1, <1>2, <1>3, <1>5, TypeCorrect, PTL DEF Spec, ImplementsTypeAhead, Line!Spec
=============================================================================
