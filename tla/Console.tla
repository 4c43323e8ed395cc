------------------------------ MODULE Console ------------------------------
(***************************************************************************)
(* The keyboard and the console: what a key does to the input queue, the    *)
(* modifiers and the cursor (kernel/dev), how the kernel's own output moves *)
(* the same cursor, and how boot connects the two interrupt lines in use    *)
(* to their handlers (8259, IDT, irqs).  Handlers, output and system calls  *)
(* run with interrupts disabled, so that each is one step.                  *)
(*                                                                         *)
(* The characters on the screen are left out, and with them the case of     *)
(* letters: the cursor is what the 6845 keeps, an offset of 16 bits.        *)
(*                                                                         *)
(* A definition marked "mutant" is what a plausible mistake would make of   *)
(* the definition after it; it is used to try the properties out.          *)
(***************************************************************************)
EXTENDS Integers, Sequences

CONSTANTS
  Letters,            \* the keys of printing characters
  BCON_KBD_QUEUE_LEN, \* 100 (.config)
  TERM_COLS,          \* 80
  TERM_LINES,         \* 25
  OffsetRange         \* 2^16: the 6845 has two registers of 8 bits for the cursor

ScreenLen == TERM_COLS * TERM_LINES

ASSUME ConsoleAssumption ==
  /\ {BCON_KBD_QUEUE_LEN, TERM_COLS, TERM_LINES, OffsetRange} \subseteq Nat \ {0}
  /\ TERM_COLS > 9    \* "QueueFull" fits a line
  /\ BCON_KBD_QUEUE_LEN <= (TERM_LINES - 1) * TERM_COLS
  /\ ScreenLen + TERM_COLS <= OffsetRange
  /\ Letters \cap {"newline", "tab", "backspace"} = {}

Characters == Letters \cup {"newline", "tab"}
Modifiers  == {"lshift", "rshift", "meta", "ctl", "caps", "del"}

\* The bit of kbd_state that K_ST_... stands for.
Bit(k) == CASE k \in {"lshift", "rshift"} -> 0
            [] k = "meta" -> 1
            [] k = "ctl"  -> 2
            [] k = "caps" -> 4
            [] k = "del"  -> 12

VARIABLES
  head, tail, count, keys, \* input_queue
  kbd_state,   \* the bits that are set, other than ECHO_STATE, which always is
  down,        \* the modifier keys that are held down
  cursor,      \* the cursor's offset
  rebooted,    \* whether arch_kbd_reboot has been called
  unmasked,    \* the interrupt lines the two 8259 let through
  irqs,        \* the table of handlers, where it is not NULL
  attached,    \* kbd.c: whether the console has given it its handler
  boot         \* how far kmain has got

input_queue == <<head, tail, count, keys>>
lines == <<unmasked, irqs, attached, boot>>
vars == <<input_queue, kbd_state, down, cursor, rebooted, lines>>

Init ==
  /\ head = 0 /\ tail = 0 /\ count = 0
  /\ keys = [i \in 0 .. BCON_KBD_QUEUE_LEN - 1 |-> "newline"]
  /\ kbd_state = {} /\ down = {}
  /\ cursor \in {0, ScreenLen - 1}    \* wherever the BIOS has left it
  /\ rebooted = FALSE
  /\ unmasked = {} /\ irqs = << >> /\ attached = FALSE /\ boot = "init_console"

-----------------------------------------------------------------------------
\* bcon_cursor.c and bcon.c: where the cursor goes.

Up(o)       == (o + OffsetRange - TERM_COLS) % OffsetRange
Down(o)     == (o + TERM_COLS) % OffsetRange
Left(o)     == (o + OffsetRange - 1) % OffsetRange
HomeLine(o) == (o \div TERM_COLS) * TERM_COLS
OffEnd(o)   == o \div TERM_COLS >= TERM_LINES

ScrollScreenUp(o) == HomeLine(Up(o))
ScrolledIfOff(o)  == IF OffEnd(o) THEN ScrollScreenUp(o) ELSE o

WriteChar(o) == ScrolledIfOff((o + 1) % OffsetRange)
NewLine(o)   == ScrolledIfOff(HomeLine(Down(o)))
Tab(o)       == WriteChar(WriteChar(WriteChar(WriteChar(o))))
Backspace(o) == Left(WriteChar(Left(o)))

\* bcon_putchar.  Nothing prints '\r'.
Putchar(c, o) == CASE c = "newline" -> NewLine(o)
                   [] c = "tab"     -> Tab(o)
                   [] OTHER         -> WriteChar(o)

\* puts("\nQueueFull\n"): what is between the two newlines fits a line.
PutsQueueFull(o) == NewLine(NewLine(o))

-----------------------------------------------------------------------------
\* Boot: kmain calls init_console, init_cpu and the devices' constructors, then enables
\* interrupts.

BconInit ==
  /\ boot = "init_console"
  /\ cursor' = 0 /\ attached' = TRUE
  /\ boot' = "init_pic"
  /\ UNCHANGED <<input_queue, kbd_state, down, rebooted, unmasked, irqs>>

\* All lines are masked, but the one the second 8259 is connected to.
InitPic ==
  /\ boot = "init_pic"
  /\ unmasked' = {2}
  /\ boot' = "init_timer"
  /\ UNCHANGED <<input_queue, kbd_state, down, cursor, rebooted, irqs, attached>>

\* enable_irq, where PIC_0_MAX_IRQ is 7, and bind_irq.
EnableNext(n)    == unmasked \cup {n + 1} \* mutant of Enable
Enable(n)        == unmasked \cup {IF n < 7 THEN n ELSE n + 2}
Bind(n, handler) == [l \in DOMAIN irqs \cup {n} |-> IF l = n THEN handler ELSE irqs[l]]

InitTimer ==
  /\ boot = "init_timer"
  /\ irqs' = Bind(0, "timer_interrupt") /\ unmasked' = Enable(0)
  /\ boot' = "kbd_init"
  /\ UNCHANGED <<input_queue, kbd_state, down, cursor, rebooted, attached>>

KbdInit ==
  /\ boot = "kbd_init"
  /\ irqs' = Bind(1, "kbd_interrupt") /\ unmasked' = Enable(1)
  /\ boot' = "enable"
  /\ UNCHANGED <<input_queue, kbd_state, down, cursor, rebooted, attached>>

EnableInterrupts ==
  /\ boot = "enable"
  /\ boot' = "enabled"
  /\ UNCHANGED <<input_queue, kbd_state, down, cursor, rebooted, unmasked, irqs, attached>>

\* The interrupt a line raises, as init_pic has programmed it, and the number its gate in
\* the IDT passes on.  IRQ 9 has taken IRQ 8's gate; its own, 49, is left as bzero made it,
\* not present, as the loop that fills the rest of the table begins at 56.
Vector(n) == IF n < 8 THEN 40 + n ELSE 48 + (n - 8)
Gate(v)   == CASE v = 48 -> 9 [] v = 49 -> "not present" [] OTHER -> v - 40
Reached(n) == IF Gate(Vector(n)) \in DOMAIN irqs THEN irqs[Gate(Vector(n))] ELSE "NULL"

Output ==
  /\ boot # "init_console" /\ ~ rebooted
  /\ \E c \in Characters : cursor' = Putchar(c, cursor)
  /\ UNCHANGED <<input_queue, kbd_state, down, rebooted, lines>>

-----------------------------------------------------------------------------
\* bcon_kbd_handle, called by kbd_interrupt for each key that goes down or up.

KbdInterrupt ==
  /\ boot = "enabled" /\ ~ rebooted
  /\ 1 \in unmasked /\ Reached(1) = "kbd_interrupt"
  /\ attached

DontWrap(i) == IF i = BCON_KBD_QUEUE_LEN THEN 0 ELSE i + 1 \* mutant of After
After(i)    == (i + 1) % BCON_KBD_QUEUE_LEN

Enqueue(k) ==
  /\ KbdInterrupt
  /\ count < BCON_KBD_QUEUE_LEN
  /\ keys' = [keys EXCEPT ![tail] = k]
  /\ tail' = After(tail) /\ count' = count + 1
  /\ cursor' = Putchar(k, cursor)
  /\ UNCHANGED <<head, kbd_state, down, rebooted, lines>>

\* The key is lost, and not echoed.
QueueFull ==
  /\ KbdInterrupt
  /\ count = BCON_KBD_QUEUE_LEN
  /\ cursor' = PutsQueueFull(cursor)
  /\ UNCHANGED <<input_queue, kbd_state, down, rebooted, lines>>

EraseAlways == \* mutant of Dequeue
  /\ KbdInterrupt
  /\ IF count = 0 THEN UNCHANGED <<head, count>>
     ELSE head' = After(head) /\ count' = count - 1
  /\ cursor' = Backspace(cursor)
  /\ UNCHANGED <<tail, keys, kbd_state, down, rebooted, lines>>
CountForgotten == \* mutant of Dequeue, like the unused bcon_input_queue_head
  /\ KbdInterrupt
  /\ count > 0
  /\ head' = After(head)
  /\ cursor' = Backspace(cursor)
  /\ UNCHANGED <<count, tail, keys, kbd_state, down, rebooted, lines>>
\* Backspace: with an empty queue it is ignored, otherwise the character at the head goes.
Dequeue ==
  /\ KbdInterrupt
  /\ count > 0
  /\ head' = After(head) /\ count' = count - 1
  /\ cursor' = Backspace(cursor)
  /\ UNCHANGED <<tail, keys, kbd_state, down, rebooted, lines>>

\* kbd_state &= ~1<<n: the complement is taken before the shift, so that all bits up to n
\* are cleared.
ClearLess(n) == {b \in kbd_state : b >= n} \* mutant of Clear
Clear(n)     == {b \in kbd_state : b > n}

CtlMetaDel == {1, 2, 12}
AnyOfThem(state) == state \cap CtlMetaDel # {} \* mutant of Reboots
Reboots(state)   == CtlMetaDel \subseteq state

\* A modifier goes down, or repeats while it is held.
Press(k) ==
  /\ KbdInterrupt
  /\ kbd_state' = IF k = "caps" /\ Bit(k) \in kbd_state THEN kbd_state \ {Bit(k)}
                  ELSE kbd_state \cup {Bit(k)}
  /\ down' = down \cup {k}
  /\ rebooted' = Reboots(kbd_state')
  /\ UNCHANGED <<input_queue, cursor, lines>>

Release(k) ==
  /\ KbdInterrupt
  /\ k \in down
  /\ kbd_state' = IF k = "caps" THEN kbd_state ELSE Clear(Bit(k))
  /\ down' = down \ {k}
  /\ UNCHANGED <<input_queue, cursor, rebooted, lines>>

Boot == BconInit \/ InitPic \/ InitTimer \/ KbdInit \/ EnableInterrupts
Key  == QueueFull \/ Dequeue \/ \E k \in Characters : Enqueue(k)
Modifier == \E k \in Modifiers : Press(k) \/ Release(k)

Next == Boot \/ Output \/ Key \/ Modifier

Spec == Init /\ [][Next]_vars

-----------------------------------------------------------------------------
\* Properties.

Places == 0 .. BCON_KBD_QUEUE_LEN - 1

TypeOK ==
  /\ head \in Places /\ tail \in Places /\ count \in 0 .. BCON_KBD_QUEUE_LEN
  /\ keys \in [Places -> Characters]
  /\ kbd_state \subseteq {0, 1, 2, 4, 12} /\ down \subseteq Modifiers
  /\ cursor \in 0 .. OffsetRange - 1
  /\ rebooted \in BOOLEAN /\ attached \in BOOLEAN
  /\ unmasked \subseteq 0 .. 15
  /\ DOMAIN irqs \subseteq {0, 1} /\ \A n \in DOMAIN irqs :
                                       irqs[n] \in {"timer_interrupt", "kbd_interrupt"}
  /\ boot \in {"init_console", "init_pic", "init_timer", "kbd_init", "enable", "enabled"}

\* Whatever is typed, erased and printed, the cursor stays on the screen, so that no
\* character is written beyond video memory: the only thing that moves it back is a
\* backspace, and each needs a character typed before.
CursorOnScreen == cursor \in 0 .. ScreenLen - 1

\* No modifier is stuck: its bit is set only while one of its keys is down.  (Caps lock is
\* meant to stay.)
NoStuckModifier == \A b \in kbd_state \ {4} : \E k \in down : Bit(k) = b

\* The machine is rebooted by Ctl-Meta-Del only, all three held down at that moment.
RebootsOnlyOnCtlMetaDel ==
  [][rebooted' /\ ~ rebooted => {"ctl", "meta", "del"} \subseteq down']_vars

\* When interrupts are enabled, the timer and the keyboard are connected, and each line
\* that is let through, but that of the second 8259, reaches its handler.
LinesReachTheirHandlers ==
  boot = "enabled" =>
    /\ Reached(0) = "timer_interrupt" /\ Reached(1) = "kbd_interrupt" /\ attached
    /\ unmasked = {0, 1, 2}

\* The ring buffer is a queue.
Place(i) == IF head + i <= BCON_KBD_QUEUE_LEN THEN head + i - 1
            ELSE head + i - 1 - BCON_KBD_QUEUE_LEN
Line == INSTANCE TypeAhead WITH
  Keys <- Characters, Room <- BCON_KBD_QUEUE_LEN,
  typed <- [i \in 1 .. count |-> keys[Place(i)]]
ImplementsTypeAhead == Line!Spec
=============================================================================
