------------------------------- MODULE Kernel -------------------------------
(***************************************************************************)
(* The running kernel: kmain's last steps, the interrupt entry code        *)
(* (arch/i386/trap.S, arch/i386/irq.c), the timer's event list, the        *)
(* round-robin scheduler (sched.c) and the exit system call, interleaved   *)
(* with the 8259 interrupt controller and the user processes.              *)
(*                                                                         *)
(* A context is a flow of control with a stack of its own: 0 is kmain's,   *)
(* c > 0 is process c's.  The IDT's IRQ entries are trap gates, which      *)
(* leave interrupts enabled: until the cli that trap.S starts with, a      *)
(* second IRQ may enter on top of the first.  From that cli to iret        *)
(* nothing interrupts the handler, so it is one action; a handler that     *)
(* switches to another context is continued by Resume.                     *)
(*                                                                         *)
(* A definition marked "mutant" is what a plausible mistake would make of   *)
(* the definition after it; it is used to try the properties out.          *)
(***************************************************************************)
EXTENDS Integers, Sequences, SequencesExt, FiniteSetsExt

CONSTANTS
  MaxProcs,   \* SCHED_MAX_PROCS, the size of proctab
  InitProcs,  \* the processes kmain creates
  Interval    \* ticks between two calls of schedule (hertz/10)

ASSUME KernelAssumption ==
  /\ MaxProcs \in Nat /\ MaxProcs >= 2
  /\ InitProcs \in Nat \ {0}
  /\ Interval \in Nat \ {0}

Contexts == 0 .. MaxProcs - 1

\* The lines the kernel enables: the timer's (cpu.c:188) and the keyboard's
\* (kbd.c:51).  The lower the number, the higher the priority.
Timer == 0
Kbd   == 1
Irqs  == {Timer, Kbd}

VARIABLES
  phase,        \* how far kmain is; "stopped" after a panic or a reboot
  toAdd,        \* processes init_process has yet to add
  curproc,      \* the context that has the CPU
  status,       \* proctab[c].status
  base,         \* what context c does when no IRQ is being entered on it
  entry,        \* the IRQs entered on c's stack, innermost first, before their cli
  suspended,    \* c was switched away from inside the timer's handler
  irr,          \* 8259: requested IRQs
  isr,          \* 8259: IRQs in service
  active,       \* sched_event is on the timer's list
  t_remaining,  \* sched_event.t_remaining
  kends         \* how often kend was entered

vars == <<phase, toAdd, curproc, status, base, entry, suspended, irr, isr, active,
          t_remaining, kends>>

Init ==
  /\ phase = "init_sched"
  /\ toAdd = InitProcs
  /\ curproc = 0
  /\ status = [c \in Contexts |-> "PROC_NULL"]
  /\ base = [c \in Contexts |-> IF c = 0 THEN "boot" ELSE "none"]
  /\ entry = [c \in Contexts |-> << >>]
  /\ suspended = [c \in Contexts |-> FALSE]
  /\ irr = {}
  /\ isr = {}
  /\ active = FALSE
  /\ t_remaining = 0
  /\ kends = 0

-----------------------------------------------------------------------------
(* kmain, with interrupts disabled                                           *)

InitSched ==
  /\ phase = "init_sched"
  /\ phase' = "init_process"
  /\ status' = [c \in Contexts |-> IF c = 0 THEN status[c] ELSE "PROC_NULL"]
  /\ active' = TRUE
  /\ t_remaining' = Interval
  /\ UNCHANGED <<toAdd, curproc, base, entry, suspended, irr, isr, kends>>

\* create_process and sched_add: the first free slot of proctab, if there is one.
AddProcess ==
  LET free == {c \in Contexts \ {0} : status[c] = "PROC_NULL"}
  IN  /\ phase = "init_process" /\ toAdd > 0
      /\ toAdd' = toAdd - 1
      /\ \/ /\ free = {}
            /\ UNCHANGED <<status, base>>
         \/ \E c \in free :
              /\ \A d \in free : c <= d
              /\ status' = [status EXCEPT ![c] = "PROC_RUN"]
              /\ base' = [base EXCEPT ![c] = "user"]
      /\ UNCHANGED <<phase, curproc, entry, suspended, irr, isr, active, t_remaining,
                     kends>>

EnableInterrupts ==
  /\ phase = "init_process" /\ toAdd = 0
  /\ phase' = "running"
  /\ UNCHANGED <<toAdd, curproc, status, base, entry, suspended, irr, isr, active,
                 t_remaining, kends>>

-----------------------------------------------------------------------------
(* Interrupts                                                                *)

\* A device raises its line; the 8259 remembers one request per line.
Device(n) ==
  /\ n \notin irr
  /\ irr' = irr \cup {n}
  /\ UNCHANGED <<phase, toAdd, curproc, status, base, entry, suspended, isr, active,
                 t_remaining, kends>>

\* The CPU is between two instructions with interrupts enabled.
Interruptible == phase = "running" /\ ~suspended[curproc]

\* The 8259 delivers the request of the highest priority, if nothing of that
\* priority or a higher one is in service.
IrqEntry(n) ==
  /\ Interruptible
  /\ n \in irr
  /\ \A m \in irr : n <= m
  /\ \A m \in isr : n < m
  /\ irr' = irr \ {n}
  /\ isr' = isr \cup {n}
  /\ entry' = [entry EXCEPT ![curproc] = <<n>> \o @]
  /\ UNCHANGED <<phase, toAdd, curproc, status, base, suspended, active, t_remaining,
                 kends>>

EoiForgotten == isr                                           \* mutant
EoiAll       == {}                                            \* mutant

\* outb( PIC_0_CMD_PORT, 0x20 ), the non-specific end of interrupt: the 8259
\* takes the IRQ of the highest priority out of service, whichever handler asks.
Eoi == isr \ {Min(isr)}

\* The next instruction is the cli of the entry code of IRQ n.
AtHandler(n) == Interruptible /\ entry[curproc] # << >> /\ Head(entry[curproc]) = n

-----------------------------------------------------------------------------
(* The scheduler                                                             *)

NextSlot(st, c) == (c + 1) % MaxProcs                         \* mutant
ScanFromOne(st, c) ==                                         \* mutant
  LET can == {d \in Contexts \ {0, c} : st[d] = "PROC_RUN"} IN IF can = {} THEN c ELSE Min(can)
NoWrap(st, c) ==                                              \* mutant
  LET can == {d \in c + 1 .. MaxProcs - 1 : st[d] = "PROC_RUN"} IN IF can = {} THEN c ELSE Min(can)

\* Where schedule's loop stops, given the statuses st, when it starts at c: at
\* the next process that can run, or back at c.
NextProc(st, c) ==
  LET At(k) == (c + k) % MaxProcs
      stops == {k \in 1 .. MaxProcs :
                  At(k) = c \/ (At(k) # 0 /\ st[At(k)] = "PROC_RUN")}
  IN  At(Min(stops))

KendStillScheduled ==                                         \* mutant
  /\ base' = [base EXCEPT ![curproc] = "kend"]
  /\ entry' = [entry EXCEPT ![curproc] = << >>]
  /\ kends' = kends + 1
  /\ UNCHANGED <<active, suspended>>

\* No process can run: sched_event is deleted and kend starts.  It never returns,
\* so that the entries below it on the stack are lost.
Kend ==
  /\ active' = FALSE
  /\ base' = [base EXCEPT ![curproc] = "kend"]
  /\ entry' = [entry EXCEPT ![curproc] = << >>]
  /\ kends' = kends + 1
  /\ UNCHANGED suspended

\* The rest of schedule.  The context it leaves is then in state left, and frames
\* is what remains of the entries on its stack.
SwitchTo(to, st, left, inHandler, frames) ==
  /\ curproc' = to
  /\ status' = st
  /\ \/ st[to] # "PROC_RUN" /\ Kend
     \/ /\ st[to] = "PROC_RUN"
        /\ base' = [base EXCEPT ![curproc] = left]
        /\ entry' = [entry EXCEPT ![curproc] = frames]
        /\ suspended' = [suspended EXCEPT ![curproc] = inHandler /\ to # curproc]
        /\ UNCHANGED <<active, kends>>

ReloadForgotten == 0                                          \* mutant

\* p->t_remaining = p->t_interval
Reload == Interval

\* timer_interrupt: count sched_event down, reload it, call schedule.
TimerInterrupt ==
  /\ AtHandler(Timer)
  /\ isr' = Eoi
  /\ IF active /\ t_remaining = 1
     THEN /\ t_remaining' = Reload
          /\ SwitchTo(NextProc(status, curproc), status, base[curproc], TRUE,
                      Tail(entry[curproc]))
     ELSE /\ t_remaining' = IF active THEN t_remaining - 1 ELSE t_remaining
          /\ entry' = [entry EXCEPT ![curproc] = Tail(@)]
          /\ UNCHANGED <<curproc, status, base, suspended, active, kends>>
  /\ UNCHANGED <<phase, toAdd, irr>>

\* The keyboard's handler; Ctrl-Alt-Del reboots the machine.
KbdInterrupt ==
  /\ AtHandler(Kbd)
  /\ isr' = Eoi
  /\ entry' = [entry EXCEPT ![curproc] = Tail(@)]
  /\ phase' \in {"running", "stopped"}
  /\ UNCHANGED <<toAdd, curproc, status, base, suspended, irr, active, t_remaining,
                 kends>>

\* A context that was switched back to returns from schedule, its event and
\* timer_interrupt, and executes the iret.
Resume ==
  /\ phase = "running" /\ suspended[curproc]
  /\ suspended' = [suspended EXCEPT ![curproc] = FALSE]
  /\ UNCHANGED <<phase, toAdd, curproc, status, base, entry, irr, isr, active,
                 t_remaining, kends>>

-----------------------------------------------------------------------------
(* User processes                                                            *)

InUserMode == Interruptible /\ entry[curproc] = << >> /\ base[curproc] = "user"

StillRunnable(pid) == status                                  \* mutant

\* proctab[pid].status = PROC_NULL
Killed(pid) == [status EXCEPT ![pid] = "PROC_NULL"]

\* int $0x80 with eax = 1, through an interrupt gate: process_kill( curproc ).
SyscallExit ==
  LET st == Killed(curproc)
  IN  /\ InUserMode
      /\ SwitchTo(NextProc(st, curproc), st, "killed", FALSE, << >>)
      /\ UNCHANGED <<phase, toAdd, irr, isr, t_remaining>>

\* An exception, through a trap gate: the handler's cli is still to come.
Fault ==
  /\ InUserMode
  /\ base' = [base EXCEPT ![curproc] = "exception"]
  /\ UNCHANGED <<phase, toAdd, curproc, status, entry, suspended, irr, isr, active,
                 t_remaining, kends>>

Panic ==
  /\ Interruptible /\ entry[curproc] = << >> /\ base[curproc] = "exception"
  /\ phase' = "stopped"
  /\ UNCHANGED <<toAdd, curproc, status, base, entry, suspended, irr, isr, active,
                 t_remaining, kends>>

-----------------------------------------------------------------------------
Boot    == InitSched \/ AddProcess \/ EnableInterrupts
Handler == TimerInterrupt \/ KbdInterrupt \/ Resume

Next ==
  \/ Boot
  \/ \E n \in Irqs : Device(n) \/ IrqEntry(n)
  \/ Handler
  \/ SyscallExit \/ Fault \/ Panic

Spec == Init /\ [][Next]_vars

\* The 8253 goes on ticking; the CPU goes on executing instructions and takes an
\* interrupt it is offered, a keyboard interrupt although ticks come between.
\* Nothing makes a process exit or fault, and nobody has to press a key.
Fairness ==
  /\ WF_vars(Device(Timer))
  /\ WF_vars(Boot \/ IrqEntry(Timer) \/ TimerInterrupt \/ Resume)
  /\ SF_vars(IrqEntry(Kbd))
  /\ SF_vars(KbdInterrupt)

FairSpec == Spec /\ Fairness

-----------------------------------------------------------------------------
(* Correctness                                                               *)

TypeOK ==
  /\ phase \in {"init_sched", "init_process", "running", "stopped"}
  /\ toAdd \in 0 .. InitProcs
  /\ curproc \in Contexts
  /\ status \in [Contexts -> {"PROC_NULL", "PROC_RUN"}]
  /\ base \in [Contexts -> {"none", "boot", "user", "exception", "killed", "kend"}]
  /\ entry \in [Contexts -> Seq(Irqs)]
  /\ suspended \in [Contexts -> BOOLEAN]
  /\ irr \subseteq Irqs /\ isr \subseteq Irqs
  /\ active \in BOOLEAN
  /\ t_remaining \in 0 .. Interval
  /\ kends \in Nat

\* The 8259 holds in service exactly the IRQs whose handlers have not sent their
\* end of interrupt, each entered once on one stack: no interrupt is lost or
\* acknowledged twice, although handlers are entered on top of each other and
\* contexts are switched between entry and return.
ServiceDiscipline ==
  /\ isr = UNION {ToSet(entry[c]) : c \in Contexts}
  /\ \A c, d \in Contexts : \A i \in DOMAIN entry[c], j \in DOMAIN entry[d] :
       entry[c][i] = entry[d][j] => c = d /\ i = j

\* The end of interrupt a handler sends (arch/i386/irq.c:8-18) names no IRQ; the
\* one it retires is the handler's own.
EoiRetiresOwnIrq ==
  Interruptible /\ entry[curproc] # << >> =>
    isr \ Eoi = {Head(entry[curproc])}

\* The CPU is never given to a process that has ended: the context that runs is
\* kmain's before the first switch, a process that can run, or kend.
CurrentIsLive ==
  \/ curproc = 0 /\ base[0] = "boot" /\ kends = 0
  \/ curproc # 0 /\ status[curproc] = "PROC_RUN" /\ base[curproc] \in {"user", "exception"}
  \/ base[curproc] = "kend" /\ \A c \in Contexts : status[c] = "PROC_NULL"

\* kend runs once, and the scheduler never again (sched.c:81-83): otherwise
\* every interval would start one more kend on the same stack.
KendOnce == kends <= 1 /\ (kends = 1 => ~active /\ base[curproc] = "kend")

\* A process that has ended has no frame left to return to.
DeadStaysDead ==
  [][\A c \in Contexts : base[c] = "killed" =>
       base'[c] = "killed" /\ curproc' # c /\ entry'[c] = << >>]_vars

\* The processes that could run if they had the CPU, and how far along schedule's scan of
\* proctab slot d is from slot c.
Ready == {c \in Contexts \ {curproc} : status[c] = "PROC_RUN"}
Distance(c, d) == IF d > c THEN d - c ELSE d - c + MaxProcs

\* Who has the processor, and who waits for it in the order of the scan.
running == IF status[curproc] = "PROC_RUN" THEN curproc ELSE 0
queue ==
  CHOOSE q \in [1 .. Cardinality(Ready) -> Ready] :
    \A i, j \in DOMAIN q : i < j => Distance(curproc, q[i]) < Distance(curproc, q[j])

Queue == INSTANCE RoundRobin WITH Processes <- Contexts \ {0}, Nobody <- 0

\* The scan of proctab is a first-come-first-served queue: no process is passed
\* over, also when others end between two switches.
ImplementsRoundRobin == Queue!Spec

\* Every process that can run gets the CPU, until the machine is stopped: the
\* tick that preempts is acknowledged before the switch (ChangeLog:64-66).
EveryProcessRuns ==
  \A c \in Contexts :
    (phase = "running" /\ status[c] = "PROC_RUN") ~> (curproc = c \/ phase = "stopped")

\* A tick, 10 ms, is much longer than a handler: the CPU is again and
\* again done with the tick it was interrupted by before the next one comes.
TicksAreSlow ==
  []<>(phase = "running" => Interruptible /\ Timer \notin irr \cup isr)

\* The keyboard's entry code was interrupted on kmain's stack, and the scheduler
\* switched away from it: sched.c:60 never goes back to context 0.
Stranded == Kbd \in ToSet(entry[0]) /\ curproc # 0

\* A key that is pressed is handled, unless the keyboard is stranded.
KeyIsHandled == TicksAreSlow =>
  ((phase = "running" /\ Kbd \in irr) ~> (Kbd \notin irr \/ phase = "stopped" \/ Stranded))

\* "kend meerly enables interrupts and enters a while(1){halt();} loop so that it
\* can show off the keyboard driver" (ChangeLog:22-24): a key pressed then is
\* handled.
KeyboardWorksInKend == TicksAreSlow =>
  ((phase = "running" /\ base[curproc] = "kend" /\ Kbd \in irr)
     ~> (Kbd \notin irr \/ phase = "stopped"))
=============================================================================
