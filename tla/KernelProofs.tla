---------------------------- MODULE KernelProofs ----------------------------
(***************************************************************************)
(* What Kernel.tla's runs check for a proctab of four slots, for every     *)
(* table size, number of processes and interval.  The inductive invariant  *)
(* says which frames can be on which stack: a timer interrupt only on top  *)
(* and only of the context that has the CPU, a keyboard interrupt below it *)
(* or alone, on one stack only.  The second half shows that the scan of    *)
(* proctab implements the queue of RoundRobin.tla.                         *)
(***************************************************************************)
EXTENDS Kernel, FiniteSetTheorems, SequenceTheorems, WellFoundedInduction, TLAPS

Stacks == {<< >>, <<Timer>>, <<Kbd>>, <<Timer, Kbd>>}

HasTimer(c) == entry[c] \in {<<Timer>>, <<Timer, Kbd>>}
HasKbd(c)   == entry[c] \in {<<Kbd>>, <<Timer, Kbd>>}

\* The entries on the stacks and the IRQs in service.
StackInv ==
  /\ entry \in [Contexts -> Stacks]
  /\ \A c \in Contexts : c # curproc \/ suspended[c] => ~HasTimer(c)
  /\ \A c, d \in Contexts : HasKbd(c) /\ HasKbd(d) => c = d
  /\ isr \subseteq Irqs
  /\ Timer \in isr <=> HasTimer(curproc)
  /\ Kbd \in isr <=> \E c \in Contexts : HasKbd(c)

\* The processes and what their contexts do.
ProcInv ==
  /\ status[0] = "PROC_NULL" /\ base[0] = "boot"
  /\ \A c \in Contexts \ {0} :
       /\ base[c] # "boot"
       /\ status[c] = "PROC_RUN" <=> base[c] \in {"user", "exception"}
  /\ \A c \in Contexts : base[c] \in {"none", "killed"} => entry[c] = << >> /\ ~suspended[c]

\* The context that has the CPU, and kend.
CurrentInv ==
  /\ curproc # 0 => base[curproc] \in {"user", "exception", "kend"}
  /\ \A c \in Contexts : base[c] = "kend" =>
       /\ c = curproc /\ ~suspended[c] /\ ~active /\ kends = 1
       /\ \A d \in Contexts : status[d] = "PROC_NULL"
  /\ kends = 0 \/ (kends = 1 /\ base[curproc] = "kend")

\* Before interrupts are enabled, and what kmain has then set up.
BootInv ==
  /\ phase \in {"init_sched", "init_process"} =>
       /\ curproc = 0 /\ kends = 0 /\ isr = {}
       /\ \A c \in Contexts : /\ entry[c] = << >> /\ ~suspended[c]
                              /\ base[c] \in {"boot", "none", "user"}
  /\ phase = "init_sched" =>
       toAdd = InitProcs /\ \A c \in Contexts : status[c] = "PROC_NULL"
  /\ phase = "init_process" =>
       toAdd = InitProcs \/ \E c \in Contexts : status[c] = "PROC_RUN"
  /\ phase \in {"running", "stopped"} /\ curproc = 0 =>
       \E c \in Contexts : status[c] = "PROC_RUN"
  /\ active => t_remaining # 0

IInv == TypeOK /\ StackInv /\ ProcInv /\ CurrentInv /\ BootInv

-----------------------------------------------------------------------------
(* Lemmas                                                                    *)

\* A set of natural numbers that is not empty has a least element, and Min chooses it.
LEMMA Smallest ==
  ASSUME NEW T, T \subseteq Nat, T # {}
  PROVE  Min(T) \in T /\ \A y \in T : Min(T) <= y
<1> DEFINE R == OpToRel(<, Nat)
<1>1. \A x, y \in Nat : <<x, y>> \in R <=> x < y
  BY DEF OpToRel
<1>2. PICK x \in T : \A y \in T : ~ (<<y, x>> \in R)
  BY NatLessThanWellFounded, WFMin
<1> HIDE DEF R
<1>3. \A y \in T : x <= y
  <2>1. \A y \in T : ~ (y < x)
    BY <1>1, <1>2
  <2> QED BY <2>1
<1> QED BY <1>3 DEF Min

\* schedule's loop (sched.c:57-61) visits every slot of proctab before it gives
\* up: when it does not find a process that can run, there is none.
LEMMA NextProcFacts ==
  ASSUME NEW st \in [Contexts -> {"PROC_NULL", "PROC_RUN"}], st[0] = "PROC_NULL",
         NEW c \in Contexts
  PROVE  /\ NextProc(st, c) \in Contexts
         /\ NextProc(st, c) = c \/ st[NextProc(st, c)] = "PROC_RUN"
         /\ (\E d \in Contexts : st[d] = "PROC_RUN") =>
              st[NextProc(st, c)] = "PROC_RUN"
         /\ \A d \in Contexts \ {c} : st[d] = "PROC_RUN" =>
              NextProc(st, c) # c /\ Distance(c, NextProc(st, c)) <= Distance(c, d)
<1> DEFINE At(k) == (c + k) % MaxProcs
           stops == {k \in 1 .. MaxProcs :
                       At(k) = c \/ (At(k) # 0 /\ st[At(k)] = "PROC_RUN")}
           m == Min(stops)
<1>1. MaxProcs \in Nat \ {0} /\ c \in 0 .. MaxProcs - 1
  BY KernelAssumption DEF Contexts
<1>2. \A x \in 0 .. 2 * MaxProcs - 1 :
        x % MaxProcs = IF x < MaxProcs THEN x ELSE x - MaxProcs
  BY <1>1
<1>3. \A k \in 1 .. MaxProcs : c + k \in 0 .. 2 * MaxProcs - 1
  BY <1>1
<1>4. ASSUME NEW k \in 1 .. MaxProcs
      PROVE  At(k) = IF c + k < MaxProcs THEN c + k ELSE c + k - MaxProcs
  <2> DEFINE x == c + k
  <2>1. x \in 0 .. 2 * MaxProcs - 1
    BY <1>3
  <2> HIDE DEF x
  <2>2. x % MaxProcs = IF x < MaxProcs THEN x ELSE x - MaxProcs
    BY <1>2, <2>1
  <2>3. x = c + k /\ x \in Nat /\ At(k) = x % MaxProcs
    BY <1>1 DEF x
  <2> HIDE DEF At
  <2> QED BY <1>1, <2>2, <2>3
<1> HIDE DEF At
<1>5. \A k \in 1 .. MaxProcs : At(k) \in Contexts
  BY <1>1, <1>4 DEF Contexts
<1>6. MaxProcs \in stops
  BY <1>1, <1>4
<1>7. m \in stops /\ \A k \in stops : m <= k
  <2>1. stops \subseteq Nat /\ stops # {}
    BY <1>1, <1>6
  <2> HIDE DEF stops
  <2> QED BY <2>1, Smallest
<1>8. NextProc(st, c) = At(m)
  BY DEF NextProc, At
<1> HIDE DEF m
<1>9. m \in 1 .. MaxProcs /\ (At(m) = c \/ st[At(m)] = "PROC_RUN")
  BY <1>7
<1>10. ASSUME NEW d \in Contexts, st[d] = "PROC_RUN", st[At(m)] # "PROC_RUN"
       PROVE  FALSE
  <2>1. At(m) = c /\ d # c /\ d # 0
    BY <1>9, <1>10
  <2>2. m = MaxProcs
    BY <1>1, <1>4, <1>9, <2>1
  <2> DEFINE k == IF d > c THEN d - c ELSE d - c + MaxProcs
  <2>3. k \in 1 .. MaxProcs - 1 /\ At(k) = d
    <3>1. d \in 0 .. MaxProcs - 1
      BY DEF Contexts
    <3>2. k \in 1 .. MaxProcs - 1
      BY <1>1, <2>1, <3>1
    <3> QED BY <1>1, <1>4, <3>1, <3>2
  <2> HIDE DEF k
  <2>4. k \in stops
    BY <1>1, <1>10, <2>1, <2>3
  <2> QED BY <1>1, <1>7, <2>2, <2>3, <2>4
<1>11. ASSUME NEW d \in Contexts \ {c}, st[d] = "PROC_RUN"
       PROVE  At(m) # c /\ Distance(c, At(m)) <= Distance(c, d)
  <2> DEFINE k == Distance(c, d)
  <2>1. k \in 1 .. MaxProcs - 1 /\ At(k) = d /\ d # 0
    <3>1. d \in 0 .. MaxProcs - 1 /\ d # c /\ d # 0
      BY <1>11 DEF Contexts
    <3>2. k \in 1 .. MaxProcs - 1
      BY <1>1, <3>1 DEF Distance
    <3> QED BY <1>1, <1>4, <3>1, <3>2 DEF Distance
  <2> HIDE DEF k
  <2>2. m <= k
    BY <1>1, <1>7, <1>11, <2>1
  <2>3. m \in 1 .. MaxProcs - 1
    BY <1>1, <1>9, <2>1, <2>2
  <2>4. At(m) # c /\ Distance(c, At(m)) = m
    <3>1. At(m) = IF c + m < MaxProcs THEN c + m ELSE c + m - MaxProcs
      BY <1>4, <1>9
    <3> QED BY <1>1, <2>3, <3>1 DEF Distance
  <2> QED BY <2>2, <2>4 DEF k
<1> QED BY <1>5, <1>8, <1>9, <1>10, <1>11

\* The four stacks of entries, and what entering and leaving an IRQ makes of them.
LEMMA StackFacts ==
  /\ Stacks \subseteq Seq(Irqs)
  /\ \A s \in Stacks : s # << >> =>
       /\ Head(s) = Timer => s \in {<<Timer>>, <<Timer, Kbd>>}
       /\ Head(s) = Kbd => s = <<Kbd>>
  /\ Tail(<<Timer>>) = << >> /\ Tail(<<Kbd>>) = << >> /\ Tail(<<Timer, Kbd>>) = <<Kbd>>
  /\ <<Timer>> \o << >> = <<Timer>> /\ <<Kbd>> \o << >> = <<Kbd>>
  /\ <<Timer>> \o <<Kbd>> = <<Timer, Kbd>>
  /\ <<Timer>> # << >> /\ <<Kbd>> # << >> /\ <<Timer, Kbd>> # << >>
  /\ <<Timer>> # <<Kbd>> /\ <<Timer>> # <<Timer, Kbd>> /\ <<Kbd>> # <<Timer, Kbd>>
<1>1. Stacks \subseteq Seq(Irqs)
  BY DEF Stacks, Irqs
<1>2. /\ Head(<<Timer>>) = Timer /\ Head(<<Kbd>>) = Kbd /\ Head(<<Timer, Kbd>>) = Timer
      /\ Timer # Kbd
  BY DEF Timer, Kbd
<1>3. /\ Tail(<<Timer>>) = << >> /\ Tail(<<Kbd>>) = << >>
  BY DEF Timer, Kbd
<1>4. Tail(<<Timer, Kbd>>) = <<Kbd>>
  BY DEF Timer, Kbd
<1>5. <<Timer>> \o << >> = <<Timer>> /\ <<Kbd>> \o << >> = <<Kbd>>
  BY DEF Timer, Kbd
<1>6. <<Timer>> \o <<Kbd>> = <<Timer, Kbd>>
  <2> DEFINE s == <<Timer>> \o <<Kbd>>
  <2>1. <<Timer>> \in Seq(Nat) /\ <<Kbd>> \in Seq(Nat)
    BY DEF Timer, Kbd
  <2>2. s \in Seq(Nat) /\ Len(s) = 2 /\ s[1] = Timer /\ s[2] = Kbd
    BY <2>1
  <2>3. <<Timer, Kbd>> \in Seq(Nat) /\ Len(<<Timer, Kbd>>) = 2
    BY DEF Timer, Kbd
  <2> HIDE DEF s
  <2>4. s = <<Timer, Kbd>>
    BY <2>2, <2>3
  <2> QED BY <2>4 DEF s
<1>7. <<Timer>> # << >> /\ <<Kbd>> # << >> /\ <<Timer, Kbd>> # << >>
  OBVIOUS
<1>8. <<Timer>> # <<Kbd>> /\ <<Timer>> # <<Timer, Kbd>> /\ <<Kbd>> # <<Timer, Kbd>>
  BY DEF Timer, Kbd
<1> QED BY <1>1, <1>2, <1>3, <1>4, <1>5, <1>6, <1>7, <1>8 DEF Stacks

\* The end of interrupt takes the timer out of service if it is in service.
LEMMA EoiFacts ==
  ASSUME isr \subseteq Irqs
  PROVE  /\ Timer \in isr => Eoi = isr \ {Timer}
         /\ isr = {Kbd} => Eoi = {}
<1>1. isr \subseteq Nat
  BY DEF Irqs, Timer, Kbd
<1>2. ASSUME Timer \in isr PROVE Eoi = isr \ {Timer}
  <2> DEFINE m == Min(isr)
  <2>1. m \in isr /\ m <= Timer
    BY <1>1, <1>2, Smallest
  <2>2. Eoi = isr \ {m}
    BY DEF Eoi
  <2> HIDE DEF m
  <2>3. m = Timer
    BY <1>1, <2>1 DEF Timer
  <2> QED BY <2>2, <2>3
<1>3. ASSUME isr = {Kbd} PROVE Eoi = {}
  <2>1. Min(isr) \in isr
    BY <1>1, <1>3, Smallest
  <2> QED BY <1>3, <2>1 DEF Eoi
<1> QED BY <1>2, <1>3

-----------------------------------------------------------------------------
(* Each action keeps the invariant                                           *)

LEMMA InitInv == Init => IInv
<1> SUFFICES ASSUME Init PROVE IInv
  OBVIOUS
<1> USE DEF Init
<1>1. 0 \in Contexts
  BY KernelAssumption DEF Contexts
<1>2. \A c \in Contexts : ~HasTimer(c) /\ ~HasKbd(c)
  BY StackFacts DEF HasTimer, HasKbd
<1>3. TypeOK
  BY <1>1, KernelAssumption DEF TypeOK
<1>4. StackInv
  BY <1>1, <1>2 DEF StackInv, Stacks
<1>5. ProcInv /\ CurrentInv /\ BootInv
  BY <1>1 DEF ProcInv, CurrentInv, BootInv
<1> QED BY <1>3, <1>4, <1>5 DEF IInv

LEMMA BootStep ==
  ASSUME IInv, Boot
  PROVE  IInv'
<1> USE DEF IInv
<1>1. /\ phase \in {"init_sched", "init_process"}
      /\ curproc = 0 /\ isr = {} /\ kends = 0
      /\ curproc' = 0 /\ isr' = {} /\ kends' = 0
      /\ entry' = entry /\ suspended' = suspended /\ irr' = irr
      /\ \A c \in Contexts : entry[c] = << >> /\ ~suspended[c]
  BY DEF Boot, InitSched, AddProcess, EnableInterrupts, BootInv
<1>2. StackInv'
  BY <1>1 DEF StackInv, HasTimer, HasKbd
<1>3. 0 \in Contexts
  BY KernelAssumption DEF Contexts
<1>4. CASE InitSched
  <2>1. TypeOK'
    BY <1>4, KernelAssumption DEF InitSched, TypeOK
  <2>2. ProcInv' /\ CurrentInv'
    BY <1>1, <1>3, <1>4 DEF InitSched, TypeOK, ProcInv, CurrentInv, BootInv
  <2>3. BootInv'
    BY <1>1, <1>3, <1>4, KernelAssumption DEF InitSched, TypeOK, ProcInv, BootInv
  <2> QED BY <1>2, <2>1, <2>2, <2>3
<1>5. CASE AddProcess
  <2> DEFINE free == {c \in Contexts \ {0} : status[c] = "PROC_NULL"}
  <2>1. /\ phase = "init_process" /\ toAdd > 0 /\ toAdd' = toAdd - 1
        /\ UNCHANGED <<phase, active, t_remaining>>
    BY <1>5 DEF AddProcess
  <2>2. CASE free = {} /\ UNCHANGED <<status, base>>
    <3>1. 1 \in Contexts \ {0}
      BY KernelAssumption DEF Contexts
    <3>2. status[1] = "PROC_RUN"
      BY <2>2, <3>1 DEF TypeOK
    <3> QED BY <1>1, <1>2, <1>3, <2>1, <2>2, <3>1, <3>2
            DEF TypeOK, ProcInv, CurrentInv, BootInv
  <2>3. ASSUME NEW c \in free,
               status' = [status EXCEPT ![c] = "PROC_RUN"],
               base' = [base EXCEPT ![c] = "user"]
        PROVE  IInv'
    <3>1. c \in Contexts /\ c # 0 /\ status'[c] = "PROC_RUN"
      BY <2>3 DEF TypeOK
    <3>2. TypeOK'
      <4>1. toAdd' \in 0 .. InitProcs
        BY <2>1, KernelAssumption DEF TypeOK
      <4> QED BY <1>1, <2>1, <2>3, <4>1 DEF TypeOK
    <3>3. ProcInv'
      BY <1>1, <1>3, <2>3, <3>1 DEF TypeOK, ProcInv
    <3>4. CurrentInv'
      BY <1>1, <1>3, <2>3, <3>1 DEF TypeOK, ProcInv, CurrentInv, BootInv
    <3>5. BootInv'
      BY <1>1, <1>3, <2>1, <2>3, <3>1 DEF TypeOK, ProcInv, BootInv
    <3> QED BY <1>2, <3>2, <3>3, <3>4, <3>5
  <2> QED BY <1>5, <2>2, <2>3 DEF AddProcess
<1>6. CASE EnableInterrupts
  BY <1>1, <1>2, <1>6, KernelAssumption
     DEF EnableInterrupts, TypeOK, ProcInv, CurrentInv, BootInv
<1> QED BY <1>4, <1>5, <1>6 DEF Boot

LEMMA DeviceStep ==
  ASSUME IInv, NEW n \in Irqs, Device(n)
  PROVE  IInv'
BY DEF IInv, Device, TypeOK, StackInv, HasTimer, HasKbd, ProcInv, CurrentInv, BootInv

\* The context that has the CPU is one that entries can be pushed on.
LEMMA CurrentFacts ==
  ASSUME IInv
  PROVE  /\ curproc \in Contexts /\ 0 \in Contexts
         /\ base[curproc] \notin {"none", "killed"}
<1>1. 0 \in Contexts
  BY KernelAssumption DEF Contexts
<1> QED BY <1>1 DEF IInv, TypeOK, ProcInv, CurrentInv

LEMMA IrqEntryStep ==
  ASSUME IInv, NEW n \in Irqs, IrqEntry(n)
  PROVE  IInv'
<1> USE DEF IInv
<1>1. /\ phase = "running" /\ ~suspended[curproc]
      /\ \A m \in isr : n < m
      /\ isr' = isr \cup {n} /\ irr' = irr \ {n}
      /\ entry' = [entry EXCEPT ![curproc] = <<n>> \o entry[curproc]]
      /\ UNCHANGED <<phase, toAdd, curproc, status, base, suspended, active, t_remaining,
                     kends>>
  BY DEF IrqEntry, Interruptible
<1>2. entry[curproc] \in Stacks /\ entry \in [Contexts -> Stacks]
  BY CurrentFacts DEF StackInv
<1>3. \A c \in Contexts : c # curproc => entry'[c] = entry[c]
  BY <1>1, <1>2
<1>4. entry'[curproc] = <<n>> \o entry[curproc]
  BY <1>1, <1>2, CurrentFacts
<1>5. ASSUME n = Timer PROVE StackInv'
  <2>1. Timer \notin isr
    BY <1>1, <1>5 DEF Timer
  <2>2. entry[curproc] \in {<< >>, <<Kbd>>}
    BY <1>2, <2>1 DEF StackInv, HasTimer, Stacks
  <2>3. entry'[curproc] \in Stacks /\ HasTimer(curproc)' /\ (HasKbd(curproc)' <=> HasKbd(curproc))
    BY <1>1, <1>4, <1>5, <2>2, StackFacts DEF HasTimer, HasKbd, Stacks
  <2>4. entry' \in [Contexts -> Stacks]
    BY <1>1, <1>2, <1>4, <2>3, CurrentFacts
  <2>5. \A c \in Contexts : /\ HasKbd(c)' <=> HasKbd(c)
                            /\ c # curproc => (HasTimer(c)' <=> HasTimer(c))
    BY <1>1, <1>3, <2>3 DEF HasKbd, HasTimer
  <2>6. Kbd \in isr' <=> Kbd \in isr
    BY <1>1, <1>5 DEF Timer, Kbd
  <2> QED BY <1>1, <1>5, <2>3, <2>4, <2>5, <2>6 DEF StackInv
<1>6. ASSUME n = Kbd PROVE StackInv'
  <2>1. isr = {}
    BY <1>1, <1>6 DEF StackInv, Irqs, Timer, Kbd
  <2>2. /\ \A c \in Contexts : ~HasKbd(c)
        /\ ~HasTimer(curproc)
    BY <2>1 DEF StackInv
  <2>3. entry[curproc] = << >>
    BY <1>2, <2>2, CurrentFacts DEF Stacks, HasTimer, HasKbd
  <2>4. entry'[curproc] = <<Kbd>>
    BY <1>4, <1>6, <2>3, StackFacts
  <2>5. HasKbd(curproc)' /\ ~HasTimer(curproc)' /\ entry'[curproc] \in Stacks
    BY <1>1, <2>4, StackFacts DEF HasKbd, HasTimer, Stacks
  <2>6. entry' \in [Contexts -> Stacks]
    BY <1>1, <1>2, <1>4, <2>5, CurrentFacts
  <2>7. \A c \in Contexts : c # curproc => ~HasKbd(c)' /\ (HasTimer(c)' <=> HasTimer(c))
    BY <1>3, <2>2 DEF HasKbd, HasTimer
  <2>8. Timer \notin isr'
    BY <1>1, <1>6, <2>1 DEF Timer, Kbd
  <2> QED BY <1>1, <1>6, <2>1, <2>5, <2>6, <2>7, <2>8, CurrentFacts DEF StackInv
<1>7. StackInv'
  BY <1>5, <1>6 DEF Irqs
<1>8. TypeOK'
  <2>1. entry' \in [Contexts -> Seq(Irqs)]
    BY <1>7, StackFacts DEF StackInv
  <2> QED BY <1>1, <2>1 DEF TypeOK
<1>9. ProcInv' /\ CurrentInv' /\ BootInv'
  BY <1>1, <1>3, CurrentFacts DEF TypeOK, ProcInv, CurrentInv, BootInv
<1> QED BY <1>7, <1>8, <1>9

LEMMA KbdStep ==
  ASSUME IInv, KbdInterrupt
  PROVE  IInv'
<1> USE DEF IInv
<1>1. /\ phase = "running" /\ ~suspended[curproc] /\ phase' \in {"running", "stopped"}
      /\ entry[curproc] # << >> /\ Head(entry[curproc]) = Kbd
      /\ isr' = Eoi
      /\ entry' = [entry EXCEPT ![curproc] = Tail(entry[curproc])]
      /\ UNCHANGED <<toAdd, curproc, status, base, suspended, irr, active, t_remaining,
                     kends>>
  BY DEF KbdInterrupt, AtHandler, Interruptible
<1>2. entry[curproc] = <<Kbd>> /\ entry \in [Contexts -> Stacks]
  BY <1>1, CurrentFacts, StackFacts DEF StackInv
<1>3. /\ entry'[curproc] = << >>
      /\ \A c \in Contexts : c # curproc => entry'[c] = entry[c]
  BY <1>1, <1>2, CurrentFacts, StackFacts
<1>4. isr = {Kbd}
  <2>1. HasKbd(curproc) /\ ~HasTimer(curproc)
    BY <1>2, StackFacts DEF HasKbd, HasTimer
  <2> QED BY <2>1, CurrentFacts DEF StackInv, Irqs
<1>5. isr' = {}
  BY <1>1, <1>4, EoiFacts DEF Irqs
<1>6. \A c \in Contexts : ~HasKbd(c)' /\ (c # curproc => (HasTimer(c)' <=> HasTimer(c)))
  <2>1. HasKbd(curproc)
    BY <1>2 DEF HasKbd
  <2> QED BY <1>3, <2>1, CurrentFacts, StackFacts DEF StackInv, HasKbd, HasTimer
<1>7. ~HasTimer(curproc)'
  BY <1>1, <1>3, StackFacts DEF HasTimer
<1>8. StackInv'
  <2>1. entry' \in [Contexts -> Stacks]
    BY <1>1, <1>2, <1>3, CurrentFacts DEF Stacks
  <2> QED BY <1>1, <1>5, <1>6, <1>7, <2>1 DEF StackInv
<1>9. TypeOK'
  <2>1. entry' \in [Contexts -> Seq(Irqs)]
    BY <1>8, StackFacts DEF StackInv
  <2> QED BY <1>1, <1>5, <2>1 DEF TypeOK
<1>10. ProcInv' /\ CurrentInv' /\ BootInv'
  BY <1>1, <1>3, CurrentFacts DEF TypeOK, ProcInv, CurrentInv, BootInv
<1> QED BY <1>8, <1>9, <1>10

LEMMA ResumeStep ==
  ASSUME IInv, Resume
  PROVE  IInv'
<1> USE DEF IInv
<1>1. /\ phase = "running" /\ suspended[curproc]
      /\ suspended' = [suspended EXCEPT ![curproc] = FALSE]
      /\ UNCHANGED <<phase, toAdd, curproc, status, base, entry, irr, isr, active,
                     t_remaining, kends>>
  BY DEF Resume
<1>2. \A c \in Contexts : suspended'[c] => suspended[c]
  BY <1>1 DEF TypeOK
<1>3. TypeOK'
  BY <1>1 DEF TypeOK
<1>4. StackInv'
  BY <1>1, <1>2 DEF StackInv, HasTimer, HasKbd
<1>5. ProcInv' /\ CurrentInv' /\ BootInv'
  BY <1>1, <1>2 DEF TypeOK, ProcInv, CurrentInv, BootInv
<1> QED BY <1>3, <1>4, <1>5

LEMMA FaultStep ==
  ASSUME IInv, Fault \/ Panic
  PROVE  IInv'
<1> USE DEF IInv
<1>1. /\ phase = "running" /\ phase' \in {"running", "stopped"}
      /\ UNCHANGED <<toAdd, curproc, status, entry, suspended, irr, isr, active,
                     t_remaining, kends>>
      /\ \/ base' = base
         \/ base[curproc] = "user" /\ base' = [base EXCEPT ![curproc] = "exception"]
  BY DEF Fault, Panic, InUserMode, Interruptible
<1>2. /\ \A c \in Contexts : \/ base'[c] = base[c]
                             \/ c = curproc /\ base[c] = "user" /\ base'[c] = "exception"
      /\ base' \in [Contexts -> {"none", "boot", "user", "exception", "killed", "kend"}]
  BY <1>1 DEF TypeOK
<1>3. TypeOK' /\ StackInv'
  BY <1>1, <1>2 DEF TypeOK, StackInv, HasTimer, HasKbd
<1>4. ProcInv' /\ CurrentInv'
  BY <1>1, <1>2, CurrentFacts DEF TypeOK, ProcInv, CurrentInv
<1>5. BootInv'
  BY <1>1 DEF BootInv
<1> QED BY <1>3, <1>4, <1>5

LEMMA ExitStep ==
  ASSUME IInv, SyscallExit
  PROVE  IInv'
<1> USE DEF IInv
<1> DEFINE st == Killed(curproc)
           to == NextProc(st, curproc)
<1>1. /\ phase = "running" /\ ~suspended[curproc] /\ entry[curproc] = << >>
      /\ base[curproc] = "user"
      /\ SwitchTo(to, st, "killed", FALSE, << >>)
      /\ UNCHANGED <<phase, toAdd, irr, isr, t_remaining>>
  BY DEF SyscallExit, InUserMode, Interruptible
<1>2. /\ curproc \in Contexts \ {0} /\ 0 \in Contexts
      /\ st \in [Contexts -> {"PROC_NULL", "PROC_RUN"}]
      /\ st[0] = "PROC_NULL" /\ st[curproc] = "PROC_NULL"
      /\ \A c \in Contexts : c # curproc => st[c] = status[c]
  BY <1>1, CurrentFacts DEF TypeOK, ProcInv, Killed
<1>3. /\ to \in Contexts
      /\ to = curproc \/ st[to] = "PROC_RUN"
      /\ (\E d \in Contexts : st[d] = "PROC_RUN") => st[to] = "PROC_RUN"
  <2> HIDE DEF st
  <2> QED BY <1>2, NextProcFacts
<1>4. curproc' = to /\ status' = st
  BY <1>1 DEF SwitchTo, Kend
<1> HIDE DEF to, st
<1>5. entry' = entry
  BY <1>1 DEF SwitchTo, Kend, TypeOK
<1>6. /\ suspended' = suspended
      /\ base' = [base EXCEPT ![curproc] = IF st[to] = "PROC_RUN" THEN "killed" ELSE "kend"]
      /\ IF st[to] = "PROC_RUN" THEN active' = active /\ kends' = kends
                                ELSE active' = FALSE /\ kends' = kends + 1
  BY <1>1, <1>2 DEF SwitchTo, Kend, TypeOK
<1>7. kends = 0
  BY <1>1 DEF CurrentInv
<1>8. ~HasTimer(curproc) /\ ~HasTimer(to) /\ Timer \notin isr
  BY <1>1, <1>3, StackFacts DEF StackInv, HasTimer
<1>9. StackInv'
  BY <1>1, <1>4, <1>5, <1>6, <1>8 DEF StackInv, HasTimer, HasKbd
<1>10. TypeOK'
  <2>1. active' \in BOOLEAN /\ kends' \in Nat
    <3>1. CASE st[to] = "PROC_RUN"
      BY <1>6, <3>1 DEF TypeOK
    <3>2. CASE st[to] # "PROC_RUN"
      <4>1. active' = FALSE
        BY <1>6, <3>2
      <4>2. kends' = 1
        BY <1>6, <1>7, <3>2
      <4> QED BY <4>1, <4>2
    <3> QED BY <3>1, <3>2
  <2>2. base' \in [Contexts -> {"none", "boot", "user", "exception", "killed", "kend"}]
    BY <1>6 DEF TypeOK
  <2> QED BY <1>1, <1>2, <1>3, <1>4, <1>5, <1>6, <2>1, <2>2 DEF TypeOK
<1>11. /\ base'[curproc] = IF st[to] = "PROC_RUN" THEN "killed" ELSE "kend"
       /\ \A c \in Contexts : c # curproc => base'[c] = base[c]
  BY <1>2, <1>6 DEF TypeOK
<1>12. ProcInv'
  BY <1>1, <1>2, <1>4, <1>5, <1>6, <1>11 DEF ProcInv
<1>13. CurrentInv'
  <2>1. CASE st[to] = "PROC_RUN"
    <3>1. to # curproc /\ to # 0 /\ base'[to] \in {"user", "exception"}
      BY <1>2, <1>3, <1>11, <2>1 DEF ProcInv
    <3>2. \A c \in Contexts : base'[c] # "kend"
      BY <1>1, <1>11, <2>1 DEF CurrentInv
    <3> QED BY <1>4, <1>6, <1>7, <2>1, <3>1, <3>2 DEF CurrentInv
  <2>2. CASE st[to] # "PROC_RUN"
    <3>1. to = curproc /\ \A d \in Contexts : st[d] = "PROC_NULL"
      BY <1>2, <1>3, <2>2
    <3>2. \A c \in Contexts : base'[c] = "kend" => c = to
      BY <1>1, <1>11, <3>1 DEF CurrentInv
    <3> QED BY <1>1, <1>4, <1>6, <1>7, <1>11, <2>2, <3>1, <3>2 DEF CurrentInv
  <2> QED BY <2>1, <2>2
<1>14. BootInv'
  <2>1. to # 0
    BY <1>2, <1>3
  <2> QED BY <1>1, <1>4, <1>6, <2>1 DEF BootInv
<1> QED BY <1>9, <1>10, <1>12, <1>13, <1>14

LEMMA TimerStep ==
  ASSUME IInv, TimerInterrupt
  PROVE  IInv'
<1> USE DEF IInv
<1> DEFINE to == NextProc(status, curproc)
           below == Tail(entry[curproc])
<1>1. /\ phase = "running" /\ ~suspended[curproc]
      /\ entry[curproc] # << >> /\ Head(entry[curproc]) = Timer
      /\ isr' = Eoi
      /\ UNCHANGED <<phase, toAdd, irr>>
  BY DEF TimerInterrupt, AtHandler, Interruptible
<1>2. /\ curproc \in Contexts /\ 0 \in Contexts
      /\ status \in [Contexts -> {"PROC_NULL", "PROC_RUN"}] /\ status[0] = "PROC_NULL"
  BY CurrentFacts DEF TypeOK, ProcInv
<1>3. /\ to \in Contexts
      /\ to = curproc \/ status[to] = "PROC_RUN"
      /\ (\E d \in Contexts : status[d] = "PROC_RUN") => status[to] = "PROC_RUN"
  BY <1>2, NextProcFacts
<1> HIDE DEF to
<1>4. /\ entry \in [Contexts -> Stacks]
      /\ entry[curproc] \in {<<Timer>>, <<Timer, Kbd>>}
      /\ below \in {<< >>, <<Kbd>>}
  BY <1>1, <1>2, StackFacts DEF StackInv
<1> HIDE DEF below
<1>5. active => status[to] = "PROC_RUN"
  BY <1>1, <1>2, <1>3 DEF ProcInv, CurrentInv, BootInv
<1>6. isr' = isr \ {Timer}
  BY <1>1, <1>4, EoiFacts DEF StackInv, HasTimer
\* Whichever way the handler ends, the entry leaves the stack; only the context
\* that the scheduler leaves is marked.
<1>7. /\ entry' = [entry EXCEPT ![curproc] = below]
      /\ status' = status /\ base' = base /\ active' = active /\ kends' = kends
      /\ \/ curproc' = curproc /\ suspended' = suspended
         \/ /\ curproc' = to /\ to # curproc /\ active
            /\ suspended' = [suspended EXCEPT ![curproc] = TRUE]
      /\ t_remaining' \in 0 .. Interval
      /\ active => t_remaining' # 0
  <2>1. CASE active /\ t_remaining = 1
    <3>1. /\ t_remaining' = Interval
          /\ SwitchTo(to, status, base[curproc], TRUE, below)
      BY <2>1 DEF TimerInterrupt, Reload, to, below
    <3>2. /\ curproc' = to /\ status' = status
          /\ base' = [base EXCEPT ![curproc] = base[curproc]]
          /\ entry' = [entry EXCEPT ![curproc] = below]
          /\ suspended' = [suspended EXCEPT ![curproc] = to # curproc]
          /\ active' = active /\ kends' = kends
      BY <1>5, <2>1, <3>1 DEF SwitchTo, Kend
    <3>3. base' = base
      BY <3>2 DEF TypeOK
    <3>4. to = curproc => suspended' = suspended
      BY <1>1, <3>2 DEF TypeOK
    <3>5. to # curproc => suspended' = [suspended EXCEPT ![curproc] = TRUE]
      BY <3>2
    <3> QED BY <2>1, <3>1, <3>2, <3>3, <3>4, <3>5, KernelAssumption
  <2>2. CASE ~(active /\ t_remaining = 1)
    <3>1. /\ t_remaining' = IF active THEN t_remaining - 1 ELSE t_remaining
          /\ entry' = [entry EXCEPT ![curproc] = below]
          /\ UNCHANGED <<curproc, status, base, suspended, active, kends>>
      BY <2>2 DEF TimerInterrupt, below
    <3>2. t_remaining \in 0 .. Interval /\ (active => t_remaining # 0)
      BY DEF TypeOK, BootInv
    <3> QED BY <2>2, <3>1, <3>2, KernelAssumption
  <2> QED BY <2>1, <2>2
<1>8. /\ entry'[curproc] = below
      /\ \A c \in Contexts : c # curproc => entry'[c] = entry[c]
      /\ entry' \in [Contexts -> Stacks]
  BY <1>2, <1>4, <1>7 DEF Stacks
<1>9. /\ \A c \in Contexts : ~HasTimer(c)'
      /\ \A c \in Contexts : HasKbd(c)' <=> HasKbd(c)
  <2>1. ASSUME NEW c \in Contexts, c = curproc
        PROVE  ~HasTimer(c)' /\ (HasKbd(c)' <=> HasKbd(c))
    <3>1. entry[c] = <<Timer, Kbd>> <=> below = <<Kbd>>
      BY <1>4, <2>1, StackFacts DEF below
    <3>2. entry'[c] = below /\ below \in {<< >>, <<Kbd>>}
      BY <1>4, <1>8, <2>1
    <3>3. entry[c] \in {<<Timer>>, <<Timer, Kbd>>}
      BY <1>4, <2>1
    <3> QED BY <3>1, <3>2, <3>3, StackFacts DEF HasTimer, HasKbd
  <2>2. ASSUME NEW c \in Contexts, c # curproc
        PROVE  ~HasTimer(c)' /\ (HasKbd(c)' <=> HasKbd(c))
    BY <1>8, <2>2 DEF StackInv, HasTimer, HasKbd
  <2> QED BY <2>1, <2>2
<1>10. curproc' \in Contexts
  BY <1>2, <1>3, <1>7
<1>11. StackInv'
  <2>1. Kbd \in isr' <=> Kbd \in isr
    BY <1>6 DEF Timer, Kbd
  <2>2. ~HasTimer(curproc)'
    <3>1. \A c : HasTimer(c)' <=> entry'[c] \in {<<Timer>>, <<Timer, Kbd>>}
      BY DEF HasTimer
    <3>2. HasTimer(curproc)' <=> entry'[curproc'] \in {<<Timer>>, <<Timer, Kbd>>}
      BY DEF HasTimer
    <3> QED BY <1>9, <1>10, <3>1, <3>2
  <2> QED BY <1>6, <1>8, <1>9, <2>1, <2>2 DEF StackInv
<1>12. TypeOK'
  <2>1. entry' \in [Contexts -> Seq(Irqs)]
    BY <1>8, StackFacts
  <2>2. suspended' \in [Contexts -> BOOLEAN] /\ isr' \subseteq Irqs
    BY <1>6, <1>7 DEF TypeOK
  <2> QED BY <1>1, <1>7, <1>10, <2>1, <2>2 DEF TypeOK
<1>13. \A c \in Contexts : base[c] \in {"none", "killed"} =>
         entry'[c] = << >> /\ suspended'[c] = suspended[c]
  BY <1>7, <1>8, CurrentFacts DEF TypeOK, ProcInv
<1>14. ProcInv'
  BY <1>7, <1>13 DEF ProcInv
<1>15. CurrentInv'
  <2>1. CASE curproc' = curproc /\ suspended' = suspended
    BY <1>7, <2>1 DEF CurrentInv
  <2>2. CASE curproc' = to /\ to # curproc /\ active
    <3>1. to # 0 /\ base[to] \in {"user", "exception"}
      BY <1>2, <1>3, <2>2 DEF ProcInv
    <3>2. \A c \in Contexts : base[c] # "kend"
      BY <2>2 DEF CurrentInv
    <3> QED BY <1>2, <1>7, <2>2, <3>1, <3>2 DEF CurrentInv
  <2> QED BY <1>7, <2>1, <2>2
<1>16. BootInv'
  <2>1. curproc' = 0 => curproc = 0
    BY <1>2, <1>3, <1>7
  <2> QED BY <1>1, <1>7, <2>1 DEF BootInv
<1> QED BY <1>11, <1>12, <1>14, <1>15, <1>16

-----------------------------------------------------------------------------
(* The theorems                                                              *)

LEMMA StutterStep ==
  ASSUME IInv, UNCHANGED vars
  PROVE  IInv'
BY DEF IInv, vars, TypeOK, StackInv, HasTimer, HasKbd, ProcInv, CurrentInv, BootInv

\* The inductive invariant holds in every state of the kernel, however ticks,
\* keys, system calls and exceptions are interleaved.
THEOREM Invariance == Spec => []IInv
<1>1. IInv /\ [Next]_vars => IInv'
  <2> SUFFICES ASSUME IInv, [Next]_vars PROVE IInv'
    OBVIOUS
  <2> QED BY BootStep, DeviceStep, IrqEntryStep, KbdStep, ResumeStep, FaultStep,
             ExitStep, TimerStep, StutterStep DEF Next, Handler
<1> QED BY <1>1, InitInv, PTL DEF Spec

\* The type invariant of the kernel.
THEOREM TypeCorrect == Spec => []TypeOK
<1>1. IInv => TypeOK
  BY DEF IInv
<1> QED BY <1>1, Invariance, PTL

\* What is on a stack of entries, as a set and position by position.
LEMMA StackElements ==
  ASSUME NEW s \in Stacks
  PROVE  /\ ToSet(s) \subseteq Irqs
         /\ Timer \in ToSet(s) <=> s \in {<<Timer>>, <<Timer, Kbd>>}
         /\ Kbd \in ToSet(s) <=> s \in {<<Kbd>>, <<Timer, Kbd>>}
         /\ \A i, j \in DOMAIN s : s[i] = s[j] => i = j
         /\ \A i \in DOMAIN s : s[i] \in ToSet(s)
<1>1. s = << >> => ToSet(s) = {} /\ DOMAIN s = {}
  BY DEF ToSet
<1>2. s = <<Timer>> => ToSet(s) = {Timer} /\ DOMAIN s = {1}
  BY DEF ToSet
<1>3. s = <<Kbd>> => ToSet(s) = {Kbd} /\ DOMAIN s = {1}
  BY DEF ToSet
<1>4. s = <<Timer, Kbd>> =>
        ToSet(s) = {Timer, Kbd} /\ DOMAIN s = {1, 2} /\ s[1] = Timer /\ s[2] = Kbd
  BY DEF ToSet
<1>5. Timer # Kbd
  BY DEF Timer, Kbd
<1>6. \A i \in DOMAIN s : s[i] \in ToSet(s)
  BY DEF ToSet
<1> QED BY <1>1, <1>2, <1>3, <1>4, <1>5, <1>6, StackFacts DEF Stacks, Irqs

\* The 8259's in-service register and the handlers that are running agree.
THEOREM InServiceIsEntered == Spec => []ServiceDiscipline
<1>1. IInv => ServiceDiscipline
  <2> SUFFICES ASSUME IInv PROVE ServiceDiscipline
    OBVIOUS
  <2>1. StackInv /\ curproc \in Contexts
    BY DEF IInv, TypeOK
  <2>2. \A c \in Contexts : /\ entry[c] \in Stacks
                            /\ Timer \in ToSet(entry[c]) <=> HasTimer(c)
                            /\ Kbd \in ToSet(entry[c]) <=> HasKbd(c)
    BY <2>1, StackElements DEF StackInv, HasTimer, HasKbd
  <2>3. isr = UNION {ToSet(entry[c]) : c \in Contexts}
    <3> DEFINE all == UNION {ToSet(entry[c]) : c \in Contexts}
    <3>1. all \subseteq Irqs
      BY <2>2, StackElements
    <3>2. \A n : n \in all <=> \E c \in Contexts : n \in ToSet(entry[c])
      OBVIOUS
    <3> HIDE DEF all
    <3>3. Timer \in isr <=> Timer \in all
      BY <2>1, <2>2, <3>2 DEF StackInv
    <3>4. Kbd \in isr <=> Kbd \in all
      BY <2>1, <2>2, <3>2 DEF StackInv
    <3>5. isr = all
      BY <2>1, <3>1, <3>3, <3>4 DEF StackInv, Irqs
    <3> QED BY <3>5 DEF all
  <2>4. ASSUME NEW c \in Contexts, NEW d \in Contexts,
               NEW i \in DOMAIN entry[c], NEW j \in DOMAIN entry[d],
               entry[c][i] = entry[d][j]
        PROVE  c = d /\ i = j
    <3>1. /\ entry[c][i] \in Irqs
          /\ entry[c][i] \in ToSet(entry[c]) /\ entry[c][i] \in ToSet(entry[d])
      BY <2>2, <2>4, StackElements
    <3>2. (HasTimer(c) /\ HasTimer(d)) \/ (HasKbd(c) /\ HasKbd(d))
      BY <2>2, <3>1 DEF Irqs
    <3>3. c = d
      BY <2>1, <3>2 DEF StackInv
    <3> QED BY <2>2, <2>4, <3>3, StackElements
  <2> QED BY <2>3, <2>4 DEF ServiceDiscipline
<1> QED BY <1>1, Invariance, PTL

\* An end of interrupt retires the interrupt of the handler that sends it.
THEOREM EoiIsItsOwn == Spec => []EoiRetiresOwnIrq
<1>1. IInv => EoiRetiresOwnIrq
  <2> SUFFICES ASSUME IInv, entry[curproc] # << >>
               PROVE  isr \ Eoi = {Head(entry[curproc])}
    BY DEF EoiRetiresOwnIrq
  <2>1. StackInv /\ curproc \in Contexts /\ entry[curproc] \in Stacks
    BY DEF IInv, TypeOK, StackInv
  <2>2. CASE HasTimer(curproc)
    <3>1. Head(entry[curproc]) = Timer
      BY <2>2 DEF HasTimer, Timer, Kbd
    <3>2. Timer \in isr /\ Eoi = isr \ {Timer}
      BY <2>1, <2>2, EoiFacts DEF StackInv
    <3> QED BY <3>1, <3>2
  <2>3. CASE ~HasTimer(curproc)
    <3>1. entry[curproc] = <<Kbd>>
      BY <2>1, <2>3 DEF HasTimer, Stacks
    <3>2. isr = {Kbd}
      BY <2>1, <2>3, <3>1 DEF StackInv, HasKbd, Irqs
    <3>3. Head(entry[curproc]) = Kbd /\ Eoi = {}
      BY <3>1, <3>2, EoiFacts DEF Irqs
    <3> QED BY <3>2, <3>3
  <2> QED BY <2>2, <2>3
<1> QED BY <1>1, Invariance, PTL

\* The CPU is never given to a process that has ended.
THEOREM SchedulerIsSafe == Spec => []CurrentIsLive
<1>1. IInv => CurrentIsLive
  BY DEF IInv, TypeOK, ProcInv, CurrentInv, CurrentIsLive
<1> QED BY <1>1, Invariance, PTL

\* kend is entered once, and not again.
THEOREM KendIsEnteredOnce == Spec => []KendOnce
<1>1. IInv => KendOnce
  BY DEF IInv, TypeOK, CurrentInv, KendOnce
<1> QED BY <1>1, Invariance, PTL

\* A process that has ended never runs again, whatever is still on the list of
\* timer events: nothing switches back to a stack and a TSS that were freed.
THEOREM EndedForGood == Spec => DeadStaysDead
<1> DEFINE Stays == \A c \in Contexts : base[c] = "killed" =>
                      base'[c] = "killed" /\ curproc' # c /\ entry'[c] = << >>
<1>1. ASSUME IInv, IInv', [Next]_vars
      PROVE  [Stays]_vars
  <2> SUFFICES ASSUME Next, NEW c \in Contexts, base[c] = "killed"
               PROVE  base'[c] = "killed" /\ curproc' # c /\ entry'[c] = << >>
    BY <1>1
  <2>1. c # curproc /\ base \in [Contexts -> {"none", "boot", "user", "exception",
                                             "killed", "kend"}]
    BY <1>1, CurrentFacts DEF IInv, TypeOK
  <2>2. base'[c] = "killed"
    <3>1. CASE Boot
      BY <1>1, <3>1 DEF Boot, InitSched, AddProcess, EnableInterrupts, IInv, BootInv
    <3>2. CASE \E n \in Irqs : Device(n) \/ IrqEntry(n)
      BY <3>2 DEF Device, IrqEntry
    <3>3. CASE Handler
      BY <2>1, <3>3 DEF Handler, TimerInterrupt, SwitchTo, Kend, KbdInterrupt, Resume
    <3>4. CASE SyscallExit
      BY <2>1, <3>4 DEF SyscallExit, SwitchTo, Kend
    <3>5. CASE Fault \/ Panic
      BY <2>1, <3>5 DEF Fault, Panic
    <3> QED BY <3>1, <3>2, <3>3, <3>4, <3>5 DEF Next
  <2>3. entry'[c] = << >>
    BY <1>1, <2>2 DEF IInv, ProcInv
  <2>4. curproc' # c
    BY <1>1, <2>2, CurrentFacts DEF IInv, TypeOK, ProcInv, CurrentInv
  <2> QED BY <2>2, <2>3, <2>4
<1> QED BY <1>1, Invariance, PTL DEF Spec, DeadStaysDead

-----------------------------------------------------------------------------
(* The scan of proctab is a queue                                            *)

Statuses == [Contexts -> {"PROC_NULL", "PROC_RUN"}]

\* Who waits when cur has the CPU, and that q is all of them in the order of the scan.
Waiting(st, cur) == {c \in Contexts \ {cur} : st[c] = "PROC_RUN"}
IsQueue(q, st, cur) ==
  /\ q \in [1 .. Cardinality(Waiting(st, cur)) -> Waiting(st, cur)]
  /\ \A i, j \in DOMAIN q : i < j => Distance(cur, q[i]) < Distance(cur, q[j])

\* There is such a sequence, and processes are added in the order of their slots.
QueueInv ==
  /\ \E q : IsQueue(q, status, curproc)
  /\ phase \in {"init_sched", "init_process"} =>
       \A c, d \in Contexts \ {0} : d < c /\ status[c] = "PROC_RUN" => status[d] = "PROC_RUN"

\* Slots that wait are at different distances, and there are finitely many.
LEMMA WaitingFacts ==
  ASSUME NEW st \in Statuses, NEW cur \in Contexts
  PROVE  /\ Waiting(st, cur) \subseteq Contexts \ {cur} /\ cur \in Int
         /\ Contexts \subseteq Nat /\ MaxProcs \in Nat
         /\ \A c \in Contexts : Distance(cur, c) \in Nat
         /\ IsFiniteSet(Waiting(st, cur)) /\ Cardinality(Waiting(st, cur)) \in Nat
<1>1. MaxProcs \in Nat /\ Contexts = 0 .. MaxProcs - 1 /\ cur \in 0 .. MaxProcs - 1
  BY KernelAssumption DEF Contexts
<1>2. Waiting(st, cur) \subseteq Contexts \ {cur}
  BY DEF Waiting
<1>3. \A c \in Contexts : Distance(cur, c) \in Nat
  BY <1>1 DEF Distance
<1>4. IsFiniteSet(Contexts)
  BY <1>1, FS_Interval
<1>5. IsFiniteSet(Waiting(st, cur))
  BY <1>2, <1>4, FS_Subset
<1> QED BY <1>1, <1>2, <1>3, <1>5, FS_CardinalityType

\* Nobody is in the queue twice, and nobody who waits is missing.
LEMMA QueueIsAll ==
  ASSUME NEW st \in Statuses, NEW cur \in Contexts, NEW q, IsQueue(q, st, cur)
  PROVE  /\ \A i, j \in DOMAIN q : q[i] = q[j] => i = j
         /\ \A c \in Waiting(st, cur) : \E i \in DOMAIN q : q[i] = c
<1> DEFINE S == Waiting(st, cur)
           n == Cardinality(S)
<1>1. /\ q \in [1 .. n -> S] /\ DOMAIN q = 1 .. n
      /\ \A i, j \in 1 .. n : i < j => Distance(cur, q[i]) < Distance(cur, q[j])
  BY DEF IsQueue
<1>2. S \subseteq Contexts /\ n \in Nat /\ IsFiniteSet(S)
  BY WaitingFacts
<1> HIDE DEF n, S
<1>3. \A i, j \in 1 .. n : q[i] = q[j] => i = j
  <2> SUFFICES ASSUME NEW i \in 1 .. n, NEW j \in 1 .. n, i < j, q[i] = q[j] PROVE FALSE
    BY <1>2
  <2>1. Distance(cur, q[i]) < Distance(cur, q[j]) /\ Distance(cur, q[i]) \in Nat
    BY <1>1, <1>2, WaitingFacts
  <2> QED BY <2>1
<1>4. q \in Injection(1 .. n, S)
  BY <1>1, <1>3 DEF Injection, IsInjective
<1>5. IsFiniteSet(1 .. n) /\ Cardinality(1 .. n) = Cardinality(S)
  BY <1>2, FS_Interval DEF n
<1>6. q \in Surjection(1 .. n, S)
  BY <1>2, <1>4, <1>5, FS_Injection
<1>7. \A c \in S : \E i \in 1 .. n : q[i] = c
  BY <1>6 DEF Surjection
<1> QED BY <1>1, <1>3, <1>7 DEF S

\* There is only one such sequence: at the first place where two differ, each would have
\* the other's process behind its own.
LEMMA QueueIsOne ==
  ASSUME NEW st \in Statuses, NEW cur \in Contexts,
         NEW q, IsQueue(q, st, cur), NEW r, IsQueue(r, st, cur)
  PROVE  q = r
<1> DEFINE n == Cardinality(Waiting(st, cur))
           T == {i \in 1 .. n : q[i] # r[i]}
           m == Min(T)
<1>1. /\ q \in [1 .. n -> Waiting(st, cur)] /\ r \in [1 .. n -> Waiting(st, cur)]
      /\ \A i, j \in 1 .. n : i < j => /\ Distance(cur, q[i]) < Distance(cur, q[j])
                                       /\ Distance(cur, r[i]) < Distance(cur, r[j])
  BY DEF IsQueue
<1>2. n \in Nat /\ \A c \in Waiting(st, cur) : Distance(cur, c) \in Nat
  BY WaitingFacts
<1>3. /\ \A i, j \in 1 .. n : (q[i] = q[j] => i = j) /\ (r[i] = r[j] => i = j)
      /\ \A c \in Waiting(st, cur) : /\ \E i \in 1 .. n : q[i] = c
                                     /\ \E i \in 1 .. n : r[i] = c
  <2>1. DOMAIN q = 1 .. n /\ DOMAIN r = 1 .. n
    BY <1>1
  <2>2. \A i, j \in DOMAIN q : q[i] = q[j] => i = j
    BY QueueIsAll
  <2>3. \A i, j \in DOMAIN r : r[i] = r[j] => i = j
    BY QueueIsAll
  <2>4. \A c \in Waiting(st, cur) : \E i \in DOMAIN q : q[i] = c
    BY QueueIsAll
  <2>5. \A c \in Waiting(st, cur) : \E i \in DOMAIN r : r[i] = c
    BY QueueIsAll
  <2> QED BY <2>1, <2>2, <2>3, <2>4, <2>5
<1> HIDE DEF n
<1> SUFFICES \A i \in 1 .. n : q[i] = r[i]
  <2>1. q = [i \in 1 .. n |-> q[i]] /\ r = [i \in 1 .. n |-> r[i]]
    BY <1>1
  <2>2. [i \in 1 .. n |-> q[i]] = [i \in 1 .. n |-> r[i]]
    OBVIOUS
  <2> QED BY <2>1, <2>2
<1> SUFFICES ASSUME T # {} PROVE FALSE
  OBVIOUS
<1>4. m \in T /\ \A i \in T : m <= i
  <2>1. T \subseteq Nat
    BY <1>2
  <2> HIDE DEF T
  <2> QED BY <2>1, Smallest
<1>5. m \in 1 .. n /\ q[m] # r[m]
  BY <1>4
<1> HIDE DEF m
<1>6. \A i \in 1 .. m - 1 : q[i] = r[i]
  BY <1>2, <1>4, <1>5
<1> HIDE DEF T
<1>7. PICK j \in 1 .. n : r[j] = q[m]
  BY <1>1, <1>3, <1>5
<1>8. PICK k \in 1 .. n : q[k] = r[m]
  BY <1>1, <1>3, <1>5
<1>9. j > m
  <2>1. j # m
    BY <1>5, <1>7
  <2>2. ~(j < m)
    <3> SUFFICES ASSUME j < m PROVE FALSE
      OBVIOUS
    <3>1. q[j] = r[j]
      BY <1>2, <1>5, <1>6
    <3> QED BY <1>3, <1>5, <1>7, <2>1, <3>1
  <2> QED BY <1>2, <1>5, <2>1, <2>2
<1>10. k > m
  <2>1. k # m
    BY <1>5, <1>8
  <2>2. ~(k < m)
    <3> SUFFICES ASSUME k < m PROVE FALSE
      OBVIOUS
    <3>1. q[k] = r[k]
      BY <1>2, <1>5, <1>6
    <3>2. r[k] = r[m]
      BY <1>8, <3>1
    <3> QED BY <1>3, <1>5, <2>1, <3>2
  <2> QED BY <1>2, <1>5, <2>1, <2>2
<1>11. /\ Distance(cur, q[m]) < Distance(cur, q[k]) /\ Distance(cur, r[m]) < Distance(cur, r[j])
       /\ Distance(cur, q[m]) \in Nat /\ Distance(cur, r[m]) \in Nat
  BY <1>1, <1>2, <1>5, <1>9, <1>10
<1> QED BY <1>7, <1>8, <1>11

\* The sequence that the specification chooses.
LEMMA QueueIs ==
  ASSUME NEW q
  PROVE  /\ status \in Statuses /\ curproc \in Contexts /\ IsQueue(q, status, curproc) =>
              queue = q
         /\ status' \in Statuses /\ curproc' \in Contexts /\ IsQueue(q, status', curproc') =>
              queue' = q
<1> DEFINE Pick(st, cur) ==
      CHOOSE r \in [1 .. Cardinality(Waiting(st, cur)) -> Waiting(st, cur)] :
        \A i, j \in DOMAIN r : i < j => Distance(cur, r[i]) < Distance(cur, r[j])
<1>1. ASSUME NEW st \in Statuses, NEW cur \in Contexts, IsQueue(q, st, cur)
      PROVE  Pick(st, cur) = q
  <2>1. IsQueue(Pick(st, cur), st, cur)
    BY <1>1 DEF IsQueue
  <2> HIDE DEF Pick
  <2> QED BY <1>1, <2>1, QueueIsOne
<1>2. queue = Pick(status, curproc)
  BY DEF queue, Ready, Waiting
<1>3. queue' = Pick(status', curproc')
  BY DEF queue, Ready, Waiting
<1> HIDE DEF Pick
<1> QED BY <1>1, <1>2, <1>3

\* What the distances are from the process that is next: those of the others are less by its
\* own, and the one that is left is behind them all.
LEMMA DistanceMoves ==
  ASSUME NEW cur \in Contexts, NEW to \in Contexts \ {cur}
  PROVE  /\ \A c \in Contexts : Distance(cur, to) < Distance(cur, c) =>
              Distance(to, c) = Distance(cur, c) - Distance(cur, to)
         /\ \A c \in Contexts \ {cur} : Distance(cur, to) < Distance(cur, c) =>
              Distance(to, c) < Distance(to, cur)
<1>1. MaxProcs \in Nat /\ cur \in 0 .. MaxProcs - 1 /\ to \in 0 .. MaxProcs - 1 /\ to # cur
  BY KernelAssumption DEF Contexts
<1>2. \A c \in Contexts : c \in 0 .. MaxProcs - 1
  BY DEF Contexts
<1> QED BY <1>1, <1>2 DEF Distance

\* Two slots are never equally far along the scan.
LEMMA DistanceApart ==
  ASSUME NEW cur \in Contexts, NEW c \in Contexts, NEW d \in Contexts, c # d
  PROVE  Distance(cur, c) # Distance(cur, d)
<1>1. MaxProcs \in Nat /\ cur \in 0 .. MaxProcs - 1 /\ c \in 0 .. MaxProcs - 1
      /\ d \in 0 .. MaxProcs - 1
  BY KernelAssumption DEF Contexts
<1> QED BY <1>1 DEF Distance

\* A sequence with another behind it, and the first of one that is not empty.
LEMMA JoinFacts ==
  ASSUME NEW u \in Seq(Nat), NEW v \in Seq(Nat)
  PROVE  /\ u \o v \in Seq(Nat) /\ Len(u \o v) = Len(u) + Len(v)
         /\ \A i \in 1 .. Len(u) + Len(v) :
              (u \o v)[i] = IF i <= Len(u) THEN u[i] ELSE v[i - Len(u)]
BY ConcatProperties

LEMMA HeadFacts ==
  ASSUME NEW u \in Seq(Nat), Len(u) >= 1
  PROVE  u # << >> /\ Head(u) = u[1]
BY EmptySeq

\* schedule goes to the head of the queue; the process it leaves, if it can still run, is
\* then the last.
LEMMA QueueMoves ==
  ASSUME NEW st \in Statuses, NEW cur \in Contexts,
         NEW q, IsQueue(q, st, cur),
         NEW to \in Contexts \ {cur}, st[to] = "PROC_RUN",
         \A c \in Waiting(st, cur) : Distance(cur, to) <= Distance(cur, c),
         NEW last, last = IF st[cur] = "PROC_RUN" THEN <<cur>> ELSE << >>
  PROVE  /\ q \o last # << >> /\ Head(q \o last) = to
         /\ q # << >> /\ Head(q) = to
         /\ IsQueue(Tail(q \o last), st, to)
<1> DEFINE S == Waiting(st, cur)
           S1 == Waiting(st, to)
           n == Cardinality(S)
           n1 == Cardinality(S1)
<1>1. /\ q \in [1 .. n -> S] /\ DOMAIN q = 1 .. n
      /\ \A i, j \in 1 .. n : i < j => Distance(cur, q[i]) < Distance(cur, q[j])
      /\ \A i, j \in 1 .. n : q[i] = q[j] => i = j
      /\ \A c \in S : \E i \in 1 .. n : q[i] = c
  <2>1. /\ q \in [1 .. n -> S] /\ DOMAIN q = 1 .. n
        /\ \A i, j \in 1 .. n : i < j => Distance(cur, q[i]) < Distance(cur, q[j])
    BY DEF IsQueue
  <2>2. \A i, j \in DOMAIN q : q[i] = q[j] => i = j
    BY QueueIsAll
  <2>3. \A c \in S : \E i \in DOMAIN q : q[i] = c
    BY QueueIsAll
  <2> QED BY <2>1, <2>2, <2>3
<1>2. /\ S \subseteq Contexts \ {cur} /\ Contexts \subseteq Nat
      /\ n \in Nat /\ n1 \in Nat /\ IsFiniteSet(S)
      /\ \A c \in Contexts : Distance(cur, c) \in Nat /\ Distance(to, c) \in Nat
  BY WaitingFacts
<1>3. /\ to \in S
      /\ S1 = IF st[cur] = "PROC_RUN" THEN (S \ {to}) \cup {cur} ELSE S \ {to}
  BY DEF Waiting
<1>4. n1 = IF st[cur] = "PROC_RUN" THEN n ELSE n - 1
  <2>1. IsFiniteSet(S \ {to}) /\ Cardinality(S \ {to}) = n - 1
    BY <1>2, <1>3, FS_RemoveElement
  <2>2. Cardinality((S \ {to}) \cup {cur}) = n - 1 + 1
    BY <1>2, <2>1, FS_AddElement
  <2> QED BY <1>2, <1>3, <2>1, <2>2
<1>5. \A c \in S : Distance(cur, to) <= Distance(cur, c)
  OBVIOUS
<1> HIDE DEF n, n1, S, S1
<1>6. n >= 1 /\ q[1] = to
  <2>1. PICK k \in 1 .. n : q[k] = to
    BY <1>1, <1>3
  <2>2. n >= 1 /\ q[1] \in S
    BY <1>1, <1>2, <2>1
  <2>3. k = 1
    <3> SUFFICES ASSUME 1 < k PROVE FALSE
      BY <1>2, <2>1
    <3>1. Distance(cur, q[1]) < Distance(cur, to)
      BY <1>1, <1>2, <2>1, <2>2
    <3>2. Distance(cur, to) <= Distance(cur, q[1])
      BY <1>5, <2>2
    <3>3. Distance(cur, q[1]) \in Nat /\ Distance(cur, to) \in Nat
      BY <1>2, <2>2
    <3> QED BY <3>1, <3>2, <3>3
  <2> QED BY <2>1, <2>2, <2>3
<1> DEFINE w == q \o last
<1>7. /\ q \in Seq(Nat) /\ Len(q) = n /\ last \in Seq(Nat)
      /\ Len(last) = (IF st[cur] = "PROC_RUN" THEN 1 ELSE 0)
      /\ st[cur] = "PROC_RUN" => last[1] = cur
  <2>1. q \in [1 .. n -> Nat]
    BY <1>1, <1>2
  <2>2. q \in Seq(Nat) /\ Len(q) = n
    BY <1>1, <1>2, <2>1
  <2>3. cur \in Nat
    BY <1>2
  <2> QED BY <2>2, <2>3
<1>8. /\ w \in Seq(Nat) /\ Len(w) = n1 + 1
      /\ \A i \in 1 .. n : w[i] = q[i]
      /\ st[cur] = "PROC_RUN" => w[n + 1] = cur
  <2>1. /\ w \in Seq(Nat) /\ Len(w) = n + Len(last)
        /\ \A i \in 1 .. n + Len(last) : w[i] = IF i <= n THEN q[i] ELSE last[i - n]
    <3>1. /\ w \in Seq(Nat) /\ Len(w) = Len(q) + Len(last)
          /\ \A i \in 1 .. Len(q) + Len(last) :
               w[i] = IF i <= Len(q) THEN q[i] ELSE last[i - Len(q)]
      BY <1>7, JoinFacts
    <3> HIDE DEF w
    <3> QED BY <1>7, <3>1
  <2> HIDE DEF w
  <2>2. Len(w) = n1 + 1
    BY <1>2, <1>4, <1>7, <2>1
  <2>3. \A i \in 1 .. n : w[i] = q[i]
    BY <1>2, <1>7, <2>1
  <2>4. st[cur] = "PROC_RUN" => w[n + 1] = cur
    BY <1>2, <1>7, <2>1
  <2> QED BY <2>1, <2>2, <2>3, <2>4
<1> HIDE DEF w
<1>9. w # << >> /\ Head(w) = to /\ q # << >> /\ Head(q) = to
  <2>1. q # << >> /\ Head(q) = q[1]
    BY <1>6, <1>7, HeadFacts
  <2>2. Len(w) >= 1 /\ w[1] = q[1]
    BY <1>2, <1>6, <1>8
  <2>3. w # << >> /\ Head(w) = w[1]
    BY <1>8, <2>2, HeadFacts
  <2> QED BY <1>6, <2>1, <2>2, <2>3
<1> DEFINE t == Tail(w)
<1>10. /\ t \in Seq(Nat) /\ Len(t) = n1
       /\ \A i \in 1 .. n1 : t[i] = w[i + 1]
  BY <1>2, <1>8
<1> HIDE DEF t
<1>11. ASSUME NEW i \in 1 .. n1
       PROVE  \/ /\ i \in 1 .. n - 1 /\ t[i] = q[i + 1] /\ t[i] \in S \ {to}
                 /\ Distance(cur, to) < Distance(cur, t[i])
              \/ i = n /\ t[i] = cur /\ st[cur] = "PROC_RUN"
  <2>1. CASE i \in 1 .. n - 1
    <3>1. t[i] = q[i + 1] /\ i + 1 \in 1 .. n
      BY <1>2, <1>8, <1>10, <2>1
    <3>2. q[i + 1] # q[1] /\ Distance(cur, q[1]) < Distance(cur, q[i + 1])
      BY <1>1, <1>2, <1>6, <2>1, <3>1
    <3> QED BY <1>1, <1>6, <2>1, <3>1, <3>2
  <2>2. CASE i \notin 1 .. n - 1
    <3>1. i = n /\ st[cur] = "PROC_RUN"
      BY <1>2, <1>4, <1>6, <2>2
    <3>2. t[i] = w[n + 1]
      BY <1>10, <3>1
    <3> QED BY <1>8, <3>1, <3>2
  <2> QED BY <2>1, <2>2
<1>12. t \in [1 .. n1 -> S1]
  <2>1. \A i \in 1 .. n1 : t[i] \in S1
    BY <1>3, <1>11
  <2> QED BY <1>2, <1>10, <2>1
<1>13. ASSUME NEW i \in 1 .. n1, NEW j \in 1 .. n1, i < j
       PROVE  Distance(to, t[i]) < Distance(to, t[j])
  <2>1. /\ i \in 1 .. n - 1 /\ t[i] = q[i + 1] /\ t[i] \in S \ {to}
        /\ Distance(cur, to) < Distance(cur, t[i])
    BY <1>2, <1>4, <1>11, <1>13
  <2>2. t[i] \in Contexts \ {cur}
    BY <1>2, <2>1
  <2>3. CASE j \in 1 .. n - 1 /\ t[j] = q[j + 1] /\ t[j] \in S \ {to}
             /\ Distance(cur, to) < Distance(cur, t[j])
    <3>1. Distance(cur, t[i]) < Distance(cur, t[j])
      BY <1>1, <1>2, <1>13, <2>1, <2>3
    <3>2. t[j] \in Contexts
      BY <1>2, <2>3
    <3>3. /\ Distance(to, t[i]) = Distance(cur, t[i]) - Distance(cur, to)
          /\ Distance(to, t[j]) = Distance(cur, t[j]) - Distance(cur, to)
      BY <2>1, <2>2, <2>3, <3>2, DistanceMoves
    <3>4. /\ Distance(cur, t[i]) \in Nat /\ Distance(cur, t[j]) \in Nat
          /\ Distance(cur, to) \in Nat
      BY <1>2, <2>2, <3>2
    <3> QED BY <3>1, <3>3, <3>4
  <2>4. CASE t[j] = cur
    BY <2>1, <2>2, <2>4, DistanceMoves
  <2> QED BY <1>11, <2>3, <2>4
<1> QED BY <1>9, <1>12, <1>13 DEF t, w, IsQueue, n1, S1

\* The first free slot is the one behind those in use: who is added while kmain still runs is
\* the last in the queue.
LEMMA QueueGrows ==
  ASSUME NEW st \in Statuses, NEW q, IsQueue(q, st, 0),
         NEW c \in Contexts \ {0}, st[c] # "PROC_RUN",
         \A d \in Contexts \ {0} : st[d] = "PROC_RUN" => d < c
  PROVE  /\ IsQueue(Append(q, c), [st EXCEPT ![c] = "PROC_RUN"], 0)
         /\ c \notin ToSet(q)
<1> DEFINE st1 == [st EXCEPT ![c] = "PROC_RUN"]
           S == Waiting(st, 0)
           S1 == Waiting(st1, 0)
           n == Cardinality(S)
<1>0. 0 \in Contexts
  BY KernelAssumption DEF Contexts
<1>1. /\ q \in [1 .. n -> S] /\ DOMAIN q = 1 .. n
      /\ \A i, j \in 1 .. n : i < j => Distance(0, q[i]) < Distance(0, q[j])
  BY DEF IsQueue
<1>2. /\ S \subseteq Contexts \ {0} /\ Contexts \subseteq Nat /\ n \in Nat /\ IsFiniteSet(S)
      /\ st1 \in Statuses
  BY <1>0, WaitingFacts DEF Statuses
<1>3. S1 = S \cup {c} /\ c \notin S /\ \A d \in S : d < c
  BY <1>2 DEF Waiting, Statuses
<1>4. Cardinality(S1) = n + 1
  BY <1>2, <1>3, FS_AddElement
<1> HIDE DEF n, S, S1, st1
<1>5. q \in Seq(Nat) /\ Len(q) = n
  <2>1. q \in [1 .. n -> Nat]
    BY <1>1, <1>2
  <2> QED BY <1>2, <2>1
<1> DEFINE t == Append(q, c)
<1>6. /\ t \in Seq(Nat) /\ Len(t) = n + 1 /\ t[n + 1] = c
      /\ \A i \in 1 .. n : t[i] = q[i]
  BY <1>2, <1>5
<1> HIDE DEF t
<1>7. t \in [1 .. n + 1 -> S1]
  <2>1. \A i \in 1 .. n + 1 : t[i] \in S1
    BY <1>1, <1>2, <1>3, <1>6
  <2> QED BY <1>2, <1>6, <2>1
<1>8. ASSUME NEW i \in 1 .. n + 1, NEW j \in 1 .. n + 1, i < j
      PROVE  Distance(0, t[i]) < Distance(0, t[j])
  <2>1. i \in 1 .. n /\ t[i] = q[i] /\ q[i] \in S
    BY <1>1, <1>2, <1>6, <1>8
  <2>2. CASE j \in 1 .. n
    BY <1>1, <1>6, <1>8, <2>1, <2>2
  <2>3. CASE j = n + 1
    <3>1. q[i] < c /\ q[i] \in Nat \ {0} /\ c \in Nat \ {0}
      BY <1>2, <1>3, <2>1
    <3>2. Distance(0, q[i]) = q[i] /\ Distance(0, c) = c
      BY <3>1 DEF Distance
    <3> QED BY <1>6, <2>1, <2>3, <3>1, <3>2
  <2> QED BY <1>2, <2>2, <2>3
<1>9. c \notin ToSet(q)
  BY <1>1, <1>3 DEF ToSet
<1> QED BY <1>4, <1>7, <1>8, <1>9 DEF IsQueue, t, S1, st1

\* What the steps of the scheduler start from and what they leave.
LEMMA QueueFacts ==
  ASSUME IInv, QueueInv
  PROVE  /\ status \in Statuses /\ curproc \in Contexts /\ 0 \in Contexts
         /\ status[0] = "PROC_NULL"
         /\ IsQueue(queue, status, curproc)
         /\ queue \in Seq(Nat) /\ DOMAIN queue = 1 .. Cardinality(Waiting(status, curproc))
         /\ running = 0 <=> status[curproc] # "PROC_RUN"
<1>1. /\ status \in Statuses /\ curproc \in Contexts /\ 0 \in Contexts
      /\ status[0] = "PROC_NULL"
  BY CurrentFacts DEF IInv, TypeOK, ProcInv, Statuses
<1>2. IsQueue(queue, status, curproc)
  BY <1>1, QueueIs DEF QueueInv
<1> DEFINE S == Waiting(status, curproc)
           n == Cardinality(S)
<1>3. queue \in [1 .. n -> S] /\ S \subseteq Nat /\ n \in Nat
  BY <1>1, <1>2, WaitingFacts DEF IsQueue
<1> HIDE DEF n, S
<1>4. queue \in Seq(Nat) /\ DOMAIN queue = 1 .. n
  <2>1. queue \in [1 .. n -> Nat] /\ DOMAIN queue = 1 .. n
    BY <1>3
  <2> QED BY <1>3, <2>1
<1>5. running = 0 <=> status[curproc] # "PROC_RUN"
  BY <1>1 DEF running
<1> QED BY <1>1, <1>2, <1>4, <1>5 DEF n, S

LEMMA QueueStays ==
  ASSUME IInv, QueueInv, status' = status, curproc' = curproc,
         phase' \in {"init_sched", "init_process"} =>
           phase \in {"init_sched", "init_process"}
  PROVE  QueueInv' /\ running' = running /\ queue' = queue
<1>1. status \in Statuses /\ curproc \in Contexts /\ IsQueue(queue, status, curproc)
  BY QueueFacts
<1>2. IsQueue(queue, status', curproc')
  BY <1>1
<1>3. queue' = queue
  BY <1>1, <1>2, QueueIs
<1>4. running' = running
  BY DEF running
<1>5. QueueInv'
  BY <1>2 DEF QueueInv
<1> QED BY <1>3, <1>4, <1>5

\* sched_add, while kmain still runs: whoever is added is the last in the queue.
LEMMA QueueAdd ==
  ASSUME IInv, IInv', QueueInv, AddProcess
  PROVE  QueueInv' /\ [Queue!Next]_<<running, queue>>
<1> DEFINE free == {c \in Contexts \ {0} : status[c] = "PROC_NULL"}
<1>1. /\ status \in Statuses /\ curproc = 0 /\ 0 \in Contexts /\ status[0] = "PROC_NULL"
      /\ IsQueue(queue, status, 0) /\ running = 0
  BY QueueFacts DEF AddProcess, IInv, BootInv
<1>2. /\ curproc' = curproc /\ phase = "init_process" /\ phase' = phase
      /\ \A c, d \in Contexts \ {0} : d < c /\ status[c] = "PROC_RUN" => status[d] = "PROC_RUN"
  BY DEF AddProcess, QueueInv
<1>3. CASE status' = status
  BY <1>2, <1>3, QueueStays
<1>4. ASSUME NEW c \in free, \A d \in free : c <= d,
             status' = [status EXCEPT ![c] = "PROC_RUN"]
      PROVE  QueueInv' /\ Queue!Add(c) /\ c \in Contexts \ {0}
  <2>1. c \in Contexts \ {0} /\ status[c] # "PROC_RUN" /\ Contexts \subseteq Nat
    BY <1>1, WaitingFacts
  <2>2. \A d \in Contexts \ {0} : status[d] = "PROC_RUN" => d < c
    <3> SUFFICES ASSUME NEW d \in Contexts \ {0}, status[d] = "PROC_RUN", c < d PROVE FALSE
      BY <2>1
    <3> QED BY <1>2, <2>1
  <2>3. IsQueue(Append(queue, c), status', 0) /\ c \notin ToSet(queue)
    BY <1>1, <1>4, <2>1, <2>2, QueueGrows
  <2>4. /\ status' \in Statuses /\ curproc' \in Contexts /\ status'[curproc'] = "PROC_NULL"
    BY <1>1, <1>2, <1>4, <2>1 DEF Statuses
  <2>5. queue' = Append(queue, c) /\ running' = 0
    BY <1>1, <1>2, <2>3, <2>4, QueueIs DEF running
  <2>6. ASSUME NEW e \in Contexts \ {0}, NEW d \in Contexts \ {0},
               d < e, status'[e] = "PROC_RUN"
        PROVE  status'[d] = "PROC_RUN"
    <3>1. CASE e # c
      BY <1>1, <1>2, <1>4, <2>1, <2>6, <3>1 DEF Statuses
    <3>2. CASE e = c
      <4>1. d \notin free
        BY <1>4, <2>1, <2>6, <3>2
      <4> QED BY <1>1, <1>4, <2>1, <4>1 DEF Statuses
    <3> QED BY <3>1, <3>2
  <2>7. QueueInv'
    BY <1>1, <1>2, <2>3, <2>6 DEF QueueInv
  <2>8. Queue!Add(c)
    BY <1>1, <2>3, <2>5 DEF Queue!Add, Queue!ToSet, ToSet
  <2> QED BY <2>1, <2>7, <2>8
<1> QED BY <1>3, <1>4 DEF AddProcess, Queue!Next

\* schedule, called by the timer's event: the head of the queue gets the processor, and who
\* had it goes to the end.
LEMMA QueueSwitch ==
  ASSUME IInv, IInv', QueueInv, status' = status, curproc' = NextProc(status, curproc),
         curproc' # curproc, phase' = "running"
  PROVE  QueueInv' /\ Queue!Switch
<1> DEFINE to == NextProc(status, curproc)
           last == IF status[curproc] = "PROC_RUN" THEN <<curproc>> ELSE << >>
<1>1. /\ status \in Statuses /\ curproc \in Contexts /\ status[0] = "PROC_NULL"
      /\ IsQueue(queue, status, curproc)
      /\ running = 0 <=> status[curproc] # "PROC_RUN"
  BY QueueFacts
<1>2. /\ to \in Contexts \ {curproc} /\ status[to] = "PROC_RUN"
      /\ \A c \in Waiting(status, curproc) : Distance(curproc, to) <= Distance(curproc, c)
  BY <1>1, NextProcFacts DEF Statuses, Waiting
<1> HIDE DEF to, last
<1>3. /\ queue \o last # << >> /\ Head(queue \o last) = to
      /\ IsQueue(Tail(queue \o last), status, to)
  BY <1>1, <1>2, QueueMoves DEF last
<1>4. curproc' = to /\ status' \in Statuses /\ curproc' \in Contexts
  BY <1>1, <1>2 DEF to
<1>5. queue' = Tail(queue \o last)
  BY <1>3, <1>4, QueueIs
<1>6. running' = Head(queue \o last)
  BY <1>2, <1>3, <1>4 DEF running
<1>7. QueueInv'
  BY <1>3, <1>4 DEF QueueInv
<1>8. last = IF running = 0 THEN << >> ELSE <<running>>
  BY <1>1 DEF running, last
<1> QED BY <1>3, <1>5, <1>6, <1>7, <1>8 DEF Queue!Switch

\* process_kill: schedule starts its scan at the slot it has just freed.
LEMMA QueueExit ==
  ASSUME IInv, IInv', QueueInv, SyscallExit
  PROVE  QueueInv' /\ Queue!Exit
<1> DEFINE st == Killed(curproc)
           to == NextProc(st, curproc)
<1>1. /\ status \in Statuses /\ curproc \in Contexts \ {0} /\ status[0] = "PROC_NULL"
      /\ IsQueue(queue, status, curproc) /\ queue \in Seq(Nat)
      /\ DOMAIN queue = 1 .. Cardinality(Waiting(status, curproc))
      /\ status[curproc] = "PROC_RUN" /\ running = curproc /\ phase' = "running"
  <2>1. base[curproc] = "user" /\ base[0] = "boot" /\ phase' = "running"
    BY DEF SyscallExit, InUserMode, Interruptible, IInv, ProcInv
  <2> QED BY <2>1, QueueFacts DEF IInv, ProcInv, running
<1>2. /\ st \in Statuses /\ st[0] = "PROC_NULL" /\ st[curproc] = "PROC_NULL"
      /\ Waiting(st, curproc) = Waiting(status, curproc)
  BY <1>1 DEF Killed, Statuses, Waiting
<1>3. curproc' = to /\ status' = st
  BY DEF SyscallExit, SwitchTo
<1> HIDE DEF st
<1>4. IsQueue(queue, st, curproc)
  BY <1>1, <1>2 DEF IsQueue
<1>5. /\ to \in Contexts
      /\ \A c \in Waiting(st, curproc) : /\ to # curproc
                                        /\ Distance(curproc, to) <= Distance(curproc, c)
      /\ to = curproc \/ st[to] = "PROC_RUN"
  BY <1>1, <1>2, NextProcFacts DEF Statuses, Waiting
<1> HIDE DEF to
<1>6. CASE to # curproc
  <2> DEFINE last == IF st[curproc] = "PROC_RUN" THEN <<curproc>> ELSE << >>
  <2>1. last = << >> /\ queue \o << >> = queue
    BY <1>1, <1>2, ConcatEmptySeq
  <2>2. \A c \in Waiting(st, curproc) : Distance(curproc, to) <= Distance(curproc, c)
    BY <1>5
  <2> HIDE DEF last
  <2>3. /\ queue # << >> /\ Head(queue) = to
        /\ IsQueue(Tail(queue \o last), st, to)
    BY <1>1, <1>2, <1>4, <1>5, <1>6, <2>2, QueueMoves DEF last
  <2>4. IsQueue(Tail(queue), st, to)
    BY <2>1, <2>3
  <2>5. queue' = Tail(queue)
    BY <1>2, <1>3, <1>5, <2>4, QueueIs
  <2>6. running' = to
    BY <1>3, <1>5, <1>6 DEF running
  <2>7. QueueInv'
    BY <1>1, <1>3, <2>4 DEF QueueInv
  <2> QED BY <1>1, <2>3, <2>5, <2>6, <2>7 DEF Queue!Exit
<1>7. CASE to = curproc
  <2>1. Waiting(status, curproc) = {}
    BY <1>2, <1>5, <1>7
  <2>2. queue = << >>
    <3>1. DOMAIN queue = 1 .. 0
      BY <1>1, <2>1, FS_EmptySet
    <3>2. Len(queue) = 0
      BY <1>1, <3>1, LenProperties
    <3> QED BY <1>1, <3>2, EmptySeq
  <2>3. queue' = queue
    BY <1>2, <1>3, <1>4, <1>5, <1>7, QueueIs
  <2>4. running' = 0
    BY <1>2, <1>3, <1>7 DEF running
  <2>5. QueueInv'
    BY <1>1, <1>3, <1>4, <1>7 DEF QueueInv
  <2> QED BY <1>1, <2>2, <2>3, <2>4, <2>5 DEF Queue!Exit
<1> QED BY <1>6, <1>7

LEMMA QueueInit ==
  ASSUME Init
  PROVE  QueueInv /\ Queue!Init
<1>1. /\ status \in Statuses /\ curproc \in Contexts /\ status[curproc] = "PROC_NULL"
      /\ Waiting(status, curproc) = {} /\ Contexts \ {0} \subseteq Contexts
      /\ \A c \in Contexts : status[c] = "PROC_NULL"
  BY KernelAssumption DEF Init, Contexts, Statuses, Waiting
<1>2. IsQueue(<< >>, status, curproc)
  <2>1. Cardinality({}) = 0
    BY FS_EmptySet
  <2>2. << >> \in [1 .. 0 -> {}] /\ DOMAIN << >> = {}
    OBVIOUS
  <2> QED BY <1>1, <2>1, <2>2 DEF IsQueue
<1>3. queue = << >>
  BY <1>1, <1>2, QueueIs
<1>4. running = 0
  BY <1>1 DEF running
<1>5. QueueInv
  BY <1>1, <1>2 DEF QueueInv
<1> QED BY <1>3, <1>4, <1>5 DEF Queue!Init

\* What a step does to who runs and who waits.
LEMMA SchedulerSteps ==
  ASSUME IInv, [Next]_vars
  PROVE  \/ /\ status' = status /\ curproc' = curproc
            /\ phase' \in {"init_sched", "init_process"} =>
                 phase \in {"init_sched", "init_process"}
         \/ AddProcess
         \/ SyscallExit
         \/ /\ TimerInterrupt /\ status' = status /\ curproc' = NextProc(status, curproc)
            /\ curproc' # curproc /\ phase' = "running"
<1>1. CASE Boot
  <2>1. CASE InitSched
    <3>1. \A c \in Contexts : status[c] = "PROC_NULL"
      BY <2>1 DEF InitSched, IInv, BootInv
    <3>2. status' = [c \in Contexts |-> "PROC_NULL"]
      BY <2>1, <3>1 DEF InitSched
    <3>3. status = [c \in Contexts |-> "PROC_NULL"]
      BY <3>1 DEF IInv, TypeOK
    <3> QED BY <2>1, <3>2, <3>3 DEF InitSched
  <2> QED BY <1>1, <2>1 DEF Boot, EnableInterrupts
<1>2. CASE \E n \in Irqs : Device(n) \/ IrqEntry(n)
  BY <1>2 DEF Device, IrqEntry
<1>3. CASE Handler
  <2>1. CASE TimerInterrupt
    <3>1. phase' = phase /\ phase = "running"
      BY <2>1 DEF TimerInterrupt, AtHandler, Interruptible
    <3>2. /\ status' = status
          /\ curproc' \in {curproc, NextProc(status, curproc)}
      BY <2>1 DEF TimerInterrupt, SwitchTo
    <3> QED BY <2>1, <3>1, <3>2
  <2>2. CASE KbdInterrupt
    BY <2>2 DEF KbdInterrupt
  <2>3. CASE Resume
    BY <2>3 DEF Resume
  <2> QED BY <1>3, <2>1, <2>2, <2>3 DEF Handler
<1>4. CASE Fault \/ Panic
  BY <1>4 DEF Fault, Panic
<1>5. CASE UNCHANGED vars
  BY <1>5 DEF vars
<1> QED BY <1>1, <1>2, <1>3, <1>4, <1>5 DEF Next

LEMMA QueueStep ==
  ASSUME IInv, IInv', QueueInv, [Next]_vars
  PROVE  QueueInv' /\ [Queue!Next]_<<running, queue>>
<1>1. CASE status' = status /\ curproc' = curproc
           /\ (phase' \in {"init_sched", "init_process"} =>
                 phase \in {"init_sched", "init_process"})
  BY <1>1, QueueStays
<1>2. CASE AddProcess
  BY <1>2, QueueAdd
<1>3. CASE SyscallExit
  BY <1>3, QueueExit DEF Queue!Next
<1>4. CASE status' = status /\ curproc' = NextProc(status, curproc)
           /\ curproc' # curproc /\ phase' = "running"
  BY <1>4, QueueSwitch DEF Queue!Next
<1> QED BY <1>1, <1>2, <1>3, <1>4, SchedulerSteps

\* The scan of proctab behaves like a first-come-first-served queue, for every table and
\* however processes are preempted and end.
THEOREM ScanIsAQueue == Spec => ImplementsRoundRobin
<1>1. Init => QueueInv /\ Queue!Init
  BY QueueInit
<1>2. IInv /\ IInv' /\ QueueInv /\ [Next]_vars =>
        QueueInv' /\ [Queue!Next]_<<running, queue>>
  BY QueueStep
<1> QED BY <1>1, <1>2, Invariance, PTL DEF Spec, ImplementsRoundRobin, Queue!Spec, Queue!vars

\* How long a process waits, of which EveryProcessRuns says only that it ends: no process
\* that waits is overtaken, by another one or by one that is added, and every switch leaves
\* fewer in front of it.
InFront(c) == {d \in Ready : Distance(curproc, d) < Distance(curproc, c)}
NobodyIsOvertaken ==
  [][\A c \in Contexts : c \in Ready /\ c \in Ready' =>
       /\ InFront(c)' \subseteq InFront(c)
       /\ curproc' # curproc => InFront(c)' # InFront(c)]_vars

\* The order and the bound of the waiting: who is added is behind all that wait, and the
\* first in the scan, who gets the processor, was in front of everybody else.
THEOREM InOrder == Spec => NobodyIsOvertaken
<1> DEFINE Stays == \A c \in Contexts : c \in Ready /\ c \in Ready' =>
                      /\ InFront(c)' \subseteq InFront(c)
                      /\ curproc' # curproc => InFront(c)' # InFront(c)
<1>1. ASSUME IInv, QueueInv, [Next]_vars
      PROVE  [Stays]_vars
  <2> SUFFICES ASSUME NEW c \in Contexts, c \in Ready, c \in Ready'
               PROVE  /\ InFront(c)' \subseteq InFront(c)
                      /\ curproc' # curproc => InFront(c)' # InFront(c)
    OBVIOUS
  <2>1. /\ status \in Statuses /\ curproc \in Contexts /\ status[0] = "PROC_NULL"
        /\ Contexts \subseteq Nat /\ \A d \in Contexts : Distance(curproc, d) \in Nat
    BY <1>1, QueueFacts, WaitingFacts
  <2>2. CASE status' = status /\ curproc' = curproc
    BY <2>2 DEF InFront, Ready
  <2>3. CASE AddProcess
    <3>1. curproc = 0 /\ curproc' = curproc
      BY <1>1, <2>3 DEF AddProcess, IInv, BootInv
    <3>2. CASE status' = status
      BY <2>2, <3>1, <3>2
    <3>3. ASSUME NEW e \in Contexts \ {0}, status[e] = "PROC_NULL",
                 \A d \in Contexts \ {0} : status[d] = "PROC_NULL" => e <= d,
                 status' = [status EXCEPT ![e] = "PROC_RUN"]
          PROVE  InFront(c)' \subseteq InFront(c)
      <4>1. e > c
        BY <1>1, <2>1, <2>3, <3>3 DEF QueueInv, AddProcess, Ready
      <4>2. Distance(0, e) = e /\ Distance(0, c) = c
        BY <2>1, <3>3, <4>1, <3>1 DEF Distance, Ready
      <4>3. Ready' = Ready \cup {e}
        BY <2>1, <3>1, <3>3 DEF Ready, Statuses
      <4> QED BY <2>1, <3>1, <4>1, <4>2, <4>3 DEF InFront
    <3> QED BY <2>3, <3>1, <3>2, <3>3 DEF AddProcess
  <2>4. ASSUME curproc' \in Contexts \ {curproc}, Ready' \subseteq (Ready \cup {curproc}),
               curproc' \in Ready,
               \A d \in Ready : Distance(curproc, curproc') <= Distance(curproc, d)
        PROVE  /\ InFront(c)' \subseteq InFront(c)
               /\ InFront(c)' # InFront(c)
    <3> DEFINE to == curproc'
    <3>1. /\ to \in Contexts \ {curproc} /\ to \notin Ready' /\ c # to
          /\ c \in Contexts \ {curproc}
      BY <2>1, <2>4 DEF Ready
    <3>2. \A d : d \in InFront(c)' <=> d \in Ready' /\ Distance(to, d) < Distance(to, c)
      BY DEF InFront
    <3>3. Ready \subseteq Contexts \ {curproc}
      BY DEF Ready
    <3> HIDE DEF to
    <3>4. \A d \in Ready \ {to} : Distance(curproc, to) < Distance(curproc, d)
      <4> TAKE d \in Ready \ {to}
      <4>1. Distance(curproc, to) # Distance(curproc, d)
        BY <2>1, <3>1, <3>3, DistanceApart
      <4>2. Distance(curproc, to) <= Distance(curproc, d)
        BY <2>4 DEF to
      <4> QED BY <2>1, <3>1, <3>3, <4>1, <4>2
    <3>5. to \in InFront(c) /\ to \notin InFront(c)'
      BY <2>4, <3>1, <3>2, <3>4 DEF InFront, to
    <3>6. ASSUME NEW d \in InFront(c)'
          PROVE  d \in InFront(c)
      <4>1. d \in Ready' /\ Distance(to, d) < Distance(to, c)
        BY <3>2
      <4>2. d # curproc
        <5>1. Distance(to, c) < Distance(to, curproc)
          BY <2>1, <3>1, <3>4, DistanceMoves
        <5>2. Distance(to, c) \in Nat /\ Distance(to, curproc) \in Nat
          BY <2>1, <3>1, WaitingFacts
        <5> QED BY <4>1, <5>1, <5>2
      <4>3. d \in Ready \ {to}
        BY <2>4, <3>1, <4>1, <4>2
      <4>4. /\ Distance(to, d) = Distance(curproc, d) - Distance(curproc, to)
            /\ Distance(to, c) = Distance(curproc, c) - Distance(curproc, to)
        BY <2>1, <3>1, <3>3, <3>4, <4>3, DistanceMoves
      <4>5. Distance(curproc, d) < Distance(curproc, c)
        BY <2>1, <3>1, <3>3, <4>1, <4>3, <4>4
      <4> QED BY <4>3, <4>5 DEF InFront
    <3> QED BY <3>5, <3>6
  <2>5. CASE SyscallExit
    <3> DEFINE st == Killed(curproc)
               to == NextProc(st, curproc)
    <3>1. /\ st \in Statuses /\ st[0] = "PROC_NULL"
          /\ \A d \in Contexts \ {curproc} : st[d] = status[d]
      BY <2>1 DEF Killed, Statuses
    <3>2. curproc' = to /\ status' = st
      BY <2>5 DEF SyscallExit, SwitchTo
    <3> HIDE DEF st
    <3>3. /\ to \in Contexts /\ to # curproc /\ st[to] = "PROC_RUN"
          /\ \A d \in Ready : Distance(curproc, to) <= Distance(curproc, d)
      BY <2>1, <3>1, NextProcFacts DEF Statuses, Ready
    <3> HIDE DEF to
    <3>4. to \in Ready /\ Ready' \subseteq (Ready \cup {curproc})
      BY <3>1, <3>2, <3>3 DEF Ready
    <3> QED BY <2>4, <3>2, <3>3, <3>4
  <2>6. CASE status' = status /\ curproc' = NextProc(status, curproc) /\ curproc' # curproc
    <3>1. /\ curproc' \in Contexts /\ status[curproc'] = "PROC_RUN"
          /\ \A d \in Ready : Distance(curproc, curproc') <= Distance(curproc, d)
      BY <2>1, <2>6, NextProcFacts DEF Statuses, Ready
    <3>2. curproc' \in Ready /\ Ready' \subseteq (Ready \cup {curproc})
      BY <2>6, <3>1 DEF Ready
    <3> QED BY <2>4, <2>6, <3>1, <3>2
  <2> QED BY <1>1, <2>2, <2>3, <2>5, <2>6, SchedulerSteps
<1>2. Init => QueueInv
  BY QueueInit
<1>3. IInv /\ IInv' /\ QueueInv /\ [Next]_vars => QueueInv'
  BY QueueStep
<1> QED BY <1>1, <1>2, <1>3, Invariance, PTL DEF Spec, NobodyIsOvertaken
=============================================================================
