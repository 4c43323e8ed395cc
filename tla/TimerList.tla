----------------------------- MODULE TimerList -----------------------------
(***************************************************************************)
(* The list of timed events (kernel/timer.c): timer_interrupt goes through  *)
(* it once a tick and calls the events that are due, which may change the   *)
(* list they are called from.  Kernel.tla has the one event the kernel has  *)
(* so far.                                                                  *)
(*                                                                         *)
(* Outside of a tick the functions are called with interrupts disabled, and *)
(* an event is set before it is added.  A callback may take its own event   *)
(* off the list, as schedule does, and set and add others: more than that   *)
(* the loop does not bear (see README.md).                                  *)
(*                                                                         *)
(* A definition marked "mutant" is what a plausible mistake would make of   *)
(* the definition after it; it is used to try the properties out.          *)
(***************************************************************************)
EXTENDS Naturals

CONSTANTS
  Events, NULL,
  MaxInterval,  \* a bound on the ticks an event is set to
  UintMax       \* 2^32 - 1

ASSUME TimerAssumption ==
  /\ NULL \notin Events
  /\ UintMax \in Nat \ {0} /\ MaxInterval \in 1 .. UintMax

VARIABLES
  head, next,             \* the list
  t_remaining, t_interval,
  pc,                     \* where timer_interrupt is, "halted" when it is not running
  p,                      \* its p
  visits,                 \* how often this tick has counted an event down, 2 for more
  kept                    \* the events on the list ever since the tick began

list  == <<head, next>>
times == <<t_remaining, t_interval>>
watch == <<visits, kept>>
vars  == <<list, times, pc, p, watch>>

\* The events that are reached from q: the smallest set that q is in and next does not
\* lead out of.
From(q) ==
  {e \in Events : \A S \in SUBSET Events :
     q \in S \cup {NULL} /\ (\A f \in S : next[f] \in S \cup {NULL}) => e \in S}
Active == From(head)

Init ==
  /\ head = NULL /\ next = [e \in Events |-> NULL]
  /\ t_remaining = [e \in Events |-> 0] /\ t_interval = [e \in Events |-> 0]
  /\ pc = "halted" /\ p = NULL
  /\ visits = [e \in Events |-> 0] /\ kept = {}

-----------------------------------------------------------------------------
\* What kernel code calls, or a callback.

MayCall(e) == pc = "halted" \/ (pc = "callback" /\ e # p)

Set(e, interval, repeat) ==
  /\ MayCall(e) /\ e \notin Active
  /\ t_remaining' = [t_remaining EXCEPT ![e] = interval]
  /\ t_interval' = [t_interval EXCEPT ![e] = IF repeat THEN interval ELSE 0]
  /\ next' = [next EXCEPT ![e] = NULL]
  /\ UNCHANGED <<head, pc, p, watch>>

AddTwice(e) == \* mutant of Add
  /\ MayCall(e) /\ t_remaining[e] > 0
  /\ next' = [next EXCEPT ![e] = head] /\ head' = e
  /\ UNCHANGED <<times, pc, p, watch>>
AddLast(e) == \* mutant of Add
  /\ MayCall(e) /\ t_remaining[e] > 0
  /\ e \notin Active
  /\ next' = [f \in Events |->
               IF f = e THEN NULL ELSE IF f \in Active /\ next[f] = NULL THEN e ELSE next[f]]
  /\ head' = IF head = NULL THEN e ELSE head
  /\ UNCHANGED <<times, pc, p, watch>>
Add(e) ==
  /\ MayCall(e) /\ t_remaining[e] > 0
  /\ e \notin Active
  /\ next' = [next EXCEPT ![e] = head] /\ head' = e
  /\ UNCHANGED <<times, pc, p, watch>>

\* e is taken off the list: it keeps its own pointer.
CutOff(e) == \* mutant of Unlink
  IF e = head THEN head' = next[e] /\ UNCHANGED next
  ELSE next' = [[f \in Events |-> IF next[f] = e /\ f \in Active THEN next[e] ELSE next[f]]
                  EXCEPT ![e] = NULL]
       /\ UNCHANGED head
Unlink(e) ==
  IF e = head THEN head' = next[e] /\ UNCHANGED next
  ELSE next' = [f \in Events |-> IF next[f] = e /\ f \in Active THEN next[e] ELSE next[f]]
       /\ UNCHANGED head

Del(e) ==
  /\ pc = "halted" \/ (pc = "callback" /\ e = p)
  /\ e \in Active
  /\ Unlink(e)
  /\ kept' = kept \ {e}
  /\ UNCHANGED <<times, pc, p, visits>>

-----------------------------------------------------------------------------
\* timer_interrupt.

Tick ==
  /\ pc = "halted"
  /\ pc' = "loop" /\ p' = head
  /\ visits' = [e \in Events |-> 0] /\ kept' = Active
  /\ UNCHANGED <<list, times>>

Visited == [visits EXCEPT ![p] = IF @ = 0 THEN 1 ELSE 2]

CountDown ==
  /\ pc = "loop" /\ p # NULL
  /\ t_remaining[p] # 1
  /\ t_remaining' = [t_remaining EXCEPT ![p] = (@ + UintMax) % (UintMax + 1)]
  /\ p' = next[p]
  /\ visits' = Visited
  /\ UNCHANGED <<list, t_interval, pc, kept>>

\* The event is due.  It is taken off or set again before it is called.
Once ==
  /\ pc = "loop" /\ p # NULL
  /\ t_remaining[p] = 1 /\ t_interval[p] = 0
  /\ t_remaining' = [t_remaining EXCEPT ![p] = 0]
  /\ Unlink(p)
  /\ pc' = "callback"
  /\ visits' = Visited /\ kept' = kept \ {p}
  /\ UNCHANGED <<t_interval, p>>

NotSetAgain == \* mutant of Again
  /\ pc = "loop" /\ p # NULL
  /\ t_remaining[p] = 1 /\ t_interval[p] # 0
  /\ t_remaining' = [t_remaining EXCEPT ![p] = 0]
  /\ pc' = "callback"
  /\ visits' = Visited
  /\ UNCHANGED <<list, t_interval, p, kept>>
Again ==
  /\ pc = "loop" /\ p # NULL
  /\ t_remaining[p] = 1 /\ t_interval[p] # 0
  /\ t_remaining' = [t_remaining EXCEPT ![p] = t_interval[p]]
  /\ pc' = "callback"
  /\ visits' = Visited
  /\ UNCHANGED <<list, t_interval, p, kept>>

\* Only now is the pointer to the next event read.
Return ==
  /\ pc = "callback"
  /\ pc' = "loop" /\ p' = next[p]
  /\ UNCHANGED <<list, times, watch>>

Leave ==
  /\ pc = "loop" /\ p = NULL
  /\ pc' = "halted"
  /\ UNCHANGED <<list, times, p, watch>>

Call == \E e \in Events :
          \/ Add(e) \/ Del(e)
          \/ \E interval \in 1 .. MaxInterval, repeat \in BOOLEAN : Set(e, interval, repeat)
Loop == CountDown \/ Once \/ Again \/ Leave

Next == Call \/ Tick \/ Loop \/ Return

\* The handler runs with interrupts disabled, and callbacks return.
Fairness == WF_vars(Loop) /\ WF_vars(Return)

Spec == Init /\ [][Next]_vars /\ Fairness

-----------------------------------------------------------------------------
\* Properties.

TypeOK ==
  /\ head \in Events \cup {NULL} /\ next \in [Events -> Events \cup {NULL}]
  /\ t_remaining \in [Events -> 0 .. UintMax]
  /\ t_interval \in [Events -> 0 .. MaxInterval]
  /\ pc \in {"halted", "loop", "callback"} /\ p \in Events \cup {NULL}
  /\ visits \in [Events -> 0 .. 2] /\ kept \subseteq Events
  /\ \A e \in Active : t_remaining[e] > 0    \* or it would be due 2^32 ticks later

\* Whatever the permitted callbacks do to the list they are called from, a tick counts every event
\* that is on it all the time down exactly once, and no event twice.
OnceATick ==
  /\ pc = "halted" => \A e \in kept : visits[e] = 1
  /\ \A e \in Events : visits[e] <= 1

\* The events this tick has yet to reach.
Ahead == CASE pc = "halted" -> {} [] pc = "loop" -> From(p) [] pc = "callback" -> From(next[p])

\* They only become fewer, whatever the permitted callbacks do: what is added is added behind the
\* loop, and every step of the loop leaves an event behind.
TickAdvances ==
  [][pc # "halted" =>
       /\ Ahead' \subseteq Ahead
       /\ Loop /\ p # NULL => p \in Ahead \ Ahead']_vars

\* A tick comes to the list's end, although the list may grow while it runs.
TickEnds == pc = "loop" ~> pc = "halted"
=============================================================================
