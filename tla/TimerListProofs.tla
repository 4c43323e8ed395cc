-------------------------- MODULE TimerListProofs --------------------------
(***************************************************************************)
(* What the run of TimerList.tla checks for three events, for every set of *)
(* events and every interval: a tick counts every event that stays on the  *)
(* list down once, and gets ahead with every step.                         *)
(*                                                                         *)
(* The lists are treated as sets first: Reach is the set of events that     *)
(* pointers nx lead to, for any pointers, and the lemmas say what changing  *)
(* one pointer does to it.                                                 *)
(***************************************************************************)
EXTENDS TimerList, TLAPS

Pointers == [Events -> Events \cup {NULL}]

\* S is not left by the pointers nx.
IsClosed(nx, S) == \A f \in S : nx[f] \in S \cup {NULL}

Reach(nx, q) ==
  {e \in Events : \A S \in SUBSET Events : q \in S \cup {NULL} /\ IsClosed(nx, S) => e \in S}

\* No event is reached from itself: the list never comes back to one.
Linear(nx, q) == \A f \in Reach(nx, q) : f \notin Reach(nx, nx[f])

ListInv == Linear(next, head)

LoopInv ==
  /\ pc = "loop" => p \in Active \cup {NULL}
  /\ pc = "callback" =>
       /\ p \in Events /\ next[p] \in Active \cup {NULL}
       /\ p \notin From(next[p])
  /\ \A e \in Ahead : visits[e] = 0
  /\ \A e \in kept \ Ahead : visits[e] = 1
  /\ \A e \in Events : visits[e] <= 1

IInv == TypeOK /\ ListInv /\ LoopInv

-----------------------------------------------------------------------------
(* Reachability                                                              *)

\* The smallest closed set is one: it has its beginning in it, it is closed, and it is part
\* of every other.
LEMMA ReachIsLeast ==
  ASSUME NEW nx \in Pointers, NEW q \in Events \cup {NULL}
  PROVE  /\ Reach(nx, q) \subseteq Events
         /\ q \in Reach(nx, q) \cup {NULL}
         /\ IsClosed(nx, Reach(nx, q))
         /\ \A S \in SUBSET Events :
              q \in S \cup {NULL} /\ IsClosed(nx, S) => Reach(nx, q) \subseteq S
<1>1. q \in Reach(nx, q) \cup {NULL}
  BY DEF Reach
<1>2. ASSUME NEW f \in Reach(nx, q), nx[f] # NULL
      PROVE  nx[f] \in Reach(nx, q)
  <2>1. f \in Events /\ nx[f] \in Events
    BY <1>2 DEF Reach, Pointers
  <2>2. ASSUME NEW S \in SUBSET Events, q \in S \cup {NULL}, IsClosed(nx, S)
        PROVE  nx[f] \in S
    <3>1. f \in S
      BY <1>2, <2>2 DEF Reach
    <3> QED BY <1>2, <2>2, <3>1 DEF IsClosed
  <2> QED BY <2>1, <2>2 DEF Reach
<1>3. IsClosed(nx, Reach(nx, q))
  BY <1>2 DEF IsClosed
<1> QED BY <1>1, <1>3 DEF Reach

\* Nothing is reached from NULL, and what an event leads to is part of what leads to it.
LEMMA ReachParts ==
  ASSUME NEW nx \in Pointers
  PROVE  /\ Reach(nx, NULL) = {}
         /\ \A q \in Events \cup {NULL} : \A f \in Reach(nx, q) :
              Reach(nx, nx[f]) \subseteq Reach(nx, q)
<1>1. Reach(nx, NULL) = {}
  <2>1. IsClosed(nx, {})
    BY DEF IsClosed
  <2> QED BY <2>1 DEF Reach
<1>2. ASSUME NEW q \in Events \cup {NULL}, NEW f \in Reach(nx, q)
      PROVE  Reach(nx, nx[f]) \subseteq Reach(nx, q)
  <2>1. /\ nx[f] \in Reach(nx, q) \cup {NULL} /\ IsClosed(nx, Reach(nx, q))
        /\ Reach(nx, q) \in SUBSET Events
    BY ReachIsLeast DEF IsClosed
  <2>2. nx[f] \in Events \cup {NULL}
    BY <2>1
  <2> QED BY <2>1, <2>2, ReachIsLeast
<1> QED BY <1>1, <1>2

\* An event is followed by what its pointer leads to.
LEMMA ReachUnfolds ==
  ASSUME NEW nx \in Pointers, NEW e \in Events
  PROVE  Reach(nx, e) = {e} \cup Reach(nx, nx[e])
<1> DEFINE R == {e} \cup Reach(nx, nx[e])
<1>1. nx[e] \in Events \cup {NULL}
  BY DEF Pointers
<1>2. R \in SUBSET Events /\ IsClosed(nx, R) /\ e \in R
  BY <1>1, ReachIsLeast DEF IsClosed
<1>3. Reach(nx, e) \subseteq R
  <2> HIDE DEF R
  <2> QED BY <1>2, ReachIsLeast
<1>4. e \in Reach(nx, e)
  BY TimerAssumption, ReachIsLeast
<1>5. Reach(nx, nx[e]) \subseteq Reach(nx, e)
  BY <1>4, ReachParts
<1> QED BY <1>3, <1>4, <1>5

\* Pointers that are not on the way do not matter.
LEMMA ReachSame ==
  ASSUME NEW nx \in Pointers, NEW ny \in Pointers, NEW q \in Events \cup {NULL},
         \A f \in Reach(nx, q) : ny[f] = nx[f]
  PROVE  Reach(ny, q) = Reach(nx, q)
<1>1. /\ Reach(nx, q) \in SUBSET Events /\ q \in Reach(nx, q) \cup {NULL}
      /\ IsClosed(nx, Reach(nx, q))
      /\ Reach(ny, q) \in SUBSET Events /\ q \in Reach(ny, q) \cup {NULL}
      /\ IsClosed(ny, Reach(ny, q))
  BY ReachIsLeast
<1>2. Reach(ny, q) \subseteq Reach(nx, q)
  <2>1. IsClosed(ny, Reach(nx, q))
    BY <1>1 DEF IsClosed
  <2> QED BY <1>1, <2>1, ReachIsLeast
<1>3. Reach(nx, q) \subseteq Reach(ny, q)
  <2>1. IsClosed(nx, Reach(ny, q))
    BY <1>1, <1>2 DEF IsClosed
  <2> QED BY <1>1, <2>1, ReachIsLeast
<1> QED BY <1>2, <1>3

\* Changing pointers that are not on the list leaves it linear.
LEMMA LinearSame ==
  ASSUME NEW nx \in Pointers, NEW ny \in Pointers, NEW q \in Events \cup {NULL},
         \A f \in Reach(nx, q) : ny[f] = nx[f],
         Linear(nx, q)
  PROVE  Linear(ny, q)
<1>1. Reach(ny, q) = Reach(nx, q)
  BY ReachSame
<1>2. ASSUME NEW f \in Reach(nx, q)
      PROVE  Reach(ny, ny[f]) = Reach(nx, nx[f])
  <2>1. nx[f] \in Events \cup {NULL} /\ ny[f] = nx[f]
    BY ReachIsLeast DEF Pointers
  <2>2. \A g \in Reach(nx, nx[f]) : ny[g] = nx[g]
    BY ReachParts
  <2> QED BY <2>1, <2>2, ReachSame
<1> QED BY <1>1, <1>2 DEF Linear

-----------------------------------------------------------------------------
(* What the operations do to the list                                        *)

\* The pointers after e was taken off the list from h.
Without(nx, h, e) ==
  [f \in Events |-> IF nx[f] = e /\ f \in Reach(nx, h) THEN nx[e] ELSE nx[f]]

\* An event that is taken out of the middle is gone, the one behind it is still there, and
\* nothing new is reached from anywhere.
LEMMA UnlinkMiddle ==
  ASSUME NEW nx \in Pointers, NEW h \in Events \cup {NULL}, Linear(nx, h),
         NEW e \in Reach(nx, h), e # h,
         NEW ny, ny = Without(nx, h, e)
  PROVE  /\ ny \in Pointers
         /\ Reach(ny, h) \subseteq Reach(nx, h) \ {e}
         /\ nx[e] \in Reach(ny, h) \cup {NULL}
         /\ Linear(ny, h)
<1> DEFINE A == Reach(nx, h)
<1>1. /\ A \in SUBSET Events /\ h \in A \cup {NULL} /\ e \in A
      /\ \A f \in A : nx[f] \in A \cup {NULL}
  BY ReachIsLeast DEF IsClosed
<1>2. nx[e] \in A \cup {NULL} /\ e \in Events /\ e # NULL
  BY <1>1, TimerAssumption
<1>3. e \notin Reach(nx, nx[e])
  BY DEF Linear
<1>4. nx[e] # e
  <2>1. nx[e] = e => e \in Reach(nx, nx[e]) \cup {NULL}
    BY <1>2, ReachIsLeast
  <2> QED BY <1>2, <1>3, <2>1
<1>5. /\ ny \in Pointers
      /\ \A f \in A : ny[f] = IF nx[f] = e THEN nx[e] ELSE nx[f]
      /\ ny[e] = nx[e]
  BY <1>1, <1>2, <1>4 DEF Without, Pointers
<1> HIDE DEF A
<1>6. Reach(ny, h) \subseteq A \ {e}
  <2>1. A \ {e} \in SUBSET Events /\ h \in (A \ {e}) \cup {NULL}
    BY <1>1
  <2>2. IsClosed(ny, A \ {e})
    BY <1>1, <1>2, <1>4, <1>5 DEF IsClosed
  <2> QED BY <1>5, <2>1, <2>2, ReachIsLeast
<1>7. /\ Reach(ny, h) \in SUBSET Events /\ h \in Reach(ny, h) \cup {NULL}
      /\ \A f \in Reach(ny, h) : ny[f] \in Reach(ny, h) \cup {NULL}
  BY <1>5, ReachIsLeast DEF IsClosed
\* Otherwise nobody on the new list pointed to e, and the old list would be the new one.
<1>8. PICK f \in Reach(ny, h) : nx[f] = e
  <2> SUFFICES ASSUME \A f \in Reach(ny, h) : nx[f] # e PROVE FALSE
    OBVIOUS
  <2>1. IsClosed(nx, Reach(ny, h))
    BY <1>5, <1>6, <1>7 DEF IsClosed
  <2>2. A \subseteq Reach(ny, h)
    BY <1>7, <2>1, ReachIsLeast DEF A
  <2> QED BY <1>1, <1>6, <2>2
<1>9. nx[e] \in Reach(ny, h) \cup {NULL}
  <2>1. ny[f] = nx[e]
    BY <1>5, <1>6, <1>8
  <2> QED BY <1>7, <1>8, <2>1
<1>10. ASSUME NEW q \in A \cup {NULL}
       PROVE  Reach(ny, q) \subseteq Reach(nx, q)
  <2>1. /\ Reach(nx, q) \in SUBSET Events /\ q \in Reach(nx, q) \cup {NULL}
        /\ \A g \in Reach(nx, q) : nx[g] \in Reach(nx, q) \cup {NULL}
    BY <1>1, ReachIsLeast DEF IsClosed
  <2>2. Reach(nx, q) \subseteq A
    <3>1. A \in SUBSET Events /\ IsClosed(nx, A)
      BY <1>1 DEF IsClosed
    <3> QED BY <1>1, <3>1, ReachIsLeast
  <2>3. IsClosed(ny, Reach(nx, q))
    BY <1>2, <1>5, <2>1, <2>2 DEF IsClosed
  <2> QED BY <1>1, <1>5, <2>1, <2>3, ReachIsLeast
<1>11. ASSUME NEW g \in Reach(ny, h)
       PROVE  g \notin Reach(ny, ny[g])
  <2>1. g \in A /\ g \notin Reach(nx, nx[g]) /\ nx[g] \in A \cup {NULL}
    BY <1>1, <1>6 DEF Linear, A
  <2>2. ny[g] \in A \cup {NULL}
    BY <1>2, <1>5, <2>1
  <2>3. Reach(nx, ny[g]) \subseteq Reach(nx, nx[g])
    <3>1. CASE nx[g] = e
      <4>1. ny[g] = nx[e] /\ Reach(nx, e) = {e} \cup Reach(nx, nx[e])
        BY <1>2, <1>5, <2>1, <3>1, ReachUnfolds
      <4> QED BY <3>1, <4>1
    <3>2. CASE nx[g] # e
      BY <1>5, <2>1, <3>2
    <3> QED BY <3>1, <3>2
  <2> QED BY <1>10, <2>1, <2>2, <2>3
<1> QED BY <1>5, <1>6, <1>9, <1>11 DEF A, Linear

\* The list as the specification's variables have it.
LEMMA FromIsReach ==
  /\ \A q : From(q) = Reach(next, q)
  /\ Active = Reach(next, head)
  /\ \A q : From(q)' = Reach(next', q)
  /\ Active' = Reach(next', head')
BY DEF From, Active, Reach, IsClosed

\* time_event_del, wherever on the list the event is.
LEMMA UnlinkList ==
  ASSUME TypeOK, ListInv, NEW e \in Active, Unlink(e)
  PROVE  /\ next' \in Pointers /\ head' \in Events \cup {NULL}
         /\ ListInv'
         /\ Active' \subseteq Active \ {e}
         /\ next'[e] = next[e] /\ next'[e] \in Active' \cup {NULL}
         /\ e \notin From(next[e]) /\ From(next[e])' = From(next[e])
<1>1. next \in Pointers /\ head \in Events \cup {NULL}
  BY DEF TypeOK, Pointers
<1>2. /\ e \in Events /\ e # NULL /\ e \in Reach(next, head)
      /\ next[e] \in Events \cup {NULL}
  BY <1>1, TimerAssumption, FromIsReach, ReachIsLeast DEF Pointers
<1>3. e \notin Reach(next, next[e])
  BY <1>2 DEF ListInv, Linear
<1>4. CASE e = head
  <2>1. head' = next[e] /\ next' = next
    BY <1>4 DEF Unlink
  <2>2. Reach(next, head) = {e} \cup Reach(next, next[e])
    BY <1>1, <1>2, <1>4, ReachUnfolds
  <2>3. next[e] \in Reach(next, next[e]) \cup {NULL}
    BY <1>1, <1>2, ReachIsLeast
  <2>4. Linear(next, next[e])
    BY <2>2 DEF ListInv, Linear
  <2>5. Reach(next', next[e]) = Reach(next, next[e]) /\ ListInv'
    BY <2>1, <2>4 DEF ListInv
  <2> QED BY <1>1, <1>2, <1>3, <2>1, <2>2, <2>3, <2>5, FromIsReach
<1>5. CASE e # head
  <2>1. head' = head /\ next' = Without(next, head, e)
    BY <1>5, FromIsReach DEF Unlink, Without
  <2>2. /\ next' \in Pointers
        /\ Reach(next', head) \subseteq Reach(next, head) \ {e}
        /\ next[e] \in Reach(next', head) \cup {NULL}
        /\ Linear(next', head)
    BY <1>1, <1>2, <1>5, <2>1, UnlinkMiddle DEF ListInv
  <2>3. \A f \in Reach(next, next[e]) : next'[f] = next[f]
    <3>1. ASSUME NEW f \in Reach(next, next[e])
          PROVE  next'[f] = next[f]
      <4>1. f \in Events /\ next[f] # e
        BY <1>1, <1>2, <1>3, ReachIsLeast DEF IsClosed
      <4> QED BY <2>1, <4>1 DEF Without
    <3> QED BY <3>1
  <2>4. Reach(next', next[e]) = Reach(next, next[e])
    BY <1>1, <1>2, <2>2, <2>3, ReachSame
  <2>5. next'[e] = next[e]
    <3>1. next[e] # e
      <4>1. next[e] \in Reach(next, next[e]) \cup {NULL}
        BY <1>1, <1>2, ReachIsLeast
      <4> QED BY <1>2, <1>3, <4>1
    <3> QED BY <1>2, <2>1, <3>1 DEF Without
  <2>6. ListInv'
    BY <2>1, <2>2 DEF ListInv
  <2> QED BY <1>1, <1>3, <2>1, <2>2, <2>4, <2>5, <2>6, FromIsReach
<1> QED BY <1>4, <1>5

\* An event that is off the list may point anywhere.
LEMMA OffTheList ==
  ASSUME TypeOK, ListInv, NEW ny \in Pointers,
         \A f \in Active : ny[f] = next[f]
  PROVE  /\ Reach(ny, head) = Active
         /\ Linear(ny, head)
         /\ \A q \in Active \cup {NULL} : Reach(ny, q) = From(q)
         /\ \A q \in Active : From(q) \subseteq Active
<1>1. next \in Pointers /\ head \in Events \cup {NULL}
  BY DEF TypeOK, Pointers
<1>2. \A f \in Reach(next, head) : ny[f] = next[f]
  BY FromIsReach
<1>3. Active \in SUBSET Events /\ IsClosed(next, Active)
  BY <1>1, FromIsReach, ReachIsLeast
<1>4. ASSUME NEW q \in Active \cup {NULL}
      PROVE  Reach(next, q) \subseteq Active /\ Reach(ny, q) = Reach(next, q)
  <2>1. q \in Events \cup {NULL}
    BY <1>3
  <2>2. Reach(next, q) \subseteq Active
    BY <1>1, <1>3, <2>1, ReachIsLeast
  <2> QED BY <1>1, <2>1, <2>2, ReachSame
<1>5. Reach(ny, head) = Active /\ Linear(ny, head)
  BY <1>1, <1>2, FromIsReach, ReachSame, LinearSame DEF ListInv
<1> QED BY <1>4, <1>5, FromIsReach

-----------------------------------------------------------------------------
(* Each action keeps the invariant and gets ahead                            *)

\* What a step within a tick has to do with the events that are still ahead of it.
Advances ==
  pc # "halted" =>
    /\ Ahead' \subseteq Ahead
    /\ Loop /\ p # NULL => p \in Ahead \ Ahead'

LEMMA InitInv == Init => IInv
<1> SUFFICES ASSUME Init PROVE IInv
  OBVIOUS
<1>1. next \in Pointers /\ head = NULL
  BY DEF Init, Pointers
<1>2. Active = {}
  BY <1>1, FromIsReach, ReachParts
<1>3. TypeOK
  BY <1>2, TimerAssumption DEF Init, TypeOK
<1>4. ListInv
  BY <1>1, ReachParts DEF ListInv, Linear
<1>5. LoopInv
  BY DEF Init, LoopInv, Ahead
<1> QED BY <1>3, <1>4, <1>5 DEF IInv

\* What is ahead of a callback stays ahead if the list is changed elsewhere.
LEMMA CallbackGoesOn ==
  ASSUME IInv, UNCHANGED <<pc, p, visits>>, pc \in {"halted", "callback"},
         kept' \subseteq kept, Active \cup {NULL} \subseteq Active' \cup {NULL},
         pc = "callback" => next'[p] = next[p] /\ From(next[p])' = From(next[p])
  PROVE  LoopInv' /\ Ahead' = Ahead
<1>1. CASE pc = "halted"
  BY <1>1 DEF IInv, LoopInv, Ahead
<1>2. CASE pc = "callback"
  <2>1. /\ next'[p] = next[p] /\ p' = p /\ pc' = "callback"
        /\ next[p] \in Active \cup {NULL} /\ p \in Events /\ p \notin From(next[p])
    BY <1>2 DEF IInv, LoopInv
  <2>2. (From(next[p]))' = From(next[p])
    BY <1>2
  <2>3. Ahead' = Ahead /\ Ahead = From(next[p])
    BY <1>2, <2>1, <2>2 DEF Ahead
  <2> QED BY <1>2, <2>1, <2>2, <2>3 DEF IInv, LoopInv
<1> QED BY <1>1, <1>2

LEMMA SetStep ==
  ASSUME IInv, NEW e \in Events, NEW interval \in 1 .. MaxInterval, NEW repeat \in BOOLEAN,
         Set(e, interval, repeat)
  PROVE  IInv' /\ Advances
<1>1. /\ MayCall(e) /\ e \notin Active
      /\ next' = [next EXCEPT ![e] = NULL]
      /\ UNCHANGED <<head, pc, p, watch>>
      /\ t_remaining' = [t_remaining EXCEPT ![e] = interval]
      /\ t_interval' = [t_interval EXCEPT ![e] = IF repeat THEN interval ELSE 0]
  BY DEF Set
<1>2. /\ next \in Pointers /\ next' \in Pointers
      /\ \A f \in Active : next'[f] = next[f]
      /\ \A f \in Events : f # e => next'[f] = next[f]
  BY <1>1 DEF IInv, TypeOK, Pointers, Active, From
<1>3. /\ Active' = Active /\ ListInv'
      /\ \A q \in Active \cup {NULL} : From(q)' = From(q)
  BY <1>1, <1>2, OffTheList, FromIsReach DEF IInv, ListInv
<1>4. TypeOK'
  BY <1>1, <1>2, <1>3, TimerAssumption DEF IInv, TypeOK, Pointers, watch
<1>5. LoopInv' /\ Ahead' = Ahead
  <2>1. pc = "callback" => next'[p] = next[p] /\ From(next[p])' = From(next[p])
    BY <1>1, <1>2, <1>3 DEF IInv, LoopInv, MayCall
  <2> QED BY <1>1, <1>3, <2>1, CallbackGoesOn DEF MayCall, watch
<1>6. Advances
  BY <1>1, <1>5 DEF Advances, MayCall, Loop, CountDown, Once, Again, Leave
<1> QED BY <1>3, <1>4, <1>5, <1>6 DEF IInv

\* time_event_add: the event becomes the head, behind the loop.
LEMMA AddStep ==
  ASSUME IInv, NEW e \in Events, Add(e)
  PROVE  IInv' /\ Advances
<1>1. /\ MayCall(e) /\ e \notin Active /\ t_remaining[e] > 0
      /\ next' = [next EXCEPT ![e] = head] /\ head' = e
      /\ UNCHANGED <<times, pc, p, watch>>
  BY DEF Add
<1>2. /\ next \in Pointers /\ next' \in Pointers /\ head \in Events \cup {NULL}
      /\ next'[e] = head
      /\ \A f \in Active : next'[f] = next[f]
      /\ \A f \in Events : f # e => next'[f] = next[f]
  BY <1>1 DEF IInv, TypeOK, Pointers, Active, From
<1>3. /\ Reach(next', head) = Active /\ Linear(next', head)
      /\ \A q \in Active \cup {NULL} : Reach(next', q) = From(q)
  BY <1>1, <1>2, OffTheList DEF IInv
<1>4. Active' = {e} \cup Active
  <2>1. Reach(next', e) = {e} \cup Reach(next', next'[e])
    BY <1>2, ReachUnfolds
  <2>2. Active' = Reach(next', head')
    BY FromIsReach
  <2> QED BY <1>1, <1>2, <1>3, <2>1, <2>2
<1>5. ListInv'
  <2>1. \A f \in Active : f \notin Reach(next', next'[f])
    BY <1>3 DEF Linear
  <2>2. e \notin Reach(next', next'[e])
    BY <1>1, <1>2, <1>3
  <2> QED BY <1>4, <2>1, <2>2, FromIsReach DEF ListInv, Linear
<1>6. TypeOK'
  BY <1>1, <1>2, <1>4 DEF IInv, TypeOK, Pointers, watch, times
<1>7. LoopInv' /\ Ahead' = Ahead
  <2>1. pc = "callback" => next'[p] = next[p] /\ From(next[p])' = From(next[p])
    BY <1>1, <1>2, <1>3, FromIsReach DEF IInv, LoopInv, MayCall
  <2> QED BY <1>1, <1>4, <2>1, CallbackGoesOn DEF MayCall, watch
<1>8. Advances
  BY <1>1, <1>7 DEF Advances, MayCall, Loop, CountDown, Once, Again, Leave
<1> QED BY <1>5, <1>6, <1>7, <1>8 DEF IInv

\* time_event_del, from outside or by the event that is called.
LEMMA DelStep ==
  ASSUME IInv, NEW e \in Events, Del(e)
  PROVE  IInv' /\ Advances
<1>1. /\ pc = "halted" \/ (pc = "callback" /\ e = p)
      /\ e \in Active /\ Unlink(e)
      /\ kept' = kept \ {e}
      /\ UNCHANGED <<times, pc, p, visits>>
  BY DEF Del
<1>2. /\ next' \in Pointers /\ head' \in Events \cup {NULL}
      /\ ListInv'
      /\ Active' \subseteq Active \ {e}
      /\ next'[e] = next[e] /\ next'[e] \in Active' \cup {NULL}
      /\ e \notin From(next[e]) /\ From(next[e])' = From(next[e])
  BY <1>1, UnlinkList DEF IInv
<1>3. TypeOK'
  BY <1>1, <1>2 DEF IInv, TypeOK, Pointers, times
<1>4. LoopInv' /\ Ahead' = Ahead
  <2>1. CASE pc = "halted"
    BY <1>1, <2>1 DEF IInv, LoopInv, Ahead
  <2>2. CASE pc = "callback"
    <3>1. Ahead' = Ahead /\ Ahead = From(next[p])
      BY <1>1, <1>2, <2>2 DEF Ahead
    <3> QED BY <1>1, <1>2, <2>2, <3>1 DEF IInv, LoopInv
  <2> QED BY <1>1, <2>1, <2>2
<1>5. Advances
  BY <1>1, <1>4 DEF Advances, Loop, CountDown, Once, Again, Leave
<1> QED BY <1>2, <1>3, <1>4, <1>5 DEF IInv

LEMMA TickStep ==
  ASSUME IInv, Tick
  PROVE  IInv' /\ Advances
<1>1. /\ pc = "halted" /\ pc' = "loop" /\ p' = head
      /\ visits' = [e \in Events |-> 0] /\ kept' = Active
      /\ UNCHANGED <<list, times>>
  BY DEF Tick
<1>2. Active' = Active /\ ListInv'
  BY <1>1, FromIsReach DEF IInv, ListInv, list
<1>3. Active \subseteq Events /\ head \in Active \cup {NULL}
  BY FromIsReach, ReachIsLeast DEF IInv, TypeOK, Pointers
<1>4. Ahead' = Active
  BY <1>1, FromIsReach DEF Ahead, list
<1>5. TypeOK'
  BY <1>1, <1>2, <1>3 DEF IInv, TypeOK, list, times
<1>6. LoopInv'
  BY <1>1, <1>2, <1>3, <1>4 DEF LoopInv
<1> QED BY <1>1, <1>2, <1>5, <1>6 DEF IInv, Advances

\* The loop is at an event: it has not been counted yet, and is not met again.
LEMMA AtEvent ==
  ASSUME IInv, pc = "loop", p # NULL
  PROVE  /\ p \in Active /\ p \in Events /\ visits[p] = 0 /\ t_remaining[p] \in 1 .. UintMax
         /\ Ahead = {p} \cup From(next[p]) /\ p \notin From(next[p])
         /\ next[p] \in Active \cup {NULL}
         /\ Visited \in [Events -> 0 .. 2] /\ Visited[p] = 1
         /\ \A e \in Events : e # p => Visited[e] = visits[e]
<1>1. next \in Pointers /\ p \in Active /\ head \in Events \cup {NULL}
  BY DEF IInv, LoopInv, TypeOK, Pointers
<1>2. p \in Reach(next, head) /\ p \in Events /\ next[p] \in Active \cup {NULL}
  BY <1>1, FromIsReach, ReachIsLeast DEF IsClosed
<1>3. Ahead = {p} \cup From(next[p]) /\ p \notin From(next[p])
  <2>1. Ahead = From(p)
    BY DEF Ahead
  <2>2. Reach(next, p) = {p} \cup Reach(next, next[p])
    BY <1>1, <1>2, ReachUnfolds
  <2> QED BY <1>2, <2>1, <2>2, FromIsReach DEF IInv, ListInv, Linear
<1>4. visits[p] = 0
  BY <1>3 DEF IInv, LoopInv
<1> QED BY <1>1, <1>2, <1>3, <1>4 DEF IInv, TypeOK, Visited

LEMMA CountDownStep ==
  ASSUME IInv, CountDown
  PROVE  IInv' /\ Advances
<1>1. /\ pc = "loop" /\ p # NULL /\ t_remaining[p] # 1
      /\ t_remaining' =
           [t_remaining EXCEPT ![p] = (t_remaining[p] + UintMax) % (UintMax + 1)]
      /\ p' = next[p] /\ visits' = Visited
      /\ UNCHANGED <<list, t_interval, pc, kept>>
  BY DEF CountDown
<1>2. Active' = Active /\ ListInv'
  BY <1>1, FromIsReach DEF IInv, ListInv, list
<1>3. (t_remaining[p] + UintMax) % (UintMax + 1) \in 1 .. UintMax
  <2>1. /\ UintMax \in Nat \ {0} /\ t_remaining[p] \in 2 .. UintMax
    BY <1>1, AtEvent, TimerAssumption
  <2> DEFINE t == t_remaining[p]
  <2> HIDE DEF t
  <2>2. UintMax \in Nat \ {0} /\ t \in 2 .. UintMax
    BY <2>1 DEF t
  <2>3. t + UintMax = (t - 1) + 1 * (UintMax + 1) /\ t - 1 \in 0 .. UintMax
    BY <2>2
  <2>4. (t + UintMax) % (UintMax + 1) = t - 1
    BY <2>2, <2>3
  <2>5. (t + UintMax) % (UintMax + 1) \in 1 .. UintMax
    BY <2>2, <2>4
  <2> QED BY <2>5 DEF t
<1>4. TypeOK'
  BY <1>1, <1>2, <1>3, AtEvent DEF IInv, TypeOK, list
<1>5. Ahead' = From(next[p])
  BY <1>1, FromIsReach DEF Ahead, list
<1>6. LoopInv'
  BY <1>1, <1>2, <1>5, AtEvent DEF IInv, LoopInv, TypeOK, From
<1>7. Advances
  BY <1>1, <1>5, AtEvent DEF Advances
<1> QED BY <1>2, <1>4, <1>6, <1>7 DEF IInv

LEMMA OnceStep ==
  ASSUME IInv, Once
  PROVE  IInv' /\ Advances
<1>1. /\ pc = "loop" /\ p # NULL
      /\ t_remaining' = [t_remaining EXCEPT ![p] = 0]
      /\ Unlink(p)
      /\ pc' = "callback" /\ visits' = Visited /\ kept' = kept \ {p}
      /\ UNCHANGED <<t_interval, p>>
  BY DEF Once
<1>2. /\ next' \in Pointers /\ head' \in Events \cup {NULL}
      /\ ListInv'
      /\ Active' \subseteq Active \ {p}
      /\ next'[p] = next[p] /\ next'[p] \in Active' \cup {NULL}
      /\ Reach(next', next[p]) = From(next[p])
  <2>1. PICK e : e = p
    OBVIOUS
  <2>2. /\ next'[e] = next[e] /\ From(next[e])' = From(next[e])
        /\ next' \in Pointers /\ head' \in Events \cup {NULL}
        /\ ListInv' /\ Active' \subseteq Active \ {e}
        /\ next'[e] \in Active' \cup {NULL}
    BY <1>1, <2>1, AtEvent, UnlinkList DEF IInv
  <2>3. From(next[e])' = Reach(next', next'[e])
    BY FromIsReach
  <2> QED BY <2>1, <2>2, <2>3
<1>3. TypeOK'
  <2>1. p \in Events /\ visits' \in [Events -> 0 .. 2] /\ Active \subseteq Events
    BY <1>1, AtEvent DEF Active, From
  <2>2. t_remaining' \in [Events -> 0 .. UintMax]
    BY <1>1, <2>1, TimerAssumption DEF IInv, TypeOK
  <2>3. \A e \in Active' : t_remaining'[e] > 0
    BY <1>1, <1>2, <2>1 DEF IInv, TypeOK
  <2> QED BY <1>1, <1>2, <2>1, <2>2, <2>3 DEF IInv, TypeOK, Pointers
<1>4. Ahead' = From(next[p])
  <2>1. Ahead' = Reach(next', next'[p'])
    BY <1>1, FromIsReach DEF Ahead
  <2> QED BY <1>1, <1>2, <2>1
<1>5. LoopInv'
  <2>1. p' \in Events /\ next'[p'] \in Active' \cup {NULL}
    BY <1>1, <1>2, AtEvent
  <2>2. p' \notin From(next[p])'
    BY <1>1, <1>2, FromIsReach, AtEvent
  <2>3. /\ \A e \in Ahead' : visits'[e] = 0
        /\ \A e \in kept' \ Ahead' : visits'[e] = 1
        /\ \A e \in Events : visits'[e] <= 1
    BY <1>1, <1>4, AtEvent DEF IInv, LoopInv, TypeOK, From
  <2> QED BY <1>1, <2>1, <2>2, <2>3 DEF LoopInv
<1>6. Advances
  BY <1>1, <1>4, AtEvent DEF Advances
<1> QED BY <1>2, <1>3, <1>5, <1>6 DEF IInv

LEMMA AgainStep ==
  ASSUME IInv, Again
  PROVE  IInv' /\ Advances
<1>1. /\ pc = "loop" /\ p # NULL /\ t_interval[p] # 0
      /\ t_remaining' = [t_remaining EXCEPT ![p] = t_interval[p]]
      /\ pc' = "callback" /\ visits' = Visited
      /\ UNCHANGED <<list, t_interval, p, kept>>
  BY DEF Again
<1>2. Active' = Active /\ ListInv'
  BY <1>1, FromIsReach DEF IInv, ListInv, list
<1>3. t_interval[p] \in 1 .. UintMax
  BY <1>1, AtEvent, TimerAssumption DEF IInv, TypeOK
<1>4. TypeOK'
  BY <1>1, <1>2, <1>3, AtEvent DEF IInv, TypeOK, list
<1>5. Ahead' = From(next[p]) /\ From(next[p])' = From(next[p])
  BY <1>1, FromIsReach DEF Ahead, list
<1>6. LoopInv'
  BY <1>1, <1>2, <1>5, AtEvent DEF IInv, LoopInv, TypeOK, From, list
<1>7. Advances
  BY <1>1, <1>5, AtEvent DEF Advances
<1> QED BY <1>2, <1>4, <1>6, <1>7 DEF IInv

\* The pointer is read after the callback, and leads where it led before.
LEMMA ReturnStep ==
  ASSUME IInv, Return
  PROVE  IInv' /\ Advances
<1>1. /\ pc = "callback" /\ pc' = "loop" /\ p' = next[p]
      /\ UNCHANGED <<list, times, watch>>
  BY DEF Return
<1>2. Active' = Active /\ ListInv'
  BY <1>1, FromIsReach DEF IInv, ListInv, list
<1>3. next[p] \in Active \cup {NULL} /\ Active \subseteq Events
  BY <1>1 DEF IInv, LoopInv, Active, From
<1>4. TypeOK'
  BY <1>1, <1>2, <1>3 DEF IInv, TypeOK, list, times, watch
<1>5. Ahead' = Ahead
  BY <1>1, FromIsReach DEF Ahead, list
<1>6. LoopInv'
  BY <1>1, <1>2, <1>3, <1>5 DEF IInv, LoopInv, watch
<1> QED BY <1>1, <1>2, <1>4, <1>5, <1>6
        DEF IInv, Advances, Loop, CountDown, Once, Again, Leave

LEMMA LeaveStep ==
  ASSUME IInv, Leave
  PROVE  IInv' /\ Advances
<1>1. /\ pc = "loop" /\ p = NULL /\ pc' = "halted"
      /\ UNCHANGED <<list, times, p, watch>>
  BY DEF Leave
<1>2. Active' = Active /\ ListInv'
  BY <1>1, FromIsReach DEF IInv, ListInv, list
<1>3. TypeOK'
  BY <1>1, <1>2 DEF IInv, TypeOK, list, times, watch
<1>4. Ahead = {} /\ Ahead' = {}
  BY <1>1, FromIsReach, ReachParts DEF IInv, TypeOK, Pointers, Ahead
<1>5. LoopInv'
  BY <1>1, <1>4 DEF IInv, LoopInv, watch
<1> QED BY <1>1, <1>2, <1>3, <1>4, <1>5 DEF IInv, Advances

LEMMA StutterStep ==
  ASSUME IInv, UNCHANGED vars
  PROVE  IInv'
<1>1. Active' = Active /\ ListInv' /\ Ahead' = Ahead
  BY FromIsReach DEF IInv, ListInv, vars, list, Ahead
<1>2. TypeOK'
  BY <1>1 DEF IInv, TypeOK, vars, list, times, watch
<1>3. LoopInv'
  BY <1>1 DEF IInv, LoopInv, vars, list, watch, From
<1> QED BY <1>1, <1>2, <1>3 DEF IInv

LEMMA NextStep ==
  ASSUME IInv, Next
  PROVE  IInv' /\ Advances
BY SetStep, AddStep, DelStep, TickStep, CountDownStep, OnceStep, AgainStep, ReturnStep,
   LeaveStep DEF Next, Call, Loop

-----------------------------------------------------------------------------
(* The theorems                                                              *)

\* The inductive invariant holds in every state, whatever the permitted callbacks do to
\* the list that is being gone through.
THEOREM Invariance == Spec => []IInv
<1>1. IInv /\ [Next]_vars => IInv'
  BY NextStep, StutterStep
<1> QED BY <1>1, InitInv, PTL DEF Spec

\* The type invariant; in particular nothing on the list has 0 ticks left.
THEOREM TypeCorrect == Spec => []TypeOK
<1>1. IInv => TypeOK
  BY DEF IInv
<1> QED BY <1>1, Invariance, PTL

\* A tick counts every event that stays on the list down once, and none twice.
THEOREM CountedOnce == Spec => []OnceATick
<1>1. IInv => OnceATick
  BY DEF IInv, LoopInv, Ahead, OnceATick
<1> QED BY <1>1, Invariance, PTL

\* A tick gets ahead: no callback puts an event back in front of the loop, and each step of
\* the loop leaves one behind.  On a finite list this is why a tick ends.
THEOREM TickGetsAhead == Spec => TickAdvances
<1>1. IInv /\ [Next]_vars => [Advances]_vars
  BY NextStep
<1> QED BY <1>1, Invariance, PTL DEF Spec, TickAdvances, Advances
=============================================================================
