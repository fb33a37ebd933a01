--------------------------- MODULE AsyncQueueProofs ---------------------------
(***************************************************************************)
(* For every set of values, bound and interleaving: when callers do not    *)
(* add from a microtask, the generator of ts/util/AsyncQueue.ts implements *)
(* the first-in first-out channel of module Fifo.                          *)
(***************************************************************************)
EXTENDS AsyncQueue, TLAPS

\* The variables of AsyncQueue keep their types.
THEOREM TypeCorrect == Spec => []TypeOK
<1>1. Init => TypeOK
  BY DEF Init, TypeOK, Places
<1>2. TypeOK /\ [Next]_vars => TypeOK'
  <2> SUFFICES ASSUME TypeOK, [Next]_vars
               PROVE  TypeOK'
    OBVIOUS
  <2> USE DEF TypeOK, Places
  <2>1. ASSUME NEW v \in Values, Add(v)
        PROVE  TypeOK'
    BY <2>1 DEF Add, OnAdd
  <2>2. CASE AskNext
    BY <2>2 DEF AskNext
  <2>3. CASE Yield
    <3>1. queue[pos + 1] \in Values
      BY <2>3 DEF Yield
    <3>2. QED
      BY <2>3, <3>1 DEF Yield
  <2>4. CASE Exhaust
    BY <2>4 DEF Exhaust
  <2>5. CASE Rearm
    BY <2>5 DEF Rearm
  <2>6. CASE Close
    BY <2>6 DEF Close
  <2>7. CASE UNCHANGED vars
    BY <2>7 DEF vars
  <2>8. QED
    BY <2>1, <2>2, <2>3, <2>4, <2>5, <2>6, <2>7 DEF Next, Generator
<1>3. QED
  BY <1>1, <1>2, PTL DEF Spec

-------------------------------------------------------------------------------
\* While the generator is in its gap or asleep it has nothing left to hand over:
\* the reason why replacing the array there loses nothing.
NothingUnread == pc \in {"gap", "waiting"} => pos = Len(queue)

IInv == TypeOK /\ NothingLost /\ NothingUnread

\* The inductive invariant holds at first ...
LEMMA InitInv == Init => IInv
BY DEF Init, IInv, TypeOK, Places, NothingLost, NothingUnread

\* What pushing one element does to the length and to the elements of a sequence.
LEMMA AppendFacts ==
    ASSUME NEW S, NEW s \in Seq(S), NEW e \in S
    PROVE  /\ Append(s, e) \in Seq(S)
           /\ Len(s) \in Nat
           /\ Len(Append(s, e)) = Len(s) + 1
           /\ \A i \in 1..Len(s) : Append(s, e)[i] = s[i]
           /\ Append(s, e)[Len(s) + 1] = e
OBVIOUS

\* Every step keeps the delivered values and the unread tail of the array
\* together equal to what was added.
LEMMA NextInv ==
    ASSUME ~MicrotaskAdds, IInv, [Next]_vars
    PROVE  NothingLost' /\ NothingUnread'
<1>1. /\ queue \in Seq(Values) /\ added \in Seq(Values) /\ delivered \in Seq(Values)
      /\ Len(queue) \in Nat /\ Len(added) \in Nat /\ Len(delivered) \in Nat
      /\ pos \in Nat /\ pos <= Len(queue)
  BY DEF IInv, TypeOK
<1>2. /\ Len(added) = Len(delivered) + (Len(queue) - pos)
      /\ \A i \in 1..Len(delivered) : delivered[i] = added[i]
      /\ \A i \in 1..(Len(queue) - pos) :
            queue[pos + i] = added[Len(delivered) + i]
  BY DEF IInv, NothingLost
<1>3. ASSUME NEW v \in Values, Add(v)
      PROVE  NothingLost' /\ NothingUnread'
  <2>1. /\ queue' = Append(queue, v) /\ added' = Append(added, v)
        /\ pos' = pos /\ delivered' = delivered /\ pc' \notin {"gap", "waiting"}
    BY <1>3 DEF Add, OnAdd
  <2>2. /\ Len(queue') = Len(queue) + 1
        /\ \A i \in 1..Len(queue) : queue'[i] = queue[i]
        /\ queue'[Len(queue) + 1] = v
    BY <1>1, <2>1, AppendFacts
  <2>3. /\ Len(added') = Len(added) + 1
        /\ \A i \in 1..Len(added) : added'[i] = added[i]
        /\ added'[Len(added) + 1] = v
    BY <1>1, <2>1, AppendFacts
  <2>4. Len(added') = Len(delivered') + (Len(queue') - pos')
    BY <1>1, <1>2, <2>1, <2>2, <2>3
  <2>5. ASSUME NEW i \in 1..Len(delivered')
        PROVE  delivered'[i] = added'[i]
    BY <1>1, <1>2, <2>1, <2>3
  <2>6. ASSUME NEW i \in 1..(Len(queue') - pos')
        PROVE  queue'[pos' + i] = added'[Len(delivered') + i]
    <3>1. CASE i = Len(queue) - pos + 1
      <4>1. pos' + i = Len(queue) + 1 /\ Len(delivered') + i = Len(added) + 1
        BY <3>1, <1>1, <1>2, <2>1
      <4>2. QED
        BY <4>1, <2>2, <2>3
    <3>2. CASE i \in 1..(Len(queue) - pos)
      <4>1. pos + i \in 1..Len(queue) /\ Len(delivered) + i \in 1..Len(added)
        BY <3>2, <1>1, <1>2
      <4>2. queue'[pos' + i] = queue[pos + i]
        BY <4>1, <2>1, <2>2
      <4>3. added'[Len(delivered') + i] = added[Len(delivered) + i]
        BY <4>1, <2>1, <2>3
      <4>4. queue[pos + i] = added[Len(delivered) + i]
        BY <3>2, <1>2
      <4>5. QED
        BY <4>2, <4>3, <4>4
    <3>3. i \in 1..(Len(queue) + 1 - pos)
      <4>1. pos' = pos
        BY <2>1
      <4>2. QED
        BY <1>1, <4>1, <2>2
    <3>4. i = Len(queue) - pos + 1 \/ i \in 1..(Len(queue) - pos)
      BY <3>3, <1>1
    <3>5. QED
      BY <3>1, <3>2, <3>4
  <2>7. QED
    BY <2>1, <2>4, <2>5, <2>6 DEF NothingLost, NothingUnread
<1>4. CASE Yield
  <2>1. /\ pos' = pos + 1 /\ queue' = queue /\ added' = added /\ pc' = "yielded"
        /\ delivered' = Append(delivered, queue[pos + 1]) /\ pos < Len(queue)
    BY <1>4 DEF Yield
  <2>2. queue[pos + 1] = added[Len(delivered) + 1] /\ queue[pos + 1] \in Values
    BY <1>1, <1>2, <2>1
  <2>3. /\ Len(delivered') = Len(delivered) + 1
        /\ \A i \in 1..Len(delivered) : delivered'[i] = delivered[i]
        /\ delivered'[Len(delivered) + 1] = added[Len(delivered) + 1]
    BY <1>1, <2>1, <2>2, AppendFacts
  <2>4. Len(added') = Len(delivered') + (Len(queue') - pos')
    <3>1. Len(added') = Len(added) /\ Len(queue') = Len(queue)
      BY <2>1
    <3>2. Len(added) = (Len(delivered) + 1) + (Len(queue) - (pos + 1))
      BY <1>1, <1>2
    <3>3. QED
      BY <3>1, <3>2, <2>1, <2>3
  <2>5. ASSUME NEW i \in 1..Len(delivered')
        PROVE  delivered'[i] = added'[i]
    <3>1. i = Len(delivered) + 1 \/ i \in 1..Len(delivered)
      BY <1>1, <2>3
    <3>2. QED
      BY <3>1, <1>1, <1>2, <2>1, <2>3
  <2>6. ASSUME NEW i \in 1..(Len(queue') - pos')
        PROVE  queue'[pos' + i] = added'[Len(delivered') + i]
    <3>1. i + 1 \in 1..(Len(queue) - pos)
      BY <1>1, <2>1
    <3>2. queue[pos + (i + 1)] = added[Len(delivered) + (i + 1)]
      BY <1>2, <3>1
    <3>3. QED
      BY <1>1, <2>1, <2>3, <3>2
  <2>7. QED
    BY <2>1, <2>4, <2>5, <2>6 DEF NothingLost, NothingUnread
<1>5. CASE AskNext
  BY <1>5, <1>2 DEF AskNext, NothingLost, NothingUnread
<1>6. CASE Exhaust
  BY <1>6, <1>1, <1>2 DEF Exhaust, NothingLost, NothingUnread
<1>7. CASE Rearm
  BY <1>7, <1>1, <1>2 DEF Rearm, IInv, NothingLost, NothingUnread
<1>8. CASE Close
  BY <1>8, <1>2 DEF Close, NothingLost, NothingUnread
<1>9. CASE UNCHANGED vars
  BY <1>9 DEF vars, IInv, NothingLost, NothingUnread
<1>10. QED
  BY <1>3, <1>4, <1>5, <1>6, <1>7, <1>8, <1>9 DEF Next, Generator

\* ... and ever after, if no caller adds from a microtask.
LEMMA Invariant == ASSUME ~MicrotaskAdds PROVE Spec => []IInv
<1>1. IInv /\ [Next]_vars => (NothingLost /\ NothingUnread)'
  BY NextInv
<1>2. QED
  BY <1>1, InitInv, TypeCorrect, PTL DEF Spec, IInv

\* Nothing added is lost, repeated or reordered, however adds interleave with the
\* generator, as long as no caller adds from a microtask.
THEOREM NoValueLost == ASSUME ~MicrotaskAdds PROVE Spec => []NothingLost
BY Invariant, PTL DEF IInv

\* A sleeping generator has delivered everything (no lost wake-up).
THEOREM NoWakeupLost == ASSUME ~MicrotaskAdds PROVE Spec => []NoLostWakeup
<1>1. IInv => NoLostWakeup
  BY DEF IInv, TypeOK, NothingLost, NothingUnread, NoLostWakeup
<1>2. QED
  BY <1>1, Invariant, PTL

\* The generator implements the abstract channel: it starts as the channel does and
\* each of its steps is a Put, a Take or a step the channel does not see.
THEOREM Refinement == ASSUME ~MicrotaskAdds PROVE Spec => ImplementsFifo
<1>1. Init => FIFO!Init
  BY DEF Init, FIFO!Init
<1>2. IInv /\ [Next]_vars => [FIFO!Next]_(FIFO!vars)
  <2> SUFFICES ASSUME IInv, [Next]_vars
               PROVE  FIFO!Next \/ UNCHANGED <<added, delivered>>
    BY DEF FIFO!vars
  <2>1. ASSUME NEW v \in Values, Add(v)
        PROVE  FIFO!Put
    BY <2>1 DEF Add, FIFO!Put
  <2>2. CASE Yield
    <3>1. Len(delivered) < Len(added)
      BY <2>2 DEF Yield, IInv, TypeOK, NothingLost
    <3>2. queue[pos + 1] = added[Len(delivered) + 1]
      BY <2>2 DEF Yield, IInv, TypeOK, NothingLost
    <3>3. FIFO!Take
      BY <2>2, <3>1, <3>2 DEF Yield, FIFO!Take
    <3>4. QED
      BY <3>3 DEF FIFO!Next
  <2>3. CASE AskNext \/ Exhaust \/ Rearm \/ Close \/ UNCHANGED vars
    BY <2>3 DEF AskNext, Exhaust, Rearm, Close, vars
  <2>4. QED
    BY <2>1, <2>2, <2>3 DEF Next, Generator, FIFO!Next
<1>3. QED
  BY <1>1, <1>2, Invariant, PTL DEF Spec, ImplementsFifo, FIFO!Spec
===============================================================================
