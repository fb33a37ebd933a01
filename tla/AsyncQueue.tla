------------------------------ MODULE AsyncQueue ------------------------------
(***************************************************************************)
(* ts/util/AsyncQueue.ts: an array, and an async generator that empties it *)
(* for its only consumer.  The generator delegates to the array's iterator *)
(* (yield* this.queue); when that iterator is done the generator resumes a *)
(* few microtasks later, replaces the array by an empty one and waits for  *)
(* the next add.  An add that arrives after the iterator is done and       *)
(* before the array is replaced lands in the array that is thrown away.    *)
(*                                                                         *)
(* The only user, JobQueueDatabaseStore, adds after a reply of the         *)
(* database, which is a task of its own: the event loop has then drained   *)
(* the microtasks and the generator is never in that gap.  MicrotaskAdds   *)
(* says whether callers may also add from a microtask.                     *)
(***************************************************************************)
EXTENDS Naturals, Sequences

CONSTANTS Values,         \* the values callers add
          MaxAdds,        \* bound on the number of calls of add
          MicrotaskAdds   \* may a caller add while the generator is in its gap?

ASSUME MaxAddsAssumption == MaxAdds \in Nat
ASSUME MicrotaskAddsAssumption == MicrotaskAdds \in BOOLEAN

VARIABLES queue,      \* this.queue, the array the generator is iterating
          pos,        \* how many elements of it the array iterator has returned
          pc,         \* where the generator is suspended
          added,      \* history: the arguments of add, in call order
          delivered   \* history: the values yielded to the consumer

vars == <<queue, pos, pc, added, delivered>>

\* unread: isReading is false; reading: next() was called, or the wait ended;
\* yielded: suspended at a yield; gap: the array iterator is done and yield* is
\* awaiting that answer; waiting: onAdd is armed; closed: the consumer left its loop.
Places == {"unread", "reading", "yielded", "gap", "waiting", "closed"}

-------------------------------------------------------------------------------
(* Slips of the code that the runs must notice. *)

\* The array is replaced but the position of the old iterator is kept.
RearmKeepsPosition ==
    /\ pc = "gap"
    /\ queue' = <<>>
    /\ pc' = "waiting"
    /\ UNCHANGED <<pos, added, delivered>>

\* The generator arms onAdd and waits as soon as it is asked, without looking at
\* what was pushed while the consumer was busy.
ExhaustUnchecked ==
    /\ pc = "reading"
    /\ pc' = "gap"
    /\ UNCHANGED <<queue, pos, added, delivered>>

\* The newest value is taken instead of the oldest (pop for shift).
YieldNewest ==
    /\ pc = "reading"
    /\ pos < Len(queue)
    /\ pos' = pos + 1
    /\ delivered' = Append(delivered, queue[Len(queue) - pos])
    /\ pc' = "yielded"
    /\ UNCHANGED <<queue, added>>

\* onAdd stays the noop it was created as.
OnAddNoop == pc' = pc

-------------------------------------------------------------------------------
Init ==
    /\ queue = <<>>
    /\ pos = 0
    /\ pc = "unread"
    /\ added = <<>>
    /\ delivered = <<>>

\* onAdd is a noop before the first wait, and once(resolve) does nothing after
\* its first call: it only matters to a generator that is waiting.
OnAdd == pc' = IF pc = "waiting" THEN "reading" ELSE pc

Add(v) ==
    /\ Len(added) < MaxAdds
    /\ pc = "gap" => MicrotaskAdds
    /\ queue' = Append(queue, v)
    /\ OnAdd
    /\ added' = Append(added, v)
    /\ UNCHANGED <<pos, delivered>>

\* The consumer's first next() sets isReading, later ones resume the yield.
AskNext ==
    /\ pc \in {"unread", "yielded"}
    /\ pc' = "reading"
    /\ UNCHANGED <<queue, pos, added, delivered>>

Yield ==
    /\ pc = "reading"
    /\ pos < Len(queue)
    /\ pos' = pos + 1
    /\ delivered' = Append(delivered, queue[pos + 1])
    /\ pc' = "yielded"
    /\ UNCHANGED <<queue, added>>

\* An array iterator that has answered done stays done, whatever is pushed later.
Exhaust ==
    /\ pc = "reading"
    /\ pos >= Len(queue)
    /\ pc' = "gap"
    /\ UNCHANGED <<queue, pos, added, delivered>>

\* yield* returns: the array is replaced and onAdd armed, in one synchronous step.
Rearm ==
    /\ pc = "gap"
    /\ queue' = <<>>
    /\ pos' = 0
    /\ pc' = "waiting"
    /\ UNCHANGED <<added, delivered>>

\* The consumer breaks out of its for-await loop (JobQueue.streamJobs does when
\* it is shutting down), which returns the generator from its yield.
Close ==
    /\ pc = "yielded"
    /\ pc' = "closed"
    /\ UNCHANGED <<queue, pos, added, delivered>>

Generator == AskNext \/ Yield \/ Exhaust \/ Rearm

Next == Close \/ Generator \/ \E v \in Values : Add(v)

Spec == Init /\ [][Next]_vars

\* Promise jobs run, and the consumer's loop asks again without awaiting anything.
FairSpec == Spec /\ WF_vars(Generator)

-------------------------------------------------------------------------------
TypeOK ==
    /\ queue \in Seq(Values)
    /\ pos \in 0..Len(queue)
    /\ pc \in Places
    /\ added \in Seq(Values)
    /\ delivered \in Seq(Values)

\* The values received are the first ones added, and the ones not received yet are
\* exactly the unread tail of the array, in order: replacing the array and
\* interrupting the iteration at any point never drops, repeats or swaps a value.
NothingLost ==
    /\ Len(added) = Len(delivered) + (Len(queue) - pos)
    /\ \A i \in 1..Len(delivered) : delivered[i] = added[i]
    /\ \A i \in 1..(Len(queue) - pos) : queue[pos + i] = added[Len(delivered) + i]

\* No lost wake-up: a generator that sleeps until the next add has handed over
\* everything that was added before.
NoLostWakeup == pc = "waiting" => delivered = added

FIFO == INSTANCE Fifo WITH put <- added, taken <- delivered

\* The generator over a swapped array implements the first-in first-out channel
\* the class documents.
ImplementsFifo == FIFO!Spec

\* Every value added is received, unless the consumer has left its loop.
EveryAddIsReceived ==
    \A n \in 1..MaxAdds :
        Len(added) >= n ~> (Len(delivered) >= n \/ pc = "closed")

===============================================================================
