-------------------------------- MODULE Batcher --------------------------------
(***************************************************************************)
(* The batchers: ts/util/batcher.ts and ts/util/waitBatcher.ts.            *)
(*                                                                         *)
(* Items are collected until there are MaxSize of them or a timer fires;   *)
(* then they become a batch of a queue that processes one batch at a time. *)
(* The code keeps one timer handle, but a timer can lose its handle and    *)
(* still fire: items are removed behind the back of the timer, or arrive   *)
(* while the wait batcher is flushed.                                      *)
(***************************************************************************)
EXTENDS Naturals, FiniteSets, SequencesExt

CONSTANTS MaxSize,    \* options.maxSize
          MaxAdds,    \* bound on calls of add
          Expires     \* whether a batch may take longer than the timeout of the queue

ASSUME ExpiresAssumption == Expires \in BOOLEAN
\* Every batcher of the program has a maxSize above one.
ASSUME SizeAssumption == MaxSize \in Nat \ {0, 1} /\ MaxAdds \in Nat

VARIABLES waiting,   \* it is the wait batcher, whose add returns when its item is processed
          items,     \* items since the last batch
          named,     \* `timeout` is the handle of an armed timer
          nameless,  \* armed timers whose handle was overwritten or forgotten
          queue,     \* the batches; the first is being processed
          late,      \* batches that are still processed after their timeout
          flushing, idling,  \* where a call of flushAndWait, and one of onIdle, is
          added,     \* history: how many items were added
          started,   \* history: items given to processBatch, in order
          over,      \* history: items removed, or whose batch was processed or failed
          removed,   \* history: items that were removed
          asked      \* history: what flushAndWait has to cover

timers == <<named, nameless>>
calls == <<flushing, idling, asked>>
vars == <<waiting, items, timers, queue, late, calls, added, started, over, removed>>

Batch(content, forFlush) == [items |-> content, forFlush |-> forFlush]
Items == 1 .. added
AnyPending == queue # <<>> \/ items # <<>>

Init ==
    /\ waiting \in BOOLEAN
    /\ items = <<>> /\ named = FALSE /\ nameless = 0
    /\ queue = <<>> /\ late = {}
    /\ flushing = "no" /\ idling = "no" /\ asked = {}
    /\ added = 0 /\ started = <<>> /\ over = {} /\ removed = {}
-------------------------------------------------------------------------------
\* A batch joins the queue, and is processed at once if nothing is.
Enqueue(batch) ==
    /\ queue' = Append(queue, batch)
    /\ started' = IF queue = <<>> THEN started \o batch.items ELSE started

\* Slip of KickBatchOff: the items are not taken out.
KickBatchOffKeeps(content, forFlush) ==
    /\ Enqueue(Batch(content, forFlush))
    /\ items' = content

\* _kickBatchOff, but for the timer.
KickBatchOff(content, forFlush) ==
    /\ Enqueue(Batch(content, forFlush))
    /\ items' = <<>>

\* setTimeout.  A timer that is still armed loses its handle.
Arm ==
    /\ named' = TRUE
    /\ nameless' = nameless + (IF named THEN 1 ELSE 0)

ClearTimer == named' = FALSE /\ UNCHANGED nameless

\* Slip of Add: the batch goes by the item after the one that fills it.
AddOverfills ==
    LET all == Append(items, added + 1) IN
    /\ added < MaxAdds
    /\ added' = added + 1
    /\ IF Len(all) > MaxSize
       THEN KickBatchOff(all, FALSE) /\ ClearTimer
       ELSE /\ items' = all
            /\ IF Len(all) = 1 THEN Arm ELSE UNCHANGED timers
            /\ UNCHANGED <<queue, started>>
    /\ UNCHANGED <<waiting, late, calls, over, removed>>

\* The first item sets the timer; the one that fills the batch sends it off.
Add ==
    LET all == Append(items, added + 1) IN
    /\ added < MaxAdds
    /\ added' = added + 1
    /\ IF Len(all) >= MaxSize
       THEN KickBatchOff(all, FALSE) /\ ClearTimer
       ELSE /\ items' = all
            /\ IF Len(all) = 1 THEN Arm ELSE UNCHANGED timers
            /\ UNCHANGED <<queue, started>>
    /\ UNCHANGED <<waiting, late, calls, over, removed>>

\* Slip of RemoveAll: the timer goes with the removed item.
RemoveAllDisarms(item) ==
    /\ ~waiting
    /\ \E k \in DOMAIN items : items[k] = item /\ items' = RemoveAt(items, k)
    /\ over' = over \cup {item} /\ removed' = removed \cup {item}
    /\ ClearTimer
    /\ UNCHANGED <<waiting, queue, late, calls, added, started>>

\* Only the batcher can remove items, and it keeps the timer.  An item is there once.
RemoveAll(item) ==
    /\ ~waiting
    /\ \E k \in DOMAIN items : items[k] = item /\ items' = RemoveAt(items, k)
    /\ over' = over \cup {item} /\ removed' = removed \cup {item}
    /\ UNCHANGED <<waiting, timers, queue, late, calls, added, started>>

\* The timer of `timeout` fires ...
TimerFires ==
    /\ named
    /\ ClearTimer
    /\ KickBatchOff(items, FALSE)
    /\ UNCHANGED <<waiting, late, calls, added, over, removed>>

\* ... or one that nobody knows of.  The batcher clears the timer of `timeout` then; the
\* wait batcher forgets its handle.
NamelessTimerFires ==
    /\ nameless > 0
    /\ named' = FALSE
    /\ nameless' = nameless - (IF waiting /\ named THEN 0 ELSE 1)
    /\ KickBatchOff(items, FALSE)
    /\ UNCHANGED <<waiting, late, calls, added, over, removed>>
-------------------------------------------------------------------------------
(* The queue. *)

Settled(batch) == over' = over \cup ToSet(batch.items)

\* The next batch starts.  Who waits for the queue to be idle, or for its own batch, is
\* called back.
NextBatch ==
    LET rest == Tail(queue) IN
    /\ queue' = rest
    /\ started' = IF rest = <<>> THEN started ELSE started \o rest[1].items
    /\ idling' = IF idling = "queue" /\ rest = <<>> THEN "sleep" ELSE idling

\* processBatch resolves or rejects, and add of the wait batcher with it.
EndBatch ==
    /\ queue # <<>>
    /\ Settled(Head(queue))
    /\ NextBatch
    /\ flushing' = CASE flushing = "batch" /\ Head(queue).forFlush ->
                            IF Len(queue) > 1 THEN "queue" ELSE "loop"
                     [] flushing = "queue" /\ Len(queue) = 1 -> "loop"
                     [] OTHER -> flushing
    /\ UNCHANGED <<waiting, items, timers, late, asked, added, removed>>

\* The queue gives up on a batch, which goes on nevertheless.  The wait batcher's flush
\* fails if the batch was its own.
BatchExpires ==
    /\ Expires /\ queue # <<>>
    /\ late' = late \cup {Head(queue)}
    /\ NextBatch
    /\ flushing' = CASE flushing = "batch" /\ Head(queue).forFlush -> "no"
                     [] flushing = "queue" /\ Len(queue) = 1 -> "loop"
                     [] OTHER -> flushing
    /\ UNCHANGED <<waiting, items, timers, asked, added, over, removed>>

EndLate ==
    \E batch \in late :
        /\ late' = late \ {batch}
        /\ Settled(batch)
        /\ UNCHANGED <<waiting, items, timers, queue, calls, added, started, removed>>
-------------------------------------------------------------------------------
(* flushAndWait and onIdle. *)

\* Slip of GoOnFlushing: it only waits for the batches that are there.
GoOnFlushingOnly ==
    /\ flushing' = IF queue = <<>> THEN "no" ELSE "queue"
    /\ UNCHANGED <<items, queue, started>>

\* While anything is pending, a batch is made, also of nothing, and waited for.
GoOnFlushing ==
    IF AnyPending
    THEN KickBatchOff(items, TRUE) /\ flushing' = IF waiting THEN "batch" ELSE "queue"
    ELSE flushing' = "no" /\ UNCHANGED <<items, queue, started>>

\* The wait batcher clears the timer once, the batcher with each batch.
FlushAndWait ==
    /\ flushing = "no"
    /\ asked' = Items \ over
    /\ GoOnFlushing
    /\ IF waiting \/ AnyPending THEN ClearTimer ELSE UNCHANGED timers
    /\ UNCHANGED <<waiting, late, idling, added, over, removed>>

FlushLoop ==
    /\ flushing = "loop"
    /\ GoOnFlushing
    /\ IF ~waiting /\ AnyPending THEN ClearTimer ELSE UNCHANGED timers
    /\ UNCHANGED <<waiting, late, idling, asked, added, over, removed>>

OnIdle ==
    /\ idling = "no" /\ AnyPending
    /\ idling' = IF queue = <<>> THEN "sleep" ELSE "queue"
    /\ UNCHANGED <<waiting, items, timers, queue, late, flushing, asked, added, started, over,
                   removed>>

\* After the queue was idle, and a sleep if there are items.
IdleLoop ==
    /\ idling = "sleep"
    /\ idling' = CASE queue # <<>> -> "queue" [] items # <<>> -> "sleep" [] OTHER -> "no"
    /\ UNCHANGED <<waiting, items, timers, queue, late, flushing, asked, added, started, over,
                   removed>>
-------------------------------------------------------------------------------
Fire == TimerFires \/ NamelessTimerFires
Process == EndBatch \/ EndLate

Next ==
    \/ Add \/ (\E item \in 1 .. added : RemoveAll(item))
    \/ Fire \/ Process \/ BatchExpires
    \/ FlushAndWait \/ FlushLoop \/ OnIdle \/ IdleLoop

Spec == Init /\ [][Next]_vars

\* Timers fire, batches end and a flush or a wait goes on.
FairSpec ==
    /\ Spec
    /\ WF_vars(TimerFires) /\ WF_vars(NamelessTimerFires)
    /\ WF_vars(EndBatch) /\ WF_vars(EndLate)
    /\ WF_vars(FlushLoop) /\ WF_vars(IdleLoop)
-------------------------------------------------------------------------------
InBatch(batch) == ToSet(batch.items)

Batches == [items : Seq(Items), forFlush : BOOLEAN]

\* Types; a batch, and so what one call of processBatch gets, is never above maxSize.
TypeOK ==
    /\ items \in Seq(Items) /\ Len(items) < MaxSize
    /\ waiting \in BOOLEAN /\ named \in BOOLEAN /\ nameless \in Nat
    /\ queue \in Seq(Batches) /\ late \subseteq Batches
    /\ \A batch \in late \cup ToSet(queue) : Len(batch.items) <= MaxSize
    /\ flushing \in {"no", "loop", "batch", "queue"} /\ idling \in {"no", "queue", "sleep"}
    /\ added \in 0 .. MaxAdds /\ started \in Seq(Items)
    /\ over \subseteq Items /\ removed \subseteq over /\ asked \subseteq Items

Ascending(s) == \A m, n \in DOMAIN s : m < n => s[m] < s[n]
Before(S, T) == \A i \in S, j \in T : i < j
\* What is in the batches behind the first.
Behind(q) == UNION {InBatch(q[k]) : k \in 2 .. Len(q)}

\* Nothing is lost, doubled or overtaken: what processBatch was given, what waits in the
\* batches behind the first and what waits for a batch are, one after the other, in the
\* order in which they were added, and together the items that were not removed.
AllInOrder ==
    LET waits == 2 .. Len(queue) IN
    /\ Ascending(started) /\ Ascending(items) /\ Before(ToSet(started), ToSet(items))
    /\ \A k \in waits :
        /\ Ascending(queue[k].items)
        /\ Before(ToSet(started), InBatch(queue[k])) /\ Before(InBatch(queue[k]), ToSet(items))
        /\ \A l \in waits : k < l => Before(InBatch(queue[k]), InBatch(queue[l]))
    /\ ToSet(started) \cup Behind(queue) \cup ToSet(items) = Items \ removed

\* When flushAndWait returns or fails, what was added before the call is over; but for
\* batches that outlived their timeout.
FlushCovers ==
    [][flushing # "no" /\ flushing' = "no" =>
            asked \ UNION {InBatch(batch) : batch \in late'} \subseteq over]_vars

\* Every item is processed in the end: while items wait a timer is armed, whoever removed
\* items, flushed or lost a handle ("the wait time is bounded by options.wait",
\* batcher.ts:78).  And every call of flushAndWait and onIdle returns once nobody adds.
EverythingEnds ==
    <>[](over = Items) /\ []<>(flushing = "no") /\ []<>(idling = "no")
===============================================================================
