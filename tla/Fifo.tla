--------------------------------- MODULE Fifo ---------------------------------
(***************************************************************************)
(* What ts/util/AsyncQueue.ts promises to its callers: "Put values in" and *)
(* "Consume values out in the order they were added", each exactly once.   *)
(* No buffer, no promise and no generator appear here: only the sequence   *)
(* of values put in so far and the sequence taken out so far.              *)
(***************************************************************************)
EXTENDS Naturals, Sequences

CONSTANT Values

VARIABLES put,    \* the values put in, in the order of the calls
          taken   \* the values the consumer received, in order

vars == <<put, taken>>

Init == put = <<>> /\ taken = <<>>

Put == \E v \in Values : put' = Append(put, v) /\ UNCHANGED taken

\* The consumer receives the oldest value it has not received yet.
Take ==
    /\ Len(taken) < Len(put)
    /\ taken' = Append(taken, put[Len(taken) + 1])
    /\ UNCHANGED put

Next == Put \/ Take

Spec == Init /\ [][Next]_vars
===============================================================================
