----------------------------- MODULE MCAsyncQueue -----------------------------
(* AsyncQueue over two values and four calls of add. *)
EXTENDS AsyncQueue, TLC

CONSTANTS v1, v2

MCValues == {v1, v2}
===============================================================================
