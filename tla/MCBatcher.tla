------------------------------- MODULE MCBatcher -------------------------------
(***************************************************************************)
(* The batchers with up to four calls of add and batches of up to three    *)
(* items.                                                                  *)
(***************************************************************************)
EXTENDS Batcher
===============================================================================
