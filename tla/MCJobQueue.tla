------------------------------ MODULE MCJobQueue ------------------------------
(***************************************************************************)
(* JobQueue for three jobs, the second saved with a message by the         *)
(* caller's insert; the third does not parse.                              *)
(***************************************************************************)
EXTENDS JobQueue

MCCustom == {2}
MCUnparsable == {3}
===============================================================================
