------------------------------ MODULE MCReceiver ------------------------------
(***************************************************************************)
(* Receiver with two envelopes on the server: a delivery receipt and a     *)
(* message, or two messages.                                               *)
(***************************************************************************)
EXTENDS Receiver

\* The first of three envelopes is a receipt.
MCReceipts == {1}

MCInit == Init /\ server \in {{1, 2}, {2, 3}}

MCSpec == MCInit /\ [][Next]_vars /\ Fairness
===============================================================================
