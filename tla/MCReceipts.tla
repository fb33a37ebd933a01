------------------------------ MODULE MCReceipts ------------------------------
\* Constants for model checking Receipts.
EXTENDS Receipts

CONSTANTS a, b, \* recipients
          d, e  \* devices

Receipt(device, level, encrypted) ==
    [from |-> a, device |-> device, level |-> level, encrypted |-> encrypted]

\* Both receipts of one device.
OneDevice == {Receipt(d, Delivered, TRUE), Receipt(d, Read, TRUE)}

\* The delivery receipts of two devices, which have the same key in the map; one of them
\* was not encrypted.
TwoDevices == {Receipt(d, Delivered, TRUE), Receipt(e, Delivered, FALSE)}

AllReceipts == OneDevice \cup TwoDevices

\* Bound: with read receipts turned on those of one device come, else one of them, or those
\* of two devices, for which it makes no difference.  What comes is up to the senders: no
\* fairness is cut off.
OnePair ==
    LET came == {c \in Receipts : receipts[c] # "none"} IN
    IF reads THEN came \subseteq OneDevice
    ELSE came \subseteq TwoDevices \/ came \subseteq {Receipt(d, Read, TRUE)}
===============================================================================
