---------------------------- MODULE MCSessionZones ----------------------------
(***************************************************************************)
(* SessionZones for a few calls: a batch a that makes two stores and a     *)
(* load; a second batch b; and calls in the global zone.                   *)
(***************************************************************************)
EXTENDS SessionZones, TLC

CONSTANTS GLOBAL, za, zb,                    \* zones
          a, a1, a2, a3, aj, b, b1, g, rem, x, \* calls
          k1, k2                             \* records

MCZones == {GLOBAL, za, zb}
MCTransactional == {za, zb}
MCKeys == {k1, k2}

Zone(c) == CASE c \in {a, a1, a2, a3, aj} -> za [] c \in {b, b1} -> zb [] OTHER -> GLOBAL
Parent(c) == CASE c = a3 /\ aj \in Calls -> aj
               [] c \in {a1, a2, a3, aj} -> a
               [] c = b1 -> b
               [] OTHER -> NoCall
Key(c) == IF c \in {a2, x} THEN k2 ELSE k1

MCZoneOf == [c \in Calls |-> Zone(c)]
MCParentOf == [c \in Calls |-> Parent(c)]
MCKeyOf == [c \in Calls |-> Key(c)]

\* Two batches, a session archived and one removed in the global zone, and the
\* sessions of an address cleared.
SafetyCalls == {a, a1, a2, a3, b, b1, g, rem, x}
SafetyKinds == [c \in SafetyCalls |->
    CASE c \in {a, b} -> "task"
      [] c = a2 -> "senderKey"
      [] c = a3 -> "load"
      [] c = g -> "archive"
      [] c = rem -> "remove"
      [] c = x -> "clear"
      [] OTHER -> "store"]

\* One batch and one call of the global zone.
BatchCalls == {a, a1, aj, a3, g}
BatchKinds == [c \in BatchCalls |->
    CASE c \in {a, aj} -> "task"
      [] c = a3 -> "archive"
      [] OTHER -> "store"]
===============================================================================
