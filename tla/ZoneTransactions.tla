--------------------------- MODULE ZoneTransactions ---------------------------
(***************************************************************************)
(* What the zones of ts/SignalProtocolStore.ts promise (the comments above *)
(* withZone and above the sender key queue): one owner at a time; what a   *)
(* transactional owner stores is tentative until it is batched into the    *)
(* database as a whole or reverted as a whole, and nothing tentative is    *)
(* left when the zone passes on.  An owner that is not transactional (the  *)
(* GLOBAL_ZONE) writes straight to the database.                           *)
(***************************************************************************)
CONSTANTS Zones,            \* the zones
          Transactional,    \* the zones that keep their changes pending
          NoZone,           \* the owner when the zone is free
          Keys,             \* the names records are stored under
          Records           \* what may be stored, the absence of a record included

VARIABLES store,       \* the database
          owner,       \* the zone that holds the store, or NoZone
          tentative    \* the stores of the owner that are not in the database yet

vars == <<store, owner, tentative>>

Nothing == [k \in {} |-> k]

Init ==
    /\ store \in [Keys -> Records]
    /\ owner = NoZone
    /\ tentative = Nothing

\* The store passes from one owner to the next, or becomes free, or is taken.
PassOn ==
    /\ tentative = Nothing
    /\ owner' \in Zones \cup {NoZone}
    /\ UNCHANGED <<store, tentative>>

Write ==
    /\ owner \in Transactional
    /\ \E k \in Keys, r \in Records :
        tentative' = [x \in DOMAIN tentative \cup {k} |->
                        IF x = k THEN r ELSE tentative[x]]
    /\ UNCHANGED <<store, owner>>

Commit ==
    /\ owner \in Transactional
    /\ store' = [k \in Keys |-> IF k \in DOMAIN tentative THEN tentative[k] ELSE store[k]]
    /\ tentative' = Nothing
    /\ UNCHANGED owner

Revert ==
    /\ owner \in Transactional
    /\ tentative' = Nothing
    /\ UNCHANGED <<store, owner>>

WriteThrough ==
    /\ owner \in Zones \ Transactional
    /\ \E k \in Keys, r \in Records : store' = [store EXCEPT ![k] = r]
    /\ UNCHANGED <<owner, tentative>>

Next == PassOn \/ Write \/ Commit \/ Revert \/ WriteThrough

Spec == Init /\ [][Next]_vars
===============================================================================
