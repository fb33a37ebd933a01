-------------------------- MODULE SessionZonesProofs --------------------------
(***************************************************************************)
(* For every set of calls, zones and records: the types of SessionZones;   *)
(* what its lock guarantees, by an invariant that relates the depth, the   *)
(* current zone, the waiting calls and the places of all calls; and, for   *)
(* callers that keep to the discipline stated below, that the zones are    *)
(* transactions: atomic, without dirty reads, and with a cache that does   *)
(* not run ahead of the database.                                          *)
(***************************************************************************)
EXTENDS SessionZones, FiniteSetTheorems, TLAPS

\* A set of changes is a function from some keys to records.
LEMMA ChangesFacts ==
    ASSUME NEW f
    PROVE  f \in Changes <=> /\ f = [x \in DOMAIN f |-> f[x]]
                             /\ DOMAIN f \subseteq Keys
                             /\ \A x \in DOMAIN f : f[x] \in Records
<1>1. ASSUME f \in Changes
      PROVE  /\ f = [x \in DOMAIN f |-> f[x]]
             /\ DOMAIN f \subseteq Keys
             /\ \A x \in DOMAIN f : f[x] \in Records
  <2>1. PICK D \in SUBSET Keys : f \in [D -> Records]
    BY <1>1 DEF Changes
  <2>2. QED
    BY <2>1
<1>2. ASSUME /\ f = [x \in DOMAIN f |-> f[x]]
             /\ DOMAIN f \subseteq Keys
             /\ \A x \in DOMAIN f : f[x] \in Records
      PROVE  f \in Changes
  <2>1. f \in [DOMAIN f -> Records]
    BY <1>2
  <2>2. DOMAIN f \in SUBSET Keys
    BY <1>2
  <2>3. QED
    BY <2>1, <2>2 DEF Changes
<1>3. QED
  BY <1>1, <1>2

\* No changes at all are a set of changes.
LEMMA NothingIsChanges == Nothing \in Changes
BY ChangesFacts DEF Nothing

\* One change more.
LEMMA PutIsChanges ==
    ASSUME NEW f \in Changes, NEW k \in Keys, NEW r \in Records
    PROVE  Put(f, k, r) \in Changes
<1>1. /\ DOMAIN f \subseteq Keys
      /\ \A x \in DOMAIN f : f[x] \in Records
  BY ChangesFacts
<1>2. Put(f, k, r) \in [DOMAIN f \cup {k} -> Records]
  BY <1>1 DEF Put
<1>3. DOMAIN f \cup {k} \in SUBSET Keys
  BY <1>1
<1>4. QED
  BY <1>2, <1>3 DEF Changes

\* Some changes less.
LEMMA WithoutIsChanges ==
    ASSUME NEW f \in Changes, NEW k
    PROVE  [x \in DOMAIN f \ {k} |-> f[x]] \in Changes
<1>1. /\ DOMAIN f \subseteq Keys
      /\ \A x \in DOMAIN f : f[x] \in Records
  BY ChangesFacts
<1>2. [x \in DOMAIN f \ {k} |-> f[x]] \in [DOMAIN f \ {k} -> Records]
  BY <1>1
<1>3. DOMAIN f \ {k} \in SUBSET Keys
  BY <1>1
<1>4. QED
  BY <1>2, <1>3 DEF Changes

\* Changes laid over the records of the cache or of the database.
LEMMA OverType ==
    ASSUME NEW f \in Changes, NEW g \in [Keys -> Records]
    PROVE  Over(f, g) \in [Keys -> Records]
<1>1. \A x \in DOMAIN f : f[x] \in Records
  BY ChangesFacts
<1>2. QED
  BY <1>1 DEF Over

\* What pushing and shifting do to the type of a queue.
LEMMA QueueTypes ==
    ASSUME NEW S, NEW q \in Seq(S)
    PROVE  /\ \A e \in S : Append(q, e) \in Seq(S)
           /\ q # <<>> => Head(q) \in S /\ Tail(q) \in Seq(S)
OBVIOUS

\* A call to the database keeps the types of what it changes.
LEMMA SendType ==
    ASSUME TypeOK, NEW c \in Calls, NEW w \in Changes, Send(c, w)
    PROVE  inflight' \in Seq([call : Calls, writes : Changes])
<1> DEFINE S == [call : Calls, writes : Changes]
           e == [call |-> c, writes |-> w]
<1>1. e \in S
  OBVIOUS
<1>2. inflight \in Seq(S)
  BY DEF TypeOK
<1>3. inflight' = Append(inflight, e)
  BY DEF Send
<1> HIDE DEF S, e
<1>4. inflight' \in Seq(S)
  BY <1>1, <1>2, <1>3, QueueTypes
<1>5. QED
  BY <1>4 DEF S

-------------------------------------------------------------------------------
\* The places and the lock's variables keep their types as a call leaves the zone.
LEMMA LeaveZoneType ==
    ASSUME TypeOK, NEW c \in Calls, NEW outcome \in Places, LeaveZone(c, outcome)
    PROVE  /\ currentZone' \in Zones \cup {NoZone}
           /\ depth' \in Nat
           /\ zoneQueue' \in Seq(Calls)
           /\ pc' \in [Calls -> Places]
<1> USE CallsAssumption
<1>1. CASE depth > 1
  BY <1>1 DEF TypeOK, LeaveZone
<1>2. CASE depth = 1 /\ zoneQueue = <<>>
  BY <1>2 DEF TypeOK, LeaveZone
<1>3. ASSUME NEW n \in 1..Len(zoneQueue), depth = 1,
             depth' = n,
             currentZone' = ZoneOf[zoneQueue[1]],
             zoneQueue' = SubSeq(zoneQueue, n + 1, Len(zoneQueue)),
             pc' = [x \in Calls |->
                        IF x = c THEN outcome
                        ELSE IF \E i \in 1..n : zoneQueue[i] = x THEN "body" ELSE pc[x]]
      PROVE  /\ currentZone' \in Zones \cup {NoZone}
             /\ depth' \in Nat
             /\ zoneQueue' \in Seq(Calls)
             /\ pc' \in [Calls -> Places]
  <2>1. zoneQueue[1] \in Calls
    BY <1>3 DEF TypeOK
  <2>2. zoneQueue' \in Seq(Calls)
    BY <1>3 DEF TypeOK
  <2>3. pc' \in [Calls -> Places]
    BY <1>3 DEF TypeOK, Places
  <2>4. QED
    BY <1>3, <2>1, <2>2, <2>3
<1>4. QED
  BY <1>1, <1>2, <1>3 DEF LeaveZone

\* Every variable of SessionZones keeps its type.
THEOREM TypeCorrect == Spec => []TypeOK
<1>1. Init => TypeOK
  <2>1. Initial \in Records
    BY DEF Initial, Records
  <2>2. QED
    BY <2>1, NothingIsChanges, BoundsAssumption DEF Init, TypeOK, Places
<1>2. TypeOK /\ [Next]_vars => TypeOK'
  <2> SUFFICES ASSUME TypeOK, [Next]_vars
               PROVE  TypeOK'
    OBVIOUS
  <2> USE CallsAssumption DEF lock, data, histories
  <2>1. ASSUME NEW c \in Calls, Wait(c)
        PROVE  TypeOK'
    BY <2>1 DEF Wait, TypeOK, Places
  <2>2. ASSUME NEW c \in Calls, Enter(c)
        PROVE  TypeOK'
    BY <2>2 DEF Enter, TypeOK, Places
  <2>3. ASSUME NEW c \in Calls, NEW r \in Records, StoreRecord(c, r)
        PROVE  /\ pending' \in Changes
               /\ inflight' \in Seq([call : Calls, writes : Changes])
               /\ pc' \in [Calls -> Places]
    <3>1. Put(pending, KeyOf[c], r) \in Changes
      BY PutIsChanges DEF TypeOK
    <3>2. CASE ZoneOf[c] \in Transactional
      BY <2>3, <3>1, <3>2 DEF StoreRecord, TypeOK, Places
    <3>3. CASE ZoneOf[c] \notin Transactional
      <4>1. inflight' \in Seq([call : Calls, writes : Changes])
        BY <2>3, <3>1, <3>3, SendType DEF StoreRecord
      <4>2. QED
        BY <2>3, <3>3, <4>1, NothingIsChanges DEF StoreRecord, TypeOK, Places
    <3>4. QED
      BY <3>2, <3>3
  <2>4. ASSUME NEW c \in Calls, Store(c)
        PROVE  TypeOK'
    <3>1. [by |-> c, current |-> TRUE] \in Records
      BY DEF Records
    <3>2. QED
      BY <2>3, <2>4, <3>1 DEF Store, TypeOK
  <2>5. ASSUME NEW c \in Calls, Load(c)
        PROVE  TypeOK'
    <3>1. Lookup(KeyOf[c]) \in Records
      BY ChangesFacts DEF Lookup, TypeOK
    <3>2. QED
      BY <2>5, <3>1 DEF Load, TypeOK, Places
  <2>6. ASSUME NEW c \in Calls, Archive(c)
        PROVE  TypeOK'
    <3> DEFINE k == KeyOf[c]
               r == Lookup(k)
               archived == [r EXCEPT !.current = FALSE]
    <3>1. k \in Keys /\ r \in Records
      BY ChangesFacts DEF Lookup, TypeOK
    <3>2. CASE r # NoRecord /\ r.current
      <4>1. r \in [by : Calls \cup {NoCall}, current : BOOLEAN]
        BY <3>1, <3>2 DEF Records
      <4>2. archived \in Records
        BY <4>1 DEF Records
      <4>3. StoreRecord(c, archived) /\ UNCHANGED <<db, lock, histories>>
        BY <2>6, <3>2 DEF Archive
      <4>4. cache' \in [Keys -> Records]
        <5>1. CASE k \in DOMAIN pending
          BY <2>6, <3>2, <5>1 DEF Archive, TypeOK
        <5>2. CASE k \notin DOMAIN pending
          <6>1. cache' = [cache EXCEPT ![k].current = FALSE] /\ cache[k] = r
            BY <2>6, <3>2, <5>2 DEF Archive, Lookup
          <6>2. cache' = [cache EXCEPT ![k] = archived]
            BY <6>1
          <6>3. QED
            BY <3>1, <4>2, <6>2 DEF TypeOK
        <5>3. QED
          BY <5>1, <5>2
      <4>5. /\ pending' \in Changes
            /\ inflight' \in Seq([call : Calls, writes : Changes])
            /\ pc' \in [Calls -> Places]
        BY <2>3, <4>2, <4>3
      <4>6. QED
        BY <4>3, <4>4, <4>5 DEF TypeOK
    <3>3. CASE ~(r # NoRecord /\ r.current)
      BY <2>6, <3>3 DEF Archive, TypeOK, Places
    <3>4. QED
      BY <3>2, <3>3
  <2>7. ASSUME NEW c \in Calls, Remove(c)
        PROVE  TypeOK'
    <3>1. Put(Nothing, KeyOf[c], NoRecord) \in Changes
      BY PutIsChanges, NothingIsChanges DEF Records
    <3>2. inflight' \in Seq([call : Calls, writes : Changes])
      BY <2>7, <3>1, SendType DEF Remove
    <3>3. QED
      BY <2>7, <3>2 DEF Remove, TypeOK, Places
  <2>8. ASSUME NEW c \in Calls, Clear(c)
        PROVE  TypeOK'
    <3>1. Put(Nothing, KeyOf[c], NoRecord) \in Changes
      BY PutIsChanges, NothingIsChanges DEF Records
    <3>2. inflight' \in Seq([call : Calls, writes : Changes])
      BY <2>8, <3>1, SendType DEF Clear
    <3>3. pending' \in Changes
      BY <2>8, WithoutIsChanges DEF Clear, TypeOK
    <3>4. cache' \in [Keys -> Records]
      BY <2>8 DEF Clear, TypeOK, Records
    <3>5. QED
      BY <2>8, <3>2, <3>3, <3>4 DEF Clear, TypeOK, Places
  <2>9. ASSUME NEW c \in Calls, EndTask(c)
        PROVE  TypeOK'
    BY <2>9 DEF EndTask, TypeOK, Places
  <2>10. ASSUME NEW c \in Calls, CommitZoneChanges(c)
         PROVE  TypeOK'
    <3>1. CASE pending = Nothing
      BY <2>10, <3>1 DEF CommitZoneChanges, TypeOK, Places
    <3>2. CASE pending # Nothing
      <4>1. inflight' \in Seq([call : Calls, writes : Changes])
        BY <2>10, <3>2, SendType DEF CommitZoneChanges, TypeOK
      <4>2. QED
        BY <2>10, <3>2, <4>1, NothingIsChanges DEF CommitZoneChanges, TypeOK, Places
    <3>3. QED
      BY <3>1, <3>2
  <2>11. ASSUME NEW c \in Calls, RevertZoneChanges(c)
         PROVE  TypeOK'
    BY <2>11, NothingIsChanges DEF RevertZoneChanges, TypeOK, Places
  <2>12. ASSUME NEW c \in Calls, Leave(c)
         PROVE  TypeOK'
    <3>1. \E outcome \in Places : LeaveZone(c, outcome)
      BY <2>12 DEF Leave, Places
    <3>2. QED
      BY <2>12, <3>1, LeaveZoneType DEF Leave, TypeOK
  <2>13. CASE DbSucceeds
    <3> DEFINE c == Head(inflight).call
               writes == Head(inflight).writes
    <3>1. Head(inflight) \in [call : Calls, writes : Changes]
      BY <2>13, QueueTypes DEF DbSucceeds, TypeOK
    <3>2. c \in Calls /\ writes \in Changes
      BY <3>1
    <3>3. db' \in [Keys -> Records] /\ cache' \in [Keys -> Records]
      BY <2>13, <3>2, OverType DEF DbSucceeds, TypeOK
    <3>4. pending' \in Changes
      BY <2>13, <3>2, WithoutIsChanges DEF DbSucceeds, TypeOK
    <3>5. committed' \subseteq Calls \cup {NoCall}
      <4>1. \A x \in DOMAIN writes : writes[x] \in Records
        BY <3>2, ChangesFacts
      <4>2. \A x \in DOMAIN writes :
                writes[x] # NoRecord => writes[x].by \in Calls \cup {NoCall}
        BY <4>1 DEF Records
      <4>3. QED
        BY <2>13, <4>2 DEF DbSucceeds, TypeOK
    <3>6. inflight' \in Seq([call : Calls, writes : Changes])
      BY <2>13 DEF DbSucceeds, TypeOK
    <3>7. pc' \in [Calls -> Places]
      BY <2>13, <3>2 DEF DbSucceeds, TypeOK, Places
    <3>8. QED
      BY <2>13, <3>3, <3>4, <3>5, <3>6, <3>7 DEF DbSucceeds, TypeOK
  <2>14. CASE DbFails
    <3> DEFINE c == Head(inflight).call
    <3>1. Head(inflight) \in [call : Calls, writes : Changes]
      BY <2>14, QueueTypes DEF DbFails, TypeOK
    <3>2. c \in Calls
      BY <3>1
    <3>3. pc' \in [Calls -> Places]
      BY <2>14, <3>2 DEF DbFails, TypeOK, Places
    <3>4. inflight' \in Seq([call : Calls, writes : Changes])
      BY <2>14 DEF DbFails, TypeOK
    <3>5. failures' \in 0..MaxFailures
      BY <2>14, BoundsAssumption DEF DbFails, TypeOK
    <3>6. QED
      BY <2>14, <3>3, <3>4, <3>5 DEF DbFails, TypeOK
  <2>15. CASE UNCHANGED vars
    BY <2>15 DEF vars, TypeOK
  <2>16. QED
    BY <2>1, <2>2, <2>4, <2>5, <2>6, <2>7, <2>8, <2>9, <2>10, <2>11, <2>12, <2>13,
       <2>14, <2>15 DEF Next, Step
<1>3. QED
  BY <1>1, <1>2, PTL DEF Spec

-------------------------------------------------------------------------------
\* No call waits twice.
WaitsOnce == \A i, j \in 1..Len(zoneQueue) : i # j => zoneQueue[i] # zoneQueue[j]

\* The inductive invariant of the lock.  OneZoneAtATime needs the depth, because the
\* zone is taken over when the depth is 0; the depth needs the waiting calls to be
\* distinct and nobody else's, because leaveZone lets several in at once.
LockInv == DepthCountsUsers /\ OneZoneAtATime /\ NoMissedWakeup /\ WaitsOnce

\* The invariant of the lock holds at first.
LEMMA InitLock == Init => LockInv
<1> SUFFICES ASSUME Init PROVE LockInv
  OBVIOUS
<1>1. Holding = {}
  BY DEF Init, Holding, Using
<1>2. Cardinality(Holding) = 0
  BY <1>1, FS_EmptySet
<1>3. QED
  BY <1>1, <1>2
     DEF Init, LockInv, DepthCountsUsers, OneZoneAtATime, NoMissedWakeup, WaitsOnce

\* A step that moves a call between two places inside the zone does not concern the lock.
LEMMA InsideStep ==
    ASSUME TypeOK, LockInv, UNCHANGED lock,
           NEW c \in Calls, pc[c] \in Using,
           NEW p \in Using \cup {"abandoned"}, pc' = [pc EXCEPT ![c] = p]
    PROVE  LockInv'
<1>1. Holding' = Holding
  BY DEF Holding, TypeOK, Using
<1>2. \A x \in Calls : pc'[x] = "queued" <=> pc[x] = "queued"
  BY DEF TypeOK, Using
<1>3. currentZone' = currentZone /\ depth' = depth /\ zoneQueue' = zoneQueue
  BY DEF lock
<1>4. QED
  BY <1>1, <1>2, <1>3
     DEF LockInv, DepthCountsUsers, OneZoneAtATime, NoMissedWakeup, WaitsOnce

\* Finitely many calls hold the zone.
LEMMA HoldingIsFinite == IsFiniteSet(Holding) /\ Cardinality(Holding) \in Nat
<1>1. Holding \in SUBSET Calls
  BY DEF Holding
<1>2. QED
  BY <1>1, CallsAssumption, FS_Subset, FS_CardinalityType

\* A call that waits does not disturb the lock.
LEMMA WaitStep ==
    ASSUME TypeOK, LockInv, NEW c \in Calls, Wait(c)
    PROVE  LockInv'
<1>1. /\ zoneQueue \in Seq(Calls) /\ zoneQueue' = Append(zoneQueue, c)
      /\ Len(zoneQueue) \in Nat
      /\ pc[c] = "idle" /\ pc' = [pc EXCEPT ![c] = "queued"]
      /\ currentZone' = currentZone /\ depth' = depth
      /\ currentZone # NoZone /\ currentZone # ZoneOf[c]
  BY DEF Wait, MayBeMade, TypeOK
<1>2. /\ Len(zoneQueue') = Len(zoneQueue) + 1
      /\ \A i \in 1..Len(zoneQueue) : zoneQueue'[i] = zoneQueue[i]
      /\ zoneQueue'[Len(zoneQueue) + 1] = c
  BY <1>1
<1>3. Holding' = Holding
  BY <1>1 DEF Holding, Using, TypeOK
<1>4. \A i \in 1..Len(zoneQueue) : zoneQueue[i] # c
  BY <1>1 DEF LockInv, NoMissedWakeup
<1>5. WaitsOnce'
  BY <1>1, <1>2, <1>4 DEF LockInv, WaitsOnce
<1>6. ASSUME NEW x \in Calls
      PROVE  pc'[x] = "queued" <=> \E i \in DOMAIN zoneQueue' : zoneQueue'[i] = x
  <2>1. pc[x] = "queued" <=> \E i \in 1..Len(zoneQueue) : zoneQueue[i] = x
    BY <1>1 DEF LockInv, NoMissedWakeup
  <2>2. pc'[x] = "queued" <=> (x = c \/ pc[x] = "queued")
    BY <1>1 DEF TypeOK
  <2>3. DOMAIN zoneQueue' = 1..(Len(zoneQueue) + 1)
    BY <1>1
  <2>4. CASE x = c
    BY <2>2, <2>3, <2>4, <1>1, <1>2
  <2>5. CASE x # c
    <3>1. ASSUME NEW i \in 1..(Len(zoneQueue) + 1), zoneQueue'[i] = x
          PROVE  i \in 1..Len(zoneQueue) /\ zoneQueue[i] = x
      BY <2>5, <3>1, <1>1, <1>2
    <3>2. ASSUME NEW i \in 1..Len(zoneQueue), zoneQueue[i] = x
          PROVE  i \in DOMAIN zoneQueue' /\ zoneQueue'[i] = x
      BY <2>3, <3>2, <1>1, <1>2
    <3>3. QED
      BY <2>1, <2>2, <2>3, <2>5, <3>1, <3>2
  <2>6. QED
    BY <2>4, <2>5
<1>7. zoneQueue'[1] = IF zoneQueue = <<>> THEN c ELSE zoneQueue[1]
  BY <1>1, <1>2
<1>8. NoMissedWakeup'
  BY <1>1, <1>6, <1>7 DEF LockInv, NoMissedWakeup
<1>9. QED
  BY <1>1, <1>3, <1>5, <1>8 DEF LockInv, DepthCountsUsers, OneZoneAtATime

\* A call that enters holds the zone with those of its zone.
LEMMA EnterStep ==
    ASSUME TypeOK, LockInv, NEW c \in Calls, Enter(c)
    PROVE  LockInv'
<1>1. /\ pc[c] = "idle" /\ pc' = [pc EXCEPT ![c] = "body"]
      /\ currentZone \in {NoZone, ZoneOf[c]}
      /\ depth' = depth + 1 /\ zoneQueue' = zoneQueue
      /\ currentZone' = IF depth = 0 THEN ZoneOf[c] ELSE currentZone
      /\ depth = Cardinality(Holding) /\ depth \in Nat
      /\ (currentZone = NoZone <=> depth = 0)
  BY DEF Enter, MayBeMade, LockInv, DepthCountsUsers, TypeOK
<1>2. c \notin Holding /\ Holding' = Holding \cup {c}
  BY <1>1 DEF Holding, Using, TypeOK
<1>3. Cardinality(Holding') = depth + 1
  BY <1>1, <1>2, HoldingIsFinite, FS_AddElement
<1>4. currentZone' = ZoneOf[c] /\ currentZone' # NoZone
  BY <1>1, CallsAssumption, ZonesAssumption
<1>5. OneZoneAtATime'
  <2>1. CASE depth = 0
    <3>1. Holding = {}
      BY <1>1, <2>1, HoldingIsFinite, FS_EmptySet
    <3>2. QED
      BY <3>1, <1>2, <1>4 DEF OneZoneAtATime
  <2>2. CASE depth # 0
    <3>1. currentZone' = currentZone
      BY <1>1, <2>2
    <3>2. QED
      BY <3>1, <1>2, <1>4 DEF OneZoneAtATime, LockInv
  <2>3. QED
    BY <2>1, <2>2
<1>6. \A x \in Calls : pc'[x] = "queued" <=> pc[x] = "queued"
  BY <1>1 DEF TypeOK
<1>7. NoMissedWakeup'
  <2>1. zoneQueue # <<>> => currentZone # NoZone
    BY DEF LockInv, NoMissedWakeup
  <2>2. zoneQueue # <<>> => currentZone' = currentZone
    BY <1>1, <2>1
  <2>3. QED
    BY <1>1, <1>6, <2>2 DEF LockInv, NoMissedWakeup
<1>8. QED
  BY <1>1, <1>3, <1>4, <1>5, <1>7 DEF LockInv, DepthCountsUsers, WaitsOnce

\* A call that leaves frees the zone if it is the last, and lets the next ones in.
LEMMA LeaveStep ==
    ASSUME TypeOK, LockInv, NEW c \in Calls, pc[c] \in Using,
           NEW outcome \in {"done", "failed"}, LeaveZone(c, outcome)
    PROVE  LockInv'
<1>1. /\ c \in Holding
      /\ depth = Cardinality(Holding) /\ depth \in Nat
      /\ (currentZone = NoZone <=> depth = 0)
      /\ zoneQueue \in Seq(Calls) /\ Len(zoneQueue) \in Nat
  BY DEF Holding, LockInv, DepthCountsUsers, TypeOK
<1>2. Cardinality(Holding \ {c}) = depth - 1
  BY <1>1, HoldingIsFinite, FS_RemoveElement
<1>3. CASE /\ depth > 1 /\ depth' = depth - 1
           /\ pc' = [pc EXCEPT ![c] = outcome]
           /\ UNCHANGED <<currentZone, zoneQueue>>
  <2>1. Holding' = Holding \ {c}
    BY <1>3 DEF Holding, Using, TypeOK
  <2>2. \A x \in Calls : pc'[x] = "queued" <=> pc[x] = "queued"
    BY <1>3 DEF TypeOK, Using
  <2>3. DepthCountsUsers'
    BY <1>1, <1>2, <1>3, <2>1 DEF DepthCountsUsers
  <2>4. OneZoneAtATime'
    BY <1>3, <2>1 DEF OneZoneAtATime, LockInv
  <2>5. NoMissedWakeup' /\ WaitsOnce'
    BY <1>3, <2>2 DEF LockInv, NoMissedWakeup, WaitsOnce
  <2>6. QED
    BY <2>3, <2>4, <2>5 DEF LockInv
<1>4. CASE /\ depth = 1 /\ zoneQueue = <<>> /\ depth' = 0 /\ currentZone' = NoZone
           /\ pc' = [pc EXCEPT ![c] = outcome]
           /\ UNCHANGED zoneQueue
  <2>1. Holding' = Holding \ {c}
    BY <1>4 DEF Holding, Using, TypeOK
  <2>2. \A x \in Calls : pc'[x] = "queued" <=> pc[x] = "queued"
    BY <1>4 DEF TypeOK, Using
  <2>3. Cardinality(Holding') = 0 /\ IsFiniteSet(Holding')
    BY <1>1, <1>2, <1>4, <2>1, HoldingIsFinite, FS_RemoveElement
  <2>4. Holding' = {}
    BY <2>3, FS_EmptySet
  <2>5. QED
    BY <1>4, <2>2, <2>3, <2>4
       DEF LockInv, DepthCountsUsers, OneZoneAtATime, NoMissedWakeup, WaitsOnce
<1>5. ASSUME NEW n \in 1..Len(zoneQueue), FirstRun(n),
             depth = 1, depth' = n, currentZone' = ZoneOf[zoneQueue[1]],
             zoneQueue' = SubSeq(zoneQueue, n + 1, Len(zoneQueue)),
             pc' = [x \in Calls |->
                        IF x = c THEN outcome
                        ELSE IF \E i \in 1..n : zoneQueue[i] = x THEN "body" ELSE pc[x]]
      PROVE  LockInv'
  <2> DEFINE woken == {zoneQueue[i] : i \in 1..n}
             rest == Len(zoneQueue) - n
  <2>1. /\ n \in Nat /\ n >= 1 /\ n <= Len(zoneQueue) /\ rest \in Nat
        /\ \A i \in 1..Len(zoneQueue) : zoneQueue[i] \in Calls
    BY <1>1
  <2>2. \A i \in 1..Len(zoneQueue) : pc[zoneQueue[i]] = "queued"
    BY <1>1, <2>1 DEF LockInv, NoMissedWakeup
  <2>3. c \notin woken
    BY <2>1, <2>2 DEF Using
  <2>4. Holding = {c}
    <3>1. Cardinality(Holding \ {c}) = 0 /\ IsFiniteSet(Holding \ {c})
      <4>1. Cardinality(Holding \ {c}) = 0
        BY <1>2, <1>5
      <4>2. QED
        BY <4>1, HoldingIsFinite, FS_RemoveElement
    <3>2. Holding \ {c} = {}
      BY <3>1, FS_EmptySet
    <3>3. QED
      BY <1>1, <3>2
  <2>5. Holding' = woken
    <3>1. ASSUME NEW x \in Calls
          PROVE  x \in Holding' <=> x \in woken
      <4>1. CASE x = c
        BY <4>1, <1>5, <2>3 DEF Holding, Using
      <4>2. CASE x # c /\ x \in woken
        BY <4>2, <1>5 DEF Holding, Using
      <4>3. CASE x # c /\ x \notin woken
        <5>1. pc'[x] = pc[x]
          BY <4>3, <1>5
        <5>2. x \notin Holding
          BY <4>3, <2>4
        <5>3. QED
          BY <4>3, <5>1, <5>2 DEF Holding
      <4>4. QED
        BY <4>1, <4>2, <4>3
    <3>2. woken \subseteq Calls /\ Holding' \subseteq Calls
      BY <2>1 DEF Holding
    <3>3. QED
      BY <3>1, <3>2
  <2>6. Cardinality(woken) = n
    <3> DEFINE f == [i \in 1..n |-> zoneQueue[i]]
    <3>1. f \in Bijection(1..n, woken)
      <4>1. f \in [1..n -> woken]
        OBVIOUS
      <4>2. \A i, j \in 1..n : f[i] = f[j] => i = j
        BY <2>1 DEF LockInv, WaitsOnce
      <4>3. \A w \in woken : \E i \in 1..n : f[i] = w
        OBVIOUS
      <4>4. QED
        BY <4>1, <4>2, <4>3 DEF Bijection, Injection, Surjection, IsInjective
    <3>2. ExistsBijection(1..n, woken)
      BY <3>1 DEF ExistsBijection
    <3>3. QED
      BY <2>1, <3>2, FS_CountingElements
  <2>7. /\ zoneQueue' \in Seq(Calls)
        /\ Len(zoneQueue') = rest
        /\ \A i \in 1..rest : zoneQueue'[i] = zoneQueue[n + i]
    BY <1>1, <1>5, <2>1
  <2>8. WaitsOnce'
    <3>1. ASSUME NEW i \in 1..rest, NEW j \in 1..rest, i # j
          PROVE  zoneQueue'[i] # zoneQueue'[j]
      <4>1. n + i \in 1..Len(zoneQueue) /\ n + j \in 1..Len(zoneQueue) /\ n + i # n + j
        BY <2>1, <3>1
      <4>2. zoneQueue[n + i] # zoneQueue[n + j]
        BY <4>1 DEF LockInv, WaitsOnce
      <4>3. QED
        BY <2>7, <4>2
    <3>2. QED
      BY <2>7, <3>1 DEF WaitsOnce
  <2>9. currentZone' # NoZone /\ currentZone' \in Zones
    BY <1>5, <2>1, CallsAssumption, ZonesAssumption
  <2>10. OneZoneAtATime'
    BY <1>5, <2>5 DEF OneZoneAtATime, FirstRun
  <2>11. ASSUME NEW x \in Calls
         PROVE  pc'[x] = "queued" <=> \E i \in 1..rest : zoneQueue'[i] = x
    <3>1. CASE x = c
      <4>1. \A i \in 1..rest : zoneQueue[n + i] # c
        <5>1. \A i \in 1..rest : n + i \in 1..Len(zoneQueue)
          BY <2>1
        <5>2. \A i \in 1..rest : pc[zoneQueue[n + i]] = "queued"
          BY <2>2, <5>1
        <5>3. QED
          BY <5>2 DEF Using
      <4>2. QED
        BY <3>1, <4>1, <1>5, <2>7
    <3>2. CASE x # c /\ x \in woken
      <4>1. PICK j \in 1..n : zoneQueue[j] = x
        BY <3>2
      <4>2. \A i \in 1..rest : n + i \in 1..Len(zoneQueue) /\ n + i # j
        BY <2>1
      <4>3. \A i \in 1..rest : zoneQueue[n + i] # x
        BY <2>1, <4>1, <4>2 DEF LockInv, WaitsOnce
      <4>4. QED
        BY <3>2, <4>3, <1>5, <2>7
    <3>3. CASE x # c /\ x \notin woken
      <4>1. pc'[x] = pc[x]
        BY <3>3, <1>5
      <4>2. pc[x] = "queued" <=> \E i \in 1..Len(zoneQueue) : zoneQueue[i] = x
        BY <1>1 DEF LockInv, NoMissedWakeup
      <4>3. ASSUME NEW j \in 1..Len(zoneQueue), zoneQueue[j] = x
            PROVE  \E i \in 1..rest : zoneQueue[n + i] = x
        <5>1. j \notin 1..n
          BY <3>3, <4>3
        <5>2. j - n \in 1..rest /\ n + (j - n) = j
          BY <2>1, <5>1
        <5>3. QED
          BY <4>3, <5>2
      <4>4. \A i \in 1..rest : n + i \in 1..Len(zoneQueue)
        BY <2>1
      <4>5. QED
        BY <4>1, <4>2, <4>3, <4>4, <2>7
    <3>4. QED
      BY <3>1, <3>2, <3>3
  <2>12. zoneQueue' # <<>> => currentZone' # ZoneOf[zoneQueue'[1]]
    <3>1. ASSUME zoneQueue' # <<>>
          PROVE  currentZone' # ZoneOf[zoneQueue'[1]]
      <4>1. rest >= 1
        BY <3>1, <2>1, <2>7
      <4>2. zoneQueue'[1] = zoneQueue[n + 1] /\ n < Len(zoneQueue)
        BY <4>1, <2>1, <2>7
      <4>3. QED
        BY <4>2, <1>5 DEF FirstRun
    <3>2. QED
      BY <3>1
  <2>13. NoMissedWakeup'
    <3>1. DOMAIN zoneQueue' = 1..rest
      BY <2>7
    <3>2. QED
      BY <3>1, <2>9, <2>11, <2>12 DEF NoMissedWakeup
  <2>14. DepthCountsUsers'
    BY <1>5, <2>1, <2>5, <2>6, <2>9 DEF DepthCountsUsers
  <2>15. QED
    BY <2>8, <2>10, <2>13, <2>14 DEF LockInv
<1>6. QED
  BY <1>3, <1>4, <1>5 DEF LeaveZone

\* The invariant of the lock, with the types it rests on.
LEMMA LockInvariant == Spec => [](TypeOK /\ LockInv)
<1>1. TypeOK /\ LockInv /\ [Next]_vars => LockInv'
  <2> SUFFICES ASSUME TypeOK, LockInv, [Next]_vars
               PROVE  LockInv'
    OBVIOUS
  <2> USE DEF Using
  <2>1. ASSUME NEW c \in Calls, Wait(c)
        PROVE  LockInv'
    BY <2>1, WaitStep
  <2>2. ASSUME NEW c \in Calls, Enter(c)
        PROVE  LockInv'
    BY <2>2, EnterStep
  <2>3. ASSUME NEW c \in Calls, Store(c)
        PROVE  LockInv'
    <3>1. \E p \in {"returned", "writing"} : pc' = [pc EXCEPT ![c] = p]
      BY <2>3 DEF Store, StoreRecord
    <3>2. QED
      BY <2>3, <3>1, InsideStep DEF Store
  <2>4. ASSUME NEW c \in Calls, Load(c)
        PROVE  LockInv'
    BY <2>4, InsideStep DEF Load
  <2>5. ASSUME NEW c \in Calls, Archive(c)
        PROVE  LockInv'
    <3>1. \E p \in {"returned", "writing"} : pc' = [pc EXCEPT ![c] = p]
      BY <2>5 DEF Archive, StoreRecord
    <3>2. QED
      BY <2>5, <3>1, InsideStep DEF Archive
  <2>6. ASSUME NEW c \in Calls, Remove(c)
        PROVE  LockInv'
    BY <2>6, InsideStep DEF Remove
  <2>7. ASSUME NEW c \in Calls, Clear(c)
        PROVE  LockInv'
    BY <2>7, InsideStep DEF Clear
  <2>8. ASSUME NEW c \in Calls, EndTask(c)
        PROVE  LockInv'
    <3>1. \E p \in {"returned", "threw"} : pc' = [pc EXCEPT ![c] = p]
      BY <2>8 DEF EndTask
    <3>2. QED
      BY <2>8, <3>1, InsideStep DEF EndTask
  <2>9. ASSUME NEW c \in Calls, CommitZoneChanges(c)
        PROVE  LockInv'
    <3>1. \E p \in {"committed", "committing"} : pc' = [pc EXCEPT ![c] = p]
      BY <2>9 DEF CommitZoneChanges
    <3>2. QED
      BY <2>9, <3>1, InsideStep DEF CommitZoneChanges
  <2>10. ASSUME NEW c \in Calls, RevertZoneChanges(c)
         PROVE  LockInv'
    BY <2>10, InsideStep DEF RevertZoneChanges
  <2>11. ASSUME NEW c \in Calls, Leave(c)
         PROVE  LockInv'
    <3>1. /\ pc[c] \in Using
          /\ \E outcome \in {"done", "failed"} : LeaveZone(c, outcome)
      BY <2>11 DEF Leave
    <3>2. QED
      BY <3>1, LeaveStep
  <2>12. CASE DbSucceeds
    <3> DEFINE c == Head(inflight).call
    <3>1. Head(inflight) \in [call : Calls, writes : Changes]
      BY <2>12, QueueTypes DEF DbSucceeds, TypeOK
    <3>2. c \in Calls /\ pc[c] \in Using /\ UNCHANGED lock
      BY <2>12, <3>1 DEF DbSucceeds
    <3>3. \E p \in {"returned", "committed"} : pc' = [pc EXCEPT ![c] = p]
      BY <2>12 DEF DbSucceeds
    <3>4. QED
      BY <3>2, <3>3, InsideStep
  <2>13. CASE DbFails
    <3> DEFINE c == Head(inflight).call
    <3>1. Head(inflight) \in [call : Calls, writes : Changes]
      BY <2>13, QueueTypes DEF DbFails, TypeOK
    <3>2. c \in Calls /\ pc[c] \in Using /\ UNCHANGED lock
      BY <2>13, <3>1 DEF DbFails
    <3>3. \E p \in {"returned", "threw", "abandoned"} : pc' = [pc EXCEPT ![c] = p]
      BY <2>13 DEF DbFails
    <3>4. QED
      BY <3>2, <3>3, InsideStep
  <2>14. CASE UNCHANGED vars
    BY <2>14 DEF vars, lock, LockInv, DepthCountsUsers, Holding, OneZoneAtATime,
                 NoMissedWakeup, WaitsOnce
  <2>15. QED
    BY <2>1, <2>2, <2>3, <2>4, <2>5, <2>6, <2>7, <2>8, <2>9, <2>10, <2>11, <2>12,
       <2>13, <2>14 DEF Next, Step
<1>2. QED
  BY <1>1, InitLock, TypeCorrect, PTL DEF Spec

\* Mutual exclusion: all calls between enterZone and leaveZone have the current zone,
\* for any number of calls and zones, with any nesting, failures and overlaps.
THEOREM MutualExclusion == Spec => []OneZoneAtATime
BY LockInvariant, PTL DEF LockInv

\* The depth counter is exact, so isInTopLevelZone tells the last user of a zone.
THEOREM DepthIsExact == Spec => []DepthCountsUsers
BY LockInvariant, PTL DEF LockInv

\* leaveZone never leaves a call waiting on a free zone, and lets in every call at
\* the head of the queue that waits for the zone it opens.
THEOREM NoWakeupIsMissed == Spec => []NoMissedWakeup
BY LockInvariant, PTL DEF LockInv

-------------------------------------------------------------------------------
(* The transactions.  From here on the bodies wait for the calls they make, and a     *)
(* transactional zone is made for one outermost call, as decryptAndCacheBatch does.   *)

OneOutermostCall ==
    \A c, d \in Calls :
        ZoneOf[c] \in Transactional /\ ZoneOf[d] = ZoneOf[c]
        /\ ParentOf[c] = NoCall /\ ParentOf[d] = NoCall => c = d

Discipline == ~Orphans /\ OneOutermostCall

\* A nested call is made by a body that waits for it, so that the outermost call of any
\* calls under way is not made by another of them.
Nested ==
    /\ \A c \in Calls : ParentOf[c] # NoCall /\ pc[c] \notin {"idle", "done", "failed"} =>
        pc[c] \in {"body", "writing", "returned", "threw"} /\ pc[ParentOf[c]] = "body"
    /\ \A c \in Calls : ParentOf[c] # NoCall /\ pc[c] # "idle" =>
        pc[ParentOf[c]] \notin {"idle", "queued"}
    /\ \A S \in SUBSET {c \in Calls : pc[c] # "idle"} :
        S # {} => \E c \in S : ParentOf[c] \notin S

\* The outermost call of a transaction is alone once its body is settled.
Outermost(r) == ZoneOf[r] \in Transactional /\ ParentOf[r] = NoCall
AfterBody == {"returned", "threw", "committing", "committed", "reverted", "abandoned"}
EndsAlone ==
    \A r \in Calls : Outermost(r) /\ pc[r] \in AfterBody \cup {"done", "failed"} =>
        \A d \in Holding : ZoneOf[d] = ZoneOf[r] => d = r

WritesDirectly == \A c \in Calls : pc[c] = "writing" => ZoneOf[c] \notin Transactional

PlacesFit == Nested /\ EndsAlone /\ WritesDirectly

LEMMA InitPlaces == Init => PlacesFit
<1> SUFFICES ASSUME Init PROVE PlacesFit
  OBVIOUS
<1>1. \A c \in Calls : pc[c] = "idle"
  BY DEF Init
<1>2. {c \in Calls : pc[c] # "idle"} = {}
  BY <1>1
<1>3. \A S \in SUBSET {c \in Calls : pc[c] # "idle"} : S = {}
  BY <1>2
<1>4. Nested
  BY <1>1, <1>3 DEF Nested
<1>5. QED
  BY <1>1, <1>4 DEF PlacesFit, EndsAlone, WritesDirectly, AfterBody

\* The last user of a zone holds it alone.
LEMMA LastHolds ==
    ASSUME TypeOK, LockInv, depth = 1, NEW c \in Calls, c \in Holding
    PROVE  Holding = {c}
<1>1. Cardinality(Holding \ {c}) = 0 /\ IsFiniteSet(Holding \ {c})
  <2>1. Cardinality(Holding) = 1
    BY DEF LockInv, DepthCountsUsers
  <2>2. Cardinality(Holding \ {c}) = 0
    BY <2>1, HoldingIsFinite, FS_RemoveElement
  <2>3. QED
    BY <2>2, HoldingIsFinite, FS_RemoveElement
<1>2. Holding \ {c} = {}
  BY <1>1, FS_EmptySet
<1>3. QED
  BY <1>2

\* The outermost call of a transaction has the store to itself after its body.
LEMMA AloneFacts ==
    ASSUME TypeOK, LockInv, PlacesFit, NEW r \in Calls, Outermost(r), pc[r] \in AfterBody
    PROVE  Holding = {r} /\ currentZone = ZoneOf[r]
<1>1. r \in Holding
  BY DEF Holding, AfterBody, Using
<1>2. \A d \in Holding : ZoneOf[d] = currentZone
  BY DEF LockInv, OneZoneAtATime
<1>3. \A d \in Holding : d = r
  BY <1>1, <1>2 DEF PlacesFit, EndsAlone
<1>4. QED
  BY <1>1, <1>2, <1>3

\* A call is made: nobody else is concerned.
LEMMA MadePlaces ==
    ASSUME TypeOK, PlacesFit, Discipline, NEW c \in Calls, MayBeMade(c),
           NEW p \in {"body", "queued"}, pc' = [pc EXCEPT ![c] = p],
           p = "queued" => ParentOf[c] = NoCall
    PROVE  PlacesFit'
<1> USE CallsAssumption, ZonesAssumption
<1>1. /\ pc[c] = "idle"
      /\ ParentOf[c] # NoCall => pc[ParentOf[c]] = "body"
      /\ pc'[c] = p
      /\ \A d \in Calls : d # c => pc'[d] = pc[d]
      /\ p # "idle"
  BY DEF MayBeMade, TypeOK
<1>2. \A d \in Calls : ParentOf[d] # NoCall => ParentOf[d] \in Calls
  OBVIOUS
<1>3. \A d \in Calls : ParentOf[d] = c => pc[d] = "idle"
  BY <1>1, <1>2 DEF PlacesFit, Nested
<1>4. ASSUME NEW S \in SUBSET {d \in Calls : pc'[d] # "idle"}, S # {}
      PROVE  \E d \in S : ParentOf[d] \notin S
  <2> DEFINE T == S \ {c}
  <2>1. T \in SUBSET {d \in Calls : pc[d] # "idle"}
    BY <1>1, <1>4
  <2>2. CASE T = {}
    <3>1. S = {c}
      BY <1>4, <2>2
    <3>2. ParentOf[c] # c
      BY <1>1
    <3>3. QED
      BY <3>1, <3>2
  <2>3. CASE T # {}
    <3>1. PICK d \in T : ParentOf[d] \notin T
      BY <2>1, <2>3 DEF PlacesFit, Nested
    <3>2. ParentOf[d] # c
      BY <1>3, <2>1
    <3>3. QED
      BY <3>1, <3>2
  <2>4. QED
    BY <2>2, <2>3
<1>5. ASSUME NEW d \in Calls, ParentOf[d] # NoCall, pc'[d] # "idle"
      PROVE  /\ pc'[ParentOf[d]] \notin {"idle", "queued"}
             /\ pc'[d] \notin {"done", "failed"} =>
                    pc'[d] \in {"body", "writing", "returned", "threw"} /\ pc'[ParentOf[d]] = "body"
  <2>1. CASE d = c
    <3>1. pc[ParentOf[c]] = "body" /\ ParentOf[c] # c /\ ParentOf[c] \in Calls /\ p = "body"
      BY <1>1, <1>2, <1>5, <2>1
    <3>2. QED
      BY <1>1, <2>1, <3>1
  <2>2. CASE d # c
    <3>1. ParentOf[d] # c /\ ParentOf[d] \in Calls /\ pc'[d] = pc[d] /\ pc'[ParentOf[d]] = pc[ParentOf[d]]
      BY <1>1, <1>2, <1>3, <1>5, <2>2
    <3>2. QED
      BY <1>5, <3>1 DEF PlacesFit, Nested
  <2>3. QED
    BY <2>1, <2>2
<1>6. Nested'
  BY <1>4, <1>5 DEF Nested
<1>7. WritesDirectly'
  BY <1>1 DEF PlacesFit, WritesDirectly
<1>8. ASSUME NEW r \in Calls, Outermost(r), pc'[r] \in AfterBody \cup {"done", "failed"},
             NEW d \in Holding', ZoneOf[d] = ZoneOf[r]
      PROVE  d = r
  <2>1. r # c /\ pc[r] \in AfterBody \cup {"done", "failed"}
    BY <1>1, <1>8 DEF AfterBody
  <2>2. \A e \in Holding : ZoneOf[e] = ZoneOf[r] => e = r
    BY <1>8, <2>1 DEF PlacesFit, EndsAlone
  <2>3. CASE d # c
    BY <1>1, <1>8, <2>2, <2>3 DEF Holding
  <2>4. CASE d = c
    <3>1. CASE ParentOf[c] = NoCall
      BY <1>8, <2>4, <3>1 DEF Discipline, OneOutermostCall, Outermost
    <3>2. CASE ParentOf[c] # NoCall
      <4>1. ParentOf[c] \in Holding /\ ZoneOf[ParentOf[c]] = ZoneOf[r]
        BY <1>1, <1>2, <1>8, <2>4, <3>2, DisciplineAssumption DEF Holding, Using
      <4>2. pc[r] = "body"
        BY <1>1, <2>2, <3>2, <4>1
      <4>3. QED
        BY <2>1, <4>2 DEF AfterBody
    <3>3. QED
      BY <3>1, <3>2
  <2>5. QED
    BY <2>3, <2>4
<1>9. EndsAlone'
  BY <1>8 DEF EndsAlone, Outermost
<1>10. QED
  BY <1>6, <1>7, <1>9 DEF PlacesFit

\* A call goes on inside the zone.  When its body is settled, so are the calls it made,
\* and only an outermost call commits or reverts.
LEMMA InsidePlaces ==
    ASSUME TypeOK, LockInv, PlacesFit, Discipline, NEW c \in Calls, pc[c] \in Using,
           NEW p \in AfterBody \cup {"writing"}, pc' = [pc EXCEPT ![c] = p],
           pc[c] = "body" => \A d \in Children(c) : pc[d] \in {"idle", "done", "failed"},
           p \notin {"writing", "returned", "threw"} => ParentOf[c] = NoCall,
           p = "writing" => ZoneOf[c] \notin Transactional
    PROVE  PlacesFit'
<1> USE CallsAssumption, ZonesAssumption
<1>1. /\ pc'[c] = p
      /\ \A d \in Calls : d # c => pc'[d] = pc[d]
      /\ pc[c] \notin {"idle", "queued", "done", "failed"}
      /\ p \notin {"idle", "queued", "done", "failed", "body"}
  BY DEF TypeOK, AfterBody, Using
<1>2. \A d \in Calls : ParentOf[d] # NoCall => ParentOf[d] \in Calls
  OBVIOUS
<1>3. \A d \in Calls : ParentOf[d] = c => pc[d] \in {"idle", "done", "failed"} /\ d # c
  <2>1. \A d \in Calls : ParentOf[d] = c /\ pc[d] \notin {"idle", "done", "failed"} => pc[c] = "body"
    BY DEF PlacesFit, Nested
  <2>2. QED
    BY <1>1, <2>1 DEF Children
<1>4. {d \in Calls : pc'[d] # "idle"} = {d \in Calls : pc[d] # "idle"}
  BY <1>1
<1>5. Holding' = Holding /\ c \in Holding
  BY <1>1 DEF Holding, Using, AfterBody
<1>6. ASSUME NEW d \in Calls, ParentOf[d] # NoCall, pc'[d] # "idle"
      PROVE  /\ pc'[ParentOf[d]] \notin {"idle", "queued"}
             /\ pc'[d] \notin {"done", "failed"} =>
                    pc'[d] \in {"body", "writing", "returned", "threw"} /\ pc'[ParentOf[d]] = "body"
  <2>1. pc[d] # "idle" /\ ParentOf[d] \in Calls
    BY <1>1, <1>2, <1>6
  <2>2. pc'[ParentOf[d]] \notin {"idle", "queued"}
    BY <1>1, <1>6, <2>1 DEF PlacesFit, Nested
  <2>3. CASE d = c
    <3>1. p \in {"writing", "returned", "threw"} /\ pc[ParentOf[c]] = "body" /\ ParentOf[c] # c
      BY <1>1, <1>3, <1>6, <2>3 DEF PlacesFit, Nested
    <3>2. QED
      BY <1>1, <2>1, <2>2, <2>3, <3>1
  <2>4. CASE d # c
    BY <1>1, <1>3, <1>6, <2>1, <2>2, <2>4 DEF PlacesFit, Nested
  <2>5. QED
    BY <2>3, <2>4
<1>7. Nested'
  BY <1>4, <1>6 DEF Nested, PlacesFit
<1>8. WritesDirectly'
  BY <1>1 DEF PlacesFit, WritesDirectly
<1>9. ASSUME NEW r \in Calls, Outermost(r), pc'[r] \in AfterBody \cup {"done", "failed"},
             NEW d \in Holding, ZoneOf[d] = ZoneOf[r], d # r
      PROVE  FALSE
  <2>1. pc[r] \notin AfterBody \cup {"done", "failed"}
    BY <1>9 DEF PlacesFit, EndsAlone
  <2>2. r = c
    BY <1>1, <1>9, <2>1
  <2>3. pc[c] = "body"
    BY <1>9, <2>1, <2>2 DEF PlacesFit, WritesDirectly, Outermost, Using, AfterBody
  <2> DEFINE S == {e \in Holding : ZoneOf[e] = ZoneOf[c] /\ e # c}
  <2>4. S \in SUBSET {e \in Calls : pc[e] # "idle"} /\ d \in S
    BY <1>9, <2>2 DEF Holding, Using
  <2> HIDE DEF S
  <2>5. PICK e \in S : ParentOf[e] \notin S
    BY <2>4 DEF PlacesFit, Nested
  <2>6. e \in Calls /\ e \in Holding /\ ZoneOf[e] = ZoneOf[c] /\ e # c
    BY <2>5 DEF S, Holding
  <2>7. ParentOf[e] # NoCall
    BY <1>9, <2>2, <2>6 DEF Discipline, OneOutermostCall, Outermost
  <2>8. ParentOf[e] \in Calls /\ ZoneOf[ParentOf[e]] = ZoneOf[c] /\ pc[ParentOf[e]] = "body"
    BY <2>6, <2>7, DisciplineAssumption DEF PlacesFit, Nested, Holding, Using
  <2>9. ParentOf[e] = c
    BY <2>5, <2>8 DEF S, Holding, Using
  <2>10. QED
    BY <1>3, <2>6, <2>9 DEF Holding, Using
<1>10. EndsAlone'
  BY <1>5, <1>9 DEF EndsAlone, Outermost
<1>11. QED
  BY <1>7, <1>8, <1>10 DEF PlacesFit

\* A call leaves the zone: the calls let in are outermost calls, since a nested call
\* never waits.
LEMMA LeavePlaces ==
    ASSUME TypeOK, LockInv, PlacesFit, Discipline, NEW c \in Calls,
           pc[c] \in {"returned", "threw", "committed", "reverted"},
           NEW outcome \in {"done", "failed"}, LeaveZone(c, outcome)
    PROVE  /\ PlacesFit'
           /\ pc'[c] = outcome
           /\ \A d \in Calls \ {c} :
                \/ pc'[d] = pc[d]
                \/ pc[d] = "queued" /\ pc'[d] = "body" /\ ParentOf[d] = NoCall
<1> USE CallsAssumption, ZonesAssumption
<1>1. pc'[c] = outcome
  BY DEF LeaveZone, TypeOK
<1>2. ASSUME NEW d \in Calls, d # c, pc'[d] # pc[d]
      PROVE  pc[d] = "queued" /\ pc'[d] = "body" /\ ParentOf[d] = NoCall
  <2>1. PICK n \in 1 .. Len(zoneQueue) :
            pc' = [x \in Calls |->
                        IF x = c THEN outcome
                        ELSE IF \E i \in 1..n : zoneQueue[i] = x THEN "body" ELSE pc[x]]
    BY <1>2 DEF LeaveZone, TypeOK
  <2>2. pc'[d] = "body" /\ \E i \in 1..n : zoneQueue[i] = d
    BY <1>2, <2>1
  <2>3. PICK i \in 1..n : zoneQueue[i] = d
    BY <2>2
  <2>4. i \in DOMAIN zoneQueue
    BY <2>3 DEF TypeOK
  <2>5. pc[d] = "queued"
    BY <2>3, <2>4 DEF LockInv, NoMissedWakeup
  <2>6. QED
    BY <2>2, <2>5 DEF PlacesFit, Nested
<1>3. \A d \in Calls : ParentOf[d] # NoCall => ParentOf[d] \in Calls
  OBVIOUS
<1>4. {d \in Calls : pc'[d] # "idle"} = {d \in Calls : pc[d] # "idle"}
  BY <1>1, <1>2
<1>5. \A d \in Calls : ParentOf[d] = c => pc[d] \in {"idle", "done", "failed"}
  BY DEF PlacesFit, Nested
<1>6. ASSUME NEW d \in Calls, ParentOf[d] # NoCall, pc'[d] # "idle"
      PROVE  /\ pc'[ParentOf[d]] \notin {"idle", "queued"}
             /\ pc'[d] \notin {"done", "failed"} =>
                    pc'[d] \in {"body", "writing", "returned", "threw"} /\ pc'[ParentOf[d]] = "body"
  <2>1. pc[d] # "idle" /\ ParentOf[d] \in Calls /\ pc[ParentOf[d]] \notin {"idle", "queued"}
    BY <1>3, <1>4, <1>6 DEF PlacesFit, Nested
  <2>2. pc'[ParentOf[d]] \notin {"idle", "queued"}
    BY <1>1, <1>2, <2>1
  <2>3. CASE d # c
    BY <1>1, <1>2, <1>5, <1>6, <2>1, <2>2, <2>3 DEF PlacesFit, Nested
  <2>4. QED
    BY <1>1, <2>2, <2>3
<1>7. Nested'
  BY <1>4, <1>6 DEF Nested, PlacesFit
<1>8. WritesDirectly'
  BY <1>1, <1>2 DEF PlacesFit, WritesDirectly
<1>9. ASSUME NEW r \in Calls, Outermost(r), pc'[r] \in AfterBody \cup {"done", "failed"},
             NEW d \in Holding', ZoneOf[d] = ZoneOf[r]
      PROVE  d = r
  <2>1. pc[r] \in AfterBody \cup {"done", "failed"}
    BY <1>1, <1>2, <1>9 DEF AfterBody
  <2>2. d \in Calls /\ d # c
    BY <1>1, <1>9 DEF Holding, Using
  <2>3. CASE pc'[d] = pc[d]
    <3>1. d \in Holding
      BY <1>9, <2>2, <2>3 DEF Holding
    <3>2. QED
      BY <1>9, <2>1, <3>1 DEF PlacesFit, EndsAlone
  <2>4. CASE pc'[d] # pc[d]
    BY <1>2, <1>9, <2>2, <2>4 DEF Discipline, OneOutermostCall, Outermost
  <2>5. QED
    BY <2>3, <2>4
<1>10. EndsAlone'
  BY <1>9 DEF EndsAlone, Outermost
<1>11. QED
  BY <1>1, <1>2, <1>7, <1>8, <1>10 DEF PlacesFit

\* Who is the last of a zone and settled was not made by another call.
LEMMA LastIsOutermost ==
    ASSUME TypeOK, LockInv, PlacesFit, depth = 1, NEW c \in Calls, pc[c] \in {"returned", "threw"}
    PROVE  ParentOf[c] = NoCall /\ Holding = {c}
<1>1. Holding = {c}
  BY LastHolds DEF Holding, Using
<1>2. ParentOf[c] # NoCall => ParentOf[c] \in Calls /\ pc[ParentOf[c]] = "body"
  BY CallsAssumption DEF PlacesFit, Nested
<1>3. ParentOf[c] # NoCall => ParentOf[c] \in Holding
  BY <1>2 DEF Holding, Using
<1>4. QED
  BY <1>1, <1>2, <1>3

\* Only tasks make calls.
LEMMA NoChildren ==
    ASSUME NEW c \in Calls, KindOf[c] # "task"
    PROVE  Children(c) = {}
BY ZonesAssumption, DisciplineAssumption DEF Children

LEMMA PlacesStep == TypeOK /\ LockInv /\ PlacesFit /\ Discipline /\ [Next]_vars => PlacesFit'
<1> SUFFICES ASSUME TypeOK, LockInv, PlacesFit, Discipline, [Next]_vars
             PROVE  PlacesFit'
  OBVIOUS
<1> USE CallsAssumption, ZonesAssumption
<1>1. ASSUME NEW c \in Calls, Wait(c)
      PROVE  PlacesFit'
  <2>1. ParentOf[c] = NoCall
    <3>1. SUFFICES ASSUME ParentOf[c] # NoCall PROVE FALSE
      OBVIOUS
    <3>2. ParentOf[c] \in Holding /\ ZoneOf[ParentOf[c]] = ZoneOf[c]
      BY <1>1, <3>1, DisciplineAssumption DEF Wait, MayBeMade, Holding, Using
    <3>3. QED
      BY <1>1, <3>2 DEF Wait, LockInv, OneZoneAtATime
  <2>2. QED
    BY <1>1, <2>1, MadePlaces DEF Wait
<1>2. ASSUME NEW c \in Calls, Enter(c)
      PROVE  PlacesFit'
  BY <1>2, MadePlaces DEF Enter
<1>3. ASSUME NEW c \in Calls, pc[c] = "body", KindOf[c] # "task",
             \/ pc' = [pc EXCEPT ![c] = "returned"]
             \/ pc' = [pc EXCEPT ![c] = "writing"] /\ ZoneOf[c] \notin Transactional
      PROVE  PlacesFit'
  <2>1. \A d \in Children(c) : pc[d] \in {"idle", "done", "failed"}
    BY <1>3, NoChildren
  <2>2. QED
    BY <1>3, <2>1, InsidePlaces DEF Using, AfterBody
<1>4. ASSUME NEW c \in Calls, Store(c) \/ Load(c) \/ Archive(c) \/ Remove(c) \/ Clear(c)
      PROVE  PlacesFit'
  <2>1. pc[c] = "body" /\ KindOf[c] # "task"
    BY <1>4 DEF Store, Load, Archive, Remove, Clear
  <2>2. \/ pc' = [pc EXCEPT ![c] = "returned"]
        \/ pc' = [pc EXCEPT ![c] = "writing"] /\ ZoneOf[c] \notin Transactional
    BY <1>4, DisciplineAssumption DEF Store, Load, Archive, Remove, Clear, StoreRecord
  <2>3. QED
    BY <1>3, <2>1, <2>2
<1>5. ASSUME NEW c \in Calls, EndTask(c)
      PROVE  PlacesFit'
  <2>1. /\ pc[c] = "body" /\ ChildrenSettled(c)
        /\ \E p \in {"returned", "threw"} : pc' = [pc EXCEPT ![c] = p]
    BY <1>5 DEF EndTask, Discipline
  <2>2. \A d \in Children(c) : d \in Calls /\ ParentOf[d] # NoCall
    BY DEF Children
  <2>3. \A d \in Children(c) : pc[d] # "abandoned"
    BY <2>2 DEF PlacesFit, Nested
  <2>4. \A d \in Children(c) : pc[d] \in {"idle", "done", "failed"}
    BY <2>1, <2>3 DEF ChildrenSettled, Settled
  <2>5. QED
    BY <2>1, <2>4, InsidePlaces DEF Using, AfterBody
<1>6. ASSUME NEW c \in Calls, CommitZoneChanges(c) \/ RevertZoneChanges(c)
      PROVE  PlacesFit'
  <2>1. /\ pc[c] \in {"returned", "threw"} /\ depth = 1
        /\ \E p \in {"committing", "committed", "reverted"} : pc' = [pc EXCEPT ![c] = p]
    BY <1>6 DEF CommitZoneChanges, RevertZoneChanges
  <2>2. ParentOf[c] = NoCall
    BY <2>1, LastIsOutermost
  <2>3. pc[c] # "body" /\ pc[c] \in Using
    BY <2>1 DEF Using
  <2>4. QED
    BY <2>1, <2>2, <2>3, InsidePlaces DEF AfterBody
<1>7. ASSUME NEW c \in Calls, Leave(c)
      PROVE  PlacesFit'
  BY <1>7, LeavePlaces DEF Leave
<1>8. CASE DbSucceeds \/ DbFails
  <2> DEFINE c == Head(inflight).call
  <2>1. Head(inflight) \in [call : Calls, writes : Changes]
    BY <1>8, QueueTypes DEF DbSucceeds, DbFails, TypeOK
  <2>2. c \in Calls
    BY <2>1
  <2> HIDE DEF c
  <2>3. \/ pc[c] = "writing" /\ \E p \in {"returned", "threw"} : pc' = [pc EXCEPT ![c] = p]
        \/ pc[c] = "committing" /\ \E p \in {"committed", "abandoned"} : pc' = [pc EXCEPT ![c] = p]
    BY <1>8 DEF DbSucceeds, DbFails, c
  <2>4. pc[c] = "committing" => ParentOf[c] = NoCall
    BY <2>2 DEF PlacesFit, Nested
  <2>5. QED
    BY <2>2, <2>3, <2>4, InsidePlaces DEF Using, AfterBody
<1>9. CASE UNCHANGED vars
  <2>1. pc' = pc /\ Holding' = Holding
    BY <1>9 DEF vars, Holding
  <2>2. QED
    BY <2>1 DEF PlacesFit, Nested, EndsAlone, WritesDirectly
<1>10. QED
  BY <1>1, <1>2, <1>4, <1>5, <1>6, <1>7, <1>8, <1>9 DEF Next, Step

-------------------------------------------------------------------------------
(* The pending changes, and the calls to the database. *)

\* Only a transaction has pending changes, until its outermost call commits or reverts.
AfterEnd == {"committing", "committed", "reverted", "abandoned"}
PendingFits ==
    /\ pending # Nothing => currentZone \in Transactional
    /\ \A c \in Calls : pc[c] = "committing" => ZoneOf[c] \in Transactional
    /\ \A c \in Calls : pc[c] \in AfterEnd => pending = Nothing

\* A call awaits the answer to one call of the database.  What is written directly is the
\* record of the call.
Awaiting == {"writing", "committing"}
EntryFits(e) ==
    /\ pc[e.call] \in Awaiting
    /\ pc[e.call] = "writing" =>
        /\ DOMAIN e.writes = {KeyOf[e.call]}
        /\ KindOf[e.call] \in {"remove", "clear"} => e.writes[KeyOf[e.call]] = NoRecord
EntriesFit ==
    /\ \A i \in 1 .. Len(inflight) : EntryFits(inflight[i])
    /\ \A i, j \in 1 .. Len(inflight) : inflight[i].call = inflight[j].call => i = j

LEMMA NothingFacts == DOMAIN Nothing = {} /\ \A x : [k \in DOMAIN Nothing \ {x} |-> Nothing[k]] = Nothing
BY DEF Nothing

LEMMA InitPending == Init => PendingFits /\ EntriesFit
<1> SUFFICES ASSUME Init PROVE PendingFits /\ EntriesFit
  OBVIOUS
<1>1. /\ pending = Nothing /\ Len(inflight) = 0
      /\ \A c \in Calls : pc[c] = "idle"
  BY DEF Init
<1>2. 1 .. Len(inflight) = {}
  BY <1>1
<1>3. QED
  BY <1>1, <1>2 DEF PendingFits, EntriesFit, AfterEnd

\* Whoever commits or reverts in a transaction is alone.
LEMMA EndingAlone ==
    ASSUME TypeOK, LockInv, PlacesFit, NEW c \in Calls, pc[c] \in AfterEnd,
           NEW d \in Calls, d \in Holding, ZoneOf[d] \in Transactional
    PROVE  d = c
<1>1. c \in Holding /\ ParentOf[c] = NoCall
  BY DEF Holding, Using, AfterEnd, PlacesFit, Nested
<1>2. ZoneOf[c] = currentZone /\ ZoneOf[d] = currentZone
  BY <1>1 DEF LockInv, OneZoneAtATime
<1>3. QED
  BY <1>1, <1>2, AloneFacts DEF Outermost, AfterEnd, AfterBody

LEMMA PendingStep ==
    TypeOK /\ LockInv /\ PlacesFit /\ PendingFits /\ Discipline /\ [Next]_vars => PendingFits'
<1> SUFFICES ASSUME TypeOK, LockInv, PlacesFit, PendingFits, Discipline, [Next]_vars
             PROVE  PendingFits'
  OBVIOUS
<1> USE CallsAssumption, ZonesAssumption
<1>1. \A d \in Calls : pc[d] \in Using => d \in Holding /\ ZoneOf[d] = currentZone
  BY DEF Holding, LockInv, OneZoneAtATime
<1>2. ASSUME NEW c \in Calls, Wait(c) \/ Enter(c)
      PROVE  PendingFits'
  <2>1. \A d \in Calls : pc'[d] \in AfterEnd => pc'[d] = pc[d]
    BY <1>2 DEF Wait, Enter, TypeOK, AfterEnd
  <2>2. pending' = pending
    BY <1>2 DEF Wait, Enter, data
  <2>3. currentZone = NoZone \/ currentZone' = currentZone
    BY <1>2 DEF Wait, Enter, LockInv, DepthCountsUsers, TypeOK
  <2>4. pending # Nothing => currentZone' \in Transactional
    BY <2>3 DEF PendingFits
  <2>5. QED
    BY <2>1, <2>2, <2>4 DEF PendingFits, AfterEnd
<1>3. ASSUME NEW c \in Calls, pc[c] \in Using, UNCHANGED lock,
             NEW p \in {"writing", "returned", "threw"}, pc' = [pc EXCEPT ![c] = p],
             \/ pending' \in {pending, Nothing}
             \/ ZoneOf[c] \in Transactional /\ pc[c] = "body"
      PROVE  PendingFits'
  <2>1. \A d \in Calls : pc'[d] \in AfterEnd => pc'[d] = pc[d]
    BY <1>3 DEF TypeOK, AfterEnd
  <2>2. pending' # Nothing => currentZone' \in Transactional
    BY <1>1, <1>3 DEF PendingFits, lock
  <2>3. ASSUME NEW d \in Calls, pc'[d] \in AfterEnd
        PROVE  pending' = Nothing
    <3>1. pending = Nothing /\ pc[d] \in AfterEnd
      BY <2>1, <2>3 DEF PendingFits
    <3>2. CASE ZoneOf[c] \in Transactional /\ pc[c] = "body"
      <4>1. c = d
        BY <1>1, <1>3, <3>1, <3>2, EndingAlone
      <4>2. QED
        BY <3>1, <3>2, <4>1 DEF AfterEnd
    <3>3. QED
      BY <1>3, <3>1, <3>2
  <2>4. QED
    BY <2>1, <2>2, <2>3 DEF PendingFits, AfterEnd
<1>4. ASSUME NEW c \in Calls, Store(c) \/ Load(c) \/ Archive(c) \/ EndTask(c)
      PROVE  PendingFits'
  <2>1. pc[c] = "body" /\ UNCHANGED lock
    BY <1>4 DEF Store, Load, Archive, EndTask
  <2>2. \E p \in {"writing", "returned", "threw"} : pc' = [pc EXCEPT ![c] = p]
    BY <1>4 DEF Store, Load, Archive, EndTask, StoreRecord
  <2>3. pending' \in {pending, Nothing} \/ ZoneOf[c] \in Transactional
    BY <1>4 DEF Store, Load, Archive, EndTask, StoreRecord, data
  <2>4. QED
    BY <1>3, <2>1, <2>2, <2>3 DEF Using
<1>5. ASSUME NEW c \in Calls, Remove(c) \/ Clear(c)
      PROVE  PendingFits'
  <2>1. /\ pc[c] = "body" /\ UNCHANGED lock /\ pc' = [pc EXCEPT ![c] = "writing"]
        /\ ZoneOf[c] \notin Transactional
    BY <1>5, DisciplineAssumption DEF Remove, Clear
  <2>2. pending = Nothing
    BY <1>1, <2>1 DEF PendingFits, Using
  <2>3. pending' = Nothing
    BY <1>5, <2>2, NothingFacts DEF Remove, Clear
  <2>4. QED
    BY <1>3, <2>1, <2>3 DEF Using
<1>6. ASSUME NEW c \in Calls, CommitZoneChanges(c) \/ RevertZoneChanges(c)
      PROVE  PendingFits'
  <2>1. /\ pc[c] \in {"returned", "threw"} /\ UNCHANGED lock /\ pending' = Nothing
        /\ \E p \in AfterEnd : /\ pc' = [pc EXCEPT ![c] = p]
                               /\ p = "committing" => pending # Nothing
    BY <1>6 DEF CommitZoneChanges, RevertZoneChanges, AfterEnd
  <2>2. pending # Nothing => ZoneOf[c] \in Transactional
    BY <1>1, <2>1 DEF PendingFits, Using
  <2>3. \A d \in Calls : pc'[d] = "committing" => ZoneOf[d] \in Transactional
    BY <2>1, <2>2 DEF PendingFits, TypeOK
  <2>4. QED
    BY <2>1, <2>3 DEF PendingFits
<1>7. ASSUME NEW c \in Calls, Leave(c)
      PROVE  PendingFits'
  <2>1. /\ pc[c] \in {"returned", "threw", "committed", "reverted"} /\ pending' = pending
        /\ \E outcome \in {"done", "failed"} : LeaveZone(c, outcome)
        /\ pc[c] \in {"returned", "threw"} => depth > 1
    BY <1>7 DEF Leave, data
  <2>2. PICK outcome \in {"done", "failed"} : LeaveZone(c, outcome)
    BY <2>1
  <2>3. /\ pc'[c] = outcome
        /\ \A d \in Calls \ {c} : pc'[d] = pc[d] \/ pc'[d] = "body"
    BY <2>1, <2>2, LeavePlaces
  <2>4. \A d \in Calls : pc'[d] \in AfterEnd => pc'[d] = pc[d]
    BY <2>3 DEF AfterEnd
  <2>5. pc[c] \in {"returned", "threw"} => currentZone' = currentZone
    <3>1. depth \in Nat
      BY DEF TypeOK
    <3>2. QED
      BY <2>1, <2>2, <3>1 DEF LeaveZone
  <2>6. pc[c] \in {"committed", "reverted"} => pending = Nothing
    BY DEF PendingFits, AfterEnd
  <2>7. pending' # Nothing => currentZone' \in Transactional
    BY <2>1, <2>5, <2>6 DEF PendingFits
  <2>8. QED
    BY <2>1, <2>4, <2>7 DEF PendingFits, AfterEnd
<1>8. CASE DbSucceeds \/ DbFails
  <2> DEFINE c == Head(inflight).call
  <2>1. Head(inflight) \in [call : Calls, writes : Changes]
    BY <1>8, QueueTypes DEF DbSucceeds, DbFails, TypeOK
  <2>2. c \in Calls
    BY <2>1
  <2> HIDE DEF c
  <2>3. /\ UNCHANGED lock /\ pc[c] \in {"writing", "committing"}
        /\ \E p \in {"returned", "threw", "committed", "abandoned"} :
             pc' = [pc EXCEPT ![c] = p] /\ (p \in AfterEnd => pc[c] = "committing")
    BY <1>8 DEF DbSucceeds, DbFails, c, AfterEnd
  <2>4. pending = Nothing => pending' = Nothing
    <3>1. pending' = pending \/ pending' = [k \in DOMAIN pending \ {KeyOf[c]} |-> pending[k]]
      BY <1>8 DEF DbSucceeds, DbFails, c
    <3>2. QED
      BY <3>1, NothingFacts
  <2>5. pending' # Nothing => currentZone' \in Transactional
    BY <2>3, <2>4 DEF PendingFits, lock
  <2>6. ASSUME NEW d \in Calls, pc'[d] \in AfterEnd
        PROVE  pending' = Nothing /\ (pc'[d] = "committing" => ZoneOf[d] \in Transactional)
    <3>1. pc[d] \in AfterEnd /\ (pc'[d] = "committing" => pc[d] = "committing")
      BY <2>2, <2>3, <2>6 DEF TypeOK, AfterEnd
    <3>2. QED
      BY <2>4, <3>1 DEF PendingFits
  <2>7. QED
    BY <2>5, <2>6 DEF PendingFits, AfterEnd
<1>9. CASE UNCHANGED vars
  BY <1>9 DEF vars, PendingFits, lock, data
<1>10. QED
  BY <1>2, <1>4, <1>5, <1>6, <1>7, <1>8, <1>9 DEF Next, Step

LEMMA EntryTypes ==
    ASSUME TypeOK
    PROVE  /\ inflight \in Seq([call : Calls, writes : Changes]) /\ Len(inflight) \in Nat
           /\ \A i \in 1 .. Len(inflight) :
                inflight[i].call \in Calls /\ inflight[i].writes \in Changes
<1> DEFINE E == [call : Calls, writes : Changes]
<1>1. inflight \in Seq(E)
  BY DEF TypeOK
<1>2. Len(inflight) \in Nat /\ \A i \in 1 .. Len(inflight) : inflight[i] \in E
  <2> HIDE DEF E
  <2>1. QED
    BY <1>1
<1>3. QED
  BY <1>1, <1>2

\* The entries that were in flight before and after a step are those of the same calls.
LEMMA EntriesKept ==
    ASSUME TypeOK, EntriesFit, UNCHANGED inflight,
           \A d \in Calls : pc[d] \in Awaiting => pc'[d] = pc[d]
    PROVE  EntriesFit'
<1>1. \A i \in 1 .. Len(inflight) : EntryFits(inflight[i])'
  BY EntryTypes DEF EntriesFit, EntryFits
<1>2. QED
  BY <1>1 DEF EntriesFit

LEMMA SendFacts ==
    ASSUME TypeOK, NEW c \in Calls, NEW w \in Changes, Send(c, w)
    PROVE  /\ inflight' \in Seq([call : Calls, writes : Changes])
           /\ Len(inflight') = Len(inflight) + 1
           /\ \A i \in 1 .. Len(inflight) : inflight'[i] = inflight[i]
           /\ inflight'[Len(inflight) + 1] = [call |-> c, writes |-> w]
           /\ \A i \in 1 .. Len(inflight') : i \in 1 .. Len(inflight) \/ i = Len(inflight) + 1
<1> DEFINE e == [call |-> c, writes |-> w]
           E == [call : Calls, writes : Changes]
<1>1. e \in E /\ inflight \in Seq(E) /\ inflight' = Append(inflight, e)
  BY DEF Send, TypeOK
<1> HIDE DEF e, E
<1>2. /\ Append(inflight, e) \in Seq(E) /\ Len(inflight) \in Nat
      /\ Len(Append(inflight, e)) = Len(inflight) + 1
      /\ \A i \in 1 .. Len(inflight) : Append(inflight, e)[i] = inflight[i]
      /\ Append(inflight, e)[Len(inflight) + 1] = e
  BY <1>1
<1>3. QED
  BY <1>1, <1>2 DEF e, E

\* A call that awaited nothing sends its writes.
LEMMA EntriesSend ==
    ASSUME TypeOK, EntriesFit, NEW c \in Calls, NEW w \in Changes, Send(c, w),
           pc[c] \notin Awaiting, NEW p \in Awaiting, pc' = [pc EXCEPT ![c] = p],
           p = "writing" =>
                /\ DOMAIN w = {KeyOf[c]}
                /\ KindOf[c] \in {"remove", "clear"} => w[KeyOf[c]] = NoRecord
    PROVE  EntriesFit'
<1> DEFINE n == Len(inflight) + 1
           e == [call |-> c, writes |-> w]
<1>1. /\ Len(inflight') = n /\ inflight'[n] = e
      /\ \A i \in 1 .. Len(inflight) : inflight'[i] = inflight[i]
      /\ \A i \in 1 .. Len(inflight') : i \in 1 .. Len(inflight) \/ i = n
  BY SendFacts
<1>2. \A i \in 1 .. Len(inflight) : inflight[i].call \in Calls /\ inflight[i].call # c
  BY EntryTypes DEF EntriesFit, EntryFits
<1>3. pc'[c] = p /\ \A d \in Calls \ {c} : pc'[d] = pc[d]
  BY DEF TypeOK
<1>4. e.call = c /\ e.writes = w
  OBVIOUS
<1> HIDE DEF n, e
<1>5. EntryFits(e)'
  BY <1>3, <1>4 DEF EntryFits
<1>6. \A i \in 1 .. Len(inflight) : EntryFits(inflight[i]) /\ pc'[inflight[i].call] = pc[inflight[i].call]
  BY <1>2, <1>3 DEF EntriesFit
<1>7. \A i \in 1 .. Len(inflight') : EntryFits(inflight[i])'
  <2> SUFFICES ASSUME NEW i \in 1 .. Len(inflight') PROVE EntryFits(inflight[i])'
    OBVIOUS
  <2>1. CASE i = n
    <3>1. inflight'[i] = e
      BY <1>1, <2>1
    <3>2. QED
      BY <1>5, <3>1 DEF EntryFits
  <2>2. CASE i \in 1 .. Len(inflight)
    <3>1. inflight'[i] = inflight[i]
      BY <1>1, <2>2
    <3>2. QED
      BY <1>6, <2>2, <3>1 DEF EntryFits
  <2>3. QED
    BY <1>1, <2>1, <2>2
<1>8. \A i, j \in 1 .. Len(inflight') : inflight'[i].call = inflight'[j].call => i = j
  BY <1>1, <1>2, <1>4 DEF EntriesFit
<1>9. QED
  BY <1>7, <1>8 DEF EntriesFit

LEMMA TailEntries ==
    ASSUME TypeOK, inflight # <<>>, inflight' = Tail(inflight)
    PROVE  /\ 1 \in 1 .. Len(inflight) /\ Head(inflight) = inflight[1]
           /\ Head(inflight).call \in Calls /\ Head(inflight).writes \in Changes
           /\ Len(inflight) \in Nat /\ Len(inflight') = Len(inflight) - 1
           /\ \A i \in 1 .. Len(inflight') :
                inflight'[i] = inflight[i + 1] /\ i + 1 \in 1 .. Len(inflight)
<1>1. inflight \in Seq([call : Calls, writes : Changes])
  BY DEF TypeOK
<1>2. /\ Len(inflight) \in Nat /\ 1 \in 1 .. Len(inflight) /\ Head(inflight) = inflight[1]
      /\ Len(Tail(inflight)) = Len(inflight) - 1
      /\ \A i \in 1 .. Len(inflight) - 1 : Tail(inflight)[i] = inflight[i + 1]
  BY <1>1
<1>3. QED
  BY <1>2, EntryTypes

\* The first entry is answered.
LEMMA EntriesTail ==
    ASSUME TypeOK, EntriesFit, inflight # <<>>, inflight' = Tail(inflight),
           \A d \in Calls \ {Head(inflight).call} : pc'[d] = pc[d]
    PROVE  EntriesFit'
<1>1. /\ 1 \in 1 .. Len(inflight) /\ Head(inflight) = inflight[1]
      /\ Len(inflight) \in Nat /\ Len(inflight') = Len(inflight) - 1
      /\ \A i \in 1 .. Len(inflight') :
           inflight'[i] = inflight[i + 1] /\ i + 1 \in 1 .. Len(inflight)
  BY TailEntries
<1>2. ASSUME NEW i \in 1 .. Len(inflight')
      PROVE  EntryFits(inflight[i])'
  <2>1. PICK k : k = i + 1
    OBVIOUS
  <2>2. inflight'[i] = inflight[k] /\ k \in 1 .. Len(inflight) /\ k # 1
    BY <1>1, <2>1
  <2>3. inflight[k].call \in Calls /\ inflight[k].call # Head(inflight).call
    BY <1>1, <2>2, EntryTypes DEF EntriesFit
  <2>4. EntryFits(inflight[k])
    BY <2>2 DEF EntriesFit
  <2>5. QED
    BY <2>2, <2>3, <2>4 DEF EntryFits
<1>3. ASSUME NEW i \in 1 .. Len(inflight'), NEW j \in 1 .. Len(inflight'),
             inflight'[i].call = inflight'[j].call
      PROVE  i = j
  <2>1. i + 1 = j + 1
    BY <1>1, <1>3 DEF EntriesFit
  <2>2. QED
    BY <2>1
<1>4. QED
  BY <1>2, <1>3 DEF EntriesFit

\* What a step that sends something sends.
LEMMA Sends ==
    ASSUME TypeOK, LockInv, PendingFits, NEW c \in Calls, Step(c), inflight' # inflight
    PROVE  /\ pc[c] \notin Awaiting
           /\ \E w \in Changes, p \in Awaiting :
                /\ Send(c, w) /\ pc' = [pc EXCEPT ![c] = p]
                /\ p = "committing" => w = pending /\ CommitZoneChanges(c)
                /\ p = "writing" =>
                     /\ DOMAIN w = {KeyOf[c]}
                     /\ KindOf[c] \in {"remove", "clear"} => w[KeyOf[c]] = NoRecord
<1> USE CallsAssumption, ZonesAssumption
<1>1. pc[c] \in Using => ZoneOf[c] = currentZone
  BY DEF Holding, LockInv, OneZoneAtATime
<1>2. ASSUME pc[c] = "body", ZoneOf[c] \notin Transactional
      PROVE  pending = Nothing
  BY <1>1, <1>2 DEF PendingFits, Using
<1>3. ASSUME NEW r \in Records, pc[c] = "body", StoreRecord(c, r), KindOf[c] \notin {"remove", "clear"}
      PROVE  \E w \in Changes : Send(c, w) /\ pc' = [pc EXCEPT ![c] = "writing"] /\ DOMAIN w = {KeyOf[c]}
  <2>1. ZoneOf[c] \notin Transactional
    BY <1>3 DEF StoreRecord
  <2>2. Put(pending, KeyOf[c], r) \in Changes
    BY PutIsChanges DEF TypeOK
  <2>3. DOMAIN Put(pending, KeyOf[c], r) = {KeyOf[c]}
    <3>1. DOMAIN pending = {}
      BY <1>2, <1>3, <2>1 DEF Nothing
    <3>2. QED
      BY <3>1 DEF Put
  <2>4. QED
    BY <1>3, <2>1, <2>2, <2>3 DEF StoreRecord
<1>4. CASE Store(c)
  <2>1. [by |-> c, current |-> TRUE] \in Records
    BY DEF Records
  <2>2. QED
    BY <1>3, <1>4, <2>1 DEF Store, Awaiting
<1>5. CASE Archive(c)
  <2> DEFINE r == Lookup(KeyOf[c])
             archived == [r EXCEPT !.current = FALSE]
  <2>1. r \in Records
    BY ChangesFacts DEF Lookup, TypeOK
  <2>2. r # NoRecord /\ r.current
    BY <1>5 DEF Archive, data
  <2>3. archived \in Records
    BY <2>1, <2>2 DEF Records
  <2>4. StoreRecord(c, archived)
    BY <1>5, <2>2 DEF Archive
  <2> HIDE DEF archived, r
  <2>5. QED
    BY <1>3, <1>5, <2>3, <2>4 DEF Archive, Awaiting
<1>6. CASE Remove(c) \/ Clear(c)
  <2>1. Put(Nothing, KeyOf[c], NoRecord) \in Changes
    BY PutIsChanges, NothingIsChanges DEF Records
  <2>2. /\ DOMAIN Put(Nothing, KeyOf[c], NoRecord) = {KeyOf[c]}
        /\ Put(Nothing, KeyOf[c], NoRecord)[KeyOf[c]] = NoRecord
    BY DEF Put, Nothing
  <2>3. /\ Send(c, Put(Nothing, KeyOf[c], NoRecord)) /\ pc[c] = "body"
        /\ pc' = [pc EXCEPT ![c] = "writing"]
    BY <1>6 DEF Remove, Clear
  <2>4. QED
    BY <2>1, <2>2, <2>3 DEF Awaiting
<1>7. CASE CommitZoneChanges(c)
  <2>1. /\ pc[c] = "returned" /\ Send(c, pending) /\ pending \in Changes
        /\ pc' = [pc EXCEPT ![c] = "committing"]
    BY <1>7 DEF CommitZoneChanges, TypeOK
  <2>2. QED
    BY <1>7, <2>1 DEF Awaiting
<1>8. QED
  BY <1>4, <1>5, <1>6, <1>7 DEF Step, Load, EndTask, RevertZoneChanges, Leave, data

\* A step of a call, or the making of one, moves no call that awaits the database.
LEMMA AwaitingStay ==
    ASSUME TypeOK, LockInv, PlacesFit, Discipline, NEW c \in Calls, Wait(c) \/ Enter(c) \/ Step(c),
           NEW d \in Calls, pc[d] \in Awaiting
    PROVE  pc'[d] = pc[d]
<1>1. CASE Wait(c) \/ Enter(c)
  BY <1>1 DEF Wait, Enter, MayBeMade, TypeOK, Awaiting
<1>2. CASE Leave(c)
  <2>1. pc[c] \notin Awaiting
    BY <1>2 DEF Leave, Awaiting
  <2>2. pc'[d] = pc[d] \/ pc[d] = "queued"
    BY <1>2, <2>1, LeavePlaces DEF Leave
  <2>3. QED
    BY <2>2 DEF Awaiting
<1>3. CASE Step(c) /\ ~Leave(c)
  <2>1. pc[c] \notin Awaiting /\ \E p \in Places : pc' = [pc EXCEPT ![c] = p]
    BY <1>3 DEF Step, Store, Load, Archive, Remove, Clear, EndTask, CommitZoneChanges,
                RevertZoneChanges, StoreRecord, Awaiting, Places
  <2>2. QED
    BY <2>1 DEF TypeOK
<1>4. QED
  BY <1>1, <1>2, <1>3

LEMMA EntriesStep ==
    TypeOK /\ LockInv /\ PlacesFit /\ PendingFits /\ EntriesFit /\ Discipline /\ [Next]_vars
    => EntriesFit'
<1> SUFFICES ASSUME TypeOK, LockInv, PlacesFit, PendingFits, EntriesFit, Discipline, [Next]_vars
             PROVE  EntriesFit'
  OBVIOUS
<1>1. ASSUME NEW c \in Calls, Wait(c) \/ Enter(c) \/ Step(c)
      PROVE  EntriesFit'
  <2>1. CASE inflight' = inflight
    BY <1>1, <2>1, AwaitingStay, EntriesKept
  <2>2. CASE inflight' # inflight
    <3>1. Step(c)
      BY <1>1, <2>2 DEF Wait, Enter, data
    <3>2. QED
      BY <2>2, <3>1, Sends, EntriesSend
  <2>3. QED
    BY <2>1, <2>2
<1>2. CASE DbSucceeds \/ DbFails
  <2>1. /\ inflight # <<>> /\ inflight' = Tail(inflight)
        /\ \E p \in Places : pc' = [pc EXCEPT ![Head(inflight).call] = p]
    BY <1>2 DEF DbSucceeds, DbFails, Places
  <2>2. \A d \in Calls \ {Head(inflight).call} : pc'[d] = pc[d]
    BY <2>1 DEF TypeOK
  <2>3. QED
    BY <2>1, <2>2, EntriesTail
<1>3. CASE UNCHANGED vars
  BY <1>3, EntriesKept DEF vars, data
<1>4. QED
  BY <1>1, <1>2, <1>3 DEF Next

-------------------------------------------------------------------------------
(* Where the records come from. *)

\* A record is of a call that has committed, or of the zone whose changes it is in.
StoredBy(r, S) == r # NoRecord => r.by \in S
OfKey(r, k) == r # NoRecord /\ r.by # NoCall => KeyOf[r.by] = k
ChangesBy(f, z) ==
    \A k \in DOMAIN f : StoredBy(f[k], committed \cup InZone(z)) /\ OfKey(f[k], k)

CacheBy == \A k \in Keys : StoredBy(cache[k], committed) /\ OfKey(cache[k], k)
PendingBy == ChangesBy(pending, currentZone)
EntriesBy == \A i \in 1 .. Len(inflight) :
                ChangesBy(inflight[i].writes, ZoneOf[inflight[i].call])
RecordsFit == CacheBy /\ PendingBy /\ EntriesBy

LEMMA InitRecords == Init => RecordsFit /\ NoDirtyRead
<1> SUFFICES ASSUME Init PROVE RecordsFit /\ NoDirtyRead
  OBVIOUS
<1>1. /\ DOMAIN pending = {} /\ Len(inflight) = 0
      /\ \A k \in Keys : cache[k] = Initial
      /\ \A c \in Calls : seen[c] = Initial
      /\ committed = {NoCall} /\ Initial.by = NoCall
  BY NothingFacts DEF Init, Initial
<1>2. 1 .. Len(inflight) = {}
  BY <1>1
<1>3. QED
  BY <1>1, <1>2
  DEF RecordsFit, CacheBy, PendingBy, EntriesBy, ChangesBy, StoredBy, OfKey, NoDirtyRead

\* A record that a body reads.
LEMMA LookupFacts ==
    ASSUME TypeOK, RecordsFit, NEW k \in Keys
    PROVE  /\ Lookup(k) \in Records
           /\ StoredBy(Lookup(k), committed \cup InZone(currentZone))
           /\ OfKey(Lookup(k), k)
<1>1. Lookup(k) \in Records
  BY ChangesFacts DEF Lookup, TypeOK
<1>2. CASE k \in DOMAIN pending
  BY <1>1, <1>2 DEF Lookup, RecordsFit, PendingBy, ChangesBy
<1>3. CASE k \notin DOMAIN pending
  BY <1>1, <1>3 DEF Lookup, RecordsFit, CacheBy, StoredBy
<1>4. QED
  BY <1>2, <1>3

\* The zone does not pass on while there are pending changes.
LEMMA ZoneStays ==
    ASSUME TypeOK, LockInv, PendingFits, NEW c \in Calls, Wait(c) \/ Enter(c) \/ Step(c),
           pending # Nothing
    PROVE  currentZone' = currentZone
<1>1. currentZone # NoZone /\ depth # 0
  BY ZonesAssumption DEF PendingFits, LockInv, DepthCountsUsers
<1>2. CASE Wait(c) \/ Enter(c)
  BY <1>1, <1>2 DEF Wait, Enter
<1>3. CASE Leave(c)
  <2>1. /\ pc[c] \notin {"committed", "reverted"}
        /\ depth \in Nat
    BY DEF PendingFits, AfterEnd, TypeOK
  <2>2. depth > 1 /\ \E outcome \in {"done", "failed"} : LeaveZone(c, outcome)
    BY <1>3, <2>1 DEF Leave
  <2>3. QED
    BY <2>1, <2>2 DEF LeaveZone
<1>4. CASE Step(c) /\ ~Leave(c)
  BY <1>4 DEF Step, Store, Load, Archive, Remove, Clear, EndTask, CommitZoneChanges,
              RevertZoneChanges, lock
<1>5. QED
  BY <1>2, <1>3, <1>4

\* Changes stay those of their zone as more calls commit.
LEMMA ChangesStay ==
    ASSUME committed \subseteq committed', NEW f, NEW z, ChangesBy(f, z)
    PROVE  ChangesBy(f, z)'
BY DEF ChangesBy, StoredBy

LEMMA EntriesByKept ==
    ASSUME EntriesBy, committed \subseteq committed', UNCHANGED inflight
    PROVE  EntriesBy'
BY DEF EntriesBy, ChangesBy, StoredBy

LEMMA EntriesBySend ==
    ASSUME TypeOK, EntriesBy, UNCHANGED committed, NEW c \in Calls, NEW w \in Changes, Send(c, w),
           ChangesBy(w, ZoneOf[c])
    PROVE  EntriesBy'
<1> DEFINE n == Len(inflight) + 1
           e == [call |-> c, writes |-> w]
<1>1. /\ Len(inflight') = n /\ inflight'[n] = e
      /\ \A i \in 1 .. Len(inflight) : inflight'[i] = inflight[i]
      /\ \A i \in 1 .. Len(inflight') : i \in 1 .. Len(inflight) \/ i = n
  BY SendFacts
<1>2. e.call = c /\ e.writes = w
  OBVIOUS
<1> HIDE DEF n, e
<1>3. ASSUME NEW i \in 1 .. Len(inflight')
      PROVE  ChangesBy(inflight[i].writes, ZoneOf[inflight[i].call])'
  <2>1. CASE i = n
    <3>1. inflight'[i] = e
      BY <1>1, <2>1
    <3>2. QED
      BY <1>2, <3>1 DEF ChangesBy
  <2>2. CASE i \in 1 .. Len(inflight)
    <3>1. inflight'[i] = inflight[i]
      BY <1>1, <2>2
    <3>2. QED
      BY <2>2, <3>1 DEF EntriesBy, ChangesBy
  <2>3. QED
    BY <1>1, <2>1, <2>2
<1>4. QED
  BY <1>3 DEF EntriesBy

\* A body stores a record.
LEMMA StoreRecords ==
    ASSUME TypeOK, LockInv, RecordsFit, NEW c \in Calls, pc[c] = "body", NEW r \in Records,
           StoreRecord(c, r), UNCHANGED <<committed, currentZone>>,
           StoredBy(r, committed \cup InZone(ZoneOf[c])), OfKey(r, KeyOf[c])
    PROVE  PendingBy' /\ EntriesBy'
<1> DEFINE w == Put(pending, KeyOf[c], r)
<1>1. ZoneOf[c] = currentZone
  BY DEF LockInv, OneZoneAtATime, Holding, Using
<1>2. w \in Changes
  BY PutIsChanges, CallsAssumption DEF TypeOK
<1>3. ChangesBy(w, ZoneOf[c])
  <2>1. /\ DOMAIN w = DOMAIN pending \cup {KeyOf[c]} /\ w[KeyOf[c]] = r
        /\ \A x \in DOMAIN pending : x # KeyOf[c] => w[x] = pending[x]
    BY DEF Put
  <2> HIDE DEF w
  <2>2. QED
    BY <1>1, <2>1 DEF ChangesBy, RecordsFit, PendingBy
<1> HIDE DEF w
<1>4. CASE ZoneOf[c] \in Transactional
  <2>1. pending' = w /\ inflight' = inflight
    BY <1>4 DEF StoreRecord, w
  <2>2. PendingBy'
    BY <1>1, <1>3, <2>1 DEF PendingBy, ChangesBy
  <2>3. QED
    BY <2>1, <2>2, EntriesByKept DEF RecordsFit
<1>5. CASE ZoneOf[c] \notin Transactional
  <2>1. Send(c, w) /\ pending' = Nothing
    BY <1>5 DEF StoreRecord, w
  <2>2. PendingBy'
    BY <2>1, NothingFacts DEF PendingBy, ChangesBy
  <2>3. QED
    BY <1>2, <1>3, <2>1, <2>2, EntriesBySend DEF RecordsFit
<1>6. QED
  BY <1>4, <1>5

LEMMA RecordsStep ==
    TypeOK /\ LockInv /\ PendingFits /\ RecordsFit /\ [Next]_vars => RecordsFit'
<1> SUFFICES ASSUME TypeOK, LockInv, PendingFits, RecordsFit, [Next]_vars
             PROVE  RecordsFit'
  OBVIOUS
<1> USE CallsAssumption, ZonesAssumption
<1>1. ASSUME NEW c \in Calls, Wait(c) \/ Enter(c) \/ Step(c),
             UNCHANGED <<cache, pending, inflight, committed>>
      PROVE  RecordsFit'
  <2>1. pending = Nothing => DOMAIN pending' = {}
    BY <1>1, NothingFacts
  <2>2. PendingBy'
    BY <1>1, <2>1, ZoneStays DEF RecordsFit, PendingBy, ChangesBy
  <2>3. QED
    BY <1>1, <2>2, EntriesByKept DEF RecordsFit, CacheBy
<1>2. ASSUME NEW c \in Calls, Store(c)
      PROVE  RecordsFit'
  <2> DEFINE r == [by |-> c, current |-> TRUE]
  <2>1. r \in Records /\ r.by = c /\ r.by \in InZone(ZoneOf[c])
    BY DEF Records, InZone
  <2>2. /\ pc[c] = "body" /\ StoreRecord(c, r)
        /\ UNCHANGED <<committed, currentZone, cache>>
    BY <1>2 DEF Store, lock, histories
  <2> HIDE DEF r
  <2>3. PendingBy' /\ EntriesBy'
    BY <2>1, <2>2, StoreRecords DEF StoredBy, OfKey
  <2>4. QED
    BY <2>2, <2>3 DEF RecordsFit, CacheBy
<1>3. ASSUME NEW c \in Calls, Archive(c)
      PROVE  RecordsFit'
  <2> DEFINE k == KeyOf[c]
             r == Lookup(k)
             archived == [r EXCEPT !.current = FALSE]
  <2>1. CASE r # NoRecord /\ r.current
    <3>1. /\ r \in Records /\ StoredBy(r, committed \cup InZone(currentZone)) /\ OfKey(r, k)
          /\ pc[c] = "body" /\ currentZone = ZoneOf[c]
      BY <1>3, LookupFacts DEF Archive, LockInv, OneZoneAtATime, Holding, Using
    <3>2. /\ archived \in Records /\ archived.by = r.by
      BY <2>1, <3>1 DEF Records
    <3>3. /\ StoreRecord(c, archived) /\ UNCHANGED <<committed, currentZone>>
      BY <1>3, <2>1 DEF Archive, lock, histories
    <3>4. PendingBy' /\ EntriesBy'
      <4> HIDE DEF archived, r
      <4>1. StoredBy(archived, committed \cup InZone(ZoneOf[c])) /\ OfKey(archived, k)
        BY <2>1, <3>1, <3>2 DEF StoredBy, OfKey
      <4>2. QED
        BY <3>1, <3>2, <3>3, <4>1, StoreRecords
    <3>5. CacheBy'
      <4>1. CASE k \in DOMAIN pending
        BY <1>3, <2>1, <4>1 DEF Archive, RecordsFit, CacheBy, histories
      <4>2. CASE k \notin DOMAIN pending
        <5>1. cache' = [cache EXCEPT ![k].current = FALSE] /\ cache[k] = r
          BY <1>3, <2>1, <4>2 DEF Archive, Lookup
        <5>2. cache' = [cache EXCEPT ![k] = archived]
          BY <5>1
        <5>3. /\ StoredBy(cache[k], committed) /\ OfKey(cache[k], k)
          BY DEF RecordsFit, CacheBy
        <5> HIDE DEF archived, r
        <5>4. StoredBy(archived, committed) /\ OfKey(archived, k)
          BY <2>1, <3>2, <5>1, <5>3 DEF StoredBy, OfKey
        <5>5. QED
          BY <3>3, <5>2, <5>4 DEF TypeOK, RecordsFit, CacheBy
      <4>3. QED
        BY <4>1, <4>2
    <3>6. QED
      BY <3>4, <3>5 DEF RecordsFit
  <2>2. CASE ~(r # NoRecord /\ r.current)
    BY <1>1, <1>3, <2>2 DEF Archive, Step, data, histories
  <2>3. QED
    BY <2>1, <2>2
<1>4. ASSUME NEW c \in Calls, Remove(c) \/ Clear(c)
      PROVE  RecordsFit'
  <2> DEFINE w == Put(Nothing, KeyOf[c], NoRecord)
  <2>1. w \in Changes /\ DOMAIN w = {KeyOf[c]} /\ w[KeyOf[c]] = NoRecord
    <3>1. w \in Changes
      BY PutIsChanges, NothingIsChanges DEF Records
    <3>2. QED
      BY <3>1 DEF Put, Nothing
  <2>2. /\ Send(c, w) /\ UNCHANGED <<committed, currentZone>>
        /\ \A k \in Keys : cache'[k] \in {cache[k], NoRecord}
        /\ DOMAIN pending' \subseteq DOMAIN pending
        /\ \A k \in DOMAIN pending' : pending'[k] = pending[k]
    BY <1>4 DEF Remove, Clear, lock, histories, TypeOK
  <2> HIDE DEF w
  <2>3. EntriesBy'
    BY <2>1, <2>2, EntriesBySend DEF RecordsFit, ChangesBy, StoredBy, OfKey
  <2>4. PendingBy'
    BY <2>2 DEF RecordsFit, PendingBy, ChangesBy
  <2>5. CacheBy'
    BY <2>2 DEF RecordsFit, CacheBy, StoredBy, OfKey
  <2>6. QED
    BY <2>3, <2>4, <2>5 DEF RecordsFit
<1>5. ASSUME NEW c \in Calls, CommitZoneChanges(c) \/ RevertZoneChanges(c)
      PROVE  RecordsFit'
  <2>1. /\ pending' = Nothing /\ UNCHANGED <<committed, cache>> /\ pc[c] \in Using
        /\ inflight' # inflight => Send(c, pending)
    BY <1>5 DEF CommitZoneChanges, RevertZoneChanges, histories, Using
  <2>2. PendingBy' /\ CacheBy'
    BY <2>1, NothingFacts DEF PendingBy, ChangesBy, RecordsFit, CacheBy
  <2>3. ChangesBy(pending, ZoneOf[c])
    BY <2>1 DEF RecordsFit, PendingBy, LockInv, OneZoneAtATime, Holding
  <2>4. EntriesBy'
    <3>1. pending \in Changes
      BY DEF TypeOK
    <3>2. QED
      BY <2>1, <2>3, <3>1, EntriesBySend, EntriesByKept DEF RecordsFit
  <2>5. QED
    BY <2>2, <2>4 DEF RecordsFit
<1>6. CASE DbSucceeds \/ DbFails
  <2> DEFINE c == Head(inflight).call
             writes == Head(inflight).writes
  <2>1. /\ inflight # <<>> /\ inflight' = Tail(inflight) /\ UNCHANGED currentZone
        /\ committed \subseteq committed'
        /\ DOMAIN pending' \subseteq DOMAIN pending
        /\ \A k \in DOMAIN pending' : pending'[k] = pending[k]
    BY <1>6 DEF DbSucceeds, DbFails, lock
  <2>2. /\ 1 \in 1 .. Len(inflight) /\ Head(inflight) = inflight[1]
        /\ \A i \in 1 .. Len(inflight') :
             inflight'[i] = inflight[i + 1] /\ i + 1 \in 1 .. Len(inflight)
    BY <2>1, TailEntries
  <2>3. EntriesBy'
    <3> SUFFICES ASSUME NEW i \in 1 .. Len(inflight')
                 PROVE  ChangesBy(inflight[i].writes, ZoneOf[inflight[i].call])'
      BY DEF EntriesBy
    <3>1. PICK k : k = i + 1
      OBVIOUS
    <3>2. inflight'[i] = inflight[k] /\ k \in 1 .. Len(inflight)
      BY <2>2, <3>1
    <3>3. ChangesBy(inflight[k].writes, ZoneOf[inflight[k].call])
      BY <3>2 DEF RecordsFit, EntriesBy
    <3>4. QED
      BY <2>1, <3>2, <3>3 DEF ChangesBy, StoredBy
  <2>4. PendingBy'
    BY <2>1 DEF RecordsFit, PendingBy, ChangesBy, StoredBy
  <2>5. CacheBy'
    <3>1. ChangesBy(writes, ZoneOf[c])
      BY <2>2 DEF RecordsFit, EntriesBy
    <3>2. cache' = cache \/ (DbSucceeds /\ cache' = Over(writes, cache))
      <4>1. CASE DbSucceeds
        <5>1. cache' = IF KindOf[c] = "clear" THEN cache ELSE Over(writes, cache)
          BY <4>1 DEF DbSucceeds
        <5>2. QED
          BY <4>1, <5>1
      <4>2. CASE DbFails
        BY <4>2 DEF DbFails
      <4>3. QED
        BY <1>6, <4>1, <4>2
    <3>3. CASE cache' = cache
      BY <2>1, <3>3 DEF RecordsFit, CacheBy, StoredBy
    <3>4. CASE DbSucceeds /\ cache' = Over(writes, cache)
      <4>1. \A k \in DOMAIN writes : writes[k] # NoRecord => writes[k].by \in committed'
        BY <3>4 DEF DbSucceeds
      <4>2. \A k \in Keys : cache'[k] = IF k \in DOMAIN writes THEN writes[k] ELSE cache[k]
        BY <3>4 DEF Over, TypeOK
      <4> HIDE DEF writes
      <4>3. ASSUME NEW k \in Keys
            PROVE  StoredBy(cache'[k], committed') /\ OfKey(cache'[k], k)
        <5>1. CASE k \in DOMAIN writes
          BY <3>1, <4>1, <4>2, <5>1 DEF ChangesBy, StoredBy
        <5>2. CASE k \notin DOMAIN writes
          BY <2>1, <4>2, <5>2 DEF RecordsFit, CacheBy, StoredBy
        <5>3. QED
          BY <5>1, <5>2
      <4>4. QED
        BY <4>3 DEF CacheBy
    <3>5. QED
      BY <3>2, <3>3, <3>4
  <2>6. QED
    BY <2>3, <2>4, <2>5 DEF RecordsFit
<1>7. CASE UNCHANGED vars
  BY <1>7 DEF vars, lock, data, histories, RecordsFit, CacheBy, PendingBy, EntriesBy, ChangesBy
<1>8. ASSUME NEW c \in Calls, Wait(c) \/ Enter(c) \/ Load(c) \/ EndTask(c) \/ Leave(c)
      PROVE  RecordsFit'
  BY <1>1, <1>8 DEF Wait, Enter, Load, EndTask, Leave, Step, data, histories
<1>9. QED
  BY <1>2, <1>3, <1>4, <1>5, <1>6, <1>7, <1>8 DEF Next, Step

\* What a load returns was stored in its zone, or has been committed.
LEMMA ReadStep ==
    TypeOK /\ LockInv /\ RecordsFit /\ NoDirtyRead /\ [Next]_vars => NoDirtyRead'
<1> SUFFICES ASSUME TypeOK, LockInv, RecordsFit, NoDirtyRead, [Next]_vars
             PROVE  NoDirtyRead'
  OBVIOUS
<1>1. ASSUME NEW c \in Calls, Load(c)
      PROVE  NoDirtyRead'
  <2> DEFINE r == Lookup(KeyOf[c])
  <2>1. /\ ZoneOf[c] = currentZone /\ KeyOf[c] \in Keys /\ committed' = committed
        /\ seen' = [seen EXCEPT ![c] = r] /\ seen \in [Calls -> Records]
    BY <1>1, CallsAssumption DEF Load, LockInv, OneZoneAtATime, Holding, Using, TypeOK
  <2>2. r # NoRecord => r.by \in committed \cup InZone(ZoneOf[c])
    BY <2>1, LookupFacts DEF StoredBy
  <2> HIDE DEF r
  <2>3. QED
    BY <2>1, <2>2 DEF NoDirtyRead
<1>2. ASSUME UNCHANGED seen, committed \subseteq committed'
      PROVE  NoDirtyRead'
  BY <1>2 DEF NoDirtyRead
<1>3. ASSUME NEW c \in Calls, Wait(c) \/ Enter(c) \/ Step(c), ~Load(c)
      PROVE  UNCHANGED <<seen, committed>>
  BY <1>3 DEF Wait, Enter, Step, Store, Archive, Remove, Clear, EndTask, CommitZoneChanges,
              RevertZoneChanges, Leave, histories
<1>4. CASE DbSucceeds \/ DbFails \/ UNCHANGED vars
  <2>1. UNCHANGED seen /\ committed \subseteq committed'
    BY <1>4 DEF DbSucceeds, DbFails, vars, histories
  <2>2. QED
    BY <1>2, <2>1
<1>5. QED
  BY <1>1, <1>2, <1>3, <1>4 DEF Next

-------------------------------------------------------------------------------
(* All or nothing. *)

\* The stores of a zone that are over or about to be: each key is among the changes, with a
\* record of the zone, or was committed for one of its calls.
Stored(d) ==
    /\ KindOf[d] \in {"store", "senderKey"}
    /\ pc[d] \in {"returned", "committing", "committed", "done"}
Covers(f, z) ==
    \A d \in InZone(z) : Stored(d) =>
        KeyOf[d] \in DOMAIN f /\ f[KeyOf[d]] # NoRecord /\ f[KeyOf[d]].by \in InZone(z)
Recorded(z) ==
    \A d \in InZone(z) : Stored(d) => \E e \in InZone(z) \cap committed : KeyOf[e] = KeyOf[d]

PendingCovers ==
    \A r \in Calls : Outermost(r) /\ pc[r] \in {"body", "returned"} => Covers(pending, ZoneOf[r])
EntriesCover ==
    \A i \in 1 .. Len(inflight) : LET r == inflight[i].call IN
        Outermost(r) => Covers(inflight[i].writes, ZoneOf[r])
AllRecorded ==
    \A r \in Calls : Outermost(r) /\ pc[r] \in {"committed", "done"} => Recorded(ZoneOf[r])
NoneRecorded ==
    \A r \in Calls : Outermost(r) /\ pc[r] \notin {"committed", "done"} =>
        InZone(ZoneOf[r]) \cap committed = {}
TransactionsFit == PendingCovers /\ EntriesCover /\ AllRecorded /\ NoneRecorded

LEMMA InitTransactions == Init => TransactionsFit
<1> SUFFICES ASSUME Init PROVE TransactionsFit
  OBVIOUS
<1>1. /\ \A c \in Calls : pc[c] = "idle"
      /\ Len(inflight) = 0 /\ committed = {NoCall}
  BY DEF Init
<1>2. 1 .. Len(inflight) = {}
  BY <1>1
<1>3. \A z : InZone(z) \cap committed = {}
  BY <1>1, ZonesAssumption DEF InZone
<1>4. QED
  BY <1>1, <1>2, <1>3
  DEF TransactionsFit, PendingCovers, EntriesCover, AllRecorded, NoneRecorded

\* No call of a transaction is under way before its outermost call.
LEMMA OutermostFirst ==
    ASSUME TypeOK, PlacesFit, Discipline, NEW r \in Calls, Outermost(r), pc[r] \in {"idle", "queued"},
           NEW d \in Calls, ZoneOf[d] = ZoneOf[r], d # r
    PROVE  pc[d] = "idle"
<1> USE CallsAssumption, ZonesAssumption
<1> DEFINE S == {e \in Calls : pc[e] # "idle" /\ ZoneOf[e] = ZoneOf[r] /\ e # r}
<1>1. SUFFICES ASSUME d \in S PROVE FALSE
  OBVIOUS
<1>2. S \in SUBSET {e \in Calls : pc[e] # "idle"}
  OBVIOUS
<1> HIDE DEF S
<1>3. PICK e \in S : ParentOf[e] \notin S
  BY <1>1, <1>2 DEF PlacesFit, Nested
<1>4. e \in Calls /\ pc[e] # "idle" /\ ZoneOf[e] = ZoneOf[r] /\ e # r
  BY <1>3 DEF S
<1>5. ParentOf[e] # NoCall
  BY <1>4 DEF Discipline, OneOutermostCall, Outermost
<1>6. ParentOf[e] \in Calls /\ ZoneOf[ParentOf[e]] = ZoneOf[r] /\ pc[ParentOf[e]] \notin {"idle", "queued"}
  BY <1>4, <1>5, DisciplineAssumption DEF PlacesFit, Nested
<1>7. ParentOf[e] = r
  BY <1>3, <1>6 DEF S
<1>8. QED
  BY <1>6, <1>7

\* Only a call that holds the zone gets anywhere but to its body.
LEMMA Moves ==
    ASSUME TypeOK, LockInv, PlacesFit, Discipline, [Next]_vars, NEW d \in Calls, pc'[d] # pc[d]
    PROVE  \/ pc[d] \in {"idle", "queued"} /\ pc'[d] \in {"body", "queued"}
           \/ pc[d] = "body" /\ pc'[d] \in {"writing", "returned", "threw"}
           \/ pc[d] = "writing" /\ pc'[d] \in {"returned", "threw"}
           \/ pc[d] = "returned" /\ pc'[d] \in {"committing", "committed"} /\ depth = 1
           \/ pc[d] = "threw" /\ pc'[d] = "reverted" /\ depth = 1
           \/ pc[d] = "returned" /\ pc'[d] = "done" /\ depth > 1
           \/ pc[d] = "threw" /\ pc'[d] = "failed" /\ depth > 1
           \/ pc[d] = "committing" /\ pc'[d] \in {"committed", "abandoned"}
           \/ pc[d] = "committed" /\ pc'[d] = "done"
           \/ pc[d] = "reverted" /\ pc'[d] = "failed"
<1>1. ASSUME NEW c \in Calls, Wait(c) \/ Enter(c)
      PROVE  pc[d] = "idle" /\ pc'[d] \in {"body", "queued"}
  BY <1>1 DEF Wait, Enter, MayBeMade, TypeOK
<1>2. ASSUME NEW c \in Calls, Store(c) \/ Load(c) \/ Archive(c) \/ Remove(c) \/ Clear(c) \/ EndTask(c)
      PROVE  pc[d] = "body" /\ pc'[d] \in {"writing", "returned", "threw"}
  <2>1. pc[c] = "body" /\ \E p \in {"writing", "returned", "threw"} : pc' = [pc EXCEPT ![c] = p]
    BY <1>2 DEF Store, Load, Archive, Remove, Clear, EndTask, StoreRecord
  <2>2. QED
    BY <2>1 DEF TypeOK
<1>3. ASSUME NEW c \in Calls, CommitZoneChanges(c) \/ RevertZoneChanges(c)
      PROVE  \/ pc[d] = "returned" /\ pc'[d] \in {"committing", "committed"} /\ depth = 1
             \/ pc[d] = "threw" /\ pc'[d] = "reverted" /\ depth = 1
  <2>1. /\ depth = 1
        /\ \/ pc[c] = "threw" /\ pc' = [pc EXCEPT ![c] = "reverted"]
           \/ pc[c] = "returned" /\ \E p \in {"committing", "committed"} : pc' = [pc EXCEPT ![c] = p]
    BY <1>3 DEF CommitZoneChanges, RevertZoneChanges
  <2>2. QED
    BY <2>1 DEF TypeOK
<1>4. ASSUME NEW c \in Calls, Leave(c)
      PROVE  \/ pc[d] = "queued" /\ pc'[d] = "body"
             \/ pc[d] = "returned" /\ pc'[d] = "done" /\ depth > 1
             \/ pc[d] = "threw" /\ pc'[d] = "failed" /\ depth > 1
             \/ pc[d] = "committed" /\ pc'[d] = "done"
             \/ pc[d] = "reverted" /\ pc'[d] = "failed"
  <2>1. \/ pc[c] = "committed" /\ LeaveZone(c, "done")
        \/ pc[c] = "returned" /\ depth > 1 /\ LeaveZone(c, "done")
        \/ pc[c] = "reverted" /\ LeaveZone(c, "failed")
        \/ pc[c] = "threw" /\ depth > 1 /\ LeaveZone(c, "failed")
    BY <1>4 DEF Leave
  <2>2. PICK outcome \in {"done", "failed"} :
            /\ LeaveZone(c, outcome)
            /\ pc[c] \in {"returned", "committed"} => outcome = "done"
            /\ pc[c] \in {"threw", "reverted"} => outcome = "failed"
    BY <2>1
  <2>3. d = c => pc'[d] = outcome
    BY <2>1, <2>2, LeavePlaces
  <2>4. d # c => pc[d] = "queued" /\ pc'[d] = "body"
    BY <2>1, <2>2, LeavePlaces
  <2>5. QED
    BY <2>1, <2>2, <2>3, <2>4
<1>5. CASE DbSucceeds \/ DbFails
  <2> DEFINE c == Head(inflight).call
  <2>1. \/ pc[c] = "writing" /\ \E p \in {"returned", "threw"} : pc' = [pc EXCEPT ![c] = p]
        \/ pc[c] = "committing" /\ \E p \in {"committed", "abandoned"} : pc' = [pc EXCEPT ![c] = p]
    BY <1>5 DEF DbSucceeds, DbFails
  <2>2. QED
    BY <2>1 DEF TypeOK
<1>6. CASE UNCHANGED vars
  BY <1>6 DEF vars
<1>7. QED
  BY <1>1, <1>2, <1>3, <1>4, <1>5, <1>6 DEF Next, Step

\* Once the outermost call of a transaction is settled, no store of it follows.
LEMMA NoLateStores ==
    ASSUME TypeOK, LockInv, PlacesFit, Discipline, [Next]_vars, NEW r \in Calls, Outermost(r),
           pc[r] \in AfterBody \cup {"done", "failed"}, NEW d \in InZone(ZoneOf[r]), Stored(d)'
    PROVE  Stored(d)
<1>1. d \in Calls /\ ZoneOf[d] = ZoneOf[r]
  BY DEF InZone
<1>2. CASE d = r
  BY <1>1, <1>2, Moves DEF Stored, AfterBody
<1>3. CASE d # r
  <2>1. d \notin Holding
    BY <1>1, <1>3 DEF PlacesFit, EndsAlone
  <2>2. pc[d] \notin Using \cup {"abandoned"}
    BY <1>1, <2>1 DEF Holding
  <2>3. QED
    BY <1>1, <2>2, Moves DEF Stored, Using
<1>4. QED
  BY <1>2, <1>3

\* The outermost call of a transaction that leaves is the last.
LEMMA OutermostIsLast ==
    ASSUME TypeOK, LockInv, PlacesFit, NEW r \in Calls, Outermost(r), pc[r] \in AfterBody
    PROVE  depth = 1
<1>1. Holding = {r}
  BY AloneFacts
<1>2. Cardinality(Holding) = 1
  BY <1>1, FS_Singleton
<1>3. QED
  BY <1>2 DEF LockInv, DepthCountsUsers

\* What the database is about to answer in a transaction is the commit of its outermost call.
LEMMA AwaitsInTransaction ==
    ASSUME TypeOK, PlacesFit, Discipline, NEW c \in Calls, pc[c] \in Awaiting,
           NEW r \in Calls, Outermost(r), ZoneOf[c] = ZoneOf[r]
    PROVE  c = r /\ pc[r] = "committing"
<1>1. pc[c] = "committing"
  BY DEF PlacesFit, WritesDirectly, Outermost, Awaiting
<1>2. ParentOf[c] = NoCall
  BY <1>1 DEF PlacesFit, Nested
<1>3. QED
  BY <1>1, <1>2 DEF Discipline, OneOutermostCall, Outermost

\* The answered entry and what it adds to what is committed.
LEMMA AnswerFacts ==
    ASSUME TypeOK, LockInv, PlacesFit, PendingFits, EntriesFit, RecordsFit, Discipline, DbSucceeds
    PROVE  LET c == Head(inflight).call
               writes == Head(inflight).writes
           IN  /\ c \in Calls /\ pc[c] \in Awaiting
               /\ committed' \subseteq committed \cup InZone(ZoneOf[c])
               /\ \A k \in DOMAIN writes : writes[k] # NoRecord =>
                    writes[k].by \in committed' /\ OfKey(writes[k], k)
<1> DEFINE c == Head(inflight).call
           writes == Head(inflight).writes
<1>1. /\ 1 \in 1 .. Len(inflight) /\ Head(inflight) = inflight[1] /\ c \in Calls
  BY TailEntries DEF DbSucceeds
<1>2. pc[c] \in Awaiting /\ ChangesBy(writes, ZoneOf[c])
  BY <1>1 DEF EntriesFit, EntryFits, RecordsFit, EntriesBy
<1>3. committed' = committed \cup {writes[k].by : k \in {x \in DOMAIN writes : writes[x] # NoRecord}}
  BY DEF DbSucceeds
<1> HIDE DEF c, writes
<1>4. /\ committed' \subseteq committed \cup InZone(ZoneOf[c])
      /\ \A k \in DOMAIN writes : writes[k] # NoRecord => writes[k].by \in committed' /\ OfKey(writes[k], k)
  BY <1>2, <1>3 DEF ChangesBy, StoredBy
<1>5. QED
  BY <1>1, <1>2, <1>4 DEF c, writes

LEMMA CommittedGrows ==
    ASSUME [Next]_vars
    PROVE  committed \subseteq committed' /\ (DbSucceeds \/ committed' = committed)
<1>1. ASSUME NEW c \in Calls, Wait(c) \/ Enter(c) \/ Step(c)
      PROVE  committed' = committed
  BY <1>1 DEF Wait, Enter, Step, Store, Load, Archive, Remove, Clear, EndTask, CommitZoneChanges,
              RevertZoneChanges, Leave, histories
<1>2. QED
  BY <1>1 DEF Next, DbSucceeds, DbFails, vars, histories

LEMMA NoneRecordedStep ==
    TypeOK /\ LockInv /\ PlacesFit /\ PendingFits /\ EntriesFit /\ RecordsFit /\ Discipline
    /\ NoneRecorded /\ [Next]_vars => NoneRecorded'
<1> SUFFICES ASSUME TypeOK, LockInv, PlacesFit, PendingFits, EntriesFit, RecordsFit, Discipline,
                    NoneRecorded, [Next]_vars,
                    NEW r \in Calls, Outermost(r), pc'[r] \notin {"committed", "done"}
             PROVE  InZone(ZoneOf[r]) \cap committed' = {}
  BY DEF NoneRecorded, Outermost
<1>1. pc[r] \notin {"committed", "done"}
  BY Moves
<1>2. InZone(ZoneOf[r]) \cap committed = {}
  BY <1>1 DEF NoneRecorded
<1>3. CASE DbSucceeds
  <2> DEFINE c == Head(inflight).call
  <2>1. c \in Calls /\ pc[c] \in Awaiting /\ committed' \subseteq committed \cup InZone(ZoneOf[c])
    BY <1>3, AnswerFacts
  <2>2. ZoneOf[c] # ZoneOf[r]
    <3>1. SUFFICES ASSUME ZoneOf[c] = ZoneOf[r] PROVE FALSE
      OBVIOUS
    <3>2. c = r /\ pc[r] = "committing"
      BY <2>1, <3>1, AwaitsInTransaction
    <3>3. pc' = [pc EXCEPT ![c] = IF pc[c] = "writing" THEN "returned" ELSE "committed"]
      BY <1>3 DEF DbSucceeds
    <3>4. QED
      BY <3>2, <3>3 DEF TypeOK
  <2>3. InZone(ZoneOf[c]) \cap InZone(ZoneOf[r]) = {}
    BY <2>2 DEF InZone
  <2>4. QED
    BY <1>2, <2>1, <2>3
<1>4. QED
  BY <1>2, <1>3, CommittedGrows

LEMMA AllRecordedStep ==
    TypeOK /\ LockInv /\ PlacesFit /\ PendingFits /\ EntriesFit /\ RecordsFit /\ Discipline
    /\ PendingCovers /\ EntriesCover /\ AllRecorded /\ [Next]_vars => AllRecorded'
<1> SUFFICES ASSUME TypeOK, LockInv, PlacesFit, PendingFits, EntriesFit, RecordsFit, Discipline,
                    PendingCovers, EntriesCover, AllRecorded, [Next]_vars,
                    NEW r \in Calls, Outermost(r), pc'[r] \in {"committed", "done"},
                    NEW d \in InZone(ZoneOf[r]), Stored(d)'
             PROVE  \E e \in InZone(ZoneOf[r]) \cap committed' : KeyOf[e] = KeyOf[d]
  BY DEF AllRecorded, Outermost, Recorded
<1>1. committed \subseteq committed'
  BY CommittedGrows
<1>2. CASE pc[r] \in {"committed", "done"}
  BY <1>1, <1>2, NoLateStores DEF AllRecorded, Recorded, AfterBody
<1>3. CASE pc[r] \notin {"committed", "done"}
  <2>1. \/ pc[r] = "returned" /\ pc'[r] = "committed"
        \/ pc[r] = "committing" /\ pc'[r] = "committed"
    <3>1. pc[r] = "returned" => ~(depth > 1)
      BY OutermostIsLast DEF AfterBody
    <3>2. QED
      BY <1>3, <3>1, Moves
  <2>2. Stored(d)
    BY <2>1, NoLateStores DEF AfterBody
  <2>3. CASE pc[r] = "returned"
    <3>1. pending = Nothing
      <4>1. PICK c \in Calls : Wait(c) \/ Enter(c) \/ Step(c)
        BY <2>1, <2>3 DEF Next, DbSucceeds, DbFails, vars, TypeOK
      <4>2. CommitZoneChanges(c) /\ c = r
        <5>1. CASE Leave(c)
          BY <2>1, <2>3, <5>1, LeavePlaces DEF Leave
        <5>2. CASE ~Leave(c)
          BY <2>1, <2>3, <4>1, <5>2 DEF Wait, Enter, Step, Store, Load, Archive, Remove, Clear,
             EndTask, CommitZoneChanges, RevertZoneChanges, StoreRecord, TypeOK
        <5>3. QED
          BY <5>1, <5>2
      <4>3. QED
        BY <2>1, <4>2 DEF CommitZoneChanges, TypeOK
    <3>2. Covers(pending, ZoneOf[r])
      BY <2>3 DEF PendingCovers
    <3>3. QED
      BY <2>2, <3>1, <3>2, NothingFacts DEF Covers
  <2>4. CASE pc[r] = "committing"
    <3> DEFINE c == Head(inflight).call
               writes == Head(inflight).writes
    <3>1. DbSucceeds /\ c = r
      <4>1. ASSUME NEW x \in Calls, Wait(x) \/ Enter(x) \/ Step(x)
            PROVE  FALSE
        BY <2>1, <2>4, <4>1, AwaitingStay DEF Awaiting
      <4>2. QED
        BY <2>1, <2>4, <4>1 DEF Next, DbSucceeds, DbFails, vars, TypeOK
    <3>2. \A k \in DOMAIN writes : writes[k] # NoRecord =>
            writes[k].by \in committed' /\ OfKey(writes[k], k)
      BY <3>1, AnswerFacts
    <3>3. Covers(writes, ZoneOf[r])
      <4>1. 1 \in 1 .. Len(inflight) /\ Head(inflight) = inflight[1]
        BY <3>1, TailEntries DEF DbSucceeds
      <4>2. QED
        BY <3>1, <4>1 DEF EntriesCover
    <3> HIDE DEF writes
    <3>4. /\ writes[KeyOf[d]].by \in InZone(ZoneOf[r]) \cap committed'
          /\ writes[KeyOf[d]] # NoRecord /\ OfKey(writes[KeyOf[d]], KeyOf[d])
      BY <2>2, <3>2, <3>3 DEF Covers
    <3>5. KeyOf[writes[KeyOf[d]].by] = KeyOf[d]
      BY <3>4, ZonesAssumption DEF OfKey, InZone
    <3>6. QED
      BY <3>4, <3>5
  <2>5. QED
    BY <2>1, <2>3, <2>4
<1>4. QED
  BY <1>2, <1>3

LEMMA EntriesCoverStep ==
    TypeOK /\ LockInv /\ PlacesFit /\ PendingFits /\ EntriesFit /\ Discipline
    /\ PendingCovers /\ EntriesCover /\ [Next]_vars => EntriesCover'
<1> SUFFICES ASSUME TypeOK, LockInv, PlacesFit, PendingFits, EntriesFit, Discipline,
                    PendingCovers, EntriesCover, [Next]_vars
             PROVE  EntriesCover'
  OBVIOUS
\* An entry of a transaction stays as good as it was.
<1>1. ASSUME NEW i \in 1 .. Len(inflight), NEW r \in Calls, r = inflight[i].call, Outermost(r)
      PROVE  Covers(inflight[i].writes, ZoneOf[r]) /\ \A d \in InZone(ZoneOf[r]) : Stored(d)' => Stored(d)
  <2>1. pc[r] = "committing"
    BY <1>1 DEF EntriesFit, EntryFits, PlacesFit, WritesDirectly, Outermost, Awaiting
  <2>2. QED
    BY <1>1, <2>1, NoLateStores DEF EntriesCover, AfterBody
<1>2. ASSUME UNCHANGED inflight
      PROVE  EntriesCover'
  BY <1>1, <1>2, EntryTypes DEF EntriesCover, Outermost, Covers
<1>3. ASSUME NEW c \in Calls, Step(c), inflight' # inflight
      PROVE  EntriesCover'
  <2>1. PICK w \in Changes, p \in Awaiting :
            /\ Send(c, w) /\ pc' = [pc EXCEPT ![c] = p]
            /\ p = "committing" => w = pending /\ CommitZoneChanges(c)
    BY <1>3, Sends
  <2> DEFINE n == Len(inflight) + 1
             e == [call |-> c, writes |-> w]
  <2>2. /\ Len(inflight') = n /\ inflight'[n] = e
        /\ \A i \in 1 .. Len(inflight) : inflight'[i] = inflight[i]
        /\ \A i \in 1 .. Len(inflight') : i \in 1 .. Len(inflight) \/ i = n
    BY <2>1, SendFacts
  <2>3. e.call = c /\ e.writes = w
    OBVIOUS
  <2> HIDE DEF n, e
  <2>4. SUFFICES ASSUME NEW i \in 1 .. Len(inflight'), Outermost(inflight'[i].call),
                        NEW d \in InZone(ZoneOf[inflight'[i].call]), Stored(d)'
                 PROVE  LET f == inflight'[i].writes
                            z == ZoneOf[inflight'[i].call]
                        IN KeyOf[d] \in DOMAIN f /\ f[KeyOf[d]] # NoRecord /\ f[KeyOf[d]].by \in InZone(z)
    BY DEF EntriesCover, Covers, Outermost
  <2>5. CASE i \in 1 .. Len(inflight)
    <3>1. inflight'[i] = inflight[i] /\ inflight[i].call \in Calls
      BY <2>2, <2>5, EntryTypes
    <3>2. QED
      BY <1>1, <2>4, <2>5, <3>1 DEF Covers
  <2>6. CASE i = n
    <3>1. inflight'[i] = e /\ Outermost(c)
      BY <2>2, <2>3, <2>4, <2>6
    <3>2. p = "committing"
      <4>1. WritesDirectly' /\ pc'[c] = p
        BY <1>3, <2>1, PlacesStep DEF PlacesFit, Next, TypeOK
      <4>2. QED
        BY <3>1, <4>1 DEF WritesDirectly, Outermost, Awaiting
    <3>3. w = pending /\ pc[c] = "returned"
      BY <2>1, <3>2 DEF CommitZoneChanges
    <3>4. Covers(w, ZoneOf[c]) /\ Stored(d)
      BY <2>3, <2>4, <3>1, <3>3, NoLateStores DEF PendingCovers, AfterBody
    <3>5. QED
      BY <2>3, <2>4, <3>1, <3>4 DEF Covers
  <2>7. QED
    BY <2>2, <2>5, <2>6
<1>4. CASE DbSucceeds \/ DbFails
  <2>1. /\ inflight # <<>> /\ inflight' = Tail(inflight)
        /\ \A i \in 1 .. Len(inflight') :
             inflight'[i] = inflight[i + 1] /\ i + 1 \in 1 .. Len(inflight)
    BY <1>4, TailEntries DEF DbSucceeds, DbFails
  <2>2. SUFFICES ASSUME NEW i \in 1 .. Len(inflight'), Outermost(inflight'[i].call)
                 PROVE  Covers(inflight[i].writes, ZoneOf[inflight[i].call])'
    BY DEF EntriesCover, Outermost
  <2>3. PICK k : k = i + 1
    OBVIOUS
  <2>4. inflight'[i] = inflight[k] /\ k \in 1 .. Len(inflight) /\ inflight[k].call \in Calls
    BY <2>1, <2>3, EntryTypes
  <2>5. QED
    BY <1>1, <2>2, <2>4 DEF Covers
<1>5. QED
  BY <1>2, <1>3, <1>4 DEF Next, Wait, Enter, vars, data

LEMMA PendingCoversStep ==
    TypeOK /\ LockInv /\ PlacesFit /\ PendingFits /\ EntriesFit /\ Discipline
    /\ PendingCovers /\ [Next]_vars => PendingCovers'
<1> SUFFICES ASSUME TypeOK, LockInv, PlacesFit, PendingFits, EntriesFit, Discipline,
                    PendingCovers, [Next]_vars,
                    NEW r \in Calls, Outermost(r), pc'[r] \in {"body", "returned"}
             PROVE  Covers(pending, ZoneOf[r])'
  BY DEF PendingCovers, Outermost
<1> USE CallsAssumption, ZonesAssumption
<1>1. CASE pc[r] \in {"idle", "queued"}
  <2>1. \A d \in InZone(ZoneOf[r]) : d # r => pc[d] = "idle"
    BY <1>1, OutermostFirst DEF InZone
  <2>2. \A d \in InZone(ZoneOf[r]) : d \in Calls /\ pc[d] \in {"idle", "queued"}
    BY <1>1, <2>1 DEF InZone
  <2>3. \A d \in InZone(ZoneOf[r]) : ~Stored(d)'
    BY <2>2, Moves DEF Stored
  <2>4. QED
    BY <2>3 DEF Covers
<1>2. CASE pc[r] \notin {"idle", "queued"}
  <2>1. pc[r] \in {"body", "returned"} /\ r \in Holding
    BY <1>2, Moves DEF PlacesFit, WritesDirectly, Outermost, Holding, Using
  <2>2. Covers(pending, ZoneOf[r])
    BY <2>1 DEF PendingCovers
  <2>3. \A c \in Calls : pc[c] \in Using => c \in Holding /\ ZoneOf[c] = ZoneOf[r] /\ ZoneOf[c] = currentZone
    BY <2>1 DEF Holding, LockInv, OneZoneAtATime
  <2>4. ASSUME UNCHANGED pending, \A d \in InZone(ZoneOf[r]) : Stored(d)' => Stored(d)
        PROVE  Covers(pending, ZoneOf[r])'
    BY <2>2, <2>4 DEF Covers
  <2>5. ASSUME NEW c \in Calls, Wait(c) \/ Enter(c) \/ Load(c) \/ EndTask(c) \/ Leave(c)
        PROVE  Covers(pending, ZoneOf[r])'
    <3>1. UNCHANGED pending
      BY <2>5 DEF Wait, Enter, Load, EndTask, Leave, data
    <3>2. ASSUME NEW d \in Calls, Stored(d)', ~Stored(d)
          PROVE  FALSE
      <4>1. pc[d] = "body" \/ pc[d] = "writing"
        BY <3>2, Moves DEF Stored
      <4>2. CASE Load(c) \/ EndTask(c)
        BY <3>2, <4>1, <4>2 DEF Load, EndTask, Stored, TypeOK
      <4>3. CASE Wait(c) \/ Enter(c)
        BY <3>2, <4>1, <4>3 DEF Wait, Enter, MayBeMade, Stored, TypeOK
      <4>4. CASE Leave(c)
        <5>1. pc[c] \notin {"body", "writing"} /\ d # c
          BY <4>1, <4>4 DEF Leave
        <5>2. pc'[d] = pc[d]
          BY <4>1, <4>4, <5>1, LeavePlaces DEF Leave
        <5>3. QED
          BY <3>2, <5>2 DEF Stored
      <4>5. QED
        BY <2>5, <4>2, <4>3, <4>4
    <3>3. QED
      BY <2>4, <3>1, <3>2 DEF InZone
  <2>6. ASSUME NEW c \in Calls, pc[c] = "body", ZoneOf[c] \in Transactional,
               NEW x \in Records, StoreRecord(c, x), x # NoRecord,
               \/ x.by \in InZone(ZoneOf[r])
               \/ /\ KindOf[c] = "archive"
                  /\ KeyOf[c] \in DOMAIN pending => x.by = pending[KeyOf[c]].by
        PROVE  Covers(pending, ZoneOf[r])'
    <3>1. pending' = Put(pending, KeyOf[c], x) /\ pc' = [pc EXCEPT ![c] = "returned"]
      BY <2>6 DEF StoreRecord
    <3>2. /\ DOMAIN pending' = DOMAIN pending \cup {KeyOf[c]} /\ pending'[KeyOf[c]] = x
          /\ \A k \in DOMAIN pending : k # KeyOf[c] => pending'[k] = pending[k]
      BY <3>1 DEF Put
    <3>3. ASSUME NEW d \in InZone(ZoneOf[r]), Stored(d)'
          PROVE  /\ KeyOf[d] \in DOMAIN pending' /\ pending'[KeyOf[d]] # NoRecord
                 /\ pending'[KeyOf[d]].by \in InZone(ZoneOf[r])
      <4>1. Stored(d) \/ d = c
        BY <3>1, <3>3 DEF Stored, TypeOK, InZone
      <4>2. CASE x.by \in InZone(ZoneOf[r])
        BY <2>2, <2>6, <3>2, <4>1, <4>2 DEF Covers
      <4>3. CASE KindOf[c] = "archive" /\ (KeyOf[c] \in DOMAIN pending => x.by = pending[KeyOf[c]].by)
        <5>1. Stored(d)
          BY <3>3, <4>1, <4>3 DEF Stored
        <5>2. QED
          BY <2>2, <2>6, <3>2, <4>3, <5>1 DEF Covers
      <4>4. QED
        BY <2>6, <4>2, <4>3
    <3>4. QED
      BY <3>3 DEF Covers
  <2>7. ASSUME NEW c \in Calls, Store(c)
        PROVE  Covers(pending, ZoneOf[r])'
    <3> DEFINE x == [by |-> c, current |-> TRUE]
    <3>1. /\ pc[c] = "body" /\ StoreRecord(c, x) /\ ZoneOf[c] = ZoneOf[r]
      BY <2>3, <2>7 DEF Store, Using
    <3>2. x \in [by : Calls \cup {NoCall}, current : BOOLEAN] /\ x.by \in InZone(ZoneOf[r])
      BY <3>1 DEF InZone
    <3> HIDE DEF x
    <3>3. x \in Records /\ x # NoRecord
      BY <3>2 DEF Records
    <3>4. ZoneOf[c] \in Transactional
      BY <3>1 DEF Outermost
    <3>5. QED
      BY <2>6, <3>1, <3>2, <3>3, <3>4
  <2>8. ASSUME NEW c \in Calls, Archive(c)
        PROVE  Covers(pending, ZoneOf[r])'
    <3> DEFINE k == KeyOf[c]
               y == Lookup(k)
               x == [y EXCEPT !.current = FALSE]
    <3>1. pc[c] = "body" /\ ZoneOf[c] \in Transactional /\ KindOf[c] = "archive"
      BY <2>3, <2>8 DEF Archive, Using, Outermost
    <3>2. CASE y # NoRecord /\ y.current
      <4>1. y \in Records
        BY ChangesFacts DEF Lookup, TypeOK
      <4>2. x \in [by : Calls \cup {NoCall}, current : BOOLEAN] /\ x.by = y.by
        BY <3>2, <4>1 DEF Records
      <4>3. StoreRecord(c, x)
        BY <2>8, <3>2 DEF Archive
      <4>4. k \in DOMAIN pending => y = pending[k]
        BY DEF Lookup
      <4> HIDE DEF x, y
      <4>5. x \in Records /\ x # NoRecord
        BY <4>2 DEF Records
      <4>6. QED
        BY <2>6, <3>1, <4>2, <4>3, <4>4, <4>5
    <3>3. CASE ~(y # NoRecord /\ y.current)
      <4>1. UNCHANGED pending /\ pc' = [pc EXCEPT ![c] = "returned"]
        BY <2>8, <3>3 DEF Archive, data
      <4>2. \A d \in InZone(ZoneOf[r]) : Stored(d)' => Stored(d)
        BY <3>1, <4>1 DEF Stored, TypeOK, InZone
      <4>3. QED
        BY <2>4, <4>1, <4>2
    <3>4. QED
      BY <3>2, <3>3
  <2>9. ASSUME NEW c \in Calls, Remove(c) \/ Clear(c)
        PROVE  FALSE
    BY <2>3, <2>9, DisciplineAssumption DEF Remove, Clear, Using, Outermost
  <2>10. ASSUME NEW c \in Calls, CommitZoneChanges(c) \/ RevertZoneChanges(c)
         PROVE  FALSE
    <3>1. pc[c] \in {"returned", "threw"} /\ depth = 1 /\ pc'[c] \notin {"body", "returned"}
      BY <2>10 DEF CommitZoneChanges, RevertZoneChanges, TypeOK
    <3>2. c = r
      BY <2>1, <3>1, LastIsOutermost
    <3>3. QED
      BY <3>1, <3>2
  <2>11. CASE DbSucceeds \/ DbFails
    <3> DEFINE c == Head(inflight).call
    <3>1. c \in Calls /\ pc[c] \in Awaiting
      BY <2>11, TailEntries DEF DbSucceeds, DbFails, Awaiting
    <3>2. ZoneOf[c] = ZoneOf[r]
      BY <2>3, <3>1 DEF Awaiting, Using
    <3>3. QED
      BY <2>1, <3>1, <3>2, AwaitsInTransaction
  <2>12. CASE UNCHANGED vars
    BY <2>4, <2>12 DEF vars, data, Stored
  <2>13. QED
    BY <2>5, <2>7, <2>8, <2>9, <2>10, <2>11, <2>12 DEF Next, Step
<1>3. QED
  BY <1>1, <1>2

-------------------------------------------------------------------------------
(* The invariant of the transactions as a whole, and what follows from it. *)

ZonesInv ==
    /\ TypeOK /\ LockInv /\ PlacesFit
    /\ PendingFits /\ EntriesFit
    /\ RecordsFit /\ NoDirtyRead /\ TransactionsFit

LEMMA ZonesInvariant ==
    ASSUME Discipline
    PROVE  Spec => []ZonesInv
<1>1. Spec => [](TypeOK /\ LockInv)
  BY LockInvariant
<1>2. Init => PlacesFit /\ PendingFits /\ EntriesFit /\ RecordsFit /\ NoDirtyRead /\ TransactionsFit
  BY InitPlaces, InitPending, InitRecords, InitTransactions
<1>3. TypeOK /\ LockInv /\ ZonesInv /\ [Next]_vars =>
        PlacesFit' /\ PendingFits' /\ EntriesFit' /\ RecordsFit' /\ NoDirtyRead' /\ TransactionsFit'
  <2> SUFFICES ASSUME ZonesInv, [Next]_vars
               PROVE  PlacesFit' /\ PendingFits' /\ EntriesFit' /\ RecordsFit' /\ NoDirtyRead' /\ TransactionsFit'
    OBVIOUS
  <2>1. /\ TypeOK /\ LockInv /\ PlacesFit /\ PendingFits /\ EntriesFit /\ RecordsFit /\ NoDirtyRead
        /\ PendingCovers /\ EntriesCover /\ AllRecorded /\ NoneRecorded
    BY DEF ZonesInv, TransactionsFit
  <2>2. PlacesFit' /\ PendingFits' /\ EntriesFit'
    BY <2>1, PlacesStep, PendingStep, EntriesStep
  <2>3. RecordsFit' /\ NoDirtyRead'
    BY <2>1, RecordsStep, ReadStep
  <2>4. PendingCovers' /\ EntriesCover'
    BY <2>1, PendingCoversStep, EntriesCoverStep
  <2>5. AllRecorded' /\ NoneRecorded'
    BY <2>1, AllRecordedStep, NoneRecordedStep
  <2>6. QED
    BY <2>2, <2>3, <2>4, <2>5 DEF TransactionsFit
<1>4. QED
  BY <1>1, <1>2, <1>3, PTL DEF Spec, ZonesInv

\* All or nothing: once the outermost call of a transaction has committed, every record
\* that was stored in it is in the database; before that, and when that call failed,
\* none is.
THEOREM TransactionsAreAtomic ==
    ASSUME Discipline
    PROVE  Spec => []AllOrNothing
<1>1. ZonesInv => AllOrNothing
  <2> SUFFICES ASSUME ZonesInv, NEW c \in Calls, ParentOf[c] = NoCall, ZoneOf[c] \in Transactional
               PROVE  IF pc[c] \in {"committed", "done"}
                      THEN \A d \in InZone(ZoneOf[c]) :
                              KindOf[d] \in {"store", "senderKey"} /\ pc[d] = "done" =>
                                  \E e \in InZone(ZoneOf[c]) \cap committed : KeyOf[e] = KeyOf[d]
                      ELSE InZone(ZoneOf[c]) \cap committed = {}
    BY DEF AllOrNothing
  <2>1. Outermost(c) /\ AllRecorded /\ NoneRecorded
    BY DEF ZonesInv, TransactionsFit, Outermost
  <2>2. CASE pc[c] \in {"committed", "done"}
    <3>1. Recorded(ZoneOf[c])
      BY <2>1, <2>2 DEF AllRecorded
    <3>2. QED
      BY <2>2, <3>1 DEF Recorded, Stored
  <2>3. CASE pc[c] \notin {"committed", "done"}
    BY <2>1, <2>3 DEF NoneRecorded
  <2>4. QED
    BY <2>2, <2>3
<1>2. QED
  BY <1>1, ZonesInvariant, PTL

\* No dirty read: what a load returns was stored by a call of its own zone or is in the
\* database, whatever is reverted, fails or overlaps afterwards.
THEOREM ReadsAreClean ==
    ASSUME Discipline
    PROVE  Spec => []NoDirtyRead
<1>1. ZonesInv => NoDirtyRead
  BY DEF ZonesInv
<1>2. QED
  BY <1>1, ZonesInvariant, PTL

-------------------------------------------------------------------------------
(* The transactions implement those of ZoneTransactions. *)

\* Nobody awaits the database: nothing was sent to it.
LEMMA NothingSent ==
    ASSUME TypeOK, EntriesFit, \A d \in Holding : pc[d] \notin Awaiting
    PROVE  inflight = <<>>
<1>1. SUFFICES ASSUME inflight # <<>> PROVE FALSE
  OBVIOUS
<1>2. inflight \in Seq([call : Calls, writes : Changes])
  BY DEF TypeOK
<1>3. 1 \in 1 .. Len(inflight)
  BY <1>1, <1>2
<1>4. inflight[1].call \in Calls /\ pc[inflight[1].call] \in Awaiting
  BY <1>3, EntryTypes DEF EntriesFit, EntryFits
<1>5. QED
  BY <1>4 DEF Holding, Using, Awaiting

\* In a transaction only the commit of its outermost call is ever sent, and nothing is
\* pending then.
LEMMA OneCommit ==
    ASSUME Discipline, ZonesInv, currentZone \in Transactional, inflight # <<>>
    PROVE  Len(inflight) = 1 /\ pending = Nothing /\ 1 \in 1 .. Len(inflight)
<1> USE CallsAssumption, ZonesAssumption
<1>1. TypeOK /\ LockInv /\ PlacesFit /\ PendingFits /\ EntriesFit
  BY DEF ZonesInv
<1>2. ASSUME NEW i \in 1 .. Len(inflight)
      PROVE  LET c == inflight[i].call IN
             c \in Calls /\ pc[c] = "committing" /\ Outermost(c) /\ ZoneOf[c] = currentZone
  <2> DEFINE c == inflight[i].call
  <2>1. c \in Calls /\ pc[c] \in Awaiting
    BY <1>1, <1>2, EntryTypes DEF EntriesFit, EntryFits
  <2> HIDE DEF c
  <2>2. ZoneOf[c] = currentZone
    BY <1>1, <2>1 DEF Awaiting, Using, Holding, LockInv, OneZoneAtATime
  <2>3. pc[c] = "committing"
    BY <1>1, <2>1, <2>2 DEF PlacesFit, WritesDirectly, Awaiting
  <2>4. ParentOf[c] = NoCall
    BY <1>1, <2>1, <2>3 DEF PlacesFit, Nested
  <2>5. QED
    BY <2>1, <2>2, <2>3, <2>4 DEF Outermost, c
<1>3. \A i, j \in 1 .. Len(inflight) : i = j
  <2> SUFFICES ASSUME NEW i \in 1 .. Len(inflight), NEW j \in 1 .. Len(inflight) PROVE i = j
    OBVIOUS
  <2>1. inflight[i].call = inflight[j].call
    BY <1>2 DEF Discipline, OneOutermostCall, Outermost
  <2>2. QED
    BY <1>1, <2>1 DEF EntriesFit
<1>4. inflight \in Seq([call : Calls, writes : Changes])
  BY <1>1 DEF TypeOK
<1>5. Len(inflight) \in Nat /\ Len(inflight) >= 1
  BY <1>4
<1>6. Len(inflight) = 1
  <2>1. PICK n \in Nat : n = Len(inflight) /\ n >= 1
    BY <1>5
  <2>2. 2 \notin 1 .. n
    BY <1>3, <2>1
  <2>3. QED
    BY <2>1, <2>2
<1>7. pending = Nothing
  BY <1>1, <1>2, <1>6 DEF PendingFits, AfterEnd
<1>8. QED
  BY <1>6, <1>7

LEMMA TentativeIs ==
    Discipline /\ ZonesInv =>
        Tentative = IF currentZone \notin Transactional THEN Nothing
                    ELSE IF inflight = <<>> THEN pending ELSE inflight[1].writes
<1> SUFFICES ASSUME Discipline, ZonesInv, currentZone \in Transactional
             PROVE  Tentative = IF inflight = <<>> THEN pending ELSE inflight[1].writes
  BY DEF Tentative
<1>1. TypeOK
  BY DEF ZonesInv
<1>2. CASE inflight = <<>>
  <2>1. pending = [k \in DOMAIN pending |-> pending[k]]
    BY <1>1, ChangesFacts DEF TypeOK
  <2>2. Tentative = [k \in DOMAIN pending \cup DOMAIN Nothing |->
                        IF k \in DOMAIN pending THEN pending[k] ELSE Nothing[k]]
    BY <1>2 DEF Tentative
  <2>3. DOMAIN pending \cup DOMAIN Nothing = DOMAIN pending
    BY NothingFacts
  <2>4. Tentative = [k \in DOMAIN pending |-> pending[k]]
    BY <2>2, <2>3
  <2>5. QED
    BY <1>2, <2>1, <2>4
<1>3. CASE inflight # <<>>
  <2> DEFINE w == inflight[1].writes
  <2>1. Len(inflight) = 1 /\ pending = Nothing /\ 1 \in 1 .. Len(inflight)
    BY <1>3, OneCommit
  <2>2. w \in Changes
    BY <1>1, <2>1, EntryTypes
  <2>3. Tentative = [k \in DOMAIN pending \cup DOMAIN w |->
                        IF k \in DOMAIN pending THEN pending[k] ELSE w[k]]
    BY <1>3, <2>1 DEF Tentative
  <2> HIDE DEF w
  <2>4. w = [k \in DOMAIN w |-> w[k]]
    BY <2>2, ChangesFacts
  <2>5. Tentative = [k \in DOMAIN w |-> w[k]]
    BY <2>1, <2>3, NothingFacts
  <2>6. QED
    BY <1>3, <2>4, <2>5 DEF w
<1>4. QED
  BY <1>2, <1>3

\* Nothing is tentative when the lock passes on.
LEMMA NothingTentative ==
    ASSUME Discipline, ZonesInv, inflight = <<>>, pending = Nothing
    PROVE  Tentative = Nothing
BY TentativeIs

\* The answer to the commit of a transaction.
LEMMA Answered ==
    ASSUME Discipline, ZonesInv, currentZone \in Transactional, inflight # <<>>,
           inflight' = Tail(inflight)
    PROVE  /\ Tentative = Head(inflight).writes /\ inflight' = <<>>
           /\ pending = Nothing
<1>1. inflight \in Seq([call : Calls, writes : Changes])
  BY DEF ZonesInv, TypeOK
<1>2. Len(inflight) = 1 /\ pending = Nothing
  BY OneCommit
<1>3. Head(inflight) = inflight[1] /\ Tail(inflight) = <<>>
  BY <1>1, <1>2
<1>4. QED
  BY <1>2, <1>3, TentativeIs

LEMMA PassesOn ==
    ASSUME Discipline, ZonesInv, ZonesInv', UNCHANGED <<db, pending, inflight>>,
           pending = Nothing, inflight = <<>>
    PROVE  Transactions!PassOn
<1>1. Tentative = Nothing
  BY NothingTentative
<1>2. (Discipline /\ ZonesInv => 
        Tentative = IF currentZone \notin Transactional THEN Nothing
                    ELSE IF inflight = <<>> THEN pending ELSE inflight[1].writes)'
  BY TentativeIs, PTL
<1>3. Tentative' = Nothing
  BY <1>2
<1>4. currentZone' \in Zones \cup {NoZone}
  BY DEF ZonesInv, TypeOK
<1>5. QED
  BY <1>1, <1>3, <1>4 DEF Transactions!PassOn, Transactions!Nothing, Nothing

LEMMA StepRefines ==
    ASSUME Discipline, ZonesInv, ZonesInv', [Next]_vars
    PROVE  Transactions!Next \/ UNCHANGED Transactions!vars
<1> USE CallsAssumption, ZonesAssumption
<1>1. /\ TypeOK /\ LockInv /\ PlacesFit /\ PendingFits /\ EntriesFit
      /\ TypeOK'
  BY DEF ZonesInv
<1>2. Tentative = IF currentZone \notin Transactional THEN Nothing
                  ELSE IF inflight = <<>> THEN pending ELSE inflight[1].writes
  BY TentativeIs
<1>3. Tentative' = IF currentZone' \notin Transactional THEN Nothing
                   ELSE IF inflight' = <<>> THEN pending' ELSE inflight'[1].writes
  <2>1. (Discipline /\ ZonesInv =>
            Tentative = IF currentZone \notin Transactional THEN Nothing
                        ELSE IF inflight = <<>> THEN pending ELSE inflight[1].writes)'
    BY TentativeIs, PTL
  <2>2. QED
    BY <2>1
<1>4. \A c \in Calls : pc[c] \in Using => c \in Holding /\ ZoneOf[c] = currentZone
  BY <1>1 DEF Holding, LockInv, OneZoneAtATime
\* A step that keeps what the transactions are made of.
<1>5. ASSUME UNCHANGED <<db, currentZone>>, Tentative' = Tentative
      PROVE  UNCHANGED Transactions!vars
  BY <1>5 DEF Transactions!vars
<1>6. ASSUME UNCHANGED <<db, currentZone, pending, inflight>>
      PROVE  UNCHANGED Transactions!vars
  BY <1>2, <1>3, <1>5, <1>6
<1>7. ASSUME UNCHANGED <<db, currentZone>>, currentZone \notin Transactional
      PROVE  UNCHANGED Transactions!vars
  BY <1>2, <1>3, <1>5, <1>7
<1>8. ASSUME NEW c \in Calls, Wait(c) \/ Load(c) \/ EndTask(c)
      PROVE  UNCHANGED Transactions!vars
  BY <1>6, <1>8 DEF Wait, Load, EndTask, lock, data
<1>9. ASSUME NEW c \in Calls, Enter(c)
      PROVE  Transactions!Next \/ UNCHANGED Transactions!vars
  <2>1. CASE depth = 0
    <3>1. Holding = {} /\ currentZone = NoZone
      BY <1>1, <2>1, HoldingIsFinite, FS_EmptySet DEF LockInv, DepthCountsUsers
    <3>2. inflight = <<>> /\ pending = Nothing
      BY <1>1, <3>1, NothingSent DEF PendingFits
    <3>3. Transactions!PassOn
      BY <1>9, <3>2, PassesOn DEF Enter, data
    <3>4. QED
      BY <3>3 DEF Transactions!Next
  <2>2. CASE depth # 0
    BY <1>6, <1>9, <2>2 DEF Enter, data
  <2>3. QED
    BY <2>1, <2>2
<1>10. ASSUME NEW c \in Calls, Leave(c)
       PROVE  Transactions!Next \/ UNCHANGED Transactions!vars
  <2>1. UNCHANGED <<db, pending, inflight>>
    BY <1>10 DEF Leave, data
  <2>2. CASE depth > 1
    BY <1>6, <1>10, <2>1, <2>2 DEF Leave, LeaveZone
  <2>3. CASE ~(depth > 1)
    <3>1. depth = 1 /\ pc[c] \in {"committed", "reverted"}
      BY <1>10, <2>3 DEF Leave, LeaveZone
    <3>2. Holding = {c}
      BY <1>1, <3>1, LastHolds DEF Holding, Using
    <3>3. inflight = <<>> /\ pending = Nothing
      BY <1>1, <3>1, <3>2, NothingSent DEF PendingFits, AfterEnd, Awaiting
    <3>4. Transactions!PassOn
      BY <2>1, <3>3, PassesOn
    <3>5. QED
      BY <3>4 DEF Transactions!Next
  <2>4. QED
    BY <2>2, <2>3
\* A record becomes pending.
<1>11. ASSUME NEW c \in Calls, pc[c] = "body", NEW x \in Records, StoreRecord(c, x),
              UNCHANGED <<db, currentZone>>
       PROVE  Transactions!Next \/ UNCHANGED Transactions!vars
  <2>1. ZoneOf[c] = currentZone
    BY <1>4, <1>11 DEF Using
  <2>2. CASE currentZone \notin Transactional
    BY <1>7, <1>11, <2>2
  <2>3. CASE currentZone \in Transactional
    <3>1. pending' = Put(pending, KeyOf[c], x) /\ UNCHANGED inflight
      BY <1>11, <2>1, <2>3 DEF StoreRecord
    <3>2. inflight = <<>>
      <4>1. ASSUME NEW d \in Holding PROVE pc[d] \notin Awaiting
        <5>1. ZoneOf[d] = currentZone /\ d \in Calls
          BY <1>1 DEF LockInv, OneZoneAtATime, Holding
        <5>2. pc[d] # "writing"
          BY <1>1, <2>3, <5>1 DEF PlacesFit, WritesDirectly
        <5>3. pc[d] # "committing"
          BY <1>1, <1>4, <1>11, <2>1, <2>3, <5>1, EndingAlone DEF AfterEnd, Using
        <5>4. QED
          BY <5>2, <5>3 DEF Awaiting
      <4>2. QED
        BY <1>1, <4>1, NothingSent
    <3>3. Tentative = pending /\ Tentative' = Put(pending, KeyOf[c], x)
      BY <1>2, <1>3, <1>11, <2>3, <3>1, <3>2
    <3>4. Transactions!Write
      BY <1>11, <2>3, <3>3 DEF Transactions!Write, Put
    <3>5. QED
      BY <3>4 DEF Transactions!Next
  <2>4. QED
    BY <2>2, <2>3
<1>12. ASSUME NEW c \in Calls, Store(c)
       PROVE  Transactions!Next \/ UNCHANGED Transactions!vars
  <2>1. [by |-> c, current |-> TRUE] \in Records
    BY DEF Records
  <2>2. QED
    BY <1>11, <1>12, <2>1 DEF Store, lock
<1>13. ASSUME NEW c \in Calls, Archive(c)
       PROVE  Transactions!Next \/ UNCHANGED Transactions!vars
  <2> DEFINE y == Lookup(KeyOf[c])
             x == [y EXCEPT !.current = FALSE]
  <2>1. CASE y # NoRecord /\ y.current
    <3>1. y \in Records
      BY <1>1, ChangesFacts DEF Lookup, TypeOK
    <3>2. x \in Records
      BY <2>1, <3>1 DEF Records
    <3>3. pc[c] = "body" /\ StoreRecord(c, x) /\ UNCHANGED <<db, currentZone>>
      BY <1>13, <2>1 DEF Archive, lock
    <3> HIDE DEF x
    <3>4. QED
      BY <1>11, <3>2, <3>3
  <2>2. CASE ~(y # NoRecord /\ y.current)
    BY <1>6, <1>13, <2>2 DEF Archive, lock, data
  <2>3. QED
    BY <2>1, <2>2
<1>14. ASSUME NEW c \in Calls, Remove(c) \/ Clear(c)
       PROVE  UNCHANGED Transactions!vars
  <2>1. currentZone \notin Transactional
    BY <1>4, <1>14, DisciplineAssumption DEF Remove, Clear, Using
  <2>2. QED
    BY <1>7, <1>14, <2>1 DEF Remove, Clear, lock
\* What was pending is sent, and stays tentative until the answer.
<1>15. ASSUME NEW c \in Calls, CommitZoneChanges(c)
       PROVE  UNCHANGED Transactions!vars
  <2>1. UNCHANGED <<db, currentZone>> /\ pc[c] = "returned" /\ depth = 1
    BY <1>15 DEF CommitZoneChanges, lock
  <2>2. CASE pending = Nothing
    BY <1>6, <1>15, <2>1, <2>2 DEF CommitZoneChanges
  <2>3. CASE pending # Nothing
    <3>1. inflight' = Append(inflight, [call |-> c, writes |-> pending]) /\ pending' = Nothing
      BY <1>15, <2>3 DEF CommitZoneChanges, Send
    <3>2. inflight = <<>>
      <4>1. Holding = {c}
        BY <1>1, <2>1, LastHolds DEF Holding, Using
      <4>2. QED
        BY <1>1, <2>1, <4>1, NothingSent DEF Awaiting
    <3>3. inflight' # <<>> /\ inflight'[1].writes = pending
      BY <3>1, <3>2
    <3>4. QED
      BY <1>2, <1>3, <1>5, <2>1, <3>2, <3>3
  <2>4. QED
    BY <2>2, <2>3
<1>16. ASSUME NEW c \in Calls, RevertZoneChanges(c)
       PROVE  Transactions!Next \/ UNCHANGED Transactions!vars
  <2>1. UNCHANGED <<db, currentZone, inflight>> /\ pc[c] = "threw" /\ depth = 1 /\ pending' = Nothing
    BY <1>16 DEF RevertZoneChanges, lock
  <2>2. CASE currentZone \notin Transactional
    BY <1>7, <2>1, <2>2
  <2>3. CASE currentZone \in Transactional
    <3>1. inflight = <<>>
      <4>1. Holding = {c}
        BY <1>1, <2>1, LastHolds DEF Holding, Using
      <4>2. QED
        BY <1>1, <2>1, <4>1, NothingSent DEF Awaiting
    <3>2. Tentative' = Nothing
      BY <1>3, <2>1, <3>1
    <3>3. Transactions!Revert
      BY <2>1, <2>3, <3>2 DEF Transactions!Revert, Transactions!Nothing, Nothing
    <3>4. QED
      BY <3>3 DEF Transactions!Next
  <2>4. QED
    BY <2>2, <2>3
<1>17. CASE DbSucceeds
  <2> DEFINE c == Head(inflight).call
             w == Head(inflight).writes
  <2>1. /\ inflight # <<>> /\ inflight' = Tail(inflight) /\ UNCHANGED currentZone
        /\ db' = Over(w, db) /\ pc[c] \in Awaiting
        /\ pending' = IF KindOf[c] = "remove"
                      THEN [k \in DOMAIN pending \ {KeyOf[c]} |-> pending[k]] ELSE pending
    BY <1>17 DEF DbSucceeds, lock, Awaiting
  <2>2. c \in Calls /\ w \in Changes /\ EntryFits(Head(inflight))
    BY <1>1, <2>1, TailEntries DEF EntriesFit
  <2>3. ZoneOf[c] = currentZone /\ db \in [Keys -> Records]
    BY <1>1, <1>4, <2>1, <2>2 DEF Awaiting, Using, TypeOK
  <2>4. CASE currentZone \in Transactional
    <3>1. Tentative = w /\ inflight' = <<>> /\ pending = Nothing
      BY <2>1, <2>4, Answered
    <3>2. pending' = Nothing
      BY <2>1, <3>1, NothingFacts
    <3> HIDE DEF c, w
    <3>3. Tentative' = Nothing
      BY <1>3, <3>1, <3>2
    <3>4. db' = [k \in Keys |-> IF k \in DOMAIN Tentative THEN Tentative[k] ELSE db[k]]
      BY <2>1, <2>3, <3>1 DEF Over
    <3>5. Transactions!Commit
      BY <2>1, <2>4, <3>3, <3>4 DEF Transactions!Commit, Transactions!Nothing, Nothing
    <3>6. QED
      BY <3>5 DEF Transactions!Next
  <2>5. CASE currentZone \notin Transactional
    <3>1. pc[c] = "writing"
      BY <1>1, <2>1, <2>2, <2>3, <2>5 DEF PendingFits, Awaiting
    <3>2. DOMAIN w = {KeyOf[c]} /\ KeyOf[c] \in Keys
      BY <2>2, <3>1 DEF EntryFits
    <3> HIDE DEF c, w
    <3>3. w[KeyOf[c]] \in Records
      BY <2>2, <3>2, ChangesFacts
    <3>4. db' = [db EXCEPT ![KeyOf[c]] = w[KeyOf[c]]]
      BY <2>1, <2>3, <3>2 DEF Over
    <3>5. currentZone \in Zones \ Transactional /\ Tentative' = Tentative
      BY <1>2, <1>3, <2>1, <2>2, <2>3, <2>5
    <3>6. Transactions!WriteThrough
      BY <2>1, <3>2, <3>3, <3>4, <3>5 DEF Transactions!WriteThrough
    <3>7. QED
      BY <3>6 DEF Transactions!Next
  <2>6. QED
    BY <2>4, <2>5
<1>18. CASE DbFails
  <2>1. /\ inflight # <<>> /\ inflight' = Tail(inflight) /\ UNCHANGED <<db, currentZone, pending>>
    BY <1>18 DEF DbFails, lock
  <2>2. CASE currentZone \in Transactional
    <3>1. inflight' = <<>> /\ pending' = Nothing
      BY <2>1, <2>2, Answered
    <3>2. Tentative' = Nothing
      BY <1>3, <3>1
    <3>3. Transactions!Revert
      BY <2>1, <2>2, <3>2 DEF Transactions!Revert, Transactions!Nothing, Nothing
    <3>4. QED
      BY <3>3 DEF Transactions!Next
  <2>3. CASE currentZone \notin Transactional
    BY <1>7, <2>1, <2>3
  <2>4. QED
    BY <2>2, <2>3
<1>19. CASE UNCHANGED vars
  BY <1>6, <1>19 DEF vars, lock, data
<1>20. QED
  BY <1>8, <1>9, <1>10, <1>12, <1>13, <1>14, <1>15, <1>16, <1>17, <1>18, <1>19 DEF Next, Step

\* The lock, the depth and the swapped maps implement transactions: one owner at a time,
\* whose stores reach the database as a whole or not at all, and are over when the zone
\* passes on.
THEOREM Refinement ==
    ASSUME Discipline
    PROVE  Spec => ImplementsTransactions
<1>1. Init => Transactions!Init
  <2> SUFFICES ASSUME Init PROVE Transactions!Init
    OBVIOUS
  <2>1. currentZone = NoZone /\ db = [k \in Keys |-> Initial]
    BY DEF Init
  <2>2. Tentative = Nothing
    BY <2>1, ZonesAssumption DEF Tentative
  <2>3. Initial \in Records
    BY DEF Initial, Records
  <2>4. QED
    BY <2>1, <2>2, <2>3 DEF Transactions!Init, Transactions!Nothing, Nothing
<1>2. ZonesInv /\ ZonesInv' /\ [Next]_vars => [Transactions!Next]_(Transactions!vars)
  BY StepRefines
<1>3. QED
  BY <1>1, <1>2, ZonesInvariant, PTL DEF Spec, ImplementsTransactions, Transactions!Spec

-------------------------------------------------------------------------------
(* The cache and the database. *)

\* At all times, not only when nothing is in progress.
Follows(k) ==
    cache[k] # NoRecord =>
        /\ db[k] # NoRecord
        /\ cache[k].by = db[k].by
        /\ cache[k].current => db[k].current

WritersWrite == \A c \in Calls : pc[c] = "writing" => KindOf[c] \notin {"task", "load"}
CacheFits == \A k \in Keys : ~ClearedWhileWritten(k) => Follows(k)
ClearedFirst ==
    \A i \in 1 .. Len(inflight) : LET c == inflight[i].call IN
        KindOf[c] = "clear" /\ ~ClearedWhileWritten(KeyOf[c]) => cache[KeyOf[c]] = NoRecord
CacheInv == WritersWrite /\ CacheFits /\ ClearedFirst

LEMMA InitCache == Init => CacheInv
<1> SUFFICES ASSUME Init PROVE CacheInv
  OBVIOUS
<1>1. Len(inflight) = 0 /\ cache = db /\ \A c \in Calls : pc[c] = "idle"
  BY DEF Init
<1>2. 1 .. Len(inflight) = {}
  BY <1>1
<1>3. QED
  BY <1>1, <1>2 DEF CacheInv, WritersWrite, CacheFits, Follows, ClearedFirst

LEMMA WritersStep ==
    TypeOK /\ LockInv /\ PlacesFit /\ Discipline /\ WritersWrite /\ [Next]_vars => WritersWrite'
<1> SUFFICES ASSUME TypeOK, LockInv, PlacesFit, Discipline, WritersWrite, [Next]_vars,
                    NEW d \in Calls, pc'[d] = "writing"
             PROVE  KindOf[d] \notin {"task", "load"}
  BY DEF WritersWrite
<1>1. CASE pc[d] = "writing"
  BY <1>1 DEF WritersWrite
<1>2. CASE pc[d] # "writing"
  <2>1. pc[d] = "body"
    BY <1>2, Moves
  <2>2. PICK c \in Calls : Wait(c) \/ Enter(c) \/ Step(c)
    BY <1>2, <2>1 DEF Next, DbSucceeds, DbFails, vars, TypeOK
  <2>3. CASE Leave(c)
    <3>1. \E outcome \in {"done", "failed"} : LeaveZone(c, outcome)
      BY <2>3 DEF Leave
    <3>2. pc'[d] # "writing"
      BY <2>1, <3>1 DEF LeaveZone, TypeOK
    <3>3. QED
      BY <3>2
  <2>4. CASE ~Leave(c)
    <3>1. \/ KindOf[c] \in {"store", "senderKey", "archive", "remove", "clear"}
          \/ \E p \in Places \ {"writing"} : pc' = [pc EXCEPT ![c] = p]
      BY <2>2, <2>4 DEF Wait, Enter, Step, Store, Load, Archive, Remove, Clear,
         EndTask, CommitZoneChanges, RevertZoneChanges, Places
    <3>2. pc' = [pc EXCEPT ![c] = pc'[c]]
      BY <2>2, <2>4 DEF Wait, Enter, Step, Store, Load, Archive, Remove, Clear, StoreRecord,
         EndTask, CommitZoneChanges, RevertZoneChanges, TypeOK
    <3>3. d = c
      BY <1>2, <3>2 DEF TypeOK
    <3>4. QED
      BY <1>2, <3>1, <3>3 DEF TypeOK
  <2>5. QED
    BY <2>3, <2>4
<1>3. QED
  BY <1>1, <1>2

\* The calls whose writes are sent and not answered are those of the current zone; one of
\* them that is not the commit of a transaction writes its own record.
LEMMA SentBy ==
    ASSUME TypeOK, LockInv, PendingFits, EntriesFit, WritersWrite, NEW i \in 1 .. Len(inflight)
    PROVE  LET c == inflight[i].call
               w == inflight[i].writes
           IN  /\ c \in Calls /\ ZoneOf[c] = currentZone /\ w \in Changes
               /\ currentZone \notin Transactional =>
                    /\ DOMAIN w = {KeyOf[c]}
                    /\ KindOf[c] \in {"store", "senderKey", "archive", "remove", "clear"}
                    /\ KindOf[c] \in {"remove", "clear"} => w[KeyOf[c]] = NoRecord
<1> DEFINE c == inflight[i].call
<1>1. c \in Calls /\ pc[c] \in Awaiting /\ EntryFits(inflight[i]) /\ inflight[i].writes \in Changes
  BY EntryTypes DEF EntriesFit, EntryFits
<1> HIDE DEF c
<1>2. ZoneOf[c] = currentZone
  BY <1>1 DEF Awaiting, Using, Holding, LockInv, OneZoneAtATime
<1>3. currentZone \notin Transactional => pc[c] = "writing"
  BY <1>1, <1>2 DEF PendingFits, Awaiting
<1>4. KindOf[c] \in Kinds
  BY <1>1, CallsAssumption
<1>5. currentZone \notin Transactional =>
        KindOf[c] \in {"store", "senderKey", "archive", "remove", "clear"}
  BY <1>1, <1>3, <1>4 DEF WritersWrite, Kinds
<1>6. QED
  BY <1>1, <1>2, <1>3, <1>5 DEF EntryFits, c

LEMMA CacheStep ==
    TypeOK /\ LockInv /\ PlacesFit /\ PendingFits /\ EntriesFit /\ Discipline /\ CacheInv
    /\ [Next]_vars => CacheFits' /\ ClearedFirst'
<1> SUFFICES ASSUME TypeOK, LockInv, PlacesFit, PendingFits, EntriesFit, Discipline,
                    WritersWrite, CacheFits, ClearedFirst, [Next]_vars
             PROVE  CacheFits' /\ ClearedFirst'
  BY DEF CacheInv
<1> USE CallsAssumption, ZonesAssumption
<1>1. ASSUME UNCHANGED <<cache, db>>
      PROVE  CacheFits'
  BY <1>1 DEF CacheFits, Follows, ClearedWhileWritten
<1>2. ASSUME UNCHANGED <<cache, inflight>>
      PROVE  ClearedFirst'
  BY <1>2 DEF ClearedFirst, ClearedWhileWritten
\* What is sent by other calls than those that clear.
<1>3. ASSUME NEW c \in Calls, Step(c), KindOf[c] # "clear",
             \A k \in Keys : cache[k] = NoRecord => cache'[k] = NoRecord
      PROVE  ClearedFirst'
  <2>1. CASE UNCHANGED inflight
    <3>1. ASSUME NEW i \in 1 .. Len(inflight) PROVE inflight[i].call \in Calls
      BY EntryTypes
    <3>2. QED
      BY <1>3, <2>1, <3>1 DEF ClearedFirst, ClearedWhileWritten
  <2>2. CASE inflight' # inflight
    <3>1. PICK w \in Changes : Send(c, w)
      BY <1>3, <2>2, Sends
    <3>2. SUFFICES ASSUME NEW i \in 1 .. Len(inflight'),
                          KindOf[inflight'[i].call] = "clear",
                          ~ClearedWhileWritten(KeyOf[inflight'[i].call])
                   PROVE  cache'[KeyOf[inflight'[i].call]] = NoRecord
      BY DEF ClearedFirst, ClearedWhileWritten
    <3>3. \/ i \in 1 .. Len(inflight) /\ inflight'[i] = inflight[i]
          \/ inflight'[i] = [call |-> c, writes |-> w]
      BY <3>1, SendFacts
    <3>4. inflight'[i] # [call |-> c, writes |-> w]
      BY <1>3, <3>2
    <3>5. i \in 1 .. Len(inflight) /\ inflight'[i] = inflight[i] /\ inflight[i].call \in Calls
      BY <3>3, <3>4, EntryTypes
    <3>6. QED
      BY <1>3, <3>2, <3>5 DEF ClearedFirst
  <2>3. QED
    BY <2>1, <2>2
<1>4. ASSUME NEW c \in Calls, Wait(c) \/ Enter(c)
      PROVE  CacheFits' /\ ClearedFirst'
  BY <1>1, <1>2, <1>4 DEF Wait, Enter, data
<1>5. ASSUME NEW c \in Calls, Step(c), KindOf[c] # "clear", UNCHANGED <<cache, db>>
      PROVE  CacheFits' /\ ClearedFirst'
  BY <1>1, <1>3, <1>5
<1>6. ASSUME NEW c \in Calls, Step(c), ~Archive(c), ~Clear(c)
      PROVE  CacheFits' /\ ClearedFirst'
  <2>1. UNCHANGED <<cache, db>>
    BY <1>6 DEF Step, Store, Load, Remove, EndTask, CommitZoneChanges, RevertZoneChanges, Leave, data
  <2>2. CASE UNCHANGED inflight
    BY <1>1, <1>2, <2>1, <2>2
  <2>3. CASE inflight' # inflight
    <3>1. KindOf[c] # "clear"
      <4>1. CASE CommitZoneChanges(c)
        <5>1. pending # Nothing /\ pc[c] = "returned"
          BY <2>3, <4>1 DEF CommitZoneChanges
        <5>2. ZoneOf[c] \in Transactional
          BY <5>1 DEF PendingFits, LockInv, OneZoneAtATime, Holding, Using
        <5>3. QED
          BY <5>2, DisciplineAssumption
      <4>2. CASE ~CommitZoneChanges(c)
        BY <1>6, <2>3, <4>2 DEF Step, Store, Load, Remove, EndTask, RevertZoneChanges, Leave, data
      <4>3. QED
        BY <4>1, <4>2
    <3>2. QED
      BY <1>5, <1>6, <2>1, <3>1
  <2>4. QED
    BY <2>2, <2>3
<1>7. ASSUME NEW c \in Calls, Archive(c)
      PROVE  CacheFits' /\ ClearedFirst'
  <2> DEFINE k == KeyOf[c]
             y == Lookup(k)
  <2>1. KindOf[c] = "archive" /\ k \in Keys
    BY <1>7 DEF Archive
  <2>2. \/ UNCHANGED <<cache, db>>
        \/ /\ cache[k] # NoRecord /\ UNCHANGED db
           /\ cache' = [cache EXCEPT ![k].current = FALSE]
    BY <1>7 DEF Archive, Lookup, data
  <2>3. CASE UNCHANGED <<cache, db>>
    BY <1>5, <1>7, <2>1, <2>3 DEF Step
  <2>4. CASE /\ cache[k] # NoRecord /\ UNCHANGED db
             /\ cache' = [cache EXCEPT ![k].current = FALSE]
    <3>1. cache[k] \in [by : Calls \cup {NoCall}, current : BOOLEAN] /\ cache \in [Keys -> Records]
      BY <2>1, <2>4 DEF TypeOK, Records
    <3> HIDE DEF k
    <3>2. /\ cache'[k].by = cache[k].by /\ ~cache'[k].current
          /\ \A j \in Keys : j # k => cache'[j] = cache[j]
      BY <2>1, <2>4, <3>1
    <3>3. CacheFits'
      <4> SUFFICES ASSUME NEW j \in Keys, ~ClearedWhileWritten(j)
                   PROVE  Follows(j)'
        BY DEF CacheFits, ClearedWhileWritten
      <4>1. Follows(j)
        BY DEF CacheFits
      <4>2. CASE j = k
        BY <2>4, <3>2, <4>1, <4>2 DEF Follows
      <4>3. CASE j # k
        BY <2>4, <3>2, <4>1, <4>3 DEF Follows
      <4>4. QED
        BY <4>2, <4>3
    <3>4. \A j \in Keys : cache[j] = NoRecord => cache'[j] = NoRecord
      BY <2>4, <3>2
    <3>5. QED
      BY <1>3, <1>7, <2>1, <3>3, <3>4 DEF Step
  <2>5. QED
    BY <2>2, <2>3, <2>4
<1>8. ASSUME NEW c \in Calls, Clear(c)
      PROVE  CacheFits' /\ ClearedFirst'
  <2> DEFINE k == KeyOf[c]
             w == Put(Nothing, k, NoRecord)
  <2>1. /\ KindOf[c] = "clear" /\ k \in Keys /\ UNCHANGED db
        /\ cache' = [cache EXCEPT ![k] = NoRecord] /\ Send(c, w)
    BY <1>8 DEF Clear
  <2>2. w \in Changes
    <3>1. NoRecord \in Records
      BY DEF Records
    <3>2. QED
      BY <2>1, <3>1, PutIsChanges, NothingIsChanges
  <2> HIDE DEF k, w
  <2>3. cache'[k] = NoRecord /\ \A j \in Keys : j # k => cache'[j] = cache[j]
    BY <2>1 DEF TypeOK
  <2>4. CacheFits'
    BY <2>1, <2>3 DEF CacheFits, Follows, ClearedWhileWritten
  <2>5. ClearedFirst'
    <3>1. SUFFICES ASSUME NEW i \in 1 .. Len(inflight'),
                          KindOf[inflight'[i].call] = "clear",
                          ~ClearedWhileWritten(KeyOf[inflight'[i].call])
                   PROVE  cache'[KeyOf[inflight'[i].call]] = NoRecord
      BY DEF ClearedFirst, ClearedWhileWritten
    <3>2. \/ i \in 1 .. Len(inflight) /\ inflight'[i] = inflight[i] /\ inflight[i].call \in Calls
          \/ inflight'[i] = [call |-> c, writes |-> w]
      BY <2>1, <2>2, SendFacts, EntryTypes
    <3>3. CASE i \in 1 .. Len(inflight) /\ inflight'[i] = inflight[i] /\ inflight[i].call \in Calls
      BY <2>3, <3>1, <3>3 DEF ClearedFirst
    <3>4. CASE inflight'[i] = [call |-> c, writes |-> w]
      BY <2>3, <3>4 DEF k
    <3>5. QED
      BY <3>2, <3>3, <3>4
  <2>6. QED
    BY <2>4, <2>5
<1>9. CASE DbSucceeds
  <2> DEFINE c == Head(inflight).call
             w == Head(inflight).writes
  <2>1. /\ inflight # <<>> /\ inflight' = Tail(inflight)
        /\ db' = Over(w, db) /\ cache' = IF KindOf[c] = "clear" THEN cache ELSE Over(w, cache)
    BY <1>9 DEF DbSucceeds
  <2>2. /\ 1 \in 1 .. Len(inflight) /\ Head(inflight) = inflight[1]
        /\ \A i \in 1 .. Len(inflight') :
             inflight'[i] = inflight[i + 1] /\ i + 1 \in 1 .. Len(inflight)
    BY <2>1, TailEntries
  <2>3. /\ c \in Calls /\ ZoneOf[c] = currentZone /\ w \in Changes
        /\ currentZone \notin Transactional =>
             /\ DOMAIN w = {KeyOf[c]}
             /\ KindOf[c] \in {"store", "senderKey", "archive", "remove", "clear"}
             /\ KindOf[c] \in {"remove", "clear"} => w[KeyOf[c]] = NoRecord
    BY <2>2, SentBy
  <2>4. KindOf[c] = "clear" => /\ currentZone \notin Transactional
                               /\ ~ClearedWhileWritten(KeyOf[c]) => cache[KeyOf[c]] = NoRecord
    BY <2>2, <2>3, DisciplineAssumption DEF ClearedFirst
  <2>5. db \in [Keys -> Records] /\ cache \in [Keys -> Records] /\ KeyOf[c] \in Keys
    BY <2>3 DEF TypeOK
  <2> HIDE DEF c, w
  <2>6. CacheFits'
    <3> SUFFICES ASSUME NEW k \in Keys, ~ClearedWhileWritten(k)
                 PROVE  Follows(k)'
      BY DEF CacheFits, ClearedWhileWritten
    <3>1. Follows(k)
      BY DEF CacheFits
    <3>2. db'[k] = IF k \in DOMAIN w THEN w[k] ELSE db[k]
      BY <2>1, <2>5 DEF Over
    <3>3. CASE KindOf[c] = "clear"
      BY <2>1, <2>3, <2>4, <3>1, <3>2, <3>3 DEF Follows
    <3>4. CASE KindOf[c] # "clear"
      <4>1. cache'[k] = IF k \in DOMAIN w THEN w[k] ELSE cache[k]
        BY <2>1, <2>5, <3>4 DEF Over
      <4>2. QED
        BY <3>1, <3>2, <4>1 DEF Follows
    <3>5. QED
      BY <3>3, <3>4
  <2>7. ClearedFirst'
    <3>1. SUFFICES ASSUME NEW i \in 1 .. Len(inflight'),
                          KindOf[inflight'[i].call] = "clear",
                          ~ClearedWhileWritten(KeyOf[inflight'[i].call])
                   PROVE  cache'[KeyOf[inflight'[i].call]] = NoRecord
      BY DEF ClearedFirst, ClearedWhileWritten
    <3>2. PICK j \in 1 .. Len(inflight) : inflight'[i] = inflight[j]
      BY <2>2
    <3> DEFINE d == inflight[j].call
               k == KeyOf[d]
    <3>3. d \in Calls /\ ZoneOf[d] = currentZone /\ KindOf[d] = "clear" /\ ~ClearedWhileWritten(k)
      BY <3>1, <3>2, SentBy
    <3>4. currentZone \notin Transactional /\ cache[k] = NoRecord /\ k \in Keys
      BY <3>3, DisciplineAssumption DEF ClearedFirst
    <3>5. inflight'[i].call = d
      BY <3>2
    <3> HIDE DEF d
    <3>6. k \in DOMAIN w /\ KindOf[c] # "clear" => w[k] = NoRecord
      <4>1. SUFFICES ASSUME k \in DOMAIN w, KindOf[c] \in {"store", "senderKey", "archive"}
                     PROVE  FALSE
        BY <2>3, <3>4
      <4>2. KeyOf[c] = k
        BY <2>3, <3>4, <4>1
      <4>3. QED
        BY <2>3, <3>3, <4>1, <4>2 DEF ClearedWhileWritten
    <3>7. cache'[k] = NoRecord
      BY <2>1, <2>5, <3>4, <3>6 DEF Over
    <3>8. QED
      BY <3>5, <3>7
  <2>8. QED
    BY <2>6, <2>7
<1>10. CASE DbFails
  <2>1. inflight # <<>> /\ inflight' = Tail(inflight) /\ UNCHANGED <<cache, db>>
    BY <1>10 DEF DbFails
  <2>2. ClearedFirst'
    <3>1. SUFFICES ASSUME NEW i \in 1 .. Len(inflight'),
                          KindOf[inflight'[i].call] = "clear",
                          ~ClearedWhileWritten(KeyOf[inflight'[i].call])
                   PROVE  cache'[KeyOf[inflight'[i].call]] = NoRecord
      BY DEF ClearedFirst, ClearedWhileWritten
    <3>2. PICK j \in 1 .. Len(inflight) : inflight'[i] = inflight[j]
      BY <2>1, TailEntries
    <3>3. QED
      BY <2>1, <3>1, <3>2 DEF ClearedFirst
  <2>3. QED
    BY <1>1, <2>1, <2>2
<1>11. CASE UNCHANGED vars
  BY <1>1, <1>2, <1>11 DEF vars, data
<1>12. QED
  BY <1>4, <1>6, <1>7, <1>8, <1>9, <1>10, <1>11 DEF Next

\* When nothing is in progress, memory does not run ahead of the database, whatever failed
\* or was reverted: except for sessions that are cleared while they are written.
THEOREM CacheFollows ==
    ASSUME Discipline
    PROVE  Spec => []CacheFollowsDb
<1>1. ZonesInv /\ CacheInv /\ [Next]_vars => CacheInv'
  <2> SUFFICES ASSUME ZonesInv, CacheInv, [Next]_vars
               PROVE  CacheInv'
    OBVIOUS
  <2>1. TypeOK /\ LockInv /\ PlacesFit /\ PendingFits /\ EntriesFit /\ WritersWrite
    BY DEF ZonesInv, CacheInv
  <2>2. WritersWrite' /\ CacheFits' /\ ClearedFirst'
    BY <2>1, WritersStep, CacheStep
  <2>3. QED
    BY <2>2 DEF CacheInv
<1>2. CacheInv => CacheFollowsDb
  BY DEF CacheInv, CacheFits, Follows, CacheFollowsDb
<1>3. QED
  BY <1>1, <1>2, InitCache, ZonesInvariant, PTL DEF Spec
===============================================================================
