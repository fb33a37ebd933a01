----------------------------- MODULE SessionZones -----------------------------
(***************************************************************************)
(* The zones of ts/SignalProtocolStore.ts: a re-entrant asynchronous lock  *)
(* (withZone, enterZone, leaveZone, zoneQueue) over a cache of session and *)
(* sender key records and a database, with the changes of a zone kept      *)
(* pending until its outermost call commits or reverts them.               *)
(*                                                                         *)
(* Every operation of the store is a call of withZone, so a call is the    *)
(* unit here: it has a zone, a kind (what its body does), a key, and for a *)
(* nested call the call whose body makes it.  Calls interleave at every    *)
(* await.  The three pending maps (sender keys, sessions, unprocessed) are *)
(* swapped, committed and reverted together, so they are one map here.     *)
(***************************************************************************)
EXTENDS Naturals, Sequences, FiniteSets

CONSTANTS Calls,          \* the calls of withZone
          Zones, NoZone,
          Transactional,  \* zones whose options make changes pending (all but GLOBAL_ZONE)
          ZoneOf,         \* the zone argument of a call
          ParentOf,       \* the call whose body makes this call, or NoCall
          NoCall,
          KindOf,         \* what the body does
          Keys, KeyOf,    \* the record the body works on
          NoRecord,
          MaxFailures,    \* bound on the number of database calls that fail
          EndCommitFails, \* may the commit at the end of a zone fail?
          Orphans         \* may a body end before the calls it made? (timeouts)

\* task: a body that makes other calls (decryptAndCacheBatch, enqueueSessionJob);
\* store: storeSession; senderKey: saveSenderKey, which logs a failure and returns;
\* load: loadSession, getSenderKey; archive: _archiveSession; remove: removeSession;
\* clear: removeSessionsByConversation, removeSessionsByServiceId.
Kinds == {"task", "store", "senderKey", "load", "archive", "remove", "clear"}

ASSUME CallsAssumption ==
    /\ ZoneOf \in [Calls -> Zones]
    /\ KindOf \in [Calls -> Kinds]
    /\ KeyOf \in [Calls -> Keys]
    /\ ParentOf \in [Calls -> Calls \cup {NoCall}]
    /\ IsFiniteSet(Calls)
ASSUME ZonesAssumption ==
    /\ NoZone \notin Zones
    /\ NoCall \notin Calls
    /\ NoRecord \notin [by : Calls \cup {NoCall}, current : BOOLEAN]
    /\ Transactional \subseteq Zones
ASSUME BoundsAssumption ==
    /\ MaxFailures \in Nat
    /\ EndCommitFails \in BOOLEAN
    /\ Orphans \in BOOLEAN

\* The discipline of the callers: code inside a zone passes that zone on ("Not
\* entering the zone now would mean that we can take locks in different order"), and
\* removals and identity changes are made in the GLOBAL_ZONE.
ASSUME DisciplineAssumption ==
    \A c \in Calls :
        /\ ParentOf[c] # NoCall =>
                /\ ZoneOf[c] = ZoneOf[ParentOf[c]]
                /\ KindOf[ParentOf[c]] = "task"
        /\ KindOf[c] \in {"remove", "clear"} => ZoneOf[c] \notin Transactional

VARIABLES currentZone,  \* this.currentZone
          depth,        \* this.currentZoneDepth
          zoneQueue,    \* this.zoneQueue: the calls that wait for another zone
          pending,      \* pendingSessions (and the two other maps): changes not committed
          cache,        \* this.sessions (and senderKeys)
          db,           \* the database
          inflight,     \* database calls sent and not answered, answered in order
          pc,           \* where each call is
          failures,     \* database calls that failed so far
          seen,         \* history: what each load returned
          committed     \* history: the calls whose record reached the database

lock == <<currentZone, depth, zoneQueue>>
data == <<pending, cache, db, inflight>>
histories == <<failures, seen, committed>>
vars == <<lock, data, pc, histories>>

\* idle: not made; queued: waiting for the zone; body: in the body; writing: the body
\* awaits the database; returned, threw: the body is settled; committing, committed,
\* reverted: the outermost call awaits commitZoneChanges or revertZoneChanges, or has;
\* done, failed: withZone is settled and the zone left; abandoned: withZone is rejected
\* and the zone was not left.
Places == {"idle", "queued", "body", "writing", "returned", "threw", "committing",
           "committed", "reverted", "done", "failed", "abandoned"}
Settled == {"done", "failed", "abandoned"}
Using == {"body", "writing", "returned", "threw", "committing", "committed", "reverted"}

\* A record: which call stored it, and whether its session is still current.
Initial == [by |-> NoCall, current |-> TRUE]
Records == [by : Calls \cup {NoCall}, current : BOOLEAN] \cup {NoRecord}
Changes == UNION {[D -> Records] : D \in SUBSET Keys}
Nothing == [k \in {} |-> k]
Put(f, k, r) == [x \in DOMAIN f \cup {k} |-> IF x = k THEN r ELSE f[x]]
Over(f, g) == [x \in DOMAIN g |-> IF x \in DOMAIN f THEN f[x] ELSE g[x]]
Users == {c \in Calls : pc[c] \in Using}
Holding == {c \in Calls : pc[c] \in Using \cup {"abandoned"}}
Children(c) == {d \in Calls : ParentOf[d] = c}

Init ==
    /\ currentZone = NoZone
    /\ depth = 0
    /\ zoneQueue = <<>>
    /\ pending = Nothing
    /\ cache = [k \in Keys |-> Initial]
    /\ db = [k \in Keys |-> Initial]
    /\ inflight = <<>>
    /\ pc = [c \in Calls |-> "idle"]
    /\ failures = 0
    /\ seen = [c \in Calls |-> Initial]
    /\ committed = {NoCall}

-------------------------------------------------------------------------------
\* withZone, up to the start of the body: a call for another zone than the current
\* one waits; any other call enters, whatever is waiting.
MayBeMade(c) ==
    /\ pc[c] = "idle"
    /\ ParentOf[c] # NoCall => pc[ParentOf[c]] = "body"

Wait(c) ==
    /\ MayBeMade(c)
    /\ currentZone \notin {NoZone, ZoneOf[c]}
    /\ zoneQueue' = Append(zoneQueue, c)
    /\ pc' = [pc EXCEPT ![c] = "queued"]
    /\ UNCHANGED <<currentZone, depth, data, histories>>

Enter(c) ==
    /\ MayBeMade(c)
    /\ currentZone \in {NoZone, ZoneOf[c]}
    /\ depth' = depth + 1
    /\ currentZone' = IF depth = 0 THEN ZoneOf[c] ELSE currentZone
    /\ pc' = [pc EXCEPT ![c] = "body"]
    /\ UNCHANGED <<zoneQueue, data, histories>>

\* Slips: every waiting call is taken out, or the head alone.
FirstRunAll(n) == n = Len(zoneQueue)

FirstRunHead(n) == n = 1

\* The first n waiting calls are the ones leaveZone takes out together: the head and
\* the calls behind it that wait for the same zone.
FirstRun(n) ==
    /\ n \in 1..Len(zoneQueue)
    /\ \A i \in 1..n : ZoneOf[zoneQueue[i]] = ZoneOf[zoneQueue[1]]
    /\ n < Len(zoneQueue) => ZoneOf[zoneQueue[n + 1]] # ZoneOf[zoneQueue[1]]

\* leaveZone, as call c settles.  The callbacks of the calls taken out run in the
\* same step: each of them enters the zone of the first.
LeaveZone(c, outcome) ==
    \/ /\ depth > 1
       /\ depth' = depth - 1
       /\ pc' = [pc EXCEPT ![c] = outcome]
       /\ UNCHANGED <<currentZone, zoneQueue>>
    \/ /\ depth = 1
       /\ zoneQueue = <<>>
       /\ depth' = 0
       /\ currentZone' = NoZone
       /\ pc' = [pc EXCEPT ![c] = outcome]
       /\ UNCHANGED zoneQueue
    \/ /\ depth = 1
       /\ \E n \in 1..Len(zoneQueue) :
            /\ FirstRun(n)
            /\ depth' = n
            /\ currentZone' = ZoneOf[zoneQueue[1]]
            /\ zoneQueue' = SubSeq(zoneQueue, n + 1, Len(zoneQueue))
            /\ pc' = [x \in Calls |->
                        IF x = c THEN outcome
                        ELSE IF \E i \in 1..n : zoneQueue[i] = x THEN "body" ELSE pc[x]]

-------------------------------------------------------------------------------
\* The bodies.

\* commitZoneChanges: the pending changes are taken out and sent to the database.
Send(c, writes) == inflight' = Append(inflight, [call |-> c, writes |-> writes])

\* A record goes to the pending changes; a zone that does not keep changes pending
\* commits them at once, inside the body.
StoreRecord(c, r) ==
    IF ZoneOf[c] \in Transactional
    THEN /\ pending' = Put(pending, KeyOf[c], r)
         /\ pc' = [pc EXCEPT ![c] = "returned"]
         /\ UNCHANGED inflight
    ELSE /\ Send(c, Put(pending, KeyOf[c], r))
         /\ pending' = Nothing
         /\ pc' = [pc EXCEPT ![c] = "writing"]

Store(c) ==
    /\ pc[c] = "body"
    /\ KindOf[c] \in {"store", "senderKey"}
    /\ StoreRecord(c, [by |-> c, current |-> TRUE])
    /\ UNCHANGED <<lock, cache, db, histories>>

Lookup(k) == IF k \in DOMAIN pending THEN pending[k] ELSE cache[k]

Load(c) ==
    /\ pc[c] = "body"
    /\ KindOf[c] = "load"
    /\ seen' = [seen EXCEPT ![c] = Lookup(KeyOf[c])]
    /\ pc' = [pc EXCEPT ![c] = "returned"]
    /\ UNCHANGED <<lock, data, failures, committed>>

\* archiveCurrentState changes the record the cache holds, in place, before
\* storeSession is called with it.
Archive(c) ==
    /\ pc[c] = "body"
    /\ KindOf[c] = "archive"
    /\ LET k == KeyOf[c]
           r == Lookup(k)
       IN  IF r # NoRecord /\ r.current
           THEN /\ StoreRecord(c, [r EXCEPT !.current = FALSE])
                /\ cache' = IF k \in DOMAIN pending THEN cache
                            ELSE [cache EXCEPT ![k].current = FALSE]
                /\ UNCHANGED db
           ELSE /\ pc' = [pc EXCEPT ![c] = "returned"]
                /\ UNCHANGED data
    /\ UNCHANGED <<lock, histories>>

Remove(c) ==
    /\ pc[c] = "body"
    /\ KindOf[c] = "remove"
    /\ Send(c, Put(Nothing, KeyOf[c], NoRecord))
    /\ pc' = [pc EXCEPT ![c] = "writing"]
    /\ UNCHANGED <<lock, pending, cache, db, histories>>

\* The cached and pending entries go first, then the rows.
Clear(c) ==
    /\ pc[c] = "body"
    /\ KindOf[c] = "clear"
    /\ cache' = [cache EXCEPT ![KeyOf[c]] = NoRecord]
    /\ pending' = [k \in DOMAIN pending \ {KeyOf[c]} |-> pending[k]]
    /\ Send(c, Put(Nothing, KeyOf[c], NoRecord))
    /\ pc' = [pc EXCEPT ![c] = "writing"]
    /\ UNCHANGED <<lock, db, histories>>

\* A body that makes other calls ends when they are settled, or does not wait for
\* them (createTaskWithTimeout rejects and leaves its task running).
ChildrenSettled(c) == \A d \in Children(c) : pc[d] \in Settled \cup {"idle"}

EndTask(c) ==
    /\ pc[c] = "body"
    /\ KindOf[c] = "task"
    /\ Orphans \/ ChildrenSettled(c)
    /\ pc' \in {[pc EXCEPT ![c] = "returned"], [pc EXCEPT ![c] = "threw"]}
    /\ UNCHANGED <<lock, data, histories>>

-------------------------------------------------------------------------------
\* withZone, after the body.

\* Slips of commitZoneChanges and of the test of isInTopLevelZone: a nested call
\* commits; the cache is changed before the answer.
CommitNested(c) ==
    /\ pc[c] = "returned"
    /\ pending # Nothing
    /\ Send(c, pending)
    /\ pending' = Nothing
    /\ pc' = [pc EXCEPT ![c] = "committing"]
    /\ UNCHANGED <<lock, cache, db, histories>>

CommitCacheFirst(c) ==
    /\ pc[c] = "returned"
    /\ depth = 1
    /\ Send(c, pending)
    /\ cache' = Over(pending, cache)
    /\ pending' = Nothing
    /\ pc' = [pc EXCEPT ![c] = "committing"]
    /\ UNCHANGED <<lock, db, histories>>

\* The outermost call commits, and waits for the database before it leaves.
CommitZoneChanges(c) ==
    /\ pc[c] = "returned"
    /\ depth = 1
    /\ IF pending = Nothing
       THEN pc' = [pc EXCEPT ![c] = "committed"] /\ UNCHANGED <<pending, inflight>>
       ELSE /\ Send(c, pending)
            /\ pending' = Nothing
            /\ pc' = [pc EXCEPT ![c] = "committing"]
    /\ UNCHANGED <<lock, cache, db, histories>>

\* Slip: an error leaves the pending changes where they are.
RevertNothing(c) ==
    /\ pc[c] = "threw"
    /\ depth = 1
    /\ pc' = [pc EXCEPT ![c] = "reverted"]
    /\ UNCHANGED <<lock, data, histories>>

RevertZoneChanges(c) ==
    /\ pc[c] = "threw"
    /\ depth = 1
    /\ pending' = Nothing
    /\ pc' = [pc EXCEPT ![c] = "reverted"]
    /\ UNCHANGED <<lock, cache, db, inflight, histories>>

\* Slips: an error leaves the zone where it is caught and again at the end, or skips
\* leaveZone.
LeaveTwice(c) ==
    /\ \/ pc[c] = "committed" /\ LeaveZone(c, "done")
       \/ pc[c] = "returned" /\ depth > 1 /\ LeaveZone(c, "done")
       \/ /\ pc[c] = "reverted" \/ (pc[c] = "threw" /\ depth > 1)
          /\ depth' = depth - 2
          /\ pc' = [pc EXCEPT ![c] = "failed"]
          /\ UNCHANGED <<currentZone, zoneQueue>>
    /\ UNCHANGED <<data, histories>>

LeaveOnSuccess(c) ==
    /\ \/ pc[c] = "committed" /\ LeaveZone(c, "done")
       \/ pc[c] = "returned" /\ depth > 1 /\ LeaveZone(c, "done")
       \/ /\ pc[c] = "reverted" \/ (pc[c] = "threw" /\ depth > 1)
          /\ pc' = [pc EXCEPT ![c] = "failed"]
          /\ UNCHANGED lock
    /\ UNCHANGED <<data, histories>>

Leave(c) ==
    /\ \/ pc[c] = "committed" /\ LeaveZone(c, "done")
       \/ pc[c] = "returned" /\ depth > 1 /\ LeaveZone(c, "done")
       \/ pc[c] = "reverted" /\ LeaveZone(c, "failed")
       \/ pc[c] = "threw" /\ depth > 1 /\ LeaveZone(c, "failed")
    /\ UNCHANGED <<data, histories>>

-------------------------------------------------------------------------------
\* The database answers its calls in the order they were sent.  A body that waited
\* for it goes on; an outermost call leaves the zone.
DbSucceeds ==
    /\ inflight # <<>>
    /\ LET c == Head(inflight).call
           writes == Head(inflight).writes
       IN  /\ pc[c] \in {"writing", "committing"}
           /\ db' = Over(writes, db)
           /\ cache' = IF KindOf[c] = "clear" THEN cache ELSE Over(writes, cache)
           /\ pending' = IF KindOf[c] = "remove"
                         THEN [k \in DOMAIN pending \ {KeyOf[c]} |-> pending[k]]
                         ELSE pending
           /\ committed' = committed \cup
                {writes[k].by : k \in {x \in DOMAIN writes : writes[x] # NoRecord}}
           /\ pc' = [pc EXCEPT ![c] = IF pc[c] = "writing" THEN "returned" ELSE "committed"]
    /\ inflight' = Tail(inflight)
    /\ UNCHANGED <<lock, failures, seen>>

\* storeSession and the clearing operations rethrow, saveSenderKey and removeSession
\* do not.  A failed commit at the end rejects withZone outside of its try block: the
\* zone is not left.
DbFails ==
    /\ inflight # <<>>
    /\ failures < MaxFailures
    /\ LET c == Head(inflight).call
       IN  \/ /\ pc[c] = "writing"
              /\ pc' = [pc EXCEPT ![c] = IF KindOf[c] \in {"senderKey", "remove"}
                                         THEN "returned" ELSE "threw"]
           \/ /\ pc[c] = "committing"
              /\ EndCommitFails
              /\ pc' = [pc EXCEPT ![c] = "abandoned"]
    /\ inflight' = Tail(inflight)
    /\ failures' = failures + 1
    /\ UNCHANGED <<lock, pending, cache, db, seen, committed>>

-------------------------------------------------------------------------------
Step(c) ==
    \/ Store(c) \/ Load(c) \/ Archive(c) \/ Remove(c) \/ Clear(c) \/ EndTask(c)
    \/ CommitZoneChanges(c) \/ RevertZoneChanges(c) \/ Leave(c)

Next ==
    \/ \E c \in Calls : Wait(c) \/ Enter(c) \/ Step(c)
    \/ DbSucceeds \/ DbFails

Spec == Init /\ [][Next]_vars

\* Bodies end, and the database answers: its calls go through a worker that runs them
\* in order and reports success or failure.  Every call makes finitely many steps, so
\* it is enough that the program does not stop while there are steps to make.  Nobody
\* has to make a call.
FairSpec ==
    /\ Spec
    /\ WF_vars((\E c \in Calls : Step(c)) \/ DbSucceeds \/ DbFails)

-------------------------------------------------------------------------------
TypeOK ==
    /\ currentZone \in Zones \cup {NoZone}
    /\ depth \in Nat
    /\ zoneQueue \in Seq(Calls)
    /\ pending \in Changes
    /\ cache \in [Keys -> Records]
    /\ db \in [Keys -> Records]
    /\ inflight \in Seq([call : Calls, writes : Changes])
    /\ pc \in [Calls -> Places]
    /\ failures \in 0..MaxFailures
    /\ seen \in [Calls -> Records]
    /\ committed \subseteq Calls \cup {NoCall}

\* "Only one session transaction could be running at the same time": whatever awaits
\* interleave, all calls that are between enterZone and leaveZone have the current zone.
OneZoneAtATime == \A c \in Holding : ZoneOf[c] = currentZone

\* The depth counts the calls that have entered and not left, so the outermost call
\* is recognised however the calls of a zone overlap.
DepthCountsUsers ==
    /\ depth = Cardinality(Holding)
    /\ currentZone = NoZone <=> depth = 0

\* Nobody sleeps on a free zone, and the first in line waits for another zone than
\* the one that is open: the wake-up of leaveZone takes every call it can.
NoMissedWakeup ==
    /\ \A c \in Calls : pc[c] = "queued" <=> \E i \in DOMAIN zoneQueue : zoneQueue[i] = c
    /\ zoneQueue # <<>> => currentZone \notin {NoZone, ZoneOf[zoneQueue[1]]}

\* A transaction is in the database as a whole once its outermost call has committed, and
\* no part of it before, or when that call failed.  A transactional zone is made for
\* one outermost call (decryptAndCacheBatch makes a new Zone for each batch).
InZone(z) == {c \in Calls : ZoneOf[c] = z}
AllOrNothing ==
    \A c \in Calls : ParentOf[c] = NoCall /\ ZoneOf[c] \in Transactional =>
        IF pc[c] \in {"committed", "done"}
        THEN \A d \in InZone(ZoneOf[c]) :
                KindOf[d] \in {"store", "senderKey"} /\ pc[d] = "done" =>
                    \E e \in InZone(ZoneOf[c]) \cap committed : KeyOf[e] = KeyOf[d]
        ELSE InZone(ZoneOf[c]) \cap committed = {}

\* No dirty read: a record that a load returned was stored in the same zone, or was
\* in the database; a store that is reverted later is never seen outside its zone.
NoDirtyRead ==
    \A c \in Calls :
        seen[c] # NoRecord => seen[c].by \in committed \cup InZone(ZoneOf[c])

\* When nothing is in progress the cache holds what the database holds: a reverted
\* or failed transaction leaves no trace in memory.
CacheMatchesDb == pending = Nothing /\ inflight = <<>> => cache = db

\* The sessions that may be cleared while another call of the same zone writes them: the
\* answer to that write puts the record back into the cache, and the rows go after it.
ClearedWhileWritten(k) ==
    \E c, d \in Calls :
        /\ KindOf[c] = "clear" /\ KindOf[d] \in {"store", "senderKey", "archive"}
        /\ KeyOf[c] = k /\ KeyOf[d] = k
        /\ ZoneOf[c] = ZoneOf[d]

\* Short of a record that was changed in place and could not be written, and of sessions
\* that are forgotten though their rows are still there, memory does not run ahead of
\* the database: when nothing is in progress, a cached record is the one of the same
\* store, and it is current only when that one is.
CacheFollowsDb ==
    pending = Nothing /\ inflight = <<>> =>
        \A k \in Keys :
            cache[k] # NoRecord /\ ~ClearedWhileWritten(k) =>
                /\ db[k] # NoRecord
                /\ cache[k].by = db[k].by
                /\ cache[k].current => db[k].current

\* Every call of withZone settles, whatever fails, unless a failed commit has left the
\* zone it waits for locked (HeldOnlyByUsers).
EveryCallSettles ==
    <>[](\/ \A c \in Calls : pc[c] \in Settled \cup {"idle"}
         \/ \E c \in Calls : pc[c] = "abandoned")

\* leaveZone's comment: the zone is yielded when "there are no active zone users
\* anymore".  The zone is never held on behalf of nobody.
HeldOnlyByUsers == currentZone # NoZone => Users # {}

\* The abstract transactions: the stores of a transactional zone are tentative until
\* the database has answered the commit.
Tentative ==
    LET sent == IF inflight = <<>> THEN Nothing ELSE inflight[Len(inflight)].writes
    IN  IF currentZone \notin Transactional THEN Nothing
        ELSE [k \in DOMAIN pending \cup DOMAIN sent |->
                IF k \in DOMAIN pending THEN pending[k] ELSE sent[k]]

Transactions == INSTANCE ZoneTransactions WITH
    store <- db, owner <- currentZone, tentative <- Tentative

\* The lock, the depth and the swapped maps implement those transactions.
ImplementsTransactions == Transactions!Spec
===============================================================================
