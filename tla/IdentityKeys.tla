----------------------------- MODULE IdentityKeys -----------------------------
(***************************************************************************)
(* The identity keys of ts/SignalProtocolStore.ts: a cache over a table,   *)
(* updates serialised by one PQueue per service id inside a zone           *)
(* (_runOnIdentityQueue), records migrated from their old id when they are *)
(* first read, and removals that use neither queue nor zone.               *)
(*                                                                         *)
(* A task makes one request.  A nested task makes it from a body that      *)
(* already holds the receiver's zone, as MessageReceiver does through      *)
(* libsignal; any other enters the GLOBAL_ZONE for it.  The zone lock is   *)
(* the one SessionZones models in full: here a task holds it from its      *)
(* outermost entry to its end.  Tasks interleave at every await.  The      *)
(* database executes its calls in order and answers them in order; a crash *)
(* loses those not executed.                                               *)
(***************************************************************************)
EXTENDS Naturals, Sequences, FiniteSets, SequencesExt

CONSTANTS Tasks,
          Nested,       \* the tasks that hold the receiver's zone around their request
          ServiceIds,
          Keys,
          NoKey,
          Requests,     \* what may be asked of the store
          MaxFailures,  \* bound on database calls answered by an error
          MaxRestarts   \* bound on crashes

VARIABLES currentZone,  \* this.currentZone
          inZone,       \* the tasks inside it
          zoneQueue,    \* the tasks that wait for another zone
          queues,       \* the identity queue of each service id, its running job first
          pc,           \* where each task is
          request,      \* what it asks
          seen,         \* the record its body read
          cache,        \* this.identityKeys, by service id ...
          legacyCache,  \* ... and by conversation id, the old id of a record
          prev,         \* previousIdentityKey of the conversation
          db,           \* the identityKeys table, by service id ...
          legacyDb,     \* ... and by conversation id
          calls,        \* calls to the database not answered yet, in order
          failures, restarts,
          told,         \* history: the key of each contact that the user knows of
          mark,         \* history: what the user or a sync said last of a contact's key
          removed,      \* history: service ids whose record was ever removed
          cut           \* history: service ids with a write in flight at a crash

zones == <<currentZone, inZone, zoneQueue>>
memory == <<cache, legacyCache>>
disk == <<db, legacyDb, calls>>
limits == <<failures, restarts>>
history == <<told, mark, removed, cut>>
vars == <<zones, queues, pc, request, seen, memory, prev, disk, limits, history>>

Statuses == {"default", "verified", "unverified"}
Records == [key : Keys, firstUse : BOOLEAN, verified : Statuses, approved : BOOLEAN]
NoRecord == [key |-> NoKey, firstUse |-> FALSE, verified |-> "default", approved |-> FALSE]
Marks == [status : Statuses, key : Keys \cup {NoKey}]
NoMark == [status |-> "default", key |-> NoKey]

\* save: saveIdentity; approve: setApproval; verify: setVerified; sync:
\* updateIdentityAfterSync; load: getOrMigrateIdentityRecord outside the queue
\* (isTrustedIdentity, loadIdentityKey, getVerified); remove: removeIdentityKey.
Ops == {"save", "approve", "verify", "sync", "load", "remove"}
AllRequests == [op : Ops, sid : ServiceIds, key : Keys \cup {NoKey}, status : Statuses]
ASSUME RequestsAssumption ==
    /\ Requests \subseteq AllRequests /\ Nested \subseteq Tasks
    /\ \A r \in Requests : r.op \in {"save", "sync"} => r.key \in Keys
ASSUME KeysAssumption == NoKey \notin Keys
ASSUME BoundsAssumption == MaxFailures \in Nat /\ MaxRestarts \in Nat

\* outer: inside the receiver's zone, the request not made; zoneQueued: in zoneQueue; queued:
\* in the identity queue; read: the body has its record; migrating, unmigrating: it
\* writes the migrated record, removes the old one; writing: it awaits its write;
\* archiving: it archives the sibling sessions; removing: removeIdentityKey awaits the
\* database; settled: the request is; done: the zone is left too.
Places == {"idle", "outer", "zoneQueued", "queued", "read", "migrating", "unmigrating",
           "writing", "archiving", "removing", "settled", "done"}

Zone(t) == IF t \in Nested THEN "receiver" ELSE "global"
OnQueue(t) == request[t].op \notin {"load", "remove"}
Sid(t) == request[t].sid

Write(t, s, record, newMark) ==
    [op |-> "write", task |-> t, sid |-> s, record |-> record, mark |-> newMark]
Removal(t, s, op) ==
    [op |-> op, task |-> t, sid |-> s, record |-> NoRecord, mark |-> NoMark]
Calls == [op : {"write", "removeLegacy", "remove"}, task : Tasks, sid : ServiceIds,
          record : Records \cup {NoRecord}, mark : Marks]

\* The tables once the database has executed the first n calls; mark is what their rows
\* were said to be.
Among(n, s, ops) == {i \in 1 .. n : calls[i].sid = s /\ calls[i].op \in ops}
Execute(n) ==
    LET last(s, ops) == calls[Max(Among(n, s, ops))] IN
    /\ db' = [s \in ServiceIds |-> IF Among(n, s, {"write", "remove"}) = {} THEN db[s]
                                   ELSE last(s, {"write", "remove"}).record]
    /\ legacyDb' = [s \in ServiceIds |-> IF Among(n, s, {"removeLegacy"}) = {} THEN legacyDb[s]
                                         ELSE NoRecord]
    /\ mark' = [s \in ServiceIds |-> IF Among(n, s, {"write"}) = {} THEN mark[s]
                                     ELSE last(s, {"write"}).mark]
-------------------------------------------------------------------------------
FirstRecords == [key : Keys, firstUse : {TRUE}, verified : {"default"}, approved : {FALSE}]

\* A contact has a record, one under its old id, none but a previous key, or nothing.
Init ==
    /\ currentZone = "none" /\ inZone = {} /\ zoneQueue = <<>>
    /\ queues = [s \in ServiceIds |-> <<>>]
    /\ pc = [t \in Tasks |-> "idle"]
    /\ request \in [Tasks -> Requests]
    /\ \A t \in Nested : request[t].op = "save"
    /\ seen = [t \in Tasks |-> NoRecord]
    /\ cache \in [ServiceIds -> FirstRecords \cup {NoRecord}]
    /\ legacyCache \in [ServiceIds -> FirstRecords \cup {NoRecord}]
    /\ prev \in [ServiceIds -> Keys \cup {NoKey}]
    /\ \A s \in ServiceIds :
           Cardinality({i \in 1 .. 3 : <<cache[s].key, legacyCache[s].key, prev[s]>>[i] # NoKey})
             \in {0, 1}
    /\ db = cache /\ legacyDb = legacyCache
    /\ calls = <<>> /\ failures = 0 /\ restarts = 0
    /\ told = [s \in ServiceIds |->
                 IF cache[s] # NoRecord THEN cache[s].key
                 ELSE IF legacyCache[s] # NoRecord THEN legacyCache[s].key ELSE prev[s]]
    /\ mark = [s \in ServiceIds |-> NoMark]
    /\ removed = {} /\ cut = {}
-------------------------------------------------------------------------------
\* Zones: withZone around a task, and its end.

\* The members of a set, in the order they have in a sequence.
Lists(list, members, order) ==
    /\ ToSet(list) = members
    /\ \A m, n \in DOMAIN list : m < n =>
          \E a, b \in DOMAIN order : a < b /\ order[a] = list[m] /\ order[b] = list[n]

\* The tasks of a sequence enter their zone, those of left leave theirs.  A task that
\* enters for its request joins the identity queue of its service id.
Admit(entering, left) ==
    /\ pc' = [t \in Tasks |-> IF t \in left THEN "done"
                              ELSE IF t \notin ToSet(entering) THEN pc[t]
                              ELSE IF t \in Nested THEN "outer" ELSE "queued"]
    /\ \E joining \in [ServiceIds -> BoundedSeq(ToSet(entering), Len(entering))] :
           /\ \A s \in ServiceIds :
                  Lists(joining[s], {t \in ToSet(entering) \ Nested : Sid(t) = s}, entering)
           /\ queues' = [s \in ServiceIds |-> queues[s] \o joining[s]]
    /\ inZone' = (inZone \cup ToSet(entering)) \ left

\* Slip: the identity queue is joined before the zone is entered.
EnterZoneOnQueue(t) ==
    /\ pc[t] = "idle" /\ OnQueue(t)
    /\ IF t \notin Nested
       THEN /\ pc' = [pc EXCEPT ![t] = "queued"]
            /\ queues' = [queues EXCEPT ![Sid(t)] = Append(@, t)]
            /\ UNCHANGED zones
       ELSE IF currentZone \in {"none", Zone(t)}
       THEN Admit(<<t>>, {}) /\ currentZone' = Zone(t) /\ UNCHANGED zoneQueue
       ELSE /\ pc' = [pc EXCEPT ![t] = "zoneQueued"]
            /\ zoneQueue' = Append(zoneQueue, t)
            /\ UNCHANGED <<currentZone, inZone, queues>>
    /\ UNCHANGED <<request, seen, memory, prev, disk, limits, history>>

\* withZone, for the request or, nested, around it.
EnterZone(t) ==
    /\ pc[t] = "idle" /\ OnQueue(t)
    /\ IF currentZone \in {"none", Zone(t)}
       THEN Admit(<<t>>, {}) /\ currentZone' = Zone(t) /\ UNCHANGED zoneQueue
       ELSE /\ pc' = [pc EXCEPT ![t] = "zoneQueued"]
            /\ zoneQueue' = Append(zoneQueue, t)
            /\ UNCHANGED <<currentZone, inZone, queues>>
    /\ UNCHANGED <<request, seen, memory, prev, disk, limits, history>>

\* A nested task makes its request: its zone is re-entered at once.
AskNested(t) ==
    /\ pc[t] = "outer"
    /\ pc' = [pc EXCEPT ![t] = "queued"]
    /\ queues' = [queues EXCEPT ![Sid(t)] = Append(@, t)]
    /\ UNCHANGED <<zones, request, seen, memory, prev, disk, limits, history>>

\* The tasks at the head of zoneQueue that wait for the same zone.
NextToEnter ==
    LET same == {n \in 0 .. Len(zoneQueue) :
                   \A i \in 1 .. n : Zone(zoneQueue[i]) = Zone(zoneQueue[1])}
    IN SubSeq(zoneQueue, 1, CHOOSE n \in same : \A m \in same : m <= n)

\* leaveZone: the last task in the zone lets the next ones enter theirs.
LeaveZone(t) ==
    /\ pc[t] = "settled"
    /\ IF inZone = {t}
       THEN /\ Admit(NextToEnter, {t})
            /\ currentZone' = IF zoneQueue = <<>> THEN "none" ELSE Zone(zoneQueue[1])
            /\ zoneQueue' = SubSeq(zoneQueue, Len(NextToEnter) + 1, Len(zoneQueue))
       ELSE Admit(<<>>, {t}) /\ UNCHANGED <<currentZone, zoneQueue>>
    /\ UNCHANGED <<request, seen, memory, prev, disk, limits, history>>
-------------------------------------------------------------------------------
\* Reading: getOrMigrateIdentityRecord, in the body of a request at the head of its
\* queue, or by itself.

\* Slip: the identity queue runs its jobs concurrently.
MayReadAtOnce(t) == pc[t] = "queued" \/ (pc[t] = "idle" /\ request[t].op = "load")

First(t) == queues[Sid(t)] # <<>> /\ Head(queues[Sid(t)]) = t
MayRead(t) ==
    \/ pc[t] = "queued" /\ First(t)
    \/ pc[t] = "idle" /\ request[t].op = "load"

\* Slip: the old record is removed before the new one is written.
MigrateRemovesFirst(t) ==
    LET s == Sid(t) IN
    /\ MayRead(t)
    /\ cache[s] = NoRecord /\ legacyCache[s] # NoRecord
    /\ pc' = [pc EXCEPT ![t] = "migrating"]
    /\ seen' = [seen EXCEPT ![t] = legacyCache[s]]
    /\ calls' = calls \o <<Removal(t, s, "removeLegacy"), Write(t, s, legacyCache[s], mark[s])>>
    /\ UNCHANGED <<zones, queues, request, memory, prev, db, legacyDb, limits, history>>

\* The record is written under its new id ...
Migrate(t) ==
    LET s == Sid(t) IN
    /\ MayRead(t)
    /\ cache[s] = NoRecord /\ legacyCache[s] # NoRecord
    /\ pc' = [pc EXCEPT ![t] = "migrating"]
    /\ seen' = [seen EXCEPT ![t] = legacyCache[s]]
    /\ calls' = Append(calls, Write(t, s, legacyCache[s], mark[s]))
    /\ UNCHANGED <<zones, queues, request, memory, prev, db, legacyDb, limits, history>>

\* ... or read where it is, or missing.
Read(t) ==
    LET s == Sid(t) IN
    /\ MayRead(t)
    /\ cache[s] # NoRecord \/ legacyCache[s] = NoRecord
    /\ pc' = [pc EXCEPT ![t] = IF OnQueue(t) THEN "read" ELSE "done"]
    /\ seen' = [seen EXCEPT ![t] = cache[s]]
    /\ UNCHANGED <<zones, queues, request, memory, prev, disk, limits, history>>
-------------------------------------------------------------------------------
\* The bodies, once they have their record.

\* The request is settled and the next job of the queue starts.
Settle(t) ==
    /\ pc' = [pc EXCEPT ![t] = IF OnQueue(t) THEN "settled" ELSE "done"]
    /\ queues' = IF OnQueue(t) THEN [queues EXCEPT ![Sid(t)] = Tail(@)] ELSE queues

\* _saveIdentityKey calls the database before it touches the cache.
Send(t, record, newMark) ==
    /\ pc' = [pc EXCEPT ![t] = "writing"]
    /\ calls' = Append(calls, Write(t, Sid(t), record, newMark))
    /\ UNCHANGED queues

InBody(t, op) == pc[t] = "read" /\ request[t].op = op
BodyLeavesAlone == <<zones, request, seen, legacyCache, prev, db, legacyDb, limits, history>>

\* A key that is replaced loses its verification, and the loss shows.
ReplacedStatusResets(status) == "default"
ReplacedStatus(status) == IF status = "default" THEN "default" ELSE "unverified"

SaveNew(t) ==
    /\ InBody(t, "save")
    /\ seen[t] = NoRecord
    /\ Send(t, [key |-> request[t].key, firstUse |-> TRUE, verified |-> "default",
                approved |-> FALSE], mark[Sid(t)])
    /\ UNCHANGED <<BodyLeavesAlone, cache>>

SaveChanged(t) ==
    /\ InBody(t, "save")
    /\ seen[t] # NoRecord /\ seen[t].key # request[t].key
    /\ Send(t, [key |-> request[t].key, firstUse |-> FALSE,
                verified |-> ReplacedStatus(seen[t].verified), approved |-> FALSE],
            mark[Sid(t)])
    /\ UNCHANGED <<BodyLeavesAlone, cache>>

\* The same key: its record is written again while it is recent and not approved.
SaveSame(t) ==
    /\ InBody(t, "save")
    /\ seen[t].key = request[t].key
    /\ \/ ~seen[t].firstUse /\ ~seen[t].approved /\ Send(t, seen[t], mark[Sid(t)])
       \/ Settle(t) /\ UNCHANGED calls
    /\ UNCHANGED <<BodyLeavesAlone, cache>>

\* setApproval changes the record that the cache holds, then writes it.
Approve(t) ==
    LET s == Sid(t)  approved == [seen[t] EXCEPT !.approved = TRUE] IN
    /\ InBody(t, "approve")
    /\ IF seen[t] = NoRecord
       THEN Settle(t) /\ UNCHANGED <<calls, cache>>
       ELSE /\ cache' = IF cache[s] = seen[t] THEN [cache EXCEPT ![s] = approved] ELSE cache
            /\ Send(t, approved, mark[s])
    /\ UNCHANGED BodyLeavesAlone

\* Slip: setVerified does not throw when there is no record.
VerifyUnchecked(t) ==
    /\ InBody(t, "verify")
    /\ Send(t, [seen[t] EXCEPT !.verified = request[t].status],
            [status |-> request[t].status, key |-> seen[t].key])
    /\ UNCHANGED <<BodyLeavesAlone, cache>>

\* setVerified, with the attributes that _setVerified passes.
Verify(t) ==
    LET status == request[t].status
        extra == IF status = "default" THEN seen[t]
                 ELSE [seen[t] EXCEPT !.firstUse = FALSE, !.approved = TRUE]
    IN
    /\ InBody(t, "verify")
    /\ IF seen[t] = NoRecord
       THEN Settle(t) /\ UNCHANGED calls
       ELSE Send(t, [extra EXCEPT !.verified = status],
                 [status |-> status, key |-> seen[t].key])
    /\ UNCHANGED <<BodyLeavesAlone, cache>>

\* updateIdentityAfterSync: nothing is written, or announced, if key and status match.
Sync(t) ==
    LET r == request[t]  hadEntry == seen[t] # NoRecord IN
    /\ InBody(t, "sync")
    /\ IF seen[t].key = r.key /\ seen[t].verified = r.status
       THEN Settle(t) /\ UNCHANGED calls
       ELSE Send(t, [key |-> r.key, firstUse |-> ~hadEntry, verified |-> r.status,
                     approved |-> TRUE], [status |-> r.status, key |-> r.key])
    /\ UNCHANGED <<BodyLeavesAlone, cache>>

\* removeIdentityKey, outside the queue: the cache first, then the table.
RemoveKey(t) ==
    LET s == Sid(t) IN
    /\ pc[t] = "idle" /\ request[t].op = "remove"
    /\ pc' = [pc EXCEPT ![t] = "removing"]
    /\ cache' = [cache EXCEPT ![s] = NoRecord]
    /\ calls' = Append(calls, Removal(t, s, "remove"))
    /\ removed' = removed \cup {s}
    /\ UNCHANGED <<zones, queues, request, seen, legacyCache, prev, db, legacyDb, limits,
                   told, mark, cut>>
-------------------------------------------------------------------------------
\* The keychange event, and checkPreviousKey, which emits it for a key that is new to
\* the store but not to the conversation.
KeyChange(s, k) == told' = [told EXCEPT ![s] = k] /\ UNCHANGED prev
CheckPreviousKey(s, k) ==
    /\ told' = IF prev[s] = k THEN told ELSE [told EXCEPT ![s] = k]
    /\ prev' = [prev EXCEPT ![s] = NoKey]

\* Slip: the keychange event of a contact that has a record is left out.
AnnounceOnlyNew(t) ==
    IF request[t].op \notin {"save", "sync"} \/ seen[t] # NoRecord THEN UNCHANGED <<told, prev>>
    ELSE CheckPreviousKey(Sid(t), request[t].key)

\* What a body does about the key it wrote.
Announce(t) ==
    IF request[t].op \notin {"save", "sync"} \/ seen[t].key = request[t].key
    THEN UNCHANGED <<told, prev>>
    ELSE IF seen[t] = NoRecord THEN CheckPreviousKey(Sid(t), request[t].key)
    ELSE KeyChange(Sid(t), request[t].key)

\* Slip: the cache does not follow the table.
WriteAnsweredUncached(t) ==
    /\ calls # <<>> /\ Head(calls).op = "write" /\ Head(calls).task = t
    /\ pc[t] = "writing"
    /\ Execute(1)
    /\ calls' = Tail(calls)
    /\ Announce(t)
    /\ IF request[t].op = "save" /\ seen[t].key \notin {NoKey, request[t].key}
       THEN pc' = [pc EXCEPT ![t] = "archiving"] /\ UNCHANGED queues
       ELSE Settle(t)
    /\ UNCHANGED <<zones, request, seen, memory, limits, removed, cut>>

\* The write of a body: the cache follows, the change is announced, and a key that
\* saveIdentity replaced has its sibling sessions archived.
WriteAnswered(t) ==
    /\ calls # <<>> /\ Head(calls).op = "write" /\ Head(calls).task = t
    /\ pc[t] = "writing"
    /\ Execute(1)
    /\ calls' = Tail(calls)
    /\ cache' = [cache EXCEPT ![Sid(t)] = Head(calls).record]
    /\ Announce(t)
    /\ IF request[t].op = "save" /\ seen[t].key \notin {NoKey, request[t].key}
       THEN pc' = [pc EXCEPT ![t] = "archiving"] /\ UNCHANGED queues
       ELSE Settle(t)
    /\ UNCHANGED <<zones, request, seen, legacyCache, limits, removed, cut>>

\* The write of a migration: the cache follows and the old record is removed.
MigrationAnswered(t) ==
    LET s == Sid(t) IN
    /\ calls # <<>> /\ Head(calls).op = "write" /\ Head(calls).task = t
    /\ pc[t] = "migrating"
    /\ Execute(1)
    /\ cache' = [cache EXCEPT ![s] = Head(calls).record]
    /\ legacyCache' = [legacyCache EXCEPT ![s] = NoRecord]
    /\ calls' = Append(Tail(calls), Removal(t, s, "removeLegacy"))
    /\ pc' = [pc EXCEPT ![t] = "unmigrating"]
    /\ UNCHANGED <<zones, queues, request, seen, prev, limits, told, removed, cut>>

\* The removals: of the old record, after which the body goes on, and of the record.
RemovalAnswered(t) ==
    /\ calls # <<>> /\ Head(calls).op # "write" /\ Head(calls).task = t
    /\ Execute(1)
    /\ calls' = Tail(calls)
    /\ pc' = [pc EXCEPT ![t] = IF OnQueue(t) THEN "read" ELSE "done"]
    /\ UNCHANGED <<zones, queues, request, seen, memory, prev, limits, told, removed, cut>>

\* The database answers with an error, and the request rejects.
CallFails(t) ==
    /\ calls # <<>> /\ Head(calls).task = t
    /\ failures < MaxFailures
    /\ failures' = failures + 1
    /\ calls' = Tail(calls)
    /\ Settle(t)
    /\ UNCHANGED <<zones, request, seen, memory, prev, db, legacyDb, restarts, history>>

\* archiveSiblingSessions enters the zone of the request again.
Archive(t) ==
    /\ pc[t] = "archiving"
    /\ currentZone \in {"none", Zone(t)}
    /\ Settle(t)
    /\ UNCHANGED <<zones, request, seen, memory, prev, disk, limits, history>>

\* A crash after the database executed the first n calls; the caches are hydrated from
\* the tables, and tasks that were not made yet are made by the next process.
Restart(n) ==
    /\ restarts < MaxRestarts
    /\ restarts' = restarts + 1
    /\ Execute(n)
    /\ calls' = <<>>
    /\ cache' = db' /\ legacyCache' = legacyDb'
    /\ currentZone' = "none" /\ inZone' = {} /\ zoneQueue' = <<>>
    /\ queues' = [s \in ServiceIds |-> <<>>]
    /\ pc' = [t \in Tasks |-> IF pc[t] = "idle" THEN "idle" ELSE "done"]
    /\ cut' = cut \cup {calls[i].sid : i \in DOMAIN calls}
    /\ UNCHANGED <<request, seen, prev, failures, told, removed>>
Crash == \E n \in 0 .. Len(calls) : Restart(n)

Goes(t) ==
    \/ EnterZone(t) \/ AskNested(t) \/ LeaveZone(t)
    \/ Migrate(t) \/ Read(t)
    \/ SaveNew(t) \/ SaveChanged(t) \/ SaveSame(t)
    \/ Approve(t) \/ Verify(t) \/ Sync(t) \/ RemoveKey(t)
    \/ WriteAnswered(t) \/ MigrationAnswered(t) \/ RemovalAnswered(t) \/ Archive(t)

Next ==
    \/ \E t \in Tasks : Goes(t) \/ CallFails(t)
    \/ Crash

Spec == Init /\ [][Next]_vars

\* The database answers and the bodies, which wait for nothing else, go on.  A task makes
\* one request, so that it is enough that some task goes on while one can.
FairSpec == Spec /\ WF_vars(\E t \in Tasks : pc[t] # "idle" /\ Goes(t))
-------------------------------------------------------------------------------
TypeOK ==
    /\ currentZone \in {"none", "global", "receiver"} /\ inZone \subseteq Tasks
    /\ zoneQueue \in Seq(Tasks) /\ queues \in [ServiceIds -> Seq(Tasks)]
    /\ pc \in [Tasks -> Places] /\ request \in [Tasks -> Requests]
    /\ seen \in [Tasks -> Records \cup {NoRecord}]
    /\ cache \in [ServiceIds -> Records \cup {NoRecord}]
    /\ legacyCache \in [ServiceIds -> Records \cup {NoRecord}]
    /\ db \in [ServiceIds -> Records \cup {NoRecord}]
    /\ legacyDb \in [ServiceIds -> Records \cup {NoRecord}]
    /\ prev \in [ServiceIds -> Keys \cup {NoKey}] /\ told \in [ServiceIds -> Keys \cup {NoKey}]
    /\ calls \in Seq(Calls)
    /\ failures \in 0 .. MaxFailures /\ restarts \in 0 .. MaxRestarts
    /\ mark \in [ServiceIds -> Marks]
    /\ removed \subseteq ServiceIds /\ cut \subseteq ServiceIds

\* The properties leave out service ids whose record was removed: removeIdentityKey takes
\* no part in the queue, and a write in flight can put the record back in the cache.
Kept == ServiceIds \ removed

\* A body that has read its record writes from that record: no other update, migration
\* or restart changed it in between, so that none is lost (_runOnIdentityQueue).
NoLostUpdate ==
    \A t \in Tasks : pc[t] = "read" /\ Sid(t) \in Kept => seen[t] = cache[Sid(t)]

\* Between updates the cache is what the table says, but for an approval whose write
\* failed; a restart finds what the process believed.
SameButApproval(r, q) == [r EXCEPT !.approved = TRUE] = [q EXCEPT !.approved = TRUE]
CacheMatchesDb ==
    \A s \in Kept :
        (\A i \in DOMAIN calls : calls[i].sid # s) =>
            /\ SameButApproval(cache[s], db[s])
            /\ failures = 0 => cache[s] = db[s]

\* The key the store holds for a contact is the first it had or one whose change was
\* announced by a keychange event, whether a session, a profile or a sync brought it.
KeyChangesAreTold ==
    \A s \in Kept \ cut : cache[s] # NoRecord => cache[s].key = told[s]

\* A contact is verified only with the very key that was verified, and one that was
\* verified never falls back to the default on its own: a change of key shows.
VerificationShows ==
    \A s \in Kept :
        db[s] # NoRecord =>
            /\ db[s].verified = "verified" => mark[s] = [status |-> "verified", key |-> db[s].key]
            /\ db[s].verified = "default" <=> mark[s].status = "default"

\* Migration, with its crashes and failures, never leaves a contact without a record.
HasRow(s) == db[s] # NoRecord \/ legacyDb[s] # NoRecord
IdentitySurvives == [][\A s \in Kept' : HasRow(s) => HasRow(s)']_vars

\* Every request that was made settles and leaves its zone: the zones and the identity
\* queues are taken in one order ("take locks in different order here and in
\* MessageReceiver which will lead to a deadlock").
EveryRequestSettles == <>[](\A t \in Tasks : pc[t] \in {"idle", "done"})
===============================================================================
