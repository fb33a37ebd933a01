-------------------------------- MODULE Receiver --------------------------------
(***************************************************************************)
(* How the client takes envelopes from the server:                         *)
(* ts/textsecure/MessageReceiver.ts over the session store, the table of   *)
(* unprocessed envelopes (ts/sql/Server.ts) and the application            *)
(* (ts/background.ts).                                                     *)
(*                                                                         *)
(* An envelope that arrives is a copy with an id of its own.  Copies are   *)
(* collected into batches.  A batch is decrypted inside of the session     *)
(* store's zone, which commits the sessions and the rows of the batch at   *)
(* once; then the copies are acknowledged and what was decrypted goes on   *)
(* to the application, which confirms it, so that its row is removed.      *)
(* Rows that stay are queued again on the next connection or by a timer.   *)
(*                                                                         *)
(* A message key decrypts once: `used` is the part of the sessions that    *)
(* matters here.  The zone is the lock of SessionZones; calls in the       *)
(* GLOBAL_ZONE are one step each, enabled while no batch holds it.         *)
(*                                                                         *)
(* A delivery receipt that the sender did not encrypt (Envelope.Type       *)
(* RECEIPT) has no key and goes another way: its event is given to the     *)
(* application while its batch is decrypted, and no row is stored.         *)
(***************************************************************************)
EXTENDS Naturals, FiniteSets, SequencesExt

CONSTANTS NumEnvelopes,   \* envelopes the server has for us, oldest first
          Receipts,       \* those that are delivery receipts sent without encryption
          BatchSize,      \* maxSize of decryptAndCacheBatcher
          MaxAttempts,    \* MAX_UNPROCESSED_ATTEMPTS
          MaxArrivals,    \* bound on copies
          MaxConnections, \* bound on connections, of this process and later ones
          MaxFaults       \* bound on decryptions, commits and handlers that fail

Envelopes == 1 .. NumEnvelopes
Copies == 1 .. MaxArrivals   \* numbered by receivedAtCounter

ASSUME EnvelopesAssumption == NumEnvelopes \in Nat
ASSUME ReceiptsAssumption == Receipts \subseteq Envelopes
ASSUME BatchAssumption == BatchSize \in Nat \ {0, 1}
ASSUME LimitsAssumption ==
    /\ MaxAttempts \in Nat \ {0} /\ MaxArrivals \in Nat
    /\ MaxConnections \in Nat \ {0} /\ MaxFaults \in Nat

VARIABLES server,      \* envelopes the server has no acknowledgement for
          sent,        \* those it sent on this connection
          connection,  \* the number of the connection
          arrivals,    \* the envelope of each copy
          db,          \* the unprocessed rows: is it decrypted, and its attempts
          used,        \* envelopes whose message key the stored sessions have used
          incoming,    \* tasks of incomingQueue
          found,       \* what queueAllCached fetched and has yet to queue
          items,       \* items in decryptAndCacheBatcher
          waiting,     \* batches that wait to enter the zone
          zone,        \* where the batch in the zone is
          batch,       \* that batch
          encrypted,   \* tasks of encryptedQueue
          decrypted,   \* tasks of decryptedQueue
          app,         \* events in appQueue and the application's event queue
          errors,      \* copies whose decryption error the application has yet to see
          removing,    \* copies in cacheRemoveBatcher
          emptied, idleWait,   \* isEmptied; onEmpty waits for the batcher
          timer,       \* the retry timer is armed
          stopping,    \* stoppingProcessing
          faults,      \* how many decryptions, and how many commits and handlers, failed
          emptySent,   \* the server has said that its queue is empty
          ended,       \* history: envelopes handled, dropped, resent or out of attempts
          dispatched,  \* history: envelopes dispatched to the application
          troubled,    \* history: envelopes of which a decryption failed
          doubled,     \* history: those of rows queued again while or after they were decrypted
          outlived,    \* history: those decrypted after their task's timeout
          lost         \* history: receipts an event of which was thrown away

net == <<server, sent, connection, emptySent>>
disk == <<arrivals, db, used>>
pipeline == <<incoming, found, items, waiting, encrypted, decrypted, app, errors, removing>>
batching == <<zone, batch>>
flags == <<emptied, idleWait, timer, stopping>>
history == <<ended, dispatched, troubled, doubled, outlived, lost>>
vars == <<net, disk, pipeline, batching, flags, faults, history>>

\* A task, event or request: what it does, for which copy or envelope.
Task(op, n) == [op |-> op, n |-> n]
\* An item of a batch: a copy, its attempts and the connection that waits for its
\* response, 0 for a row queued again.
Item(c, attempts, conn) == [copy |-> c, attempts |-> attempts, conn |-> conn]
Env(c) == arrivals[c]
Faults == faults.errors + faults.failures

\* A batch: how many items are still to be decrypted, all of them, those that were
\* decrypted, the attempts of the copies that failed, the message keys used.
NoBatch == [left |-> 0, items |-> {}, ok |-> <<>>, failed |-> << >>, uses |-> {}]
NothingFound == [phase |-> "idle", ids |-> {}, rows |-> <<>>]
-------------------------------------------------------------------------------
\* A process starts with reset, which queues the rows first.  Some envelopes may have been
\* dealt with by then.
Init ==
    /\ ended \in SUBSET Envelopes /\ server = Envelopes \ ended
    /\ sent = {} /\ connection = 1
    /\ emptySent = FALSE
    /\ arrivals = <<>> /\ db = << >> /\ used = {}
    /\ incoming = <<Task("fetch", 0)>> /\ found = NothingFound
    /\ items = <<>> /\ waiting = <<>> /\ zone = "free" /\ batch = NoBatch
    /\ encrypted = <<>> /\ decrypted = <<>> /\ app = <<>>
    /\ errors = {} /\ removing = {}
    /\ emptied = FALSE /\ idleWait = FALSE /\ timer = FALSE /\ stopping = FALSE
    /\ faults = [errors |-> 0, failures |-> 0]
    /\ dispatched = {} /\ troubled = {} /\ doubled = {} /\ outlived = {}
    /\ lost = {}
-------------------------------------------------------------------------------
(* The server. *)

\* The requests that were received and have yet to become copies.
Requests == {i \in DOMAIN incoming : incoming[i].op = "request"}

\* It sends what is not acknowledged, oldest first, once on each connection ...
Deliver ==
    /\ ~stopping
    /\ Len(arrivals) + Cardinality(Requests) < MaxArrivals
    /\ \E e \in server \ sent :
        /\ \A f \in server \ sent : e <= f
        /\ sent' = sent \cup {e}
        /\ incoming' = Append(incoming, [op |-> "request", n |-> e, conn |-> connection])
    /\ UNCHANGED <<server, connection, emptySent, disk, found, items, waiting,
                   encrypted, decrypted, app, errors, removing, batching, flags,
                   faults, history>>

\* ... and then says that its queue is empty.
SayEmpty ==
    /\ ~stopping /\ ~emptySent
    /\ server \subseteq sent
    /\ emptySent' = TRUE
    /\ incoming' = Append(incoming, Task("empty", 0))
    /\ UNCHANGED <<server, sent, connection, disk, found, items, waiting, encrypted,
                   decrypted, app, errors, removing, batching, flags, faults, history>>
-------------------------------------------------------------------------------
(* incomingQueue and the batcher. *)

\* Slip of AddItem: the batch is sent off by the item after the one that fills it.
AddItemLate(item) ==
    LET all == Append(items, item) IN
    IF Len(all) > BatchSize
    THEN items' = <<>> /\ waiting' = Append(waiting, all)
    ELSE items' = all /\ UNCHANGED waiting

\* add of decryptAndCacheBatcher: the item that fills a batch sends it off.
AddItem(item) ==
    LET all == Append(items, item) IN
    IF Len(all) >= BatchSize
    THEN items' = <<>> /\ waiting' = Append(waiting, all)
    ELSE items' = all /\ UNCHANGED waiting

\* The timer of the batcher, which is armed while it has items.
KickBatchOff ==
    /\ items # <<>>
    /\ items' = <<>> /\ waiting' = Append(waiting, items)
    /\ UNCHANGED <<net, disk, incoming, found, encrypted, decrypted, app, errors,
                   removing, batching, flags, faults, history>>

\* An envelope becomes a copy.
HandleRequest ==
    /\ incoming # <<>> /\ Head(incoming).op = "request"
    /\ incoming' = Tail(incoming)
    /\ arrivals' = Append(arrivals, Head(incoming).n)
    /\ AddItem(Item(Len(arrivals) + 1, 0, Head(incoming).conn))
    /\ UNCHANGED <<net, db, used, found, encrypted, decrypted, app, errors, removing,
                   batching, flags, faults, history>>

\* onEmpty waits until the batcher is idle ...
HandleEmpty ==
    /\ incoming # <<>> /\ Head(incoming).op = "empty"
    /\ incoming' = Tail(incoming)
    /\ idleWait' = TRUE
    /\ UNCHANGED <<net, disk, found, items, waiting, encrypted, decrypted, app, errors,
                   removing, batching, emptied, timer, stopping, faults, history>>

\* ... and then goes through incomingQueue, encryptedQueue and decryptedQueue.
BatcherIdle ==
    /\ idleWait /\ items = <<>>
    /\ idleWait' = FALSE
    /\ incoming' = Append(incoming, Task("idle", 0))
    /\ UNCHANGED <<net, disk, found, items, waiting, encrypted, decrypted, app, errors,
                   removing, batching, emptied, timer, stopping, faults, history>>

WaitForIncoming ==
    /\ incoming # <<>> /\ Head(incoming).op = "idle"
    /\ incoming' = Tail(incoming)
    /\ encrypted' = Append(encrypted, Task("empty", 0))
    /\ UNCHANGED <<net, disk, found, items, waiting, decrypted, app, errors, removing,
                   batching, flags, faults, history>>
-------------------------------------------------------------------------------
(* queueAllCached. *)

\* The ids of the rows, without those that have no attempts left; or nothing at all.
GetAllUnprocessedIds ==
    /\ incoming # <<>> /\ Head(incoming).op = "fetch" /\ found.phase = "idle"
    /\ IF stopping
       THEN incoming' = Tail(incoming) /\ UNCHANGED <<db, found, ended>>
       ELSE LET worn == {c \in DOMAIN db : db[c].attempts >= MaxAttempts} IN
            /\ zone = "free"
            /\ db' = Restrict(db, DOMAIN db \ worn)
            /\ ended' = ended \cup {Env(c) : c \in worn}
            /\ found' = [NothingFound EXCEPT !.phase = "ids", !.ids = DOMAIN db']
            /\ UNCHANGED incoming
    /\ UNCHANGED <<net, arrivals, used, items, waiting, encrypted, decrypted, app, errors,
                   removing, batching, flags, faults, dispatched, troubled, doubled,
                   outlived, lost>>

\* The task ends when all rows are queued.
FetchDone(rows) ==
    IF rows = <<>>
    THEN found' = NothingFound /\ incoming' = Tail(incoming)
    ELSE found' = [phase |-> "rows", ids |-> {}, rows |-> rows] /\ UNCHANGED incoming

\* Slip of GetUnprocessed: no ORDER BY.
GetUnprocessedUnordered ==
    /\ found.phase = "ids" /\ zone = "free"
    /\ LET ids == found.ids \cap DOMAIN db IN
       /\ db' = [c \in DOMAIN db |->
                    IF c \in ids THEN [db[c] EXCEPT !.attempts = @ + 1] ELSE db[c]]
       /\ \E rows \in SetToSeqs(ids) :
            FetchDone([i \in DOMAIN rows |->
                          [copy |-> rows[i], plain |-> db'[rows[i]].plain,
                           attempts |-> db'[rows[i]].attempts]])
    /\ UNCHANGED <<net, arrivals, used, items, waiting, encrypted, decrypted, app,
                   errors, removing, batching, flags, faults, history>>

\* The rows, oldest first, each with one more attempt.
GetUnprocessed ==
    /\ found.phase = "ids" /\ zone = "free"
    /\ LET ids == found.ids \cap DOMAIN db IN
       /\ db' = [c \in DOMAIN db |->
                    IF c \in ids THEN [db[c] EXCEPT !.attempts = @ + 1] ELSE db[c]]
       /\ \E rows \in [1 .. Cardinality(ids) -> ids] :
           /\ \A m, n \in DOMAIN rows : m < n => rows[m] < rows[n]
           /\ FetchDone([i \in DOMAIN rows |->
                          [copy |-> rows[i], plain |-> db'[rows[i]].plain,
                           attempts |-> db'[rows[i]].attempts]])
    /\ UNCHANGED <<net, arrivals, used, items, waiting, encrypted, decrypted, app,
                   errors, removing, batching, flags, faults, history>>

\* The copies of the batch that were decrypted.
InOk == {item.copy : item \in ToSet(batch.ok)}

\* The decrypt tasks of encryptedQueue.
Tasks == {i \in DOMAIN encrypted : encrypted[i].op = "decrypt"}

\* The copies that wait to be decrypted, or were decrypted and not committed.
Undecrypted ==
    {items[i].copy : i \in DOMAIN items}
    \cup {encrypted[i].item.copy : i \in Tasks}
    \cup InOk \cup DOMAIN batch.failed
    \cup UNION {{waiting[i][k].copy : k \in DOMAIN waiting[i]} : i \in DOMAIN waiting}

\* A decrypted row goes to encryptedQueue, which hands it on; any other row is an item.
QueueCached ==
    /\ found.phase = "rows"
    /\ LET row == Head(found.rows) IN
       /\ FetchDone(Tail(found.rows))
       /\ IF row.plain
          THEN /\ encrypted' = Append(encrypted, Task("cached", row.copy))
               /\ UNCHANGED <<items, waiting, doubled>>
          ELSE /\ AddItem(Item(row.copy, row.attempts, 0))
               /\ doubled' = IF \/ row.copy \in Undecrypted
                                \/ row.copy \in DOMAIN db /\ db[row.copy].plain
                             THEN doubled \cup {Env(row.copy)} ELSE doubled
               /\ UNCHANGED encrypted
    /\ UNCHANGED <<net, disk, decrypted, app, errors, removing, batching, flags, faults,
                   ended, dispatched, troubled, outlived, lost>>

\* The retry timer.
RetryCached ==
    /\ timer
    /\ timer' = FALSE
    /\ incoming' = Append(incoming, Task("fetch", 0))
    /\ UNCHANGED <<net, disk, found, items, waiting, encrypted, decrypted, app, errors,
                   removing, batching, emptied, idleWait, stopping, faults, history>>
-------------------------------------------------------------------------------
(* decryptAndCacheBatch. *)

\* The batch enters the zone and its items go to encryptedQueue.
EnterZone ==
    /\ waiting # <<>> /\ zone = "free"
    /\ zone' = "open"
    /\ waiting' = Tail(waiting)
    /\ batch' = [NoBatch EXCEPT
                    !.left = Len(Head(waiting)),
                    !.items = ToSet(Head(waiting))]
    /\ encrypted' = encrypted \o
            [i \in DOMAIN Head(waiting) |-> [op |-> "decrypt", item |-> Head(waiting)[i]]]
    /\ UNCHANGED <<net, disk, incoming, found, items, decrypted, app, errors, removing,
                   flags, faults, history>>

Decrypting == encrypted # <<>> /\ Head(encrypted).op = "decrypt"
NextItem == Head(encrypted).item
Failed(item) ==
    [c \in DOMAIN batch.failed \cup {item.copy} |->
        IF c = item.copy THEN item.attempts ELSE batch.failed[c]]

\* unsealEnvelope and decryptEnvelope throw once the receiver is told to stop.
DecryptStopped ==
    /\ Decrypting /\ stopping
    /\ encrypted' = Tail(encrypted)
    /\ batch' = [batch EXCEPT !.left = @ - 1, !.failed = Failed(NextItem)]
    /\ troubled' = troubled \cup {Env(NextItem.copy)}
    /\ UNCHANGED <<net, disk, incoming, found, items, waiting, decrypted, app, errors,
                   removing, zone, flags, faults, ended, dispatched, doubled, outlived, lost>>

\* Dropped before it is decrypted: it is for a service id we do not know, which is asked
\* first, or sealed and for our PNI.  Its row stays if it has one.
DecryptDropsEarly ==
    /\ Decrypting /\ Faults < MaxFaults
    /\ faults' = [faults EXCEPT !.errors = @ + 1]
    /\ encrypted' = Tail(encrypted)
    /\ batch' = [batch EXCEPT !.left = @ - 1]
    /\ ended' = ended \cup {Env(NextItem.copy)}
    /\ UNCHANGED <<net, disk, incoming, found, items, waiting, decrypted, app, errors,
                   removing, zone, flags, dispatched, troubled, doubled, outlived, lost>>

\* An error that nobody is told of: the envelope cannot be unsealed, or is not valid.
DecryptThrows ==
    /\ Decrypting /\ ~stopping /\ Faults < MaxFaults
    /\ faults' = [faults EXCEPT !.errors = @ + 1]
    /\ encrypted' = Tail(encrypted)
    /\ batch' = [batch EXCEPT !.left = @ - 1, !.failed = Failed(NextItem)]
    /\ troubled' = troubled \cup {Env(NextItem.copy)}
    /\ UNCHANGED <<net, disk, incoming, found, items, waiting, decrypted, app, errors,
                   removing, zone, flags, ended, dispatched, doubled, outlived, lost>>

\* Slip of DecryptReceipt: the event is forgotten.
DecryptReceiptQuietly ==
    /\ Decrypting /\ ~stopping
    /\ Env(NextItem.copy) \in Receipts
    /\ encrypted' = Tail(encrypted)
    /\ batch' = [batch EXCEPT !.left = @ - 1]
    /\ UNCHANGED <<net, disk, incoming, found, items, waiting, decrypted, app, errors,
                   removing, zone, flags, faults, history>>

\* onDeliveryReceipt: the event is in appQueue before the batch is committed, and there is
\* no plaintext to store.
DecryptReceipt ==
    /\ Decrypting /\ ~stopping
    /\ Env(NextItem.copy) \in Receipts
    /\ encrypted' = Tail(encrypted)
    /\ batch' = [batch EXCEPT !.left = @ - 1]
    /\ app' = Append(app, Task("event", NextItem.copy))
    /\ dispatched' = dispatched \cup {Env(NextItem.copy)}
    /\ UNCHANGED <<net, disk, incoming, found, items, waiting, decrypted, errors, removing,
                   zone, flags, faults, ended, troubled, doubled, outlived, lost>>

\* Anything else has content that is decrypted.
DecryptingContent == Decrypting /\ ~stopping /\ Env(NextItem.copy) \notin Receipts

Spent == used \cup batch.uses

\* "message with old counter": the copy fails, and its row is removed later.
DecryptDuplicate ==
    /\ DecryptingContent
    /\ Env(NextItem.copy) \in Spent
    /\ encrypted' = Tail(encrypted)
    /\ batch' = [batch EXCEPT !.left = @ - 1, !.failed = Failed(NextItem)]
    /\ removing' = removing \cup {NextItem.copy}
    /\ troubled' = troubled \cup {Env(NextItem.copy)}
    /\ UNCHANGED <<net, disk, incoming, found, items, waiting, decrypted, app, errors, zone,
                   flags, faults, ended, dispatched, doubled, outlived, lost>>

DecryptSucceeds ==
    /\ DecryptingContent
    /\ Env(NextItem.copy) \notin Spent
    /\ encrypted' = Tail(encrypted)
    /\ batch' = [batch EXCEPT !.left = @ - 1, !.ok = Append(@, NextItem),
                              !.uses = @ \cup {Env(NextItem.copy)}]
    /\ UNCHANGED <<net, disk, incoming, found, items, waiting, decrypted, app, errors,
                   removing, zone, flags, faults, history>>

\* Decrypted, and dropped: its sender is blocked, it is a story we do not want, or all that
\* it is for was done on the way.  What was not encrypted at all spends no key.
DecryptDrops ==
    /\ DecryptingContent /\ Faults < MaxFaults
    /\ Env(NextItem.copy) \notin Spent
    /\ faults' = [faults EXCEPT !.errors = @ + 1]
    /\ encrypted' = Tail(encrypted)
    /\ \E spent \in SUBSET {Env(NextItem.copy)} :
        batch' = [batch EXCEPT !.left = @ - 1, !.uses = @ \cup spent]
    /\ removing' = removing \cup {NextItem.copy}
    /\ ended' = ended \cup {Env(NextItem.copy)}
    /\ UNCHANGED <<net, disk, incoming, found, items, waiting, decrypted, app, errors, zone,
                   flags, dispatched, troubled, doubled, outlived, lost>>

\* An error after which nothing is asked for again: of a blocked sender or a PNI, without a
\* known device, or of a session job that took too long and may yet use the key.
DecryptRejected ==
    /\ DecryptingContent /\ Faults < MaxFaults
    /\ Env(NextItem.copy) \notin Spent
    /\ faults' = [faults EXCEPT !.errors = @ + 1]
    /\ encrypted' = Tail(encrypted)
    /\ \E spent \in SUBSET {Env(NextItem.copy)} :
        batch' = [batch EXCEPT !.left = @ - 1, !.failed = Failed(NextItem),
                                !.uses = @ \cup spent]
    /\ removing' = removing \cup {NextItem.copy}
    /\ troubled' = troubled \cup {Env(NextItem.copy)}
    /\ ended' = ended \cup {Env(NextItem.copy)}
    /\ UNCHANGED <<net, disk, incoming, found, items, waiting, decrypted, app, errors, zone,
                   flags, dispatched, doubled, outlived, lost>>

\* Any other error of a decryption: the application will be told of it.
DecryptFails ==
    /\ DecryptingContent /\ Faults < MaxFaults
    /\ Env(NextItem.copy) \notin Spent
    /\ faults' = [faults EXCEPT !.errors = @ + 1]
    /\ encrypted' = Tail(encrypted)
    /\ batch' = [batch EXCEPT !.left = @ - 1, !.failed = Failed(NextItem)]
    /\ decrypted' = Append(decrypted, Task("error", NextItem.copy))
    /\ troubled' = troubled \cup {Env(NextItem.copy)}
    /\ UNCHANGED <<net, disk, incoming, found, items, waiting, app, errors, removing, zone,
                   flags, ended, dispatched, doubled, outlived, lost>>

\* The task times out, the copy fails, and the decryption goes on inside of the zone.
DecryptTimesOut ==
    /\ DecryptingContent /\ Faults < MaxFaults
    /\ Env(NextItem.copy) \notin Spent
    /\ faults' = [faults EXCEPT !.errors = @ + 1]
    /\ encrypted' = Tail(encrypted)
    /\ batch' = [batch EXCEPT !.left = @ - 1, !.failed = Failed(NextItem),
                              !.uses = @ \cup {Env(NextItem.copy)}]
    /\ outlived' = outlived \cup {Env(NextItem.copy)}
    /\ troubled' = troubled \cup {Env(NextItem.copy)}
    /\ UNCHANGED <<net, disk, incoming, found, items, waiting, decrypted, app, errors,
                   removing, zone, flags, ended, dispatched, doubled, lost>>

\* The row of a copy that was decrypted.
DecryptedRow(c) ==
    [plain |-> TRUE, attempts |-> (CHOOSE item \in ToSet(batch.ok) : item.copy = c).attempts]

\* Slip of Commit: the envelopes that failed are not saved.
CommitDecryptedOnly ==
    /\ zone = "open" /\ batch.left = 0
    /\ zone' = "saved"
    /\ used' = Spent
    /\ db' = [c \in DOMAIN db \cup InOk |-> IF c \in InOk THEN DecryptedRow(c) ELSE db[c]]
    /\ UNCHANGED <<net, arrivals, pipeline, batch, flags, faults, history>>

\* commitDecryptResult: the sessions and the rows of the batch in one transaction.
\* addMultipleUnprocessed puts the failed ones after the others.
Commit ==
    /\ zone = "open" /\ batch.left = 0
    /\ zone' = "saved"
    /\ used' = Spent
    /\ db' = [c \in DOMAIN db \cup InOk \cup DOMAIN batch.failed |->
                IF c \in DOMAIN batch.failed
                THEN [plain |-> FALSE, attempts |-> batch.failed[c]]
                ELSE IF c \in InOk THEN DecryptedRow(c) ELSE db[c]]
    /\ UNCHANGED <<net, arrivals, pipeline, batch, flags, faults, history>>

\* The commit is rejected: 500 for every item, and nobody leaves the zone.
CommitFails ==
    /\ zone = "open" /\ batch.left = 0 /\ Faults < MaxFaults
    /\ faults' = [faults EXCEPT !.failures = @ + 1]
    /\ zone' = "stuck"
    /\ batch' = NoBatch
    /\ UNCHANGED <<net, disk, pipeline, flags, history>>

\* The copies are acknowledged, if their connection still stands, and what was
\* decrypted is queued; behind it the retry timer is set.
CommitAnswered ==
    /\ zone = "saved"
    /\ zone' = "free"
    /\ server' = server \
            {Env(item.copy) : item \in {item \in batch.items : item.conn = connection}}
    /\ decrypted' = decrypted \o [i \in DOMAIN batch.ok |-> Task("event", batch.ok[i].copy)]
                              \o <<Task("schedule", 0)>>
    /\ batch' = NoBatch
    /\ UNCHANGED <<sent, connection, emptySent, disk, incoming, found, items, waiting,
                   encrypted, app, errors, removing, flags, faults, history>>
-------------------------------------------------------------------------------
(* encryptedQueue, decryptedQueue and the application. *)

\* What is already decrypted, and the end of onEmpty, pass through encryptedQueue.
PassOn ==
    /\ encrypted # <<>> /\ Head(encrypted).op \in {"cached", "empty"}
    /\ encrypted' = Tail(encrypted)
    /\ decrypted' = Append(decrypted,
            IF Head(encrypted).op = "empty" THEN Head(encrypted)
                                            ELSE Task("event", Head(encrypted).n))
    /\ UNCHANGED <<net, disk, incoming, found, items, waiting, app, errors, removing,
                   batching, flags, faults, history>>

NextDecrypted(op) == decrypted # <<>> /\ Head(decrypted).op = op

\* handleDecryptedEnvelope: the event is dispatched, unless the receiver is stopping.
HandleDecrypted ==
    /\ NextDecrypted("event")
    /\ decrypted' = Tail(decrypted)
    /\ IF stopping
       THEN UNCHANGED <<app, dispatched>>
       ELSE /\ app' = Append(app, Head(decrypted))
            /\ dispatched' = dispatched \cup {Env(Head(decrypted).n)}
    /\ UNCHANGED <<net, disk, incoming, found, items, waiting, encrypted, errors, removing,
                   batching, flags, faults, ended, troubled, doubled, outlived, lost>>

DispatchError ==
    /\ NextDecrypted("error")
    /\ decrypted' = Tail(decrypted)
    /\ errors' = errors \cup {Head(decrypted).n}
    /\ UNCHANGED <<net, disk, incoming, found, items, waiting, encrypted, app, removing,
                   batching, flags, faults, history>>

WaitForDecrypted ==
    /\ NextDecrypted("empty")
    /\ decrypted' = Tail(decrypted)
    /\ app' = Append(app, Head(decrypted))
    /\ UNCHANGED <<net, disk, incoming, found, items, waiting, encrypted, errors, removing,
                   batching, flags, faults, history>>

ScheduleRetry ==
    /\ NextDecrypted("schedule")
    /\ decrypted' = Tail(decrypted)
    /\ timer' = (timer \/ emptied)
    /\ UNCHANGED <<net, disk, incoming, found, items, waiting, encrypted, app, errors,
                   removing, batching, emptied, idleWait, stopping, faults, history>>

\* emitEmpty flushes the batchers, and the empty event is dispatched.
EmitEmpty ==
    /\ app # <<>> /\ Head(app).op = "empty"
    /\ items = <<>> /\ removing = {}
    /\ app' = Tail(app)
    /\ emptied' = TRUE /\ timer' = TRUE
    /\ UNCHANGED <<net, disk, incoming, found, items, waiting, encrypted, decrypted, errors,
                   removing, batching, idleWait, stopping, faults, history>>

\* The application handles an event and confirms it ...
AppHandles ==
    /\ app # <<>> /\ Head(app).op = "event"
    /\ app' = Tail(app)
    /\ ended' = ended \cup {Env(Head(app).n)}
    /\ removing' = removing \cup {Head(app).n}
    /\ UNCHANGED <<net, disk, incoming, found, items, waiting, encrypted, decrypted, errors,
                   batching, flags, faults, dispatched, troubled, doubled, outlived, lost>>

\* Receipts of which there is an event in the list.
ReceiptsIn(list) ==
    {Env(list[i].n) : i \in {i \in DOMAIN list : list[i].op = "event"}} \cap Receipts

\* ... or throws.
AppThrows ==
    /\ app # <<>> /\ Head(app).op = "event" /\ Faults < MaxFaults
    /\ faults' = [faults EXCEPT !.failures = @ + 1]
    /\ app' = Tail(app)
    /\ lost' = lost \cup ({Env(Head(app).n)} \cap Receipts)
    /\ UNCHANGED <<net, disk, incoming, found, items, waiting, encrypted, decrypted, errors,
                   removing, batching, flags, ended, dispatched, troubled, doubled, outlived>>

\* onDecryptionError asks for the message again and confirms, once the queue it is in
\* was started by the empty event.
AppSeesError ==
    /\ emptied
    /\ \E c \in errors :
        /\ errors' = errors \ {c}
        /\ removing' = removing \cup {c}
        /\ ended' = ended \cup {Env(c)}
    /\ UNCHANGED <<net, disk, incoming, found, items, waiting, encrypted, decrypted, app,
                   batching, flags, faults, dispatched, troubled, doubled, outlived, lost>>

\* cacheRemoveBatch, which waits for the zone like everyone.
RemoveFromCache ==
    /\ removing # {} /\ zone = "free"
    /\ db' = Restrict(db, DOMAIN db \ removing)
    /\ removing' = {}
    /\ UNCHANGED <<net, arrivals, used, incoming, found, items, waiting, encrypted, decrypted,
                   app, errors, batching, flags, faults, history>>
-------------------------------------------------------------------------------
(* Connections and processes. *)

NewConnection ==
    /\ connection < MaxConnections
    /\ connection' = connection + 1
    /\ sent' = {} /\ emptySent' = FALSE
    /\ emptied' = FALSE
    /\ stopping' = FALSE

\* connect after the connection was lost: reset.
Reconnect ==
    /\ ~stopping
    /\ NewConnection
    /\ incoming' = Append(incoming, Task("fetch", 0))
    /\ UNCHANGED <<server, disk, found, items, waiting, encrypted, decrypted, app, errors,
                   removing, batching, idleWait, timer, faults, history>>

StopProcessing ==
    /\ ~stopping /\ connection < MaxConnections
    /\ stopping' = TRUE
    /\ UNCHANGED <<net, disk, pipeline, batching, emptied, idleWait, timer, faults, history>>

\* The process ends, by a crash or a quit, and another one starts.
Restart ==
    /\ NewConnection
    /\ incoming' = <<Task("fetch", 0)>> /\ found' = NothingFound
    /\ items' = <<>> /\ waiting' = <<>> /\ zone' = "free" /\ batch' = NoBatch
    /\ encrypted' = <<>> /\ decrypted' = <<>> /\ app' = <<>>
    /\ errors' = {} /\ removing' = {}
    /\ idleWait' = FALSE /\ timer' = FALSE
    /\ lost' = lost \cup ReceiptsIn(app)
    /\ UNCHANGED <<server, disk, faults, ended, dispatched, troubled, doubled, outlived>>
-------------------------------------------------------------------------------
Decrypt ==
    \/ DecryptStopped \/ DecryptDropsEarly \/ DecryptThrows \/ DecryptReceipt
    \/ DecryptDuplicate \/ DecryptSucceeds \/ DecryptDrops
    \/ DecryptRejected \/ DecryptFails \/ DecryptTimesOut
Receive == HandleRequest \/ HandleEmpty \/ WaitForIncoming
Fetch == GetAllUnprocessedIds \/ GetUnprocessed \/ QueueCached
EndBatch == Commit \/ CommitFails \/ CommitAnswered
Hand == HandleDecrypted \/ DispatchError \/ WaitForDecrypted \/ ScheduleRetry
Handle == EmitEmpty \/ AppHandles \/ AppThrows

Work ==
    \/ Deliver \/ SayEmpty
    \/ Receive \/ Fetch \/ KickBatchOff \/ BatcherIdle \/ RetryCached
    \/ EnterZone \/ Decrypt \/ EndBatch
    \/ PassOn \/ Hand \/ Handle \/ AppSeesError \/ RemoveFromCache

Next == Work \/ Reconnect \/ StopProcessing \/ Restart

Spec == Init /\ [][Next]_vars

\* The server sends, timers fire, queues go on, calls to the database are answered; a
\* process that was told to stop ends.  Connections need not break.  The attempts of a
\* row are counted, so that work ends: nothing can be put off for ever by other work,
\* and it is enough that work goes on while there is any.
Fairness == WF_vars(Work \/ (stopping /\ Restart))

FairSpec == Spec /\ Fairness
-------------------------------------------------------------------------------
Row == [plain : BOOLEAN, attempts : Nat]
TypeOK ==
    /\ server \subseteq Envelopes /\ sent \subseteq Envelopes
    /\ connection \in 1 .. MaxConnections /\ emptySent \in BOOLEAN
    /\ arrivals \in Seq(Envelopes) /\ Len(arrivals) <= MaxArrivals
    /\ DOMAIN db \subseteq DOMAIN arrivals /\ \A c \in DOMAIN db : db[c] \in Row
    /\ used \subseteq Envelopes
    /\ zone \in {"free", "open", "saved", "stuck"}
    /\ found.phase \in {"idle", "ids", "rows"}
    /\ Len(items) < BatchSize
    /\ \A i \in DOMAIN waiting : Len(waiting[i]) \in 1 .. BatchSize
    /\ batch.left \in 0 .. BatchSize /\ batch.uses \subseteq Envelopes
    /\ Undecrypted \cup errors \cup removing \subseteq DOMAIN arrivals
    /\ {emptied, idleWait, timer, stopping} \subseteq BOOLEAN
    /\ faults \in [errors : 0 .. MaxFaults, failures : 0 .. MaxFaults] /\ Faults <= MaxFaults

\* Where an envelope is safe: on the server; in a row that is decrypted, or that can
\* still be decrypted; or over.
Safe(e) ==
    \/ e \in server \cup ended
    \/ \E c \in DOMAIN db : Env(c) = e /\ (db[c].plain \/ e \notin used)

\* No message is lost by a crash, a lost connection, a failing commit or handler, or by
\* a second delivery of what was already decrypted.  Two kinds are left out: rows that were
\* fetched twice, whose second decryption fails and is saved over the first; and those
\* whose decryption outlived its task and spent the key of a row that stays encrypted.
\* A receipt, which has no row, may also be in memory only, and be lost with its event, but not
\* be forgotten.
NoEnvelopeLost ==
    \A e \in Envelopes \ (doubled \cup outlived) : Safe(e) \/ e \in ReceiptsIn(app) \cup lost

\* The application gets the envelopes in the order the server sends them, except those
\* that could not be decrypted at first: whatever was batched, stored, fetched, sent
\* again or handed on twice.  Receipts keep their order and may overtake messages, no
\* message overtakes anything.
InOrder ==
    [][\A e \in dispatched' \ dispatched, f \in Envelopes :
            f < e /\ (e \in Receipts => f \in Receipts)
                => f \in dispatched' \cup troubled \cup ended]_vars

\* Every envelope is handled, dropped, resent or out of attempts in the end, or a receipt
\* that was lost, and no row stays for ever; if commits and handlers do not fail, and unless
\* the bound on copies keeps the server from sending.
EverythingEnds ==
    <>[](\/ faults.failures > 0 \/ ~(server \subseteq sent)
         \/ DOMAIN db = {} /\ Envelopes \subseteq ended \cup doubled \cup outlived \cup lost)
===============================================================================
