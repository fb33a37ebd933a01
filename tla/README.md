# Cradle: TLA+ models and proofs

Cradle is a desktop messenger (a fork of Signal Desktop): an Electron main
process, a renderer that holds most of the logic under `ts/`, and SQL workers.
The code is single-threaded JavaScript per process, so its hard part is not data
races but *awaits*: between two awaits of one function any other function may
run, the database may answer, the application may shut down or die. This
directory models the parts of the program where that matters most, checks the
models with TLC on small instances and proves part of what they promise with
TLAPS for all instances.

Paths below are relative to the repository's root.

    tlc -workers 2 -config MCJobQueue.cfg MCJobQueue.tla     # one run
    tlapm JobQueueProofs.tla                                 # one set of proofs

`PROJECT.json` lists the runs, the source lines of every definition (`map`), the
hazards, the slips (mutants) each property is known to notice, the findings and
the theorems.

## 1. Inventory of the system

| component | state | operations | talks to | what is hard | what makes it correct |
|---|---|---|---|---|---|
| `AsyncQueue` (`ts/util/AsyncQueue.ts`) | an array, a callback | `add`, the async generator | the stream of `JobQueueDatabaseStore` | the array is swapped between two microtasks | a FIFO channel that wakes its reader |
| Session store (`ts/SignalProtocolStore.ts`, zones) | caches of sessions and sender keys, pending maps, current zone, depth, queue of waiting calls | `withZone`, load, store, archive, remove, clear, commit, revert | libsignal through `LibSignalStores.ts`, `MessageReceiver`, the database | re-entrancy, overlapping calls, failing commit, timeouts | exclusive transactions, all or nothing |
| Identity keys (`ts/SignalProtocolStore.ts`, identities) | a cache, one PQueue per service id, the `identityKeys` table, records under old ids | `saveIdentity`, `setApproval`, `setVerified`, `updateIdentityAfterSync`, loads that migrate, `removeIdentityKey` | the zones, conversations (`keychange`, `previousIdentityKey`), the database | two locks, read-await-write, two-step migration | no lost update, changes announced, verification bound to a key |
| `JobQueue` and its store (`ts/jobs/JobQueue.ts`, `JobQueueDatabaseStore.ts`) | `jobs` table, stream, PQueue, completions | `streamJobs`, `add`, `run` and its retries, `shutdown` | the database, the host process | initial fetch against early adds, shutdown in any phase, crash | a stored job is run until it is over, once at a time |
| `MessageReceiver` (`ts/textsecure/MessageReceiver.ts`) | three PQueues, batchers, unprocessed rows | `handleRequest`, `decryptAndCacheBatch`, `queueAllCached`, retries, `onEmpty`, `stopProcessing` | sockets, session store, `background.ts` | acknowledge against commit, redelivery, crash, partial batches | no message both acknowledged and lost, order |
| Batchers (`ts/util/batcher.ts`, `waitBatcher.ts`) | items, a timer, a queue | `add`, `removeAll`, `flushAndWait`, `onIdle` | `MessageReceiver`, database writers | timer against flush | order, nothing left behind |
| `ConversationJobQueue` (`ts/jobs/conversationJobQueue.ts`) | per-conversation queues and retry status, timers | `add`, `run`, retry, captcha and verification waits | `JobQueue`, `ChallengeHandler` | stale timers, status read before and used after an await | every blocked conversation resumes |
| `ChallengeHandler` (`ts/challenge.ts`) | registered conversations, timers, a pending response | `register`, `onResponse`, `solve` | server, `ConversationJobQueue` | several solves at once, partial failure | every registered conversation is released |
| Send state (`ts/messages/MessageSendState.ts`) | status of each recipient, in memory, in the database and in a batch of saves | `sendStateReducer`, `send`, `sendSyncMessage`, `retrySend`, transcripts | receipts, send jobs, batchers | states read before an await and written after it, two ways to save | the status only advances |
| Modifiers (`ts/messageModifiers/`) | maps of receipts, reactions, deletes, edits that wait for a message | `onReceipt`, `forMessage`, ... | `MessageReceiver`, messages | they come before the message, or twice | applied once, to the right message |
| SQL channel and server (`ts/sql/`) | calls in flight, worker | queries, `doShutdown` | everything | shutdown against late calls | calls run in order |
| Sockets (`ts/textsecure/SocketManager.ts`, `WebsocketResources.ts`) | connections, back-off, requests | connect, request, keep-alive, drain | server | reconnect against requests | requests settle |
| Attachment downloads (`ts/messageModifiers/AttachmentDownloads.ts`) | rows, active jobs, retries | `addJob`, tick, run | network, messages | persistence and retries | bounded, none forgotten |

`PROJECT.json` lists these and the rest (storage service, groups, calling,
updater, UI and so on) with the reason why the rest is left out: rendering, I/O,
data conversions or vendored code.

### How the modelled parts interact

* `MessageReceiver` decrypts a batch of envelopes inside one zone. libsignal calls
  back into the session store with that zone, which re-enters it. What the batch
  stored is committed in one database call when its outermost `withZone` ends.
* libsignal also calls `saveIdentity` from there. That body waits for the identity
  queue *inside* the zone, and other callers enter the `GLOBAL_ZONE` before that
  queue. Both locks are thus taken in one order.
* `JobQueueDatabaseStore` puts the rows of the table and the jobs added later into
  one stream, an `AsyncQueue` behind the rows of the first fetch. `JobQueue` takes
  them from there into a PQueue.
* `MessageReceiver` collects envelopes in a batcher, decrypts a batch in a zone and
  acknowledges it after the commit; what it decrypted goes through two more queues to
  the application, which confirms it through another batcher.
* A job that the server answers with a challenge registers it with `ChallengeHandler`
  and is put aside by `ConversationJobQueue`; the handler starts the conversation
  again when the time is over or the user has solved the captcha.
* A receipt is an envelope that the application confirms when it has found its message;
  until then the receiver keeps its row, but for a delivery receipt that was sent without
  encryption, which never had one. A receipt raises the send state that the send job is
  about to write, and its save goes through a batcher while those of the job do not.
* Everything persistent goes through one SQL worker that runs the calls in order.

## 2. Modules

| module | models | proofs |
|---|---|---|
| `Fifo` | what the comment of `AsyncQueue` promises | |
| `AsyncQueue` | the class; refines `Fifo` | `AsyncQueueProofs` |
| `ZoneTransactions` | what the comments of `withZone` promise | |
| `SessionZones` | zones, pending maps and caches; refines `ZoneTransactions` | `SessionZonesProofs` |
| `IdentityKeys` | identity keys, their queues and their migration | `IdentityKeysProofs` |
| `JobQueue` | job queue, store, table and host process | `JobQueueProofs` |
| `Receiver` | from the socket to the application and back to the acknowledgement | `ReceiverProofs` |
| `Batcher` | both batchers | `BatcherProofs` |
| `ConversationQueue` | the jobs of a conversation with `ChallengeHandler` | `ConversationQueueProofs` |
| `Receipts` | sending a message, receipts, transcripts and saves | `ReceiptsProofs` |
| `MC...` | constants for TLC | |

Each module's header and the comments on its variables say which field of the
code a variable is. Some variables are marked *history*: they record what
happened and no guard reads them. The definitions commented as *slips* are
mutated forms of the actions next to them. No specification uses them; they are
there to show that a property would notice such a mistake.

### AsyncQueue

`pc` is where the generator is suspended. `yield* this.queue` is three steps, since
the language makes it so: the array iterator returns elements (`Yield`), it
answers *done* (`Exhaust`), and a few microtasks later the generator replaces the
array and arms `onAdd` (`Rearm`). `Add` may run in between or not
(`MicrotaskAdds`): the only caller adds when a reply of the database arrives,
which is a task of the event loop, and then the microtasks have been drained.

### SessionZones

The unit is a call of `withZone`. It has a zone, a kind (what its body does), a
record, and for a nested call the call that makes it. `Enter`, `Wait` and
`LeaveZone` are the lock. `LeaveZone` takes the head of `zoneQueue` and all that
follow for the same zone and lets them in in the same step, because the code calls
their callbacks synchronously. Bodies are `Store`, `Load`, `Archive`, `Remove`,
`Clear` and `EndTask`. `CommitZoneChanges` and `RevertZoneChanges` are the two ends
of the outermost call, `DbSucceeds` and `DbFails` the answers. The three pending
maps are one, because the code always swaps, commits and clears them together.
`Archive` is one step: it looks the record up, changes the cached object in place, as the
code does, and stores it (see section 6 for what that leaves out). `Remove` and `Clear`
drop from the cache before the database has answered.

A record is who stored it and whether its session is current: that is what the
properties tell apart. `DisciplineAssumption` states what the callers do: a nested
call passes its caller's zone on, and removals happen in the `GLOBAL_ZONE`.

### IdentityKeys

A task makes one request. A *nested* task makes it from a body that already holds
the receiver's zone, as libsignal does during a batch; any other enters the
`GLOBAL_ZONE`. The zone lock is simplified, since `SessionZones` has it in full: a
task holds the zone from its outermost entry to its end. The rest follows the code:
`MayRead`, `Read`, `Migrate`, `MigrationAnswered` and `RemovalAnswered` are
`getOrMigrateIdentityRecord`, also when it is called outside of the queue by a load;
`SaveNew`, `SaveChanged`, `SaveSame`, `Approve`, `Verify` and `Sync` are the bodies;
`WriteAnswered` is the rest of a body after its write, with the `keychange` event
(`Announce`). `Restart` executes a prefix of the calls in flight and hydrates the
caches. Two things are coarser than the code, and allow more than it does: tasks
interleave between any two steps, also where only a microtask separates them, and
whether a record is *recent* (`isMoreRecentThan`) is a free choice.

`told` is the key of each contact that the user knows of, `mark` what the user or a
sync said last about a key, `removed` the contacts whose record was ever removed
and `cut` those with a write in flight at a crash. The properties leave out
`removed` contacts, because `removeIdentityKey` uses neither queue nor zone; the
announcement property also leaves out `cut` ones, because the event of a change
that was written just before a crash is never emitted. Both are listed as hazards.

### JobQueue

`db` is the table, `calls` the calls to the SQL worker that are not answered yet.
`StreamJobs`, `Add`, `FetchAnswered`, `InsertAnswered` and `DeleteAnswered` are the
store and the calls it awaits, `StopConsuming`, `DropUnparsable` and `Enqueue` the
loop of `streamJobs`, `StartJob`, `ReturnEarly`, `RunResolves` and `RunRejects` the
function given to the PQueue. `Shutdown` sets the flag. `Quit` ends the process
behind the calls already made and `Crash` after any prefix of them; both start a
new process on the same table. `Custom` jobs are saved by the caller's own insert,
together with a message, before the store is called. `Unparsable` ones do not pass
`parseData`. The stream is a sequence because `AsyncQueue` implements `Fifo`.

### Receiver

An envelope that arrives is a *copy* with an id of its own, also when the server sends
it again. `HandleRequest` puts it into the batch, `KickBatchOff` is the batcher (its
own module has it in full), `EnterZone` the zone (a lock here, see `SessionZones`).
`Decrypt...` are the ways in which one envelope of a batch ends: dropped before it is
decrypted, with its row left alone (`DecryptDropsEarly`); an error that nobody is told of,
after which it is kept (`DecryptThrows`, `DecryptStopped`); decrypted (`DecryptSucceeds`); decrypted
and dropped (`DecryptDrops`); an error after which it is removed (`DecryptRejected`), or the
application is told (`DecryptFails`); a duplicate whose key is used; or alive past its task's
two minutes. A delivery receipt that was sent without encryption (`Receipts`) is none of these:
`DecryptReceipt` gives its event to the application at once, and no row is stored, although
it is acknowledged with its batch. `Commit`
and `CommitAnswered` write sessions and rows at once, then acknowledge. `PassOn`,
`HandleDecrypted`, `DispatchError`, `AppHandles` and `AppSeesError` are the way through
the queues to the application, `RemoveFromCache` its confirmation. `GetAllUnprocessedIds`,
`GetUnprocessed` and `QueueCached` fetch the rows on a new connection or by the timer
(`RetryCached`). `Reconnect`, `StopProcessing` and `Restart` are the faults. That a message key
decrypts once is the set `used`: this is why an acknowledged envelope whose row is
encrypted and whose key is used is lost. `lost` are the receipts an event of which a crash
or a failing handler threw away.

### Batcher

`waiting` chooses the class. A timer can lose its handle and still fire
(`NamelessTimerFires`): `removeAll` and the loop of the wait batcher's `flushAndWait` leave the
timer alone. `BatchExpires` is the timeout of the PQueue: the next batch starts while
the old one goes on. Item `n` is the `n`-th that was added.

### ConversationQueue

All times are the time left, which `Tick` brings nearer. `micro` holds the microtasks
that run before any other task: what happens there, and in which order, decides what
`run` reads. `phase` is where `run` is suspended. `RetryJobOnQueueIdle`,
`RetryCallback`, `IdleCallback` and `TimerCallback` are the retry state, `Unblock` and
`ResolveVerificationWaiter` what ends it early; `Register`, `ArmChallenge`,
`StartQueue`, `StartConversation`, `Solve`, `OnResponse`, `SolveAccepted`,
`SolveRejected` the challenge handler; `UserVerifies` and `UserCancels` the dialogue
about an untrusted key. `Restart` restores the challenge that was persisted; the retry
state is not persisted. Three simplifications: all jobs are added at age 0, a job's
row is deleted as the job ends (the base class is `JobQueue`), and shutdown and the
wait to be online are left out.

### Receipts

`ours` chooses between a message that we send and one that another device has sent.
`mem` and `row` are the send states in memory and in the database. The send is
`Attempt`, `Reach` (the server takes the message for somebody), `SendEnds`,
`SendSaved`, `SentSaved` and the sync that follows; the states it writes are made
from those it reads after the first save, as in `send()`. `SendEnds` may answer for
fewer recipients than were reached. What fails goes through `HandleErrors`
(`handleMultipleSendErrors`): another attempt, or `MarkFailed` and the end; a job whose time is
over is marked at once (`RunOutOfTime`). A job that only has to sync (`sendSyncMessageOnly`)
saves once more, whether it failed or not (`SyncedSaved`, `NotSyncedSaved`). A transcript is
`HandleTranscript`, `SaveNew`,
`NewSaved`, with both runs of `modifyTargetMessage`. A receipt is put into the map and asks the
database (`OnReceipt`); the reply finds no message, a row that is not sent, or one that is
(`NoMessageFound`, `RefuseReceipt`, `UpdateSendState`). A receipt that was encrypted has a row
of the receiver, from which it is handled again by the retry timer and after a restart. One that was
not is in memory only: `Crash` loses it (`lost`), unless the server sends it again because
its acknowledgement did not get there (`ReceiptsAfter`). `live` says that the object in
the batch is still the model's own attributes, so that it takes later changes; it
ceases to be when the model is given a new object.

## 3. Runs

All runs but `conversation_queue` set `CHECK_DEADLOCK FALSE`: the systems really stop
when all calls, adds or jobs that the bounds allow were made. In `conversation_queue`
the clock can always tick, so that there is no deadlock to look for.

| run | checks | shows |
|---|---|---|
| `async_queue` | `TypeOK`, `ImplementsFifo`, `EveryAddIsReceived` | with the callers it has, the class is the channel it documents |
| `session_zones` | `TypeOK`, `OneZoneAtATime`, `NoMissedWakeup`, `AllOrNothing`, `NoDirtyRead`, `CacheFollowsDb`, `ImplementsTransactions`, `EveryCallSettles` | zones are exclusive transactions, with overlapping nested calls, archived, removed and cleared sessions and a failing database call, and no call hangs unless the commit at the end of a zone fails |
| `session_zones_failed_commit` (violation) | `HeldOnlyByUsers` | a failed commit leaves the zone locked |
| `session_zones_archive` (violation) | `CacheMatchesDb` | archiving is not undone in memory |
| `identity_keys` | `TypeOK`, `NoLostUpdate`, `CacheMatchesDb`, `KeyChangesAreTold`, `VerificationShows`, `IdentitySurvives`, `EveryRequestSettles` | concurrent requests about one contact, with a failure and a crash; zone and identity queue are taken in one order |
| `job_queue` | `TypeOK`, `NoJobLost`, `OneCopyOfEachJob`, `SettlesAfterDelete`, `RunInOrder`, `EveryJobEnds`, `EveryCompletionSettles` | the queue is durable and exact across shutdowns, crashes and a failing call; every job leaves the table, every completion settles or its process ends |
| `receiver` | `TypeOK`, `NoEnvelopeLost`, `InOrder`, `EverythingEnds` | no message is both acknowledged and lost, and no unencrypted receipt unless its event was thrown away; the application gets them in order, each of them ends |
| `batchers` | `TypeOK`, `AllInOrder`, `FlushCovers`, `EverythingEnds` | no item is lost, doubled, overtaken or left behind, and a flush covers what was added before it |
| `conversation_queue` | `TypeOK`, `OnePlaceForEachJob`, `DeferredHasAlarm`, `SilentJobsWait` | no job is dropped or doubled, what is put aside will be started again, silent jobs keep off the server as long as it asked |
| `conversation_queue_deferred` (violation) | `EveryJobEnds` | a job that was put aside is put aside again for ever |
| `receipts` | `TypeOK`, `NeverBackwards`, `EveryReceiptShows` | what is shown of a recipient only advances, and every receipt that is not refused or lost by a crash shows in the end |
| `receipts_refused` (violation) | `ConfirmedReceiptsShow` | a receipt that comes before the send is saved is removed and never shown |

Some properties exempt what the code does not promise. They name it by a history
variable, so that the exemption is as narrow as the cause:

* `SessionZones`: `CacheFollowsDb` allows an archived record whose change could not be
  written, and a session that was forgotten though its row is there. It leaves out sessions
  that are cleared while another call of the global zone writes them
  (`ClearedWhileWritten`).
  `EveryCallSettles` exempts a zone locked by a failed commit (*abandoned*).
* `IdentityKeys`: `removed` and `cut`, see above.
* `Receiver`: `NoEnvelopeLost` exempts `doubled` envelopes, whose row was fetched again
  by an overlapping fetch before its decryption was saved (the second decryption
  fails and is saved over the first), and `outlived` ones, whose decryption went on
  after its two-minute timeout and spent the key of a row that stays encrypted.
  `InOrder` exempts envelopes with a failed decryption: they are handled later by design.
  Unencrypted receipts may be in the application's queue only, or `lost` from there, and
  may overtake messages; they keep their own order, and no message overtakes them. A process that
  lives may not forget one: the slip that does is noticed.
* `Batcher`: `FlushCovers` exempts batches that outlived the timeout of the queue.
* `Receipts`: `EveryReceiptShows` exempts `refused` receipts (finding 4) and `cut` ones:
  their envelope was removed when a crash caught the message's save in the batch; and it asks
  nothing of unencrypted receipts that a crash lost (place `lost`).

### Bounds

* `async_queue`: four adds of two values. The generator's states repeat after two
  rounds of the array, and swapping two values takes two of them; the proofs remove
  the bound.
* `session_zones`: a batch with a store, a sender key and a load, a second batch with one
  store, and an archive, a removal and a clearing in the global zone. Every pair of
  kinds that touches the same record occurs in the same and in different zones, three
  zones make the queue hold calls of two others. One failing call is enough to separate every
  error path; a second one would only end another call. The two violations use a
  smaller set of calls with nesting three deep. The lock's properties are proved
  without bounds.
* `identity_keys`: three tasks are the least in which a third one sees the effect of
  a race of two; one of them is nested, so that zone and queue meet from both sides. There
  are two keys (a change is a change), one failing call, one crash. The initial states
  are all combinations of a record, a record under the old id, a previous key or nothing.
* `job_queue`: three jobs (the second saved by its caller, the third unparsable),
  two attempts, two ends of process, one failing call. One job of each kind gives
  each pair of ways to reach the stream, and two restarts let a row outlive a process
  that itself found rows. Most of the safety properties are proved without bounds.
* `receiver`: three envelopes, of which two are on the server: two messages, or an unencrypted
  receipt and a message that must not overtake it. The others count as handled by
  an earlier process. Two envelopes are the least that can be reordered or batched, and two copies
  let one envelope come twice (then the other does not come, which
  `EverythingEnds` exempts). Two connections: one that breaks, or a process
  that ends, and the one that finds the rows. One attempt makes a row reach its limit, one
  fault separates each error path. With one attempt no row is fetched twice, so that the case of
  `doubled` is left to
  the proofs; with two attempts TLC does not finish in reasonable time.
* `batchers`: `maxSize` 3 and four adds fill a batch with one item over, both with a
  timer that kept and one that lost its handle.
* `conversation_queue`: one job of each behaviour (shows the captcha, silent, gives way to
  a verification), two challenges (one while the other is being lifted), one unit
  of time (`MaxWait = 1`: the time that the server names, and the minute that is waited
  without one, coincide; the proofs of `DeferredHasAlarm` and `SilentJobsWait` cover every
  value), one untrusted key or restart. The violation needs one job and one challenge.
* `receipts`: two recipients (one may be answered for while the other is pending), two attempts,
  one crash or manual retry. `OnePair` bounds which receipts come together, since all three are
  more than TLC can do in reasonable time: both receipts of a device; only its read receipt, with
  read receipts turned off; or the delivery receipts of two devices, one encrypted and one not.
  The last two share a key of the map, so that the later one replaces the other, which then
  shows only if it is handled on its own. Whether a receipt comes is not fair, so that the
  bound cuts off no obligation. `TypeOK` and `NeverBackwards` are proved for any receipts.

### Fairness

* `async_queue`: the generator, a chain of promise jobs, goes on. Nobody is obliged
  to add and the consumer is not obliged to leave.
* `session_zones`: one weak fairness for all steps of calls that were made: bodies end
  and the database answers, by success or by failure (its calls are messages to a
  worker that answers each of them). Nobody has to make a call. One condition is enough because
  each call has finitely many steps, so no step can be put off for ever by others.
* `identity_keys`: some task that has begun goes on while one can, for the same reason.
  The database's answers belong to those steps. `CallFails` and `Crash` have no fairness.
* `job_queue`: `initializeAllJobQueues` calls `streamJobs` at startup, the
  database answers, the consumer and the PQueue go on, `run` settles since its
  network calls time out, and a process that was told to shut down quits. `Add`,
  `Shutdown` and `Crash` are never obliged to happen. With a failing database the
  code does not keep these properties: a job whose delete fails is never settled.
* `receiver`: work goes on while there is any, and a process told to stop is started
  again. Connections need not break. One condition is enough because attempts, copies
  and connections are counted.
* `batchers`: armed timers fire, `processBatch` ends, flushes and idle loops go on. Nobody has to
  add, remove or flush.
* `conversation_queue_deferred`: microtasks and `run` go on, timers fire, writes arrive,
  time passes. Neither the user nor the connection nor the server's answer to a captcha is fair.
  The counterexample
  satisfies all of these.
* `receipts`: one condition for the send or the transcript, the batcher and the receiver, which
  queues stored envelopes again after a restart, since they have finitely many steps, and one
  for the database's answers. Nobody has to send a receipt, and the user need not retry.

## 4. Proofs

The proofs hold for every value of the constants, under the assumptions named in the
modules and these:

| theorem | states | assumes |
|---|---|---|
| `AsyncQueueProofs!TypeCorrect` | `TypeOK` | |
| `AsyncQueueProofs!NoValueLost`, `NoWakeupLost`, `Refinement` | `NothingLost`, `NoLostWakeup`, `ImplementsFifo` | `~MicrotaskAdds` |
| `SessionZonesProofs!TypeCorrect` | `TypeOK` | |
| `SessionZonesProofs!MutualExclusion`, `DepthIsExact`, `NoWakeupIsMissed` | `OneZoneAtATime`, `DepthCountsUsers`, `NoMissedWakeup` | finitely many calls |
| `SessionZonesProofs!TransactionsAreAtomic`, `ReadsAreClean`, `CacheFollows`, `Refinement` | `AllOrNothing`, `NoDirtyRead`, `CacheFollowsDb`, `ImplementsTransactions` | also `Discipline`: bodies wait for the calls they make (`~Orphans`) and a transactional zone has one outermost call |
| `JobQueueProofs!TypeCorrect` | `TypeOK` | |
| `JobQueueProofs!NoneIsLost` | `NoJobLost` | |
| `JobQueueProofs!OneCopy`, `WorkHasItsRow`, `SettledAfterDelete` | `OneCopyOfEachJob`, `WorkIsStored`, `SettlesAfterDelete` | |
| `JobQueueProofs!JobsRunInOrder` | `RunInOrder` | |
| `ReceiptsProofs!TypeCorrect`, `NeverGoesBackwards` | `TypeOK`, `NeverBackwards` | |
| `BatcherProofs!TypeCorrect`, `NothingLostOrOvertaken`, `FlushIsComplete` | `TypeOK`, `AllInOrder`, `FlushCovers` | |
| `ConversationQueueProofs!TypeCorrect`, `OnePlace` | `TypeOK`, `OnePlaceForEachJob` | |
| `ConversationQueueProofs!DeferredJobsAreStarted`, `SilentJobsDoWait` | `DeferredHasAlarm`, `SilentJobsWait` | |
| `IdentityKeysProofs!TypeCorrect`, `NoUpdateIsLost` | `TypeOK`, `NoLostUpdate` | |
| `IdentityKeysProofs!CacheFollows`, `ChangesAreTold` | `CacheMatchesDb`, `KeyChangesAreTold` | |
| `IdentityKeysProofs!VerificationsShow`, `MigrationKeepsRecords` | `VerificationShows`, `IdentitySurvives` | |
| `ReceiverProofs!TypeCorrect`, `NoEnvelopeIsLost`, `EnvelopesInOrder` | `TypeOK`, `NoEnvelopeLost`, `InOrder` | |

`NothingLost`, `NoLostWakeup`, `DepthCountsUsers` and `WorkIsStored` are proved and not
in a run of their own: they are parts of the invariants from which the rest follows.

**AsyncQueue.** `NothingLost` alone is not inductive: `Rearm` drops the array, which
loses nothing only if all of it was read. `NothingUnread` says so (in the gap and
while waiting `pos = Len(queue)`), and it is inductive because nobody adds in the
gap. Without that assumption the theorem is false: with `MicrotaskAdds = TRUE` in
`MCAsyncQueue.cfg`, TLC finds a value that is lost.
For the refinement, `Add` is a `Put`, `Yield` a `Take`, and the other steps stutter.

**SessionZones.** The invariant is `LockInv`. `OneZoneAtATime` needs `depth` to be
exact, because the zone is taken over when the depth is 0. Exactness across
`LeaveZone`, which sets the depth to the number of calls it lets in, needs those
calls to be distinct (`WaitsOnce`) and in no other place (`NoMissedWakeup`). The
count itself goes through the library's facts about cardinalities. The proof covers
failed commits and orphans: an abandoned call still counts as holding the zone.

The transactions add what callers owe. `decryptAndCacheBatch` makes a zone for each batch and
awaits what it starts, which is `Discipline`; without it `AllOrNothing` is false (see
section 5). `Nested` and `EndsAlone` then say that the last user of a transactional zone is its
outermost call, so only that one commits or reverts. `PendingFits`, `EntriesFit` and
`RecordsFit` follow a record from the pending maps through the call to the database into
the cache. `Covers` says that each finished store of a transaction is among the changes that
are pending or on their way, unless a later record of its key replaced it; so when the
answer comes all are recorded (`AllRecorded`) and none was before (`NoneRecorded`).
For the refinement, a store in a transactional zone is a `Write`. The answer to the commit is a
`Commit`; its failure, or a revert, is a `Revert`; and `Enter` of a free zone and the last
`Leave` are `PassOn`, because then nothing is pending or sent (`NothingSent`).
`CacheFollowsDb` holds at all times for what is not in flight, not only when nothing is;
the calls that clear need `ClearedFirst`: their session stays out of the cache until the
answer. That is false for a session that another call of the zone writes meanwhile.

**JobQueue.** `NoJobLost` follows from `LedgerInv`: what was accepted was written,
what was written is a row or over, and what is being deleted is over. The last part
is why neither a delete nor the prefix of calls executed at a crash loses a job.

The other three need each other and are proved as one, `PlacesInv`. `Placed` says
that a job is in one place. To keep it when the fetch is answered (every row
enters the stream) no row may be in the stream, the PQueue, `running` or a delete
before: that is `FetchFirst`. To keep it when a row is written, jobs still to be
written must have no row and be distinct from all others: that is `Stored`, which
also says that what is worked on has its row. That part survives a delete because
the job of a delete is nowhere else (`Placed`). `SettledIsGone` says that a settled
job has no row and no insert on its way, so that none appears later.

`RunInOrder` needs the whole way of a job: `OrderInv` says that the places (waiting, calls,
stream, PQueue, running) are in order, and all of one before all of the next. A job saved
by its caller may overtake those that wait, which are never of its kind. What is on its way
to the table while the fetch is out comes after every row of the table, so the rows that are
put in front of the stream are the older ones.

**Receipts.** `NeverBackwards` is a property of steps. A step lowers nothing because each new
state comes from the reducer applied to a state that the same step reads
(`RaiseFacts`, `ApplyFacts`): the job holds no copy of the states across an await. That
is not enough for the steps that write a message which is not in memory, so the
invariant also says when it is (`Known`): whoever sends, saves or syncs has it, and
once it is in the database or in a save it is in memory. Every action then raises
(`JobKeeps`, `TranscriptKeeps`, `ReceiptKeeps`) or is a crash.

**Batcher.** `AllInOrder` says that what has started, the batches that wait and the
items that are being collected are ascending, one after the other, and together all
that was added and not removed. It is inductive with the types, but the proof of
the types needs the size of `items`: each `Add` that fills a batch hands it over in the
same step. `FlushCovers` is about a step, the return of a flush. It needs two
facts of the states before: every item is over or in a place (`Accounted`), and a
flush that waits for its own batch has all that it must cover in that batch or in
front of it (`OwnBatch`). When that batch outlives its timeout the flush fails at once,
and then nothing was in front of it.

**ConversationQueue.** `OnePlaceForEachJob` is inductive as it stands, with the types and the
shapes of the queues, once it is read as five parts (the queue, the job at work, what is
put aside, what a microtask brings, and the rows) that are free of repetitions and apart
(`Places`). `DeferredHasAlarm` needs to know when a callback is dropped: only by running, since
the microtasks behind the first are all callbacks. `SilentJobsWait` is about the step
that sends. What a silent job read of the retry state is older than the step, so the
invariant says how old it may be (`WaitIsKept`): the state lasts as long as the wait
that was asked for, and a silent job that goes on found no state when there was no wait.

**IdentityKeys.** `NoLostUpdate` rests on the identity queue: a body is alone with its record
(`OneBody`). But loads migrate records without that queue, also while a body is under way.
`MigrationsAgree` says why they do no harm: all of them write the very record that the
body has read, and `MigrationsFirst` that the writes of migrations come before the body's
own in the database's order. `TablesAgree` follows the cache and both tables through
this and through the calls that fail, `KnownKeys` and `RecordsShow` say what the
user knows and said of each key that is stored or on its way. The invariants about one
service id are apart from those about zones and queues (`Turns`), which no step on the
records disturbs. `Restart` executes any prefix of the calls: what it leaves of a record is
the last write of that prefix, which `MigrationsFirst` tells from the ones before.

**Receiver.** The types alone need the order of the tasks: a fetch stays the first of
`incomingQueue` until its rows are queued, and the decryptions of the batch in the zone are one
block of `encryptedQueue` (`Block`). `NoEnvelopeLost` then follows a copy of an envelope.
`Once` says that it is in one place, once, and `PendingIsNotPlain` that its row is not a
decrypted one while it waits. So a batch does not write a failure over what was
decrypted, and `ItemsAreKept` says that at its commit every item has a place to go
to: decrypted, failed with attempts left, or over. `SpentIsPlain` is the same for message keys:
one is spent only together with the row of what it decrypted (`UsesAreOk`). `RemovedIsOver`
covers removals, which run later and outside of the zone. An unencrypted receipt has no row
to follow. `HandedOn` says instead that once it was dispatched it is over, lost, or its event is in
the application's queue (`AppStays`, `AppGrows`, `AppShrinks` are what the steps do to that queue),
and `ReceiptsHaveNoKeys` that no key is ever spent for it, so that a row of it can always be
read again. Copies whose row was
queued twice (`doubled`) and decryptions that outlived their tasks (`outlived`) are
left out, as in `NoEnvelopeLost` itself: the code can lose them, which is among the
hazards.

`InOrder` needs a second invariant, `OrderInv`, over the first. An envelope is exempt once
it was dispatched, failed or is over. `EnvelopesInOrder` then has two cases: a message is
dispatched from the head of `decryptedQueue` (`DecryptedInOrder`), where everything smaller
is exempt; a receipt from the head of `encryptedQueue` (`ReceiptInOrder`), where a smaller
message may be decrypted and waiting, but a smaller receipt, which has no key to spend, is
exempt. Wherever an envelope is,
every smaller one that is not exempt is ahead of it. `Queued` says so of what has yet to be
decrypted: the requests, the
batches and `encryptedQueue`. `Past` says that rows, and what a batch has dealt with, come
after what was decrypted. `Line` says it of what was decrypted: it is in `decryptedQueue`,
in `encryptedQueue`, in the saved batch, or, with a fetch ahead of everything that
arrives, in the rows (`OnTheWay`), and in its turn in each of them. Rows are fetched in the
order of their copies, so `Arranged` says that copies of what is not exempt have the order of
their envelopes; a copy that is decrypted again has failed before, and all that is smaller is
over or decrypted (`Again`). Once the receiver is told to stop nothing is dispatched until
another connection or process starts, so `Line` says nothing of that time.

### Only model-checked

* All liveness properties: TLAPS reasons about neither fairness nor ENABLED here.
* What a recursive definition computes cannot be proved with the installed provers
  (their induction theorems take an operator as a parameter), and modules with
  RECURSIVE operators cannot be proved about at all: the modules have none.

## 5. Findings

1. *A failed commit locks the store* (`session_zones_failed_commit`). `withZone` awaits
   `commitZoneChanges` outside of its `try`, so a rejection skips `leaveZone`
   (`ts/SignalProtocolStore.ts:1158`).
2. *Archived sessions are not reverted* (`session_zones_archive`). `archiveCurrentState()`
   changes the cached record in place, before the change becomes pending (`:1686`).
3. *A silent job can be put aside for ever* (`conversation_queue_deferred`). The callback
   of a retry adds the jobs to the queue (`ts/jobs/conversationJobQueue.ts:607-609`) before it
   deletes their state (`:610`). An idle queue starts the first one synchronously, and `run`
   reads that state before its first await (`:638`). It returns NEEDS_RETRY (`:647-650`), and
   a minute later the same happens again, until a job that shows the captcha comes by, a
   verification is resolved or the process restarts. With the state deleted first,
   `EveryJobEnds` holds.
4. *An early receipt is thrown away* (`receipts_refused`). When the row of the message says
   *Pending* or *Failed* for the recipient, `getTargetMessage` logs a variable that is declared
   below (`ts/messageModifiers/MessageReceipts.ts:136` and `:157`), which throws. `onReceipt`
   catches, removes and confirms the receipt. `send()` saves the states only after the
   answers for all recipients, so in a group a quick receipt comes before that save.

Not among them, mostly since nothing in the repository promises otherwise, but worth knowing:

* A value added to `AsyncQueue` from a microtask can be lost (`ts/util/AsyncQueue.ts:39`),
  which no present caller does. `MicrotaskAdds = TRUE` shows it.
* A nested call that outlives its task's timeout breaks the transaction of its zone: the
  outermost call finds a depth above one and neither commits nor reverts, the late call
  commits (`ts/SignalProtocolStore.ts:1157`). `Orphans = TRUE` violates `AllOrNothing`.
* `removeSessionsByConversation` deletes from the cache before it asks the database
  (`ts/SignalProtocolStore.ts:1638`). A store or an archive of such a session that was sent
  before comes back into the cache with its answer, and the row goes after it. With
  `Key(x) = k1` in `MCSessionZones` and without that exemption, TLC finds it.
* A crash between the write of a new identity key and its `keychange` event loses the
  announcement; `removeIdentityKey` can be undone in the cache by a save in flight;
  `setVerified` applies to the key that is current when it runs; calls of the current
  zone enter past the waiting ones.
* A job whose delete fails runs again after the next start; a job may run again after a
  crash, although `run` had succeeded; the count of attempts starts again with the process
  (`ts/jobs/JobQueue.ts:258`); a job saved by its caller overtakes a plain one during the
  first fetch (`:176`).
* A delivery receipt that was sent without encryption may be acknowledged and in memory only. The
  comment of `decryptAndCacheBatch` (`ts/textsecure/MessageReceiver.ts:1046-1049`) says that
  envelopes are persisted, decrypted or not, before they are acknowledged; but an
  envelope of type RECEIPT is dispatched while its batch is decrypted (`:1439-1446`) and has no
  plaintext to store (`:1081-1087`), and its batch is acknowledged as a whole (`:1132-1134`). A crash
  before the application is done loses it. Without `lost` and the application's queue in
  `NoEnvelopeLost`, TLC finds it. Such a receipt also reaches the application before older
  messages that wait for their commit, and an early one waits in the map only: no row brings it
  back, neither by the retry timer nor after a restart.
* The receiver says it is *empty* when the last batch is decrypted but its messages may
  still be on their way to the application (`ts/background.ts:1941` waits for those it has).
* A stale `startQueue`, or a verification, can lift a challenge that was registered after
  it; a restart forgets the time of the retry state; a waiter that nobody awaits any more takes
  the signal of the next one; several solves may wait for one captcha, and the first to
  fail leaves the rest without (`ts/challenge.ts:373`).
* `updateMessageBatcher` may hold an object older than a direct save made meanwhile, and its
  later save makes the row, not what is shown, go backwards until the next save
  (`ts/util/messageBatcher.ts:27`). Receipts of two devices share a key of the map: the
  envelope of the first stays until it is handled again.
* After the last attempt a recipient whom no error names stays *Pending*.

## 6. What is not modelled

* In the session store: signed, kyber and one-time prekeys, sender key expiry, the
  PQueues of sessions and sender keys (a job of theirs is a nested task here), and the
  queries for unprocessed envelopes outside of the commit. `_archiveSession` captures the
  cache's entry (`ts/SignalProtocolStore.ts:1704`, `:1728`), waits in the session's queue (`:1674`)
  and then stores it (`:1688`); `Archive` is one step, so that an old entry which
  overwrites a newer one is not represented, and no property speaks of it.
* In the identity keys: the branches for our own identity, the verdict of
  `isTrustedForSending`, the synchronous reads, `saveIdentityWithAttributes` called
  directly, the sessions that `removeIdentityKey` removes (see `Clear` in
  `SessionZones`), and the 30-minute timeout of the PQueue, after which the next job
  starts while the body goes on.
* In the job queue: the wording of errors. Of its subclasses `ConversationJobQueue`
  has a module of its own; `singleProtoJobQueue` replaces the queue by one that runs five jobs
  at once.
* In the receiver: what `innerHandleContentMessage` makes of a message, `drain` (it
  changes no state), progress events, the 30-minute timeout of its queues. The notice of an
  invalid plaintext (`ts/textsecure/MessageReceiver.ts:1489-1508`), which is in memory only when
  its envelope is removed: the envelope is one that is dropped here. The removal of a row that
  cannot be read again (`:957-976`): `handleRequest` has decoded the same bytes before, and
  what a decrypted row must have was asserted when it was unsealed.
* In the conversation's queue: what the helper of each job type sends, shutdown and the
  wait to be online (`JobQueue` has shutdown), the status that the user sees.
* In the batchers: the functions that flush all of them, which only go through a list.
* In the send state: stories, edits and their history, *Viewed*, transcripts that add
  recipients to an earlier one, messages that are evicted from the cache and read again.
* Reactions, deletes, edits, read and view syncs; the SQL channel; sockets; downloads:
  see the plan.
* The other components of the inventory: rendering, I/O, data conversions, generated or
  third-party code, with the reason for each in `PROJECT.json`.

## 7. Plan

1. `Modifiers`: reactions, deletes, edits, read and view syncs, which wait for their
   message as receipts do, with edits after the first save.
2. `SqlChannel`: shutdown against calls in flight and late calls; `Socket`: reconnect
   and requests; `Downloads`: a persistent pool.
3. An abstract inbox that `Receiver` implements (each envelope on the server, stored or
   over) and an abstract `DurableJobs` that `JobQueue` implements.
4. Proofs: the modules of items 1 and 2, then the refinements of item 3.
