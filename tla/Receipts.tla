-------------------------------- MODULE Receipts --------------------------------
(***************************************************************************)
(* The send state of one outgoing message and the receipts that raise it:  *)
(* ts/messages/MessageSendState.ts, ts/messageModifiers/MessageReceipts.ts, *)
(* ts/util/modifyTargetMessage.ts, ts/util/messageBatcher.ts, and the      *)
(* parts of ts/models/messages.ts that send a message or take one that     *)
(* another device of the user has sent.                                    *)
(*                                                                         *)
(* The message is in the memory of the process (`mem', the model that      *)
(* MessageCache registers) and in the database (`row').  Receipts look for *)
(* it in the database and change it in memory; some saves are direct, that *)
(* of a receipt is batched.  A receipt is an envelope: one that was sent   *)
(* encrypted stays stored until it is confirmed, and is handled again by   *)
(* the next process; one that was not has no row, and is only in memory.   *)
(***************************************************************************)
EXTENDS Naturals, SequencesExt

CONSTANTS Recipients,  \* whom the message is for
          Us,          \* our own conversation, "sent" when our devices know of the message
          Devices,     \* of each recipient
          Nothing,     \* no message
          Receipts,    \* that may be sent
          MaxAttempts, \* attempts of the job that sends
          MaxFaults    \* bound: crashes and manual retries

ASSUME RecipientsAssumption == Us \notin Recipients
ASSUME AttemptsAssumption == MaxAttempts \in Nat \ {0} /\ MaxFaults \in Nat

VARIABLES ours,      \* we send the message; otherwise we get a transcript of it
          reads,     \* the setting that shows read receipts
          mem, row,  \* the send states in memory and in the database
          queued,    \* what updateMessageBatcher will save
          live,      \* ... whose object is still the attributes of the model
          calls,     \* calls to the database that are not answered
          step,      \* where the job, or handleDataMessage, is
          attempt,   \* of the job
          won,       \* whom the server answered for, in this attempt
          reached,   \* who has the message
          receipts,  \* where each receipt is
          cache,     \* the map `receipts' of MessageReceipts.ts
          refused,   \* history: receipts for a row that was not sent yet
          cut,       \* history: receipts that were over and whose effect a crash destroyed
          faults

message == <<mem, queued, live>>
sending == <<step, attempt, won>>
handling == <<receipts, cache, refused>>
limits == <<ours, reads, cut, faults>>
vars == <<message, row, calls, sending, reached, handling, limits>>
-------------------------------------------------------------------------------
(* MessageSendState: statuses are their STATUS_NUMBERS, an action is the status it *)
(* leads to. *)
Failed == 0
Pending == 1
Sent == 2
Delivered == 3
Read == 4
Statuses == Failed .. Read

Everyone == Recipients \cup {Us}
States == [Everyone -> Statuses]
ASSUME NothingAssumption == Nothing \notin States

\* Only delivery receipts are sent without encryption.
ASSUME ReceiptsAssumption ==
    /\ Receipts \subseteq [from : Recipients, device : Devices, level : {Delivered, Read},
                           encrypted : BOOLEAN]
    /\ \A c \in Receipts : c.level = Read => c.encrypted

\* Slip of Reduce: the status is what the action says.
ReduceForgets(status, action) == IF status = action THEN status ELSE action

\* sendStateReducer
Reduce(status, action) ==
    IF (status = Pending /\ action = Failed) \/ action > status THEN action ELSE status

IsSent(status) == status >= Sent
Raise(state, who, action) ==
    [r \in Everyone |-> IF r \in who THEN Reduce(state[r], action) ELSE state[r]]

\* The key of the map has no device.
Key(receipt) == <<receipt.from, receipt.level>>

\* shouldDropReceipt
Dropped(receipt) == receipt.level = Read /\ ~reads

\* What the receipts say, of those it wants to know of, whatever their order.
Apply(state, early) ==
    [r \in Everyone |->
        LET Hear(level, status) ==
                IF \E c \in early : c.from = r /\ c.level = level /\ ~Dropped(c)
                THEN Reduce(status, level) ELSE status
        IN  Hear(Read, Hear(Delivered, state[r]))]
-------------------------------------------------------------------------------
\* The model takes a new state.  The object the batcher holds takes it too, if it is the
\* model's own; then a change gives the model a new object.
Set(state) ==
    /\ mem' = state
    /\ queued' = IF live THEN state ELSE queued
    /\ live' = (live /\ state = mem)

\* ... with or before other attributes that change, which gives it a new object in any case.
SetWithOthers(state) ==
    /\ mem' = state
    /\ queued' = IF live THEN state ELSE queued
    /\ live' = FALSE

Save(state, next) == [op |-> "save", state |-> state, next |-> next]
Query(receipt) == [op |-> "query", receipt |-> receipt]
Answered(next) == calls # <<>> /\ Head(calls).op = "save" /\ Head(calls).next = next
Call(call) == calls' = Append(calls, call)
\* The first call is executed and answered, and another one is made.
ThenSave(next) ==
    /\ row' = Head(calls).state
    /\ calls' = Append(Tail(calls), Save(mem', next))
ThenNothing == row' = Head(calls).state /\ calls' = Tail(calls)

\* Init: our message is in the database with its job, a transcript is an envelope.
Init ==
    /\ ours \in BOOLEAN /\ reads \in BOOLEAN
    /\ mem = (IF ours THEN [r \in Everyone |-> Pending] ELSE Nothing)
    /\ row = mem
    /\ queued = Nothing /\ live = FALSE /\ calls = <<>>
    /\ step = (IF ours THEN "idle" ELSE "transcript")
    /\ attempt = 1 /\ won = {}
    /\ reached = (IF ours THEN {} ELSE Recipients)
    /\ receipts = [c \in Receipts |-> "none"] /\ cache = {} /\ refused = {}
    /\ cut = {} /\ faults = 0
-------------------------------------------------------------------------------
(* sendNormalMessage and send() *)

Targets == {r \in Recipients : ~IsSent(mem[r])}

\* An attempt; the second alternative sends to our devices only (sendSyncMessageOnly, which
\* sets other attributes).
Attempt ==
    /\ step = "idle"
    /\ step' = CASE Targets # {} -> "sending"
                 [] ~IsSent(mem[Us]) -> "syncing"
                 [] OTHER -> "over"
    /\ won' = {}
    /\ IF step' = "syncing" THEN SetWithOthers(mem) ELSE UNCHANGED message
    /\ UNCHANGED <<row, calls, attempt, reached, handling, limits>>

\* The server takes the message for a recipient.
Reach(r) ==
    /\ step = "sending" /\ r \in Targets \ reached
    /\ reached' = reached \cup {r}
    /\ UNCHANGED <<message, row, calls, sending, handling, limits>>

\* Its answer comes, or an error for some of the recipients; the message is saved.
SendEnds ==
    /\ step = "sending"
    /\ won' \in SUBSET (Targets \cap reached)
    /\ step' = "first save"
    /\ Call(Save(mem, "send"))
    /\ UNCHANGED <<message, row, attempt, reached, handling, limits>>

\* Then send() takes the states, sets what became of the recipients, of those the errors of
\* the last attempt name too, and saves again.  Other attributes are set before them, which
\* may already give the model a new object.
SendSaved ==
    /\ Answered("send")
    /\ \E failed \in SUBSET (IF attempt = MaxAttempts THEN Targets \ won ELSE {}) :
        LET state == Raise(Raise(mem, won, Sent), failed, Failed) IN
        \/ Set(state)
        \/ live /\ mem' = state /\ live' = FALSE /\ UNCHANGED queued
    /\ ThenSave("sent")
    /\ step' = "second save"
    /\ UNCHANGED <<attempt, won, reached, handling, limits>>

\* The attempt is over.  It fails if some were not reached, except that the last one has
\* saved the errors and does not ask.
EndAttempt == step' = IF Targets # {} /\ attempt < MaxAttempts THEN "failed" ELSE "over"

\* Our other devices are told if anybody was sent the message.
SentSaved ==
    /\ Answered("sent")
    /\ ThenNothing
    /\ IF won # {} THEN step' = "syncing" ELSE EndAttempt
    /\ UNCHANGED <<message, attempt, won, reached, handling, limits>>

SyncSucceeds ==
    /\ step = "syncing"
    /\ SetWithOthers(Raise(mem, {Us}, Sent))
    /\ Call(Save(mem', "sync"))
    /\ step' = "third save"
    /\ UNCHANGED <<row, attempt, won, reached, handling, limits>>

\* sendSyncMessageOnly saves once more, whether the sync failed or not.
SyncSaved ==
    /\ Answered("sync")
    /\ IF won = {}
       THEN (Set(mem) \/ SetWithOthers(mem)) /\ ThenSave("synced") /\ UNCHANGED step
       ELSE ThenNothing /\ EndAttempt /\ UNCHANGED message
    /\ UNCHANGED <<attempt, won, reached, handling, limits>>

SyncedSaved ==
    /\ Answered("synced")
    /\ ThenNothing
    /\ EndAttempt
    /\ UNCHANGED <<message, attempt, won, reached, handling, limits>>

\* The last attempt sets the errors.
SyncFails ==
    /\ step = "syncing"
    /\ IF won = {}
       THEN /\ IF attempt = MaxAttempts THEN SetWithOthers(mem) ELSE UNCHANGED message
            /\ Call(Save(mem', "not synced"))
            /\ step' = "third save"
       ELSE step' = "failed" /\ UNCHANGED <<message, calls>>
    /\ UNCHANGED <<row, attempt, won, reached, handling, limits>>

NotSyncedSaved ==
    /\ Answered("not synced")
    /\ ThenNothing
    /\ step' = "failed"
    /\ UNCHANGED <<message, attempt, won, reached, handling, limits>>

\* markMessageFailed: whoever is pending has failed.
MarkFailed ==
    /\ LET state == Raise(mem, Everyone, Failed) IN Set(state) \/ SetWithOthers(state)
    /\ Call(Save(mem', "failed"))
    /\ step' = "marked"
    /\ UNCHANGED attempt

\* Slip of HandleErrors: one attempt too many.
HandleErrorsOnceMore ==
    /\ step = "failed"
    /\ \/ /\ attempt <= MaxAttempts
          /\ step' = "idle" /\ attempt' = attempt + 1
          /\ UNCHANGED <<message, calls>>
       \/ MarkFailed
    /\ UNCHANGED <<row, won, reached, handling, limits>>

\* handleMultipleSendErrors: another attempt, unless this was the last or the server asked
\* us to stop.
HandleErrors ==
    /\ step = "failed"
    /\ \/ /\ attempt < MaxAttempts
          /\ step' = "idle" /\ attempt' = attempt + 1
          /\ UNCHANGED <<message, calls>>
       \/ MarkFailed
    /\ UNCHANGED <<row, won, reached, handling, limits>>

\* shouldContinue says that the job ran out of time.
RunOutOfTime ==
    /\ step = "idle"
    /\ MarkFailed
    /\ UNCHANGED <<row, won, reached, handling, limits>>

FailureSaved ==
    /\ Answered("failed")
    /\ ThenNothing
    /\ step' = "over"
    /\ UNCHANGED <<message, attempt, won, reached, handling, limits>>

\* retrySend, by the user; the job comes with the save.
RetrySend ==
    /\ ours /\ step = "over" /\ faults < MaxFaults
    /\ \E r \in Everyone : ~IsSent(mem[r])
    /\ faults' = faults + 1
    /\ Set(Raise(mem, Everyone, Pending))
    /\ Call(Save(mem', "job"))
    /\ step' = "adding" /\ attempt' = 1
    /\ UNCHANGED <<row, won, reached, handling, ours, reads, cut>>

JobSaved ==
    /\ Answered("job")
    /\ ThenNothing
    /\ step' = "idle"
    /\ UNCHANGED <<message, attempt, won, reached, handling, limits>>
-------------------------------------------------------------------------------
(* A transcript: handleDataMessage and saveAndNotify *)

\* forMessage takes the early receipts out of the map and confirms them.
TakeEarly ==
    /\ cache' = {}
    /\ receipts' = [c \in Receipts |-> IF c \in cache THEN "confirmed" ELSE receipts[c]]
    /\ UNCHANGED refused

\* The first run of modifyTargetMessage, before the message is saved.
HandleTranscript ==
    /\ step = "transcript"
    /\ IF row # Nothing
       THEN step' = "over" /\ UNCHANGED <<message, handling>>
       ELSE /\ Set(Apply([r \in Everyone |-> Sent], cache))
            /\ TakeEarly
            /\ step' = "unsaved"
    /\ UNCHANGED <<row, calls, attempt, won, reached, limits>>

\* saveNewMessageBatcher
SaveNew ==
    /\ step = "unsaved"
    /\ Call(Save(mem, "new"))
    /\ step' = "first save"
    /\ UNCHANGED <<message, row, attempt, won, reached, handling, limits>>

\* Slip of NewSaved: there is no second run.
NewSavedOnce ==
    /\ Answered("new")
    /\ ThenNothing
    /\ step' = "over"
    /\ UNCHANGED <<message, attempt, won, reached, handling, limits>>

\* The second run, "a cleanup for any missed out-of-order events".
NewSaved ==
    /\ Answered("new")
    /\ Set(Apply(mem, cache))
    /\ TakeEarly
    /\ IF mem' = mem
       THEN ThenNothing /\ step' = "over"
       ELSE ThenSave("again") /\ step' = "second save"
    /\ UNCHANGED <<attempt, won, reached, limits>>

AgainSaved ==
    /\ Answered("again")
    /\ ThenNothing
    /\ step' = "over"
    /\ UNCHANGED <<message, attempt, won, reached, handling, limits>>
-------------------------------------------------------------------------------
(* The receipts *)

\* onReceipt puts the receipt into the map, over one with its key, and asks the database.
OnReceipt(c) ==
    /\ receipts' = [receipts EXCEPT ![c] = "querying"]
    /\ cache' = {d \in cache : Key(d) # Key(c)} \cup {c}
    /\ Call(Query(c))
    /\ UNCHANGED <<message, row, sending, reached, refused, limits>>

Arrive(c) == receipts[c] = "none" /\ c.from \in reached /\ OnReceipt(c)
\* After a restart, and for those that found no message by the retries of the receiver,
\* which queue the rows of envelopes again.
HandleStored(c) == receipts[c] = "stored" /\ OnReceipt(c)
HandleAgain(c) == receipts[c] = "early" /\ c.encrypted /\ OnReceipt(c)

\* What was confirmed stays so.
Mark(c, place) ==
    receipts' = [receipts EXCEPT ![c] = IF @ \in {"confirmed", "gone"} THEN @ ELSE place]

\* remove
RemoveReceipt(c) ==
    /\ Mark(c, "confirmed")
    /\ cache' = {d \in cache : Key(d) # Key(c)}

Asked == Head(calls).receipt
Replied == calls # <<>> /\ Head(calls).op = "query" /\ calls' = Tail(calls)

\* No message: the receipt is an early one and stays in the map.
NoMessageFound ==
    /\ Replied
    /\ row = Nothing
    /\ Mark(Asked, "early")
    /\ UNCHANGED <<message, row, sending, reached, cache, refused, limits>>

\* The row says that the message was not sent.  The warning of getTargetMessage reads
\* `message' before it is initialized, and onReceipt removes what fails.
RefuseReceipt ==
    /\ Replied
    /\ row # Nothing /\ ~IsSent(row[Asked.from])
    /\ RemoveReceipt(Asked)
    /\ refused' = refused \cup {Asked}
    /\ UNCHANGED <<message, row, sending, reached, limits>>

\* updateMessageSendState; a change is queued.  The receipt is removed at once, or when
\* deleteSentProtoBatcher is done with it, which has nothing to do for an unencrypted one.
UpdateSendState ==
    /\ Replied
    /\ row # Nothing /\ IsSent(row[Asked.from])
    /\ LET state == Apply(mem, {Asked}) IN
       IF state = mem
       THEN UNCHANGED message
       ELSE mem' = state /\ queued' = state /\ live' = TRUE
    /\ \/ RemoveReceipt(Asked)
       \/ ~Dropped(Asked) /\ Asked.encrypted /\ Mark(Asked, "deleting") /\ UNCHANGED cache
    /\ UNCHANGED <<row, sending, reached, refused, limits>>

DeletedSentProto(c) ==
    /\ receipts[c] = "deleting"
    /\ RemoveReceipt(c)
    /\ UNCHANGED <<message, row, calls, sending, reached, refused, limits>>

\* The receiver removes the envelopes that were confirmed.
RemoveFromCache ==
    /\ \E c \in Receipts : receipts[c] = "confirmed"
    /\ receipts' = [c \in Receipts |-> IF receipts[c] = "confirmed" THEN "gone" ELSE receipts[c]]
    /\ UNCHANGED <<message, row, calls, sending, reached, cache, refused, limits>>

\* updateMessageBatcher
BatchFires ==
    /\ queued # Nothing
    /\ Call(Save(queued, "nothing"))
    /\ queued' = Nothing /\ live' = FALSE
    /\ UNCHANGED <<mem, row, sending, reached, handling, limits>>

BatchSaved ==
    /\ Answered("nothing")
    /\ ThenNothing
    /\ UNCHANGED <<message, sending, reached, handling, limits>>
-------------------------------------------------------------------------------
Shows(state, c) == state # Nothing /\ state[c.from] >= c.level

\* Receipts that have no row and are in memory.
InMemory == {c \in Receipts : ~c.encrypted /\ receipts[c] \in {"querying", "early", "confirmed"}}

\* What is left of the receipts when the process ends: those with a row are stored; the
\* server sends those again that it has no acknowledgement for; the rest is lost, unless
\* it was over.
ReceiptsAfter(again) ==
    [c \in Receipts |->
        CASE c \in again -> "none"
          [] c \in InMemory \ again -> IF receipts[c] = "confirmed" THEN "gone" ELSE "lost"
          [] OTHER -> IF receipts[c] \in {"none", "gone", "lost"} THEN receipts[c] ELSE "stored"]

\* The process ends, after some of the calls, and starts again: jobs and envelopes are where
\* they were.  `last' is the last save that was executed, if any was.
Crash ==
    /\ faults < MaxFaults
    /\ faults' = faults + 1
    /\ \E last \in {0} \cup {k \in DOMAIN calls : calls[k].op = "save"} :
        LET added == \E k \in 1 .. last : calls[k].op = "save" /\ calls[k].next = "job" IN
        /\ row' = IF last = 0 THEN row ELSE calls[last].state
        /\ step' = CASE step = "over" \/ (step = "adding" /\ ~added) -> "over"
                     [] ours -> "idle"
                     [] OTHER -> "transcript"
    /\ mem' = row' /\ queued' = Nothing /\ live' = FALSE /\ calls' = <<>>
    /\ attempt' = 1 /\ won' = {}
    /\ \E again \in SUBSET InMemory : receipts' = ReceiptsAfter(again)
    /\ cache' = {}
    /\ cut' = cut \cup {c \in Receipts : receipts'[c] = "gone" /\ ~Shows(row', c)}
    /\ UNCHANGED <<reached, refused, ours, reads>>
-------------------------------------------------------------------------------
Send == Attempt \/ SendEnds \/ SyncSucceeds \/ SyncFails \/ HandleErrors \/ RunOutOfTime
Transcript == HandleTranscript \/ SaveNew
DbAnswers ==
    \/ SendSaved \/ SentSaved \/ SyncSaved \/ SyncedSaved \/ NotSyncedSaved \/ FailureSaved
    \/ JobSaved \/ NewSaved \/ AgainSaved \/ BatchSaved
    \/ NoMessageFound \/ RefuseReceipt \/ UpdateSendState

Next ==
    \/ Send \/ (\E r \in Recipients : Reach(r)) \/ RetrySend
    \/ Transcript \/ DbAnswers \/ BatchFires
    \/ \E c \in Receipts : Arrive(c) \/ HandleStored(c) \/ HandleAgain(c) \/ DeletedSentProto(c)
    \/ RemoveFromCache \/ Crash

Spec == Init /\ [][Next]_vars

\* Jobs go on, batchers fire, a new process handles the envelopes it finds, and the database
\* answers.  Of the first three there are finitely many steps, so that it is enough that
\* one of them is made.  Nobody has to send a receipt.
FairSpec ==
    /\ Spec
    /\ WF_vars(Send \/ Transcript \/ BatchFires \/ \E c \in Receipts : HandleStored(c))
    /\ WF_vars(DbAnswers)
-------------------------------------------------------------------------------
Places == {"none", "stored", "querying", "early", "deleting", "confirmed", "gone", "lost"}

DbCalls ==
    [op : {"save"}, state : States,
     next : {"send", "sent", "sync", "synced", "not synced", "failed", "job", "new", "again",
             "nothing"}]
    \cup [op : {"query"}, receipt : Receipts]

\* Types; the map has one receipt for each key.
TypeOK ==
    /\ {ours, reads, live} \subseteq BOOLEAN
    /\ {mem, row, queued} \subseteq States \cup {Nothing}
    /\ calls \in Seq(DbCalls)
    /\ step \in {"idle", "sending", "first save", "second save", "syncing", "third save",
                 "failed", "marked", "over", "adding", "transcript", "unsaved"}
    /\ attempt \in 1 .. MaxAttempts /\ won \subseteq reached /\ reached \subseteq Recipients
    /\ receipts \in [Receipts -> Places]
    /\ cache \subseteq Receipts /\ \A c, d \in cache : Key(c) = Key(d) => c = d
    /\ refused \cup cut \subseteq Receipts /\ faults \in 0 .. MaxFaults

Forward(old, new) ==
    \A r \in Everyone : new[r] >= old[r] \/ (old[r] = Pending /\ new[r] = Failed)

\* "We should never go backwards" (MessageSendState.ts:24): what is shown of a recipient
\* only advances while the process lives, except that what is pending may fail; whatever
\* receipts, answers and retries overlap.
NeverBackwards ==
    [][mem # Nothing /\ ~Crash => Forward(mem, mem')]_vars

\* Over: it will not be handled again.
Over(c) == receipts[c] \in {"confirmed", "gone"}

\* "Delivered; we've received a delivery receipt" (MessageSendState.ts:14): every receipt
\* that is over shows.
ConfirmedReceiptsShow == \A c \in Receipts : Over(c) => Shows(mem, c) \/ Dropped(c)

\* Every receipt shows in the end, but for those that were refused; those whose message a
\* crash caught unsaved after they were removed; and unencrypted ones that a crash caught
\* in memory.
EveryReceiptShows ==
    <>[](\A c \in Receipts : receipts[c] \notin {"none", "lost"} =>
            Shows(mem, c) \/ Dropped(c) \/ c \in refused \cup cut)
===============================================================================
