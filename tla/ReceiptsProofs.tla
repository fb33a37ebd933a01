---------------------------- MODULE ReceiptsProofs ----------------------------
(***************************************************************************)
(* For any recipients, devices and receipts, and any number of attempts,   *)
(* crashes and retries: the types of Receipts, and that what is shown of a *)
(* recipient never goes backwards.  The invariant adds to the types when   *)
(* the process and the database know the message.                          *)
(***************************************************************************)
EXTENDS Receipts, TLAPS

USE DEF Failed, Pending, Sent, Delivered, Read, Statuses

-------------------------------------------------------------------------------
(* Send states *)

\* The reducer stays within the statuses, and only a pending message can fail.
LEMMA ReduceFacts ==
    ASSUME NEW status \in Statuses, NEW action \in Statuses
    PROVE  /\ Reduce(status, action) \in Statuses
           /\ \/ Reduce(status, action) >= status
              \/ status = Pending /\ Reduce(status, action) = Failed
           /\ action > Failed => Reduce(status, action) >= status
BY DEF Reduce

\* Changes that go forward, one after the other, go forward.
LEMMA ForwardTwice ==
    ASSUME NEW x \in States, NEW y \in States, NEW z \in States,
           Forward(x, y), Forward(y, z)
    PROVE  Forward(x, z)
<1> SUFFICES ASSUME NEW r \in Everyone
             PROVE  z[r] >= x[r] \/ (x[r] = Pending /\ z[r] = Failed)
  BY DEF Forward
<1>1. x[r] \in Statuses /\ y[r] \in Statuses /\ z[r] \in Statuses
  BY DEF States
<1>2. /\ y[r] >= x[r] \/ (x[r] = Pending /\ y[r] = Failed)
      /\ z[r] >= y[r] \/ (y[r] = Pending /\ z[r] = Failed)
  BY DEF Forward
<1>3. QED
  BY <1>1, <1>2

LEMMA ForwardSame ==
    ASSUME NEW x \in States
    PROVE  Forward(x, x)
BY DEF Forward, States

LEMMA RaiseFacts ==
    ASSUME NEW state \in States, NEW who, NEW action \in Statuses
    PROVE  Raise(state, who, action) \in States /\ Forward(state, Raise(state, who, action))
<1>1. ASSUME NEW r \in Everyone
      PROVE  /\ state[r] \in Statuses
             /\ Reduce(state[r], action) \in Statuses
             /\ \/ Reduce(state[r], action) >= state[r]
                \/ state[r] = Pending /\ Reduce(state[r], action) = Failed
  BY ReduceFacts DEF States
<1>2. QED
  BY <1>1 DEF Raise, Forward, States

\* What receipts say goes forward.
LEMMA ApplyFacts ==
    ASSUME NEW state \in States, NEW early
    PROVE  Apply(state, early) \in States /\ Forward(state, Apply(state, early))
<1> DEFINE Hear(r, level, status) ==
        IF \E c \in early : c.from = r /\ c.level = level /\ ~Dropped(c)
        THEN Reduce(status, level) ELSE status
<1>1. ASSUME NEW r \in Everyone, NEW level \in {Delivered, Read}, NEW status \in Statuses
      PROVE  Hear(r, level, status) \in Statuses /\ Hear(r, level, status) >= status
  BY ReduceFacts
<1>2. \A r \in Everyone : state[r] \in Statuses
  BY DEF States
<1> HIDE DEF Hear
<1>3. ASSUME NEW r \in Everyone
      PROVE  /\ Hear(r, Read, Hear(r, Delivered, state[r])) \in Statuses
             /\ Hear(r, Read, Hear(r, Delivered, state[r])) >= state[r]
  <2>1. Hear(r, Delivered, state[r]) \in Statuses /\ Hear(r, Delivered, state[r]) >= state[r]
    BY <1>1, <1>2
  <2>2. /\ Hear(r, Read, Hear(r, Delivered, state[r])) \in Statuses
        /\ Hear(r, Read, Hear(r, Delivered, state[r])) >= Hear(r, Delivered, state[r])
    BY <1>1, <2>1
  <2>3. QED
    BY <1>2, <2>1, <2>2
<1>4. Apply(state, early) = [r \in Everyone |-> Hear(r, Read, Hear(r, Delivered, state[r]))]
  BY DEF Apply, Hear
<1>5. QED
  BY <1>3, <1>4 DEF Forward, States
-------------------------------------------------------------------------------
(* Calls *)

HasSave(s) == \E k \in DOMAIN s : s[k].op = "save"

LEMMA CallFacts ==
    /\ \A state \in States, next \in {"send", "sent", "sync", "synced", "not synced", "failed",
                                     "job", "new", "again", "nothing"} :
            Save(state, next) \in DbCalls
    /\ \A c \in Receipts : Query(c) \in DbCalls /\ Query(c).op # "save"
BY DEF Save, Query, DbCalls

LEMMA AppendFacts ==
    ASSUME NEW s \in Seq(DbCalls), NEW c \in DbCalls
    PROVE  /\ Append(s, c) \in Seq(DbCalls)
           /\ HasSave(Append(s, c)) => HasSave(s) \/ c.op = "save"
<1>1. Append(s, c) \in Seq(DbCalls)
  OBVIOUS
<1>2. ASSUME NEW k \in DOMAIN Append(s, c), Append(s, c)[k].op = "save"
      PROVE  HasSave(s) \/ c.op = "save"
  <2>1. CASE k \in DOMAIN s
    BY <1>2, <2>1 DEF HasSave
  <2>2. CASE k \notin DOMAIN s
    <3>1. k = Len(s) + 1
      BY <1>2, <2>2
    <3>2. QED
      BY <1>2, <3>1
  <2>3. QED
    BY <2>1, <2>2
<1>3. QED
  BY <1>1, <1>2 DEF HasSave

LEMMA TailFacts ==
    ASSUME NEW s \in Seq(DbCalls), s # <<>>
    PROVE  /\ Head(s) \in DbCalls /\ Tail(s) \in Seq(DbCalls)
           /\ HasSave(Tail(s)) => HasSave(s)
           /\ Head(s).op = "save" => HasSave(s) /\ Head(s).state \in States
           /\ Head(s).op = "query" => Head(s).receipt \in Receipts
<1>1. Head(s) \in DbCalls /\ Tail(s) \in Seq(DbCalls) /\ Head(s) = s[1] /\ 1 \in DOMAIN s
  OBVIOUS
<1>2. ASSUME NEW k \in DOMAIN Tail(s), Tail(s)[k].op = "save"
      PROVE  HasSave(s)
  <2>1. k + 1 \in DOMAIN s /\ s[k + 1] = Tail(s)[k]
    OBVIOUS
  <2>2. QED
    BY <1>2, <2>1 DEF HasSave
<1>3. /\ Head(s).op = "save" => Head(s).state \in States
      /\ Head(s).op = "query" => Head(s).receipt \in Receipts
  BY <1>1 DEF DbCalls
<1>4. QED
  BY <1>1, <1>2, <1>3 DEF HasSave
-------------------------------------------------------------------------------
(* The invariant *)

\* When the message is in memory and in the database.
Known ==
    /\ (ours \/ step # "transcript") => mem \in States
    /\ (ours \/ step \notin {"transcript", "unsaved", "first save"}) => row \in States
    /\ row # Nothing => mem \in States
    /\ queued # Nothing => mem \in States
    /\ HasSave(calls) => mem \in States
    /\ step = "transcript" /\ row = Nothing => mem = Nothing

Inv == TypeOK /\ Known

\* The parts of the type invariant that the lemmas below are about.
MessageTypes == {mem, row, queued} \subseteq States \cup {Nothing}
FlagTypes == ours \in BOOLEAN /\ reads \in BOOLEAN /\ live \in BOOLEAN
ReceiptTypes ==
    /\ receipts \in [Receipts -> Places]
    /\ cache \subseteq Receipts /\ \A c, d \in cache : Key(c) = Key(d) => c = d
    /\ refused \subseteq Receipts
JobTypes ==
    /\ step \in {"idle", "sending", "first save", "second save", "syncing", "third save",
                 "failed", "marked", "over", "adding", "transcript", "unsaved"}
    /\ attempt \in 1 .. MaxAttempts /\ won \subseteq reached /\ reached \subseteq Recipients
    /\ cut \subseteq Receipts /\ faults \in 0 .. MaxFaults

LEMMA TypeParts ==
    TypeOK <=> FlagTypes /\ MessageTypes /\ calls \in Seq(DbCalls) /\ JobTypes /\ ReceiptTypes
BY DEF TypeOK, FlagTypes, MessageTypes, JobTypes, ReceiptTypes

LEMMA InitInv == Init => Inv
<1> SUFFICES ASSUME Init PROVE Inv
  OBVIOUS
<1>1. mem \in States \cup {Nothing} /\ (ours => mem \in States)
  BY DEF Init, States
<1>2. ~HasSave(calls) /\ calls \in Seq(DbCalls)
  BY DEF Init, HasSave
<1>3. receipts \in [Receipts -> Places] /\ cache = {} /\ refused = {} /\ cut = {}
  BY DEF Init, Places
<1>4. TypeOK
  <2>1. MessageTypes
    BY <1>1 DEF Init, MessageTypes
  <2>2. JobTypes
    BY AttemptsAssumption DEF Init, JobTypes
  <2>3. ReceiptTypes
    BY <1>3 DEF ReceiptTypes
  <2>4. FlagTypes
    BY DEF Init, FlagTypes
  <2>5. QED
    BY <1>2, <2>1, <2>2, <2>3, <2>4, TypeParts
<1>5. Known
  BY <1>1, <1>2 DEF Init, Known
<1>6. QED
  BY <1>4, <1>5 DEF Inv

\* The receipts, their map and the refused ones are of the right type after every step.
LEMMA ReceiptTypesStep ==
    ASSUME ReceiptTypes, calls \in Seq(DbCalls), [Next]_vars
    PROVE  ReceiptTypes'
<1> USE DEF ReceiptTypes, Places
<1>1. CASE UNCHANGED handling
  BY <1>1 DEF handling
<1>2. CASE TakeEarly
  BY <1>2 DEF TakeEarly
<1>3. ASSUME NEW c \in Receipts, OnReceipt(c)
      PROVE  ReceiptTypes'
  BY <1>3 DEF OnReceipt
<1>4. ASSUME NEW c \in Receipts, RemoveReceipt(c), refused' \in SUBSET Receipts
      PROVE  ReceiptTypes'
  BY <1>4 DEF RemoveReceipt, Mark
<1>5. ASSUME NoMessageFound \/ RefuseReceipt \/ UpdateSendState
      PROVE  ReceiptTypes'
  <2>1. Asked \in Receipts
    BY <1>5, TailFacts DEF NoMessageFound, RefuseReceipt, UpdateSendState, Replied, Asked
  <2>2. CASE NoMessageFound
    BY <2>1, <2>2 DEF NoMessageFound, Mark
  <2>3. CASE RefuseReceipt
    BY <1>4, <2>1, <2>3 DEF RefuseReceipt
  <2>4. CASE UpdateSendState
    <3>1. CASE RemoveReceipt(Asked)
      BY <1>4, <2>1, <2>4, <3>1 DEF UpdateSendState
    <3>2. CASE Mark(Asked, "deleting") /\ UNCHANGED cache
      BY <2>1, <2>4, <3>2 DEF UpdateSendState, Mark
    <3>3. QED
      BY <2>4, <3>1, <3>2 DEF UpdateSendState
  <2>5. QED
    BY <1>5, <2>2, <2>3, <2>4
<1>6. ASSUME NEW c \in Receipts, Arrive(c) \/ HandleStored(c) \/ HandleAgain(c) \/ DeletedSentProto(c)
      PROVE  ReceiptTypes'
  BY <1>3, <1>4, <1>6 DEF Arrive, HandleStored, HandleAgain, DeletedSentProto
<1>7. CASE RemoveFromCache
  BY <1>7 DEF RemoveFromCache
<1>8. CASE Crash
  BY <1>8 DEF Crash, ReceiptsAfter, InMemory
<1>9. CASE Send \/ RetrySend \/ \E r \in Recipients : Reach(r)
  BY <1>1, <1>9 DEF Send, Attempt, SendEnds, SyncSucceeds, SyncFails, HandleErrors, RunOutOfTime, RetrySend,
                     Reach
<1>10. CASE Transcript
  BY <1>1, <1>2, <1>10 DEF Transcript, HandleTranscript, SaveNew
<1>11. CASE \/ SendSaved \/ SentSaved \/ SyncSaved \/ SyncedSaved \/ NotSyncedSaved \/ FailureSaved
            \/ JobSaved \/ NewSaved \/ AgainSaved \/ BatchSaved \/ BatchFires
  BY <1>1, <1>2, <1>11
     DEF SendSaved, SentSaved, SyncSaved, SyncedSaved, NotSyncedSaved, FailureSaved, JobSaved,
         NewSaved, AgainSaved, BatchSaved, BatchFires
<1>12. QED
  BY <1>1, <1>5, <1>6, <1>7, <1>8, <1>9, <1>10, <1>11 DEF Next, DbAnswers, vars

LEMMA OneMore ==
    ASSUME NEW max \in Nat, NEW n
    PROVE  /\ max # 0 => 1 \in 1 .. max
           /\ n \in 1 .. max /\ n < max => n + 1 \in 1 .. max
           /\ n \in 0 .. max /\ n < max => n + 1 \in 0 .. max
OBVIOUS

\* So are the job and its attempts.
LEMMA JobTypesStep ==
    ASSUME JobTypes, [Next]_vars
    PROVE  JobTypes'
<1> USE DEF JobTypes
<1>0. /\ 1 \in 1 .. MaxAttempts
      /\ attempt < MaxAttempts => attempt + 1 \in 1 .. MaxAttempts
      /\ faults < MaxFaults => faults + 1 \in 0 .. MaxFaults
  <2>1. MaxAttempts \in Nat /\ MaxAttempts # 0 /\ MaxFaults \in Nat
    BY AttemptsAssumption
  <2>2. attempt \in 1 .. MaxAttempts /\ faults \in 0 .. MaxFaults
    OBVIOUS
  <2> HIDE DEF JobTypes
  <2>3. QED
    BY <2>1, <2>2, OneMore, Zenon
<1>1. CASE Attempt
  BY <1>1 DEF Attempt, limits
<1>2. ASSUME NEW r \in Recipients, Reach(r)
      PROVE  JobTypes'
  BY <1>2 DEF Reach, sending, limits
<1>3. CASE SendEnds
  BY <1>3 DEF SendEnds, limits
<1>4. CASE SyncSucceeds
  BY <1>4 DEF SyncSucceeds, limits
<1>5. CASE SyncFails
  BY <1>5 DEF SyncFails, limits
<1>6. CASE RetrySend
  BY <1>6, AttemptsAssumption DEF RetrySend
<1>7. CASE Transcript
  BY <1>7 DEF Transcript, HandleTranscript, SaveNew, limits
<1>8. CASE SendSaved
  BY <1>8 DEF SendSaved, limits
<1>9. CASE HandleErrors
  <2>1. UNCHANGED <<won, reached, limits>>
    BY <1>9 DEF HandleErrors
  <2>2. \/ step' = "idle" /\ attempt < MaxAttempts /\ attempt' = attempt + 1
        \/ step' = "marked" /\ attempt' = attempt
    BY <1>9 DEF HandleErrors, MarkFailed
  <2>3. QED
    BY <1>0, <2>1, <2>2 DEF limits
<1>10. CASE SentSaved \/ SyncSaved \/ SyncedSaved \/ NotSyncedSaved \/ FailureSaved \/ RunOutOfTime
  <2>1. UNCHANGED <<attempt, won, reached, limits>>
    BY <1>10
       DEF SentSaved, SyncSaved, SyncedSaved, NotSyncedSaved, FailureSaved, RunOutOfTime, MarkFailed
  <2>2. step' \in {step, "syncing", "failed", "marked", "over"}
    BY <1>10
       DEF SentSaved, SyncSaved, SyncedSaved, NotSyncedSaved, FailureSaved, RunOutOfTime, MarkFailed,
           EndAttempt
  <2>3. QED
    BY <2>1, <2>2 DEF limits
<1>11. CASE JobSaved \/ NewSaved \/ AgainSaved
  BY <1>11 DEF JobSaved, NewSaved, AgainSaved, limits
<1>12. CASE UNCHANGED <<sending, reached, limits>>
  BY <1>12 DEF sending, limits
<1>13. CASE BatchSaved \/ BatchFires \/ NoMessageFound \/ RefuseReceipt \/ UpdateSendState
  BY <1>12, <1>13 DEF BatchSaved, BatchFires, NoMessageFound, RefuseReceipt, UpdateSendState
<1>14. ASSUME NEW c \in Receipts,
              Arrive(c) \/ HandleStored(c) \/ HandleAgain(c) \/ DeletedSentProto(c)
       PROVE  JobTypes'
  BY <1>12, <1>14 DEF Arrive, HandleStored, HandleAgain, OnReceipt, DeletedSentProto
<1>15. CASE RemoveFromCache
  BY <1>12, <1>15 DEF RemoveFromCache
<1>16. CASE Crash
  <2>1. /\ attempt' = 1 /\ won' = {} /\ UNCHANGED reached
        /\ cut' \subseteq Receipts /\ faults' \in 0 .. MaxFaults
    BY <1>0, <1>16 DEF Crash
  <2>2. step' \in {"over", "idle", "transcript"}
    BY <1>16 DEF Crash
  <2>3. QED
    BY <1>0, <2>1, <2>2
<1>17. CASE UNCHANGED vars
  BY <1>12, <1>17 DEF vars
<1>18. QED
  BY <1>1, <1>2, <1>3, <1>4, <1>5, <1>6, <1>7, <1>8, <1>9, <1>10, <1>11, <1>13, <1>14, <1>15,
     <1>16, <1>17 DEF Next, Send, DbAnswers

\* The flags are Booleans; whose message it is does not change.
LEMMA FlagTypesStep ==
    ASSUME FlagTypes, [Next]_vars
    PROVE  FlagTypes' /\ ours' = ours
<1>1. ASSUME UNCHANGED <<ours, reads, live>>
      PROVE  FlagTypes' /\ ours' = ours
  BY <1>1 DEF FlagTypes
<1>2. ASSUME UNCHANGED <<ours, reads>>, NEW state, Set(state)
      PROVE  FlagTypes' /\ ours' = ours
  <2>1. live' = (live /\ state = mem)
    BY <1>2 DEF Set
  <2>2. live' \in BOOLEAN
    BY <2>1
  <2>3. QED
    BY <1>2, <2>2 DEF FlagTypes
<1>3. ASSUME UNCHANGED <<ours, reads>>, live' = FALSE \/ live' = TRUE
      PROVE  FlagTypes' /\ ours' = ours
  BY <1>3 DEF FlagTypes
<1>4. CASE Send
  BY <1>1, <1>2, <1>3, <1>4
     DEF Send, Attempt, SendEnds, SyncSucceeds, SyncFails, HandleErrors, RunOutOfTime, MarkFailed,
         SetWithOthers, message, limits
<1>5. ASSUME NEW r \in Recipients, Reach(r)
      PROVE  FlagTypes' /\ ours' = ours
  BY <1>1, <1>5 DEF Reach, message, limits
<1>6. CASE RetrySend
  BY <1>2, <1>6 DEF RetrySend
<1>7. CASE Transcript
  BY <1>1, <1>2, <1>7 DEF Transcript, HandleTranscript, SaveNew, message, limits
<1>8. CASE SendSaved \/ SyncSaved
  BY <1>1, <1>2, <1>3, <1>8 DEF SendSaved, SyncSaved, SetWithOthers, message, limits
<1>9. CASE NewSaved
  BY <1>2, <1>9 DEF NewSaved, limits
<1>10. CASE \/ SentSaved \/ SyncedSaved \/ NotSyncedSaved \/ FailureSaved \/ JobSaved \/ AgainSaved
            \/ BatchSaved \/ NoMessageFound \/ RefuseReceipt
  BY <1>1, <1>10
     DEF SentSaved, SyncedSaved, NotSyncedSaved, FailureSaved, JobSaved, AgainSaved, BatchSaved,
         NoMessageFound, RefuseReceipt, message, limits
<1>11. CASE UpdateSendState
  BY <1>1, <1>3, <1>11 DEF UpdateSendState, message, limits
<1>12. CASE BatchFires
  BY <1>3, <1>12 DEF BatchFires, limits
<1>13. ASSUME NEW c \in Receipts,
              Arrive(c) \/ HandleStored(c) \/ HandleAgain(c) \/ DeletedSentProto(c)
       PROVE  FlagTypes' /\ ours' = ours
  BY <1>1, <1>13 DEF Arrive, HandleStored, HandleAgain, OnReceipt, DeletedSentProto, message, limits
<1>14. CASE RemoveFromCache
  BY <1>1, <1>14 DEF RemoveFromCache, message, limits
<1>15. CASE Crash
  BY <1>3, <1>15 DEF Crash
<1>16. CASE UNCHANGED vars
  BY <1>1, <1>16 DEF vars, message, limits
<1>17. QED
  BY <1>4, <1>5, <1>6, <1>7, <1>8, <1>9, <1>10, <1>11, <1>12, <1>13, <1>14, <1>15, <1>16
     DEF Next, DbAnswers
-------------------------------------------------------------------------------
(* The message *)

\* What a step of a living process does to the message.
Keeps ==
    /\ MessageTypes' /\ calls' \in Seq(DbCalls) /\ Known'
    /\ mem # Nothing => Forward(mem, mem')

\* Once the message is in memory and in the database, all is known.
LEMMA KnownOnceSaved ==
    ASSUME mem' \in States, row' \in States
    PROVE  Known'
BY NothingAssumption DEF Known

\* A step that leaves the message alone.
LEMMA KeepsSame ==
    ASSUME Inv, UNCHANGED <<message, row, ours, step>>, calls' \in Seq(DbCalls),
           HasSave(calls') => HasSave(calls)
    PROVE  Keeps
<1>1. MessageTypes /\ Known
  BY TypeParts DEF Inv
<1>2. MessageTypes' /\ mem' = mem
  BY <1>1 DEF MessageTypes, message
<1>3. Known'
  BY <1>1 DEF Known, message
<1>4. mem # Nothing => Forward(mem, mem')
  BY <1>1, <1>2, ForwardSame DEF MessageTypes
<1>5. QED
  BY <1>2, <1>3, <1>4 DEF Keeps

\* A step with the message in memory and in the database.
LEMMA KeepsSaved ==
    ASSUME Inv, mem \in States, mem' \in States, Forward(mem, mem'), row' \in States,
           queued' \in States \cup {Nothing}, calls' \in Seq(DbCalls)
    PROVE  Keeps
BY KnownOnceSaved DEF Keeps, MessageTypes

\* What Set and SetWithOthers do to the message.
LEMMA SetFacts ==
    ASSUME MessageTypes, NEW state \in States, Set(state) \/ SetWithOthers(state)
    PROVE  mem' = state /\ queued' \in States \cup {Nothing}
BY DEF MessageTypes, Set, SetWithOthers

\* The answer of a save.
LEMMA AnsweredFacts ==
    ASSUME Inv, NEW next, Answered(next)
    PROVE  /\ mem \in States /\ Head(calls).state \in States
           /\ Tail(calls) \in Seq(DbCalls)
<1>1. calls \in Seq(DbCalls) /\ Known
  BY TypeParts DEF Inv
<1>2. QED
  BY <1>1, TailFacts DEF Answered, Known

\* The steps of the job.
LEMMA JobKeeps ==
    ASSUME Inv, ours' = ours,
           \/ Send \/ RetrySend \/ SendSaved \/ SentSaved \/ SyncSaved \/ SyncedSaved
           \/ NotSyncedSaved \/ FailureSaved \/ JobSaved
           \/ \E r \in Recipients : Reach(r)
    PROVE  Keeps
<1>1. MessageTypes /\ calls \in Seq(DbCalls) /\ Known
  BY TypeParts DEF Inv
<1>2. ASSUME step \in {"idle", "sending", "syncing", "failed", "over"}
      PROVE  mem \in States /\ row \in States
  BY <1>1, <1>2 DEF Known
<1>3. ASSUME NEW state \in States, NEW next \in {"send", "sync", "not synced", "failed", "job"},
             Call(Save(state, next))
      PROVE  calls' \in Seq(DbCalls)
  BY <1>1, <1>3, CallFacts, AppendFacts DEF Call
<1>4. ASSUME UNCHANGED <<message, row>>, mem \in States, row \in States, calls' \in Seq(DbCalls)
      PROVE  Keeps
  BY <1>1, <1>4, ForwardSame, KeepsSaved DEF message, MessageTypes
<1>5. ASSUME NEW state \in States, Forward(mem, state),
             NEW next \in {"sync", "not synced", "failed", "job"},
             mem \in States, row \in States,
             Set(state) \/ SetWithOthers(state), Call(Save(mem', next)), UNCHANGED row
      PROVE  Keeps
  <2>1. mem' = state /\ queued' \in States \cup {Nothing}
    BY <1>1, <1>5, SetFacts
  <2>2. calls' \in Seq(DbCalls)
    BY <1>3, <1>5, <2>1
  <2>3. QED
    BY <1>5, <2>1, <2>2, KeepsSaved
<1>6. CASE Attempt
  <2>1. /\ mem \in States /\ row \in States
        /\ UNCHANGED <<row, calls>>
    BY <1>2, <1>6 DEF Attempt
  <2>2. CASE SetWithOthers(mem)
    BY <1>1, <2>1, <2>2, SetFacts, ForwardSame, KeepsSaved
  <2>3. CASE UNCHANGED message
    BY <1>1, <1>4, <2>1, <2>3
  <2>4. QED
    BY <1>6, <2>2, <2>3 DEF Attempt
<1>7. CASE SendEnds
  <2>1. mem \in States /\ row \in States
    BY <1>2, <1>7 DEF SendEnds
  <2>2. calls' \in Seq(DbCalls)
    BY <1>3, <1>7, <2>1 DEF SendEnds
  <2>3. QED
    BY <1>4, <1>7, <2>1, <2>2 DEF SendEnds
<1>8. CASE SyncSucceeds
  <2>1. mem \in States /\ row \in States
    BY <1>2, <1>8 DEF SyncSucceeds
  <2> DEFINE state == Raise(mem, {Us}, Sent)
  <2>2. state \in States /\ Forward(mem, state)
    BY <2>1, RaiseFacts
  <2>3. SetWithOthers(state) /\ Call(Save(mem', "sync")) /\ UNCHANGED row
    BY <1>8 DEF SyncSucceeds
  <2> HIDE DEF state
  <2>4. QED
    BY <1>5, <2>1, <2>2, <2>3
<1>9. CASE SyncFails
  <2>1. mem \in States /\ row \in States /\ row' = row /\ Forward(mem, mem)
    BY <1>2, <1>9, ForwardSame DEF SyncFails
  <2>2. CASE SetWithOthers(mem) /\ Call(Save(mem', "not synced"))
    BY <1>5, <2>1, <2>2
  <2>3. CASE UNCHANGED message /\ Call(Save(mem', "not synced"))
    <3>1. calls' \in Seq(DbCalls)
      BY <1>3, <2>1, <2>3 DEF message
    <3>2. QED
      BY <1>4, <2>1, <2>3, <3>1
  <2>4. CASE UNCHANGED message /\ UNCHANGED calls
    BY <1>1, <1>4, <2>1, <2>4
  <2>5. QED
    BY <1>9, <2>2, <2>3, <2>4 DEF SyncFails
<1>10. CASE RetrySend
  <2>1. mem \in States /\ row \in States
    BY <1>2, <1>10 DEF RetrySend
  <2> DEFINE state == Raise(mem, Everyone, Pending)
  <2>2. state \in States /\ Forward(mem, state)
    BY <2>1, RaiseFacts
  <2>3. Set(state) /\ Call(Save(mem', "job")) /\ UNCHANGED row
    BY <1>10 DEF RetrySend
  <2> HIDE DEF state
  <2>4. QED
    BY <1>5, <2>1, <2>2, <2>3
<1>11. ASSUME MarkFailed, UNCHANGED row, mem \in States, row \in States
       PROVE  Keeps
  <2> DEFINE state == Raise(mem, Everyone, Failed)
  <2>1. state \in States /\ Forward(mem, state)
    BY <1>11, RaiseFacts
  <2>2. (Set(state) \/ SetWithOthers(state)) /\ Call(Save(mem', "failed"))
    BY <1>11 DEF MarkFailed
  <2> HIDE DEF state
  <2>3. QED
    BY <1>5, <1>11, <2>1, <2>2
<1>12. CASE HandleErrors \/ RunOutOfTime
  <2>1. mem \in States /\ row \in States /\ row' = row
    BY <1>2, <1>12 DEF HandleErrors, RunOutOfTime
  <2>2. CASE MarkFailed
    BY <1>11, <2>1, <2>2
  <2>3. CASE UNCHANGED <<message, calls>>
    BY <1>1, <1>4, <2>1, <2>3
  <2>4. QED
    BY <1>12, <2>2, <2>3 DEF HandleErrors, RunOutOfTime
<1>13. ASSUME NEW r \in Recipients, Reach(r)
       PROVE  Keeps
  BY <1>1, <1>2, <1>4, <1>13 DEF Reach
<1>14. CASE SendSaved
  <2>1. /\ mem \in States /\ Head(calls).state \in States
        /\ Tail(calls) \in Seq(DbCalls)
    BY <1>14, AnsweredFacts DEF SendSaved
  <2>2. PICK failed \in SUBSET Targets :
            LET state == Raise(Raise(mem, won, Sent), failed, Failed) IN
            \/ Set(state)
            \/ live /\ mem' = state /\ live' = FALSE /\ UNCHANGED queued
    BY <1>14 DEF SendSaved
  <2> DEFINE first == Raise(mem, won, Sent)
             state == Raise(first, failed, Failed)
  <2>3. first \in States /\ Forward(mem, first)
    BY <2>1, RaiseFacts
  <2> HIDE DEF first
  <2>4. state \in States /\ Forward(first, state)
    BY <2>3, RaiseFacts
  <2> HIDE DEF state
  <2>5. Forward(mem, state)
    BY <2>1, <2>3, <2>4, ForwardTwice
  <2>6. mem' = state /\ queued' \in States \cup {Nothing}
    <3>1. CASE Set(state)
      BY <1>1, <2>4, <3>1, SetFacts
    <3>2. CASE mem' = state /\ UNCHANGED queued
      BY <1>1, <3>2 DEF MessageTypes
    <3>3. QED
      BY <2>2, <3>1, <3>2 DEF first, state
  <2>7. row' \in States /\ calls' \in Seq(DbCalls)
    BY <1>14, <2>1, <2>4, <2>6, CallFacts, AppendFacts DEF SendSaved, ThenSave
  <2>8. QED
    BY <2>1, <2>4, <2>5, <2>6, <2>7, KeepsSaved
<1>15. ASSUME NEW next, Answered(next), ThenNothing, UNCHANGED message
       PROVE  Keeps
  <2>1. /\ mem \in States /\ Head(calls).state \in States
        /\ Tail(calls) \in Seq(DbCalls)
    BY <1>15, AnsweredFacts
  <2>2. row' \in States /\ calls' \in Seq(DbCalls)
    BY <1>15, <2>1 DEF ThenNothing
  <2>3. QED
    BY <1>1, <1>15, <2>1, <2>2, ForwardSame, KeepsSaved DEF message, MessageTypes
<1>16. CASE SentSaved \/ SyncedSaved \/ NotSyncedSaved \/ FailureSaved \/ JobSaved
  BY <1>15, <1>16 DEF SentSaved, SyncedSaved, NotSyncedSaved, FailureSaved, JobSaved
<1>17. CASE SyncSaved
  <2>1. /\ mem \in States /\ Head(calls).state \in States
        /\ Tail(calls) \in Seq(DbCalls)
    BY <1>17, AnsweredFacts DEF SyncSaved
  <2>2. CASE ThenNothing /\ UNCHANGED message
    BY <1>15, <1>17, <2>2 DEF SyncSaved
  <2>3. CASE (Set(mem) \/ SetWithOthers(mem)) /\ ThenSave("synced")
    <3>1. mem' = mem /\ queued' \in States \cup {Nothing}
      BY <1>1, <2>1, <2>3, SetFacts
    <3>2. row' \in States /\ calls' \in Seq(DbCalls)
      BY <2>1, <2>3, <3>1, CallFacts, AppendFacts DEF ThenSave
    <3>3. QED
      BY <2>1, <3>1, <3>2, ForwardSame, KeepsSaved
  <2>4. QED
    BY <1>17, <2>2, <2>3 DEF SyncSaved
<1>18. QED
  BY <1>6, <1>7, <1>8, <1>9, <1>10, <1>13, <1>14, <1>16, <1>12, <1>17 DEF Send

\* The steps of a transcript.
LEMMA TranscriptKeeps ==
    ASSUME Inv, ours' = ours, Transcript \/ NewSaved \/ AgainSaved
    PROVE  Keeps
<1>1. MessageTypes /\ calls \in Seq(DbCalls) /\ Known
  BY TypeParts DEF Inv
<1>2. CASE HandleTranscript /\ row # Nothing
  <2>1. /\ mem \in States /\ row \in States
        /\ UNCHANGED <<message, row, calls>>
    BY <1>1, <1>2 DEF HandleTranscript, Known, MessageTypes
  <2>2. QED
    BY <1>1, <2>1, ForwardSame, KeepsSaved DEF message, MessageTypes
<1>3. CASE HandleTranscript /\ row = Nothing
  <2> DEFINE sent == [r \in Everyone |-> Sent]
  <2>1. sent \in States
    BY DEF States
  <2> HIDE DEF sent
  <2>2. Apply(sent, cache) \in States
    BY <2>1, ApplyFacts
  <2>3. Set(Apply(sent, cache)) /\ UNCHANGED <<row, calls>> /\ step = "transcript" /\ step' = "unsaved"
    BY <1>3 DEF HandleTranscript, sent
  <2>4. mem' \in States /\ queued' \in States \cup {Nothing}
    BY <1>1, <2>2, <2>3, SetFacts
  <2>5. mem = Nothing /\ ~ours
    BY <1>1, <1>3, <2>3, NothingAssumption DEF Known
  <2>6. Known'
    BY <1>3, <2>3, <2>4, <2>5 DEF Known
  <2>7. QED
    BY <1>1, <2>3, <2>4, <2>5, <2>6 DEF Keeps, MessageTypes
<1>4. CASE SaveNew
  <2>1. mem \in States /\ UNCHANGED <<message, row>> /\ step = "unsaved" /\ step' = "first save"
    BY <1>1, <1>4 DEF SaveNew, Known
  <2>2. calls' \in Seq(DbCalls)
    BY <1>1, <1>4, <2>1, CallFacts, AppendFacts DEF SaveNew, Call
  <2>3. Known'
    BY <1>1, <2>1 DEF Known, message
  <2>4. QED
    BY <1>1, <2>1, <2>2, <2>3, ForwardSame DEF Keeps, MessageTypes, message
<1>5. CASE NewSaved
  <2>1. /\ mem \in States /\ Head(calls).state \in States
        /\ Tail(calls) \in Seq(DbCalls)
    BY <1>5, AnsweredFacts DEF NewSaved
  <2>2. Apply(mem, cache) \in States /\ Forward(mem, Apply(mem, cache))
    BY <2>1, ApplyFacts
  <2>3. mem' = Apply(mem, cache) /\ queued' \in States \cup {Nothing}
    BY <1>1, <1>5, <2>2, SetFacts DEF NewSaved
  <2>4. row' \in States /\ calls' \in Seq(DbCalls)
    <3>1. CASE ThenNothing
      BY <2>1, <3>1 DEF ThenNothing
    <3>2. CASE ThenSave("again")
      BY <2>1, <2>2, <2>3, <3>2, CallFacts, AppendFacts DEF ThenSave
    <3>3. QED
      BY <1>5, <3>1, <3>2 DEF NewSaved
  <2>5. QED
    BY <2>1, <2>2, <2>3, <2>4, KeepsSaved
<1>6. CASE AgainSaved
  <2>1. /\ mem \in States /\ Head(calls).state \in States
        /\ Tail(calls) \in Seq(DbCalls)
    BY <1>6, AnsweredFacts DEF AgainSaved
  <2>2. row' \in States /\ calls' \in Seq(DbCalls) /\ UNCHANGED message
    BY <1>6, <2>1 DEF AgainSaved, ThenNothing
  <2>3. QED
    BY <1>1, <2>1, <2>2, ForwardSame, KeepsSaved DEF message, MessageTypes
<1>7. QED
  BY <1>2, <1>3, <1>4, <1>5, <1>6 DEF Transcript

\* The steps of the receipts and of the batcher.
LEMMA ReceiptKeeps ==
    ASSUME Inv, ours' = ours,
           \/ NoMessageFound \/ RefuseReceipt \/ UpdateSendState \/ BatchFires \/ BatchSaved
           \/ \E c \in Receipts : Arrive(c) \/ HandleStored(c) \/ HandleAgain(c) \/ DeletedSentProto(c)
           \/ RemoveFromCache
    PROVE  Keeps
<1>1. MessageTypes /\ calls \in Seq(DbCalls) /\ Known
  BY TypeParts DEF Inv
<1>2. ASSUME Replied
      PROVE  calls' \in Seq(DbCalls) /\ (HasSave(calls') => HasSave(calls))
  BY <1>1, <1>2, TailFacts DEF Replied
<1>3. CASE NoMessageFound \/ RefuseReceipt
  BY <1>2, <1>3, KeepsSame DEF NoMessageFound, RefuseReceipt, sending
<1>4. CASE UpdateSendState
  <2>1. /\ mem \in States /\ row \in States /\ row' = row
        /\ calls' \in Seq(DbCalls)
    BY <1>1, <1>2, <1>4 DEF UpdateSendState, Known, MessageTypes
  <2> DEFINE state == Apply(mem, {Asked})
  <2>2. state \in States /\ Forward(mem, state)
    BY <2>1, ApplyFacts
  <2>3. \/ UNCHANGED message
        \/ mem' = state /\ queued' = state
    BY <1>4 DEF UpdateSendState
  <2> HIDE DEF state
  <2>4. CASE UNCHANGED message
    BY <1>1, <2>1, <2>4, ForwardSame, KeepsSaved DEF message, MessageTypes
  <2>5. CASE mem' = state /\ queued' = state
    BY <2>1, <2>2, <2>5, KeepsSaved
  <2>6. QED
    BY <2>3, <2>4, <2>5
<1>5. CASE BatchFires
  <2>1. /\ mem \in States /\ queued \in States /\ queued' = Nothing
        /\ UNCHANGED <<mem, row, step>>
    BY <1>1, <1>5 DEF BatchFires, Known, MessageTypes, sending
  <2>2. calls' \in Seq(DbCalls)
    BY <1>1, <1>5, <2>1, CallFacts, AppendFacts DEF BatchFires, Call
  <2>3. Known'
    BY <1>1, <2>1, <2>2 DEF Known
  <2>4. QED
    BY <1>1, <2>1, <2>2, <2>3, ForwardSame DEF Keeps, MessageTypes
<1>6. CASE BatchSaved
  <2>1. /\ mem \in States /\ Head(calls).state \in States
        /\ Tail(calls) \in Seq(DbCalls)
    BY <1>6, AnsweredFacts DEF BatchSaved
  <2>2. row' \in States /\ calls' \in Seq(DbCalls) /\ UNCHANGED message
    BY <1>6, <2>1 DEF BatchSaved, ThenNothing
  <2>3. QED
    BY <1>1, <2>1, <2>2, ForwardSame, KeepsSaved DEF message, MessageTypes
<1>7. ASSUME NEW c \in Receipts, OnReceipt(c)
      PROVE  Keeps
  <2>1. calls' \in Seq(DbCalls) /\ (HasSave(calls') => HasSave(calls))
    BY <1>1, <1>7, CallFacts, AppendFacts DEF OnReceipt, Call
  <2>2. QED
    BY <1>7, <2>1, KeepsSame DEF OnReceipt, sending
<1>8. ASSUME NEW c \in Receipts, DeletedSentProto(c)
      PROVE  Keeps
  BY <1>1, <1>8, KeepsSame DEF DeletedSentProto, sending
<1>9. CASE RemoveFromCache
  BY <1>1, <1>9, KeepsSame DEF RemoveFromCache, sending
<1>10. QED
  BY <1>3, <1>4, <1>5, <1>6, <1>7, <1>8, <1>9 DEF Arrive, HandleStored, HandleAgain

\* A crash leaves what the database has.
LEMMA CrashKeeps ==
    ASSUME Inv, ours' = ours, Crash
    PROVE  MessageTypes' /\ calls' \in Seq(DbCalls) /\ Known'
<1>1. MessageTypes /\ calls \in Seq(DbCalls) /\ Known
  BY TypeParts DEF Inv
<1>2. PICK last \in {0} \cup {k \in DOMAIN calls : calls[k].op = "save"} :
        /\ row' = IF last = 0 THEN row ELSE calls[last].state
        /\ step' \in {"over", "idle", "transcript"}
        /\ step' = "over" => step \in {"over", "adding"}
        /\ step' = "idle" => ours
  BY DEF Crash
<1>3. /\ mem' = row' /\ queued' = Nothing
      /\ calls' = <<>>
  BY DEF Crash
<1>4. row' = row \/ row' \in States
  <2>1. CASE last = 0
    BY <1>2, <2>1
  <2>2. CASE last \in DOMAIN calls /\ calls[last].op = "save"
    <3>1. calls[last] \in DbCalls
      BY <1>1, <2>2
    <3>2. calls[last].state \in States
      BY <2>2, <3>1 DEF DbCalls
    <3>3. QED
      BY <1>2, <3>2
  <2>3. QED
    BY <1>2, <2>1, <2>2
<1>5. calls' \in Seq(DbCalls) /\ ~HasSave(calls')
  BY <1>3 DEF HasSave
<1>6. row' \in States \cup {Nothing}
  BY <1>1, <1>4 DEF MessageTypes
<1>7. MessageTypes'
  BY <1>3, <1>6 DEF MessageTypes
<1>8. (ours \/ step' # "transcript") => row' \in States
  BY <1>1, <1>2, <1>4 DEF Known
<1>9. Known'
  BY <1>2, <1>3, <1>5, <1>6, <1>8 DEF Known
<1>10. QED
  BY <1>5, <1>7, <1>9

\* One step keeps the invariant, and what is shown goes forward unless it is a crash.
LEMMA Step ==
    ASSUME Inv, [Next]_vars
    PROVE  Inv' /\ (mem # Nothing /\ ~Crash => Forward(mem, mem'))
<1>1. /\ FlagTypes /\ MessageTypes /\ calls \in Seq(DbCalls) /\ JobTypes /\ ReceiptTypes
      /\ Known
  BY TypeParts DEF Inv
<1>2. FlagTypes' /\ ours' = ours /\ JobTypes' /\ ReceiptTypes'
  BY <1>1, FlagTypesStep, JobTypesStep, ReceiptTypesStep
<1>3. \/ Keeps
      \/ Crash /\ MessageTypes' /\ calls' \in Seq(DbCalls) /\ Known'
  <2>1. CASE Crash
    BY <1>2, <2>1, CrashKeeps
  <2>2. CASE UNCHANGED vars
    BY <1>1, <2>2, KeepsSame DEF vars, sending, limits
  <2>3. CASE Next /\ ~Crash
    BY <1>2, <2>3, JobKeeps, TranscriptKeeps, ReceiptKeeps DEF Next, DbAnswers
  <2>4. QED
    BY <2>1, <2>2, <2>3
<1>4. MessageTypes' /\ calls' \in Seq(DbCalls) /\ Known'
  BY <1>3 DEF Keeps
<1>5. TypeOK' <=> FlagTypes' /\ MessageTypes' /\ calls' \in Seq(DbCalls) /\ JobTypes' /\ ReceiptTypes'
  BY DEF TypeOK, FlagTypes, MessageTypes, JobTypes, ReceiptTypes
<1>6. QED
  BY <1>2, <1>3, <1>4, <1>5 DEF Inv, Keeps
-------------------------------------------------------------------------------
\* The types of ts/messageModifiers/MessageReceipts.ts and of the messages it changes hold
\* always; its map has one receipt for each key.
THEOREM TypeCorrect == Spec => []TypeOK
<1>1. Inv /\ [Next]_vars => Inv'
  BY Step
<1>2. Inv => TypeOK
  BY DEF Inv
<1>3. QED
  BY InitInv, <1>1, <1>2, PTL DEF Spec

\* What is shown of a recipient never goes backwards (ts/messages/MessageSendState.ts),
\* whatever sends, retries, receipts and answers of the database overlap.
THEOREM NeverGoesBackwards == Spec => NeverBackwards
<1>1. Inv /\ [Next]_vars => Inv'
  BY Step
<1>2. Inv /\ [Next]_vars => [mem # Nothing /\ ~Crash => Forward(mem, mem')]_vars
  BY Step
<1>3. QED
  BY InitInv, <1>1, <1>2, PTL DEF Spec, NeverBackwards
===============================================================================
