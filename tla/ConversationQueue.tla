--------------------------- MODULE ConversationQueue ---------------------------
(***************************************************************************)
(* The jobs of one conversation and the challenge that stops them: the     *)
(* retry states of ts/jobs/conversationJobQueue.ts and the ChallengeHandler *)
(* of ts/challenge.ts.  When the server answers a send with a challenge,   *)
(* the challenge is registered; a job whose type shows the captcha waits   *)
(* in the queue for its solution, any other ("silent") job is put aside    *)
(* until retryAt, until the challenge is lifted or until a job finds that  *)
(* nothing is registered.                                                  *)
(*                                                                         *)
(* All times are the time left until they are reached (0: reached), so the *)
(* clock is Tick, which brings them nearer; 1 is the minute the code takes *)
(* when the server names no time.  A task of the event loop runs with the  *)
(* microtasks it leaves in `micro' before any other: a job that returns    *)
(* NEEDS_RETRY is put aside after the next job of the queue has started.   *)
(***************************************************************************)
EXTENDS Integers, FiniteSets, SequencesExt

CONSTANTS Arrivals,      \* the jobs of the conversation, in the order they are added
          Captcha,       \* those whose type shows the captcha
          ProfileKeys,   \* those of type ProfileKey, which give way to a verification
          NoJob, NoData, NoChallenge,
          MaxAttempts,   \* attempts of a job before it is dropped
          MaxWait,       \* the longest time a challenge may name
          Lifetime,      \* MAX_RETRY_TIME
          MaxChallenges, \* bound: challenges of the server
          MaxFaults      \* bound: sends stopped by an untrusted key, and ends of the process

Jobs == Range(Arrivals)

ASSUME JobsAssumption ==
  /\ Arrivals \in Seq(Jobs) /\ IsInjective(Arrivals) /\ NoJob \notin Jobs
  /\ Captcha \subseteq Jobs /\ ProfileKeys \subseteq Jobs \ Captcha
ASSUME WaitAssumption == MaxWait \in Nat \ {0}
ASSUME BoundsAssumption ==
  /\ MaxAttempts \in Nat \ {0} /\ Lifetime \in Nat
  /\ MaxChallenges \in Nat /\ MaxFaults \in Nat

VARIABLES
  added,       \* sequence of the jobs added so far; their data have its order
  rows,        \* jobs in the database
  queue,       \* the PQueue of the conversation
  current,     \* the job that runs
  phase,       \* where its run() is
  attempt,     \* its attempt
  seen,        \* whether the retry state run() read had a retryAt
  data,        \* perConversationData
  orphans,     \* retry timers whose handle the retry state no longer holds
  idleWaiting, \* a callback waits for queue.onIdle
  waiter,      \* verificationWaitMap holds a waiter
  micro,       \* microtasks left
  registered,  \* registeredConversations: the challenge
  startTimer,  \* startTimers
  pendingStart,\* pendingStarts
  online,      \* isOnline
  puts,        \* writes of the challenge on their way to the database, and what follows each
  persisted,   \* the challenge in the database
  asked,       \* solves that wait for a captcha
  answering,   \* solves that wait for the server
  token,       \* challengeToken is set
  verification,\* verificationDataByConversation
  cancelled,   \* the jobs older than the cancellation it holds
  verifying,   \* verifyConversationsStoppingSend is under way
  age,         \* of the jobs
  told,        \* history: time the server gave a silent job and nothing has lifted
  challenges, faults

job == <<added, rows>>
run == <<queue, current, phase, attempt, seen>>
retry == <<data, orphans, idleWaiting, micro>>
handler == <<registered, startTimer, pendingStart, puts>>
solving == <<asked, answering, token>>
trust == <<verification, cancelled, verifying>>
world == <<online, persisted, age, challenges, faults>>
vars == <<job, run, retry, handler, solving, trust, world, waiter, told>>

Silent == Jobs \ Captcha
NoTime == -1
Times == 0..MaxWait
Challenge == [retryAt : Times \cup {NoTime}, silent : BOOLEAN]
RetryState == [jobs : Seq(Jobs), retryAt : Times, timer : Times \cup {NoTime}]

ASSUME NoneAssumption == NoData \notin RetryState /\ NoChallenge \notin Challenge

\* What is left of the waiting, after a unit of time.
Nearer(t) == IF t > 0 THEN t - 1 ELSE t
NearerChallenge(c) == IF c = NoChallenge THEN c ELSE [c EXCEPT !.retryAt = Nearer(@)]

-------------------------------------------------------------------------------
(* The queue                                                               *)

Working == current # NoJob

\* A microtask, and the job or the challenge it is about.
Task(name, about) == [name |-> name, about |-> about]
Callback == Task("callback", NoJob)
IsNext(name) == micro # <<>> /\ Head(micro).name = name

(* The PQueue holds q after the running job left it or jobs were added while none ran: *)
(* its head starts, and run() reads the retry state before anything else happens. *)
StartNext(q, hasRetryAt) ==
  /\ current' = IF q = <<>> THEN NoJob ELSE Head(q)
  /\ queue' = IF q = <<>> THEN q ELSE Tail(q)
  /\ phase' = IF q = <<>> THEN "none" ELSE "loading"
  /\ attempt' = IF q = <<>> THEN 0 ELSE 1
  /\ seen' = (q # <<>> /\ hasRetryAt)

Enqueue(js, hasRetryAt) ==
  IF Working
  THEN queue' = queue \o js /\ UNCHANGED <<current, phase, attempt, seen>>
  ELSE StartNext(queue \o js, hasRetryAt)

(* The run of the current job is over: the next job starts, then come the continuation *)
(* of the job itself (put aside when it needs a retry) and the callbacks of onIdle. *)
Leave(needsRetry) ==
  /\ StartNext(queue, data' # NoData)
  /\ rows' = IF needsRetry THEN rows ELSE rows \ {current}
  /\ micro' = (IF needsRetry THEN <<Task("retry", current)>> ELSE <<>>)
              \o (IF queue = <<>> /\ idleWaiting THEN <<Callback>> ELSE <<>>)
  /\ idleWaiting' = (idleWaiting /\ queue # <<>>)

\* Slip of FailAttempt: an attempt too many.
FailAttemptOnceMore ==
  IF attempt <= MaxAttempts
  THEN /\ attempt' = attempt + 1
       /\ phase' = "loading"
       /\ seen' = (data # NoData)
       /\ UNCHANGED <<rows, queue, current, micro, idleWaiting>>
  ELSE Leave(FALSE)

(* An attempt failed: run() starts anew, or the job is dropped. *)
FailAttempt ==
  IF attempt < MaxAttempts
  THEN /\ attempt' = attempt + 1
       /\ phase' = "loading"
       /\ seen' = (data # NoData)
       /\ UNCHANGED <<rows, queue, current, micro, idleWaiting>>
  ELSE Leave(FALSE)

-------------------------------------------------------------------------------
(* ChallengeHandler                                                        *)

(* A write that repeats the last one waiting changes nothing, and is not kept. *)
Persist(challenge, next) ==
  LET put == [value |-> challenge, next |-> next]
  IN puts' = IF next = "nothing" /\ puts # <<>> /\ Last(puts) = put
             THEN puts
             ELSE Append(puts, put)

Unregister(next) ==
  /\ registered' = NoChallenge
  /\ pendingStart' = FALSE
  /\ startTimer' = NoTime
  /\ Persist(NoChallenge, next)

Register(challenge) ==
  IF registered # NoChallenge
  THEN UNCHANGED handler
  ELSE /\ registered' = challenge
       /\ Persist(challenge, "arm")
       /\ UNCHANGED <<startTimer, pendingStart>>

StartQueue ==
  IF online
  THEN Unregister("start")
  ELSE pendingStart' = TRUE /\ UNCHANGED <<registered, startTimer, puts>>

Solve == asked' = asked + 1 /\ token' = TRUE /\ UNCHANGED answering

MaybeSolve ==
  IF registered # NoChallenge /\ asked + answering = 0
  THEN Solve
  ELSE UNCHANGED solving

-------------------------------------------------------------------------------
(* The retry states                                                        *)

(* The callback: the jobs put aside are queued, the challenge is unregistered and the *)
(* retry state is deleted -- after the first of the jobs has read it, when none runs. *)
RetryAll(hasRetryAt) ==
  /\ Enqueue(data.jobs, hasRetryAt)
  /\ data' = NoData
  /\ Unregister("nothing")

Unblock ==
  IF data = NoData
  THEN UNCHANGED <<run, data, handler>>
  ELSE RetryAll(FALSE)

ResolveVerificationWaiter ==
  IF waiter
  THEN /\ waiter' = FALSE
       /\ phase' = IF phase = "waiting" THEN "continuing" ELSE phase
       /\ UNCHANGED <<queue, current, attempt, seen, data, handler, told>>
  ELSE /\ Unblock
       /\ told' = 0
       /\ UNCHANGED waiter

(* retryAt of a challenge: a minute when it names none, and never earlier than before. *)
CaptureRetryAt(retryAt) ==
  LET new == IF retryAt = NoTime THEN 1 ELSE retryAt
  IN data' = IF data = NoData
             THEN [jobs |-> <<>>, retryAt |-> new, timer |-> NoTime]
             ELSE [data EXCEPT !.retryAt = IF @ >= new THEN @ ELSE new]

\* Slips of RetryJobOnQueueIdle: the job replaces those put aside before it; the timer
\* is cleared with its handle.
RetryJobReplacesOthers ==
  LET old == IF data = NoData THEN [jobs |-> <<>>, retryAt |-> 1, timer |-> NoTime] ELSE data
      created == old.jobs = <<>>
  IN /\ IsNext("retry")
     /\ data' = [old EXCEPT !.jobs = <<Head(micro).about>>, !.timer = NoTime]
     /\ orphans' = orphans \cup ({old.timer} \ {NoTime})
     /\ idleWaiting' = (idleWaiting \/ (created /\ Working))
     /\ micro' = Tail(micro) \o (IF created /\ ~Working THEN <<Callback>> ELSE <<>>)
     /\ UNCHANGED <<job, run, handler, solving, trust, world, waiter, told>>

RetryJobClearsTimer ==
  LET old == IF data = NoData THEN [jobs |-> <<>>, retryAt |-> 1, timer |-> NoTime] ELSE data
      created == old.jobs = <<>>
  IN /\ IsNext("retry")
     /\ data' = [old EXCEPT !.jobs = Append(@, Head(micro).about), !.timer = NoTime]
     /\ idleWaiting' = (idleWaiting \/ (created /\ Working))
     /\ micro' = Tail(micro) \o (IF created /\ ~Working THEN <<Callback>> ELSE <<>>)
     /\ UNCHANGED <<job, run, orphans, handler, solving, trust, world, waiter, told>>

(* The handle of a timer is not carried over: the timer still fires. *)
RetryJobOnQueueIdle ==
  LET old == IF data = NoData THEN [jobs |-> <<>>, retryAt |-> 1, timer |-> NoTime] ELSE data
      created == old.jobs = <<>>
  IN /\ IsNext("retry")
     /\ data' = [old EXCEPT !.jobs = Append(@, Head(micro).about), !.timer = NoTime]
     /\ orphans' = orphans \cup ({old.timer} \ {NoTime})
     /\ idleWaiting' = (idleWaiting \/ (created /\ Working))
     /\ micro' = Tail(micro) \o (IF created /\ ~Working THEN <<Callback>> ELSE <<>>)
     /\ UNCHANGED <<job, run, handler, solving, trust, world, waiter, told>>

\* Slip of RetryCallback: it does not look at retryAt.
RetryCallbackAtOnce ==
  IF data = NoData
  THEN UNCHANGED <<run, data, handler>>
  ELSE RetryAll(TRUE)

\* The jobs are queued when retryAt is past; before, the timer of the state is replaced.
RetryCallback ==
  IF data = NoData
  THEN UNCHANGED <<run, data, handler>>
  ELSE IF data.retryAt = 0
       THEN RetryAll(TRUE)
       ELSE data' = [data EXCEPT !.timer = data.retryAt] /\ UNCHANGED <<run, handler>>

IdleCallback ==
  /\ IsNext("callback")
  /\ micro' = Tail(micro)
  /\ RetryCallback
  /\ UNCHANGED <<job, orphans, idleWaiting, solving, trust, world, waiter, told>>

(* A retry timer fires: the one the state names, whose handle stays in it until the *)
(* callback replaces it, or one it forgot. *)
TimerCallback ==
  /\ \/ data # NoData /\ data.timer = 0 /\ UNCHANGED orphans
     \/ 0 \in orphans /\ orphans' = orphans \ {0}
  /\ RetryCallback
  /\ UNCHANGED <<job, idleWaiting, micro, solving, trust, world, waiter, told>>

-------------------------------------------------------------------------------
(* The jobs                                                                *)

Add(j) ==
  /\ Len(added) < Len(Arrivals) /\ j = Arrivals[Len(added) + 1] /\ age = 0
  /\ added' = Append(added, j)
  /\ rows' = rows \cup {j}
  /\ IF j \in Captcha THEN MaybeSolve ELSE UNCHANGED solving
  /\ Enqueue(<<j>>, data # NoData)
  /\ UNCHANGED <<retry, handler, trust, world, waiter, told>>

\* ConversationController.load() is done.
Loaded ==
  /\ phase = "loading"
  /\ IF seen /\ current \in Silent
     THEN UNCHANGED data /\ Leave(TRUE)
     ELSE /\ phase' = "continuing"
          /\ UNCHANGED <<rows, queue, current, attempt, seen, data, micro, idleWaiting>>
  /\ UNCHANGED <<added, orphans, handler, solving, trust, world, waiter, told>>

\* commonShouldJobContinue finds no time left: the job gives up.
GiveUp ==
  /\ phase = "continuing" /\ age = Lifetime
  /\ UNCHANGED data
  /\ Leave(FALSE)
  /\ UNCHANGED <<added, orphans, handler, solving, trust, world, waiter, told>>

StillValid == phase = "continuing" /\ age < Lifetime

AwaitCaptcha ==
  /\ StillValid /\ registered # NoChallenge /\ current \in Captcha
  /\ MaybeSolve
  /\ waiter' = TRUE
  /\ phase' = "waiting"
  /\ UNCHANGED <<job, queue, current, attempt, seen, retry, handler, trust, world, told>>

(* The other jobs go on; when no challenge is registered what was put aside is queued *)
(* behind them.  Then the verification of the conversation is met, in the same step. *)
GoOn ==
  /\ StillValid /\ (registered = NoChallenge \/ current \in Silent)
  /\ told' = IF registered = NoChallenge THEN 0 ELSE told
  /\ IF registered = NoChallenge /\ data # NoData
     THEN queue' = queue \o data.jobs /\ data' = NoData /\ Unregister("nothing")
     ELSE UNCHANGED <<queue, data, handler>>
  /\ \/ /\ verification = "none" \/ (verification = "cancelled" /\ current \notin cancelled)
        /\ verification' = "none" /\ cancelled' = {}
        /\ phase' = "sending"
        /\ UNCHANGED <<micro, waiter>>
     \/ /\ verification = "pending" /\ current \notin ProfileKeys
        /\ waiter' = TRUE
        /\ phase' = "waiting"
        /\ UNCHANGED <<micro, verification, cancelled>>
     \/ /\ \/ verification = "pending" /\ current \in ProfileKeys
           \/ verification = "cancelled" /\ current \in cancelled
        /\ micro' = <<Task("cancel", current)>>
        /\ UNCHANGED <<phase, waiter, verification, cancelled>>
  /\ UNCHANGED <<job, current, attempt, seen, orphans, idleWaiting, solving, verifying, world>>

\* The job is cancelled: it ends without a word to the server.
CancelJob ==
  /\ IsNext("cancel")
  /\ UNCHANGED data
  /\ Leave(FALSE)
  /\ UNCHANGED <<added, orphans, handler, solving, trust, world, waiter, told>>

\* The five minutes of waiting for a captcha or a verification are over.
StopWaiting ==
  /\ phase = "waiting"
  /\ phase' = "continuing"
  /\ UNCHANGED <<job, queue, current, attempt, seen, retry, handler, solving, trust, world,
                 waiter, told>>

Sent ==
  /\ phase = "sending"
  /\ UNCHANGED data
  /\ Leave(FALSE)
  /\ UNCHANGED <<added, orphans, handler, solving, trust, world, waiter, told>>

Failed ==
  /\ phase = "sending"
  /\ UNCHANGED data
  /\ FailAttempt
  /\ UNCHANGED <<added, orphans, handler, solving, trust, world, waiter, told>>

(* SendMessageChallengeError: a silent job is put aside, the others use up an attempt. *)
Challenged(retryAt) ==
  /\ phase = "sending" /\ challenges < MaxChallenges
  /\ challenges' = challenges + 1
  /\ Register([retryAt |-> retryAt, silent |-> current \in Silent])
  /\ IF current \in Silent
     THEN /\ CaptureRetryAt(retryAt)
          /\ Leave(TRUE)
          /\ told' = IF told >= retryAt THEN told ELSE retryAt
     ELSE UNCHANGED <<data, told>> /\ FailAttempt
  /\ UNCHANGED <<added, orphans, solving, trust, online, persisted, age, faults, waiter>>

(* OutgoingIdentityKeyError: the conversation waits for the user, a ProfileKey is dropped. *)
Untrusted ==
  /\ phase = "sending" /\ faults < MaxFaults
  /\ faults' = faults + 1
  /\ UNCHANGED data
  /\ IF current \in ProfileKeys
     THEN Leave(FALSE) /\ UNCHANGED <<verification, cancelled>>
     ELSE FailAttempt /\ verification' = "pending" /\ cancelled' = {}
  /\ UNCHANGED <<added, orphans, handler, solving, verifying, online, persisted, age, challenges,
                 waiter, told>>

-------------------------------------------------------------------------------
(* The challenge, the user and the time                                    *)

(* A write of the challenge arrives; what awaited it goes on. *)
PutDone ==
  /\ puts # <<>>
  /\ puts' = Tail(puts)
  /\ persisted' = Head(puts).value
  /\ micro' = IF Head(puts).next = "nothing"
              THEN <<>>
              ELSE <<Task(Head(puts).next, Head(puts).value)>>
  /\ UNCHANGED <<job, run, data, orphans, idleWaiting, registered, startTimer, pendingStart,
                 solving, trust, online, age, challenges, faults, waiter, told>>

(* register() goes on, also with a challenge that is unregistered by now. *)
ArmChallenge ==
  LET challenge == Head(micro).about
  IN /\ IsNext("arm")
     /\ micro' = Tail(micro)
     /\ IF challenge.retryAt = 0
        THEN StartQueue /\ UNCHANGED solving
        ELSE /\ startTimer' = IF challenge.retryAt = NoTime THEN startTimer ELSE challenge.retryAt
             /\ UNCHANGED <<registered, pendingStart, puts>>
             /\ IF challenge.silent THEN UNCHANGED solving ELSE Solve
     /\ UNCHANGED <<job, run, data, orphans, idleWaiting, trust, world, waiter, told>>

\* startQueue() goes on: the challenge is lifted.
StartConversation ==
  /\ IsNext("start")
  /\ micro' = Tail(micro)
  /\ ResolveVerificationWaiter
  /\ UNCHANGED <<job, orphans, idleWaiting, solving, trust, world>>

StartTimerFires ==
  /\ startTimer = 0
  /\ IF online
     THEN Unregister("start")
     ELSE startTimer' = NoTime /\ pendingStart' = TRUE /\ UNCHANGED <<registered, puts>>
  /\ UNCHANGED <<job, run, retry, solving, trust, world, waiter, told>>

\* The challenges that matured while offline are lifted.
OnOnline ==
  /\ ~online
  /\ online' = TRUE
  /\ IF pendingStart \/ (registered # NoChallenge /\ registered.retryAt = 0)
     THEN Unregister("start")
     ELSE UNCHANGED handler
  /\ UNCHANGED <<job, run, retry, solving, trust, persisted, age, challenges, faults, waiter,
                 told>>

OnOffline ==
  /\ online
  /\ online' = FALSE
  /\ UNCHANGED <<job, run, retry, handler, solving, trust, persisted, age, challenges, faults,
                 waiter, told>>

(* The user solves a captcha.  The first solution takes the last token, the solves *)
(* that come after it have nothing left to send. *)
OnResponse ==
  /\ asked > 0
  /\ asked' = asked - 1
  /\ token' = FALSE
  /\ answering' = IF token THEN answering + 1 ELSE answering
  /\ UNCHANGED <<job, run, retry, handler, trust, world, waiter, told>>

(* The server takes it, or limits the rate, which solve() takes for success. *)
SolveAccepted ==
  /\ answering > 0
  /\ answering' = answering - 1
  /\ IF registered = NoChallenge THEN UNCHANGED handler ELSE StartQueue
  /\ UNCHANGED <<job, run, retry, asked, token, trust, world, waiter, told>>

SolveRejected ==
  /\ answering > 0
  /\ answering' = answering - 1
  /\ UNCHANGED <<job, run, retry, handler, asked, token, trust, world, waiter, told>>

\* verifyConversationsStoppingSend: the keys are approved while the state is cleared already.
UserVerifies ==
  /\ verification = "pending" /\ ~verifying
  /\ verification' = "none"
  /\ verifying' = TRUE
  /\ UNCHANGED <<job, run, retry, handler, solving, cancelled, world, waiter, told>>

Verified ==
  /\ verifying
  /\ verifying' = FALSE
  /\ ResolveVerificationWaiter
  /\ UNCHANGED <<job, orphans, idleWaiting, micro, solving, verification, cancelled, world>>

\* cancelConversationVerification
UserCancels ==
  /\ verification = "pending"
  /\ verification' = "cancelled"
  /\ cancelled' = Range(added)
  /\ ResolveVerificationWaiter
  /\ UNCHANGED <<job, orphans, idleWaiting, micro, solving, verifying, world>>

Tick ==
  /\ age' = IF age < Lifetime THEN age + 1 ELSE age
  /\ data' = IF data = NoData THEN data
             ELSE [data EXCEPT !.retryAt = Nearer(@), !.timer = Nearer(@)]
  /\ orphans' = {Nearer(t) : t \in orphans}
  /\ startTimer' = Nearer(startTimer)
  /\ told' = Nearer(told)
  /\ registered' = NearerChallenge(registered)
  /\ persisted' = NearerChallenge(persisted)
  /\ puts' = [i \in DOMAIN puts |-> [puts[i] EXCEPT !.value = NearerChallenge(@)]]
  /\ UNCHANGED <<job, run, idleWaiting, micro, pendingStart, online, solving, trust, challenges,
                 faults, waiter>>

\* The rows, in the order in which the jobs were added.
Place(j) == CHOOSE i \in DOMAIN Arrivals : Arrivals[i] = j
Listings == {q \in BoundedSeq(rows, Len(added)) :
               Range(q) = rows /\ \A m, n \in DOMAIN q : m < n => Place(q[m]) < Place(q[n])}

(* The process ends and starts again: the rows are streamed into the queue, and load() *)
(* registers the challenge that was saved, unless it is a day old. *)
Restart ==
  /\ faults < MaxFaults
  /\ faults' = faults + 1
  /\ \E q \in Listings : StartNext(q, FALSE)
  /\ data' = NoData /\ orphans' = {} /\ idleWaiting' = FALSE /\ told' = 0
  /\ waiter' = FALSE
  /\ registered' \in {persisted} \cup (IF age = Lifetime THEN {NoChallenge} ELSE {})
  /\ puts' = IF registered' = NoChallenge THEN <<>> ELSE <<[value |-> registered', next |-> "arm"]>>
  /\ startTimer' = NoTime /\ pendingStart' = FALSE /\ online' = FALSE
  /\ asked' = 0 /\ answering' = 0 /\ token' = FALSE
  /\ verification' = "none" /\ cancelled' = {} /\ verifying' = FALSE
  /\ UNCHANGED <<job, micro, persisted, age, challenges>>

-------------------------------------------------------------------------------
Init ==
  /\ added = <<>> /\ rows = {}
  /\ queue = <<>> /\ current = NoJob /\ phase = "none" /\ attempt = 0 /\ seen = FALSE
  /\ data = NoData /\ orphans = {} /\ idleWaiting = FALSE /\ waiter = FALSE /\ micro = <<>>
  /\ registered = NoChallenge /\ startTimer = NoTime /\ pendingStart = FALSE /\ puts = <<>>
  /\ online = TRUE /\ persisted = NoChallenge
  /\ asked = 0 /\ answering = 0 /\ token = FALSE
  /\ verification = "none" /\ cancelled = {} /\ verifying = FALSE
  /\ age = 0 /\ told = 0
  /\ challenges = 0 /\ faults = 0

Microtask ==
  RetryJobOnQueueIdle \/ IdleCallback \/ CancelJob \/ ArmChallenge \/ StartConversation

RunStep ==
  \/ Loaded \/ GiveUp \/ AwaitCaptcha \/ GoOn \/ StopWaiting \/ Sent \/ Failed \/ Untrusted
  \/ \E t \in (1..MaxWait) \cup {NoTime} : Challenged(t)

HandlerStep == TimerCallback \/ StartTimerFires \/ PutDone \/ Verified

WorldStep ==
  \/ \E j \in Jobs : Add(j)
  \/ OnOnline \/ OnOffline \/ OnResponse \/ SolveAccepted \/ SolveRejected
  \/ UserVerifies \/ UserCancels \/ Restart

Next ==
  \/ Microtask
  \/ micro = <<>> /\ (RunStep \/ HandlerStep \/ WorldStep)
  \/ Tick

Spec == Init /\ [][Next]_vars

(* Jobs go on, timers fire, writes arrive and time passes.  No fairness of the user, of *)
(* the connection or of the server's answer to a captcha. *)
FairSpec ==
  /\ Spec
  /\ WF_vars(Microtask)
  /\ WF_vars(micro = <<>> /\ RunStep)
  /\ WF_vars(micro = <<>> /\ TimerCallback)
  /\ WF_vars(micro = <<>> /\ StartTimerFires)
  /\ WF_vars(micro = <<>> /\ PutDone)
  /\ WF_vars(Tick)

-------------------------------------------------------------------------------
(* Properties                                                              *)

Deferred == IF data = NoData THEN <<>> ELSE data.jobs
Returning == IF IsNext("retry") THEN <<Head(micro).about>> ELSE <<>>
InHand == queue \o Deferred \o Returning \o (IF Working THEN <<current>> ELSE <<>>)

Tasks == [name : {"retry", "callback", "cancel", "arm", "start"},
          about : Jobs \cup {NoJob, NoChallenge} \cup Challenge]
Puts == [value : Challenge \cup {NoChallenge}, next : {"arm", "start", "nothing"}]

\* Types; behind the first microtask there are only callbacks.
TypeOK ==
  /\ added \in Seq(Jobs) /\ IsInjective(added) /\ rows \subseteq Range(added)
  /\ queue \in Seq(Jobs) /\ current \in Jobs \cup {NoJob}
  /\ phase \in {"none", "loading", "continuing", "waiting", "sending"}
  /\ (phase = "none") = ~Working
  /\ attempt \in 0..MaxAttempts /\ seen \in BOOLEAN
  /\ data \in RetryState \cup {NoData}
  /\ orphans \subseteq Times /\ idleWaiting \in BOOLEAN /\ waiter \in BOOLEAN
  /\ micro \in Seq(Tasks) /\ \A i \in 2..Len(micro) : micro[i] = Callback
  /\ {registered, persisted} \subseteq Challenge \cup {NoChallenge}
  /\ startTimer \in Times \cup {NoTime} /\ pendingStart \in BOOLEAN /\ online \in BOOLEAN
  /\ puts \in Seq(Puts)
  /\ asked \in Nat /\ answering \in Nat /\ token \in BOOLEAN
  /\ verification \in {"none", "pending", "cancelled"}
  /\ cancelled \subseteq Jobs /\ verifying \in BOOLEAN
  /\ age \in 0..Lifetime /\ told \in Times

(* A job of the database is in one place of the memory, once: in the queue, at work, put *)
(* aside or on its way there (retryJobOnQueueIdle, the callback's forEach). *)
OnePlaceForEachJob == IsInjective(InHand) /\ Range(InHand) = rows

(* A silent job goes to the server only when the time the server gave the last silent jobs *)
(* is over, or when something lifted the challenge. *)
SilentJobsWait ==
  [][\A j \in Silent : (current' = j /\ phase' = "sending" /\ phase # "sending") => told = 0]_vars

(* Whoever is put aside will be started again: a callback is on its way, waits for the *)
(* queue to be idle while a job runs, or has a timer that fires at retryAt or before. *)
DeferredHasAlarm ==
  Deferred # <<>> =>
    \/ Callback \in Range(micro)
    \/ idleWaiting /\ Working
    \/ \E t \in orphans \cup {data.timer} : t # NoTime /\ t <= data.retryAt

(* Every job is done in the end, or given up. *)
EveryJobEnds == \A j \in Jobs : (j \in rows) ~> (j \notin rows)
===============================================================================
