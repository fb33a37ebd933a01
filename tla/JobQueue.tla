------------------------------- MODULE JobQueue -------------------------------
(***************************************************************************)
(* A durable job queue: ts/jobs/JobQueue.ts over JobQueueDatabaseStore.ts, *)
(* asyncIterables.ts and the jobs table of ts/sql/Server.ts, with the      *)
(* process that hosts it shut down, crashing and started again.            *)
(*                                                                         *)
(* A job is a row of the table while it is owed.  A process fetches the    *)
(* rows once, appends the jobs added later, and feeds them to a PQueue     *)
(* that runs one at a time, each for at most MaxAttempts attempts; the row *)
(* is deleted when the job is over.  The calls to the database reach its   *)
(* single worker in order and are answered in order; a crash loses those   *)
(* not executed yet, a quit executes them all.  The stream of jobs is a    *)
(* sequence: AsyncQueue implements Fifo for callers that add, as this      *)
(* store does, from the reply to a database call.                          *)
(***************************************************************************)
EXTENDS Naturals, Sequences, FiniteSets, SequencesExt, Functions

CONSTANTS NumJobs,      \* bound on the jobs ever created
          Custom,       \* jobs saved by the caller's insert, with a message
          Unparsable,   \* jobs whose data parseData rejects
          MaxAttempts,  \* the queue's maxAttempts
          MaxRestarts,  \* bound on crashes and quits
          MaxFailures   \* bound on database calls that are answered by an error

ASSUME NumJobsAssumption == NumJobs \in Nat
ASSUME MaxAttemptsAssumption == MaxAttempts \in Nat \ {0}
ASSUME BoundsAssumption == MaxRestarts \in Nat /\ MaxFailures \in Nat

Jobs == 1 .. NumJobs    \* numbered in the order of their timestamps
ASSUME JobKindsAssumption == Custom \subseteq Jobs /\ Unparsable \subseteq Jobs

VARIABLES db,           \* the rows of the jobs table
          calls,        \* calls to the database not answered yet, in order
          started,      \* streamJobs was called
          fetched,      \* the initial fetch was answered
          waiting,      \* jobs whose insert awaits the initial fetch
          stream,       \* what the store's stream has yet to yield
          closed,       \* the loop of streamJobs has ended
          queue,        \* jobs handed to the PQueue and not started
          running,      \* the job the PQueue runs, or NoJob
          attempt,      \* its attempt
          shuttingDown,
          completion,   \* the completion promise of each job of this process
          created,      \* how many jobs were ever created
          restarts, failures,
          persisted,    \* history: jobs ever written to the table
          accepted,     \* history: jobs whose add resolved
          over,         \* history: jobs unparsable, done, dropped or out of attempts
          rejections    \* history: how often run rejected, for each job

source == <<started, fetched, waiting>>
consumer == <<stream, closed>>
pqueue == <<queue, running, attempt>>
limits == <<created, restarts, failures>>
history == <<persisted, accepted, over, rejections>>
vars == <<db, calls, source, consumer, pqueue, shuttingDown, completion, limits, history>>

NoJob == 0
Completions == {"none", "pending", "resolved", "rejected"}
Calls == [op : {"fetch"}, job : {NoJob}, settle : {"none"}]
    \cup [op : {"save", "insert"}, job : Jobs, settle : {"none"}]
    \cup [op : {"delete"}, job : Jobs, settle : {"resolved", "rejected"}]

Insertion(op, j) == [op |-> op, job |-> j, settle |-> "none"]
Deletion(j, settle) == [op |-> "delete", job |-> j, settle |-> settle]

\* The jobs written and deleted by the first n calls.  A job has at most one call in
\* flight (OneCopyOfEachJob), so the order of the calls makes no difference to the rows.
Written(n) == {calls[i].job : i \in {i \in 1 .. n : calls[i].op \in {"save", "insert"}}}
Deleted(n) == {calls[i].job : i \in {i \in 1 .. n : calls[i].op = "delete"}}

\* What the query of the rows may return, and its ORDER BY timestamp.
Listings(rows) == {f \in [1 .. Cardinality(rows) -> rows] : IsInjective(f)}
OldestFirst(listing) == \A m, n \in DOMAIN listing : m < n => listing[m] < listing[n]

\* The onCompleteCallbacks of j are called, if this process created it.
Settle(j, settle) ==
    completion' = [completion EXCEPT ![j] = IF @ = "pending" THEN settle ELSE @]

-------------------------------------------------------------------------------
Init ==
    /\ db = {} /\ calls = <<>>
    /\ started = FALSE /\ fetched = FALSE /\ waiting = <<>> /\ stream = <<>> /\ closed = FALSE
    /\ queue = <<>> /\ running = NoJob /\ attempt = 0
    /\ shuttingDown = FALSE
    /\ completion = [j \in Jobs |-> "none"]
    /\ created = 0 /\ restarts = 0 /\ failures = 0
    /\ persisted = {} /\ accepted = {} /\ over = {}
    /\ rejections = [j \in Jobs |-> 0]

\* A slip of EndJob: the completion is settled before the delete.
EndJobSettlesFirst(settle) ==
    /\ running' = NoJob /\ attempt' = 0
    /\ Settle(running, settle)
    /\ calls' = Append(calls, Deletion(running, settle))

\* The running job leaves the PQueue and its row is deleted.
EndJob(settle) ==
    /\ running' = NoJob /\ attempt' = 0
    /\ calls' = Append(calls, Deletion(running, settle))
    /\ UNCHANGED completion

\* The running job leaves the PQueue and keeps its row: ERROR while shutting down.
AbandonJob ==
    /\ running' = NoJob /\ attempt' = 0
    /\ Settle(running, "rejected")
    /\ UNCHANGED calls

\* Slips of the code that the runs must notice.

\* streamJobs without its "more than once" check.
StreamJobsAgain ==
    /\ started' = TRUE
    /\ calls' = Append(calls, [op |-> "fetch", job |-> NoJob, settle |-> "none"])
    /\ UNCHANGED <<db, fetched, waiting, consumer, pqueue, shuttingDown, completion,
                   limits, history>>

\* The rows come in any order.
FetchUnordered ==
    /\ calls # <<>> /\ Head(calls).op = "fetch"
    /\ fetched' = TRUE
    /\ \E rows \in Listings(db) : stream' = rows \o stream
    /\ calls' = Tail(calls) \o [i \in DOMAIN waiting |-> Insertion("insert", waiting[i])]
    /\ waiting' = <<>>
    /\ UNCHANGED <<db, started, closed, pqueue, shuttingDown, completion, limits,
                   history>>

\* onFinished is not called.
FetchForgetsWaiting ==
    /\ calls # <<>> /\ Head(calls).op = "fetch"
    /\ fetched' = TRUE
    /\ \E rows \in Listings(db) : OldestFirst(rows) /\ stream' = rows \o stream
    /\ calls' = Tail(calls)
    /\ UNCHANGED <<db, started, closed, pqueue, shuttingDown, completion, limits,
                   history, waiting>>

\* A job that returns early has status ERROR and is deleted like one that failed.
ReturnEarlyDeletes ==
    /\ running = NoJob /\ queue # <<>> /\ shuttingDown
    /\ queue' = Tail(queue)
    /\ calls' = Append(calls, Deletion(Head(queue), "rejected"))
    /\ UNCHANGED <<db, completion, source, consumer, running, attempt, shuttingDown,
                   limits, history>>

\* One attempt too many.
RunRejectsOnceMore ==
    /\ running # NoJob
    /\ rejections' = [rejections EXCEPT ![running] = @ + 1]
    /\ over' = IF attempt > MaxAttempts THEN over \cup {running} ELSE over
    /\ CASE shuttingDown -> AbandonJob
         [] ~shuttingDown /\ attempt > MaxAttempts -> EndJob("rejected")
         [] OTHER -> /\ attempt' = attempt + 1
                     /\ UNCHANGED <<running, calls, completion>>
    /\ UNCHANGED <<db, source, consumer, queue, shuttingDown, limits, persisted,
                   accepted>>

\* The row of a job that used its last attempt is kept.
RunRejectsKeepsRow ==
    /\ running # NoJob
    /\ rejections' = [rejections EXCEPT ![running] = @ + 1]
    /\ over' = IF attempt = MaxAttempts THEN over \cup {running} ELSE over
    /\ IF shuttingDown \/ attempt = MaxAttempts
       THEN AbandonJob
       ELSE /\ attempt' = attempt + 1
            /\ UNCHANGED <<running, calls, completion>>
    /\ UNCHANGED <<db, source, consumer, queue, shuttingDown, limits, persisted,
                   accepted>>
-------------------------------------------------------------------------------
\* streamJobs asks the store for the stream, which fetches the rows at once.
StreamJobs ==
    /\ ~started
    /\ started' = TRUE
    /\ calls' = Append(calls, [op |-> "fetch", job |-> NoJob, settle |-> "none"])
    /\ UNCHANGED <<db, fetched, waiting, consumer, pqueue, shuttingDown, completion,
                   limits, history>>

\* add: a caller's insert is called first; the store's insert waits for the
\* initial fetch before it writes the row.
Add ==
    LET j == created + 1 IN
    /\ started
    /\ j \in Jobs
    /\ created' = j
    /\ completion' = [completion EXCEPT ![j] = "pending"]
    /\ IF j \in Custom
       THEN calls' = Append(calls, Insertion("save", j)) /\ UNCHANGED waiting
       ELSE IF fetched
       THEN calls' = Append(calls, Insertion("insert", j)) /\ UNCHANGED waiting
       ELSE waiting' = Append(waiting, j) /\ UNCHANGED calls
    /\ UNCHANGED <<db, started, fetched, consumer, pqueue, shuttingDown, restarts,
                   failures, history>>
-------------------------------------------------------------------------------
\* The rows fetched, oldest first, come first in the stream, and the inserts that
\* waited for them go on.
FetchAnswered ==
    /\ calls # <<>> /\ Head(calls).op = "fetch"
    /\ fetched' = TRUE
    /\ \E rows \in Listings(db) : OldestFirst(rows) /\ stream' = rows \o stream
    /\ calls' = Tail(calls) \o [i \in DOMAIN waiting |-> Insertion("insert", waiting[i])]
    /\ waiting' = <<>>
    /\ UNCHANGED <<db, started, closed, pqueue, shuttingDown, completion, limits,
                   history>>

\* The row is written; once the fetch was answered the job enters the stream and
\* add resolves.
InsertAnswered ==
    LET j == Head(calls).job IN
    /\ calls # <<>> /\ Head(calls).op \in {"save", "insert"}
    /\ calls' = Tail(calls)
    /\ db' = db \cup {j}
    /\ persisted' = persisted \cup {j}
    /\ IF fetched
       THEN stream' = Append(stream, j) /\ accepted' = accepted \cup {j}
       ELSE UNCHANGED <<stream, accepted>>
    /\ UNCHANGED <<source, closed, pqueue, shuttingDown, completion, limits, over,
                   rejections>>

\* The completion is settled when the row is gone.
DeleteAnswered ==
    /\ calls # <<>> /\ Head(calls).op = "delete"
    /\ calls' = Tail(calls)
    /\ db' = db \ {Head(calls).job}
    /\ Settle(Head(calls).job, Head(calls).settle)
    /\ UNCHANGED <<source, consumer, pqueue, shuttingDown, limits, history>>

\* The database answers with an error.  The fetch that fails ends streamJobs and
\* leaves initialFetchPromise pending; add rejects; a job whose delete fails is
\* never settled.
CallFails ==
    /\ calls # <<>>
    /\ failures < MaxFailures
    /\ failures' = failures + 1
    /\ calls' = Tail(calls)
    /\ closed' = (closed \/ Head(calls).op = "fetch")
    /\ UNCHANGED <<db, source, stream, pqueue, shuttingDown, completion, created,
                   restarts, history>>
-------------------------------------------------------------------------------
\* streamJobs takes a job from the stream: after shutdown it leaves the loop ...
StopConsuming ==
    /\ ~closed /\ stream # <<>> /\ shuttingDown
    /\ closed' = TRUE
    /\ stream' = Tail(stream)
    /\ UNCHANGED <<db, calls, source, pqueue, shuttingDown, completion, limits,
                   history>>

\* ... otherwise enqueueStoredJob deletes it if its data does not parse ...
DropUnparsable ==
    LET j == Head(stream) IN
    /\ ~closed /\ stream # <<>> /\ ~shuttingDown
    /\ j \in Unparsable
    /\ stream' = Tail(stream)
    /\ over' = over \cup {j}
    /\ calls' = Append(calls, Deletion(j, "rejected"))
    /\ UNCHANGED <<db, source, closed, pqueue, shuttingDown, completion, limits,
                   persisted, accepted, rejections>>

\* ... and gives it to the PQueue if it does.
Enqueue ==
    LET j == Head(stream) IN
    /\ ~closed /\ stream # <<>> /\ ~shuttingDown
    /\ j \notin Unparsable
    /\ stream' = Tail(stream)
    /\ queue' = Append(queue, j)
    /\ UNCHANGED <<db, calls, source, closed, running, attempt, shuttingDown,
                   completion, limits, history>>
-------------------------------------------------------------------------------
\* The PQueue starts its next function: the first attempt, or an early return.
StartJob ==
    /\ running = NoJob /\ queue # <<>> /\ ~shuttingDown
    /\ running' = Head(queue)
    /\ attempt' = 1
    /\ queue' = Tail(queue)
    /\ UNCHANGED <<db, calls, source, consumer, shuttingDown, completion, limits,
                   history>>

ReturnEarly ==
    /\ running = NoJob /\ queue # <<>> /\ shuttingDown
    /\ queue' = Tail(queue)
    /\ Settle(Head(queue), "rejected")
    /\ UNCHANGED <<db, calls, source, consumer, running, attempt, shuttingDown,
                   limits, history>>

\* run resolves: SUCCESS, or NEEDS_RETRY, which retryJobOnQueueIdle answers here
\* by dropping the job.
RunResolves ==
    /\ running # NoJob
    /\ EndJob("resolved")
    /\ over' = over \cup {running}
    /\ UNCHANGED <<db, source, consumer, queue, shuttingDown, limits, persisted,
                   accepted, rejections>>

\* run rejects: the next attempt, unless it was the last or shutdown was called.
RunRejects ==
    /\ running # NoJob
    /\ rejections' = [rejections EXCEPT ![running] = @ + 1]
    /\ over' = IF attempt = MaxAttempts THEN over \cup {running} ELSE over
    /\ CASE shuttingDown -> AbandonJob
         [] ~shuttingDown /\ attempt = MaxAttempts -> EndJob("rejected")
         [] OTHER -> /\ attempt' = attempt + 1
                     /\ UNCHANGED <<running, calls, completion>>
    /\ UNCHANGED <<db, source, consumer, queue, shuttingDown, limits, persisted,
                   accepted>>
-------------------------------------------------------------------------------
\* shutdown; it resolves when the PQueue is idle, which the quit does not wait for
\* beyond a minute.
Shutdown ==
    /\ ~shuttingDown /\ restarts < MaxRestarts
    /\ shuttingDown' = TRUE
    /\ UNCHANGED <<db, calls, source, consumer, pqueue, completion, limits, history>>

\* A new process, after the database executed the first n calls of the old one.
Restart(n) ==
    /\ restarts < MaxRestarts
    /\ restarts' = restarts + 1
    /\ db' = (db \cup Written(n)) \ Deleted(n)
    /\ persisted' = persisted \cup Written(n)
    /\ calls' = <<>>
    /\ started' = FALSE /\ fetched' = FALSE /\ waiting' = <<>> /\ stream' = <<>>
    /\ closed' = FALSE /\ queue' = <<>> /\ running' = NoJob /\ attempt' = 0
    /\ shuttingDown' = FALSE
    /\ completion' = [j \in Jobs |-> "none"]
    /\ UNCHANGED <<created, failures, accepted, over, rejections>>

Crash == \E n \in 0 .. Len(calls) : Restart(n)

\* The quit after shutdown closes the database behind the calls already made.
Quit == shuttingDown /\ Restart(Len(calls))

DbAnswers == FetchAnswered \/ InsertAnswered \/ DeleteAnswered
Consume == StopConsuming \/ DropUnparsable \/ Enqueue
RunEnds == RunResolves \/ RunRejects

Next ==
    \/ StreamJobs \/ Add
    \/ DbAnswers \/ CallFails
    \/ Consume \/ StartJob \/ ReturnEarly \/ RunEnds
    \/ Shutdown \/ Crash \/ Quit

Spec == Init /\ [][Next]_vars

\* initializeAllJobQueues calls streamJobs at startup; the database answers, the
\* consumer and the PQueue go on, run settles (its network calls time out), and a
\* process that is shutting down quits.
FairSpec ==
    /\ Spec
    /\ WF_vars(StreamJobs) /\ WF_vars(DbAnswers) /\ WF_vars(Consume)
    /\ WF_vars(StartJob) /\ WF_vars(ReturnEarly) /\ WF_vars(RunEnds)
    /\ WF_vars(Quit)
-------------------------------------------------------------------------------
TypeOK ==
    /\ db \subseteq Jobs /\ persisted \subseteq Jobs
    /\ accepted \subseteq Jobs /\ over \subseteq Jobs
    /\ calls \in Seq(Calls)
    /\ started \in BOOLEAN /\ fetched \in BOOLEAN /\ closed \in BOOLEAN
    /\ shuttingDown \in BOOLEAN
    /\ waiting \in Seq(Jobs) /\ stream \in Seq(Jobs) /\ queue \in Seq(Jobs)
    /\ running \in Jobs \cup {NoJob}
    /\ attempt \in 0 .. MaxAttempts /\ (running = NoJob <=> attempt = 0)
    /\ completion \in [Jobs -> Completions]
    /\ created \in 0 .. NumJobs
    /\ restarts \in 0 .. MaxRestarts /\ failures \in 0 .. MaxFailures
    /\ rejections \in [Jobs -> Nat]

\* No job is lost: one that was written to the table, and one whose add resolved, is
\* still a row or is over, whatever was shut down, crashed or answered by an error.
NoJobLost == persisted \cup accepted \subseteq db \cup over

InFlight == {calls[i].job : i \in DOMAIN calls} \ {NoJob}
Ahead == queue \o stream

\* Within a process a job is in one place, once: awaiting the fetch, in a call to the
\* database, in the stream, in the PQueue, or running.  A row fetched at the start is
\* never also delivered by the add that wrote it, and no job runs twice at once.
OneCopyOfEachJob ==
    /\ IsInjective(waiting) /\ IsInjective(Ahead)
    /\ IsInjective([i \in DOMAIN calls |-> calls[i].job])
    /\ ToSet(waiting) \cap (InFlight \cup ToSet(Ahead) \cup {running}) = {}
    /\ InFlight \cap (ToSet(Ahead) \cup {running}) = {}
    /\ running \notin ToSet(Ahead)

\* A job in the stream, in the PQueue or running has its row: a crash at any moment
\* leaves it to the next process.
WorkIsStored == ToSet(Ahead) \cup {running} \subseteq db \cup {NoJob}

\* A completion settles after the row was deleted, except that shutdown rejects the
\* completions of jobs whose rows it keeps.
SettlesAfterDelete ==
    \A j \in Jobs :
        /\ completion[j] = "resolved" => j \notin db
        /\ completion[j] = "rejected" /\ ~shuttingDown => j \notin db

\* Jobs that are added the same way run in the order they were created, whatever
\* part of them was fetched, waited for the fetch, or came later.
SameWay(i, j) == i \in Custom <=> j \in Custom
RunInOrder ==
    LET line == (IF running = NoJob THEN <<>> ELSE <<running>>) \o Ahead
    IN \A m, n \in DOMAIN line : m < n /\ SameWay(line[m], line[n]) => line[m] < line[n]

\* Every row is deleted in the end, if the database does not fail.
EveryJobEnds == \A j \in Jobs : (j \in db) ~> (j \notin db \/ failures > 0)

\* Every completion promise settles, or its process ends, if the database does not fail.
EveryCompletionSettles ==
    \A j \in Jobs : (completion[j] = "pending") ~> (completion[j] # "pending" \/ failures > 0)
===============================================================================
