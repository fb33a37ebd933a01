---------------------------- MODULE JobQueueProofs ----------------------------
(***************************************************************************)
(* For any number of jobs, attempts, restarts and failures: the variables  *)
(* of JobQueue keep their types, no job is lost, no job has two copies in  *)
(* a process, what a process works on is stored, completions settle after  *)
(* the delete, and jobs run in order.                                      *)
(***************************************************************************)
EXTENDS JobQueue, FiniteSetTheorems, SequenceTheorems, TLAPS

\* What pushing, shifting and concatenating do to the type of a sequence.
LEMMA SeqTypes ==
    ASSUME NEW S, NEW q \in Seq(S)
    PROVE  /\ \A e \in S : Append(q, e) \in Seq(S)
           /\ q # <<>> => Head(q) \in S /\ Tail(q) \in Seq(S)
           /\ \A p \in Seq(S) : q \o p \in Seq(S)
OBVIOUS

\* The rows of the jobs table are a finite set of jobs.
LEMMA RowsAreFinite ==
    ASSUME NEW rows \in SUBSET Jobs
    PROVE  Cardinality(rows) \in Nat
<1>1. IsFiniteSet(Jobs)
  BY NumJobsAssumption, FS_Interval DEF Jobs
<1>2. QED
  BY <1>1, FS_Subset, FS_CardinalityType

\* A listing of rows is a sequence of jobs.
LEMMA ListingType ==
    ASSUME NEW rows \in SUBSET Jobs, NEW f \in Listings(rows)
    PROVE  f \in Seq(Jobs)
<1>1. f \in [1 .. Cardinality(rows) -> Jobs]
  BY DEF Listings
<1>2. Cardinality(rows) \in Nat
  BY RowsAreFinite
<1>3. QED
  BY <1>1, <1>2

\* The four calls are calls.
LEMMA CallTypes ==
    /\ [op |-> "fetch", job |-> NoJob, settle |-> "none"] \in Calls
    /\ \A j \in Jobs : /\ Insertion("save", j) \in Calls
                       /\ Insertion("insert", j) \in Calls
                       /\ Deletion(j, "resolved") \in Calls
                       /\ Deletion(j, "rejected") \in Calls
BY DEF Calls, Insertion, Deletion

\* The inserts that waited for the fetch.
LEMMA InsertionsType ==
    ASSUME NEW w \in Seq(Jobs)
    PROVE  [i \in DOMAIN w |-> Insertion("insert", w[i])] \in Seq(Calls)
<1>1. \A i \in DOMAIN w : Insertion("insert", w[i]) \in Calls
  BY CallTypes
<1>2. DOMAIN w = 1 .. Len(w) /\ Len(w) \in Nat
  OBVIOUS
<1>3. QED
  BY <1>1, <1>2

\* The call that is answered, and those that stay in flight, are calls.
LEMMA HeadOfCalls ==
    ASSUME TypeOK, calls # <<>>
    PROVE  /\ Head(calls) \in Calls /\ Tail(calls) \in Seq(Calls)
           /\ Head(calls).op \in {"save", "insert", "delete"} => Head(calls).job \in Jobs
           /\ Head(calls).op = "delete" => Head(calls).settle \in {"resolved", "rejected"}
<1>1. Head(calls) \in Calls /\ Tail(calls) \in Seq(Calls)
  BY SeqTypes DEF TypeOK
<1>2. QED
  BY <1>1 DEF Calls

\* A job is a number, and NoJob is none of them.
LEMMA JobsArePositive == NoJob \notin Jobs /\ Jobs \subseteq Nat
BY NumJobsAssumption DEF NoJob, Jobs

\* Settling a completion keeps its type.
LEMMA SettleType ==
    ASSUME TypeOK, NEW j \in Jobs, NEW s \in Completions, Settle(j, s)
    PROVE  completion' \in [Jobs -> Completions]
BY DEF TypeOK, Settle

\* The jobs whose insert was executed before a crash are jobs.
LEMMA WrittenType ==
    ASSUME TypeOK, NEW n \in 0 .. Len(calls)
    PROVE  Written(n) \in SUBSET Jobs
<1>1. \A i \in 1 .. n : calls[i] \in Calls
  BY DEF TypeOK
<1>2. QED
  BY <1>1 DEF Written, Calls

\* The end of a job keeps the types of what it changes.
LEMMA EndJobType ==
    ASSUME TypeOK, running # NoJob, NEW s \in {"resolved", "rejected"}, EndJob(s)
    PROVE  /\ calls' \in Seq(Calls)
           /\ running' = NoJob /\ attempt' = 0
           /\ completion' \in [Jobs -> Completions]
<1>1. running \in Jobs
  BY DEF TypeOK
<1>2. Deletion(running, s) \in Calls
  BY <1>1, CallTypes
<1>3. calls' \in Seq(Calls)
  BY <1>2, SeqTypes DEF EndJob, TypeOK
<1>4. QED
  BY <1>3 DEF EndJob, TypeOK
-------------------------------------------------------------------------------
\* Every variable of JobQueue keeps its type.
THEOREM TypeCorrect == Spec => []TypeOK
<1>1. Init => TypeOK
  <2> SUFFICES ASSUME Init PROVE TypeOK
    OBVIOUS
  <2>1. calls \in Seq(Calls) /\ waiting \in Seq(Jobs) /\ stream \in Seq(Jobs) /\ queue \in Seq(Jobs)
    BY DEF Init
  <2>2. completion \in [Jobs -> Completions] /\ rejections \in [Jobs -> Nat]
    BY DEF Init, Completions
  <2>3. running \in Jobs \cup {NoJob} /\ attempt \in 0 .. MaxAttempts /\ created \in 0 .. NumJobs
    BY NumJobsAssumption, MaxAttemptsAssumption DEF Init
  <2>4. restarts \in 0 .. MaxRestarts /\ failures \in 0 .. MaxFailures
    BY BoundsAssumption DEF Init
  <2>5. running = NoJob /\ attempt = 0
    BY DEF Init
  <2>6. QED
    BY <2>1, <2>2, <2>3, <2>4, <2>5 DEF Init, TypeOK
<1>2. TypeOK /\ [Next]_vars => TypeOK'
  <2> SUFFICES ASSUME TypeOK, [Next]_vars
               PROVE  TypeOK'
    OBVIOUS
  <2> USE NumJobsAssumption, MaxAttemptsAssumption, BoundsAssumption
  <2> USE DEF source, consumer, pqueue, limits, history
  <2>1. CASE StreamJobs
    <3>1. calls' \in Seq(Calls)
      BY <2>1, CallTypes, SeqTypes DEF StreamJobs, TypeOK
    <3>2. QED
      BY <2>1, <3>1 DEF StreamJobs, TypeOK
  <2>2. CASE Add
    <3> DEFINE j == created + 1
    <3>1. j \in Jobs /\ j \in 0 .. NumJobs
      BY <2>2 DEF Add, Jobs
    <3>2. calls' \in Seq(Calls) /\ waiting' \in Seq(Jobs)
      <4>1. calls \in Seq(Calls) /\ waiting \in Seq(Jobs)
        BY DEF TypeOK
      <4>2. /\ Append(calls, Insertion("save", j)) \in Seq(Calls)
            /\ Append(calls, Insertion("insert", j)) \in Seq(Calls)
            /\ Append(waiting, j) \in Seq(Jobs)
        BY <3>1, <4>1, CallTypes, SeqTypes
      <4>3. QED
        BY <2>2, <4>1, <4>2 DEF Add
    <3>3. completion' \in [Jobs -> Completions]
      BY <2>2 DEF Add, TypeOK, Completions
    <3>4. QED
      BY <2>2, <3>1, <3>2, <3>3 DEF Add, TypeOK
  <2>3. CASE FetchAnswered
    <3>1. Tail(calls) \in Seq(Calls)
      BY <2>3, HeadOfCalls DEF FetchAnswered
    <3>2. calls' \in Seq(Calls)
      BY <2>3, <3>1, InsertionsType, SeqTypes DEF FetchAnswered, TypeOK
    <3>3. stream' \in Seq(Jobs)
      <4>1. PICK rows \in Listings(db) : stream' = rows \o stream
        BY <2>3 DEF FetchAnswered
      <4>2. rows \in Seq(Jobs)
        BY ListingType DEF TypeOK
      <4>3. QED
        BY <4>1, <4>2, SeqTypes DEF TypeOK
    <3>4. QED
      BY <2>3, <3>2, <3>3 DEF FetchAnswered, TypeOK
  <2>4. CASE InsertAnswered
    <3>1. Head(calls).job \in Jobs /\ Tail(calls) \in Seq(Calls)
      BY <2>4, HeadOfCalls DEF InsertAnswered
    <3>2. stream' \in Seq(Jobs)
      <4>1. stream \in Seq(Jobs) /\ Append(stream, Head(calls).job) \in Seq(Jobs)
        BY <3>1, SeqTypes DEF TypeOK
      <4>2. QED
        BY <2>4, <4>1 DEF InsertAnswered
    <3>3. QED
      BY <2>4, <3>1, <3>2 DEF InsertAnswered, TypeOK
  <2>5. CASE DeleteAnswered
    <3>1. /\ Head(calls).job \in Jobs /\ Tail(calls) \in Seq(Calls)
          /\ Head(calls).settle \in {"resolved", "rejected"}
      BY <2>5, HeadOfCalls DEF DeleteAnswered
    <3>2. completion' \in [Jobs -> Completions]
      BY <2>5, <3>1, SettleType DEF DeleteAnswered, Completions
    <3>3. QED
      BY <2>5, <3>1, <3>2 DEF DeleteAnswered, TypeOK
  <2>6. CASE CallFails
    <3>1. Tail(calls) \in Seq(Calls)
      BY <2>6, HeadOfCalls DEF CallFails
    <3>2. QED
      BY <2>6, <3>1 DEF CallFails, TypeOK
  <2>7. CASE StopConsuming
    <3>1. stream' \in Seq(Jobs)
      BY <2>7, SeqTypes DEF StopConsuming, TypeOK
    <3>2. QED
      BY <2>7, <3>1 DEF StopConsuming, TypeOK
  <2>8. CASE DropUnparsable
    <3>1. Head(stream) \in Jobs /\ stream' \in Seq(Jobs)
      BY <2>8, SeqTypes DEF DropUnparsable, TypeOK
    <3>2. calls' \in Seq(Calls)
      BY <2>8, <3>1, CallTypes, SeqTypes DEF DropUnparsable, TypeOK
    <3>3. QED
      BY <2>8, <3>1, <3>2 DEF DropUnparsable, TypeOK
  <2>9. CASE Enqueue
    <3>1. Head(stream) \in Jobs /\ stream' \in Seq(Jobs)
      BY <2>9, SeqTypes DEF Enqueue, TypeOK
    <3>2. queue' \in Seq(Jobs)
      BY <2>9, <3>1, SeqTypes DEF Enqueue, TypeOK
    <3>3. QED
      BY <2>9, <3>1, <3>2 DEF Enqueue, TypeOK
  <2>10. CASE StartJob
    <3>1. Head(queue) \in Jobs /\ queue' \in Seq(Jobs)
      BY <2>10, SeqTypes DEF StartJob, TypeOK
    <3>2. QED
      BY <2>10, <3>1, JobsArePositive DEF StartJob, TypeOK
  <2>11. CASE ReturnEarly
    <3>1. Head(queue) \in Jobs /\ queue' \in Seq(Jobs)
      BY <2>11, SeqTypes DEF ReturnEarly, TypeOK
    <3>2. completion' \in [Jobs -> Completions]
      BY <2>11, <3>1, SettleType DEF ReturnEarly, Completions
    <3>3. QED
      BY <2>11, <3>1, <3>2 DEF ReturnEarly, TypeOK
  <2>12. CASE RunResolves
    <3>1. running \in Jobs
      BY <2>12 DEF RunResolves, TypeOK
    <3>2. QED
      BY <2>12, <3>1, EndJobType DEF RunResolves, TypeOK
  <2>13. CASE RunRejects
    <3>1. running \in Jobs
      BY <2>13 DEF RunRejects, TypeOK
    <3>2. rejections' \in [Jobs -> Nat] /\ over' \subseteq Jobs
      <4>1. rejections' = [rejections EXCEPT ![running] = @ + 1] /\ rejections \in [Jobs -> Nat]
        BY <2>13 DEF RunRejects, TypeOK
      <4>2. over' \in {over, over \cup {running}} /\ over \subseteq Jobs
        BY <2>13 DEF RunRejects, TypeOK
      <4>3. QED
        BY <3>1, <4>1, <4>2
    <3>a. /\ db' \subseteq Jobs /\ persisted' \subseteq Jobs /\ accepted' \subseteq Jobs
          /\ started' \in BOOLEAN /\ fetched' \in BOOLEAN /\ closed' \in BOOLEAN
          /\ shuttingDown' \in BOOLEAN
          /\ waiting' \in Seq(Jobs) /\ stream' \in Seq(Jobs) /\ queue' \in Seq(Jobs)
          /\ created' \in 0 .. NumJobs
          /\ restarts' \in 0 .. MaxRestarts /\ failures' \in 0 .. MaxFailures
      <4>1. UNCHANGED <<db, source, consumer, queue, shuttingDown, limits, persisted, accepted>>
        BY <2>13 DEF RunRejects
      <4>2. QED
        BY <4>1 DEF TypeOK, source, consumer, limits
    <3>b. 0 \in 0 .. MaxAttempts
      BY MaxAttemptsAssumption
    <3>3. CASE shuttingDown
      <4>a. Settle(running, "rejected")
        BY <2>13, <3>3 DEF RunRejects, AbandonJob
      <4>1. completion' \in [Jobs -> Completions]
        BY <3>1, <4>a, SettleType DEF Completions
      <4>2. running' = NoJob /\ attempt' = 0 /\ calls' = calls
        BY <2>13, <3>3 DEF RunRejects, AbandonJob
      <4>3. QED
        BY <3>2, <3>a, <3>b, <4>1, <4>2 DEF TypeOK
    <3>4. CASE ~shuttingDown /\ attempt = MaxAttempts
      <4>1. EndJob("rejected")
        BY <2>13, <3>4 DEF RunRejects
      <4>2. /\ calls' \in Seq(Calls) /\ running' = NoJob /\ attempt' = 0
            /\ completion' \in [Jobs -> Completions]
        BY <2>13, <4>1, EndJobType DEF RunRejects
      <4>3. QED
        BY <3>2, <3>a, <3>b, <4>2 DEF TypeOK
    <3>5. CASE ~shuttingDown /\ attempt # MaxAttempts
      <4>1. attempt' = attempt + 1 /\ UNCHANGED <<running, calls, completion>>
        BY <2>13, <3>5 DEF RunRejects
      <4>2. attempt' \in 0 .. MaxAttempts /\ attempt' # 0
        BY <3>5, <4>1 DEF TypeOK
      <4>3. QED
        BY <3>1, <3>2, <3>a, <4>1, <4>2, JobsArePositive DEF TypeOK
    <3>6. QED
      BY <3>3, <3>4, <3>5
  <2>14. CASE Shutdown
    BY <2>14 DEF Shutdown, TypeOK
  <2>15. ASSUME NEW n \in 0 .. Len(calls), Restart(n)
         PROVE  TypeOK'
    <3>1. Written(n) \in SUBSET Jobs
      BY WrittenType
    <3>2. db' \subseteq Jobs /\ persisted' \subseteq Jobs
      BY <2>15, <3>1 DEF Restart, TypeOK
    <3>3. /\ calls' \in Seq(Calls) /\ waiting' \in Seq(Jobs) /\ stream' \in Seq(Jobs)
          /\ queue' \in Seq(Jobs) /\ completion' \in [Jobs -> Completions]
      BY <2>15 DEF Restart, Completions
    <3>4. /\ running' = NoJob /\ attempt' = 0 /\ attempt' \in 0 .. MaxAttempts
          /\ restarts' \in 0 .. MaxRestarts
      BY <2>15 DEF Restart, TypeOK
    <3>5. QED
      BY <2>15, <3>2, <3>3, <3>4 DEF Restart, TypeOK
  <2>16. CASE Quit
    <3>1. Len(calls) \in 0 .. Len(calls)
      BY DEF TypeOK
    <3>2. QED
      BY <2>15, <2>16, <3>1 DEF Quit
  <2>17. CASE UNCHANGED vars
    BY <2>17 DEF vars, TypeOK
  <2>18. QED
    BY <2>1, <2>2, <2>3, <2>4, <2>5, <2>6, <2>7, <2>8, <2>9, <2>10, <2>11, <2>12, <2>13,
       <2>14, <2>15, <2>16, <2>17 DEF Next, DbAnswers, Consume, RunEnds, Crash
<1>3. QED
  BY <1>1, <1>2, PTL DEF Spec

-------------------------------------------------------------------------------
\* Sequences, element by element.
LEMMA AppendFacts ==
    ASSUME NEW S, NEW s \in Seq(S), NEW e \in S
    PROVE  /\ Len(s) \in Nat /\ DOMAIN s = 1 .. Len(s)
           /\ Append(s, e) \in Seq(S)
           /\ Len(Append(s, e)) = Len(s) + 1
           /\ \A i \in 1 .. Len(s) : Append(s, e)[i] = s[i]
           /\ Append(s, e)[Len(s) + 1] = e
OBVIOUS

\* The tail of a sequence, element by element.
LEMMA TailFacts ==
    ASSUME NEW S, NEW s \in Seq(S), s # <<>>
    PROVE  /\ Len(s) \in Nat /\ Len(s) >= 1 /\ DOMAIN s = 1 .. Len(s)
           /\ Head(s) = s[1]
           /\ Tail(s) \in Seq(S)
           /\ Len(Tail(s)) = Len(s) - 1
           /\ \A i \in 1 .. Len(s) - 1 : Tail(s)[i] = s[i + 1]
OBVIOUS

\* A concatenation, element by element.
LEMMA ConcatFacts ==
    ASSUME NEW S, NEW s \in Seq(S), NEW t \in Seq(S)
    PROVE  /\ Len(s) \in Nat /\ Len(t) \in Nat
           /\ s \o t \in Seq(S)
           /\ Len(s \o t) = Len(s) + Len(t)
           /\ \A i \in 1 .. Len(s) : (s \o t)[i] = s[i]
           /\ \A i \in 1 .. Len(t) : (s \o t)[Len(s) + i] = t[i]
           /\ \A i \in 1 .. Len(s) + Len(t) :
                 i \in 1 .. Len(s) \/ (\E k \in 1 .. Len(t) : i = Len(s) + k)
<1>1. /\ Len(s) \in Nat /\ Len(t) \in Nat
      /\ s \o t \in Seq(S)
      /\ Len(s \o t) = Len(s) + Len(t)
  BY LenProperties, ConcatProperties
<1>2. \A i \in 1 .. Len(s) : (s \o t)[i] = s[i]
  BY <1>1, ConcatProperties
<1>3. ASSUME NEW i \in 1 .. Len(t) PROVE (s \o t)[Len(s) + i] = t[i]
  <2>1. Len(s) + i \in 1 .. Len(s) + Len(t) /\ ~ (Len(s) + i <= Len(s)) /\ (Len(s) + i) - Len(s) = i
    BY <1>1
  <2>2. QED
    BY <1>1, <2>1, ConcatProperties
<1>4. ASSUME NEW i \in 1 .. Len(s) + Len(t), i \notin 1 .. Len(s)
      PROVE  \E k \in 1 .. Len(t) : i = Len(s) + k
  <2>1. i - Len(s) \in 1 .. Len(t) /\ i = Len(s) + (i - Len(s))
    BY <1>1, <1>4
  <2>2. QED
    BY <2>1
<1>5. QED
  BY <1>1, <1>2, <1>3, <1>4

\* The elements of a sequence that grows and shrinks, and whether they are distinct.
LEMMA AppendElements ==
    ASSUME NEW S, NEW s \in Seq(S), NEW e \in S
    PROVE  /\ ToSet(Append(s, e)) = ToSet(s) \cup {e}
           /\ IsInjective(s) /\ e \notin ToSet(s) => IsInjective(Append(s, e))
<1> DEFINE t == Append(s, e)
<1>1. /\ Len(s) \in Nat /\ DOMAIN s = 1 .. Len(s) /\ DOMAIN t = 1 .. Len(s) + 1
      /\ \A i \in 1 .. Len(s) : t[i] = s[i]
      /\ t[Len(s) + 1] = e
  BY AppendFacts
<1> HIDE DEF t
<1>2. ToSet(t) = ToSet(s) \cup {e}
  BY <1>1 DEF ToSet
<1>3. IsInjective(s) /\ e \notin ToSet(s) => IsInjective(t)
  BY <1>1 DEF ToSet, IsInjective
<1>4. QED
  BY <1>2, <1>3 DEF t

\* What leaves a sequence of distinct elements is no longer in it.
LEMMA TailElements ==
    ASSUME NEW S, NEW s \in Seq(S), s # <<>>
    PROVE  /\ ToSet(s) = {Head(s)} \cup ToSet(Tail(s))
           /\ IsInjective(s) => IsInjective(Tail(s)) /\ Head(s) \notin ToSet(Tail(s))
<1> DEFINE t == Tail(s)
<1>1. /\ Len(s) \in Nat /\ Len(s) >= 1 /\ DOMAIN s = 1 .. Len(s) /\ DOMAIN t = 1 .. Len(s) - 1
      /\ Head(s) = s[1]
      /\ \A i \in 1 .. Len(s) - 1 : t[i] = s[i + 1]
  BY TailFacts
<1> HIDE DEF t
<1>2. \A i \in 1 .. Len(s) : i = 1 \/ (i - 1 \in 1 .. Len(s) - 1 /\ t[i - 1] = s[i])
  BY <1>1
<1>3. ToSet(s) = {Head(s)} \cup ToSet(t)
  <2>1. ASSUME NEW i \in 1 .. Len(s) PROVE s[i] \in {Head(s)} \cup ToSet(t)
    <3>1. CASE i = 1
      BY <1>1, <3>1
    <3>2. CASE i - 1 \in 1 .. Len(s) - 1 /\ t[i - 1] = s[i]
      BY <1>1, <3>2 DEF ToSet
    <3>3. QED
      BY <1>2, <3>1, <3>2
  <2>2. \A i \in 1 .. Len(s) - 1 : i + 1 \in 1 .. Len(s) /\ 1 \in 1 .. Len(s)
    BY <1>1
  <2>3. ToSet(t) \subseteq ToSet(s)
    <3>1. DOMAIN t = 1 .. Len(s) - 1 /\ \A i \in DOMAIN t : i + 1 \in DOMAIN s /\ t[i] = s[i + 1]
      BY <1>1, <2>2
    <3>2. QED
      BY <3>1 DEF ToSet
  <2>4. 1 \in DOMAIN s
    BY <1>1
  <2>5. Head(s) \in ToSet(s)
    BY <1>1, <2>4 DEF ToSet
  <2>6. ToSet(s) \subseteq {Head(s)} \cup ToSet(t)
    BY <1>1, <2>1 DEF ToSet
  <2>7. QED
    BY <2>3, <2>5, <2>6
<1>4. ASSUME IsInjective(s) PROVE IsInjective(t) /\ Head(s) \notin ToSet(t)
  <2>1. \A m, n \in 1 .. Len(s) : s[m] = s[n] => m = n
    BY <1>1, <1>4 DEF IsInjective
  <2>2. \A i \in 1 .. Len(s) - 1 : i + 1 \in 1 .. Len(s) /\ 1 \in 1 .. Len(s) /\ i + 1 # 1
    BY <1>1
  <2>3. \A m, n \in 1 .. Len(s) - 1 : t[m] = t[n] => m = n
    BY <1>1, <2>1, <2>2
  <2>4. \A i \in 1 .. Len(s) - 1 : t[i] # s[1]
    BY <1>1, <2>1, <2>2
  <2>5. QED
    BY <1>1, <2>3, <2>4 DEF ToSet, IsInjective
<1>5. QED
  BY <1>3, <1>4 DEF t

\* A concatenation of disjoint sequences of distinct elements.
LEMMA ConcatElements ==
    ASSUME NEW S, NEW s \in Seq(S), NEW t \in Seq(S)
    PROVE  /\ ToSet(s \o t) = ToSet(s) \cup ToSet(t)
           /\ IsInjective(s \o t) <=>
                /\ IsInjective(s) /\ IsInjective(t)
                /\ ToSet(s) \cap ToSet(t) = {}
<1> DEFINE u == s \o t
<1>1. /\ Len(s) \in Nat /\ Len(t) \in Nat
      /\ DOMAIN s = 1 .. Len(s) /\ DOMAIN t = 1 .. Len(t) /\ DOMAIN u = 1 .. Len(s) + Len(t)
      /\ \A i \in 1 .. Len(s) : u[i] = s[i]
      /\ \A i \in 1 .. Len(t) : u[Len(s) + i] = t[i]
      /\ \A i \in DOMAIN u : i \in 1 .. Len(s) \/ (\E k \in 1 .. Len(t) : i = Len(s) + k)
  BY ConcatFacts
<1> HIDE DEF u
<1>2. /\ \A i \in 1 .. Len(s) : i \in DOMAIN u
      /\ \A k \in 1 .. Len(t) : Len(s) + k \in DOMAIN u /\ Len(s) + k \notin 1 .. Len(s)
      /\ \A k, l \in 1 .. Len(t) : Len(s) + k = Len(s) + l => k = l
  BY <1>1
<1>3. ToSet(u) = ToSet(s) \cup ToSet(t)
  <2>1. ToSet(s) \subseteq ToSet(u)
    BY <1>1, <1>2 DEF ToSet
  <2>2. ASSUME NEW k \in 1 .. Len(t) PROVE t[k] \in ToSet(u)
    <3>1. u[Len(s) + k] \in ToSet(u)
      BY <1>2 DEF ToSet
    <3>2. QED
      BY <1>1, <3>1
  <2>3. ASSUME NEW i \in DOMAIN u PROVE u[i] \in ToSet(s) \cup ToSet(t)
    <3>1. CASE i \in 1 .. Len(s)
      BY <1>1, <3>1 DEF ToSet
    <3>2. CASE \E k \in 1 .. Len(t) : i = Len(s) + k
      <4>1. PICK k \in 1 .. Len(t) : i = Len(s) + k
        BY <3>2
      <4>2. QED
        BY <1>1, <4>1 DEF ToSet
    <3>3. QED
      BY <1>1, <3>1, <3>2
  <2>4. QED
    BY <1>1, <2>1, <2>2, <2>3 DEF ToSet
<1>4. ASSUME IsInjective(u)
      PROVE  IsInjective(s) /\ IsInjective(t) /\ ToSet(s) \cap ToSet(t) = {}
  <2>1. \A m, n \in DOMAIN u : u[m] = u[n] => m = n
    BY <1>4 DEF IsInjective
  <2>2. IsInjective(s)
    BY <1>1, <1>2, <2>1 DEF IsInjective
  <2>3. IsInjective(t)
    <3>1. ASSUME NEW k \in 1 .. Len(t), NEW l \in 1 .. Len(t), t[k] = t[l]
          PROVE  k = l
      <4>1. u[Len(s) + k] = u[Len(s) + l]
        BY <1>1, <3>1
      <4>2. Len(s) + k = Len(s) + l
        BY <1>2, <2>1, <4>1
      <4>3. QED
        BY <1>2, <4>2
    <3>2. QED
      BY <1>1, <3>1 DEF IsInjective
  <2>4. ToSet(s) \cap ToSet(t) = {}
    BY <1>1, <1>2, <2>1 DEF ToSet
  <2>5. QED
    BY <2>2, <2>3, <2>4
<1>5. ASSUME IsInjective(s), IsInjective(t), ToSet(s) \cap ToSet(t) = {}
      PROVE  IsInjective(u)
  <2>1. \A i \in 1 .. Len(s), k \in 1 .. Len(t) : s[i] # t[k]
    BY <1>1, <1>5 DEF ToSet
  <2>2. ASSUME NEW m \in DOMAIN u, NEW n \in DOMAIN u, u[m] = u[n]
        PROVE  m = n
    <3>1. CASE m \in 1 .. Len(s) /\ n \in 1 .. Len(s)
      BY <1>1, <1>5, <2>2, <3>1 DEF IsInjective
    <3>2. CASE m \in 1 .. Len(s) /\ \E k \in 1 .. Len(t) : n = Len(s) + k
      BY <1>1, <2>1, <2>2, <3>2
    <3>3. CASE n \in 1 .. Len(s) /\ \E k \in 1 .. Len(t) : m = Len(s) + k
      BY <1>1, <2>1, <2>2, <3>3
    <3>4. ASSUME NEW k \in 1 .. Len(t), NEW l \in 1 .. Len(t), m = Len(s) + k, n = Len(s) + l
          PROVE  m = n
      <4>1. t[k] = t[l]
        BY <1>1, <2>2, <3>4
      <4>2. k = l
        BY <1>1, <1>5, <4>1 DEF IsInjective
      <4>3. QED
        BY <3>4, <4>2
    <3>5. QED
      BY <1>1, <3>1, <3>2, <3>3, <3>4
  <2>3. QED
    BY <2>2 DEF IsInjective
<1>6. QED
  BY <1>3, <1>4, <1>5 DEF u
-------------------------------------------------------------------------------
\* The jobs of the calls in flight, those that will be written and deleted, and
\* whether no two calls are about the same job.
JobsIn(s) == {s[i].job : i \in 1 .. Len(s)}
WritesIn(s) == {s[i].job : i \in {i \in 1 .. Len(s) : s[i].op \in {"save", "insert"}}}
DeletesIn(s) == {s[i].job : i \in {i \in 1 .. Len(s) : s[i].op = "delete"}}
FetchesIn(s) == {i \in 1 .. Len(s) : s[i].op = "fetch"}
DistinctJobs(s) == \A m, n \in 1 .. Len(s) : s[m].job = s[n].job => m = n

\* A call joins the calls in flight.
LEMMA CallsAppend ==
    ASSUME NEW s \in Seq(Calls), NEW c \in Calls
    PROVE  /\ JobsIn(Append(s, c)) = JobsIn(s) \cup {c.job}
           /\ WritesIn(Append(s, c)) =
                WritesIn(s) \cup (IF c.op \in {"save", "insert"} THEN {c.job} ELSE {})
           /\ DeletesIn(Append(s, c)) = DeletesIn(s) \cup (IF c.op = "delete" THEN {c.job} ELSE {})
           /\ c.op # "fetch" => FetchesIn(Append(s, c)) = FetchesIn(s)
           /\ DistinctJobs(s) /\ c.job \notin JobsIn(s) => DistinctJobs(Append(s, c))
<1> DEFINE t == Append(s, c)
<1>1. /\ Len(s) \in Nat /\ Len(t) = Len(s) + 1
      /\ \A i \in 1 .. Len(s) : t[i] = s[i]
      /\ t[Len(s) + 1] = c
  BY AppendFacts
<1> HIDE DEF t
<1>2. JobsIn(t) = JobsIn(s) \cup {c.job}
  BY <1>1 DEF JobsIn
<1>3. WritesIn(t) = WritesIn(s) \cup (IF c.op \in {"save", "insert"} THEN {c.job} ELSE {})
  BY <1>1 DEF WritesIn
<1>4. DeletesIn(t) = DeletesIn(s) \cup (IF c.op = "delete" THEN {c.job} ELSE {})
  BY <1>1 DEF DeletesIn
<1>5. c.op # "fetch" => FetchesIn(t) = FetchesIn(s)
  BY <1>1 DEF FetchesIn
<1>6. DistinctJobs(s) /\ c.job \notin JobsIn(s) => DistinctJobs(t)
  BY <1>1 DEF DistinctJobs, JobsIn
<1>7. QED
  BY <1>2, <1>3, <1>4, <1>5, <1>6 DEF t

\* The first call leaves the calls in flight.
LEMMA CallsTail ==
    ASSUME NEW s \in Seq(Calls), s # <<>>
    PROVE  /\ JobsIn(s) = JobsIn(Tail(s)) \cup {Head(s).job}
           /\ WritesIn(s) = WritesIn(Tail(s)) \cup
                (IF Head(s).op \in {"save", "insert"} THEN {Head(s).job} ELSE {})
           /\ DeletesIn(s) = DeletesIn(Tail(s)) \cup
                (IF Head(s).op = "delete" THEN {Head(s).job} ELSE {})
           /\ FetchesIn(s) \subseteq {1} => FetchesIn(Tail(s)) = {}
           /\ DistinctJobs(s) => DistinctJobs(Tail(s)) /\ Head(s).job \notin JobsIn(Tail(s))
<1> DEFINE t == Tail(s)
<1>1. /\ Len(s) \in Nat /\ Len(s) >= 1 /\ Len(t) = Len(s) - 1 /\ Head(s) = s[1]
      /\ \A i \in 1 .. Len(t) : t[i] = s[i + 1]
  BY TailFacts
<1> HIDE DEF t
<1>2. /\ \A i \in 1 .. Len(s) : i = 1 \/ (i - 1 \in 1 .. Len(t) /\ t[i - 1] = s[i])
      /\ \A i \in 1 .. Len(t) : i + 1 \in 1 .. Len(s) /\ i + 1 # 1
      /\ 1 \in 1 .. Len(s)
  BY <1>1
<1>3. JobsIn(s) = JobsIn(t) \cup {Head(s).job}
  BY <1>1, <1>2 DEF JobsIn
<1> DEFINE Which(u, ops) == {u[i].job : i \in {i \in 1 .. Len(u) : u[i].op \in ops}}
<1>a. ASSUME NEW ops
      PROVE  Which(s, ops) = Which(t, ops) \cup (IF s[1].op \in ops THEN {s[1].job} ELSE {})
  <2>1. ASSUME NEW i \in 1 .. Len(s), s[i].op \in ops
        PROVE  s[i].job \in Which(t, ops) \/ i = 1
    <3>1. CASE i # 1
      <4>1. i - 1 \in 1 .. Len(t) /\ t[i - 1] = s[i]
        BY <1>2, <3>1
      <4>2. QED
        BY <2>1, <4>1
    <3>2. QED
      BY <3>1
  <2>2. ASSUME NEW i \in 1 .. Len(t), t[i].op \in ops
        PROVE  t[i].job \in Which(s, ops)
    <3>1. i + 1 \in 1 .. Len(s) /\ s[i + 1] = t[i]
      BY <1>1, <1>2
    <3>2. QED
      BY <2>2, <3>1
  <2>3. s[1].op \in ops => s[1].job \in Which(s, ops)
    BY <1>2
  <2>4. QED
    BY <2>1, <2>2, <2>3
<1>b. ASSUME NEW u
      PROVE  WritesIn(u) = Which(u, {"save", "insert"}) /\ DeletesIn(u) = Which(u, {"delete"})
  <2>1. WritesIn(u) = Which(u, {"save", "insert"})
    BY DEF WritesIn
  <2>2. \A i \in 1 .. Len(u) : u[i].op \in {"delete"} <=> u[i].op = "delete"
    OBVIOUS
  <2>3. DeletesIn(u) = Which(u, {"delete"})
    BY <2>2 DEF DeletesIn
  <2>4. QED
    BY <2>1, <2>3
<1> HIDE DEF Which
<1>4. WritesIn(s) = WritesIn(t) \cup
        (IF Head(s).op \in {"save", "insert"} THEN {Head(s).job} ELSE {})
  BY <1>1, <1>a, <1>b
<1>5. DeletesIn(s) = DeletesIn(t) \cup (IF Head(s).op = "delete" THEN {Head(s).job} ELSE {})
  BY <1>1, <1>a, <1>b
<1>6. FetchesIn(s) \subseteq {1} => FetchesIn(t) = {}
  <2>1. ASSUME NEW i \in 1 .. Len(t), t[i].op = "fetch" PROVE i + 1 \in FetchesIn(s)
    <3>1. i + 1 \in 1 .. Len(s) /\ t[i] = s[i + 1]
      BY <1>1, <1>2
    <3>2. s[i + 1].op = "fetch"
      BY <2>1, <3>1
    <3>3. QED
      BY <3>1, <3>2 DEF FetchesIn
  <2>2. QED
    BY <1>2, <2>1 DEF FetchesIn
<1>7. ASSUME DistinctJobs(s)
      PROVE  DistinctJobs(t) /\ Head(s).job \notin JobsIn(t)
  <2>1. \A m, n \in 1 .. Len(t) : t[m].job = t[n].job => m + 1 = n + 1
    BY <1>1, <1>2, <1>7 DEF DistinctJobs
  <2>2. \A i \in 1 .. Len(t) : t[i].job # s[1].job
    BY <1>1, <1>2, <1>7 DEF DistinctJobs
  <2>3. QED
    BY <1>1, <2>1, <2>2 DEF DistinctJobs, JobsIn
<1>8. QED
  BY <1>3, <1>4, <1>5, <1>6, <1>7 DEF t

\* The inserts that waited for the fetch join the calls in flight.
Inserts(w) == [i \in DOMAIN w |-> Insertion("insert", w[i])]

\* What they add to the calls.
LEMMA CallsInserts ==
    ASSUME NEW s \in Seq(Calls), NEW w \in Seq(Jobs)
    PROVE  /\ JobsIn(s \o Inserts(w)) = JobsIn(s) \cup ToSet(w)
           /\ WritesIn(s \o Inserts(w)) = WritesIn(s) \cup ToSet(w)
           /\ DeletesIn(s \o Inserts(w)) = DeletesIn(s)
           /\ FetchesIn(s \o Inserts(w)) = FetchesIn(s)
           /\ DistinctJobs(s) /\ IsInjective(w) /\ JobsIn(s) \cap ToSet(w) = {}
                => DistinctJobs(s \o Inserts(w))
<1> DEFINE v == Inserts(w)
<1> DEFINE t == s \o v
<1>1. /\ v \in Seq(Calls) /\ DOMAIN w = 1 .. Len(w) /\ Len(v) = Len(w)
      /\ \A i \in 1 .. Len(w) : v[i].job = w[i] /\ v[i].op = "insert"
  <2>1. v \in Seq(Calls)
    BY InsertionsType DEF Inserts
  <2>2. DOMAIN w = 1 .. Len(w) /\ Len(w) \in Nat
    OBVIOUS
  <2>3. Len(v) = Len(w)
    BY <2>1, <2>2 DEF Inserts
  <2>4. QED
    BY <2>1, <2>2, <2>3 DEF Insertion, Inserts
<1> HIDE DEF v, t
<1>2. /\ Len(s) \in Nat /\ Len(w) \in Nat /\ Len(t) = Len(s) + Len(w)
      /\ \A i \in 1 .. Len(s) : t[i] = s[i]
      /\ \A i \in 1 .. Len(w) : t[Len(s) + i] = v[i]
      /\ \A i \in 1 .. Len(t) : i \in 1 .. Len(s) \/ (\E k \in 1 .. Len(w) : i = Len(s) + k)
  <2>1. t = s \o v
    BY DEF t
  <2>2. ASSUME NEW x \in Seq(Calls)
        PROVE  /\ Len(s) \in Nat /\ Len(s \o x) = Len(s) + Len(x)
               /\ \A i \in 1 .. Len(s) : (s \o x)[i] = s[i]
               /\ \A i \in 1 .. Len(x) : (s \o x)[Len(s) + i] = x[i]
               /\ \A i \in 1 .. Len(s) + Len(x) :
                     i \in 1 .. Len(s) \/ (\E k \in 1 .. Len(x) : i = Len(s) + k)
    BY ConcatFacts
  <2>3. Len(w) \in Nat
    OBVIOUS
  <2>4. v \in Seq(Calls) /\ Len(v) = Len(w)
    BY <1>1
  <2>5. Len(t) = Len(s) + Len(w) /\ \A i \in 1 .. Len(s) : t[i] = s[i]
    BY <2>1, <2>2, <2>4
  <2>6. \A i \in 1 .. Len(w) : t[Len(s) + i] = v[i]
    BY <2>1, <2>2, <2>4
  <2>7. \A i \in 1 .. Len(s) + Len(w) :
           i \in 1 .. Len(s) \/ (\E k \in 1 .. Len(w) : i = Len(s) + k)
    BY <2>2, <2>4
  <2>8. QED
    BY <2>2, <2>3, <2>5, <2>6, <2>7
<1>3. /\ \A i \in 1 .. Len(s) : i \in 1 .. Len(t)
      /\ \A k \in 1 .. Len(w) : Len(s) + k \in 1 .. Len(t)
      /\ \A k, l \in 1 .. Len(w) : Len(s) + k = Len(s) + l => k = l
  BY <1>2
<1>4. \A k \in 1 .. Len(w) : t[Len(s) + k].job = w[k] /\ t[Len(s) + k].op = "insert"
  BY <1>1, <1>2
<1>a. \A i \in 1 .. Len(s) : i \in 1 .. Len(t) /\ t[i] = s[i]
  <2>1. \A i \in 1 .. Len(s) : i \in 1 .. Len(t)
    BY <1>3
  <2>2. \A i \in 1 .. Len(s) : t[i] = s[i]
    BY <1>2
  <2>3. QED
    BY <2>1, <2>2
<1>b. \A k \in 1 .. Len(w) : /\ Len(s) + k \in 1 .. Len(t)
                             /\ t[Len(s) + k].job = w[k] /\ t[Len(s) + k].op = "insert"
  BY <1>3, <1>4
<1>5. ToSet(w) = {w[k] : k \in 1 .. Len(w)}
  BY <1>1 DEF ToSet
<1>6. \A i \in 1 .. Len(t) :
        (i \in 1 .. Len(s) /\ t[i] = s[i])
          \/ (\E k \in 1 .. Len(w) : i = Len(s) + k /\ t[i].job = w[k] /\ t[i].op = "insert")
  <2> SUFFICES ASSUME NEW i \in 1 .. Len(t), i \notin 1 .. Len(s)
               PROVE  \E k \in 1 .. Len(w) : i = Len(s) + k /\ t[i].job = w[k] /\ t[i].op = "insert"
    BY <1>a
  <2>1. PICK k \in 1 .. Len(w) : i = Len(s) + k
    BY <1>2
  <2>2. QED
    BY <1>b, <2>1
<1>7. JobsIn(t) = JobsIn(s) \cup ToSet(w)
  <2>1. JobsIn(s) \subseteq JobsIn(t)
    BY <1>a DEF JobsIn
  <2>2. ASSUME NEW k \in 1 .. Len(w) PROVE w[k] \in JobsIn(t)
    <3> DEFINE i == Len(s) + k
    <3>1. i \in 1 .. Len(t) /\ t[i].job = w[k] /\ t[i].op = "insert"
      BY <1>b
    <3> HIDE DEF i
    <3>2. QED
      BY <3>1 DEF JobsIn
  <2>3. \A i \in 1 .. Len(t) : t[i].job \in JobsIn(s) \cup ToSet(w)
    BY <1>5, <1>6 DEF JobsIn
  <2>4. JobsIn(t) \subseteq JobsIn(s) \cup ToSet(w)
    BY <2>3 DEF JobsIn
  <2>5. ToSet(w) \subseteq JobsIn(t)
    BY <1>5, <2>2
  <2>6. QED
    BY <2>1, <2>4, <2>5
<1>8. WritesIn(t) = WritesIn(s) \cup ToSet(w)
  <2>1. WritesIn(s) \subseteq WritesIn(t)
    BY <1>a DEF WritesIn
  <2>2. ASSUME NEW k \in 1 .. Len(w) PROVE w[k] \in WritesIn(t)
    <3> DEFINE i == Len(s) + k
    <3>1. i \in 1 .. Len(t) /\ t[i].job = w[k] /\ t[i].op = "insert"
      BY <1>b
    <3> HIDE DEF i
    <3>2. QED
      BY <3>1 DEF WritesIn
  <2>3. \A i \in 1 .. Len(t) :
          t[i].op \in {"save", "insert"} => t[i].job \in WritesIn(s) \cup ToSet(w)
    BY <1>5, <1>6 DEF WritesIn
  <2>4. WritesIn(t) \subseteq WritesIn(s) \cup ToSet(w)
    BY <2>3 DEF WritesIn
  <2>5. ToSet(w) \subseteq WritesIn(t)
    BY <1>5, <2>2
  <2>6. QED
    BY <2>1, <2>4, <2>5
<1>9. DeletesIn(t) = DeletesIn(s)
  <2>1. DeletesIn(s) \subseteq DeletesIn(t)
    BY <1>a DEF DeletesIn
  <2>2. \A i \in 1 .. Len(t) : t[i].op = "delete" => t[i].job \in DeletesIn(s)
    <3>1. \A i \in 1 .. Len(t) : t[i].op = "delete" => i \in 1 .. Len(s) /\ t[i] = s[i]
      BY <1>6
    <3>2. QED
      BY <3>1 DEF DeletesIn
  <2>3. QED
    BY <2>1, <2>2 DEF DeletesIn
<1>10. FetchesIn(t) = FetchesIn(s)
  <2>1. \A i \in 1 .. Len(t) : t[i].op = "fetch" => i \in 1 .. Len(s) /\ s[i].op = "fetch"
    BY <1>6
  <2>2. QED
    BY <1>a, <2>1 DEF FetchesIn
<1>11. ASSUME DistinctJobs(s), IsInjective(w), JobsIn(s) \cap ToSet(w) = {}
       PROVE  DistinctJobs(t)
  <2>1. \A i \in 1 .. Len(s), k \in 1 .. Len(w) : s[i].job # w[k]
    BY <1>5, <1>11 DEF JobsIn
  <2>2. \A k, l \in 1 .. Len(w) : w[k] = w[l] => k = l
    BY <1>1, <1>11 DEF IsInjective
  <2>3. ASSUME NEW m \in 1 .. Len(t), NEW n \in 1 .. Len(t), t[m].job = t[n].job
        PROVE  m = n
    <3>1. CASE m \in 1 .. Len(s) /\ n \in 1 .. Len(s)
      BY <1>a, <1>11, <2>3, <3>1 DEF DistinctJobs
    <3>2. CASE m \in 1 .. Len(s) /\ n \notin 1 .. Len(s)
      <4>1. PICK k \in 1 .. Len(w) : t[n].job = w[k]
        BY <1>6, <3>2
      <4>2. QED
        BY <1>a, <2>1, <2>3, <3>2, <4>1
    <3>3. CASE m \notin 1 .. Len(s) /\ n \in 1 .. Len(s)
      <4>1. PICK k \in 1 .. Len(w) : t[m].job = w[k]
        BY <1>6, <3>3
      <4>2. QED
        BY <1>a, <2>1, <2>3, <3>3, <4>1
    <3>4. CASE m \notin 1 .. Len(s) /\ n \notin 1 .. Len(s)
      <4>1. PICK k \in 1 .. Len(w) : m = Len(s) + k /\ t[m].job = w[k]
        BY <1>6, <3>4
      <4>2. PICK l \in 1 .. Len(w) : n = Len(s) + l /\ t[n].job = w[l]
        BY <1>6, <3>4
      <4>3. k = l
        BY <2>2, <2>3, <4>1, <4>2
      <4>4. QED
        BY <4>1, <4>2, <4>3
    <3>5. QED
      BY <3>1, <3>2, <3>3, <3>4
  <2>4. QED
    BY <2>3 DEF DistinctJobs
<1>12. QED
  BY <1>7, <1>8, <1>9, <1>10, <1>11 DEF t, v
-------------------------------------------------------------------------------
\* What a job was written for is never undone before it is over: the deletions in
\* flight are of jobs that are over, so none of them can lose one.
LedgerInv ==
    /\ accepted \subseteq persisted
    /\ persisted \subseteq db \cup over
    /\ DeletesIn(calls) \subseteq over

\* The calls executed before a crash are among the calls in flight.
LEMMA ExecutedCalls ==
    ASSUME TypeOK, NEW n \in 0 .. Len(calls)
    PROVE  Written(n) \subseteq WritesIn(calls) /\ Deleted(n) \subseteq DeletesIn(calls)
<1>1. Len(calls) \in Nat
  BY DEF TypeOK
<1>2. \A i \in 1 .. n : i \in 1 .. Len(calls)
  BY <1>1
<1>3. QED
  BY <1>2 DEF Written, Deleted, WritesIn, DeletesIn

\* The call at the head of the calls in flight, by its operation.
LEMMA HeadCall ==
    ASSUME NEW s \in Seq(Calls), s # <<>>
    PROVE  /\ Head(s) \in Calls
           /\ Head(s).op = "fetch" => Head(s).job = NoJob /\ 1 \in FetchesIn(s)
           /\ Head(s).op \in {"save", "insert"} => Head(s).job \in WritesIn(s) \cap Jobs
           /\ Head(s).op = "delete" => Head(s).job \in DeletesIn(s) \cap Jobs
           /\ Head(s).job \in JobsIn(s)
<1>1. Head(s) \in Calls /\ Head(s) = s[1] /\ Len(s) \in Nat /\ Len(s) >= 1
  BY TailFacts
<1>2. 1 \in 1 .. Len(s)
  BY <1>1
<1>3. /\ Head(s).op = "fetch" => Head(s).job = NoJob
      /\ Head(s).op \in {"save", "insert", "delete"} => Head(s).job \in Jobs
  BY <1>1 DEF Calls
<1>4. QED
  BY <1>1, <1>2, <1>3 DEF FetchesIn, WritesIn, DeletesIn, JobsIn

\* deleteJob joins the calls in flight.
LEMMA Deletions ==
    ASSUME NEW s \in Seq(Calls), NEW j \in Jobs, NEW settle \in {"resolved", "rejected"}
    PROVE  /\ DeletesIn(Append(s, Deletion(j, settle))) = DeletesIn(s) \cup {j}
           /\ WritesIn(Append(s, Deletion(j, settle))) = WritesIn(s)
           /\ FetchesIn(Append(s, Deletion(j, settle))) = FetchesIn(s)
           /\ JobsIn(Append(s, Deletion(j, settle))) = JobsIn(s) \cup {j}
           /\ DistinctJobs(s) /\ j \notin JobsIn(s)
                => DistinctJobs(Append(s, Deletion(j, settle)))
<1> DEFINE c == Deletion(j, settle)
<1>1. c \in Calls /\ c.op = "delete" /\ c.job = j
  BY CallTypes DEF Deletion
<1> HIDE DEF c
<1>2. QED
  BY <1>1, CallsAppend DEF c

\* insertJob joins the calls in flight.
LEMMA Insertions ==
    ASSUME NEW s \in Seq(Calls), NEW j \in Jobs, NEW op \in {"save", "insert"}
    PROVE  /\ DeletesIn(Append(s, Insertion(op, j))) = DeletesIn(s)
           /\ WritesIn(Append(s, Insertion(op, j))) = WritesIn(s) \cup {j}
           /\ FetchesIn(Append(s, Insertion(op, j))) = FetchesIn(s)
           /\ JobsIn(Append(s, Insertion(op, j))) = JobsIn(s) \cup {j}
           /\ DistinctJobs(s) /\ j \notin JobsIn(s) => DistinctJobs(Append(s, Insertion(op, j)))
<1> DEFINE c == Insertion(op, j)
<1>1. c \in Calls /\ c.op = op /\ c.job = j
  BY CallTypes DEF Insertion
<1> HIDE DEF c
<1>2. QED
  BY <1>1, CallsAppend DEF c

\* Every step keeps the ledger: what was accepted was written, what was written is a row
\* or over, and what is being deleted is over.
LEMMA LedgerStep ==
    ASSUME TypeOK, LedgerInv, [Next]_vars
    PROVE  LedgerInv'
<1>0. calls \in Seq(Calls)
  BY DEF TypeOK
<1>1. CASE StreamJobs
  <2>1. DeletesIn(calls') = DeletesIn(calls)
    BY <1>0, <1>1, CallTypes, CallsAppend DEF StreamJobs
  <2>2. QED
    BY <1>1, <2>1 DEF StreamJobs, LedgerInv, history
<1>2. CASE Add
  <2>1. DeletesIn(calls') = DeletesIn(calls)
    BY <1>0, <1>2, Insertions DEF Add
  <2>2. QED
    BY <1>2, <2>1 DEF Add, LedgerInv, history
<1>3. CASE FetchAnswered
  <2>1. Tail(calls) \in Seq(Calls) /\ DeletesIn(Tail(calls)) \subseteq DeletesIn(calls)
    BY <1>0, <1>3, CallsTail, TailFacts DEF FetchAnswered
  <2>2. DeletesIn(calls') = DeletesIn(Tail(calls))
    <3>1. calls' = Tail(calls) \o Inserts(waiting)
      BY <1>3 DEF FetchAnswered, Inserts
    <3>2. waiting \in Seq(Jobs)
      BY DEF TypeOK
    <3>3. QED
      BY <2>1, <3>1, <3>2, CallsInserts
  <2>3. QED
    BY <1>3, <2>1, <2>2 DEF FetchAnswered, LedgerInv, history
<1>4. CASE InsertAnswered
  <2>1. DeletesIn(calls') \subseteq DeletesIn(calls)
    BY <1>0, <1>4, CallsTail DEF InsertAnswered
  <2>2. QED
    BY <1>4, <2>1 DEF InsertAnswered, LedgerInv
<1>5. CASE DeleteAnswered
  <2>1. DeletesIn(calls') \subseteq DeletesIn(calls)
    BY <1>0, <1>5, CallsTail DEF DeleteAnswered
  <2>2. Head(calls).job \in over
    BY <1>0, <1>5, HeadCall DEF DeleteAnswered, LedgerInv
  <2>3. QED
    BY <1>5, <2>1, <2>2 DEF DeleteAnswered, LedgerInv, history
<1>6. CASE CallFails
  <2>1. DeletesIn(calls') \subseteq DeletesIn(calls)
    BY <1>0, <1>6, CallsTail DEF CallFails
  <2>2. QED
    BY <1>6, <2>1 DEF CallFails, LedgerInv, history
<1>7. CASE DropUnparsable
  <2>1. Head(stream) \in Jobs
    BY <1>7, SeqTypes DEF DropUnparsable, TypeOK
  <2>2. DeletesIn(calls') = DeletesIn(calls) \cup {Head(stream)}
    BY <1>0, <1>7, <2>1, Deletions DEF DropUnparsable
  <2>3. QED
    BY <1>7, <2>2 DEF DropUnparsable, LedgerInv
<1>8. CASE RunResolves
  <2>1. DeletesIn(calls') = DeletesIn(calls) \cup {running}
    BY <1>0, <1>8, Deletions DEF RunResolves, EndJob, TypeOK
  <2>2. QED
    BY <1>8, <2>1 DEF RunResolves, LedgerInv
<1>9. CASE RunRejects
  <2>1. CASE ~shuttingDown /\ attempt = MaxAttempts
    <3>1. DeletesIn(calls') = DeletesIn(calls) \cup {running}
      BY <1>0, <1>9, <2>1, Deletions DEF RunRejects, EndJob, TypeOK
    <3>2. over' = over \cup {running}
      BY <1>9, <2>1 DEF RunRejects
    <3>3. QED
      BY <1>9, <3>1, <3>2 DEF RunRejects, LedgerInv
  <2>2. CASE shuttingDown \/ attempt # MaxAttempts
    <3>1. calls' = calls
      BY <1>9, <2>2 DEF RunRejects, AbandonJob
    <3>2. over \subseteq over'
      BY <1>9 DEF RunRejects
    <3>3. QED
      BY <1>9, <3>1, <3>2 DEF RunRejects, LedgerInv
  <2>3. QED
    BY <2>1, <2>2
<1>10. ASSUME NEW n \in 0 .. Len(calls), Restart(n)
       PROVE  LedgerInv'
  <2>1. Deleted(n) \subseteq over
    BY ExecutedCalls DEF LedgerInv
  <2>2. DeletesIn(calls') = {}
    BY <1>10 DEF Restart, DeletesIn
  <2>3. QED
    BY <1>10, <2>1, <2>2 DEF Restart, LedgerInv
<1>11. CASE Quit
  <2>1. Len(calls) \in 0 .. Len(calls)
    BY DEF TypeOK
  <2>2. QED
    BY <1>10, <1>11, <2>1 DEF Quit
<1>12. CASE StopConsuming \/ Enqueue \/ StartJob \/ ReturnEarly \/ Shutdown \/ UNCHANGED vars
  BY <1>12 DEF StopConsuming, Enqueue, StartJob, ReturnEarly, Shutdown, vars, history,
               LedgerInv
<1>13. QED
  BY <1>1, <1>2, <1>3, <1>4, <1>5, <1>6, <1>7, <1>8, <1>9, <1>10, <1>11, <1>12
     DEF Next, DbAnswers, Consume, RunEnds, Crash

\* A job that was written to the jobs table, or whose add resolved, has its row until it
\* is over: done, dropped, out of attempts or unparsable.  No shutdown, no crash between
\* two calls and no failing call loses one, for any number of jobs and restarts.
THEOREM NoneIsLost == Spec => []NoJobLost
<1>1. Init => LedgerInv
  BY DEF Init, LedgerInv, DeletesIn
<1>2. TypeOK /\ LedgerInv /\ [Next]_vars => LedgerInv'
  BY LedgerStep
<1>3. LedgerInv => NoJobLost
  BY DEF LedgerInv, NoJobLost
<1>4. QED
  BY <1>1, <1>2, <1>3, TypeCorrect, PTL DEF Spec
-------------------------------------------------------------------------------
\* In a process a job is in one place, once.
Line == ToSet(queue) \cup ToSet(stream)
Placed ==
    /\ IsInjective(waiting) /\ IsInjective(queue) /\ IsInjective(stream) /\ DistinctJobs(calls)
    /\ ToSet(queue) \cap ToSet(stream) = {}
    /\ ToSet(waiting) \cap (JobsIn(calls) \cup Line \cup {running}) = {}
    /\ (JobsIn(calls) \ {NoJob}) \cap (Line \cup {running}) = {}
    /\ running \notin Line

\* What is worked on has its row, what is still to be written has none, and only jobs
\* that were created are anywhere.
Stored ==
    /\ Line \cup {running} \subseteq db \cup {NoJob}
    /\ (ToSet(waiting) \cup WritesIn(calls)) \cap db = {}
    /\ db \cup JobsIn(calls) \cup ToSet(waiting) \subseteq 0 .. created

\* The fetch is the first call of a process and nothing is worked on before its answer.
FetchFirst ==
    /\ FetchesIn(calls) \subseteq {1}
    /\ FetchesIn(calls) # {} => ~fetched
    /\ ~started => calls = <<>> /\ waiting = <<>> /\ ~fetched
    /\ ~fetched => /\ DeletesIn(calls) = {}
                   /\ queue = <<>> /\ stream = <<>> /\ running = NoJob

\* A job whose completion settled has no row and gets none.
Settled(j) == completion[j] = "resolved" \/ (completion[j] = "rejected" /\ ~shuttingDown)
SettledIsGone ==
    \A j \in Jobs : Settled(j) => j \notin db \cup ToSet(waiting) \cup WritesIn(calls)

PlacesInv == Placed /\ Stored /\ FetchFirst /\ SettledIsGone

\* The elements of the four sequences a job moves through are jobs.
LEMMA Elements ==
    ASSUME TypeOK
    PROVE  /\ ToSet(waiting) \subseteq Jobs /\ ToSet(queue) \subseteq Jobs
           /\ ToSet(stream) \subseteq Jobs
           /\ JobsIn(calls) \subseteq Jobs \cup {NoJob}
           /\ WritesIn(calls) \subseteq JobsIn(calls)
           /\ NoJob \notin Jobs
<1>1. ASSUME NEW s \in Seq(Jobs) PROVE ToSet(s) \subseteq Jobs
  BY DEF ToSet
<1>2. ASSUME NEW i \in 1 .. Len(calls) PROVE calls[i].job \in Jobs \cup {NoJob}
  <2>1. calls[i] \in Calls
    BY DEF TypeOK
  <2>2. QED
    BY <2>1 DEF Calls
<1>3. waiting \in Seq(Jobs) /\ queue \in Seq(Jobs) /\ stream \in Seq(Jobs)
  BY DEF TypeOK
<1>4. NoJob \notin Jobs
  BY JobsArePositive
<1>5. JobsIn(calls) \subseteq Jobs \cup {NoJob} /\ WritesIn(calls) \subseteq JobsIn(calls)
  BY <1>2 DEF JobsIn, WritesIn
<1>6. QED
  BY <1>1, <1>3, <1>4, <1>5

\* Nothing is in the empty sequence.
LEMMA NothingInEmpty ==
    /\ ToSet(<<>>) = {} /\ IsInjective(<<>>)
    /\ JobsIn(<<>>) = {} /\ WritesIn(<<>>) = {} /\ DeletesIn(<<>>) = {} /\ FetchesIn(<<>>) = {}
    /\ DistinctJobs(<<>>)
BY DEF ToSet, IsInjective, JobsIn, WritesIn, DeletesIn, FetchesIn, DistinctJobs

\* Settling changes one completion at most.
LEMMA SettleFacts ==
    ASSUME TypeOK, NEW j \in Jobs, NEW settle, Settle(j, settle), NEW i \in Jobs
    PROVE  completion'[i] = completion[i] \/ (i = j /\ completion'[i] = settle)
BY DEF Settle, TypeOK

\* A listing has every row, once.
LEMMA ListingFacts ==
    ASSUME NEW rows \in SUBSET Jobs, NEW f \in Listings(rows)
    PROVE  IsInjective(f) /\ ToSet(f) \subseteq rows
BY DEF Listings, ToSet

\* What a job that leaves a sequence leaves behind.
LEMMA Popped ==
    ASSUME NEW s \in Seq(Jobs), s # <<>>, IsInjective(s)
    PROVE  /\ Head(s) \in Jobs
           /\ ToSet(s) = {Head(s)} \cup ToSet(Tail(s))
           /\ Head(s) \notin ToSet(Tail(s))
           /\ IsInjective(Tail(s))
BY TailElements, SeqTypes

\* What a job that joins a sequence adds to it.
LEMMA Pushed ==
    ASSUME NEW s \in Seq(Jobs), NEW j \in Jobs, IsInjective(s), j \notin ToSet(s)
    PROVE  ToSet(Append(s, j)) = ToSet(s) \cup {j} /\ IsInjective(Append(s, j))
BY AppendElements

\* The call that is answered leaves the calls in flight.
LEMMA Answered ==
    ASSUME TypeOK, PlacesInv, calls # <<>>, calls' = Tail(calls)
    PROVE  /\ JobsIn(calls) = JobsIn(calls') \cup {Head(calls).job}
           /\ Head(calls).job \notin JobsIn(calls')
           /\ WritesIn(calls') \subseteq WritesIn(calls)
           /\ DeletesIn(calls') \subseteq DeletesIn(calls)
           /\ FetchesIn(calls') = {}
           /\ DistinctJobs(calls')
           /\ WritesIn(calls') \subseteq JobsIn(calls')
<1>1. calls \in Seq(Calls) /\ DistinctJobs(calls) /\ FetchesIn(calls) \subseteq {1}
  BY DEF TypeOK, PlacesInv, Placed, FetchFirst
<1>2. WritesIn(calls') \subseteq JobsIn(calls')
  BY DEF WritesIn, JobsIn
<1>3. QED
  BY <1>1, <1>2, CallsTail

\* streamJobs starts: the fetch goes out and nothing else moves.
LEMMA PlacesStreamJobs ==
    ASSUME TypeOK, PlacesInv, StreamJobs
    PROVE  PlacesInv'
<1> DEFINE fetch == [op |-> "fetch", job |-> NoJob, settle |-> "none"]
<1>1. fetch \in Calls /\ fetch.job = NoJob /\ fetch.op = "fetch"
  BY CallTypes
<1> HIDE DEF fetch
<1>2. calls = <<>> /\ waiting = <<>> /\ ~fetched
  BY DEF StreamJobs, PlacesInv, FetchFirst
<1>3. calls' = Append(<<>>, fetch) /\ <<>> \in Seq(Calls)
  BY <1>2 DEF StreamJobs, fetch
<1>4. JobsIn(calls') = {NoJob} /\ WritesIn(calls') = {} /\ DeletesIn(calls') = {}
  <2>1. JobsIn(calls') = {NoJob}
    <3>1. JobsIn(Append(<<>>, fetch)) = JobsIn(<<>>) \cup {fetch.job}
      BY <1>1, <1>3, CallsAppend
    <3>2. QED
      BY <1>1, <1>3, <3>1, NothingInEmpty
  <2>2. WritesIn(calls') = {}
    BY <1>1, <1>3, CallsAppend, NothingInEmpty
  <2>3. DeletesIn(calls') = {}
    BY <1>1, <1>3, CallsAppend, NothingInEmpty
  <2>4. QED
    BY <2>1, <2>2, <2>3
<1>5. DistinctJobs(calls')
  BY <1>1, <1>3, CallsAppend, NothingInEmpty
<1>6. FetchesIn(calls') \subseteq {1}
  <2>1. calls' = <<fetch>>
    BY <1>3
  <2>2. Len(calls') = 1
    BY <2>1
  <2>3. QED
    BY <2>2 DEF FetchesIn
<1>7. queue = <<>> /\ stream = <<>> /\ running = NoJob
  BY <1>2 DEF PlacesInv, FetchFirst
<1>8. /\ UNCHANGED <<db, fetched, waiting, queue, stream, running, shuttingDown, completion, created>>
      /\ started'
  BY DEF StreamJobs, consumer, pqueue, limits
<1>9. Placed'
  BY <1>2, <1>4, <1>5, <1>7, <1>8, NothingInEmpty DEF Placed, Line
<1>10. Stored'
  BY <1>2, <1>4, <1>7, <1>8, NothingInEmpty DEF Stored, Line, PlacesInv, NoJob, TypeOK
<1>11. FetchFirst'
  BY <1>2, <1>4, <1>6, <1>7, <1>8 DEF FetchFirst
<1>12. SettledIsGone'
  BY <1>2, <1>4, <1>8, NothingInEmpty DEF SettledIsGone, Settled, PlacesInv
<1>13. QED
  BY <1>9, <1>10, <1>11, <1>12 DEF PlacesInv

\* add puts a new job on its way to the table.
LEMMA PlacesAdd ==
    ASSUME TypeOK, PlacesInv, Add
    PROVE  PlacesInv'
<1> DEFINE j == created + 1
<1>1. /\ j \in Jobs /\ created \in Nat /\ created' = j
      /\ started /\ completion'[j] = "pending"
      /\ \A i \in Jobs : i # j => completion'[i] = completion[i]
      /\ UNCHANGED <<db, started, fetched, queue, stream, running, shuttingDown>>
  BY DEF Add, TypeOK, consumer, pqueue
<1>2. 0 .. created \subseteq 0 .. created' /\ j \notin 0 .. created /\ j \in 0 .. created' /\ j # NoJob
  BY <1>1 DEF NoJob
<1> HIDE DEF j
<1>3. j \notin db \cup JobsIn(calls) \cup ToSet(waiting) \cup Line \cup {running}
  BY <1>2 DEF PlacesInv, Stored
<1>4. /\ WritesIn(calls) \subseteq JobsIn(calls)
      /\ ToSet(waiting) \subseteq Jobs /\ calls \in Seq(Calls) /\ waiting \in Seq(Jobs)
  BY Elements DEF TypeOK
<1>5. CASE \E op \in {"save", "insert"} : calls' = Append(calls, Insertion(op, j)) /\ waiting' = waiting
  <2>1. /\ JobsIn(calls') = JobsIn(calls) \cup {j} /\ WritesIn(calls') = WritesIn(calls) \cup {j}
        /\ DeletesIn(calls') = DeletesIn(calls) /\ FetchesIn(calls') = FetchesIn(calls)
        /\ DistinctJobs(calls')
    BY <1>1, <1>3, <1>4, <1>5, Insertions DEF PlacesInv, Placed
  <2>2. Placed'
    BY <1>1, <1>3, <1>5, <2>1 DEF PlacesInv, Placed, Line
  <2>3. Stored'
    BY <1>1, <1>2, <1>3, <1>5, <2>1 DEF PlacesInv, Stored, Line
  <2>4. FetchFirst'
    BY <1>1, <1>5, <2>1 DEF PlacesInv, FetchFirst
  <2>5. SettledIsGone'
    BY <1>1, <1>5, <2>1 DEF PlacesInv, SettledIsGone, Settled
  <2>6. QED
    BY <2>2, <2>3, <2>4, <2>5 DEF PlacesInv
<1>6. CASE waiting' = Append(waiting, j) /\ calls' = calls
  <2>1. ToSet(waiting') = ToSet(waiting) \cup {j} /\ IsInjective(waiting')
    BY <1>1, <1>3, <1>4, <1>6, Pushed DEF PlacesInv, Placed
  <2>2. Placed'
    BY <1>1, <1>3, <1>6, <2>1 DEF PlacesInv, Placed, Line
  <2>3. Stored'
    BY <1>1, <1>2, <1>3, <1>6, <2>1 DEF PlacesInv, Stored, Line
  <2>4. FetchFirst'
    BY <1>1, <1>6 DEF PlacesInv, FetchFirst
  <2>5. SettledIsGone'
    BY <1>1, <1>6, <2>1 DEF PlacesInv, SettledIsGone, Settled
  <2>6. QED
    BY <2>2, <2>3, <2>4, <2>5 DEF PlacesInv
<1>7. QED
  BY <1>5, <1>6 DEF Add, j

\* The rows of the initial fetch enter the stream, and the inserts that waited go out.
LEMMA PlacesFetchAnswered ==
    ASSUME TypeOK, PlacesInv, FetchAnswered
    PROVE  PlacesInv'
<1>1. calls \in Seq(Calls) /\ calls # <<>> /\ Tail(calls) \in Seq(Calls) /\ waiting \in Seq(Jobs)
  BY TailFacts DEF FetchAnswered, TypeOK
<1>2. Head(calls).job = NoJob /\ 1 \in FetchesIn(calls)
  BY <1>1, HeadCall DEF FetchAnswered
<1>3. /\ ~fetched /\ started /\ DeletesIn(calls) = {}
      /\ queue = <<>> /\ stream = <<>> /\ running = NoJob
  BY <1>1, <1>2 DEF PlacesInv, FetchFirst
<1>4. /\ JobsIn(calls) = JobsIn(Tail(calls)) \cup {NoJob}
      /\ WritesIn(calls) = WritesIn(Tail(calls)) /\ DeletesIn(Tail(calls)) = {}
      /\ FetchesIn(Tail(calls)) = {}
      /\ DistinctJobs(Tail(calls)) /\ NoJob \notin JobsIn(Tail(calls))
  <2>1. Head(calls).op = "fetch"
    BY DEF FetchAnswered
  <2>2. DistinctJobs(calls) /\ FetchesIn(calls) \subseteq {1}
    BY DEF PlacesInv, Placed, FetchFirst
  <2>3. JobsIn(calls) = JobsIn(Tail(calls)) \cup {NoJob}
    BY <1>1, <1>2, CallsTail
  <2>4. WritesIn(calls) = WritesIn(Tail(calls)) /\ DeletesIn(Tail(calls)) = {}
    <3>1. WritesIn(calls) = WritesIn(Tail(calls))
      <4>1. WritesIn(calls) = WritesIn(Tail(calls)) \cup
              (IF Head(calls).op \in {"save", "insert"} THEN {Head(calls).job} ELSE {})
        BY <1>1, CallsTail
      <4>2. Head(calls).op \notin {"save", "insert"}
        BY <2>1
      <4>3. QED
        BY <4>1, <4>2
    <3>2. DeletesIn(Tail(calls)) \subseteq DeletesIn(calls)
      BY <1>1, CallsTail
    <3>3. QED
      BY <1>3, <3>1, <3>2
  <2>5. FetchesIn(Tail(calls)) = {}
    BY <1>1, <2>2, CallsTail
  <2>6. DistinctJobs(Tail(calls)) /\ NoJob \notin JobsIn(Tail(calls))
    BY <1>1, <1>2, <2>2, CallsTail
  <2>7. QED
    BY <1>3, <2>3, <2>4, <2>5, <2>6
<1>5. /\ JobsIn(calls') = JobsIn(Tail(calls)) \cup ToSet(waiting)
      /\ WritesIn(calls') = WritesIn(Tail(calls)) \cup ToSet(waiting)
      /\ DeletesIn(calls') = DeletesIn(Tail(calls)) /\ FetchesIn(calls') = FetchesIn(Tail(calls))
      /\ DistinctJobs(calls')
  <2>1. calls' = Tail(calls) \o Inserts(waiting)
    BY DEF FetchAnswered, Inserts
  <2>2. IsInjective(waiting) /\ JobsIn(Tail(calls)) \cap ToSet(waiting) = {}
    BY <1>4 DEF PlacesInv, Placed
  <2>3. ASSUME NEW c \in Seq(Calls), NEW w \in Seq(Jobs), IsInjective(w), DistinctJobs(c),
               JobsIn(c) \cap ToSet(w) = {}
        PROVE  /\ JobsIn(c \o Inserts(w)) = JobsIn(c) \cup ToSet(w)
               /\ WritesIn(c \o Inserts(w)) = WritesIn(c) \cup ToSet(w)
               /\ DeletesIn(c \o Inserts(w)) = DeletesIn(c)
               /\ FetchesIn(c \o Inserts(w)) = FetchesIn(c)
               /\ DistinctJobs(c \o Inserts(w))
    BY <2>3, CallsInserts
  <2> DEFINE c == Tail(calls)
  <2>4. c \in Seq(Calls) /\ DistinctJobs(c) /\ JobsIn(c) \cap ToSet(waiting) = {}
        /\ calls' = c \o Inserts(waiting)
    BY <1>1, <1>4, <2>1, <2>2
  <2> HIDE DEF c
  <2>5. /\ JobsIn(calls') = JobsIn(c) \cup ToSet(waiting)
        /\ WritesIn(calls') = WritesIn(c) \cup ToSet(waiting)
        /\ DeletesIn(calls') = DeletesIn(c) /\ FetchesIn(calls') = FetchesIn(c)
        /\ DistinctJobs(calls')
    BY <1>1, <2>2, <2>3, <2>4
  <2>6. QED
    BY <2>5 DEF c
<1>6. IsInjective(stream') /\ ToSet(stream') \subseteq db
  <2>1. PICK rows \in Listings(db) : stream' = rows \o stream
    BY DEF FetchAnswered
  <2>2. db \in SUBSET Jobs
    BY DEF TypeOK
  <2>3. rows \in Seq(Jobs) /\ IsInjective(rows) /\ ToSet(rows) \subseteq db
    BY <2>1, <2>2, ListingType, ListingFacts
  <2>4. stream' = rows
    BY <1>3, <2>1, <2>3
  <2>5. QED
    BY <2>3, <2>4
<1>7. /\ waiting' = <<>> /\ fetched'
      /\ UNCHANGED <<db, started, queue, running, shuttingDown, completion, created>>
  BY DEF FetchAnswered, pqueue, limits
<1>8. JobsIn(Tail(calls)) \cap db = {}
  <2>1. ASSUME NEW x \in JobsIn(Tail(calls)) PROVE x \in WritesIn(calls)
    <3>1. PICK i \in 1 .. Len(Tail(calls)) : Tail(calls)[i].job = x
      BY <2>1 DEF JobsIn
    <3>2. Tail(calls)[i] \in Calls
      BY <1>1
    <3>3. Tail(calls)[i].op \in {"fetch", "save", "insert", "delete"}
      BY <3>2 DEF Calls
    <3>4. Tail(calls)[i].op # "fetch"
      BY <1>4 DEF FetchesIn
    <3>5. Tail(calls)[i].op # "delete"
      BY <1>4 DEF DeletesIn
    <3>6. x \in WritesIn(Tail(calls))
      BY <3>1, <3>3, <3>4, <3>5 DEF WritesIn
    <3>7. QED
      BY <1>4, <3>6
  <2>2. QED
    BY <2>1 DEF PlacesInv, Stored
<1>9. ToSet(waiting) \cap db = {} /\ NoJob \notin ToSet(waiting) /\ NoJob \notin db
  BY Elements DEF PlacesInv, Stored, TypeOK
<1>10. Placed'
  BY <1>3, <1>5, <1>6, <1>7, <1>8, <1>9, NothingInEmpty DEF Placed, Line
<1>11. Stored'
  BY <1>3, <1>4, <1>5, <1>6, <1>7, NothingInEmpty DEF PlacesInv, Stored, Line
<1>12. FetchFirst'
  BY <1>3, <1>4, <1>5, <1>7 DEF FetchFirst
<1>13. SettledIsGone'
  BY <1>4, <1>5, <1>7, NothingInEmpty DEF PlacesInv, SettledIsGone, Settled
<1>14. QED
  BY <1>10, <1>11, <1>12, <1>13 DEF PlacesInv

\* A row that was written enters the stream, once.
LEMMA PlacesInsertAnswered ==
    ASSUME TypeOK, PlacesInv, InsertAnswered
    PROVE  PlacesInv'
<1> DEFINE j == Head(calls).job
<1>1. /\ calls # <<>> /\ calls' = Tail(calls) /\ db' = db \cup {j}
      /\ UNCHANGED <<started, fetched, waiting, queue, running, shuttingDown, completion, created>>
  BY DEF InsertAnswered, source, pqueue, limits
<1>2. j \in WritesIn(calls) /\ j \in Jobs
  BY <1>1, HeadCall DEF InsertAnswered, TypeOK
<1>3. /\ JobsIn(calls) = JobsIn(calls') \cup {j} /\ j \notin JobsIn(calls')
      /\ WritesIn(calls') \subseteq WritesIn(calls) /\ DeletesIn(calls') \subseteq DeletesIn(calls)
      /\ FetchesIn(calls') = {} /\ DistinctJobs(calls') /\ WritesIn(calls') \subseteq JobsIn(calls')
  BY <1>1, Answered
<1>4. \/ fetched /\ stream' = Append(stream, j)
      \/ stream' = stream
  BY DEF InsertAnswered
<1> HIDE DEF j
<1>5. j # NoJob /\ j \in JobsIn(calls)
  BY <1>2, <1>3, JobsArePositive DEF NoJob
<1>6. j \notin ToSet(waiting) \cup Line \cup {running}
  BY <1>5 DEF PlacesInv, Placed
<1>7. /\ ToSet(stream') \subseteq ToSet(stream) \cup {j} /\ IsInjective(stream')
      /\ ~fetched => stream' = stream
  <2>1. CASE stream' = stream
    BY <2>1 DEF PlacesInv, Placed
  <2>2. CASE fetched /\ stream' = Append(stream, j)
    <3>1. stream \in Seq(Jobs) /\ IsInjective(stream) /\ j \notin ToSet(stream)
      BY <1>6 DEF TypeOK, PlacesInv, Placed, Line
    <3>2. QED
      BY <1>2, <2>2, <3>1, Pushed
  <2>3. QED
    BY <1>4, <2>1, <2>2
<1>8. Placed'
  BY <1>1, <1>3, <1>5, <1>6, <1>7 DEF PlacesInv, Placed, Line
<1>9. Stored'
  BY <1>1, <1>3, <1>5, <1>6, <1>7 DEF PlacesInv, Stored, Line
<1>10. FetchFirst'
  BY <1>1, <1>3, <1>7 DEF PlacesInv, FetchFirst
<1>11. SettledIsGone'
  BY <1>1, <1>2, <1>3 DEF PlacesInv, SettledIsGone, Settled
<1>12. QED
  BY <1>8, <1>9, <1>10, <1>11 DEF PlacesInv

\* A row that is deleted settles its completion.
LEMMA PlacesDeleteAnswered ==
    ASSUME TypeOK, PlacesInv, DeleteAnswered
    PROVE  PlacesInv'
<1> DEFINE j == Head(calls).job
<1>1. /\ calls # <<>> /\ calls' = Tail(calls) /\ db' = db \ {j}
      /\ Settle(j, Head(calls).settle)
      /\ UNCHANGED <<started, fetched, waiting, stream, queue, running, shuttingDown, created>>
  BY DEF DeleteAnswered, source, consumer, pqueue, limits
<1>2. j \in Jobs
  BY <1>1, HeadCall DEF DeleteAnswered, TypeOK
<1>3. /\ JobsIn(calls) = JobsIn(calls') \cup {j} /\ j \notin JobsIn(calls')
      /\ WritesIn(calls') \subseteq WritesIn(calls) /\ DeletesIn(calls') \subseteq DeletesIn(calls)
      /\ FetchesIn(calls') = {} /\ DistinctJobs(calls') /\ WritesIn(calls') \subseteq JobsIn(calls')
  BY <1>1, Answered
<1>4. \A i \in Jobs : completion'[i] = completion[i] \/ i = j
  BY <1>1, <1>2, SettleFacts
<1> HIDE DEF j
<1>5. j # NoJob /\ j \in JobsIn(calls)
  BY <1>2, <1>3, JobsArePositive DEF NoJob
<1>6. j \notin ToSet(waiting) \cup Line \cup {running}
  BY <1>5 DEF PlacesInv, Placed
<1>7. Placed'
  BY <1>1, <1>3 DEF PlacesInv, Placed, Line
<1>8. Stored'
  BY <1>1, <1>3, <1>6 DEF PlacesInv, Stored, Line
<1>9. FetchFirst'
  BY <1>1, <1>3 DEF PlacesInv, FetchFirst
<1>10. SettledIsGone'
  BY <1>1, <1>3, <1>4, <1>6 DEF PlacesInv, SettledIsGone, Settled
<1>11. QED
  BY <1>7, <1>8, <1>9, <1>10 DEF PlacesInv

\* A call that fails leaves the table as it is.
LEMMA PlacesCallFails ==
    ASSUME TypeOK, PlacesInv, CallFails
    PROVE  PlacesInv'
<1>1. /\ calls # <<>> /\ calls' = Tail(calls)
      /\ UNCHANGED <<db, started, fetched, waiting, stream, queue, running, shuttingDown,
                     completion, created>>
  BY DEF CallFails, source, pqueue
<1>2. /\ JobsIn(calls') \subseteq JobsIn(calls)
      /\ WritesIn(calls') \subseteq WritesIn(calls) /\ DeletesIn(calls') \subseteq DeletesIn(calls)
      /\ FetchesIn(calls') = {} /\ DistinctJobs(calls')
  BY <1>1, Answered
<1>3. Placed'
  BY <1>1, <1>2 DEF PlacesInv, Placed, Line
<1>4. Stored'
  BY <1>1, <1>2 DEF PlacesInv, Stored, Line
<1>5. FetchFirst'
  BY <1>1, <1>2 DEF PlacesInv, FetchFirst
<1>6. SettledIsGone'
  BY <1>1, <1>2 DEF PlacesInv, SettledIsGone, Settled
<1>7. QED
  BY <1>3, <1>4, <1>5, <1>6 DEF PlacesInv

\* The job at the head of the stream leaves it, and is dropped or goes to the PQueue.
LEMMA PlacesConsume ==
    ASSUME TypeOK, PlacesInv, Consume
    PROVE  PlacesInv'
<1> DEFINE j == Head(stream)
<1>1. /\ stream # <<>> /\ stream' = Tail(stream)
      /\ UNCHANGED <<db, started, fetched, waiting, running, shuttingDown, completion, created>>
  BY DEF Consume, StopConsuming, DropUnparsable, Enqueue, source, pqueue, limits
<1>2. /\ j \in Jobs /\ ToSet(stream) = {j} \cup ToSet(stream') /\ j \notin ToSet(stream')
      /\ IsInjective(stream')
  <2>1. stream \in Seq(Jobs) /\ IsInjective(stream)
    BY DEF TypeOK, PlacesInv, Placed
  <2>2. QED
    BY <1>1, <2>1, Popped
<1>3. fetched /\ started
  BY <1>1 DEF PlacesInv, FetchFirst
<1>4. \/ calls' = calls /\ queue' = queue
      \/ calls' = Append(calls, Deletion(j, "rejected")) /\ queue' = queue
      \/ calls' = calls /\ queue' = Append(queue, j)
  BY DEF Consume, StopConsuming, DropUnparsable, Enqueue, pqueue
<1> HIDE DEF j
<1>5. /\ j \in Line /\ j # NoJob /\ j \notin JobsIn(calls) /\ j \notin ToSet(waiting)
      /\ j \notin ToSet(queue) /\ j # running /\ j \in db
  BY <1>2, JobsArePositive DEF PlacesInv, Placed, Stored, Line, NoJob
<1>6. CASE calls' = calls /\ queue' = queue
  <2>1. Placed' /\ Stored'
    BY <1>1, <1>2, <1>6 DEF PlacesInv, Placed, Stored, Line
  <2>2. FetchFirst' /\ SettledIsGone'
    BY <1>1, <1>3, <1>6 DEF PlacesInv, FetchFirst, SettledIsGone, Settled
  <2>3. QED
    BY <2>1, <2>2 DEF PlacesInv
<1>7. CASE calls' = Append(calls, Deletion(j, "rejected")) /\ queue' = queue
  <2>1. calls \in Seq(Calls) /\ DistinctJobs(calls)
    BY DEF TypeOK, PlacesInv, Placed
  <2>2. /\ WritesIn(calls') = WritesIn(calls) /\ FetchesIn(calls') = FetchesIn(calls)
        /\ JobsIn(calls') = JobsIn(calls) \cup {j}
        /\ DistinctJobs(calls')
    BY <1>2, <1>5, <1>7, <2>1, Deletions
  <2>3. Placed'
    BY <1>1, <1>2, <1>5, <1>7, <2>2 DEF PlacesInv, Placed, Line
  <2>4. Stored'
    BY <1>1, <1>2, <1>5, <1>7, <2>2 DEF PlacesInv, Stored, Line
  <2>5. FetchFirst' /\ SettledIsGone'
    BY <1>1, <1>3, <1>7, <2>2 DEF PlacesInv, FetchFirst, SettledIsGone, Settled
  <2>6. QED
    BY <2>3, <2>4, <2>5 DEF PlacesInv
<1>8. CASE calls' = calls /\ queue' = Append(queue, j)
  <2>1. ToSet(queue') = ToSet(queue) \cup {j} /\ IsInjective(queue')
    BY <1>2, <1>5, <1>8, Pushed DEF TypeOK, PlacesInv, Placed
  <2>2. Placed'
    BY <1>1, <1>2, <1>5, <1>8, <2>1 DEF PlacesInv, Placed, Line
  <2>3. Stored'
    BY <1>1, <1>2, <1>5, <1>8, <2>1 DEF PlacesInv, Stored, Line
  <2>4. FetchFirst' /\ SettledIsGone'
    BY <1>1, <1>3, <1>8 DEF PlacesInv, FetchFirst, SettledIsGone, Settled
  <2>5. QED
    BY <2>2, <2>3, <2>4 DEF PlacesInv
<1>9. QED
  BY <1>4, <1>6, <1>7, <1>8

\* The job at the head of the PQueue is started, or returns early.
LEMMA PlacesDequeue ==
    ASSUME TypeOK, PlacesInv, StartJob \/ ReturnEarly
    PROVE  PlacesInv'
<1> DEFINE j == Head(queue)
<1>1. /\ queue # <<>> /\ queue' = Tail(queue) /\ running = NoJob
      /\ UNCHANGED <<db, calls, started, fetched, waiting, stream, shuttingDown, created>>
  BY DEF StartJob, ReturnEarly, source, consumer, limits
<1>2. /\ j \in Jobs /\ ToSet(queue) = {j} \cup ToSet(queue') /\ j \notin ToSet(queue')
      /\ IsInjective(queue')
  <2>1. queue \in Seq(Jobs) /\ IsInjective(queue)
    BY DEF TypeOK, PlacesInv, Placed
  <2>2. QED
    BY <1>1, <2>1, Popped
<1>3. fetched /\ started
  BY <1>1 DEF PlacesInv, FetchFirst
<1>4. running' \in {NoJob, j}
  BY <1>1 DEF StartJob, ReturnEarly
<1>5. \A i \in Jobs : \/ completion'[i] = completion[i]
                      \/ completion'[i] = "rejected" /\ shuttingDown
  <2>1. CASE StartJob
    BY <2>1 DEF StartJob
  <2>2. CASE ReturnEarly
    BY <1>2, <2>2, SettleFacts DEF ReturnEarly
  <2>3. QED
    BY <2>1, <2>2
<1> HIDE DEF j
<1>6. /\ j \in Line /\ j # NoJob /\ j \notin JobsIn(calls) /\ j \notin ToSet(waiting)
      /\ j \notin ToSet(stream) /\ j \in db
  BY <1>2, JobsArePositive DEF PlacesInv, Placed, Stored, Line, NoJob
<1>7. NoJob \notin ToSet(waiting) \cup Line
  BY Elements DEF Line
<1>8. Placed'
  BY <1>1, <1>2, <1>4, <1>6, <1>7 DEF PlacesInv, Placed, Line
<1>9. Stored'
  BY <1>1, <1>2, <1>4, <1>6 DEF PlacesInv, Stored, Line
<1>10. FetchFirst'
  BY <1>1, <1>3 DEF PlacesInv, FetchFirst
<1>11. SettledIsGone'
  BY <1>1, <1>5 DEF PlacesInv, SettledIsGone, Settled
<1>12. QED
  BY <1>8, <1>9, <1>10, <1>11 DEF PlacesInv

\* The running job ends, stays for another attempt, or is abandoned.
LEMMA PlacesRunEnds ==
    ASSUME TypeOK, PlacesInv, RunEnds
    PROVE  PlacesInv'
<1>1. /\ running \in Jobs /\ running # NoJob
      /\ UNCHANGED <<db, started, fetched, waiting, stream, queue, shuttingDown, created>>
  BY DEF RunEnds, RunResolves, RunRejects, source, consumer, limits, TypeOK
<1>2. /\ fetched /\ started /\ running \in db /\ calls \in Seq(Calls) /\ DistinctJobs(calls)
      /\ running \notin JobsIn(calls) \cup ToSet(waiting) \cup Line
  BY <1>1 DEF PlacesInv, Placed, Stored, FetchFirst, TypeOK
<1>3. NoJob \notin ToSet(waiting) \cup Line
  BY Elements DEF Line
<1>4. \/ \E settle \in {"resolved", "rejected"} : EndJob(settle)
      \/ shuttingDown /\ AbandonJob
      \/ UNCHANGED <<running, calls, completion>>
  BY DEF RunEnds, RunResolves, RunRejects
<1>5. ASSUME NEW settle \in {"resolved", "rejected"}, EndJob(settle)
      PROVE  PlacesInv'
  <2>1. /\ running' = NoJob /\ calls' = Append(calls, Deletion(running, settle))
        /\ completion' = completion
    BY <1>5 DEF EndJob
  <2>2. /\ WritesIn(calls') = WritesIn(calls) /\ FetchesIn(calls') = FetchesIn(calls)
        /\ JobsIn(calls') = JobsIn(calls) \cup {running}
        /\ DistinctJobs(calls')
    BY <1>1, <1>2, <2>1, Deletions
  <2>3. Placed'
    BY <1>1, <1>2, <1>3, <2>1, <2>2 DEF PlacesInv, Placed, Line
  <2>4. Stored'
    BY <1>1, <1>2, <2>1, <2>2 DEF PlacesInv, Stored, Line
  <2>5. FetchFirst' /\ SettledIsGone'
    BY <1>1, <1>2, <2>1, <2>2 DEF PlacesInv, FetchFirst, SettledIsGone, Settled
  <2>6. QED
    BY <2>3, <2>4, <2>5 DEF PlacesInv
<1>6. CASE shuttingDown /\ AbandonJob
  <2>1. running' = NoJob /\ calls' = calls
    BY <1>6 DEF AbandonJob
  <2>2. \A i \in Jobs : completion'[i] = completion[i] \/ completion'[i] = "rejected"
    BY <1>1, <1>6, SettleFacts DEF AbandonJob
  <2>3. Placed' /\ Stored'
    BY <1>1, <1>3, <2>1 DEF PlacesInv, Placed, Stored, Line
  <2>4. FetchFirst' /\ SettledIsGone'
    BY <1>1, <1>2, <1>6, <2>1, <2>2 DEF PlacesInv, FetchFirst, SettledIsGone, Settled
  <2>5. QED
    BY <2>3, <2>4 DEF PlacesInv
<1>7. CASE UNCHANGED <<running, calls, completion>>
  BY <1>1, <1>7 DEF PlacesInv, Placed, Stored, FetchFirst, SettledIsGone, Settled, Line
<1>8. QED
  BY <1>4, <1>5, <1>6, <1>7

\* A crash or a quit keeps the rows and forgets the rest.
LEMMA PlacesRestart ==
    ASSUME TypeOK, PlacesInv, NEW n \in 0 .. Len(calls), Restart(n)
    PROVE  PlacesInv'
<1>1. /\ calls' = <<>> /\ ~started' /\ ~fetched' /\ waiting' = <<>> /\ stream' = <<>>
      /\ queue' = <<>> /\ running' = NoJob /\ completion' = [j \in Jobs |-> "none"]
      /\ created' = created /\ db' \subseteq db \cup Written(n)
  BY DEF Restart
<1>2. Written(n) \subseteq 0 .. created
  BY ExecutedCalls, Elements DEF PlacesInv, Stored
<1>3. Placed'
  BY <1>1, NothingInEmpty DEF Placed, Line
<1>4. Stored'
  BY <1>1, <1>2, NothingInEmpty DEF PlacesInv, Stored, Line
<1>5. FetchFirst'
  BY <1>1, NothingInEmpty DEF FetchFirst
<1>6. SettledIsGone'
  BY <1>1 DEF SettledIsGone, Settled
<1>7. QED
  BY <1>3, <1>4, <1>5, <1>6 DEF PlacesInv

\* Every step keeps PlacesInv.
LEMMA PlacesStep ==
    ASSUME TypeOK, PlacesInv, [Next]_vars
    PROVE  PlacesInv'
<1>1. CASE Shutdown
  BY <1>1 DEF Shutdown, source, consumer, pqueue, limits, PlacesInv, Placed, Stored,
              FetchFirst, SettledIsGone, Settled, Line
<1>2. CASE UNCHANGED vars
  BY <1>2 DEF vars, source, consumer, pqueue, limits, PlacesInv, Placed, Stored,
              FetchFirst, SettledIsGone, Settled, Line
<1>3. CASE Crash \/ Quit
  <2>1. Len(calls) \in 0 .. Len(calls)
    BY DEF TypeOK
  <2>2. PICK n \in 0 .. Len(calls) : Restart(n)
    BY <1>3, <2>1 DEF Crash, Quit
  <2>3. QED
    BY <2>2, PlacesRestart
<1>4. QED
  BY <1>1, <1>2, <1>3, PlacesStreamJobs, PlacesAdd, PlacesFetchAnswered, PlacesInsertAnswered,
     PlacesDeleteAnswered, PlacesCallFails, PlacesConsume, PlacesDequeue, PlacesRunEnds
     DEF Next, DbAnswers

\* Where each job is: in one place at most, stored whenever it is in the stream, in the
\* PQueue or running, and gone from the table once its completion settled.
THEOREM PlacesInvariant == Spec => []PlacesInv
<1>1. Init => PlacesInv
  BY NothingInEmpty DEF Init, PlacesInv, Placed, Stored, FetchFirst, SettledIsGone, Settled, Line
<1>2. TypeOK /\ PlacesInv /\ [Next]_vars => PlacesInv'
  BY PlacesStep
<1>3. QED
  BY <1>1, <1>2, TypeCorrect, PTL DEF Spec

\* Within a process a job awaits the fetch, or is in a call, in the stream, in the PQueue,
\* or running, and there once: no row that was fetched is also delivered by the add that
\* wrote it, and no job runs twice at once.
THEOREM OneCopy == Spec => []OneCopyOfEachJob
<1>1. TypeOK /\ PlacesInv => OneCopyOfEachJob
  <2> SUFFICES ASSUME TypeOK, PlacesInv
               PROVE  OneCopyOfEachJob
    OBVIOUS
  <2>1. ToSet(Ahead) = Line /\ IsInjective(Ahead)
    BY ConcatElements DEF Ahead, Line, TypeOK, PlacesInv, Placed
  <2>2. Len(calls) \in Nat /\ DOMAIN calls = 1 .. Len(calls)
    BY DEF TypeOK
  <2>3. InFlight = JobsIn(calls) \ {NoJob}
    BY <2>2 DEF InFlight, JobsIn
  <2>4. IsInjective([i \in DOMAIN calls |-> calls[i].job])
    BY <2>2 DEF IsInjective, PlacesInv, Placed, DistinctJobs
  <2>5. QED
    BY <2>1, <2>3, <2>4 DEF OneCopyOfEachJob, PlacesInv, Placed
<1>2. QED
  BY <1>1, TypeCorrect, PlacesInvariant, PTL

\* What is in the stream, in the PQueue or running has its row in the jobs table, so a
\* crash at any moment leaves it to the next process.
THEOREM WorkHasItsRow == Spec => []WorkIsStored
<1>1. TypeOK /\ PlacesInv => WorkIsStored
  <2> SUFFICES ASSUME TypeOK, PlacesInv
               PROVE  WorkIsStored
    OBVIOUS
  <2>1. ToSet(Ahead) = Line
    BY ConcatElements DEF Ahead, Line, TypeOK
  <2>2. QED
    BY <2>1 DEF WorkIsStored, PlacesInv, Stored
<1>2. QED
  BY <1>1, TypeCorrect, PlacesInvariant, PTL

\* A completion settles only once the row of its job is gone for good, unless shutdown
\* rejected it: the caller who awaits it never sees a job done that can run again.
THEOREM SettledAfterDelete == Spec => []SettlesAfterDelete
<1>1. PlacesInv => SettlesAfterDelete
  BY DEF PlacesInv, SettledIsGone, Settled, SettlesAfterDelete
<1>2. QED
  BY <1>1, PlacesInvariant, PTL

-------------------------------------------------------------------------------
(* The order of the jobs that are added the same way. *)

\* The jobs of a sequence, and those of the calls that write rows, are in order; all jobs
\* of one set come before all of another.
Ordered(s) == \A m, n \in 1 .. Len(s) : m < n /\ SameWay(s[m], s[n]) => s[m] < s[n]
Writes(c) == c.op \in {"save", "insert"}
OrderedCalls(s) ==
    \A m, n \in 1 .. Len(s) :
        m < n /\ Writes(s[m]) /\ Writes(s[n]) /\ SameWay(s[m].job, s[n].job) => s[m].job < s[n].job
Before(A, B) == \A i \in A, j \in B : SameWay(i, j) => i < j

\* A job goes on from waiting to the calls, the stream, the PQueue and its run, and nobody
\* overtakes another.  A job does not enter the calls before those that wait: while the
\* fetch is on its way those are never Custom, and afterwards there are none.  The rows
\* that the fetch will return are older than what this process has yet to write.
AtWork == {running} \ {NoJob}
OrderInv ==
    /\ Ordered(queue) /\ Ordered(stream) /\ Ordered(waiting) /\ OrderedCalls(calls)
    /\ Before(AtWork, ToSet(queue) \cup ToSet(stream) \cup WritesIn(calls) \cup ToSet(waiting))
    /\ Before(ToSet(queue), ToSet(stream) \cup WritesIn(calls) \cup ToSet(waiting))
    /\ Before(ToSet(stream), WritesIn(calls) \cup ToSet(waiting))
    /\ Before(WritesIn(calls), ToSet(waiting))
    /\ ToSet(waiting) \cap Custom = {}
    /\ fetched => waiting = <<>>
    /\ ~fetched => Before(db, WritesIn(calls) \cup ToSet(waiting))

LEMMA BeforeFacts ==
    ASSUME NEW A, NEW B, NEW C, NEW D, Before(A, B), C \subseteq A, D \subseteq B
    PROVE  Before(C, D)
BY DEF Before

LEMMA BeforeUnion ==
    ASSUME NEW A, NEW B, NEW C
    PROVE  /\ Before(A \cup B, C) <=> Before(A, C) /\ Before(B, C)
           /\ Before(C, A \cup B) <=> Before(C, A) /\ Before(C, B)
           /\ Before({}, C) /\ Before(C, {})
BY DEF Before

LEMMA OrderedAppend ==
    ASSUME NEW s \in Seq(Jobs), NEW j \in Jobs, Ordered(s), Before(ToSet(s), {j})
    PROVE  Ordered(Append(s, j))
<1> DEFINE t == Append(s, j)
<1>1. /\ Len(s) \in Nat /\ DOMAIN s = 1 .. Len(s) /\ Len(t) = Len(s) + 1
      /\ \A i \in 1 .. Len(s) : t[i] = s[i]
      /\ t[Len(s) + 1] = j
  BY AppendFacts
<1> HIDE DEF t
<1>2. SUFFICES ASSUME NEW m \in 1 .. Len(t), NEW n \in 1 .. Len(t), m < n, SameWay(t[m], t[n])
               PROVE  t[m] < t[n]
  BY DEF Ordered, t
<1>3. m \in 1 .. Len(s) /\ t[m] = s[m] /\ s[m] \in ToSet(s)
  BY <1>1, <1>2 DEF ToSet
<1>4. CASE n \in 1 .. Len(s)
  BY <1>1, <1>2, <1>3, <1>4 DEF Ordered
<1>5. CASE n = Len(s) + 1
  BY <1>1, <1>2, <1>3, <1>5 DEF Before
<1>6. QED
  BY <1>1, <1>4, <1>5

LEMMA OrderedTail ==
    ASSUME NEW s \in Seq(Jobs), s # <<>>, Ordered(s)
    PROVE  Ordered(Tail(s)) /\ Before({Head(s)}, ToSet(Tail(s)))
<1> DEFINE t == Tail(s)
<1>1. /\ Len(s) \in Nat /\ Len(s) >= 1 /\ Len(t) = Len(s) - 1 /\ DOMAIN t = 1 .. Len(t)
      /\ Head(s) = s[1]
      /\ \A i \in 1 .. Len(s) - 1 : t[i] = s[i + 1]
  BY TailFacts
<1> HIDE DEF t
<1>2. ASSUME NEW n \in 1 .. Len(t)
      PROVE  n + 1 \in 1 .. Len(s) /\ t[n] = s[n + 1] /\ 1 \in 1 .. Len(s) /\ 1 < n + 1
  BY <1>1, <1>2
<1>3. ASSUME NEW m \in 1 .. Len(t), NEW n \in 1 .. Len(t), m < n, SameWay(t[m], t[n])
      PROVE  t[m] < t[n]
  <2>1. m + 1 < n + 1
    BY <1>3
  <2>2. QED
    BY <1>2, <1>3, <2>1 DEF Ordered
<1>4. ASSUME NEW n \in 1 .. Len(t), SameWay(Head(s), t[n])
      PROVE  Head(s) < t[n]
  BY <1>1, <1>2, <1>4 DEF Ordered
<1>5. Ordered(t)
  BY <1>3 DEF Ordered
<1>6. Before({Head(s)}, ToSet(t))
  BY <1>1, <1>4 DEF Before, ToSet
<1>7. QED
  BY <1>5, <1>6 DEF t

LEMMA OrderedConcat ==
    ASSUME NEW s \in Seq(Jobs), NEW t \in Seq(Jobs), Ordered(s), Ordered(t), Before(ToSet(s), ToSet(t))
    PROVE  Ordered(s \o t)
<1> DEFINE u == s \o t
<1>1. /\ Len(s) \in Nat /\ Len(t) \in Nat /\ DOMAIN s = 1 .. Len(s) /\ DOMAIN t = 1 .. Len(t)
      /\ Len(u) = Len(s) + Len(t)
      /\ \A i \in 1 .. Len(s) : u[i] = s[i]
      /\ \A i \in 1 .. Len(t) : u[Len(s) + i] = t[i]
      /\ \A i \in 1 .. Len(s) + Len(t) :
            i \in 1 .. Len(s) \/ (\E k \in 1 .. Len(t) : i = Len(s) + k)
  BY ConcatFacts
<1> HIDE DEF u
<1>2. SUFFICES ASSUME NEW m \in 1 .. Len(u), NEW n \in 1 .. Len(u), m < n, SameWay(u[m], u[n])
               PROVE  u[m] < u[n]
  BY DEF Ordered, u
<1>3. CASE n \in 1 .. Len(s)
  <2>1. m \in 1 .. Len(s)
    BY <1>1, <1>2, <1>3
  <2>2. QED
    BY <1>1, <1>2, <1>3, <2>1 DEF Ordered
<1>4. ASSUME NEW k \in 1 .. Len(t), n = Len(s) + k
      PROVE  u[m] < u[n]
  <2>1. u[n] = t[k] /\ t[k] \in ToSet(t)
    BY <1>1, <1>4 DEF ToSet
  <2>2. CASE m \in 1 .. Len(s)
    <3>1. u[m] = s[m] /\ s[m] \in ToSet(s)
      BY <1>1, <2>2 DEF ToSet
    <3>2. QED
      BY <1>2, <2>1, <3>1 DEF Before
  <2>3. ASSUME NEW l \in 1 .. Len(t), m = Len(s) + l
        PROVE  u[m] < u[n]
    <3>1. u[m] = t[l] /\ l < k
      BY <1>1, <1>2, <1>4, <2>3
    <3>2. QED
      BY <1>2, <2>1, <3>1 DEF Ordered
  <2>4. QED
    BY <1>1, <2>2, <2>3
<1>5. QED
  BY <1>1, <1>3, <1>4

\* The same for calls.
LEMMA OrderedCallsAppend ==
    ASSUME NEW s \in Seq(Calls), NEW c \in Calls, OrderedCalls(s),
           Writes(c) => Before(WritesIn(s), {c.job})
    PROVE  OrderedCalls(Append(s, c))
<1> DEFINE t == Append(s, c)
<1>1. /\ Len(s) \in Nat /\ DOMAIN s = 1 .. Len(s) /\ Len(t) = Len(s) + 1
      /\ \A i \in 1 .. Len(s) : t[i] = s[i]
      /\ t[Len(s) + 1] = c
  BY AppendFacts
<1> HIDE DEF t
<1>2. SUFFICES ASSUME NEW m \in 1 .. Len(t), NEW n \in 1 .. Len(t), m < n,
                      Writes(t[m]), Writes(t[n]), SameWay(t[m].job, t[n].job)
               PROVE  t[m].job < t[n].job
  BY DEF OrderedCalls, t
<1>3. m \in 1 .. Len(s) /\ t[m] = s[m] /\ s[m].job \in WritesIn(s)
  BY <1>1, <1>2 DEF WritesIn, Writes
<1>4. CASE n \in 1 .. Len(s)
  BY <1>1, <1>2, <1>3, <1>4 DEF OrderedCalls
<1>5. CASE n = Len(s) + 1
  BY <1>1, <1>2, <1>3, <1>5 DEF Before
<1>6. QED
  BY <1>1, <1>4, <1>5

LEMMA OrderedCallsTail ==
    ASSUME NEW s \in Seq(Calls), s # <<>>, OrderedCalls(s)
    PROVE  /\ OrderedCalls(Tail(s))
           /\ Writes(Head(s)) => Before({Head(s).job}, WritesIn(Tail(s)))
<1> DEFINE t == Tail(s)
<1>1. /\ Len(s) \in Nat /\ Len(s) >= 1 /\ Len(t) = Len(s) - 1
      /\ Head(s) = s[1]
      /\ \A i \in 1 .. Len(s) - 1 : t[i] = s[i + 1]
  BY TailFacts
<1> HIDE DEF t
<1>2. ASSUME NEW n \in 1 .. Len(t)
      PROVE  n + 1 \in 1 .. Len(s) /\ t[n] = s[n + 1] /\ 1 \in 1 .. Len(s) /\ 1 < n + 1
  BY <1>1, <1>2
<1>3. ASSUME NEW m \in 1 .. Len(t), NEW n \in 1 .. Len(t), m < n,
             Writes(t[m]), Writes(t[n]), SameWay(t[m].job, t[n].job)
      PROVE  t[m].job < t[n].job
  <2>1. m + 1 < n + 1
    BY <1>3
  <2>2. QED
    BY <1>2, <1>3, <2>1 DEF OrderedCalls
<1>4. ASSUME NEW n \in 1 .. Len(t), Writes(Head(s)), Writes(t[n]), SameWay(Head(s).job, t[n].job)
      PROVE  Head(s).job < t[n].job
  BY <1>1, <1>2, <1>4 DEF OrderedCalls
<1>5. OrderedCalls(t)
  BY <1>3 DEF OrderedCalls
<1>6. Writes(Head(s)) => Before({Head(s).job}, WritesIn(t))
  BY <1>4 DEF Before, WritesIn, Writes
<1>7. QED
  BY <1>5, <1>6 DEF t

LEMMA OrderedCallsInserts ==
    ASSUME NEW s \in Seq(Calls), NEW w \in Seq(Jobs), OrderedCalls(s), Ordered(w),
           Before(WritesIn(s), ToSet(w))
    PROVE  OrderedCalls(s \o Inserts(w))
<1> DEFINE v == Inserts(w)
           u == s \o v
<1>1. /\ v \in Seq(Calls) /\ DOMAIN w = 1 .. Len(w) /\ Len(v) = Len(w)
      /\ \A i \in 1 .. Len(w) : v[i].job = w[i]
  <2>1. v \in Seq(Calls)
    BY InsertionsType DEF Inserts
  <2>2. DOMAIN w = 1 .. Len(w) /\ Len(w) \in Nat
    OBVIOUS
  <2>3. Len(v) = Len(w)
    BY <2>2 DEF Inserts
  <2>4. QED
    BY <2>1, <2>2, <2>3 DEF Inserts, Insertion
<1> HIDE DEF v
<1>2. /\ Len(s) \in Nat /\ Len(v) \in Nat
      /\ Len(u) = Len(s) + Len(v)
      /\ \A i \in 1 .. Len(s) : u[i] = s[i]
      /\ \A i \in 1 .. Len(v) : u[Len(s) + i] = v[i]
      /\ \A i \in 1 .. Len(s) + Len(v) :
            i \in 1 .. Len(s) \/ (\E k \in 1 .. Len(v) : i = Len(s) + k)
  <2>1. v \in Seq(Calls)
    BY <1>1
  <2>2. QED
    BY <2>1, ConcatFacts
<1> HIDE DEF u
<1>3. SUFFICES ASSUME NEW m \in 1 .. Len(u), NEW n \in 1 .. Len(u), m < n,
                      Writes(u[m]), Writes(u[n]), SameWay(u[m].job, u[n].job)
               PROVE  u[m].job < u[n].job
  BY DEF OrderedCalls, u, v
<1>4. CASE n \in 1 .. Len(s)
  <2>1. m \in 1 .. Len(s)
    BY <1>2, <1>3, <1>4
  <2>2. QED
    BY <1>2, <1>3, <1>4, <2>1 DEF OrderedCalls
<1>5. ASSUME NEW k \in 1 .. Len(v), n = Len(s) + k
      PROVE  u[m].job < u[n].job
  <2>1. u[n].job = w[k] /\ w[k] \in ToSet(w)
    BY <1>1, <1>2, <1>5 DEF ToSet
  <2>2. CASE m \in 1 .. Len(s)
    <3>1. u[m].job \in WritesIn(s)
      BY <1>2, <1>3, <2>2 DEF WritesIn, Writes
    <3>2. QED
      BY <1>3, <2>1, <3>1 DEF Before
  <2>3. ASSUME NEW l \in 1 .. Len(v), m = Len(s) + l
        PROVE  u[m].job < u[n].job
    <3>1. u[m].job = w[l] /\ l < k
      BY <1>1, <1>2, <1>3, <1>5, <2>3
    <3>2. QED
      BY <1>1, <1>3, <2>1, <3>1 DEF Ordered
  <2>4. QED
    BY <1>2, <2>2, <2>3
<1>6. QED
  BY <1>2, <1>4, <1>5

\* The rows of the fetch, oldest first, are in order.
LEMMA OrderedListing ==
    ASSUME NEW rows \in SUBSET Jobs, NEW f \in Listings(rows), OldestFirst(f)
    PROVE  Ordered(f)
<1>1. f \in Seq(Jobs)
  BY ListingType
<1>2. DOMAIN f = 1 .. Len(f)
  BY <1>1
<1>3. QED
  BY <1>2 DEF Ordered, OldestFirst

\* All jobs are at most `created'.
LEMMA CreatedBounds ==
    ASSUME TypeOK, PlacesInv
    PROVE  /\ created \in Nat
           /\ ToSet(queue) \cup ToSet(stream) \cup WritesIn(calls) \cup ToSet(waiting) \cup db \cup AtWork
                \subseteq 0 .. created
<1>1. created \in Nat
  BY NumJobsAssumption DEF TypeOK
<1>2. WritesIn(calls) \subseteq JobsIn(calls)
  BY Elements
<1>3. 0 \in 0 .. created
  BY <1>1
<1>4. QED
  BY <1>1, <1>2, <1>3 DEF PlacesInv, Stored, Line, AtWork, NoJob

LEMMA OrderAdd ==
    ASSUME TypeOK, PlacesInv, OrderInv, Add
    PROVE  OrderInv'
<1> DEFINE j == created + 1
           Q == ToSet(queue)
           S == ToSet(stream)
           W == WritesIn(calls)
           T == ToSet(waiting)
<1>1. /\ j \in Jobs /\ UNCHANGED <<queue, stream, running, fetched, db>>
      /\ \/ /\ j \in Custom
            /\ calls' = Append(calls, Insertion("save", j)) /\ waiting' = waiting
         \/ /\ j \notin Custom /\ fetched
            /\ calls' = Append(calls, Insertion("insert", j)) /\ waiting' = waiting
         \/ /\ j \notin Custom /\ ~fetched
            /\ calls' = calls /\ waiting' = Append(waiting, j)
  BY DEF Add, consumer, pqueue
<1>2. \A i \in Q \cup S \cup W \cup T \cup db \cup AtWork : i < j
  BY CreatedBounds
<1>3. calls \in Seq(Calls) /\ waiting \in Seq(Jobs)
  BY DEF TypeOK
<1> HIDE DEF j
<1>4. Before(Q \cup S \cup W \cup T \cup db \cup AtWork, {j})
  BY <1>2 DEF Before
<1>5. ASSUME NEW op \in {"save", "insert"}, calls' = Append(calls, Insertion(op, j)), waiting' = waiting,
             Before({j}, T)
      PROVE  OrderInv'
  <2>1. WritesIn(calls') = W \cup {j}
    BY <1>1, <1>3, <1>5, Insertions
  <2>2. OrderedCalls(calls')
    <3>1. Before(W, {j})
      BY <1>4, BeforeUnion
    <3>2. Insertion(op, j) \in Calls /\ Insertion(op, j).job = j
      BY <1>1, CallTypes DEF Insertion
    <3>3. QED
      BY <1>3, <1>5, <3>1, <3>2, OrderedCallsAppend DEF OrderInv
  <2> HIDE DEF Q, S, W, T
  <2>3. /\ Before(AtWork, Q \cup S \cup W \cup {j} \cup T)
        /\ Before(Q, S \cup W \cup {j} \cup T) /\ Before(S, W \cup {j} \cup T)
        /\ Before(W \cup {j}, T)
        /\ ~fetched => Before(db, W \cup {j} \cup T)
    BY <1>4, <1>5 DEF OrderInv, Before, Q, S, W, T
  <2>4. QED
    BY <1>1, <1>5, <2>1, <2>2, <2>3 DEF OrderInv, AtWork, Q, S, W, T
<1>6. ASSUME j \notin Custom, ~fetched, calls' = calls, waiting' = Append(waiting, j)
      PROVE  OrderInv'
  <2>1. ToSet(waiting') = T \cup {j}
    BY <1>1, <1>3, <1>6, AppendElements
  <2>2. Ordered(waiting')
    <3>1. Before(T, {j})
      BY <1>4, BeforeUnion
    <3>2. QED
      BY <1>1, <1>3, <1>6, <3>1, OrderedAppend DEF OrderInv
  <2>3. /\ Before(AtWork, Q \cup S \cup W \cup T \cup {j})
        /\ Before(Q, S \cup W \cup T \cup {j}) /\ Before(S, W \cup T \cup {j})
        /\ Before(W, T \cup {j})
        /\ Before(db, W \cup T \cup {j})
    BY <1>4, <1>6 DEF OrderInv, Before
  <2>4. QED
    BY <1>1, <1>6, <2>1, <2>2, <2>3 DEF OrderInv, AtWork
<1>7. CASE j \in Custom
  <2>1. Before({j}, T)
    BY <1>7 DEF OrderInv, Before, SameWay
  <2>2. QED
    BY <1>1, <1>5, <1>7, <2>1
<1>8. CASE j \notin Custom /\ fetched
  <2>1. Before({j}, T)
    BY <1>8, NothingInEmpty DEF OrderInv, Before
  <2>2. QED
    BY <1>1, <1>5, <1>8, <2>1
<1>9. QED
  BY <1>1, <1>6, <1>7, <1>8

LEMMA OrderFetchAnswered ==
    ASSUME TypeOK, PlacesInv, OrderInv, FetchAnswered
    PROVE  OrderInv'
<1>1. calls \in Seq(Calls) /\ waiting \in Seq(Jobs) /\ calls # <<>> /\ Head(calls).op = "fetch"
  BY DEF FetchAnswered, TypeOK
<1>2. ~fetched /\ queue = <<>> /\ stream = <<>> /\ running = NoJob
  <2>1. 1 \in FetchesIn(calls)
    BY <1>1, HeadCall
  <2>2. QED
    BY <2>1 DEF PlacesInv, FetchFirst
<1>3. PICK rows \in Listings(db) : OldestFirst(rows) /\ stream' = rows \o stream
  BY DEF FetchAnswered
<1>4. stream' = rows /\ Ordered(rows) /\ ToSet(rows) \subseteq db
  <2>1. rows \in Seq(Jobs) /\ db \in SUBSET Jobs
    BY <1>3, ListingType DEF TypeOK
  <2>2. QED
    BY <1>2, <1>3, <2>1, OrderedListing, ListingFacts
<1>5. /\ Tail(calls) \in Seq(Calls) /\ OrderedCalls(Tail(calls))
      /\ WritesIn(Tail(calls)) \subseteq WritesIn(calls)
  <2>1. Tail(calls) \in Seq(Calls)
    BY <1>1, SeqTypes
  <2>2. WritesIn(Tail(calls)) \subseteq WritesIn(calls)
    BY <1>1, CallsTail
  <2>3. OrderedCalls(Tail(calls))
    BY <1>1, OrderedCallsTail DEF OrderInv
  <2>4. QED
    BY <2>1, <2>2, <2>3
<1>6. /\ calls' = Tail(calls) \o Inserts(waiting) /\ waiting' = <<>> /\ fetched'
      /\ UNCHANGED <<queue, running>>
  BY DEF FetchAnswered, Inserts, pqueue
<1>7. /\ WritesIn(calls') = WritesIn(Tail(calls)) \cup ToSet(waiting)
      /\ OrderedCalls(calls')
  <2>1. Before(WritesIn(Tail(calls)), ToSet(waiting))
    BY <1>5 DEF OrderInv, Before
  <2>2. QED
    BY <1>1, <1>5, <1>6, <2>1, CallsInserts, OrderedCallsInserts DEF OrderInv
<1>8. AtWork' = {} /\ ToSet(queue') = {} /\ ToSet(waiting') = {} /\ Ordered(waiting') /\ Ordered(queue')
  BY <1>2, <1>6, NothingInEmpty DEF AtWork, Ordered
<1>9. Before(ToSet(rows), WritesIn(calls'))
  BY <1>2, <1>4, <1>5, <1>7 DEF OrderInv, Before
<1>10. QED
  BY <1>4, <1>6, <1>7, <1>8, <1>9 DEF OrderInv, Before

LEMMA OrderInsertAnswered ==
    ASSUME TypeOK, PlacesInv, OrderInv, InsertAnswered
    PROVE  OrderInv'
<1> DEFINE j == Head(calls).job
<1>1. /\ calls \in Seq(Calls) /\ calls # <<>> /\ Writes(Head(calls))
      /\ stream \in Seq(Jobs) /\ calls' = Tail(calls)
      /\ UNCHANGED <<queue, running, waiting, fetched>>
  BY DEF InsertAnswered, TypeOK, Writes, source, pqueue
<1>2. j \in WritesIn(calls) \cap Jobs
  BY <1>1, HeadCall DEF Writes
<1>3. OrderedCalls(calls') /\ Before({j}, WritesIn(calls')) /\ WritesIn(calls') \subseteq WritesIn(calls)
  BY <1>1, OrderedCallsTail, CallsTail DEF OrderInv
<1>4. CASE fetched
  <2>1. stream' = Append(stream, j)
    BY <1>4 DEF InsertAnswered
  <2> HIDE DEF j
  <2>2. ToSet(stream') = ToSet(stream) \cup {j}
    BY <1>1, <1>2, <2>1, AppendElements
  <2>3. Ordered(stream')
    <3>1. Before(ToSet(stream), {j})
      BY <1>2 DEF OrderInv, Before
    <3>2. QED
      BY <1>1, <1>2, <2>1, <3>1, OrderedAppend DEF OrderInv
  <2>4. /\ Before(AtWork, ToSet(queue) \cup ToSet(stream) \cup {j} \cup WritesIn(calls') \cup ToSet(waiting))
        /\ Before(ToSet(queue), ToSet(stream) \cup {j} \cup WritesIn(calls') \cup ToSet(waiting))
        /\ Before(ToSet(stream) \cup {j}, WritesIn(calls') \cup ToSet(waiting))
        /\ Before(WritesIn(calls'), ToSet(waiting))
    BY <1>2, <1>3 DEF OrderInv, Before
  <2>5. QED
    BY <1>1, <1>3, <1>4, <2>2, <2>3, <2>4 DEF OrderInv, AtWork
<1>5. CASE ~fetched
  <2>1. UNCHANGED stream /\ db' = db \cup {j}
    BY <1>5 DEF InsertAnswered
  <2> HIDE DEF j
  <2>2. /\ Before(AtWork, ToSet(queue) \cup ToSet(stream) \cup WritesIn(calls') \cup ToSet(waiting))
        /\ Before(ToSet(queue), ToSet(stream) \cup WritesIn(calls') \cup ToSet(waiting))
        /\ Before(ToSet(stream), WritesIn(calls') \cup ToSet(waiting))
        /\ Before(WritesIn(calls'), ToSet(waiting))
        /\ Before(db \cup {j}, WritesIn(calls') \cup ToSet(waiting))
    BY <1>2, <1>3, <1>5 DEF OrderInv, Before
  <2>3. QED
    BY <1>1, <1>3, <1>5, <2>1, <2>2 DEF OrderInv, AtWork
<1>6. QED
  BY <1>4, <1>5

\* Jobs that leave a place, or go no further than its end, overtake nobody.
LEMMA OrderShrinks ==
    ASSUME OrderInv,
           Ordered(queue)', Ordered(stream)', OrderedCalls(calls)',
           AtWork' \subseteq AtWork, ToSet(queue)' \subseteq ToSet(queue),
           ToSet(stream)' \subseteq ToSet(stream), WritesIn(calls)' \subseteq WritesIn(calls),
           db' \subseteq db, UNCHANGED <<waiting, fetched>>
    PROVE  OrderInv'
<1> DEFINE Q == ToSet(queue)
           S == ToSet(stream)
           W == WritesIn(calls)
           T == ToSet(waiting)
<1>1. /\ Before(AtWork, Q \cup S \cup W \cup T)
      /\ Before(Q, S \cup W \cup T) /\ Before(S, W \cup T) /\ Before(W, T)
      /\ ~fetched => Before(db, W \cup T)
  BY DEF OrderInv
<1>2. T' = T /\ Q' \subseteq Q /\ S' \subseteq S /\ W' \subseteq W
  OBVIOUS
<1> HIDE DEF Q, S, W, T
<1>3. Before(AtWork', Q' \cup S' \cup W' \cup T)
  BY <1>1, <1>2 DEF Before
<1>4. Before(Q', S' \cup W' \cup T) /\ Before(S', W' \cup T) /\ Before(W', T)
  BY <1>1, <1>2 DEF Before
<1>5. ~fetched => Before(db', W' \cup T)
  BY <1>1, <1>2 DEF Before
<1>6. QED
  BY <1>2, <1>3, <1>4, <1>5 DEF OrderInv, Q, S, W, T

LEMMA OrderCallAnswered ==
    ASSUME TypeOK, OrderInv, DeleteAnswered \/ CallFails
    PROVE  OrderInv'
<1>1. /\ calls \in Seq(Calls) /\ calls # <<>> /\ calls' = Tail(calls) /\ db' \subseteq db
      /\ UNCHANGED <<queue, stream, running, waiting, fetched>>
  BY DEF DeleteAnswered, CallFails, TypeOK, source, consumer, pqueue
<1>2. OrderedCalls(calls)' /\ WritesIn(calls)' \subseteq WritesIn(calls)
  <2>1. OrderedCalls(Tail(calls))
    BY <1>1, OrderedCallsTail DEF OrderInv
  <2>2. WritesIn(Tail(calls)) \subseteq WritesIn(calls)
    BY <1>1, CallsTail
  <2>3. QED
    BY <1>1, <2>1, <2>2
<1>3. Ordered(queue)' /\ Ordered(stream)' /\ AtWork' = AtWork
  BY <1>1 DEF OrderInv, AtWork
<1>4. QED
  BY <1>1, <1>2, <1>3, OrderShrinks

\* A delete joins the calls.
LEMMA OrderDeletion ==
    ASSUME TypeOK, OrderInv, NEW j \in Jobs, NEW settle \in {"resolved", "rejected"}
    PROVE  /\ OrderedCalls(Append(calls, Deletion(j, settle)))
           /\ WritesIn(Append(calls, Deletion(j, settle))) = WritesIn(calls)
<1> DEFINE c == Deletion(j, settle)
<1>1. c \in Calls /\ ~Writes(c) /\ calls \in Seq(Calls)
  BY CallTypes DEF TypeOK, Writes, Deletion
<1>2. WritesIn(Append(calls, c)) = WritesIn(calls)
  BY <1>1, Deletions
<1> HIDE DEF c
<1>3. OrderedCalls(Append(calls, c))
  BY <1>1, OrderedCallsAppend DEF OrderInv
<1>4. QED
  BY <1>2, <1>3 DEF c

LEMMA OrderConsume ==
    ASSUME TypeOK, OrderInv, Consume
    PROVE  OrderInv'
<1>1. /\ stream \in Seq(Jobs) /\ queue \in Seq(Jobs) /\ stream # <<>> /\ stream' = Tail(stream)
      /\ UNCHANGED <<running, waiting, fetched, db>>
  BY DEF Consume, StopConsuming, DropUnparsable, Enqueue, TypeOK, source, pqueue
<1>2. /\ Head(stream) \in Jobs /\ Ordered(Tail(stream)) /\ Before({Head(stream)}, ToSet(Tail(stream)))
      /\ ToSet(stream) = {Head(stream)} \cup ToSet(Tail(stream))
  <2>1. Ordered(Tail(stream)) /\ Before({Head(stream)}, ToSet(Tail(stream)))
    BY <1>1, OrderedTail DEF OrderInv
  <2>2. Head(stream) \in Jobs /\ ToSet(stream) = {Head(stream)} \cup ToSet(Tail(stream))
    BY <1>1, TailElements, SeqTypes
  <2>3. QED
    BY <2>1, <2>2
<1>3. CASE StopConsuming \/ DropUnparsable
  <2>1. OrderedCalls(calls)' /\ WritesIn(calls)' = WritesIn(calls)
    <3>1. CASE StopConsuming
      BY <3>1 DEF StopConsuming, OrderInv
    <3>2. CASE DropUnparsable
      BY <1>2, <3>2, OrderDeletion DEF DropUnparsable
    <3>3. QED
      BY <1>3, <3>1, <3>2
  <2>2. UNCHANGED queue
    BY <1>3 DEF StopConsuming, DropUnparsable, pqueue
  <2>3. Ordered(queue)' /\ Ordered(stream)' /\ AtWork' = AtWork /\ ToSet(stream)' \subseteq ToSet(stream)
    BY <1>1, <1>2, <2>2 DEF OrderInv, AtWork
  <2>4. QED
    BY <1>1, <2>1, <2>2, <2>3, OrderShrinks
<1>4. CASE Enqueue
  <2> DEFINE j == Head(stream)
             q == Append(queue, j)
  <2>1. queue' = q /\ UNCHANGED calls
    BY <1>4 DEF Enqueue
  <2>2. ToSet(q) = ToSet(queue) \cup {j}
    BY <1>1, <1>2, AppendElements
  <2>3. Ordered(q)
    <3>1. Before(ToSet(queue), {j})
      BY <1>2 DEF OrderInv, Before
    <3>2. QED
      BY <1>1, <1>2, <3>1, OrderedAppend DEF OrderInv
  <2> HIDE DEF j, q
  <2>4. /\ Before(AtWork, ToSet(queue) \cup {j} \cup ToSet(Tail(stream)) \cup WritesIn(calls) \cup ToSet(waiting))
        /\ Before(ToSet(queue) \cup {j}, ToSet(Tail(stream)) \cup WritesIn(calls) \cup ToSet(waiting))
        /\ Before(ToSet(Tail(stream)), WritesIn(calls) \cup ToSet(waiting))
    BY <1>2 DEF OrderInv, Before, j
  <2>5. QED
    BY <1>1, <1>2, <2>1, <2>2, <2>3, <2>4 DEF OrderInv, AtWork
<1>5. QED
  BY <1>3, <1>4 DEF Consume

LEMMA OrderDequeue ==
    ASSUME TypeOK, OrderInv, StartJob \/ ReturnEarly
    PROVE  OrderInv'
<1>1. /\ queue \in Seq(Jobs) /\ queue # <<>> /\ queue' = Tail(queue) /\ running = NoJob
      /\ running' \in {NoJob, Head(queue)}
      /\ UNCHANGED <<stream, calls, waiting, fetched, db>>
  BY DEF StartJob, ReturnEarly, TypeOK, source, consumer
<1>2. /\ Ordered(Tail(queue)) /\ Before({Head(queue)}, ToSet(Tail(queue)))
      /\ ToSet(queue) = {Head(queue)} \cup ToSet(Tail(queue))
  <2>1. Ordered(Tail(queue)) /\ Before({Head(queue)}, ToSet(Tail(queue)))
    BY <1>1, OrderedTail DEF OrderInv
  <2>2. ToSet(queue) = {Head(queue)} \cup ToSet(Tail(queue))
    BY <1>1, TailElements
  <2>3. QED
    BY <2>1, <2>2
<1>3. AtWork' \subseteq {Head(queue)}
  BY <1>1 DEF AtWork
<1>4. /\ Before(AtWork', ToSet(Tail(queue)) \cup ToSet(stream) \cup WritesIn(calls) \cup ToSet(waiting))
      /\ Before(ToSet(Tail(queue)), ToSet(stream) \cup WritesIn(calls) \cup ToSet(waiting))
  BY <1>2, <1>3 DEF OrderInv, Before
<1>5. QED
  BY <1>1, <1>2, <1>4 DEF OrderInv

LEMMA OrderRunEnds ==
    ASSUME TypeOK, OrderInv, RunEnds
    PROVE  OrderInv'
<1>1. /\ running \in Jobs /\ running' \in {NoJob, running}
      /\ UNCHANGED <<queue, stream, waiting, fetched, db>>
      /\ \/ calls' = calls
         \/ \E settle \in {"resolved", "rejected"} : calls' = Append(calls, Deletion(running, settle))
  BY DEF RunEnds, RunResolves, RunRejects, EndJob, AbandonJob, TypeOK, source, consumer
<1>2. OrderedCalls(calls)' /\ WritesIn(calls)' = WritesIn(calls)
  <2>1. CASE calls' = calls
    BY <2>1 DEF OrderInv
  <2>2. ASSUME NEW settle \in {"resolved", "rejected"},
               calls' = Append(calls, Deletion(running, settle))
        PROVE  OrderedCalls(calls)' /\ WritesIn(calls)' = WritesIn(calls)
    BY <1>1, <2>2, OrderDeletion
  <2>3. QED
    BY <1>1, <2>1, <2>2
<1>3. Ordered(queue)' /\ Ordered(stream)' /\ AtWork' \subseteq AtWork
  BY <1>1 DEF OrderInv, AtWork
<1>4. QED
  BY <1>1, <1>2, <1>3, OrderShrinks

LEMMA OrderStep ==
    ASSUME TypeOK, PlacesInv, OrderInv, [Next]_vars
    PROVE  OrderInv'
<1>1. CASE StreamJobs
  <2> DEFINE c == [op |-> "fetch", job |-> NoJob, settle |-> "none"]
  <2>1. c \in Calls /\ c.op = "fetch" /\ ~Writes(c) /\ calls \in Seq(Calls)
    BY CallTypes DEF TypeOK, Writes
  <2>2. calls' = Append(calls, c) /\ UNCHANGED <<queue, stream, running, waiting, fetched, db>>
    BY <1>1 DEF StreamJobs, consumer, pqueue
  <2> HIDE DEF c
  <2>3. WritesIn(calls)' = WritesIn(calls)
    BY <2>1, <2>2, CallsAppend
  <2>4. OrderedCalls(calls)'
    BY <2>1, <2>2, OrderedCallsAppend DEF OrderInv
  <2>5. Ordered(queue)' /\ Ordered(stream)' /\ AtWork' = AtWork
    BY <2>2 DEF OrderInv, AtWork
  <2>6. QED
    BY <2>2, <2>3, <2>4, <2>5, OrderShrinks
<1>2. ASSUME NEW n \in 0 .. Len(calls), Restart(n)
      PROVE  OrderInv'
  <2>1. /\ queue' = <<>> /\ stream' = <<>> /\ waiting' = <<>> /\ calls' = <<>> /\ running' = NoJob
    BY <1>2 DEF Restart
  <2>2. Ordered(<<>>) /\ OrderedCalls(<<>>)
    BY DEF Ordered, OrderedCalls
  <2>3. QED
    BY <2>1, <2>2, NothingInEmpty DEF OrderInv, Before, AtWork
<1>3. CASE Crash \/ Quit
  <2>1. Len(calls) \in 0 .. Len(calls)
    BY DEF TypeOK
  <2>2. PICK n \in 0 .. Len(calls) : Restart(n)
    BY <1>3, <2>1 DEF Crash, Quit
  <2>3. QED
    BY <1>2, <2>2
<1>4. CASE Shutdown \/ UNCHANGED vars
  <2>1. UNCHANGED <<queue, stream, running, calls, waiting, fetched, db>>
    BY <1>4 DEF Shutdown, vars, source, consumer, pqueue
  <2>2. QED
    BY <2>1 DEF OrderInv, AtWork
<1>5. QED
  BY <1>1, <1>3, <1>4, OrderAdd, OrderFetchAnswered, OrderInsertAnswered, OrderCallAnswered,
     OrderConsume, OrderDequeue, OrderRunEnds
     DEF Next, DbAnswers

\* Jobs that are added the same way run in the order they were created: neither the fetch
\* at the start, nor the adds that wait for it, nor a restart lets one overtake another.
THEOREM JobsRunInOrder == Spec => []RunInOrder
<1>1. Init => OrderInv
  <2>1. Ordered(<<>>) /\ OrderedCalls(<<>>)
    BY DEF Ordered, OrderedCalls
  <2>2. QED
    BY <2>1, NothingInEmpty DEF Init, OrderInv, Before, AtWork
<1>2. TypeOK /\ PlacesInv /\ OrderInv /\ [Next]_vars => OrderInv'
  BY OrderStep
<1>3. TypeOK /\ OrderInv => RunInOrder
  <2> SUFFICES ASSUME TypeOK, OrderInv PROVE RunInOrder
    OBVIOUS
  <2> DEFINE first == IF running = NoJob THEN <<>> ELSE <<running>>
             line == first \o Ahead
  <2>1. queue \in Seq(Jobs) /\ stream \in Seq(Jobs)
    BY DEF TypeOK
  <2>2. Ahead \in Seq(Jobs) /\ Ordered(Ahead) /\ ToSet(Ahead) = ToSet(queue) \cup ToSet(stream)
    <3>1. Before(ToSet(queue), ToSet(stream))
      BY DEF OrderInv, Before
    <3>2. Ordered(queue \o stream)
      BY <2>1, <3>1, OrderedConcat DEF OrderInv
    <3>3. ToSet(queue \o stream) = ToSet(queue) \cup ToSet(stream) /\ queue \o stream \in Seq(Jobs)
      BY <2>1, ConcatElements, ConcatFacts
    <3>4. QED
      BY <3>2, <3>3 DEF Ahead
  <2>3. first \in Seq(Jobs) /\ Ordered(first) /\ ToSet(first) = AtWork
    <3>1. CASE running = NoJob
      BY <3>1, NothingInEmpty DEF Ordered, AtWork
    <3>2. CASE running # NoJob
      <4>1. running \in Jobs /\ first = <<running>>
        BY <3>2 DEF TypeOK
      <4>2. first \in Seq(Jobs) /\ Len(first) = 1 /\ DOMAIN first = {1} /\ first[1] = running
        BY <4>1
      <4> HIDE DEF first
      <4>3. ToSet(first) = {running} /\ Ordered(first)
        BY <4>2 DEF ToSet, Ordered
      <4>4. QED
        BY <3>2, <4>2, <4>3 DEF AtWork
    <3>3. QED
      BY <3>1, <3>2
  <2> HIDE DEF first
  <2>4. Before(ToSet(first), ToSet(Ahead))
    BY <2>2, <2>3 DEF OrderInv, Before
  <2>5. Ordered(line)
    BY <2>2, <2>3, <2>4, OrderedConcat
  <2>6. line \in Seq(Jobs) /\ DOMAIN line = 1 .. Len(line)
    BY <2>2, <2>3, ConcatFacts
  <2>7. QED
    BY <2>5, <2>6 DEF RunInOrder, Ordered, first
<1>4. QED
  BY <1>1, <1>2, <1>3, TypeCorrect, PlacesInvariant, PTL DEF Spec
===============================================================================
