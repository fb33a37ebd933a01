------------------------ MODULE ConversationQueueProofs ------------------------
(***************************************************************************)
(* For any jobs, challenges, waits, attempts and faults: the types of      *)
(* ConversationQueue, that each job of the database is in one place, that  *)
(* what is put aside has an alarm, and that silent jobs wait.              *)
(***************************************************************************)
EXTENDS ConversationQueue, SequenceTheorems, TLAPS

-------------------------------------------------------------------------------
(* Sequences and their elements *)

LEMMA AppendFacts ==
    ASSUME NEW S, NEW s \in Seq(S), NEW e \in S
    PROVE  /\ Len(s) \in Nat /\ DOMAIN s = 1 .. Len(s)
           /\ Append(s, e) \in Seq(S)
           /\ Len(Append(s, e)) = Len(s) + 1
           /\ \A i \in 1 .. Len(s) : Append(s, e)[i] = s[i]
           /\ Append(s, e)[Len(s) + 1] = e
OBVIOUS

\* The tail of a sequence, element by element.
LEMMA TailFacts ==
    ASSUME NEW S, NEW s \in Seq(S), s # <<>>
    PROVE  /\ Len(s) \in Nat /\ Len(s) >= 1 /\ DOMAIN s = 1 .. Len(s)
           /\ Head(s) = s[1]
           /\ Tail(s) \in Seq(S)
           /\ Len(Tail(s)) = Len(s) - 1
           /\ \A i \in 1 .. Len(s) - 1 : Tail(s)[i] = s[i + 1]
OBVIOUS

\* A concatenation, element by element.
LEMMA ConcatFacts ==
    ASSUME NEW S, NEW s \in Seq(S), NEW t \in Seq(S)
    PROVE  /\ Len(s) \in Nat /\ Len(t) \in Nat
           /\ s \o t \in Seq(S)
           /\ Len(s \o t) = Len(s) + Len(t)
           /\ \A i \in 1 .. Len(s) : (s \o t)[i] = s[i]
           /\ \A i \in 1 .. Len(t) : (s \o t)[Len(s) + i] = t[i]
           /\ \A i \in 1 .. Len(s) + Len(t) :
                 i \in 1 .. Len(s) \/ (\E k \in 1 .. Len(t) : i = Len(s) + k)
<1>1. /\ Len(s) \in Nat /\ Len(t) \in Nat
      /\ s \o t \in Seq(S)
      /\ Len(s \o t) = Len(s) + Len(t)
  BY LenProperties, ConcatProperties
<1>2. \A i \in 1 .. Len(s) : (s \o t)[i] = s[i]
  BY <1>1, ConcatProperties
<1>3. ASSUME NEW i \in 1 .. Len(t) PROVE (s \o t)[Len(s) + i] = t[i]
  <2>1. Len(s) + i \in 1 .. Len(s) + Len(t) /\ ~ (Len(s) + i <= Len(s)) /\ (Len(s) + i) - Len(s) = i
    BY <1>1
  <2>2. QED
    BY <1>1, <2>1, ConcatProperties
<1>4. ASSUME NEW i \in 1 .. Len(s) + Len(t), i \notin 1 .. Len(s)
      PROVE  \E k \in 1 .. Len(t) : i = Len(s) + k
  <2>1. i - Len(s) \in 1 .. Len(t) /\ i = Len(s) + (i - Len(s))
    BY <1>1, <1>4
  <2>2. QED
    BY <2>1
<1>5. QED
  BY <1>1, <1>2, <1>3, <1>4

\* The elements of a sequence that grows and shrinks, and whether they are distinct.
LEMMA AppendElements ==
    ASSUME NEW S, NEW s \in Seq(S), NEW e \in S
    PROVE  /\ Range(Append(s, e)) = Range(s) \cup {e}
           /\ IsInjective(s) /\ e \notin Range(s) => IsInjective(Append(s, e))
<1> DEFINE t == Append(s, e)
<1>1. /\ Len(s) \in Nat /\ DOMAIN s = 1 .. Len(s) /\ DOMAIN t = 1 .. Len(s) + 1
      /\ \A i \in 1 .. Len(s) : t[i] = s[i]
      /\ t[Len(s) + 1] = e
  BY AppendFacts
<1> HIDE DEF t
<1>2. Range(t) = Range(s) \cup {e}
  BY <1>1 DEF Range
<1>3. IsInjective(s) /\ e \notin Range(s) => IsInjective(t)
  BY <1>1 DEF Range, IsInjective
<1>4. QED
  BY <1>2, <1>3 DEF t

\* What leaves a sequence of distinct elements is no longer in it.
LEMMA TailElements ==
    ASSUME NEW S, NEW s \in Seq(S), s # <<>>
    PROVE  /\ Range(s) = {Head(s)} \cup Range(Tail(s))
           /\ IsInjective(s) => IsInjective(Tail(s)) /\ Head(s) \notin Range(Tail(s))
<1> DEFINE t == Tail(s)
<1>1. /\ Len(s) \in Nat /\ Len(s) >= 1 /\ DOMAIN s = 1 .. Len(s) /\ DOMAIN t = 1 .. Len(s) - 1
      /\ Head(s) = s[1]
      /\ \A i \in 1 .. Len(s) - 1 : t[i] = s[i + 1]
  BY TailFacts
<1> HIDE DEF t
<1>2. \A i \in 1 .. Len(s) : i = 1 \/ (i - 1 \in 1 .. Len(s) - 1 /\ t[i - 1] = s[i])
  BY <1>1
<1>3. Range(s) = {Head(s)} \cup Range(t)
  <2>1. ASSUME NEW i \in 1 .. Len(s) PROVE s[i] \in {Head(s)} \cup Range(t)
    <3>1. CASE i = 1
      BY <1>1, <3>1
    <3>2. CASE i - 1 \in 1 .. Len(s) - 1 /\ t[i - 1] = s[i]
      BY <1>1, <3>2 DEF Range
    <3>3. QED
      BY <1>2, <3>1, <3>2
  <2>2. \A i \in 1 .. Len(s) - 1 : i + 1 \in 1 .. Len(s) /\ 1 \in 1 .. Len(s)
    BY <1>1
  <2>3. Range(t) \subseteq Range(s)
    <3>1. DOMAIN t = 1 .. Len(s) - 1 /\ \A i \in DOMAIN t : i + 1 \in DOMAIN s /\ t[i] = s[i + 1]
      BY <1>1, <2>2
    <3>2. QED
      BY <3>1 DEF Range
  <2>4. 1 \in DOMAIN s
    BY <1>1
  <2>5. Head(s) \in Range(s)
    BY <1>1, <2>4 DEF Range
  <2>6. Range(s) \subseteq {Head(s)} \cup Range(t)
    BY <1>1, <2>1 DEF Range
  <2>7. QED
    BY <2>3, <2>5, <2>6
<1>4. ASSUME IsInjective(s) PROVE IsInjective(t) /\ Head(s) \notin Range(t)
  <2>1. \A m, n \in 1 .. Len(s) : s[m] = s[n] => m = n
    BY <1>1, <1>4 DEF IsInjective
  <2>2. \A i \in 1 .. Len(s) - 1 : i + 1 \in 1 .. Len(s) /\ 1 \in 1 .. Len(s) /\ i + 1 # 1
    BY <1>1
  <2>3. \A m, n \in 1 .. Len(s) - 1 : t[m] = t[n] => m = n
    BY <1>1, <2>1, <2>2
  <2>4. \A i \in 1 .. Len(s) - 1 : t[i] # s[1]
    BY <1>1, <2>1, <2>2
  <2>5. QED
    BY <1>1, <2>3, <2>4 DEF Range, IsInjective
<1>5. QED
  BY <1>3, <1>4 DEF t

\* A concatenation of disjoint sequences of distinct elements.
LEMMA ConcatElements ==
    ASSUME NEW S, NEW s \in Seq(S), NEW t \in Seq(S)
    PROVE  /\ Range(s \o t) = Range(s) \cup Range(t)
           /\ IsInjective(s \o t) <=>
                /\ IsInjective(s) /\ IsInjective(t)
                /\ Range(s) \cap Range(t) = {}
<1> DEFINE u == s \o t
<1>1. /\ Len(s) \in Nat /\ Len(t) \in Nat
      /\ DOMAIN s = 1 .. Len(s) /\ DOMAIN t = 1 .. Len(t) /\ DOMAIN u = 1 .. Len(s) + Len(t)
      /\ \A i \in 1 .. Len(s) : u[i] = s[i]
      /\ \A i \in 1 .. Len(t) : u[Len(s) + i] = t[i]
      /\ \A i \in DOMAIN u : i \in 1 .. Len(s) \/ (\E k \in 1 .. Len(t) : i = Len(s) + k)
  BY ConcatFacts
<1> HIDE DEF u
<1>2. /\ \A i \in 1 .. Len(s) : i \in DOMAIN u
      /\ \A k \in 1 .. Len(t) : Len(s) + k \in DOMAIN u /\ Len(s) + k \notin 1 .. Len(s)
      /\ \A k, l \in 1 .. Len(t) : Len(s) + k = Len(s) + l => k = l
  BY <1>1
<1>3. Range(u) = Range(s) \cup Range(t)
  <2>1. Range(s) \subseteq Range(u)
    BY <1>1, <1>2 DEF Range
  <2>2. ASSUME NEW k \in 1 .. Len(t) PROVE t[k] \in Range(u)
    <3>1. u[Len(s) + k] \in Range(u)
      BY <1>2 DEF Range
    <3>2. QED
      BY <1>1, <3>1
  <2>3. ASSUME NEW i \in DOMAIN u PROVE u[i] \in Range(s) \cup Range(t)
    <3>1. CASE i \in 1 .. Len(s)
      BY <1>1, <3>1 DEF Range
    <3>2. CASE \E k \in 1 .. Len(t) : i = Len(s) + k
      <4>1. PICK k \in 1 .. Len(t) : i = Len(s) + k
        BY <3>2
      <4>2. QED
        BY <1>1, <4>1 DEF Range
    <3>3. QED
      BY <1>1, <3>1, <3>2
  <2>4. QED
    BY <1>1, <2>1, <2>2, <2>3 DEF Range
<1>4. ASSUME IsInjective(u)
      PROVE  IsInjective(s) /\ IsInjective(t) /\ Range(s) \cap Range(t) = {}
  <2>1. \A m, n \in DOMAIN u : u[m] = u[n] => m = n
    BY <1>4 DEF IsInjective
  <2>2. IsInjective(s)
    BY <1>1, <1>2, <2>1 DEF IsInjective
  <2>3. IsInjective(t)
    <3>1. ASSUME NEW k \in 1 .. Len(t), NEW l \in 1 .. Len(t), t[k] = t[l]
          PROVE  k = l
      <4>1. u[Len(s) + k] = u[Len(s) + l]
        BY <1>1, <3>1
      <4>2. Len(s) + k = Len(s) + l
        BY <1>2, <2>1, <4>1
      <4>3. QED
        BY <1>2, <4>2
    <3>2. QED
      BY <1>1, <3>1 DEF IsInjective
  <2>4. Range(s) \cap Range(t) = {}
    BY <1>1, <1>2, <2>1 DEF Range
  <2>5. QED
    BY <2>2, <2>3, <2>4
<1>5. ASSUME IsInjective(s), IsInjective(t), Range(s) \cap Range(t) = {}
      PROVE  IsInjective(u)
  <2>1. \A i \in 1 .. Len(s), k \in 1 .. Len(t) : s[i] # t[k]
    BY <1>1, <1>5 DEF Range
  <2>2. ASSUME NEW m \in DOMAIN u, NEW n \in DOMAIN u, u[m] = u[n]
        PROVE  m = n
    <3>1. CASE m \in 1 .. Len(s) /\ n \in 1 .. Len(s)
      BY <1>1, <1>5, <2>2, <3>1 DEF IsInjective
    <3>2. CASE m \in 1 .. Len(s) /\ \E k \in 1 .. Len(t) : n = Len(s) + k
      BY <1>1, <2>1, <2>2, <3>2
    <3>3. CASE n \in 1 .. Len(s) /\ \E k \in 1 .. Len(t) : m = Len(s) + k
      BY <1>1, <2>1, <2>2, <3>3
    <3>4. ASSUME NEW k \in 1 .. Len(t), NEW l \in 1 .. Len(t), m = Len(s) + k, n = Len(s) + l
          PROVE  m = n
      <4>1. t[k] = t[l]
        BY <1>1, <2>2, <3>4
      <4>2. k = l
        BY <1>1, <1>5, <4>1 DEF IsInjective
      <4>3. QED
        BY <3>4, <4>2
    <3>5. QED
      BY <1>1, <3>1, <3>2, <3>3, <3>4
  <2>3. QED
    BY <2>2 DEF IsInjective
<1>6. QED
  BY <1>3, <1>4, <1>5 DEF u
-------------------------------------------------------------------------------
(* The inductive invariant *)

\* What the types leave open: the jobs are added in their order, and a microtask carries
\* what it is about.
Shapes ==
  /\ Len(added) <= Len(Arrivals) /\ \A i \in 1..Len(added) : added[i] = Arrivals[i]
  /\ IsNext("retry") => Head(micro).about \in Jobs
  /\ IsNext("cancel") => Len(micro) = 1 /\ Working
  /\ IsNext("arm") => Head(micro).about \in Challenge
  /\ \A i \in 1..Len(puts) : puts[i].next = "arm" => puts[i].value \in Challenge

\* The retry state outlasts the wait that the server asked for, and a silent job that
\* goes on has found none.
WaitIsKept ==
  /\ data = NoData => told = 0
  /\ data # NoData => told <= data.retryAt
  /\ current \in Silent /\ ~seen => told = 0
  /\ current \in Silent /\ phase \in {"continuing", "waiting", "sending"} => ~seen

Inv == TypeOK /\ Shapes /\ OnePlaceForEachJob /\ DeferredHasAlarm /\ WaitIsKept

-------------------------------------------------------------------------------
(* The types, in the groups that the operators change *)

JobsOK ==
  /\ added \in Seq(Jobs) /\ IsInjective(added) /\ rows \subseteq Range(added)
  /\ Len(added) <= Len(Arrivals) /\ \A i \in 1..Len(added) : added[i] = Arrivals[i]

RunOK ==
  /\ queue \in Seq(Jobs) /\ current \in Jobs \cup {NoJob}
  /\ phase \in {"none", "loading", "continuing", "waiting", "sending"}
  /\ (phase = "none") = ~Working
  /\ attempt \in 0..MaxAttempts /\ seen \in BOOLEAN

MicroOK ==
  /\ micro \in Seq(Tasks) /\ \A i \in 2..Len(micro) : micro[i] = Callback
  /\ IsNext("retry") => Head(micro).about \in Jobs
  /\ IsNext("cancel") => Len(micro) = 1 /\ Working
  /\ IsNext("arm") => Head(micro).about \in Challenge

RetryOK ==
  /\ data \in RetryState \cup {NoData} /\ orphans \subseteq Times
  /\ idleWaiting \in BOOLEAN /\ waiter \in BOOLEAN

HandlerOK ==
  /\ registered \in Challenge \cup {NoChallenge}
  /\ startTimer \in Times \cup {NoTime} /\ pendingStart \in BOOLEAN
  /\ puts \in Seq(Puts)
  /\ \A i \in 1..Len(puts) : puts[i].next = "arm" => puts[i].value \in Challenge

RestOK ==
  /\ asked \in Nat /\ answering \in Nat /\ token \in BOOLEAN
  /\ verification \in {"none", "pending", "cancelled"}
  /\ cancelled \subseteq Jobs /\ verifying \in BOOLEAN
  /\ persisted \in Challenge \cup {NoChallenge} /\ online \in BOOLEAN
  /\ age \in 0..Lifetime /\ told \in Times

LEMMA TypesAre ==
  TypeOK /\ Shapes <=> JobsOK /\ RunOK /\ MicroOK /\ RetryOK /\ HandlerOK /\ RestOK
BY Zenon DEF TypeOK, Shapes, JobsOK, RunOK, MicroOK, RetryOK, HandlerOK, RestOK

LEMMA JobsFacts ==
  /\ NoJob \notin Jobs /\ 1 \in Times /\ 0 \in Times /\ NoTime \notin Times
  /\ \A t \in Times : t \in Nat
BY JobsAssumption, WaitAssumption DEF Times, NoTime

-------------------------------------------------------------------------------
(* The operators of the queue *)

LEMMA StartNextOK ==
    ASSUME NEW q \in Seq(Jobs), NEW b \in BOOLEAN, StartNext(q, b)
    PROVE  RunOK'
<1>1. CASE q = <<>>
  <2>1. /\ current' = NoJob /\ queue' = <<>> /\ phase' = "none" /\ attempt' = 0 /\ seen' = FALSE
    BY <1>1 DEF StartNext
  <2>2. attempt' \in 0..MaxAttempts
    BY <2>1, BoundsAssumption
  <2>3. (phase' = "none") = ~Working' /\ queue' \in Seq(Jobs)
    BY <2>1 DEF Working
  <2>4. QED
    BY <2>1, <2>2, <2>3 DEF RunOK
<1>2. CASE q # <<>>
  <2>1. /\ current' = Head(q) /\ queue' = Tail(q) /\ phase' = "loading" /\ attempt' = 1
        /\ seen' = b
    BY <1>2 DEF StartNext
  <2>2. attempt' \in 0..MaxAttempts
    BY <2>1, BoundsAssumption
  <2>3. Head(q) \in Jobs /\ Tail(q) \in Seq(Jobs)
    BY <1>2
  <2>4. current' \in Jobs /\ current' # NoJob
    BY <2>1, <2>3, JobsFacts
  <2>5. QED
    BY <2>1, <2>2, <2>3, <2>4 DEF RunOK, Working
<1>3. QED
  BY <1>1, <1>2

LEMMA EnqueueOK ==
    ASSUME RunOK, NEW js \in Seq(Jobs), NEW b \in BOOLEAN, Enqueue(js, b)
    PROVE  RunOK'
<1>1. queue \in Seq(Jobs) /\ queue \o js \in Seq(Jobs)
  BY ConcatFacts DEF RunOK
<1>2. CASE Working
  BY <1>1, <1>2 DEF Enqueue, RunOK, Working
<1>3. CASE ~Working
  BY <1>1, <1>3, StartNextOK DEF Enqueue
<1>4. QED
  BY <1>2, <1>3

LEMMA LeaveOK ==
    ASSUME RunOK, NEW b \in BOOLEAN, Leave(b)
    PROVE  RunOK'
<1>1. queue \in Seq(Jobs) /\ (data' # NoData) \in BOOLEAN
  BY DEF RunOK
<1>2. QED
  BY <1>1, StartNextOK DEF Leave

LEMMA FailAttemptOK ==
    ASSUME RunOK, Working, FailAttempt
    PROVE  RunOK'
<1>1. CASE attempt < MaxAttempts
  <2>1. /\ attempt' = attempt + 1 /\ phase' = "loading" /\ seen' = (data # NoData)
        /\ UNCHANGED <<queue, current>>
    BY <1>1 DEF FailAttempt
  <2>2. attempt' \in 0..MaxAttempts
    BY <1>1, <2>1, BoundsAssumption DEF RunOK
  <2>3. seen' \in BOOLEAN
    BY <2>1
  <2>4. QED
    BY <2>1, <2>2, <2>3 DEF RunOK, Working
<1>2. CASE ~(attempt < MaxAttempts)
  BY <1>2, LeaveOK DEF FailAttempt
<1>3. QED
  BY <1>1, <1>2

\* Sequences of callbacks.
AllCallbacks(t) == t \in Seq(Tasks) /\ \A i \in 1..Len(t) : t[i] = Callback

LEMMA TaskFacts ==
  /\ Callback \in Tasks /\ Callback.name = "callback"
  /\ AllCallbacks(<<>>) /\ AllCallbacks(<<Callback>>) /\ Callback \in Range(<<Callback>>)
<1>1. Callback \in Tasks /\ Callback.name = "callback"
  BY DEF Callback, Task, Tasks
<1> HIDE DEF Callback
<1>2. /\ <<Callback>> \in Seq(Tasks) /\ Len(<<Callback>>) = 1 /\ <<Callback>>[1] = Callback
      /\ DOMAIN <<Callback>> = 1..1
  BY <1>1
<1>3. Callback \in Range(<<Callback>>)
  BY <1>2 DEF Range
<1>4. QED
  BY <1>1, <1>2, <1>3 DEF AllCallbacks

LEMMA MicroConcat ==
    ASSUME NEW s \in Seq(Tasks), Len(s) <= 1, NEW t, AllCallbacks(t)
    PROVE  /\ s \o t \in Seq(Tasks) /\ Len(s \o t) = Len(s) + Len(t)
           /\ \A i \in 2..Len(s \o t) : (s \o t)[i] = Callback
           /\ s # <<>> => s \o t # <<>> /\ Head(s \o t) = s[1]
           /\ s = <<>> => s \o t = t
           /\ Callback \in Range(t) => Callback \in Range(s \o t)
<1> DEFINE u == s \o t
<1>1. t \in Seq(Tasks) /\ \A i \in 1..Len(t) : t[i] = Callback
  BY DEF AllCallbacks
<1>2. /\ Len(s) \in Nat /\ Len(t) \in Nat /\ u \in Seq(Tasks) /\ Len(u) = Len(s) + Len(t)
      /\ \A i \in 1 .. Len(s) : u[i] = s[i]
      /\ \A i \in 1 .. Len(t) : u[Len(s) + i] = t[i]
      /\ \A i \in 1 .. Len(u) : i \in 1 .. Len(s) \/ (\E k \in 1 .. Len(t) : i = Len(s) + k)
      /\ Range(u) = Range(s) \cup Range(t)
  BY <1>1, ConcatFacts, ConcatElements
<1>3. s = <<>> => u = t
  BY <1>1, ConcatEmptySeq
<1> HIDE DEF u
<1>4. \A i \in 2..Len(u) : i \in 1..Len(u) /\ i \notin 1..Len(s)
  BY <1>2
<1>5. \A i \in 2..Len(u) : u[i] = Callback
  BY <1>1, <1>2, <1>4
<1>6. s # <<>> => u # <<>> /\ Head(u) = s[1]
  <2>1. s # <<>> => 1 \in 1..Len(s)
    BY <1>2
  <2>2. s # <<>> => u # <<>> /\ Head(u) = u[1]
    BY <1>2, <2>1
  <2>3. QED
    BY <1>2, <2>1, <2>2
<1>7. QED
  BY <1>2, <1>3, <1>5, <1>6 DEF u

LEMMA CallbacksConcat ==
    ASSUME NEW s, NEW t, AllCallbacks(s), AllCallbacks(t)
    PROVE  AllCallbacks(s \o t) /\ Range(s \o t) = Range(s) \cup Range(t)
<1>1. s \in Seq(Tasks) /\ t \in Seq(Tasks)
  BY DEF AllCallbacks
<1>2. /\ s \o t \in Seq(Tasks) /\ Len(s \o t) = Len(s) + Len(t)
      /\ \A i \in 1 .. Len(s) : (s \o t)[i] = s[i]
      /\ \A i \in 1 .. Len(t) : (s \o t)[Len(s) + i] = t[i]
      /\ \A i \in 1 .. Len(s \o t) :
            i \in 1 .. Len(s) \/ (\E k \in 1 .. Len(t) : i = Len(s) + k)
      /\ Range(s \o t) = Range(s) \cup Range(t)
  BY <1>1, ConcatFacts, ConcatElements
<1>3. QED
  BY <1>2 DEF AllCallbacks

LEMMA CallbacksOK ==
    AllCallbacks(micro) => MicroOK /\ ~IsNext("retry")
<1> SUFFICES ASSUME AllCallbacks(micro) PROVE MicroOK /\ ~IsNext("retry")
  OBVIOUS
<1>1. /\ micro \in Seq(Tasks) /\ Len(micro) \in Nat
      /\ \A i \in 1..Len(micro) : micro[i] = Callback
  BY DEF AllCallbacks
<1>2. \A i \in 2..Len(micro) : micro[i] = Callback
  BY <1>1
<1>3. micro # <<>> => Head(micro) = Callback
  BY <1>1
<1>4. QED
  BY <1>1, <1>2, <1>3, TaskFacts DEF MicroOK, IsNext

LEMMA MicroTail ==
    ASSUME MicroOK, micro # <<>>
    PROVE  /\ AllCallbacks(Tail(micro)) /\ Head(micro) = micro[1]
           /\ Range(micro) = {Head(micro)} \cup Range(Tail(micro))
<1>1. micro \in Seq(Tasks) /\ \A i \in 2..Len(micro) : micro[i] = Callback
  BY DEF MicroOK
<1>2. /\ Len(micro) \in Nat /\ Tail(micro) \in Seq(Tasks) /\ Len(Tail(micro)) = Len(micro) - 1
      /\ \A i \in 1 .. Len(micro) - 1 : Tail(micro)[i] = micro[i + 1]
      /\ Head(micro) = micro[1]
  BY <1>1, TailFacts
<1>3. \A i \in 1 .. Len(micro) - 1 : i + 1 \in 2..Len(micro)
  BY <1>2
<1>4. QED
  BY <1>1, <1>2, <1>3, TailElements DEF AllCallbacks

\* What becomes of the microtasks when a job leaves the queue.
LEMMA LeaveMicro ==
    ASSUME current \in Jobs, NEW b \in BOOLEAN, Leave(b)
    PROVE  /\ MicroOK' /\ idleWaiting' = (idleWaiting /\ queue # <<>>)
           /\ IsNext("retry")' <=> b
           /\ b => Head(micro').about = current
           /\ queue = <<>> /\ idleWaiting => Callback \in Range(micro')
<1> DEFINE a == IF b THEN <<Task("retry", current)>> ELSE <<>>
           c == IF queue = <<>> /\ idleWaiting THEN <<Callback>> ELSE <<>>
<1>1. micro' = a \o c /\ idleWaiting' = (idleWaiting /\ queue # <<>>)
  BY DEF Leave
<1>2. AllCallbacks(c) /\ (queue = <<>> /\ idleWaiting => Callback \in Range(c))
  BY TaskFacts
<1>3. CASE b
  <2> DEFINE t == Task("retry", current)
  <2>1. t \in Tasks /\ t.name = "retry" /\ t.about = current
    BY DEF Task, Tasks
  <2> HIDE DEF t
  <2> DEFINE w == <<t>>
  <2>2. w \in Seq(Tasks) /\ Len(w) = 1 /\ w[1] = t /\ w # <<>>
    BY <2>1
  <2>3. micro' = w \o c
    BY <1>1, <1>3 DEF t
  <2> HIDE DEF c, w
  <2>4. /\ micro' \in Seq(Tasks) /\ \A i \in 2..Len(micro') : micro'[i] = Callback
        /\ micro' # <<>> /\ Head(micro') = t
        /\ Callback \in Range(c) => Callback \in Range(micro')
    <3>1. Len(w) <= 1
      BY <2>2
    <3>2. /\ w \o c \in Seq(Tasks) /\ \A i \in 2..Len(w \o c) : (w \o c)[i] = Callback
          /\ w \o c # <<>> /\ Head(w \o c) = w[1]
          /\ Callback \in Range(c) => Callback \in Range(w \o c)
      BY <1>2, <2>2, <3>1, MicroConcat, Zenon
    <3>3. QED
      BY <2>2, <2>3, <3>2
  <2>5. Callback' = Callback
    BY DEF Callback, Task
  <2>6. IsNext("retry")' /\ ~IsNext("cancel")' /\ ~IsNext("arm")'
    BY <2>1, <2>4 DEF IsNext
  <2>7. QED
    BY <1>1, <1>2, <1>3, <2>1, <2>4, <2>5, <2>6 DEF MicroOK
<1>4. CASE ~b
  <2> HIDE DEF c
  <2>1. micro' = c
    BY <1>1, <1>2, <1>4, ConcatEmptySeq DEF AllCallbacks
  <2>2. AllCallbacks(micro)'
    BY <1>2, <2>1 DEF AllCallbacks, Callback, Task, Tasks
  <2>3. MicroOK' /\ ~IsNext("retry")'
    BY <2>2, CallbacksOK, PTL
  <2>4. QED
    BY <1>1, <1>2, <1>4, <2>1, <2>3
<1>5. QED
  BY <1>3, <1>4

-------------------------------------------------------------------------------
(* The operators of the challenge *)

LEMMA PersistOK ==
    ASSUME puts \in Seq(Puts), \A i \in 1..Len(puts) : puts[i].next = "arm" => puts[i].value \in Challenge,
           NEW challenge \in Challenge \cup {NoChallenge}, NEW next \in {"arm", "start", "nothing"},
           next = "arm" => challenge \in Challenge, Persist(challenge, next)
    PROVE  /\ puts' \in Seq(Puts)
           /\ \A i \in 1..Len(puts') : puts'[i].next = "arm" => puts'[i].value \in Challenge
<1> DEFINE put == [value |-> challenge, next |-> next]
<1>1. put \in Puts /\ (put.next = "arm" => put.value \in Challenge)
  BY DEF Puts
<1>2. puts' = puts \/ puts' = Append(puts, put)
  BY DEF Persist
<1> HIDE DEF put
<1>3. CASE puts' = Append(puts, put)
  <2>1. /\ puts' \in Seq(Puts)
        /\ \A i \in 1..Len(puts') : puts'[i] = put \/ (i \in 1..Len(puts) /\ puts'[i] = puts[i])
    BY <1>1, <1>3
  <2>2. QED
    BY <1>1, <2>1
<1>4. QED
  BY <1>2, <1>3

LEMMA UnregisterOK ==
    ASSUME HandlerOK, NEW next \in {"start", "nothing"}, Unregister(next)
    PROVE  HandlerOK'
<1>1. registered' = NoChallenge /\ pendingStart' = FALSE /\ startTimer' = NoTime
      /\ Persist(NoChallenge, next)
  BY DEF Unregister
<1>2. /\ puts' \in Seq(Puts)
      /\ \A i \in 1..Len(puts') : puts'[i].next = "arm" => puts'[i].value \in Challenge
  BY <1>1, PersistOK DEF HandlerOK
<1>3. QED
  BY <1>1, <1>2 DEF HandlerOK

LEMMA RegisterOK ==
    ASSUME HandlerOK, NEW challenge \in Challenge, Register(challenge)
    PROVE  HandlerOK'
<1>1. CASE registered # NoChallenge
  BY <1>1 DEF Register, handler, HandlerOK
<1>2. CASE registered = NoChallenge
  <2>1. registered' = challenge /\ Persist(challenge, "arm") /\ UNCHANGED <<startTimer, pendingStart>>
    BY <1>2 DEF Register
  <2>2. /\ puts' \in Seq(Puts)
        /\ \A i \in 1..Len(puts') : puts'[i].next = "arm" => puts'[i].value \in Challenge
    BY <2>1, PersistOK DEF HandlerOK
  <2>3. QED
    BY <2>1, <2>2 DEF HandlerOK
<1>3. QED
  BY <1>1, <1>2

LEMMA StartQueueOK ==
    ASSUME HandlerOK, StartQueue
    PROVE  HandlerOK'
<1>1. CASE online
  BY <1>1, UnregisterOK DEF StartQueue
<1>2. CASE ~online
  BY <1>2 DEF StartQueue, HandlerOK
<1>3. QED
  BY <1>1, <1>2

LEMMA UnchangedHandler == ASSUME HandlerOK, UNCHANGED handler PROVE HandlerOK'
BY DEF handler, HandlerOK

\* The callback of a retry and the unblocking leave the queue and the challenge as they
\* are, or queue what was put aside.
LEMMA RetryParts ==
    ASSUME RetryCallback \/ Unblock
    PROVE  \/ UNCHANGED <<run, handler>>
              /\ \/ data' = data
                 \/ RetryCallback /\ data # NoData /\ data' = [data EXCEPT !.timer = data.retryAt]
           \/ /\ data # NoData /\ data' = NoData /\ Unregister("nothing")
              /\ \E b \in BOOLEAN : Enqueue(data.jobs, b)
              /\ RetryCallback => data.retryAt = 0
BY DEF RetryCallback, Unblock, RetryAll

LEMMA WaiterParts ==
    ASSUME ResolveVerificationWaiter
    PROVE  \/ /\ waiter /\ waiter' = FALSE
              /\ phase' = IF phase = "waiting" THEN "continuing" ELSE phase
              /\ UNCHANGED <<queue, current, attempt, seen, data, handler, told>>
           \/ Unblock /\ told' = 0 /\ waiter' = waiter
BY DEF ResolveVerificationWaiter

-------------------------------------------------------------------------------
(* The types of each group, action by action *)

LEMMA HandlerKept == HandlerOK /\ RetryOK /\ RestOK /\ MicroOK /\ Next => HandlerOK'
<1> SUFFICES ASSUME HandlerOK, RetryOK, RestOK, MicroOK, Next PROVE HandlerOK'
  OBVIOUS
<1>1. CASE RetryJobOnQueueIdle \/ CancelJob
  BY <1>1, UnchangedHandler DEF RetryJobOnQueueIdle, CancelJob
<1>2. ASSUME RetryCallback \/ Unblock PROVE HandlerOK'
  BY <1>2, RetryParts, UnchangedHandler, UnregisterOK
<1>3. ASSUME ResolveVerificationWaiter PROVE HandlerOK'
  BY <1>2, <1>3, WaiterParts, UnchangedHandler
<1>4. CASE IdleCallback \/ TimerCallback
  BY <1>2, <1>4 DEF IdleCallback, TimerCallback
<1>5. CASE StartConversation \/ Verified \/ UserCancels
  BY <1>3, <1>5 DEF StartConversation, Verified, UserCancels
<1>6. CASE ArmChallenge
  <2> DEFINE challenge == Head(micro).about
  <2>1. challenge \in Challenge
    BY <1>6 DEF ArmChallenge, MicroOK
  <2>2. challenge.retryAt \in Times \cup {NoTime}
    BY <2>1 DEF Challenge
  <2>3. StartQueue \/ (UNCHANGED <<registered, pendingStart, puts>>
                       /\ startTimer' \in {startTimer, challenge.retryAt})
    BY <1>6 DEF ArmChallenge
  <2>4. QED
    BY <2>2, <2>3, StartQueueOK DEF HandlerOK
<1>7. CASE \/ Loaded \/ GiveUp \/ AwaitCaptcha \/ StopWaiting \/ Sent \/ Failed \/ Untrusted
  BY <1>7, UnchangedHandler DEF Loaded, GiveUp, AwaitCaptcha, StopWaiting, Sent, Failed, Untrusted
<1>8. CASE GoOn
  BY <1>8, UnchangedHandler, UnregisterOK DEF GoOn
<1>9. CASE \E t \in (1..MaxWait) \cup {NoTime} : Challenged(t)
  <2> PICK t \in (1..MaxWait) \cup {NoTime} : Challenged(t)
    BY <1>9
  <2> DEFINE c == [retryAt |-> t, silent |-> current \in Silent]
  <2>1. t \in Times \cup {NoTime}
    BY WaitAssumption DEF Times
  <2>2. (current \in Silent) \in BOOLEAN
    OBVIOUS
  <2>3. c \in Challenge
    BY <2>1, <2>2 DEF Challenge
  <2>4. QED
    BY <2>3, RegisterOK DEF Challenged
<1>10. CASE StartTimerFires
  BY <1>10, UnregisterOK DEF StartTimerFires, HandlerOK
<1>11. CASE PutDone
  <2>1. puts' \in Seq(Puts) /\ Len(puts') = Len(puts) - 1 /\ Len(puts) \in Nat
        /\ \A i \in 1..Len(puts) - 1 : puts'[i] = puts[i + 1]
    BY <1>11, TailFacts DEF PutDone, HandlerOK
  <2>2. \A i \in 1..Len(puts) - 1 : i + 1 \in 1..Len(puts)
    BY <2>1
  <2>3. QED
    BY <1>11, <2>1, <2>2 DEF PutDone, HandlerOK
<1>12. CASE \E j \in Jobs : Add(j)
  BY <1>12, UnchangedHandler DEF Add
<1>13. CASE OnOnline
  BY <1>13, UnchangedHandler, UnregisterOK DEF OnOnline
<1>14. CASE OnOffline \/ OnResponse \/ SolveRejected \/ UserVerifies
  BY <1>14, UnchangedHandler DEF OnOffline, OnResponse, SolveRejected, UserVerifies
<1>15. CASE SolveAccepted
  BY <1>15, UnchangedHandler, StartQueueOK DEF SolveAccepted
<1>16. CASE Restart
  <2>1. registered' \in Challenge \cup {NoChallenge} /\ startTimer' = NoTime /\ pendingStart' = FALSE
    BY <1>16 DEF Restart, RestOK
  <2>2. CASE registered' = NoChallenge
    <3>1. puts' = <<>>
      BY <1>16, <2>2 DEF Restart
    <3>2. puts' \in Seq(Puts) /\ \A i \in 1..Len(puts') : FALSE
      BY <3>1
    <3>3. QED
      BY <2>1, <3>2 DEF HandlerOK
  <2>3. CASE registered' # NoChallenge
    <3> DEFINE put == [value |-> registered', next |-> "arm"]
    <3>1. put \in Puts /\ put.value \in Challenge
      BY <2>1, <2>3 DEF Puts
    <3>2. puts' = <<put>>
      BY <1>16, <2>3 DEF Restart
    <3> HIDE DEF put
    <3>3. puts' \in Seq(Puts) /\ \A i \in 1..Len(puts') : puts'[i] = put
      BY <3>1, <3>2
    <3>4. QED
      BY <2>1, <3>1, <3>3 DEF HandlerOK
  <2>4. QED
    BY <2>2, <2>3
<1>17. CASE Tick
  <2>1. \A t \in Times \cup {NoTime} : Nearer(t) \in Times \cup {NoTime}
    BY WaitAssumption DEF Times, NoTime, Nearer
  <2>2. \A c \in Challenge : NearerChallenge(c) \in Challenge
    <3> SUFFICES ASSUME NEW c \in Challenge PROVE NearerChallenge(c) \in Challenge
      OBVIOUS
    <3>1. c # NoChallenge
      BY NoneAssumption
    <3>2. NearerChallenge(c) = [c EXCEPT !.retryAt = Nearer(@)]
      BY <3>1 DEF NearerChallenge
    <3>3. QED
      BY <2>1, <3>2 DEF Challenge
  <2>3. \A c \in Challenge \cup {NoChallenge} : NearerChallenge(c) \in Challenge \cup {NoChallenge}
    BY <2>2 DEF NearerChallenge
  <2>4. puts' = [i \in DOMAIN puts |-> [puts[i] EXCEPT !.value = NearerChallenge(@)]]
    BY <1>17 DEF Tick
  <2>5. DOMAIN puts = 1..Len(puts) /\ Len(puts) \in Nat /\ \A i \in 1..Len(puts) : puts[i] \in Puts
    BY DEF HandlerOK
  <2>6. \A i \in 1..Len(puts) : puts'[i] \in Puts /\ puts'[i].next = puts[i].next
                                /\ puts'[i].value = NearerChallenge(puts[i].value)
    BY <2>3, <2>4, <2>5 DEF Puts
  <2>7. puts' \in Seq(Puts) /\ Len(puts') = Len(puts)
    <3>1. puts' \in [1..Len(puts) -> Puts]
      BY <2>4, <2>5, <2>6
    <3> HIDE DEF Puts
    <3>2. puts' \in Seq(Puts)
      BY <2>5, <3>1, SeqDef
    <3>3. Len(puts') = Len(puts)
      BY <2>5, <3>1, <3>2
    <3>4. QED
      BY <3>2, <3>3
  <2>8. \A i \in 1..Len(puts') : puts'[i].next = "arm" => puts'[i].value \in Challenge
    BY <2>2, <2>6, <2>7 DEF HandlerOK
  <2>9. QED
    BY <1>17, <2>1, <2>3, <2>7, <2>8 DEF Tick, HandlerOK
<1>18. QED
  BY <1>1, <1>4, <1>5, <1>6, <1>7, <1>8, <1>9, <1>10, <1>11, <1>12, <1>13, <1>14, <1>15, <1>16, <1>17
     DEF Next, Microtask, RunStep, HandlerStep, WorldStep

\* A job that is in the queue's hands, and what follows it.
LEMMA IsWorking == ASSUME RunOK PROVE Working <=> phase # "none"
BY DEF RunOK

LEMMA CurrentIsJob == ASSUME RunOK, Working PROVE current \in Jobs
BY DEF RunOK, Working

LEMMA UnchangedRun == ASSUME RunOK, UNCHANGED run PROVE RunOK'
BY DEF run, RunOK, Working

LEMMA ListingFacts ==
    ASSUME JobsOK, NEW q \in Listings
    PROVE  /\ q \in Seq(Jobs) /\ Range(q) = rows /\ IsInjective(q)
<1>1. PICK n \in 0..Len(added) : q \in [1..n -> rows]
  BY DEF Listings, BoundedSeq, SeqOf
<1>2. rows \subseteq Jobs /\ Len(added) \in Nat
  BY DEF JobsOK, Range
<1>3. n \in Nat /\ q \in [1..n -> Jobs] /\ DOMAIN q = 1..n
  BY <1>1, <1>2
<1>4. q \in Seq(Jobs)
  BY <1>3, SeqDef
<1>5. Range(q) = rows /\ \A k, l \in DOMAIN q : k < l => Place(q[k]) < Place(q[l])
  BY DEF Listings
<1>6. ASSUME NEW k \in DOMAIN q PROVE Place(q[k]) \in Nat
  <2>1. q[k] \in Jobs
    BY <1>3
  <2>2. \E i \in DOMAIN Arrivals : Arrivals[i] = q[k]
    BY <2>1 DEF Jobs, Range
  <2>3. Place(q[k]) \in DOMAIN Arrivals
    BY <2>2 DEF Place
  <2>4. QED
    BY <2>3, JobsAssumption
<1>7. ASSUME NEW k \in DOMAIN q, NEW l \in DOMAIN q, q[k] = q[l] PROVE k = l
  <2>1. ~(k < l) /\ ~(l < k)
    BY <1>5, <1>6, <1>7
  <2>2. QED
    BY <1>3, <2>1
<1>8. QED
  BY <1>4, <1>5, <1>7 DEF IsInjective

LEMMA RunKept == RunOK /\ RetryOK /\ RestOK /\ MicroOK /\ JobsOK /\ Next => RunOK'
<1> SUFFICES ASSUME RunOK, RetryOK, RestOK, MicroOK, JobsOK, Next PROVE RunOK'
  OBVIOUS
<1>1. data # NoData => data.jobs \in Seq(Jobs)
  BY DEF RetryOK, RetryState
<1>2. ASSUME RetryCallback \/ Unblock PROVE RunOK'
  BY <1>1, <1>2, RetryParts, UnchangedRun, EnqueueOK
<1>3. ASSUME ResolveVerificationWaiter PROVE RunOK'
  <2>1. CASE /\ phase' = IF phase = "waiting" THEN "continuing" ELSE phase
             /\ UNCHANGED <<queue, current, attempt, seen>>
    BY <2>1 DEF RunOK, Working
  <2>2. CASE Unblock
    BY <1>2, <2>2
  <2>3. QED
    BY <1>3, <2>1, <2>2, WaiterParts
<1>4. CASE RetryJobOnQueueIdle \/ ArmChallenge
  BY <1>4, UnchangedRun DEF RetryJobOnQueueIdle, ArmChallenge
<1>5. CASE IdleCallback \/ TimerCallback
  BY <1>2, <1>5 DEF IdleCallback, TimerCallback
<1>6. CASE StartConversation \/ Verified \/ UserCancels
  BY <1>3, <1>6 DEF StartConversation, Verified, UserCancels
<1>7. CASE CancelJob
  BY <1>7, LeaveOK DEF CancelJob
<1>8. CASE Loaded
  <2>1. CASE Leave(TRUE)
    BY <2>1, LeaveOK
  <2>2. CASE phase' = "continuing" /\ UNCHANGED <<queue, current, attempt, seen>>
    BY <1>8, <2>2 DEF Loaded, RunOK, Working
  <2>3. QED
    BY <1>8, <2>1, <2>2 DEF Loaded
<1>9. CASE GiveUp \/ Sent
  BY <1>9, LeaveOK DEF GiveUp, Sent
<1>10. CASE AwaitCaptcha \/ StopWaiting
  BY <1>10 DEF AwaitCaptcha, StopWaiting, StillValid, RunOK, Working
<1>11. CASE Failed
  BY <1>11, IsWorking, FailAttemptOK DEF Failed
<1>12. CASE Untrusted
  BY <1>12, IsWorking, FailAttemptOK, LeaveOK DEF Untrusted
<1>13. CASE \E t \in (1..MaxWait) \cup {NoTime} : Challenged(t)
  BY <1>13, IsWorking, FailAttemptOK, LeaveOK DEF Challenged
<1>14. CASE GoOn
  <2>1. /\ phase = "continuing" /\ phase' \in {"sending", "waiting", "continuing"}
        /\ UNCHANGED <<current, attempt, seen>>
    BY <1>14 DEF GoOn, StillValid
  <2>2. queue' \in Seq(Jobs)
    <3>1. queue \in Seq(Jobs) /\ (data # NoData => queue \o data.jobs \in Seq(Jobs))
      BY <1>1, ConcatFacts DEF RunOK
    <3>2. queue' = queue \/ (data # NoData /\ queue' = queue \o data.jobs)
      BY <1>14 DEF GoOn
    <3>3. QED
      BY <3>1, <3>2
  <2>3. QED
    BY <2>1, <2>2 DEF RunOK, Working
<1>15. CASE StartTimerFires \/ PutDone \/ Tick
  BY <1>15, UnchangedRun DEF StartTimerFires, PutDone, Tick
<1>16. CASE OnOnline \/ OnOffline \/ OnResponse \/ SolveAccepted \/ SolveRejected \/ UserVerifies
  BY <1>16, UnchangedRun DEF OnOnline, OnOffline, OnResponse, SolveAccepted, SolveRejected,
     UserVerifies
<1>17. CASE \E j \in Jobs : Add(j)
  <2> PICK j \in Jobs : Add(j)
    BY <1>17
  <2>1. <<j>> \in Seq(Jobs) /\ (data # NoData) \in BOOLEAN
    OBVIOUS
  <2>2. QED
    BY <2>1, EnqueueOK DEF Add
<1>18. CASE Restart
  <2>1. PICK q \in Listings : StartNext(q, FALSE)
    BY <1>18 DEF Restart
  <2>2. q \in Seq(Jobs)
    BY ListingFacts
  <2>3. QED
    BY <2>1, <2>2, StartNextOK
<1>19. QED
  BY <1>4, <1>5, <1>6, <1>7, <1>8, <1>9, <1>10, <1>11, <1>12, <1>13, <1>14, <1>15, <1>16, <1>17, <1>18
     DEF Next, Microtask, RunStep, HandlerStep, WorldStep

\* The microtasks that a step leaves, when none is left or the first has run.
LEMMA NoMicro == ASSUME micro' = <<>> PROVE MicroOK' /\ ~IsNext("retry")'
<1>1. AllCallbacks(micro)'
  BY TaskFacts DEF AllCallbacks
<1>2. QED
  BY <1>1, CallbacksOK, PTL

LEMMA MicroRuns == ASSUME MicroOK, micro # <<>>, micro' = Tail(micro) PROVE MicroOK' /\ ~IsNext("retry")'
<1>1. AllCallbacks(micro)'
  BY MicroTail DEF AllCallbacks, Callback, Task, Tasks
<1>2. QED
  BY <1>1, CallbacksOK, PTL

LEMMA OneMicro ==
    ASSUME NEW t \in Tasks, micro' = <<t>>, t.name = "retry" => t.about \in Jobs,
           t.name = "arm" => t.about \in Challenge, t.name = "cancel" => Working'
    PROVE  MicroOK' /\ (IsNext("retry")' <=> t.name = "retry")
<1>1. /\ micro' \in Seq(Tasks) /\ Len(micro') = 1 /\ micro' # <<>> /\ Head(micro') = t
      /\ \A i \in 2..Len(micro') : FALSE
  OBVIOUS
<1>2. QED
  BY <1>1 DEF MicroOK, IsNext

\* A step that leaves the microtasks alone while there are none.
LEMMA IdleMicro == ASSUME micro = <<>>, UNCHANGED micro PROVE MicroOK' /\ ~IsNext("retry")'
BY NoMicro

LEMMA FailAttemptMicro ==
    ASSUME RunOK, Working, micro = <<>>, FailAttempt
    PROVE  MicroOK' /\ ~IsNext("retry")'
<1>1. CASE attempt < MaxAttempts
  BY <1>1, IdleMicro DEF FailAttempt
<1>2. CASE ~(attempt < MaxAttempts)
  BY <1>2, CurrentIsJob, LeaveMicro DEF FailAttempt
<1>3. QED
  BY <1>1, <1>2

LEMMA MicroKept == RunOK /\ RetryOK /\ MicroOK /\ HandlerOK /\ Next => MicroOK'
<1> SUFFICES ASSUME RunOK, RetryOK, MicroOK, HandlerOK, Next PROVE MicroOK'
  OBVIOUS
<1>1. CASE RetryJobOnQueueIdle
  <2> DEFINE c == IF (IF data = NoData THEN [jobs |-> <<>>, retryAt |-> 1, timer |-> NoTime]
                                       ELSE data).jobs = <<>> /\ ~Working
                  THEN <<Callback>> ELSE <<>>
  <2>1. micro # <<>> /\ micro' = Tail(micro) \o c
    BY <1>1 DEF RetryJobOnQueueIdle, IsNext
  <2>2. AllCallbacks(c) /\ AllCallbacks(Tail(micro))
    BY <2>1, TaskFacts, MicroTail
  <2> HIDE DEF c
  <2>3. AllCallbacks(micro)'
    BY <2>1, <2>2, CallbacksConcat DEF AllCallbacks, Callback, Task, Tasks
  <2>4. QED
    BY <2>3, CallbacksOK, PTL
<1>2. CASE IdleCallback \/ ArmChallenge \/ StartConversation
  BY <1>2, MicroRuns DEF IdleCallback, ArmChallenge, StartConversation, IsNext
<1>3. CASE CancelJob
  BY <1>3, CurrentIsJob, LeaveMicro DEF CancelJob, MicroOK
<1>4. ASSUME micro = <<>>, Loaded \/ GiveUp \/ Sent PROVE MicroOK'
  BY <1>4, IsWorking, CurrentIsJob, LeaveMicro, IdleMicro DEF Loaded, GiveUp, Sent
<1>5. ASSUME micro = <<>>, Failed \/ Untrusted PROVE MicroOK'
  BY <1>5, IsWorking, CurrentIsJob, LeaveMicro, FailAttemptMicro DEF Failed, Untrusted
<1>6. ASSUME micro = <<>>, NEW t \in (1..MaxWait) \cup {NoTime}, Challenged(t) PROVE MicroOK'
  BY <1>6, IsWorking, CurrentIsJob, LeaveMicro, FailAttemptMicro DEF Challenged
<1>7. ASSUME micro = <<>>, AwaitCaptcha \/ StopWaiting PROVE MicroOK'
  BY <1>7, IdleMicro DEF AwaitCaptcha, StopWaiting, retry
<1>8. ASSUME micro = <<>>, GoOn PROVE MicroOK'
  <2> DEFINE t == Task("cancel", current)
  <2>1. Working /\ current' = current /\ Working'
    BY <1>8, IsWorking DEF GoOn, StillValid, Working
  <2>2. t \in Tasks /\ t.name = "cancel"
    BY <2>1, CurrentIsJob DEF Task, Tasks
  <2>3. micro' = micro \/ micro' = <<t>>
    BY <1>8 DEF GoOn
  <2> HIDE DEF t
  <2>4. QED
    BY <1>8, <2>1, <2>2, <2>3, IdleMicro, OneMicro
<1>9. ASSUME micro = <<>>, TimerCallback \/ Verified \/ UserCancels PROVE MicroOK'
  BY <1>9, IdleMicro DEF TimerCallback, Verified, UserCancels
<1>10. ASSUME micro = <<>>, StartTimerFires \/ (\E j \in Jobs : Add(j)) PROVE MicroOK'
  BY <1>10, IdleMicro DEF StartTimerFires, Add, retry
<1>11. ASSUME micro = <<>>, PutDone PROVE MicroOK'
  <2> DEFINE t == Task(Head(puts).next, Head(puts).value)
  <2>1. 1 \in 1..Len(puts) /\ Head(puts) = puts[1] /\ Head(puts) \in Puts
    BY <1>11 DEF PutDone, HandlerOK
  <2>2. /\ Head(puts).next = "arm" => Head(puts).value \in Challenge
        /\ Head(puts).value \in Challenge \cup {NoChallenge}
        /\ Head(puts).next \in {"arm", "start", "nothing"}
    BY <2>1 DEF HandlerOK, Puts
  <2>3. CASE Head(puts).next = "nothing"
    BY <1>11, <2>3, NoMicro DEF PutDone
  <2>4. CASE Head(puts).next # "nothing"
    <3>1. t \in Tasks /\ t.name = Head(puts).next /\ t.about = Head(puts).value
      BY <2>2, <2>4 DEF Task, Tasks
    <3>2. micro' = <<t>>
      BY <1>11, <2>4 DEF PutDone
    <3> HIDE DEF t
    <3>3. QED
      BY <2>2, <3>1, <3>2, OneMicro
  <2>5. QED
    BY <2>3, <2>4
<1>12. ASSUME micro = <<>>,
              OnOnline \/ OnOffline \/ OnResponse \/ SolveAccepted \/ SolveRejected \/ UserVerifies
       PROVE  MicroOK'
  BY <1>12, IdleMicro DEF OnOnline, OnOffline, OnResponse, SolveAccepted, SolveRejected,
     UserVerifies, retry
<1>13. ASSUME micro = <<>>, Restart PROVE MicroOK'
  BY <1>13, IdleMicro DEF Restart
<1>14. CASE Tick
  BY <1>14 DEF Tick, MicroOK, IsNext, Working, run, Callback, Task
<1>15. QED
  BY <1>1, <1>2, <1>3, <1>4, <1>5, <1>6, <1>7, <1>8, <1>9, <1>10, <1>11, <1>12, <1>13, <1>14
     DEF Next, Microtask, RunStep, HandlerStep, WorldStep

LEMMA LaterAlso ==
    /\ \A t \in Times : Nearer(t) \in Times /\ Nearer(t) <= t
    /\ Nearer(NoTime) = NoTime
    /\ \A t \in Times, u \in Times : t <= u => Nearer(t) <= Nearer(u)
BY WaitAssumption DEF Times, NoTime, Nearer

LEMMA UnchangedRetry ==
    ASSUME RetryOK, UNCHANGED <<data, orphans, waiter>>, idleWaiting' \in BOOLEAN
    PROVE  RetryOK'
BY DEF RetryOK

LEMMA LeaveIdle ==
    ASSUME RetryOK, Leave(TRUE) \/ Leave(FALSE) \/ FailAttempt PROVE idleWaiting' \in BOOLEAN
<1>1. ASSUME Leave(TRUE) \/ Leave(FALSE) PROVE idleWaiting' \in BOOLEAN
  BY <1>1 DEF Leave
<1>2. QED
  BY <1>1 DEF FailAttempt, RetryOK

\* The retry state that a challenge leaves.
LEMMA CaptureOK ==
    ASSUME RetryOK, NEW t \in (1..MaxWait) \cup {NoTime}, CaptureRetryAt(t)
    PROVE  /\ data' \in RetryState /\ data' # NoData
           /\ data # NoData => data'.retryAt >= data.retryAt /\ data'.jobs = data.jobs
                               /\ data'.timer = data.timer
           /\ data = NoData => data'.jobs = <<>>
           /\ t <= data'.retryAt
<1> DEFINE new == IF t = NoTime THEN 1 ELSE t
<1>1. new \in Times /\ t <= new /\ t \in Int
  BY WaitAssumption DEF Times, NoTime
<1>2. \A u \in Times : u \in Int
  BY DEF Times
<1> HIDE DEF new
<1>3. data' = IF data = NoData THEN [jobs |-> <<>>, retryAt |-> new, timer |-> NoTime]
              ELSE [data EXCEPT !.retryAt = IF @ >= new THEN @ ELSE new]
  BY DEF CaptureRetryAt, new
<1>4. CASE data = NoData
  <2>1. data' = [jobs |-> <<>>, retryAt |-> new, timer |-> NoTime]
    BY <1>3, <1>4
  <2>2. data' \in RetryState /\ data'.jobs = <<>> /\ data'.retryAt = new
    BY <1>1, <2>1 DEF RetryState
  <2>3. QED
    BY <1>1, <1>4, <2>2, NoneAssumption
<1>5. CASE data # NoData
  <2>1. data \in RetryState /\ data.retryAt \in Times
    BY <1>5 DEF RetryOK, RetryState
  <2>2. data' = [data EXCEPT !.retryAt = IF @ >= new THEN @ ELSE new]
    BY <1>3, <1>5
  <2>3. /\ data' \in RetryState /\ data'.jobs = data.jobs /\ data'.timer = data.timer
        /\ data'.retryAt = IF data.retryAt >= new THEN data.retryAt ELSE new
    BY <1>1, <2>1, <2>2 DEF RetryState
  <2>4. data'.retryAt >= data.retryAt /\ data'.retryAt >= new
    BY <1>1, <1>2, <2>1, <2>3
  <2>5. data'.retryAt \in Int /\ new \in Int
    BY <1>1, <1>2, <2>1, <2>3
  <2>6. QED
    BY <1>1, <1>5, <2>3, <2>4, <2>5, NoneAssumption
<1>6. QED
  BY <1>4, <1>5

\* The retry state after a job was put aside: the job is behind the others, and the timer
\* of the state has lost its handle.
LEMMA PutAsideFacts ==
    ASSUME RetryOK, MicroOK, RetryJobOnQueueIdle
    PROVE  /\ data' \in RetryState /\ data' # NoData /\ data'.timer = NoTime
           /\ Head(micro).about \in Jobs
           /\ data'.jobs = Append(Deferred, Head(micro).about)
           /\ data # NoData => data'.retryAt = data.retryAt /\ orphans' = orphans \cup ({data.timer} \ {NoTime})
           /\ data = NoData => data'.retryAt = 1 /\ orphans' = orphans
           /\ idleWaiting' = (idleWaiting \/ (Deferred = <<>> /\ Working))
           /\ micro' = Tail(micro) \o (IF Deferred = <<>> /\ ~Working THEN <<Callback>> ELSE <<>>)
<1> DEFINE old == IF data = NoData THEN [jobs |-> <<>>, retryAt |-> 1, timer |-> NoTime] ELSE data
           j == Head(micro).about
<1>1. j \in Jobs
  BY DEF RetryJobOnQueueIdle, MicroOK
<1>2. /\ data' = [old EXCEPT !.jobs = Append(@, j), !.timer = NoTime]
      /\ orphans' = orphans \cup ({old.timer} \ {NoTime})
      /\ idleWaiting' = (idleWaiting \/ (old.jobs = <<>> /\ Working))
      /\ micro' = Tail(micro) \o (IF old.jobs = <<>> /\ ~Working THEN <<Callback>> ELSE <<>>)
  BY Zenon DEF RetryJobOnQueueIdle
<1>3. old \in RetryState /\ old.jobs = Deferred
  BY JobsFacts DEF RetryOK, RetryState, Deferred
<1>4. data # NoData => old = data
  OBVIOUS
<1>5. data = NoData => old.retryAt = 1 /\ old.timer = NoTime
  OBVIOUS
<1> HIDE DEF j, old
<1>6. /\ data' \in RetryState /\ data'.jobs = Append(Deferred, j) /\ data'.timer = NoTime
      /\ data'.retryAt = old.retryAt
  <2>1. Append(old.jobs, j) \in Seq(Jobs)
    BY <1>1, <1>3 DEF RetryState
  <2>2. data' = [old EXCEPT !.jobs = Append(old.jobs, j), !.timer = NoTime]
    BY <1>2
  <2> DEFINE js == Append(old.jobs, j)
  <2> HIDE DEF js
  <2>3. js \in Seq(Jobs) /\ data' = [old EXCEPT !.jobs = js, !.timer = NoTime]
    BY <2>1, <2>2 DEF js
  <2>4. data' \in RetryState /\ data'.jobs = js /\ data'.timer = NoTime
        /\ data'.retryAt = old.retryAt
    BY <1>3, <2>3 DEF RetryState
  <2>5. QED
    BY <1>3, <2>4 DEF js
<1>7. data' # NoData
  BY <1>6, NoneAssumption
<1>8. orphans' = orphans \cup ({old.timer} \ {NoTime})
  BY <1>2
<1>9. data = NoData => orphans' = orphans
  BY <1>5, <1>8
<1>10. /\ idleWaiting' = (idleWaiting \/ (Deferred = <<>> /\ Working))
       /\ micro' = Tail(micro) \o (IF Deferred = <<>> /\ ~Working THEN <<Callback>> ELSE <<>>)
  BY <1>2, <1>3
<1>11. QED
  BY <1>1, <1>4, <1>5, <1>6, <1>7, <1>8, <1>9, <1>10 DEF j

LEMMA RetryKept == RetryOK /\ RunOK /\ MicroOK /\ Next => RetryOK'
<1> SUFFICES ASSUME RetryOK, RunOK, MicroOK, Next PROVE RetryOK'
  OBVIOUS
<1>1. ASSUME RetryCallback \/ Unblock PROVE data' \in RetryState \cup {NoData}
  BY <1>1, RetryParts DEF RetryOK, RetryState
<1>2. ASSUME ResolveVerificationWaiter
      PROVE  data' \in RetryState \cup {NoData} /\ waiter' \in BOOLEAN
  BY <1>1, <1>2, WaiterParts DEF RetryOK
<1>3. CASE RetryJobOnQueueIdle
  <2>1. data' \in RetryState /\ waiter' = waiter
    BY <1>3, PutAsideFacts DEF RetryJobOnQueueIdle
  <2>2. orphans' \subseteq Times
    BY <1>3, PutAsideFacts DEF RetryOK, RetryState
  <2>3. idleWaiting' \in BOOLEAN
    BY <1>3, PutAsideFacts
  <2>4. QED
    BY <2>1, <2>2, <2>3 DEF RetryOK
<1>4. CASE IdleCallback \/ TimerCallback
  <2>1. orphans' \subseteq Times /\ UNCHANGED <<idleWaiting, waiter>>
    BY <1>4 DEF IdleCallback, TimerCallback, RetryOK
  <2>2. QED
    BY <1>1, <1>4, <2>1 DEF IdleCallback, TimerCallback, RetryOK
<1>5. CASE StartConversation \/ Verified \/ UserCancels
  BY <1>2, <1>5 DEF StartConversation, Verified, UserCancels, RetryOK
<1>6. CASE CancelJob \/ GiveUp \/ Sent \/ Loaded
  BY <1>6, LeaveIdle, UnchangedRetry DEF CancelJob, GiveUp, Sent, Loaded, RetryOK
<1>7. CASE Failed \/ Untrusted
  BY <1>7, LeaveIdle, UnchangedRetry DEF Failed, Untrusted
<1>8. CASE \E t \in (1..MaxWait) \cup {NoTime} : Challenged(t)
  <2> PICK t \in (1..MaxWait) \cup {NoTime} : Challenged(t)
    BY <1>8
  <2>1. idleWaiting' \in BOOLEAN /\ UNCHANGED <<orphans, waiter>>
    BY LeaveIdle DEF Challenged
  <2>2. data' = data \/ CaptureRetryAt(t)
    BY DEF Challenged
  <2>3. QED
    BY <2>1, <2>2, CaptureOK DEF RetryOK
<1>9. CASE ArmChallenge \/ PutDone
  BY <1>9, UnchangedRetry DEF ArmChallenge, PutDone, RetryOK
<1>10. CASE AwaitCaptcha \/ StopWaiting
  BY <1>10 DEF AwaitCaptcha, StopWaiting, retry, RetryOK
<1>11. CASE GoOn
  BY <1>11 DEF GoOn, RetryOK
<1>12. CASE StartTimerFires \/ (\E j \in Jobs : Add(j))
  BY <1>12, UnchangedRetry DEF StartTimerFires, Add, retry, RetryOK
<1>13. CASE OnOnline \/ OnOffline \/ OnResponse \/ SolveAccepted \/ SolveRejected \/ UserVerifies
  BY <1>13, UnchangedRetry DEF OnOnline, OnOffline, OnResponse, SolveAccepted, SolveRejected,
     UserVerifies, retry, RetryOK
<1>14. CASE Restart
  BY <1>14 DEF Restart, RetryOK
<1>15. CASE Tick
  <2>1. ASSUME data # NoData PROVE data' \in RetryState
    <3>1. data \in RetryState /\ data' = [data EXCEPT !.retryAt = Nearer(@), !.timer = Nearer(@)]
      BY <1>15, <2>1 DEF Tick, RetryOK
    <3>2. QED
      BY <3>1, LaterAlso DEF RetryState
  <2>2. data = NoData => data' = NoData
    BY <1>15 DEF Tick
  <2>3. orphans' \subseteq Times /\ UNCHANGED <<idleWaiting, waiter>>
    BY <1>15, LaterAlso DEF Tick, RetryOK
  <2>4. QED
    BY <2>1, <2>2, <2>3 DEF RetryOK
<1>16. QED
  BY <1>3, <1>4, <1>5, <1>6, <1>7, <1>8, <1>9, <1>10, <1>11, <1>12, <1>13, <1>14, <1>15
     DEF Next, Microtask, RunStep, HandlerStep, WorldStep

LEMMA UnchangedRest ==
    ASSUME RestOK, UNCHANGED <<solving, trust, persisted, online>>, age' \in 0..Lifetime, told' \in Times
    PROVE  RestOK'
BY DEF RestOK, solving, trust

LEMMA SolveOK ==
    ASSUME RestOK, MaybeSolve \/ Solve
    PROVE  asked' \in Nat /\ answering' \in Nat /\ token' \in BOOLEAN
<1>1. CASE UNCHANGED solving
  BY <1>1 DEF solving, RestOK
<1>2. CASE Solve
  <2>1. asked' \in Nat /\ answering' \in Nat
    BY <1>2 DEF Solve, RestOK
  <2>2. token' = TRUE
    BY <1>2 DEF Solve
  <2>3. QED
    BY <2>1, <2>2
<1>3. QED
  BY <1>1, <1>2 DEF MaybeSolve

LEMMA RestKept == RestOK /\ HandlerOK /\ MicroOK /\ JobsOK /\ Next => RestOK'
<1> SUFFICES ASSUME RestOK, HandlerOK, MicroOK, JobsOK, Next PROVE RestOK'
  OBVIOUS
<1>1. CASE RetryJobOnQueueIdle \/ CancelJob \/ IdleCallback \/ TimerCallback
  BY <1>1, UnchangedRest DEF RetryJobOnQueueIdle, CancelJob, IdleCallback, TimerCallback, world, RestOK
<1>2. CASE ArmChallenge
  <2>1. asked' \in Nat /\ answering' \in Nat /\ token' \in BOOLEAN
    BY <1>2, SolveOK DEF ArmChallenge, solving, RestOK
  <2>2. QED
    BY <1>2, <2>1 DEF ArmChallenge, world, trust, RestOK
<1>3. ASSUME ResolveVerificationWaiter PROVE told' \in Times
  BY <1>3, WaiterParts, JobsFacts DEF RestOK
<1>4. CASE StartConversation
  BY <1>3, <1>4, UnchangedRest DEF StartConversation, world, RestOK
<1>5. CASE Verified \/ UserCancels
  <2>1. told' \in Times /\ UNCHANGED <<solving, world>>
    BY <1>3, <1>5 DEF Verified, UserCancels
  <2>2. verification' \in {"none", "pending", "cancelled"} /\ cancelled' \subseteq Jobs
        /\ verifying' \in BOOLEAN
    <3>1. CASE Verified
      BY <1>5, <3>1 DEF Verified, RestOK
    <3>2. CASE UserCancels
      <4>1. verification' = "cancelled" /\ cancelled' = Range(added) /\ UNCHANGED verifying
        BY <3>2 DEF UserCancels
      <4>2. Range(added) \subseteq Jobs
        BY DEF JobsOK, Range
      <4>3. QED
        BY <4>1, <4>2 DEF RestOK
    <3>3. QED
      BY <1>5, <3>1, <3>2
  <2>3. QED
    BY <2>1, <2>2 DEF RestOK, solving, world
<1>6. CASE Loaded \/ GiveUp \/ StopWaiting \/ Sent \/ Failed
  BY <1>6, UnchangedRest DEF Loaded, GiveUp, StopWaiting, Sent, Failed, world, RestOK
<1>7. CASE AwaitCaptcha
  BY <1>7, SolveOK DEF AwaitCaptcha, world, trust, RestOK
<1>8. CASE Untrusted
  BY <1>8 DEF Untrusted, solving, RestOK
<1>9. CASE GoOn
  BY <1>9, JobsFacts DEF GoOn, solving, world, RestOK
<1>10. CASE \E t \in (1..MaxWait) \cup {NoTime} : Challenged(t)
  <2> PICK t \in (1..MaxWait) \cup {NoTime} : Challenged(t)
    BY <1>10
  <2>1. UNCHANGED <<solving, trust, online, persisted, age>>
        /\ (told' = told \/ (~(told >= t) /\ told' = t))
    BY DEF Challenged
  <2>2. told \in Times
    BY DEF RestOK
  <2>3. ~(told >= t) => t \in Times
    BY <2>2, WaitAssumption DEF Times, NoTime
  <2>4. QED
    BY <2>1, <2>2, <2>3, UnchangedRest DEF RestOK
<1>11. CASE StartTimerFires
  BY <1>11, UnchangedRest DEF StartTimerFires, world, RestOK
<1>12. CASE PutDone
  <2>1. puts # <<>> /\ persisted' = Head(puts).value
    BY <1>12 DEF PutDone
  <2>2. Head(puts) \in Puts
    BY <2>1, TailFacts DEF HandlerOK
  <2>3. persisted' \in Challenge \cup {NoChallenge}
    BY <2>1, <2>2 DEF Puts
  <2>4. QED
    BY <1>12, <2>3 DEF PutDone, solving, trust, RestOK
<1>13. CASE \E j \in Jobs : Add(j)
  <2>1. asked' \in Nat /\ answering' \in Nat /\ token' \in BOOLEAN
    BY <1>13, SolveOK DEF Add, solving, RestOK
  <2>2. QED
    BY <1>13, <2>1 DEF Add, trust, world, RestOK
<1>14. CASE OnOnline \/ OnOffline
  BY <1>14 DEF OnOnline, OnOffline, solving, trust, RestOK
<1>15. CASE OnResponse
  <2>1. asked' \in Nat /\ answering' \in Nat
    BY <1>15 DEF OnResponse, RestOK
  <2>2. QED
    BY <1>15, <2>1 DEF OnResponse, trust, world, RestOK
<1>16. CASE SolveAccepted \/ SolveRejected
  <2>1. answering' \in Nat
    BY <1>16 DEF SolveAccepted, SolveRejected, RestOK
  <2>2. QED
    BY <1>16, <2>1 DEF SolveAccepted, SolveRejected, trust, world, RestOK
<1>17. CASE UserVerifies
  BY <1>17 DEF UserVerifies, solving, world, RestOK
<1>18. CASE Restart
  BY <1>18, JobsFacts DEF Restart, RestOK
<1>19. CASE Tick
  <2>1. age' \in 0..Lifetime
    BY <1>19, BoundsAssumption DEF Tick, RestOK
  <2>2. told' \in Times
    BY <1>19, LaterAlso DEF Tick, RestOK
  <2>3. persisted' \in Challenge \cup {NoChallenge}
    <3>1. \A t \in Times \cup {NoTime} : Nearer(t) \in Times \cup {NoTime}
      BY LaterAlso
    <3>2. persisted # NoChallenge => persisted' = [persisted EXCEPT !.retryAt = Nearer(@)]
      BY <1>19 DEF Tick, NearerChallenge
    <3>3. persisted = NoChallenge => persisted' = NoChallenge
      BY <1>19 DEF Tick, NearerChallenge
    <3>4. QED
      BY <3>1, <3>2, <3>3 DEF RestOK, Challenge
  <2>4. QED
    BY <1>19, <2>1, <2>2, <2>3 DEF Tick, RestOK, solving, trust
<1>20. QED
  BY <1>1, <1>2, <1>4, <1>5, <1>6, <1>7, <1>8, <1>9, <1>10, <1>11, <1>12, <1>13, <1>14, <1>15, <1>16, <1>17,
     <1>18, <1>19 DEF Next, Microtask, RunStep, HandlerStep, WorldStep

\* The rows go with the jobs that are over.
LEMMA RowsShrink ==
    ASSUME Leave(TRUE) \/ Leave(FALSE) \/ FailAttempt PROVE rows' \subseteq rows
<1>1. ASSUME Leave(TRUE) \/ Leave(FALSE) PROVE rows' \subseteq rows
  BY <1>1 DEF Leave
<1>2. QED
  BY <1>1 DEF FailAttempt

\* A job that is added is a new one.
LEMMA AddedIsNew ==
    ASSUME JobsOK, NEW j \in Jobs, Add(j)
    PROVE  j \notin Range(added) /\ JobsOK'
<1>1. /\ Arrivals \in Seq(Jobs) /\ Len(Arrivals) \in Nat /\ Len(added) \in Nat
      /\ added \in Seq(Jobs) /\ DOMAIN added = 1..Len(added) /\ DOMAIN Arrivals = 1..Len(Arrivals)
      /\ Len(added) < Len(Arrivals) /\ j = Arrivals[Len(added) + 1]
  BY JobsAssumption DEF JobsOK, Add
<1>2. \A i \in 1..Len(added) : /\ i \in DOMAIN Arrivals /\ Len(added) + 1 \in DOMAIN Arrivals
                               /\ i # Len(added) + 1
  BY <1>1
<1>3. \A i \in 1..Len(added) : added[i] # j
  BY <1>1, <1>2, JobsAssumption DEF JobsOK, IsInjective
<1>4. j \notin Range(added)
  BY <1>1, <1>3 DEF Range
<1>5. added' = Append(added, j) /\ rows' = rows \cup {j}
  BY DEF Add
<1>6. /\ added' \in Seq(Jobs) /\ Len(added') = Len(added) + 1
      /\ \A i \in 1..Len(added) : added'[i] = added[i]
      /\ added'[Len(added) + 1] = j
  BY <1>1, <1>5, AppendFacts
<1>7. Range(added') = Range(added) \cup {j} /\ IsInjective(added')
  BY <1>1, <1>4, <1>5, AppendElements DEF JobsOK
<1>8. Len(added') <= Len(Arrivals) /\ \A i \in 1..Len(added') : added'[i] = Arrivals[i]
  BY <1>1, <1>6 DEF JobsOK
<1>9. QED
  BY <1>4, <1>5, <1>6, <1>7, <1>8 DEF JobsOK

LEMMA JobsKept == JobsOK /\ Next => JobsOK'
<1> SUFFICES ASSUME JobsOK, Next PROVE JobsOK'
  OBVIOUS
<1>1. ASSUME added' = added, rows' \subseteq rows PROVE JobsOK'
  BY <1>1 DEF JobsOK
<1>2. CASE CancelJob \/ GiveUp \/ Sent \/ Loaded \/ Failed \/ Untrusted
  BY <1>1, <1>2, RowsShrink DEF CancelJob, GiveUp, Sent, Loaded, Failed, Untrusted
<1>3. CASE \E t \in (1..MaxWait) \cup {NoTime} : Challenged(t)
  BY <1>1, <1>3, RowsShrink DEF Challenged
<1>4. CASE \E j \in Jobs : Add(j)
  BY <1>4, AddedIsNew
<1>5. CASE UNCHANGED job
  BY <1>1, <1>5 DEF job
<1>6. QED
  BY <1>2, <1>3, <1>4, <1>5
     DEF Next, Microtask, RunStep, HandlerStep, WorldStep, RetryJobOnQueueIdle, IdleCallback,
         ArmChallenge, StartConversation, AwaitCaptcha, GoOn, StopWaiting, TimerCallback,
         StartTimerFires, PutDone, Verified, OnOnline, OnOffline, OnResponse, SolveAccepted,
         SolveRejected, UserVerifies, UserCancels, Restart, Tick

-------------------------------------------------------------------------------
(* The places of the jobs *)

Retrying == IF IsNext("retry") THEN {Head(micro).about} ELSE {}
AtWork == IF Working THEN {current} ELSE {}

\* Four places that share nothing and make up the rows.
Apart(A, B, C, D, all) ==
  /\ A \cap B = {} /\ A \cap C = {} /\ A \cap D = {}
  /\ B \cap C = {} /\ B \cap D = {} /\ C \cap D = {}
  /\ all = A \cup B \cup C \cup D

Places ==
  /\ IsInjective(queue) /\ IsInjective(Deferred)
  /\ Apart(Range(queue), Range(Deferred), Retrying, AtWork, rows)

LEMMA OneElement ==
    ASSUME NEW S, NEW e \in S
    PROVE  <<e>> \in Seq(S) /\ Range(<<e>>) = {e} /\ IsInjective(<<e>>)
<1> DEFINE s == <<e>>
<1>1. s \in Seq(S) /\ DOMAIN s = 1..1 /\ s[1] = e
  OBVIOUS
<1> HIDE DEF s
<1>2. \A i \in 1..1 : i = 1
  OBVIOUS
<1>3. Range(s) = {e} /\ IsInjective(s)
  BY <1>1, <1>2 DEF Range, IsInjective
<1>4. QED
  BY <1>1, <1>3 DEF s

LEMMA NoElements == Range(<<>>) = {} /\ IsInjective(<<>>)
<1>1. DOMAIN <<>> = {}
  OBVIOUS
<1>2. QED
  BY <1>1 DEF Range, IsInjective

LEMMA DeferredOK == ASSUME RetryOK PROVE Deferred \in Seq(Jobs)
BY DEF RetryOK, RetryState, Deferred

\* The property, place by place.
LEMMA OnePlaceIs ==
    ASSUME RunOK, RetryOK, MicroOK
    PROVE  OnePlaceForEachJob <=> Places
<1> DEFINE r == Returning
           w == IF Working THEN <<current>> ELSE <<>>
           d == Deferred
           q == queue
<1>1. r \in Seq(Jobs) /\ Range(r) = Retrying /\ IsInjective(r)
  <2>1. IsNext("retry") => Head(micro).about \in Jobs
    BY DEF MicroOK
  <2>2. CASE IsNext("retry")
    <3>1. r = <<Head(micro).about>> /\ Retrying = {Head(micro).about}
      BY <2>2 DEF Returning, Retrying
    <3>2. QED
      BY <2>1, <2>2, <3>1, OneElement
  <2>3. CASE ~IsNext("retry")
    <3>1. r = <<>> /\ Retrying = {}
      BY <2>3 DEF Returning, Retrying
    <3>2. r \in Seq(Jobs)
      BY <3>1
    <3>3. QED
      BY <3>1, <3>2, NoElements, Zenon
  <2>4. QED
    BY <2>2, <2>3
<1>2. w \in Seq(Jobs) /\ Range(w) = AtWork /\ IsInjective(w)
  <2>1. Working => current \in Jobs
    BY CurrentIsJob
  <2>2. CASE Working
    <3>1. w = <<current>> /\ AtWork = {current}
      BY <2>2 DEF AtWork
    <3>2. QED
      BY <2>1, <2>2, <3>1, OneElement
  <2>3. CASE ~Working
    <3>1. w = <<>> /\ AtWork = {}
      BY <2>3 DEF AtWork
    <3>2. w \in Seq(Jobs)
      BY <3>1
    <3>3. QED
      BY <3>1, <3>2, NoElements, Zenon
  <2>4. QED
    BY <2>2, <2>3
<1>3. d \in Seq(Jobs) /\ q \in Seq(Jobs)
  BY DeferredOK DEF RunOK
<1>4. OnePlaceForEachJob <=> IsInjective(((q \o d) \o r) \o w) /\ Range(((q \o d) \o r) \o w) = rows
  BY DEF OnePlaceForEachJob, InHand
<1>5. Places <=> IsInjective(q) /\ IsInjective(d) /\ Apart(Range(q), Range(d), Range(r), Range(w), rows)
  BY <1>1, <1>2 DEF Places
<1> HIDE DEF r, w, d, q
<1>6. /\ q \o d \in Seq(Jobs) /\ Range(q \o d) = Range(q) \cup Range(d)
      /\ IsInjective(q \o d) <=> IsInjective(q) /\ IsInjective(d) /\ Range(q) \cap Range(d) = {}
  BY <1>3, ConcatElements, ConcatFacts
<1> DEFINE u == q \o d
<1> HIDE DEF u
<1>7. u \in Seq(Jobs)
  BY <1>6 DEF u
<1>8. /\ u \o r \in Seq(Jobs) /\ Range(u \o r) = Range(u) \cup Range(r)
      /\ IsInjective(u \o r) <=> IsInjective(u) /\ IsInjective(r) /\ Range(u) \cap Range(r) = {}
  BY <1>1, <1>7, ConcatElements, ConcatFacts
<1> DEFINE v == u \o r
<1> HIDE DEF v
<1>9. v \in Seq(Jobs)
  BY <1>8 DEF v
<1>10. /\ Range(v \o w) = Range(v) \cup Range(w)
       /\ IsInjective(v \o w) <=> IsInjective(v) /\ IsInjective(w) /\ Range(v) \cap Range(w) = {}
  BY <1>2, <1>9, ConcatElements
<1>11. OnePlaceForEachJob <=> IsInjective(v \o w) /\ Range(v \o w) = rows
  BY <1>4 DEF u, v
<1>12. Range(v) = Range(q) \cup Range(d) \cup Range(r)
       /\ (IsInjective(v) <=> IsInjective(q) /\ IsInjective(d) /\ Range(q) \cap Range(d) = {}
                               /\ (Range(q) \cup Range(d)) \cap Range(r) = {})
  BY <1>1, <1>6, <1>8 DEF u, v
<1> DEFINE Q == Range(q)
           D == Range(d)
           R == Range(r)
           W == Range(w)
<1> HIDE DEF Q, D, R, W
<1>13. /\ (Q \cup D) \cap R = {} <=> Q \cap R = {} /\ D \cap R = {}
       /\ (Q \cup D \cup R) \cap W = {} <=> Q \cap W = {} /\ D \cap W = {} /\ R \cap W = {}
  OBVIOUS
<1>14. OnePlaceForEachJob <=> /\ IsInjective(q) /\ IsInjective(d) /\ Q \cap D = {}
                              /\ (Q \cup D) \cap R = {} /\ (Q \cup D \cup R) \cap W = {}
                              /\ Q \cup D \cup R \cup W = rows
  BY <1>2, <1>10, <1>11, <1>12 DEF Q, D, R, W
<1>15. Places <=> /\ IsInjective(q) /\ IsInjective(d)
                  /\ Q \cap D = {} /\ Q \cap R = {} /\ Q \cap W = {}
                  /\ D \cap R = {} /\ D \cap W = {} /\ R \cap W = {}
                  /\ rows = Q \cup D \cup R \cup W
  BY <1>5 DEF Apart, Q, D, R, W
<1>16. QED
  BY <1>13, <1>14, <1>15

\* The places of the queue and of the job at work, when the next job starts.
LEMMA StartNextPlaces ==
    ASSUME NEW q \in Seq(Jobs), IsInjective(q), NEW b, StartNext(q, b)
    PROVE  /\ IsInjective(queue)' /\ Range(queue') \cap AtWork' = {}
           /\ Range(queue') \cup AtWork' = Range(q)
<1>1. CASE q = <<>>
  <2>1. queue' = <<>> /\ current' = NoJob
    BY <1>1 DEF StartNext
  <2>2. AtWork' = {}
    BY <2>1 DEF AtWork, Working
  <2>3. IsInjective(queue)' <=> IsInjective(queue')
    BY DEF IsInjective
  <2>4. QED
    BY <1>1, <2>1, <2>2, <2>3, NoElements
<1>2. CASE q # <<>>
  <2>1. queue' = Tail(q) /\ current' = Head(q)
    BY <1>2 DEF StartNext
  <2>2. Head(q) \in Jobs /\ Head(q) # NoJob
    BY <1>2, JobsFacts
  <2>3. AtWork' = {Head(q)}
    BY <2>1, <2>2 DEF AtWork, Working
  <2>4. IsInjective(queue)' <=> IsInjective(queue')
    BY DEF IsInjective
  <2>5. QED
    BY <1>2, <2>1, <2>3, <2>4, TailElements
<1>3. QED
  BY <1>1, <1>2

\* Jobs that are in none of these places are queued.
LEMMA EnqueuePlaces ==
    ASSUME RunOK, NEW js \in Seq(Jobs), IsInjective(js), NEW b, Enqueue(js, b),
           IsInjective(queue), Range(queue) \cap AtWork = {},
           Range(js) \cap Range(queue) = {}, Range(js) \cap AtWork = {}
    PROVE  /\ IsInjective(queue)' /\ Range(queue') \cap AtWork' = {}
           /\ Range(queue') \cup AtWork' = Range(queue) \cup AtWork \cup Range(js)
<1> DEFINE q == queue \o js
<1>1. q \in Seq(Jobs) /\ Range(q) = Range(queue) \cup Range(js) /\ IsInjective(q)
  BY ConcatElements, ConcatFacts DEF RunOK
<1> HIDE DEF q
<1>2. CASE Working
  <2>1. queue' = q /\ current' = current
    BY <1>2 DEF Enqueue, q
  <2>2. AtWork' = AtWork
    BY <2>1 DEF AtWork, Working
  <2>3. IsInjective(queue)' <=> IsInjective(queue')
    BY DEF IsInjective
  <2>4. QED
    BY <1>1, <2>1, <2>2, <2>3
<1>3. CASE ~Working
  <2>1. StartNext(q, b)
    BY <1>3 DEF Enqueue, q
  <2>2. AtWork = {}
    BY <1>3 DEF AtWork
  <2>3. QED
    BY <1>1, <2>1, <2>2, StartNextPlaces
<1>4. QED
  BY <1>2, <1>3

LEMMA PlacesFrom ==
    ASSUME IsInjective(queue)', IsInjective(Deferred)',
           Apart(Range(queue'), Range(Deferred'), Retrying', AtWork', rows')
    PROVE  Places'
<1>1. Places' <=> /\ IsInjective(queue)' /\ IsInjective(Deferred)'
                  /\ Apart(Range(queue'), Range(Deferred'), Retrying', AtWork', rows')
  BY DEF Places, Range, Apart
<1>2. QED
  BY <1>1

LEMMA SamePlaces ==
    ASSUME Places, UNCHANGED <<queue, current, rows>>, Deferred' = Deferred, Retrying' = Retrying
    PROVE  Places'
<1>1. AtWork' = AtWork
  BY DEF AtWork, Working
<1>2. IsInjective(queue)' /\ IsInjective(Deferred)'
  BY DEF Places, IsInjective
<1>3. Apart(Range(queue'), Range(Deferred'), Retrying', AtWork', rows')
  BY <1>1 DEF Places
<1>4. QED
  BY <1>2, <1>3, PlacesFrom

LEMMA DeferredIs ==
    /\ data = NoData => Deferred = <<>>
    /\ data # NoData => Deferred = data.jobs
    /\ data' = NoData => Deferred' = <<>>
    /\ data' # NoData => Deferred' = data'.jobs
BY DEF Deferred

LEMMA RetryingIs ==
    /\ ~IsNext("retry") => Retrying = {}
    /\ IsNext("retry") => Retrying = {Head(micro).about}
    /\ ~IsNext("retry")' => Retrying' = {}
    /\ IsNext("retry")' => Retrying' = {Head(micro').about}
BY DEF Retrying

\* All that was put aside is queued.
LEMMA AllQueued ==
    ASSUME RunOK, RetryOK, Places, Retrying = {}, Retrying' = {}, rows' = rows, data' = NoData,
           \/ \E b \in BOOLEAN : Enqueue(Deferred, b)
           \/ queue' = queue \o Deferred /\ current' = current
    PROVE  Places'
<1> DEFINE js == Deferred
<1>1. js \in Seq(Jobs) /\ IsInjective(js)
  BY DeferredOK DEF Places
<1>2. IsInjective(Deferred)' /\ Range(Deferred') = {}
  <2>1. Deferred' = <<>>
    BY DeferredIs
  <2>2. QED
    BY <2>1, NoElements DEF IsInjective
<1>3. IsInjective(queue) /\ Apart(Range(queue), Range(js), {}, AtWork, rows)
  BY DEF Places
<1> HIDE DEF js
<1>4. /\ IsInjective(queue)' /\ Range(queue') \cap AtWork' = {}
      /\ Range(queue') \cup AtWork' = Range(queue) \cup AtWork \cup Range(js)
  <2>1. CASE \E b \in BOOLEAN : Enqueue(js, b)
    BY <1>1, <1>3, <2>1, EnqueuePlaces DEF Apart
  <2>2. CASE queue' = queue \o js /\ current' = current
    <3>1. AtWork' = AtWork
      BY <2>2 DEF AtWork, Working
    <3>2. Range(queue \o js) = Range(queue) \cup Range(js) /\ IsInjective(queue \o js)
      BY <1>1, <1>3, ConcatElements DEF RunOK, Apart
    <3>3. IsInjective(queue)' <=> IsInjective(queue')
      BY DEF IsInjective
    <3>4. QED
      BY <1>3, <2>2, <3>1, <3>2, <3>3 DEF Apart
  <2>3. QED
    BY <2>1, <2>2 DEF js
<1>5. Apart(Range(queue'), Range(Deferred'), Retrying', AtWork', rows')
  BY <1>2, <1>3, <1>4 DEF Apart
<1>6. QED
  BY <1>2, <1>4, <1>5, PlacesFrom

LEMMA RetryPlaces ==
    ASSUME RunOK, RetryOK, Places, Retrying = {}, Retrying' = {}, rows' = rows,
           RetryCallback \/ Unblock
    PROVE  Places'
<1>1. CASE UNCHANGED run /\ data' = data
  BY <1>1, SamePlaces DEF run, Deferred
<1>2. CASE UNCHANGED run /\ data # NoData /\ data' = [data EXCEPT !.timer = data.retryAt]
  <2>1. data \in RetryState /\ data' \in RetryState /\ data'.jobs = data.jobs
    BY <1>2 DEF RetryOK, RetryState
  <2>2. Deferred' = Deferred
    BY <1>2, <2>1, DeferredIs, NoneAssumption
  <2>3. QED
    BY <1>2, <2>2, SamePlaces DEF run
<1>3. CASE data # NoData /\ data' = NoData /\ \E b \in BOOLEAN : Enqueue(data.jobs, b)
  BY <1>3, DeferredIs, AllQueued
<1>4. QED
  BY <1>1, <1>2, <1>3, RetryParts

LEMMA WaiterPlaces ==
    ASSUME RunOK, RetryOK, Places, Retrying = {}, Retrying' = {}, rows' = rows,
           ResolveVerificationWaiter
    PROVE  Places'
<1>1. CASE UNCHANGED <<queue, current, data>>
  BY <1>1, SamePlaces DEF Deferred
<1>2. QED
  BY <1>1, WaiterParts, RetryPlaces

LEMMA LeavePlaces ==
    ASSUME RunOK, Places, Working, Retrying = {}, NEW b \in BOOLEAN, Leave(b),
           Deferred' = Deferred
    PROVE  Places'
<1>1. current \in Jobs /\ queue \in Seq(Jobs) /\ AtWork = {current}
  BY CurrentIsJob DEF AtWork, RunOK
<1>2. Retrying' = IF b THEN {current} ELSE {}
  BY <1>1, LeaveMicro, RetryingIs
<1>3. rows' = IF b THEN rows ELSE rows \ {current}
  BY DEF Leave
<1>4. /\ IsInjective(queue)' /\ Range(queue') \cap AtWork' = {}
      /\ Range(queue') \cup AtWork' = Range(queue)
  BY <1>1, StartNextPlaces DEF Leave, Places
<1>5. IsInjective(Deferred)' /\ Range(Deferred') = Range(Deferred)
  BY DEF Places, IsInjective
<1>6. Apart(Range(queue), Range(Deferred), {}, {current}, rows)
  BY <1>1 DEF Places
<1>7. Apart(Range(queue'), Range(Deferred'), Retrying', AtWork', rows')
  BY <1>2, <1>3, <1>4, <1>5, <1>6 DEF Apart
<1>8. QED
  BY <1>4, <1>5, <1>7, PlacesFrom

LEMMA FailAttemptPlaces ==
    ASSUME RunOK, Places, Working, Retrying = {}, FailAttempt, Deferred' = Deferred
    PROVE  Places'
<1>1. CASE attempt < MaxAttempts
  <2>1. UNCHANGED <<queue, current, rows, micro>>
    BY <1>1 DEF FailAttempt
  <2>2. Retrying' = Retrying
    BY <2>1 DEF Retrying, IsNext
  <2>3. QED
    BY <2>1, <2>2, SamePlaces
<1>2. CASE ~(attempt < MaxAttempts)
  BY <1>2, LeavePlaces DEF FailAttempt
<1>3. QED
  BY <1>1, <1>2

\* Which retries are under way, when none was before the step or it was the microtask.
LEMMA NotRetrying ==
    /\ micro = <<>> => Retrying = {}
    /\ micro' = <<>> => Retrying' = {}
    /\ \A n : IsNext(n) /\ n # "retry" => Retrying = {}
<1>1. micro = <<>> => Retrying = {}
  BY DEF Retrying, IsNext
<1>2. micro' = <<>> => ~IsNext("retry")'
  BY DEF IsNext
<1>3. ASSUME NEW n, IsNext(n), n # "retry" PROVE Retrying = {}
  BY <1>3 DEF Retrying, IsNext
<1>4. QED
  BY <1>1, <1>2, <1>3, RetryingIs

LEMMA PlacesKept == RunOK /\ RetryOK /\ MicroOK /\ JobsOK /\ HandlerOK /\ Places /\ Next => Places'
<1> SUFFICES ASSUME RunOK, RetryOK, MicroOK, JobsOK, HandlerOK, Places, Next PROVE Places'
  OBVIOUS
<1>1. CASE RetryJobOnQueueIdle
  <2> DEFINE j == Head(micro).about
  <2>1. j \in Jobs /\ data' # NoData /\ data'.jobs = Append(Deferred, j)
    BY <1>1, PutAsideFacts
  <2>2. micro # <<>> /\ Retrying = {j} /\ UNCHANGED <<queue, current, rows>>
    BY <1>1, RetryingIs DEF RetryJobOnQueueIdle, IsNext, job, run
  <2>3. ~IsNext("retry")'
    <3> DEFINE c == IF Deferred = <<>> /\ ~Working THEN <<Callback>> ELSE <<>>
    <3>1. micro' = Tail(micro) \o c
      BY <1>1, PutAsideFacts
    <3>2. AllCallbacks(c) /\ AllCallbacks(Tail(micro))
      BY <2>2, TaskFacts, MicroTail
    <3> HIDE DEF c
    <3>3. AllCallbacks(micro)'
      BY <3>1, <3>2, CallbacksConcat DEF AllCallbacks, Callback, Task, Tasks
    <3>4. QED
      BY <3>3, CallbacksOK, PTL
  <2> HIDE DEF j
  <2>4. Deferred' = Append(Deferred, j) /\ Retrying' = {}
    BY <2>1, <2>3, DeferredIs, RetryingIs
  <2>5. Apart(Range(queue), Range(Deferred), {j}, AtWork, rows)
    BY <2>2 DEF Places
  <2>6. Range(Append(Deferred, j)) = Range(Deferred) \cup {j} /\ IsInjective(Append(Deferred, j))
    BY <2>1, <2>5, DeferredOK, AppendElements DEF Places, Apart
  <2>7. IsInjective(Deferred)' /\ IsInjective(queue)' /\ AtWork' = AtWork
    BY <2>2, <2>4, <2>6 DEF Places, IsInjective, AtWork, Working
  <2>8. Apart(Range(queue'), Range(Deferred'), Retrying', AtWork', rows')
    BY <2>2, <2>4, <2>5, <2>6, <2>7 DEF Apart
  <2>9. QED
    BY <2>7, <2>8, PlacesFrom
<1>2. ASSUME micro # <<>>, micro' = Tail(micro) PROVE Retrying' = {}
  BY <1>2, MicroRuns, RetryingIs
<1>3. CASE IdleCallback
  <2>1. Retrying = {} /\ Retrying' = {} /\ rows' = rows
    BY <1>2, <1>3, NotRetrying DEF IdleCallback, IsNext, job
  <2>2. QED
    BY <1>3, <2>1, RetryPlaces DEF IdleCallback
<1>4. CASE CancelJob
  <2>1. Retrying = {} /\ Deferred' = Deferred /\ Working
    BY <1>4, NotRetrying DEF CancelJob, Deferred, MicroOK
  <2>2. QED
    BY <1>4, <2>1, LeavePlaces DEF CancelJob
<1>5. CASE ArmChallenge
  <2>1. Retrying = {} /\ Retrying' = {} /\ Deferred' = Deferred
    BY <1>2, <1>5, NotRetrying DEF ArmChallenge, IsNext, Deferred
  <2>2. QED
    BY <1>5, <2>1, SamePlaces DEF ArmChallenge, job, run
<1>6. CASE StartConversation
  <2>1. Retrying = {} /\ Retrying' = {} /\ rows' = rows
    BY <1>2, <1>6, NotRetrying DEF StartConversation, IsNext, job
  <2>2. QED
    BY <1>6, <2>1, WaiterPlaces DEF StartConversation
<1>7. ASSUME micro = <<>>, Loaded \/ GiveUp \/ Sent PROVE Places'
  <2>1. Retrying = {} /\ Deferred' = Deferred /\ Working
    BY <1>7, NotRetrying, IsWorking DEF Loaded, GiveUp, Sent, Deferred
  <2>2. CASE Leave(TRUE) \/ Leave(FALSE)
    BY <2>1, <2>2, LeavePlaces
  <2>3. CASE UNCHANGED <<rows, queue, current, micro>>
    BY <1>7, <2>1, <2>3, SamePlaces, NotRetrying
  <2>4. QED
    BY <1>7, <2>2, <2>3 DEF Loaded, GiveUp, Sent
<1>8. ASSUME micro = <<>>, Failed \/ Untrusted PROVE Places'
  <2>1. Retrying = {} /\ Deferred' = Deferred /\ Working
    BY <1>8, NotRetrying, IsWorking DEF Failed, Untrusted, Deferred
  <2>2. QED
    BY <1>8, <2>1, LeavePlaces, FailAttemptPlaces DEF Failed, Untrusted
<1>9. ASSUME micro = <<>>, NEW t \in (1..MaxWait) \cup {NoTime}, Challenged(t) PROVE Places'
  <2>1. Retrying = {} /\ Working
    BY <1>9, NotRetrying, IsWorking DEF Challenged
  <2>2. Deferred' = Deferred
    <3>1. data' = data \/ CaptureRetryAt(t)
      BY <1>9 DEF Challenged
    <3>2. QED
      BY <3>1, CaptureOK, DeferredIs DEF Deferred
  <2>3. QED
    BY <1>9, <2>1, <2>2, LeavePlaces, FailAttemptPlaces DEF Challenged
<1>10. ASSUME micro = <<>>, UNCHANGED <<micro, data, queue, current, rows>> PROVE Places'
  <2>1. Retrying = {} /\ Retrying' = {} /\ Deferred' = Deferred
    BY <1>10, NotRetrying DEF Deferred
  <2>2. QED
    BY <1>10, <2>1, SamePlaces
<1>11. ASSUME micro = <<>>, AwaitCaptcha \/ StopWaiting PROVE Places'
  BY <1>10, <1>11 DEF AwaitCaptcha, StopWaiting, retry, job
<1>12. ASSUME micro = <<>>, GoOn PROVE Places'
  <2>1. Retrying = {}
    BY <1>12, NotRetrying
  <2>2. Retrying' = {}
    <3> DEFINE t == Task("cancel", current)
    <3>1. current \in Jobs /\ Working'
      BY <1>12, IsWorking, CurrentIsJob DEF GoOn, StillValid, Working
    <3>2. t \in Tasks /\ t.name = "cancel"
      BY <3>1 DEF Task, Tasks
    <3>3. micro' = <<>> \/ micro' = <<t>>
      BY <1>12 DEF GoOn
    <3> HIDE DEF t
    <3>4. QED
      BY <3>1, <3>2, <3>3, OneMicro, NotRetrying, RetryingIs
  <2>3. CASE UNCHANGED <<queue, data>>
    BY <1>12, <2>1, <2>2, <2>3, SamePlaces DEF GoOn, job, Deferred
  <2>4. CASE data # NoData /\ queue' = queue \o data.jobs /\ data' = NoData
    BY <1>12, <2>1, <2>2, <2>4, AllQueued, DeferredIs DEF GoOn, job
  <2>5. QED
    BY <1>12, <2>3, <2>4 DEF GoOn
<1>13. ASSUME micro = <<>>, TimerCallback PROVE Places'
  <2>1. Retrying = {} /\ Retrying' = {} /\ rows' = rows
    BY <1>13, NotRetrying DEF TimerCallback, job
  <2>2. QED
    BY <1>13, <2>1, RetryPlaces DEF TimerCallback
<1>14. ASSUME micro = <<>>, Verified \/ UserCancels PROVE Places'
  <2>1. Retrying = {} /\ Retrying' = {} /\ rows' = rows
    BY <1>14, NotRetrying DEF Verified, UserCancels, job
  <2>2. QED
    BY <1>14, <2>1, WaiterPlaces DEF Verified, UserCancels
<1>15. ASSUME micro = <<>>, StartTimerFires PROVE Places'
  BY <1>10, <1>15 DEF StartTimerFires, retry, job, run
<1>16. ASSUME micro = <<>>, PutDone PROVE Places'
  <2> DEFINE t == Task(Head(puts).next, Head(puts).value)
  <2>1. Head(puts) \in Puts /\ (Head(puts).next = "arm" => Head(puts).value \in Challenge)
    <3>1. 1 \in 1..Len(puts) /\ Head(puts) = puts[1] /\ Head(puts) \in Puts
      BY <1>16 DEF PutDone, HandlerOK
    <3>2. QED
      BY <1>16, <3>1 DEF HandlerOK
  <2>2. Head(puts).next # "nothing" => t \in Tasks /\ t.name \in {"arm", "start"} /\ (t.name = "arm" => t.about \in Challenge)
    BY <2>1 DEF Task, Tasks, Puts
  <2>3. micro' = <<>> \/ (Head(puts).next # "nothing" /\ micro' = <<t>>)
    BY <1>16 DEF PutDone
  <2> HIDE DEF t
  <2>4. ~IsNext("retry")'
    BY <2>2, <2>3, OneMicro, NoMicro
  <2>5. Retrying = {} /\ Retrying' = {}
    BY <1>16, <2>4, NotRetrying, RetryingIs
  <2>6. QED
    BY <1>16, <2>5, SamePlaces DEF PutDone, job, run, Deferred
<1>17. ASSUME micro = <<>>, NEW j \in Jobs, Add(j) PROVE Places'
  <2>1. UNCHANGED <<micro, data>> /\ rows' = rows \cup {j} /\ Enqueue(<<j>>, data # NoData)
    BY <1>17 DEF Add, retry
  <2>2. Retrying = {} /\ Retrying' = {} /\ Deferred' = Deferred
    BY <1>17, <2>1, NotRetrying DEF Deferred
  <2>3. j \notin rows
    BY <1>17, AddedIsNew DEF JobsOK
  <2>4. Apart(Range(queue), Range(Deferred), {}, AtWork, rows) /\ IsInjective(queue)
    BY <2>2 DEF Places
  <2>5. /\ IsInjective(queue)' /\ Range(queue') \cap AtWork' = {}
        /\ Range(queue') \cup AtWork' = Range(queue) \cup AtWork \cup {j}
    <3> DEFINE js == <<j>>
    <3>1. js \in Seq(Jobs) /\ Range(js) = {j} /\ IsInjective(js)
      BY OneElement
    <3>2. Enqueue(js, data # NoData)
      BY <2>1
    <3> HIDE DEF js
    <3>3. QED
      BY <2>3, <2>4, <3>1, <3>2, EnqueuePlaces DEF Apart
  <2>6. IsInjective(Deferred)' /\ Range(Deferred') = Range(Deferred)
    BY <2>2 DEF Places, IsInjective
  <2>7. Apart(Range(queue'), Range(Deferred'), Retrying', AtWork', rows')
    BY <2>1, <2>2, <2>3, <2>4, <2>5, <2>6 DEF Apart
  <2>8. QED
    BY <2>5, <2>6, <2>7, PlacesFrom
<1>18. ASSUME micro = <<>>,
              OnOnline \/ OnOffline \/ OnResponse \/ SolveAccepted \/ SolveRejected \/ UserVerifies
       PROVE  Places'
  BY <1>10, <1>18 DEF OnOnline, OnOffline, OnResponse, SolveAccepted, SolveRejected,
     UserVerifies, retry, job, run
<1>19. ASSUME micro = <<>>, Restart PROVE Places'
  <2>1. PICK q \in Listings : StartNext(q, FALSE)
    BY <1>19 DEF Restart
  <2>2. q \in Seq(Jobs) /\ Range(q) = rows /\ IsInjective(q)
    BY ListingFacts
  <2>3. /\ IsInjective(queue)' /\ Range(queue') \cap AtWork' = {}
        /\ Range(queue') \cup AtWork' = rows
    BY <2>1, <2>2, StartNextPlaces
  <2>4. rows' = rows /\ Retrying' = {} /\ Deferred' = <<>>
    BY <1>19, NotRetrying, DeferredIs DEF Restart, job
  <2>5. IsInjective(Deferred)' /\ Range(Deferred') = {}
    BY <2>4, NoElements DEF IsInjective
  <2>6. Apart(Range(queue'), Range(Deferred'), Retrying', AtWork', rows')
    BY <2>3, <2>4, <2>5 DEF Apart
  <2>7. QED
    BY <2>3, <2>5, <2>6, PlacesFrom
<1>20. CASE Tick
  <2>1. UNCHANGED <<queue, current, rows, micro>>
    BY <1>20 DEF Tick, job, run
  <2>2. Retrying' = Retrying
    BY <2>1 DEF Retrying, IsNext
  <2>3. Deferred' = Deferred
    <3>1. CASE data = NoData
      BY <1>20, <3>1 DEF Tick, Deferred
    <3>2. CASE data # NoData
      <4>1. data \in RetryState /\ data' = [data EXCEPT !.retryAt = Nearer(@), !.timer = Nearer(@)]
        BY <1>20, <3>2 DEF Tick, RetryOK
      <4>2. data' \in RetryState /\ data'.jobs = data.jobs
        BY <4>1, LaterAlso DEF RetryState
      <4>3. QED
        BY <3>2, <4>2, DeferredIs, NoneAssumption
    <3>3. QED
      BY <3>1, <3>2
  <2>4. QED
    BY <2>1, <2>2, <2>3, SamePlaces
<1>21. QED
  BY <1>1, <1>3, <1>4, <1>5, <1>6, <1>7, <1>8, <1>9, <1>11, <1>12, <1>13, <1>14, <1>15, <1>16, <1>17,
     <1>18, <1>19, <1>20 DEF Next, Microtask, RunStep, HandlerStep, WorldStep

-------------------------------------------------------------------------------
(* The alarm of what is put aside *)

HasTimer == \E t \in orphans \cup {data.timer} : t # NoTime /\ t <= data.retryAt

LEMMA AlarmFrom ==
    ASSUME DeferredHasAlarm,
           Deferred' # <<>> => Deferred # <<>>,
           HasTimer => HasTimer',
           Callback \in Range(micro) => Callback \in Range(micro'),
           idleWaiting /\ Working => Callback \in Range(micro') \/ (idleWaiting' /\ Working')
    PROVE  DeferredHasAlarm'
<1>1. DeferredHasAlarm' <=>
        (Deferred' # <<>> => \/ Callback \in Range(micro')
                             \/ idleWaiting' /\ Working'
                             \/ HasTimer')
  BY DEF DeferredHasAlarm, HasTimer, Callback, Task, Range
<1>2. QED
  BY <1>1 DEF DeferredHasAlarm, HasTimer

LEMMA NothingDeferred == ASSUME data' = NoData PROVE DeferredHasAlarm'
BY DeferredIs DEF DeferredHasAlarm

LEMMA SameTimer == ASSUME UNCHANGED <<data, orphans>> PROVE (HasTimer => HasTimer') /\ Deferred' = Deferred
BY DEF HasTimer, Deferred

LEMMA NoCallback == ASSUME micro = <<>> PROVE Callback \notin Range(micro)
BY NoElements

\* The callback that waits for an idle queue is not lost when a job leaves it.
LEMMA LeaveAlarm ==
    ASSUME RunOK, Working, NEW b \in BOOLEAN, Leave(b), idleWaiting
    PROVE  Callback \in Range(micro') \/ (idleWaiting' /\ Working')
<1>1. CASE queue = <<>>
  BY <1>1, CurrentIsJob, LeaveMicro
<1>2. CASE queue # <<>>
  <2>1. idleWaiting'
    BY <1>2 DEF Leave
  <2>2. current' = Head(queue) /\ Head(queue) \in Jobs
    BY <1>2 DEF Leave, StartNext, RunOK
  <2>3. QED
    BY <2>1, <2>2, JobsFacts DEF Working
<1>3. QED
  BY <1>1, <1>2

LEMMA FailAttemptAlarm ==
    ASSUME RunOK, Working, FailAttempt, idleWaiting
    PROVE  Callback \in Range(micro') \/ (idleWaiting' /\ Working')
<1>1. CASE attempt < MaxAttempts
  BY <1>1 DEF FailAttempt, Working
<1>2. CASE ~(attempt < MaxAttempts)
  BY <1>2, LeaveAlarm DEF FailAttempt
<1>3. QED
  BY <1>1, <1>2

\* The callback and the unblocking leave nothing put aside, or the timer of the state.
LEMMA RetryAlarm ==
    ASSUME RetryOK, RetryCallback \/ Unblock
    PROVE  DeferredHasAlarm'
<1>1. CASE data # NoData /\ data' = [data EXCEPT !.timer = data.retryAt]
  <2>1. data \in RetryState /\ data.retryAt \in Times
    BY <1>1 DEF RetryOK, RetryState
  <2>2. data'.timer = data.retryAt /\ data'.retryAt = data.retryAt
    BY <1>1, <2>1 DEF RetryState
  <2>3. data.retryAt <= data.retryAt /\ data.retryAt # NoTime
    BY <2>1, JobsFacts
  <2>4. QED
    BY <2>2, <2>3 DEF DeferredHasAlarm
<1>2. CASE data' = NoData
  BY <1>2, NothingDeferred
<1>3. QED
  BY <1>1, <1>2 DEF RetryCallback, Unblock, RetryAll

LEMMA WaiterAlarm ==
    ASSUME RetryOK, ResolveVerificationWaiter
    PROVE  DeferredHasAlarm' \/ UNCHANGED <<data, current>>
BY WaiterParts, RetryAlarm

\* A microtask that is no callback leaves the callbacks behind it.
LEMMA CallbackStays ==
    ASSUME MicroOK, NEW n, IsNext(n), n # "callback", Callback \in Range(micro)
    PROVE  Callback \in Range(Tail(micro))
<1>1. micro # <<>> /\ Head(micro).name = n
  BY DEF IsNext
<1>2. Range(micro) = {Head(micro)} \cup Range(Tail(micro))
  BY <1>1, MicroTail
<1>3. QED
  BY <1>1, <1>2, TaskFacts

LEMMA AlarmKept ==
  RunOK /\ RetryOK /\ MicroOK /\ DeferredHasAlarm /\ Next => DeferredHasAlarm'
<1> SUFFICES ASSUME RunOK, RetryOK, MicroOK, DeferredHasAlarm, Next PROVE DeferredHasAlarm'
  OBVIOUS
<1>1. CASE RetryJobOnQueueIdle
  <2>1. /\ UNCHANGED run /\ IsNext("retry")
        /\ idleWaiting' = (idleWaiting \/ (Deferred = <<>> /\ Working))
        /\ micro' = Tail(micro) \o (IF Deferred = <<>> /\ ~Working THEN <<Callback>> ELSE <<>>)
    BY <1>1, PutAsideFacts DEF RetryJobOnQueueIdle
  <2>2. AllCallbacks(Tail(micro)) /\ Tail(micro) \in Seq(Tasks)
    BY <2>1, MicroTail DEF IsNext, AllCallbacks
  <2>3. Working' = Working
    BY <2>1 DEF run, Working
  <2>4. CASE Deferred = <<>> /\ Working
    BY <2>1, <2>3, <2>4 DEF DeferredHasAlarm
  <2>5. CASE Deferred = <<>> /\ ~Working
    <3>1. Callback \in Range(micro')
      BY <2>1, <2>2, <2>5, TaskFacts, CallbacksConcat
    <3>2. QED
      BY <3>1 DEF DeferredHasAlarm, Callback, Task, Range
  <2>6. CASE Deferred # <<>>
    <3>1. micro' = Tail(micro)
      <4>1. micro' = Tail(micro) \o <<>>
        BY <2>1, <2>6
      <4>2. QED
        BY <2>2, <4>1, ConcatEmptySeq
    <3>2. Callback \in Range(micro) => Callback \in Range(micro')
      BY <2>1, <3>1, CallbackStays
    <3>3. data # NoData
      BY <2>6 DEF Deferred
    <3>4. data'.retryAt = data.retryAt /\ orphans' = orphans \cup ({data.timer} \ {NoTime})
      BY <1>1, <3>3, PutAsideFacts
    <3>5. HasTimer => HasTimer'
      BY <3>4 DEF HasTimer
    <3>6. QED
      BY <2>1, <2>3, <2>6, <3>2, <3>5, AlarmFrom
  <2>7. QED
    BY <2>4, <2>5, <2>6
<1>2. CASE IdleCallback
  BY <1>2, RetryAlarm DEF IdleCallback
<1>3. ASSUME micro = <<>>, TimerCallback PROVE DeferredHasAlarm'
  BY <1>3, RetryAlarm DEF TimerCallback
<1>4. CASE CancelJob
  <2>1. Working /\ Len(micro) = 1 /\ micro # <<>> /\ IsNext("cancel") /\ UNCHANGED <<data, orphans>> /\ Leave(FALSE)
    BY <1>4 DEF CancelJob, MicroOK, IsNext
  <2>2. Callback \notin Range(micro)
    <3>1. AllCallbacks(Tail(micro)) /\ Range(micro) = {Head(micro)} \cup Range(Tail(micro))
      BY <2>1, MicroTail
    <3>2. Tail(micro) = <<>>
      <4>1. micro \in Seq(Tasks)
        BY DEF MicroOK
      <4>2. Tail(micro) \in Seq(Tasks) /\ Len(Tail(micro)) = 0
        BY <2>1, <4>1, TailFacts
      <4>3. QED
        BY <4>2, EmptySeq
    <3>3. Head(micro) # Callback
      BY <2>1, TaskFacts DEF IsNext
    <3>4. QED
      BY <3>1, <3>2, <3>3, NoElements
  <2>3. idleWaiting => Callback \in Range(micro') \/ (idleWaiting' /\ Working')
    BY <2>1, LeaveAlarm
  <2>4. QED
    BY <2>1, <2>2, <2>3, SameTimer, AlarmFrom
<1>5. CASE ArmChallenge
  <2>1. /\ IsNext("arm") /\ micro' = Tail(micro) /\ UNCHANGED <<data, orphans, idleWaiting, current>>
    BY <1>5 DEF ArmChallenge, run
  <2>2. Callback \in Range(micro) => Callback \in Range(micro')
    BY <2>1, CallbackStays
  <2>3. Working' = Working
    BY <2>1 DEF Working
  <2>4. QED
    BY <2>1, <2>2, <2>3, SameTimer, AlarmFrom
<1>6. CASE StartConversation
  <2>1. /\ IsNext("start") /\ micro' = Tail(micro) /\ UNCHANGED <<orphans, idleWaiting>>
    BY <1>6 DEF StartConversation
  <2>2. CASE UNCHANGED <<data, current>>
    <3>1. Callback \in Range(micro) => Callback \in Range(micro')
      BY <2>1, CallbackStays
    <3>2. Working' = Working
      BY <2>2 DEF Working
    <3>3. QED
      BY <2>1, <2>2, <3>1, <3>2, SameTimer, AlarmFrom
  <2>3. QED
    BY <1>6, <2>2, WaiterAlarm DEF StartConversation
<1>7. ASSUME micro = <<>>, UNCHANGED <<data, orphans, idleWaiting, current>> PROVE DeferredHasAlarm'
  <2>1. Working' = Working
    BY <1>7 DEF Working
  <2>2. QED
    BY <1>7, <2>1, NoCallback, SameTimer, AlarmFrom
<1>8. ASSUME micro = <<>>, Loaded \/ GiveUp \/ Sent PROVE DeferredHasAlarm'
  <2>1. UNCHANGED <<data, orphans>> /\ Working
    BY <1>8, IsWorking DEF Loaded, GiveUp, Sent
  <2>2. CASE Leave(TRUE) \/ Leave(FALSE)
    BY <1>8, <2>1, <2>2, LeaveAlarm, NoCallback, SameTimer, AlarmFrom
  <2>3. CASE UNCHANGED <<idleWaiting, current>>
    BY <1>7, <1>8, <2>1, <2>3
  <2>4. QED
    BY <1>8, <2>2, <2>3 DEF Loaded, GiveUp, Sent
<1>9. ASSUME micro = <<>>, Failed \/ Untrusted PROVE DeferredHasAlarm'
  <2>1. UNCHANGED <<data, orphans>> /\ Working /\ (FailAttempt \/ Leave(FALSE))
    BY <1>9, IsWorking DEF Failed, Untrusted
  <2>2. idleWaiting => Callback \in Range(micro') \/ (idleWaiting' /\ Working')
    BY <2>1, LeaveAlarm, FailAttemptAlarm
  <2>3. QED
    BY <1>9, <2>1, <2>2, NoCallback, SameTimer, AlarmFrom
<1>10. ASSUME micro = <<>>, NEW t \in (1..MaxWait) \cup {NoTime}, Challenged(t) PROVE DeferredHasAlarm'
  <2>1. Working /\ orphans' = orphans /\ (FailAttempt \/ Leave(TRUE))
    BY <1>10, IsWorking DEF Challenged
  <2>2. idleWaiting => Callback \in Range(micro') \/ (idleWaiting' /\ Working')
    BY <2>1, LeaveAlarm, FailAttemptAlarm
  <2>3. CASE data' = data
    BY <1>10, <2>1, <2>2, <2>3, NoCallback, SameTimer, AlarmFrom
  <2>4. CASE CaptureRetryAt(t) /\ data = NoData
    BY <2>4, CaptureOK, DeferredIs DEF DeferredHasAlarm
  <2>5. CASE CaptureRetryAt(t) /\ data # NoData
    <3>1. data' # NoData /\ data'.retryAt >= data.retryAt /\ data'.jobs = data.jobs
          /\ data'.timer = data.timer /\ data' \in RetryState
      BY <2>5, CaptureOK
    <3>2. Deferred' = Deferred
      BY <2>5, <3>1, DeferredIs
    <3>3. HasTimer => HasTimer'
      <4>1. ASSUME NEW u \in orphans \cup {data.timer}, u # NoTime, u <= data.retryAt
            PROVE  u <= data'.retryAt
        <5>1. u \in Nat /\ data.retryAt \in Nat /\ data'.retryAt \in Nat
          BY <2>5, <3>1, <4>1, JobsFacts DEF RetryOK, RetryState
        <5>2. QED
          BY <3>1, <4>1, <5>1
      <4>2. QED
        BY <2>1, <3>1, <4>1 DEF HasTimer
    <3>4. QED
      BY <1>10, <2>2, <3>2, <3>3, NoCallback, AlarmFrom
  <2>6. QED
    BY <1>10, <2>3, <2>4, <2>5 DEF Challenged
<1>11. ASSUME micro = <<>>, AwaitCaptcha \/ StopWaiting \/ StartTimerFires PROVE DeferredHasAlarm'
  BY <1>7, <1>11 DEF AwaitCaptcha, StopWaiting, StartTimerFires, retry, run
<1>12. ASSUME micro = <<>>, GoOn PROVE DeferredHasAlarm'
  <2>1. UNCHANGED <<orphans, idleWaiting, current>> /\ (data' = data \/ data' = NoData)
    BY <1>12 DEF GoOn
  <2>2. QED
    BY <1>7, <1>12, <2>1, NothingDeferred
<1>13. ASSUME micro = <<>>, Verified \/ UserCancels PROVE DeferredHasAlarm'
  <2>1. UNCHANGED <<orphans, idleWaiting>> /\ ResolveVerificationWaiter
    BY <1>13 DEF Verified, UserCancels
  <2>2. QED
    BY <1>7, <1>13, <2>1, WaiterAlarm
<1>14. ASSUME micro = <<>>, PutDone PROVE DeferredHasAlarm'
  BY <1>7, <1>14 DEF PutDone, run
<1>15. ASSUME micro = <<>>, NEW j \in Jobs, Add(j) PROVE DeferredHasAlarm'
  <2>1. UNCHANGED <<data, orphans, idleWaiting>> /\ Enqueue(<<j>>, data # NoData)
    BY <1>15 DEF Add, retry
  <2>2. Working => Working'
    BY <2>1 DEF Enqueue, Working
  <2>3. QED
    BY <1>15, <2>1, <2>2, NoCallback, SameTimer, AlarmFrom
<1>16. ASSUME micro = <<>>,
              OnOnline \/ OnOffline \/ OnResponse \/ SolveAccepted \/ SolveRejected \/ UserVerifies
       PROVE  DeferredHasAlarm'
  BY <1>7, <1>16 DEF OnOnline, OnOffline, OnResponse, SolveAccepted, SolveRejected,
     UserVerifies, retry, run
<1>17. CASE Restart
  BY <1>17, NothingDeferred DEF Restart
<1>18. CASE Tick
  <2>1. CASE data = NoData
    BY <1>18, <2>1, NothingDeferred DEF Tick
  <2>2. CASE data # NoData
    <3>1. data \in RetryState /\ data' = [data EXCEPT !.retryAt = Nearer(@), !.timer = Nearer(@)]
      BY <1>18, <2>2 DEF Tick, RetryOK
    <3>2. /\ data' \in RetryState /\ data'.jobs = data.jobs
          /\ data'.timer = Nearer(data.timer) /\ data'.retryAt = Nearer(data.retryAt)
      BY <3>1, LaterAlso DEF RetryState
    <3>3. Deferred' = Deferred
      BY <2>2, <3>2, DeferredIs, NoneAssumption
    <3>4. ASSUME NEW u \in orphans \cup {data.timer}, u # NoTime, u <= data.retryAt
          PROVE  Nearer(u) \in orphans' \cup {data'.timer} /\ Nearer(u) # NoTime /\ Nearer(u) <= data'.retryAt
      <4>1. u \in Times /\ data.retryAt \in Times
        BY <3>1, <3>4 DEF RetryOK, RetryState
      <4>2. Nearer(u) \in Times /\ Nearer(u) <= Nearer(data.retryAt)
        BY <3>4, <4>1, LaterAlso
      <4>3. Nearer(u) \in orphans' \cup {data'.timer}
        BY <1>18, <3>2 DEF Tick
      <4>4. QED
        BY <3>2, <4>2, <4>3, JobsFacts
    <3>5. HasTimer => HasTimer'
      BY <3>4 DEF HasTimer
    <3>6. UNCHANGED <<micro, idleWaiting>> /\ Working' = Working
      BY <1>18 DEF Tick, run, Working
    <3>7. QED
      BY <3>3, <3>5, <3>6, AlarmFrom
  <2>3. QED
    BY <2>1, <2>2
<1>19. QED
  BY <1>1, <1>2, <1>3, <1>4, <1>5, <1>6, <1>8, <1>9, <1>10, <1>11, <1>12, <1>13, <1>14, <1>15, <1>16,
     <1>17, <1>18 DEF Next, Microtask, RunStep, HandlerStep, WorldStep

-------------------------------------------------------------------------------
(* The wait of the silent jobs *)

\* Whoever is at work read a retry state, or there is nothing to wait for.
SilentSees == current \in Silent /\ ~seen => told = 0
SilentHalts == current \in Silent /\ phase \in {"continuing", "waiting", "sending"} => ~seen
DataWaits == (data = NoData => told = 0) /\ (data # NoData => told <= data.retryAt)

LEMMA WaitIs == WaitIsKept <=> DataWaits /\ SilentSees /\ SilentHalts
BY DEF WaitIsKept, DataWaits, SilentSees, SilentHalts

LEMMA NotSilent == NoJob \notin Silent
BY JobsFacts DEF Silent

\* What starts next is loading, and reads the retry state.
LEMMA StartNextWait ==
    ASSUME NEW q, NEW b \in BOOLEAN, StartNext(q, b)
    PROVE  /\ SilentHalts' /\ (current' \in Silent /\ ~seen' => ~b)
           /\ phase' \in {"none", "loading"}
BY NotSilent DEF StartNext, SilentHalts, Silent

LEMMA LeaveWait ==
    ASSUME NEW b \in BOOLEAN, Leave(b), DataWaits' PROVE DataWaits' /\ SilentSees' /\ SilentHalts'
<1>1. StartNext(queue, data' # NoData)
  BY DEF Leave
<1>2. SilentHalts' /\ (current' \in Silent /\ ~seen' => ~(data' # NoData))
  BY <1>1, StartNextWait
<1>3. QED
  BY <1>2 DEF DataWaits, SilentSees, Silent

LEMMA FailAttemptWait ==
    ASSUME UNCHANGED data, FailAttempt, DataWaits' PROVE SilentSees' /\ SilentHalts'
<1>1. CASE attempt < MaxAttempts
  <2>1. phase' = "loading" /\ seen' = (data # NoData)
    BY <1>1 DEF FailAttempt
  <2>2. QED
    BY <2>1 DEF SilentSees, SilentHalts, DataWaits
<1>2. CASE ~(attempt < MaxAttempts)
  BY <1>2, LeaveWait DEF FailAttempt
<1>3. QED
  BY <1>1, <1>2

LEMMA EnqueueWait ==
    ASSUME SilentHalts, NEW js, NEW b \in BOOLEAN, Enqueue(js, b)
    PROVE  SilentHalts' /\ (UNCHANGED <<current, seen>> \/ (current' \in Silent /\ ~seen' => ~b))
<1>1. CASE Working
  BY <1>1 DEF Enqueue, SilentHalts, Silent
<1>2. CASE ~Working
  BY <1>2, StartNextWait DEF Enqueue
<1>3. QED
  BY <1>1, <1>2

\* The callback ends the wait only when it is over, the unblocking lifts it.
LEMMA RetryWait ==
    ASSUME RetryOK, told \in Times, WaitIsKept,
           \/ RetryCallback /\ told' = told
           \/ Unblock /\ told' = 0
    PROVE  WaitIsKept'
<1>1. DataWaits /\ SilentSees /\ SilentHalts
  BY WaitIs
<1>2. CASE UNCHANGED <<run, data>>
  BY <1>1, <1>2, JobsFacts, WaitIs DEF run, DataWaits, SilentSees, SilentHalts, WaitIsKept, RetryOK, RetryState
<1>3. CASE UNCHANGED run /\ told' = told /\ data # NoData /\ data' = [data EXCEPT !.timer = data.retryAt]
  <2>1. data \in RetryState /\ data' # NoData /\ data'.retryAt = data.retryAt
    <3>1. data \in RetryState
      BY <1>3 DEF RetryOK
    <3>2. data' \in RetryState /\ data'.retryAt = data.retryAt
      BY <1>3, <3>1 DEF RetryState
    <3>3. QED
      BY <3>1, <3>2, NoneAssumption
  <2>2. QED
    BY <1>1, <1>3, <2>1 DEF run, DataWaits, SilentSees, SilentHalts, WaitIsKept
<1>4. CASE data' = NoData /\ told' = 0 /\ (\E b \in BOOLEAN : Enqueue(data.jobs, b))
  BY <1>1, <1>4, EnqueueWait DEF WaitIsKept, SilentHalts
<1>5. told' = told \/ told' = 0
  OBVIOUS
<1>6. ASSUME data # NoData, data.retryAt = 0 PROVE told = 0
  BY <1>1, <1>6 DEF DataWaits, Times
<1>7. CASE RetryCallback /\ told' = told
  <2>1. CASE data = NoData
    BY <1>2, <1>7, <2>1 DEF RetryCallback
  <2>2. CASE data # NoData /\ data.retryAt = 0
    BY <1>4, <1>6, <1>7, <2>2 DEF RetryCallback, RetryAll
  <2>3. CASE data # NoData /\ data.retryAt # 0
    BY <1>3, <1>7, <2>3 DEF RetryCallback
  <2>4. QED
    BY <2>1, <2>2, <2>3
<1>8. CASE Unblock /\ told' = 0
  BY <1>2, <1>4, <1>8 DEF Unblock, RetryAll
<1>9. QED
  BY <1>7, <1>8

LEMMA WaitKept ==
  RunOK /\ RetryOK /\ MicroOK /\ RestOK /\ WaitIsKept /\ Next => WaitIsKept'
<1> SUFFICES ASSUME RunOK, RetryOK, MicroOK, RestOK, WaitIsKept, Next PROVE WaitIsKept'
  OBVIOUS
<1>1. DataWaits /\ SilentSees /\ SilentHalts /\ told \in Times
  BY WaitIs DEF RestOK
<1>2. DataWaits' /\ SilentSees' /\ SilentHalts' => WaitIsKept'
  BY WaitIs, PTL
<1>3. UNCHANGED <<data, told>> => DataWaits'
  BY <1>1 DEF DataWaits
<1>4. ASSUME UNCHANGED <<data, told, run>> PROVE WaitIsKept'
  BY <1>4 DEF run, WaitIsKept, Silent
<1>5. CASE RetryJobOnQueueIdle
  <2>1. UNCHANGED <<run, told>> /\ data' # NoData
        /\ (data # NoData => data'.retryAt = data.retryAt) /\ (data = NoData => data'.retryAt = 1)
    BY <1>5, PutAsideFacts DEF RetryJobOnQueueIdle
  <2>2. DataWaits'
    BY <1>1, <2>1 DEF DataWaits
  <2>3. SilentSees' /\ SilentHalts'
    BY <1>1, <2>1 DEF SilentSees, SilentHalts, run, Silent
  <2>4. QED
    BY <1>2, <2>2, <2>3
<1>6. CASE IdleCallback \/ TimerCallback
  BY <1>1, <1>6, RetryWait DEF IdleCallback, TimerCallback
<1>7. ASSUME ResolveVerificationWaiter PROVE WaitIsKept'
  <2>1. CASE /\ phase' = IF phase = "waiting" THEN "continuing" ELSE phase
             /\ UNCHANGED <<queue, current, attempt, seen, data, handler, told>>
    BY <2>1 DEF WaitIsKept, Silent
  <2>2. CASE Unblock /\ told' = 0
    BY <1>1, <2>2, RetryWait
  <2>3. QED
    BY <1>7, <2>1, <2>2, WaiterParts
<1>8. CASE StartConversation \/ Verified \/ UserCancels
  BY <1>7, <1>8 DEF StartConversation, Verified, UserCancels
<1>9. CASE CancelJob \/ GiveUp \/ Sent
  BY <1>2, <1>3, <1>9, LeaveWait DEF CancelJob, GiveUp, Sent
<1>10. CASE Loaded
  <2>1. UNCHANGED <<data, told>>
    BY <1>10 DEF Loaded
  <2>2. CASE Leave(TRUE)
    BY <1>2, <1>3, <2>1, <2>2, LeaveWait
  <2>3. CASE ~(seen /\ current \in Silent) /\ phase' = "continuing" /\ UNCHANGED <<current, seen>>
    BY <2>1, <2>3 DEF WaitIsKept, Silent
  <2>4. QED
    BY <1>10, <2>2, <2>3 DEF Loaded
<1>11. CASE Failed
  BY <1>2, <1>3, <1>11, FailAttemptWait DEF Failed
<1>12. CASE Untrusted
  BY <1>2, <1>3, <1>12, FailAttemptWait, LeaveWait DEF Untrusted
<1>13. CASE \E t \in (1..MaxWait) \cup {NoTime} : Challenged(t)
  <2> PICK t \in (1..MaxWait) \cup {NoTime} : Challenged(t)
    BY <1>13
  <2>1. CASE UNCHANGED <<data, told>> /\ FailAttempt
    BY <1>2, <1>3, <2>1, FailAttemptWait
  <2>2. CASE CaptureRetryAt(t) /\ Leave(TRUE) /\ told' = IF told >= t THEN told ELSE t
    <3>1. /\ data' \in RetryState /\ data' # NoData /\ t <= data'.retryAt
          /\ data # NoData => data'.retryAt >= data.retryAt
      BY <2>2, CaptureOK
    <3>2. told <= data'.retryAt
      <4>1. data'.retryAt \in Nat /\ told \in Nat /\ (data # NoData => data.retryAt \in Nat)
        BY <1>1, <3>1, JobsFacts DEF RetryOK, RetryState
      <4>2. QED
        BY <1>1, <3>1, <4>1 DEF DataWaits
    <3>3. DataWaits'
      BY <2>2, <3>1, <3>2 DEF DataWaits
    <3>4. QED
      BY <1>2, <2>2, <3>3, LeaveWait
  <2>3. QED
    BY <2>1, <2>2 DEF Challenged
<1>14. CASE GoOn
  <2>1. /\ phase = "continuing" /\ UNCHANGED <<current, seen>>
        /\ \/ UNCHANGED data /\ (told' = told \/ told' = 0)
           \/ data' = NoData /\ told' = 0
    BY <1>14 DEF GoOn, StillValid
  <2>2. data # NoData => data.retryAt >= 0
    BY JobsFacts DEF RetryOK, RetryState
  <2>3. DataWaits'
    BY <1>1, <2>1, <2>2 DEF DataWaits
  <2>4. SilentSees' /\ SilentHalts'
    BY <1>1, <2>1 DEF SilentSees, SilentHalts, Silent
  <2>5. QED
    BY <1>2, <2>3, <2>4
<1>15. CASE AwaitCaptcha \/ StopWaiting
  <2>1. phase \in {"continuing", "waiting"} /\ UNCHANGED <<current, seen, data, told>>
    BY <1>15 DEF AwaitCaptcha, StopWaiting, StillValid, retry
  <2>2. QED
    BY <2>1 DEF WaitIsKept, Silent
<1>16. CASE ArmChallenge \/ StartTimerFires \/ PutDone
  BY <1>4, <1>16 DEF ArmChallenge, StartTimerFires, PutDone, retry
<1>17. CASE OnOnline \/ OnOffline \/ OnResponse \/ SolveAccepted \/ SolveRejected \/ UserVerifies
  BY <1>4, <1>17 DEF OnOnline, OnOffline, OnResponse, SolveAccepted, SolveRejected, UserVerifies, retry
<1>18. CASE \E j \in Jobs : Add(j)
  <2> PICK j \in Jobs : Add(j)
    BY <1>18
  <2>1. UNCHANGED <<data, told>> /\ Enqueue(<<j>>, data # NoData)
    BY DEF Add, retry
  <2>2. SilentHalts' /\ (UNCHANGED <<current, seen>> \/ (current' \in Silent /\ ~seen' => ~(data # NoData)))
    BY <1>1, <2>1, EnqueueWait
  <2>3. SilentSees'
    BY <1>1, <2>1, <2>2 DEF SilentSees, DataWaits, Silent
  <2>4. QED
    BY <1>2, <1>3, <2>1, <2>2, <2>3
<1>19. CASE Restart
  <2>1. data' = NoData /\ told' = 0 /\ \E q \in Listings : StartNext(q, FALSE)
    BY <1>19 DEF Restart
  <2>2. SilentHalts'
    BY <2>1, StartNextWait
  <2>3. QED
    BY <1>2, <2>1, <2>2 DEF DataWaits, SilentSees
<1>20. CASE Tick
  <2>1. told' = Nearer(told) /\ UNCHANGED run /\ (told = 0 => told' = 0)
    BY <1>20 DEF Tick, Nearer
  <2>2. SilentSees' /\ SilentHalts'
    BY <1>1, <2>1 DEF SilentSees, SilentHalts, run, Silent
  <2>3. CASE data = NoData
    BY <1>1, <1>2, <1>20, <2>1, <2>2, <2>3 DEF Tick, DataWaits
  <2>4. CASE data # NoData
    <3>1. data \in RetryState /\ data' = [data EXCEPT !.retryAt = Nearer(@), !.timer = Nearer(@)]
      BY <1>20, <2>4 DEF Tick, RetryOK
    <3>2. data' \in RetryState /\ data'.retryAt = Nearer(data.retryAt) /\ data.retryAt \in Times
      BY <3>1, LaterAlso DEF RetryState
    <3>3. Nearer(told) <= Nearer(data.retryAt)
      BY <1>1, <2>4, <3>2, LaterAlso DEF DataWaits
    <3>4. DataWaits'
      BY <2>1, <3>2, <3>3, NoneAssumption DEF DataWaits
    <3>5. QED
      BY <1>2, <2>2, <3>4
  <2>5. QED
    BY <2>3, <2>4
<1>21. QED
  BY <1>5, <1>6, <1>8, <1>9, <1>10, <1>11, <1>12, <1>13, <1>14, <1>15, <1>16, <1>17, <1>18, <1>19, <1>20
     DEF Next, Microtask, RunStep, HandlerStep, WorldStep

-------------------------------------------------------------------------------
(* The theorems *)

LEMMA InitInv == Init => Inv
<1> SUFFICES ASSUME Init PROVE Inv
  OBVIOUS
<1>1. JobsOK
  <2>1. added = <<>> /\ rows = {}
    BY DEF Init
  <2>2. added \in Seq(Jobs) /\ Len(added) = 0 /\ Len(Arrivals) \in Nat
    BY <2>1, JobsAssumption
  <2>3. QED
    BY <2>1, <2>2, NoElements DEF JobsOK
<1>2. RunOK
  <2>1. queue \in Seq(Jobs) /\ attempt \in 0..MaxAttempts
    BY BoundsAssumption DEF Init
  <2>2. QED
    BY <2>1 DEF Init, RunOK, Working
<1>3. MicroOK /\ Retrying = {}
  <2>1. AllCallbacks(micro)
    BY TaskFacts DEF Init
  <2>2. QED
    BY <2>1, CallbacksOK, RetryingIs
<1>4. RetryOK
  BY DEF Init, RetryOK
<1>5. HandlerOK
  <2>1. puts \in Seq(Puts) /\ \A i \in 1..Len(puts) : FALSE
    BY DEF Init
  <2>2. QED
    BY <2>1 DEF Init, HandlerOK
<1>6. RestOK
  <2>1. 0 \in 0..Lifetime /\ 0 \in Times /\ 0 \in Nat
    BY JobsFacts, BoundsAssumption
  <2>2. asked \in Nat /\ answering \in Nat /\ age \in 0..Lifetime /\ told \in Times
    BY <2>1 DEF Init
  <2>3. QED
    BY <2>2 DEF Init, RestOK
<1>7. Places
  <2>1. queue = <<>> /\ Deferred = <<>> /\ AtWork = {} /\ rows = {}
    BY DEF Init, Deferred, AtWork, Working
  <2>2. QED
    BY <1>3, <2>1, NoElements DEF Places, Apart
<1>8. DeferredHasAlarm /\ WaitIsKept
  BY DEF Init, DeferredHasAlarm, Deferred, WaitIsKept
<1>9. QED
  BY <1>1, <1>2, <1>3, <1>4, <1>5, <1>6, <1>7, <1>8, TypesAre, OnePlaceIs DEF Inv

LEMMA InvStep == Inv /\ [Next]_vars => Inv'
<1> SUFFICES ASSUME Inv, [Next]_vars PROVE Inv'
  OBVIOUS
<1>1. /\ JobsOK /\ RunOK /\ MicroOK /\ RetryOK /\ HandlerOK /\ RestOK
      /\ Places /\ DeferredHasAlarm /\ WaitIsKept
  BY TypesAre, OnePlaceIs DEF Inv
<1>2. CASE Next
  <2>1. JobsOK' /\ RunOK' /\ MicroOK' /\ RetryOK' /\ HandlerOK' /\ RestOK'
    BY <1>1, <1>2, JobsKept, RunKept, MicroKept, RetryKept, HandlerKept, RestKept
  <2>2. Places' /\ DeferredHasAlarm' /\ WaitIsKept'
    BY <1>1, <1>2, PlacesKept, AlarmKept, WaitKept
  <2>3. (TypeOK /\ Shapes)'
    BY <2>1, TypesAre, PTL
  <2>4. OnePlaceForEachJob'
    BY <2>1, <2>2, OnePlaceIs, PTL
  <2>5. QED
    BY <2>2, <2>3, <2>4 DEF Inv
<1>3. CASE UNCHANGED vars
  BY <1>3 DEF vars, job, run, retry, handler, solving, trust, world, Inv, TypeOK, Shapes,
     OnePlaceForEachJob, DeferredHasAlarm, WaitIsKept, Working, IsNext, InHand, Deferred,
     Returning, Callback, Task, Silent
<1>4. QED
  BY <1>2, <1>3

\* The inductive invariant: the types and shapes, the places of the jobs, the alarm of what
\* is put aside, and that the retry state outlasts the wait asked for.
THEOREM InvHolds == Spec => []Inv
BY InitInv, InvStep, PTL DEF Spec

\* The queue, the retry state and the challenge handler keep their types.
THEOREM TypeCorrect == Spec => []TypeOK
<1>1. Inv => TypeOK
  BY DEF Inv
<1>2. QED
  BY <1>1, InvHolds, PTL

\* Each job of the database is in the queue, at work, put aside or on its way there: in
\* one of these places, once (retryJobOnQueueIdle, unblock, the restart from the rows).
THEOREM OnePlace == Spec => []OnePlaceForEachJob
<1>1. Inv => OnePlaceForEachJob
  BY DEF Inv
<1>2. QED
  BY <1>1, InvHolds, PTL

\* What is put aside has a callback on its way or a timer that fires at retryAt or before.
THEOREM DeferredJobsAreStarted == Spec => []DeferredHasAlarm
<1>1. Inv => DeferredHasAlarm
  BY DEF Inv
<1>2. QED
  BY <1>1, InvHolds, PTL

LEMMA SilentStep ==
    ASSUME Inv, Next, NEW j \in Silent, current' = j, phase' = "sending", phase # "sending"
    PROVE  told = 0
<1>1. SilentSees /\ SilentHalts
  BY WaitIs DEF Inv
<1>2. CASE GoOn
  <2>1. phase = "continuing" /\ current = j
    BY <1>2 DEF GoOn, StillValid
  <2>2. QED
    BY <1>1, <2>1 DEF SilentSees, SilentHalts
<1>3. ASSUME NEW q, NEW b, StartNext(q, b) PROVE FALSE
  BY <1>3 DEF StartNext
<1>4. ASSUME NEW q, NEW b, Enqueue(q, b) PROVE FALSE
  BY <1>3, <1>4 DEF Enqueue
<1>5. ASSUME Leave(TRUE) \/ Leave(FALSE) \/ FailAttempt PROVE FALSE
  BY <1>3, <1>5 DEF Leave, FailAttempt
<1>6. ASSUME RetryCallback \/ Unblock PROVE FALSE
  BY <1>4, <1>6, RetryParts DEF run
<1>7. ASSUME ResolveVerificationWaiter PROVE FALSE
  BY <1>6, <1>7, WaiterParts
<1>8. CASE ~GoOn
  <2>1. ~UNCHANGED run /\ ~UNCHANGED phase
    BY DEF run
  <2>2. CASE Microtask
    BY <1>5, <1>6, <1>7, <2>1, <2>2 DEF Microtask, RetryJobOnQueueIdle, IdleCallback, CancelJob,
       ArmChallenge, StartConversation
  <2>3. CASE RunStep
    BY <1>5, <1>8, <2>1, <2>3 DEF RunStep, Loaded, GiveUp, AwaitCaptcha, StopWaiting, Sent, Failed,
       Untrusted, Challenged
  <2>4. CASE HandlerStep
    BY <1>6, <1>7, <2>1, <2>4 DEF HandlerStep, TimerCallback, StartTimerFires, PutDone, Verified
  <2>5. CASE WorldStep
    BY <1>3, <1>4, <1>7, <2>1, <2>5 DEF WorldStep, Add, OnOnline, OnOffline, OnResponse,
       SolveAccepted, SolveRejected, UserVerifies, UserCancels, Restart
  <2>6. CASE Tick
    BY <2>1, <2>6 DEF Tick
  <2>7. QED
    BY <2>2, <2>3, <2>4, <2>5, <2>6 DEF Next
<1>9. QED
  BY <1>2, <1>8

\* A silent job goes to the server only when the time given to silent jobs is over, or was
\* lifted: run() reads the retry state before it goes on, and the state lasts that long.
THEOREM SilentJobsDoWait == Spec => SilentJobsWait
<1>1. ASSUME Inv, [Next]_vars
      PROVE  [\A j \in Silent : (current' = j /\ phase' = "sending" /\ phase # "sending") => told = 0]_vars
  BY <1>1, SilentStep
<1>2. QED
  BY <1>1, InvHolds, PTL DEF Spec, SilentJobsWait
===============================================================================
