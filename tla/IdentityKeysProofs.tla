-------------------------- MODULE IdentityKeysProofs --------------------------
(***************************************************************************)
(* Proofs about IdentityKeys: for any tasks, requests, service ids and     *)
(* bounds, no update of a record is lost, the cache follows the table,     *)
(* changes of keys are told and verifications show, and a migration never  *)
(* leaves a contact without a record.                                      *)
(*                                                                         *)
(* Inv says what the bodies, the migrations and the calls in flight about  *)
(* one service id may be at the same time.  Its core: a body is alone with *)
(* its record (OneBody), but the loads that migrate the record share it    *)
(* with that body, and they can only write what the body has read          *)
(* (MigrationsAgree) before the body's own write (MigrationsFirst).        *)
(***************************************************************************)
EXTENDS IdentityKeys, FiniteSetTheorems, SequenceTheorems, WellFoundedInduction, TLAPS

InBodyPlaces == {"read", "migrating", "unmigrating", "writing", "archiving"}

\* The running job of an identity queue is its head: one body for each service id.  Only
\* loads and removals do without the queue.
OneBody ==
    /\ \A t \in Tasks : pc[t] \in InBodyPlaces /\ OnQueue(t) => First(t)
    /\ \A t \in Tasks : pc[t] \in {"zoneQueued", "outer", "queued", "read", "writing", "archiving"}
                          => OnQueue(t)
    /\ \A t \in Tasks : pc[t] = "removing" => ~OnQueue(t)

\* Who waits for a zone waits there once, and does nothing else.
ZoneQueueFits ==
    /\ \A i, j \in 1 .. Len(zoneQueue) : zoneQueue[i] = zoneQueue[j] => i = j
    /\ \A i \in 1 .. Len(zoneQueue) : pc[zoneQueue[i]] = "zoneQueued"

\* A task has one call in flight, the one it awaits.
Pending == ToSet(calls)
CallFits(c) ==
    /\ c.sid = Sid(c.task)
    /\ c.op = "write" => pc[c.task] \in {"writing", "migrating"} /\ c.record \in Records
    /\ c.op = "removeLegacy" => pc[c.task] = "unmigrating"
    /\ c.op = "remove" => pc[c.task] = "removing" /\ c.sid \in removed /\ c.record = NoRecord
    /\ pc[c.task] = "migrating" => c.record = seen[c.task]
    /\ pc[c.task] = "writing" =>
         c.record.key = IF request[c.task].op \in {"save", "sync"} THEN request[c.task].key
                        ELSE seen[c.task].key
CallsFit ==
    /\ \A c \in Pending : CallFits(c)
    /\ \A i, j \in 1 .. Len(calls) : calls[i].task = calls[j].task => i = j
    /\ \A t \in Tasks : pc[t] = "migrating" => \E c \in Pending : c.task = t

\* The writes of migrations come before that of a body, which began when they were all
\* under way or over.
MigrationsFirst ==
    \A i, j \in 1 .. Len(calls) :
        calls[i].sid = calls[j].sid /\ calls[i].sid \in Kept
        /\ pc[calls[i].task] = "migrating" /\ pc[calls[j].task] = "writing" => i < j

\* A body of s that has its record.
HasRead(t, s) == OnQueue(t) /\ Sid(t) = s /\ pc[t] \in {"read", "unmigrating", "writing"}

\* All migrations of a record write the same one; until a body changes it, the cache holds
\* nothing else.
MigrationsAgree ==
    \A u \in Tasks : pc[u] = "migrating" /\ Sid(u) \in Kept =>
        /\ seen[u] # NoRecord /\ seen[u].verified = "default"
        /\ legacyCache[Sid(u)] \in {NoRecord, seen[u]}
        /\ cache[Sid(u)] = NoRecord => legacyCache[Sid(u)] # NoRecord
        /\ \A v \in Tasks : pc[v] = "migrating" /\ Sid(v) = Sid(u) => seen[v] = seen[u]
        /\ \A t \in Tasks : HasRead(t, Sid(u)) => seen[t] = seen[u]
        /\ cache[Sid(u)] \in {NoRecord, seen[u]} \/ \E t \in Tasks : HasRead(t, Sid(u))

\* A body holds the record that the cache has, but for the approval it is writing.
BodyHasRecord ==
    \A t \in Tasks : pc[t] \in {"read", "unmigrating", "writing"} /\ Sid(t) \in Kept =>
        /\ cache[Sid(t)] # NoRecord \/ legacyCache[Sid(t)] = NoRecord
        /\ OnQueue(t) /\ pc[t] # "writing" => seen[t] = cache[Sid(t)]
        /\ pc[t] = "writing" => SameButApproval(cache[Sid(t)], seen[t])

\* The cache and the table differ by an approval, which is on its way unless a call failed;
\* an old record is removed after the new one was written.
TablesAgree ==
    \A s \in Kept :
        /\ SameButApproval(cache[s], db[s])
        /\ failures = 0 /\ cache[s] # db[s] => \E c \in Pending : c.sid = s /\ c.op = "write"
        /\ legacyCache[s] # NoRecord => legacyCache[s].verified = "default"
        /\ legacyDb[s] # NoRecord => legacyDb[s].verified = "default"
        /\ db[s] = NoRecord => legacyDb[s] = legacyCache[s]
        /\ \A c \in Pending : c.sid = s /\ c.op = "removeLegacy" => db[s] # NoRecord

\* What the user knows of, also while the record is under its old id or the key is only
\* the conversation's.
KnownKeys ==
    \A s \in Kept \ cut :
        /\ cache[s] # NoRecord => cache[s].key = told[s]
        /\ cache[s] = NoRecord /\ legacyCache[s] # NoRecord => legacyCache[s].key = told[s]
        /\ cache[s] = NoRecord /\ prev[s] # NoKey => prev[s] = told[s]
        /\ \A u \in Tasks : pc[u] = "migrating" /\ Sid(u) = s => seen[u].key = told[s]

\* A record shows what was said of its key, in the table and on its way there.
Shows(record, said) ==
    /\ record.verified = "verified" => said = [status |-> "verified", key |-> record.key]
    /\ record.verified = "default" <=> said.status = "default"
RecordsShow ==
    \A s \in Kept :
        /\ db[s] # NoRecord => Shows(db[s], mark[s])
        /\ db[s] = NoRecord => mark[s].status = "default"
        /\ \A c \in Pending : c.sid = s /\ c.op = "write" => Shows(c.record, c.mark)

\* What a step does to the records is apart from what it does to the zones and queues.
Turns == OneBody /\ ZoneQueueFits
Data ==
    /\ CallsFit /\ MigrationsFirst /\ MigrationsAgree /\ BodyHasRecord
    /\ TablesAgree /\ KnownKeys /\ RecordsShow
Inv == TypeOK /\ Turns /\ Data
-------------------------------------------------------------------------------
(* Sequences and maxima *)

LEMMA AppendFacts ==
    ASSUME NEW S, NEW s \in Seq(S), NEW e \in S
    PROVE  /\ Len(s) \in Nat /\ DOMAIN s = 1 .. Len(s)
           /\ Append(s, e) \in Seq(S)
           /\ Len(Append(s, e)) = Len(s) + 1
           /\ \A i \in 1 .. Len(s) : Append(s, e)[i] = s[i]
           /\ Append(s, e)[Len(s) + 1] = e
OBVIOUS

LEMMA TailFacts ==
    ASSUME NEW S, NEW s \in Seq(S), s # <<>>
    PROVE  /\ Len(s) \in Nat /\ Len(s) >= 1 /\ DOMAIN s = 1 .. Len(s)
           /\ Head(s) = s[1]
           /\ Tail(s) \in Seq(S)
           /\ Len(Tail(s)) = Len(s) - 1
           /\ \A i \in 1 .. Len(s) - 1 : Tail(s)[i] = s[i + 1]
OBVIOUS

LEMMA ElementsAre ==
    ASSUME NEW S, NEW s \in Seq(S)
    PROVE  /\ ToSet(s) = {s[i] : i \in 1 .. Len(s)} /\ DOMAIN s = 1 .. Len(s) /\ Len(s) \in Nat
           /\ \A i \in 1 .. Len(s) : s[i] \in ToSet(s) /\ s[i] \in S
           /\ ToSet(s) \subseteq S
BY DEF ToSet

LEMMA AppendElements ==
    ASSUME NEW S, NEW s \in Seq(S), NEW e \in S
    PROVE  ToSet(Append(s, e)) = ToSet(s) \cup {e}
<1> DEFINE q == Append(s, e)
<1>1. /\ Len(s) \in Nat /\ q \in Seq(S) /\ Len(q) = Len(s) + 1
      /\ \A i \in 1 .. Len(s) : q[i] = s[i]
      /\ q[Len(s) + 1] = e
  BY AppendFacts
<1> HIDE DEF q
<1>2. ToSet(q) = {q[i] : i \in 1 .. Len(s) + 1} /\ ToSet(s) = {s[i] : i \in 1 .. Len(s)}
  BY <1>1, ElementsAre
<1>3. QED
  BY <1>1, <1>2 DEF q

\* A set of naturals has a least element, and one that is bounded has a greatest.
LEMMA LeastOf ==
    ASSUME NEW T, T \subseteq Nat, T # {}
    PROVE  \E m \in T : \A k \in T : m <= k
<1> DEFINE R == OpToRel(<, Nat)
<1>1. IsWellFoundedOn(R, Nat)
  BY NatLessThanWellFounded
<1>2. \A a, b \in Nat : <<a, b>> \in R <=> a < b
  <2>1. R = {ss \in Nat \X Nat : ss[1] < ss[2]}
    BY Zenon DEF OpToRel
  <2>2. QED
    BY <2>1
<1> HIDE DEF R
<1>3. PICK x \in T : \A y \in T : ~(<<y, x>> \in R)
  BY <1>1, WFMin
<1>4. \A k \in T : k \in Nat /\ x \in Nat /\ ~(k < x)
  BY <1>2, <1>3
<1>5. QED
  BY <1>4

LEMMA GreatestOf ==
    ASSUME NEW n \in Nat, NEW S, S \subseteq 0 .. n, S # {}
    PROVE  \E m \in S : \A k \in S : k <= m
<1> DEFINE T == {n - k : k \in S}
<1>1. \A k \in S : k \in Nat /\ n - k \in Nat
  OBVIOUS
<1>2. T \subseteq Nat /\ T # {}
  BY <1>1
<1>3. PICK m \in T : \A k \in T : m <= k
  BY <1>2, LeastOf
<1>4. PICK j \in S : m = n - j
  BY <1>3
<1>5. \A k \in S : n - j <= n - k
  BY <1>3, <1>4
<1>6. \A k \in S : k <= j
  BY <1>1, <1>5
<1>7. QED
  BY <1>6

LEMMA MaxIsMember ==
    ASSUME NEW n \in Nat, NEW S, S \subseteq 1 .. n, S # {}
    PROVE  Max(S) \in S
<1>1. S \subseteq 0 .. n
  OBVIOUS
<1>2. \E m \in S : \A k \in S : m >= k
  <2>1. PICK m \in S : \A k \in S : k <= m
    BY <1>1, GreatestOf
  <2>2. \A k \in S : m >= k
    BY <2>1
  <2>3. QED
    BY <2>2
<1>3. QED
  BY <1>2, Zenon DEF Max
-------------------------------------------------------------------------------
(* Records and requests *)

LEMMA RecordFacts ==
    /\ NoRecord \notin Records /\ NoRecord.key = NoKey /\ NoRecord.verified = "default"
    /\ \A r \in Records : r.key \in Keys /\ r.key # NoKey /\ r.verified \in Statuses
    /\ \A r \in Records \cup {NoRecord} : r = NoRecord <=> r.key = NoKey
    /\ FirstRecords \subseteq Records
    /\ \A r \in FirstRecords : r.verified = "default"
<1>1. \A r \in Records : r.key \in Keys /\ r.key # NoKey /\ r.verified \in Statuses
  BY KeysAssumption DEF Records
<1>2. NoRecord.key = NoKey /\ NoRecord.verified = "default"
  BY DEF NoRecord
<1>3. NoRecord \notin Records
  BY <1>1, <1>2
<1>4. FirstRecords \subseteq Records /\ \A r \in FirstRecords : r.verified = "default"
  BY DEF Records, FirstRecords, Statuses
<1>5. QED
  BY <1>1, <1>2, <1>3, <1>4

LEMMA ApprovalFacts ==
    ASSUME NEW r \in Records \cup {NoRecord}, NEW q \in Records \cup {NoRecord},
           SameButApproval(r, q)
    PROVE  /\ r.key = q.key /\ r.verified = q.verified
           /\ r = NoRecord <=> q = NoRecord
<1>1. r.key = q.key /\ r.verified = q.verified
  <2>1. [r EXCEPT !.approved = TRUE].key = [q EXCEPT !.approved = TRUE].key
        /\ [r EXCEPT !.approved = TRUE].verified = [q EXCEPT !.approved = TRUE].verified
    BY DEF SameButApproval
  <2>2. \A p \in Records \cup {NoRecord} :
          [p EXCEPT !.approved = TRUE].key = p.key /\ [p EXCEPT !.approved = TRUE].verified = p.verified
    BY DEF Records, NoRecord
  <2>3. QED
    BY <2>1, <2>2
<1>2. QED
  BY <1>1, RecordFacts

LEMMA ApprovalRelates ==
    /\ \A r : SameButApproval(r, r)
    /\ \A r, q : SameButApproval(r, q) => SameButApproval(q, r)
    /\ \A r, q, p : SameButApproval(r, q) /\ SameButApproval(q, p) => SameButApproval(r, p)
BY DEF SameButApproval

LEMMA ApprovedIs ==
    ASSUME NEW r \in Records
    PROVE  /\ [r EXCEPT !.approved = TRUE] \in Records
           /\ SameButApproval([r EXCEPT !.approved = TRUE], r)
           /\ [r EXCEPT !.approved = TRUE].key = r.key
           /\ [r EXCEPT !.approved = TRUE].verified = r.verified
BY DEF Records, SameButApproval

LEMMA RequestFacts ==
    ASSUME request \in [Tasks -> Requests]
    PROVE  \A t \in Tasks : /\ Sid(t) \in ServiceIds /\ request[t].op \in Ops
                            /\ request[t].key \in Keys \cup {NoKey}
                            /\ request[t].status \in Statuses
                            /\ request[t].op \in {"save", "sync"} => request[t].key \in Keys
BY RequestsAssumption DEF AllRequests, Sid

LEMMA CallFacts ==
    /\ \A c \in Calls : /\ c.op \in {"write", "removeLegacy", "remove"} /\ c.task \in Tasks
                        /\ c.sid \in ServiceIds /\ c.record \in Records \cup {NoRecord}
                        /\ c.mark \in Marks
    /\ \A t, s, r, m : LET c == Write(t, s, r, m) IN
          c.op = "write" /\ c.task = t /\ c.sid = s /\ c.record = r /\ c.mark = m
    /\ \A t, s, o : LET c == Removal(t, s, o) IN
          c.op = o /\ c.task = t /\ c.sid = s /\ c.record = NoRecord
    /\ \A t \in Tasks, s \in ServiceIds, r \in Records \cup {NoRecord}, m \in Marks :
          Write(t, s, r, m) \in Calls
    /\ \A t \in Tasks, s \in ServiceIds, o \in {"removeLegacy", "remove"} : Removal(t, s, o) \in Calls
<1>1. NoMark \in Marks
  BY DEF NoMark, Marks, Statuses
<1>2. QED
  BY <1>1 DEF Calls, Write, Removal
-------------------------------------------------------------------------------
(* What the database does *)

Rows ==
    /\ db \in [ServiceIds -> Records \cup {NoRecord}]
    /\ legacyDb \in [ServiceIds -> Records \cup {NoRecord}]
    /\ mark \in [ServiceIds -> Marks]
    /\ calls \in Seq(Calls)

\* The last of the first n calls about s of some kinds, if there is one.
LEMMA LastCall ==
    ASSUME Rows, NEW n \in 0 .. Len(calls), NEW s, NEW ops, Among(n, s, ops) # {}
    PROVE  LET c == calls[Max(Among(n, s, ops))] IN c \in Pending /\ c.sid = s /\ c.op \in ops
<1>1. Len(calls) \in Nat /\ n \in Nat /\ n <= Len(calls)
  BY DEF Rows
<1>2. Among(n, s, ops) \subseteq 1 .. n
  BY DEF Among
<1>3. Max(Among(n, s, ops)) \in Among(n, s, ops)
  BY <1>1, <1>2, MaxIsMember
<1> DEFINE m == Max(Among(n, s, ops))
<1>4. m \in 1 .. Len(calls) /\ calls[m].sid = s /\ calls[m].op \in ops
  <2>1. m \in 1 .. n /\ calls[m].sid = s /\ calls[m].op \in ops
    BY <1>3 DEF Among
  <2>2. QED
    BY <1>1, <2>1
<1>5. calls[m] \in Pending
  BY <1>4, ElementsAre DEF Rows, Pending
<1>6. QED
  BY <1>4, <1>5

LEMMA NoneAmong ==
    ASSUME Rows, NEW n \in 0 .. Len(calls), NEW s, NEW ops,
           \A c \in Pending : c.sid = s => c.op \notin ops
    PROVE  Among(n, s, ops) = {}
<1>1. Len(calls) \in Nat /\ n \in Nat /\ n <= Len(calls)
  BY DEF Rows
<1>2. \A i \in 1 .. n : i \in 1 .. Len(calls)
  BY <1>1
<1>3. \A i \in 1 .. Len(calls) : calls[i] \in Pending
  BY ElementsAre DEF Rows, Pending
<1>4. QED
  BY <1>2, <1>3 DEF Among

LEMMA ExecuteFacts ==
    ASSUME Rows, NEW n \in 0 .. Len(calls), Execute(n)
    PROVE  /\ db' \in [ServiceIds -> Records \cup {NoRecord}]
           /\ legacyDb' \in [ServiceIds -> Records \cup {NoRecord}]
           /\ mark' \in [ServiceIds -> Marks]
           /\ \A s \in ServiceIds :
                 \/ legacyDb'[s] = legacyDb[s]
                 \/ legacyDb'[s] = NoRecord /\ \E c \in Pending : c.sid = s /\ c.op = "removeLegacy"
           /\ \A s \in ServiceIds :
                 (\A c \in Pending : c.sid = s => c.op # "remove") =>
                    \/ db'[s] = db[s] /\ mark'[s] = mark[s]
                    \/ \E c \in Pending : c.sid = s /\ c.op = "write"
                                          /\ db'[s] = c.record /\ mark'[s] = c.mark
<1> DEFINE last(s, ops) == calls[Max(Among(n, s, ops))]
<1>1. \A c \in Pending : c \in Calls /\ c.record \in Records \cup {NoRecord} /\ c.mark \in Marks
  BY ElementsAre, CallFacts DEF Rows, Pending
<1>2. \A s, ops : Among(n, s, ops) # {} =>
         last(s, ops) \in Pending /\ last(s, ops).sid = s /\ last(s, ops).op \in ops
  BY LastCall
<1>3. /\ db' = [s \in ServiceIds |-> IF Among(n, s, {"write", "remove"}) = {} THEN db[s]
                                     ELSE last(s, {"write", "remove"}).record]
      /\ legacyDb' = [s \in ServiceIds |-> IF Among(n, s, {"removeLegacy"}) = {} THEN legacyDb[s]
                                           ELSE NoRecord]
      /\ mark' = [s \in ServiceIds |-> IF Among(n, s, {"write"}) = {} THEN mark[s]
                                       ELSE last(s, {"write"}).mark]
  BY DEF Execute
<1> HIDE DEF last
<1>4. db' \in [ServiceIds -> Records \cup {NoRecord}]
  <2>1. \A s \in ServiceIds :
           (IF Among(n, s, {"write", "remove"}) = {} THEN db[s]
            ELSE last(s, {"write", "remove"}).record) \in Records \cup {NoRecord}
    BY <1>1, <1>2 DEF Rows
  <2>2. QED
    BY <1>3, <2>1
<1>5. legacyDb' \in [ServiceIds -> Records \cup {NoRecord}]
  BY <1>3 DEF Rows
<1>6. mark' \in [ServiceIds -> Marks]
  <2>1. \A s \in ServiceIds :
           (IF Among(n, s, {"write"}) = {} THEN mark[s] ELSE last(s, {"write"}).mark) \in Marks
    BY <1>1, <1>2 DEF Rows
  <2>2. QED
    BY <1>3, <2>1
<1>7. ASSUME NEW s \in ServiceIds
      PROVE  \/ legacyDb'[s] = legacyDb[s]
             \/ legacyDb'[s] = NoRecord /\ \E c \in Pending : c.sid = s /\ c.op = "removeLegacy"
  <2>1. CASE Among(n, s, {"removeLegacy"}) = {}
    BY <1>3, <2>1
  <2>2. CASE Among(n, s, {"removeLegacy"}) # {}
    BY <1>2, <1>3, <2>2
  <2>3. QED
    BY <2>1, <2>2
<1>8. ASSUME NEW s \in ServiceIds, \A c \in Pending : c.sid = s => c.op # "remove"
      PROVE  \/ db'[s] = db[s] /\ mark'[s] = mark[s]
             \/ \E c \in Pending : c.sid = s /\ c.op = "write"
                                   /\ db'[s] = c.record /\ mark'[s] = c.mark
  <2>1. Among(n, s, {"write", "remove"}) = Among(n, s, {"write"})
    <3>1. \A i \in 1 .. n : i \in 1 .. Len(calls)
      BY DEF Rows
    <3>2. \A i \in 1 .. Len(calls) : calls[i] \in Pending
      BY ElementsAre DEF Rows, Pending
    <3>3. \A i \in 1 .. n : calls[i].sid = s => calls[i].op # "remove"
      BY <1>8, <3>1, <3>2
    <3>4. QED
      BY <3>3 DEF Among
  <2>2. last(s, {"write", "remove"}) = last(s, {"write"})
    BY <2>1 DEF last
  <2>3. CASE Among(n, s, {"write"}) = {}
    BY <1>3, <2>1, <2>3
  <2>4. CASE Among(n, s, {"write"}) # {}
    BY <1>2, <1>3, <2>1, <2>2, <2>4
  <2>5. QED
    BY <2>3, <2>4
<1>9. QED
  BY <1>4, <1>5, <1>6, <1>7, <1>8

\* The first call alone.
LEMMA ExecuteOne ==
    ASSUME Rows, calls # <<>>, Execute(1), NEW s \in ServiceIds
    PROVE  LET c == Head(calls) IN
           /\ db'[s] = IF c.sid = s /\ c.op \in {"write", "remove"} THEN c.record ELSE db[s]
           /\ legacyDb'[s] = IF c.sid = s /\ c.op = "removeLegacy" THEN NoRecord ELSE legacyDb[s]
           /\ mark'[s] = IF c.sid = s /\ c.op = "write" THEN c.mark ELSE mark[s]
<1> DEFINE c == Head(calls)
<1>1. c = calls[1] /\ 1 \in 0 .. Len(calls)
  BY TailFacts DEF Rows
<1>2. \A ops : Among(1, s, ops) = IF c.sid = s /\ c.op \in ops THEN {1} ELSE {}
  <2>1. \A ops : Among(1, s, ops) = {i \in 1 .. 1 : calls[i].sid = s /\ calls[i].op \in ops}
    BY DEF Among
  <2>2. QED
    BY <1>1, <2>1
<1>3. \A ops : c.sid = s /\ c.op \in ops => calls[Max(Among(1, s, ops))] = c
  <2>1. Max({1}) = 1
    <3>1. Max({1}) \in {1}
      BY MaxIsMember
    <3>2. QED
      BY <3>1
  <2>2. QED
    BY <1>1, <1>2, <2>1
<1>4. /\ db'[s] = IF Among(1, s, {"write", "remove"}) = {} THEN db[s]
                  ELSE calls[Max(Among(1, s, {"write", "remove"}))].record
      /\ legacyDb'[s] = IF Among(1, s, {"removeLegacy"}) = {} THEN legacyDb[s] ELSE NoRecord
      /\ mark'[s] = IF Among(1, s, {"write"}) = {} THEN mark[s]
                    ELSE calls[Max(Among(1, s, {"write"}))].mark
  BY DEF Execute
<1> HIDE DEF c
<1>5. db'[s] = IF c.sid = s /\ c.op \in {"write", "remove"} THEN c.record ELSE db[s]
  BY <1>2, <1>3, <1>4
<1>6. legacyDb'[s] = IF c.sid = s /\ c.op = "removeLegacy" THEN NoRecord ELSE legacyDb[s]
  BY <1>2, <1>4
<1>7. mark'[s] = IF c.sid = s /\ c.op = "write" THEN c.mark ELSE mark[s]
  BY <1>2, <1>3, <1>4
<1>8. QED
  BY <1>5, <1>6, <1>7 DEF c
-------------------------------------------------------------------------------
(* The calls in flight *)

Differ(q) == \A i, j \in 1 .. Len(q) : q[i].task = q[j].task => i = j

\* A task that has no call makes one ...
LEMMA CallMade ==
    ASSUME NEW q \in Seq(Calls), NEW c \in Calls, Differ(q), \A d \in ToSet(q) : d.task # c.task
    PROVE  ToSet(Append(q, c)) = ToSet(q) \cup {c} /\ Differ(Append(q, c))
<1> DEFINE r == Append(q, c)
<1>1. /\ Len(q) \in Nat /\ Len(r) = Len(q) + 1
      /\ r[Len(q) + 1] = c /\ \A i \in 1 .. Len(q) : r[i] = q[i]
  BY AppendFacts
<1>2. ToSet(r) = ToSet(q) \cup {c}
  BY AppendElements
<1>3. \A i \in 1 .. Len(q) : q[i].task # c.task
  BY ElementsAre
<1> HIDE DEF r
<1>4. Differ(r)
  BY <1>1, <1>3 DEF Differ
<1>5. QED
  BY <1>2, <1>4 DEF r

\* ... and the first is answered.
LEMMA CallAnswered ==
    ASSUME NEW q \in Seq(Calls), Differ(q), NEW r, q # <<>>, r = Tail(q)
    PROVE  /\ Head(q) \in ToSet(q) /\ Head(q) = q[1] /\ Head(q) \in Calls
           /\ 1 \in 1 .. Len(q) /\ Len(q) \in Nat
           /\ r \in Seq(Calls) /\ Differ(r)
           /\ ToSet(r) = {c \in ToSet(q) : c.task # Head(q).task}
           /\ \A c \in ToSet(q) : c.task = Head(q).task => c = Head(q)
           /\ Len(r) = Len(q) - 1
           /\ \A i \in 1 .. Len(r) : i + 1 \in 1 .. Len(q) /\ r[i] = q[i + 1]
<1>1. /\ Len(q) \in Nat /\ Len(q) >= 1 /\ Head(q) = q[1] /\ r \in Seq(Calls)
      /\ Len(r) = Len(q) - 1
      /\ \A i \in 1 .. Len(q) - 1 : r[i] = q[i + 1]
  BY TailFacts
<1>2. 1 \in 1 .. Len(q) /\ Head(q) \in ToSet(q) /\ Head(q) \in Calls
  BY <1>1, ElementsAre
<1>3. \A i \in 1 .. Len(r) : i + 1 \in 1 .. Len(q) /\ r[i] = q[i + 1]
  BY <1>1
<1>4. Differ(r)
  <2>1. ASSUME NEW i \in 1 .. Len(r), NEW j \in 1 .. Len(r), r[i].task = r[j].task
        PROVE  i = j
    <3>1. q[i + 1].task = q[j + 1].task /\ i + 1 \in 1 .. Len(q) /\ j + 1 \in 1 .. Len(q)
      BY <1>3, <2>1
    <3>2. i + 1 = j + 1
      BY <3>1 DEF Differ
    <3>3. QED
      BY <3>2, <1>1
  <2>2. QED
    BY <2>1 DEF Differ
<1>5. ToSet(q) = {q[i] : i \in 1 .. Len(q)} /\ ToSet(r) = {r[i] : i \in 1 .. Len(r)}
  <2>1. r \in Seq(Calls)
    BY <1>1
  <2>2. \A p \in Seq(Calls) : ToSet(p) = {p[i] : i \in 1 .. Len(p)}
    BY ElementsAre
  <2>3. QED
    BY <2>1, <2>2
<1>6. \A c \in ToSet(q) : c.task = Head(q).task => c = Head(q)
  BY <1>1, <1>2, <1>5 DEF Differ
<1>7. ASSUME NEW c \in ToSet(r) PROVE c \in ToSet(q) /\ c.task # Head(q).task
  <2>1. PICK i \in 1 .. Len(r) : c = q[i + 1] /\ i + 1 \in 1 .. Len(q)
    BY <1>3, <1>5
  <2>2. i + 1 # 1
    BY <1>1
  <2>3. QED
    BY <1>1, <1>2, <1>5, <2>1, <2>2 DEF Differ
<1>8. ASSUME NEW c \in ToSet(q), c.task # Head(q).task PROVE c \in ToSet(r)
  <2>1. PICK i \in 1 .. Len(q) : c = q[i]
    BY <1>5
  <2>2. i # 1
    BY <1>1, <1>8, <2>1
  <2>3. i - 1 \in 1 .. Len(r) /\ (i - 1) + 1 = i
    BY <1>1, <2>2
  <2>4. r[i - 1] = q[i]
    BY <1>3, <2>3
  <2>5. QED
    BY <1>5, <2>1, <2>3, <2>4
<1>9. ToSet(r) = {c \in ToSet(q) : c.task # Head(q).task}
  BY <1>7, <1>8
<1>10. QED
  BY <1>1, <1>2, <1>3, <1>4, <1>6, <1>9

\* The calls of the next state: one more ...
LEMMA CallsGrow ==
    ASSUME calls \in Seq(Calls), Differ(calls), NEW w \in Calls, calls' = Append(calls, w),
           \A d \in Pending : d.task # w.task
    PROVE  /\ calls' \in Seq(Calls) /\ Pending' = Pending \cup {w} /\ Differ(calls')
           /\ Len(calls) \in Nat /\ Len(calls') = Len(calls) + 1
           /\ calls'[Len(calls) + 1] = w /\ \A i \in 1 .. Len(calls) : calls'[i] = calls[i]
<1>1. \A q \in Seq(Calls), c \in Calls : Differ(q) /\ (\A d \in ToSet(q) : d.task # c.task)
         => ToSet(Append(q, c)) = ToSet(q) \cup {c} /\ Differ(Append(q, c))
  BY CallMade
<1>2. ToSet(calls') = ToSet(calls) \cup {w} /\ Differ(calls')
  BY <1>1 DEF Pending
<1>3. QED
  BY <1>2, AppendFacts DEF Pending

\* ... one less ...
LEMMA CallsShrink ==
    ASSUME calls \in Seq(Calls), Differ(calls), calls # <<>>, calls' = Tail(calls)
    PROVE  /\ calls' \in Seq(Calls) /\ Differ(calls')
           /\ Pending' = {c \in Pending : c.task # Head(calls).task}
           /\ Len(calls) \in Nat /\ Len(calls) >= 1 /\ Len(calls') = Len(calls) - 1
           /\ \A i \in 1 .. Len(calls') : i + 1 \in 1 .. Len(calls) /\ calls'[i] = calls[i + 1]
<1>1. \A q \in Seq(Calls) : Differ(q) /\ q # <<>>
         => ToSet(Tail(q)) = {c \in ToSet(q) : c.task # Head(q).task} /\ Differ(Tail(q))
  BY CallAnswered
<1>2. ToSet(calls') = {c \in ToSet(calls) : c.task # Head(calls).task} /\ Differ(calls')
  BY <1>1
<1>3. QED
  BY <1>2, TailFacts DEF Pending

\* ... or the next call of the same task instead.
LEMMA CallsGoOn ==
    ASSUME calls \in Seq(Calls), Differ(calls), calls # <<>>, NEW w \in Calls,
           w.task = Head(calls).task, calls' = Append(Tail(calls), w)
    PROVE  /\ calls' \in Seq(Calls) /\ Differ(calls')
           /\ Pending' = {c \in Pending : c.task # w.task} \cup {w}
           /\ Len(calls) \in Nat /\ Len(calls) >= 1 /\ Len(calls') = Len(calls)
           /\ calls'[Len(calls)] = w
           /\ \A i \in 1 .. Len(calls) : i # Len(calls) =>
                 i + 1 \in 1 .. Len(calls) /\ calls'[i] = calls[i + 1]
<1>1. PICK q : q = Tail(calls)
  OBVIOUS
<1>2. /\ q \in Seq(Calls) /\ Len(calls) \in Nat /\ Len(calls) >= 1 /\ Len(q) = Len(calls) - 1
      /\ \A i \in 1 .. Len(calls) - 1 : q[i] = calls[i + 1]
  BY <1>1, TailFacts
<1>3. ToSet(q) = {c \in ToSet(calls) : c.task # w.task} /\ Differ(q)
  <2>1. \A p \in Seq(Calls) : Differ(p) /\ p # <<>>
           => ToSet(Tail(p)) = {c \in ToSet(p) : c.task # Head(p).task} /\ Differ(Tail(p))
    BY CallAnswered
  <2>2. QED
    BY <1>1, <2>1
<1>4. calls' = Append(q, w) /\ \A d \in ToSet(q) : d.task # w.task
  BY <1>1, <1>3
<1>5. ToSet(calls') = ToSet(q) \cup {w} /\ Differ(calls')
  <2>1. \A p \in Seq(Calls), c \in Calls : Differ(p) /\ (\A d \in ToSet(p) : d.task # c.task)
           => ToSet(Append(p, c)) = ToSet(p) \cup {c} /\ Differ(Append(p, c))
    BY CallMade
  <2>2. QED
    BY <1>2, <1>3, <1>4, <2>1
<1>6. /\ calls' \in Seq(Calls) /\ Len(calls') = Len(q) + 1 /\ calls'[Len(q) + 1] = w
      /\ \A i \in 1 .. Len(q) : calls'[i] = q[i]
  BY <1>2, <1>4, AppendFacts
<1>7. /\ Len(calls') = Len(calls) /\ calls'[Len(calls)] = w
      /\ \A i \in 1 .. Len(calls) : i # Len(calls) =>
            i + 1 \in 1 .. Len(calls) /\ calls'[i] = calls[i + 1]
  BY <1>2, <1>6
<1>8. QED
  BY <1>2, <1>3, <1>5, <1>6, <1>7 DEF Pending
-------------------------------------------------------------------------------
(* Steps that leave the records alone *)

LEMMA PendingFacts ==
    ASSUME TypeOK, CallsFit
    PROVE  /\ Rows /\ calls \in Seq(Calls) /\ Differ(calls) /\ Len(calls) \in Nat
           /\ \A i \in 1 .. Len(calls) : calls[i] \in Pending
           /\ \A c \in Pending : /\ c \in Calls /\ c.task \in Tasks /\ c.sid \in ServiceIds
                                 /\ c.sid = Sid(c.task)
                                 /\ c.op \in {"write", "removeLegacy", "remove"}
                                 /\ c.record \in Records \cup {NoRecord} /\ c.mark \in Marks
                                 /\ pc[c.task] \in {"writing", "migrating", "unmigrating", "removing"}
           /\ \A t \in Tasks : Sid(t) \in ServiceIds
<1>1. Rows /\ calls \in Seq(Calls) /\ Differ(calls) /\ \A t \in Tasks : Sid(t) \in ServiceIds
  BY RequestFacts DEF TypeOK, Rows, Differ, CallsFit
<1>2. /\ Len(calls) \in Nat /\ \A i \in 1 .. Len(calls) : calls[i] \in Pending
      /\ \A c \in Pending : c \in Calls
  BY <1>1, ElementsAre DEF Pending
<1>3. \A c \in Pending : pc[c.task] \in {"writing", "migrating", "unmigrating", "removing"}
                         /\ c.sid = Sid(c.task)
  BY <1>2, CallFacts DEF CallsFit, CallFits
<1>4. QED
  BY <1>1, <1>2, <1>3, CallFacts

DataAlone == UNCHANGED <<request, seen, memory, prev, disk, limits, history>>

\* Outside the bodies, tasks go where they will; a body may end without a call.
Quiet == {"idle", "outer", "zoneQueued", "queued", "archiving", "settled", "done"}
LEMMA QuietData ==
    ASSUME TypeOK, Data, DataAlone,
           \A t \in Tasks : pc'[t] = pc[t] \/ (pc[t] \in Quiet \cup {"read"} /\ pc'[t] \in Quiet)
    PROVE  Data'
<1> USE DEF DataAlone, memory, disk, limits, history
<1>1. /\ UNCHANGED <<Pending, Kept>>
      /\ \A t : Sid(t)' = Sid(t) /\ (OnQueue(t)' <=> OnQueue(t))
  BY DEF Pending, Kept, Sid, OnQueue
<1>2. \A t \in Tasks, p \in {"migrating", "unmigrating", "writing", "removing"} : pc'[t] = p <=> pc[t] = p
  BY DEF Quiet
<1>3. \A t \in Tasks, p \in {"read", "migrating", "unmigrating", "writing", "removing"} :
         pc'[t] = p => pc[t] = p
  BY DEF Quiet
<1>4. CallsFit'
  <2>1. \A c \in Pending : CallFits(c)'
    BY <1>1, <1>2, PendingFacts DEF CallsFit, CallFits, Sid, Data
  <2>2. QED
    BY <1>1, <1>2, <2>1 DEF CallsFit, Data
<1>5. MigrationsFirst'
  BY <1>1, <1>2, PendingFacts DEF MigrationsFirst, Data
<1>6. MigrationsAgree'
  <2> SUFFICES ASSUME NEW u \in Tasks, pc[u] = "migrating", Sid(u) \in Kept
               PROVE  /\ seen[u] # NoRecord /\ seen[u].verified = "default"
                      /\ legacyCache[Sid(u)] \in {NoRecord, seen[u]}
                      /\ cache[Sid(u)] = NoRecord => legacyCache[Sid(u)] # NoRecord
                      /\ \A v \in Tasks : pc[v] = "migrating" /\ Sid(v) = Sid(u) => seen[v] = seen[u]
                      /\ \A t \in Tasks : HasRead(t, Sid(u))' => seen[t] = seen[u]
                      /\ cache[Sid(u)] \in {NoRecord, seen[u]} \/ \E t \in Tasks : HasRead(t, Sid(u))'
    BY <1>1, <1>2 DEF MigrationsAgree, HasRead
  <2>1. \A s : \A t \in Tasks : HasRead(t, s)' => HasRead(t, s)
    BY <1>1, <1>3 DEF HasRead
  <2>2. \A t \in Tasks : HasRead(t, Sid(u)) => HasRead(t, Sid(u))' \/ seen[t] = cache[Sid(u)]
    BY <1>1, <1>2 DEF HasRead, Data, BodyHasRecord
  <2>3. /\ seen[u] # NoRecord /\ seen[u].verified = "default"
        /\ legacyCache[Sid(u)] \in {NoRecord, seen[u]}
        /\ cache[Sid(u)] = NoRecord => legacyCache[Sid(u)] # NoRecord
        /\ \A v \in Tasks : pc[v] = "migrating" /\ Sid(v) = Sid(u) => seen[v] = seen[u]
        /\ \A t \in Tasks : HasRead(t, Sid(u)) => seen[t] = seen[u]
        /\ cache[Sid(u)] \in {NoRecord, seen[u]} \/ \E t \in Tasks : HasRead(t, Sid(u))
    BY DEF MigrationsAgree, Data
  <2>4. cache[Sid(u)] \in {NoRecord, seen[u]} \/ \E t \in Tasks : HasRead(t, Sid(u))'
    <3>1. SUFFICES ASSUME NEW t \in Tasks, HasRead(t, Sid(u)), ~ HasRead(t, Sid(u))'
                   PROVE  cache[Sid(u)] = seen[u]
      BY <2>3
    <3>2. QED
      BY <2>2, <2>3, <3>1
  <2>5. QED
    BY <1>1, <2>1, <2>3, <2>4
<1>7. BodyHasRecord'
  BY <1>1, <1>3 DEF BodyHasRecord, Data
<1>8. TablesAgree'
  BY <1>1 DEF TablesAgree, Data
<1>9. KnownKeys'
  BY <1>1, <1>2 DEF KnownKeys, Data
<1>10. RecordsShow'
  BY <1>1 DEF RecordsShow, Data
<1>11. QED
  BY <1>4, <1>5, <1>6, <1>7, <1>8, <1>9, <1>10 DEF Data
-------------------------------------------------------------------------------
(* The turns of the tasks *)

\* Two bodies with a record are not about one service id.
LEMMA BodiesDiffer ==
    ASSUME OneBody, NEW t \in Tasks, NEW u \in Tasks, First(t), OnQueue(u),
           pc[u] \in InBodyPlaces, Sid(u) = Sid(t)
    PROVE  u = t
BY DEF OneBody, First

ConcatHead ==
    \A q, r \in Seq(Tasks) : q # <<>> => q \o r # <<>> /\ Head(q \o r) = Head(q)
LEMMA ConcatHeadHolds == ConcatHead
<1>1. ASSUME NEW q \in Seq(Tasks), NEW r \in Seq(Tasks), q # <<>>
      PROVE  q \o r # <<>> /\ Head(q \o r) = Head(q)
  <2>1. Len(q) \in Nat /\ Len(q) >= 1 /\ Head(q) = q[1] /\ Len(r) \in Nat
    BY <1>1, TailFacts
  <2>2. q \o r \in Seq(Tasks) /\ Len(q \o r) = Len(q) + Len(r) /\ (q \o r)[1] = q[1]
    BY <2>1
  <2>3. q \o r # <<>>
    BY <2>1, <2>2
  <2>4. QED
    BY <2>1, <2>2, <2>3, TailFacts
<1>2. QED
  BY <1>1 DEF ConcatHead

\* The identity queues grow at their ends, and no body starts.
LEMMA QueuesGrow ==
    ASSUME TypeOK, OneBody, UNCHANGED request,
           \A s \in ServiceIds : \E q \in Seq(Tasks) : queues'[s] = queues[s] \o q,
           \A u \in Tasks : pc'[u] \in InBodyPlaces /\ OnQueue(u) => First(u),
           \A u \in Tasks : pc'[u] \in {"zoneQueued", "outer", "queued", "read", "writing", "archiving"}
                              => OnQueue(u),
           \A u \in Tasks : pc'[u] = "removing" => ~ OnQueue(u)
    PROVE  OneBody'
<1>1. \A u : Sid(u)' = Sid(u) /\ (OnQueue(u)' <=> OnQueue(u))
  BY DEF Sid, OnQueue
<1>2. ASSUME NEW u \in Tasks, First(u) PROVE First(u)'
  <2>1. Sid(u) \in ServiceIds
    BY RequestFacts DEF TypeOK
  <2>2. PICK q \in Seq(Tasks) : queues'[Sid(u)] = queues[Sid(u)] \o q
    BY <2>1
  <2>3. queues[Sid(u)] \in Seq(Tasks) /\ queues[Sid(u)] # <<>> /\ Head(queues[Sid(u)]) = u
    BY <1>2, <2>1 DEF First, TypeOK
  <2>4. queues'[Sid(u)] # <<>> /\ Head(queues'[Sid(u)]) = u
    BY <2>2, <2>3, ConcatHeadHolds DEF ConcatHead
  <2>5. QED
    BY <1>1, <2>4 DEF First
<1>3. QED
  BY <1>1, <1>2 DEF OneBody

LEMMA SameQueues ==
    ASSUME TypeOK, UNCHANGED queues
    PROVE  \A s \in ServiceIds : \E q \in Seq(Tasks) : queues'[s] = queues[s] \o q
<1>1. ASSUME NEW s \in ServiceIds PROVE queues'[s] = queues[s] \o <<>>
  <2>1. queues[s] \in Seq(Tasks)
    BY DEF TypeOK
  <2>2. QED
    BY <2>1
<1>2. <<>> \in Seq(Tasks)
  OBVIOUS
<1>3. QED
  BY <1>1, <1>2

\* The request of a body, or of none, settles: the next job of its queue is the first.
LEMMA SettleTurns ==
    ASSUME TypeOK, OneBody, UNCHANGED request, NEW t \in Tasks, Settle(t),
           pc[t] \in InBodyPlaces \cup {"removing"}
    PROVE  OneBody' /\ queues' \in [ServiceIds -> Seq(Tasks)] /\ pc' \in [Tasks -> Places]
<1>1. \A u : Sid(u)' = Sid(u) /\ (OnQueue(u)' <=> OnQueue(u))
  BY DEF Sid, OnQueue
<1>2. /\ pc'[t] \in {"settled", "done"} /\ pc' \in [Tasks -> Places]
      /\ \A u \in Tasks : u # t => pc'[u] = pc[u]
  BY DEF Settle, TypeOK, Places
<1>3. OnQueue(t) => First(t) /\ pc[t] \in InBodyPlaces
  BY DEF OneBody
<1>4. queues \in [ServiceIds -> Seq(Tasks)] /\ Sid(t) \in ServiceIds
  BY RequestFacts DEF TypeOK
<1>5. queues' \in [ServiceIds -> Seq(Tasks)]
  <2>1. CASE OnQueue(t)
    <3>1. queues[Sid(t)] \in Seq(Tasks) /\ queues[Sid(t)] # <<>>
      BY <1>3, <1>4, <2>1 DEF First
    <3>2. Tail(queues[Sid(t)]) \in Seq(Tasks)
      BY <3>1
    <3>3. queues' = [queues EXCEPT ![Sid(t)] = Tail(@)]
      BY <2>1 DEF Settle
    <3>4. QED
      BY <1>4, <3>2, <3>3
  <2>2. CASE ~ OnQueue(t)
    BY <1>4, <2>2 DEF Settle
  <2>3. QED
    BY <2>1, <2>2
<1>6. ASSUME NEW u \in Tasks, pc'[u] \in InBodyPlaces, OnQueue(u) PROVE First(u)'
  <2>1. u # t /\ pc[u] \in InBodyPlaces /\ First(u) /\ Sid(u) \in ServiceIds
    BY <1>2, <1>6, RequestFacts DEF OneBody, InBodyPlaces, TypeOK
  <2>2. OnQueue(t) => Sid(u) # Sid(t)
    BY <1>3, <1>6, <2>1, BodiesDiffer
  <2>3. queues'[Sid(u)] = queues[Sid(u)]
    BY <1>4, <2>1, <2>2 DEF Settle
  <2>4. QED
    BY <1>1, <2>1, <2>3 DEF First
<1>7. QED
  BY <1>1, <1>2, <1>5, <1>6 DEF OneBody

\* Nobody joins or leaves the queue of the zones.
LEMMA ZoneQueueStays ==
    ASSUME TypeOK, ZoneQueueFits, UNCHANGED zoneQueue,
           \A u \in Tasks : pc[u] = "zoneQueued" => pc'[u] = "zoneQueued"
    PROVE  ZoneQueueFits'
<1>1. \A i \in 1 .. Len(zoneQueue) : zoneQueue[i] \in Tasks
  BY DEF TypeOK
<1>2. QED
  BY <1>1 DEF ZoneQueueFits
-------------------------------------------------------------------------------
(* Bodies *)

\* A body sends its record: the cache may already have its approval.
LEMMA SendData ==
    ASSUME TypeOK, OneBody, Data, UNCHANGED BodyLeavesAlone,
           NEW t \in Tasks, pc[t] = "read", NEW r \in Records, NEW m \in Marks, Send(t, r, m),
           r.key = IF request[t].op \in {"save", "sync"} THEN request[t].key ELSE seen[t].key,
           Sid(t) \in Kept => Shows(r, m),
           cache' \in [ServiceIds -> Records \cup {NoRecord}],
           \A s \in ServiceIds : SameButApproval(cache'[s], cache[s]),
           \A s \in ServiceIds \ {Sid(t)} : cache'[s] = cache[s]
    PROVE  Data' /\ calls' \in Seq(Calls)
<1>0. PICK w : w = Write(t, Sid(t), r, m)
  OBVIOUS
<1> USE DEF BodyLeavesAlone, zones, limits, history
<1>1. /\ UNCHANGED <<Kept, removed, cut, seen, legacyCache, prev, db, legacyDb, failures, told, mark>>
      /\ \A u : Sid(u)' = Sid(u) /\ (OnQueue(u)' <=> OnQueue(u)) /\ request'[u] = request[u]
  BY DEF Kept, Sid, OnQueue
<1>2. OnQueue(t) /\ First(t) /\ Sid(t) \in ServiceIds /\ \A u \in Tasks : Sid(u) \in ServiceIds
  BY PendingFacts DEF OneBody, Data, InBodyPlaces
<1>3. /\ w \in Calls /\ w.op = "write" /\ w.task = t /\ w.sid = Sid(t) /\ w.record = r /\ w.mark = m
      /\ r \in Records \cup {NoRecord} /\ r # NoRecord
  BY <1>0, <1>2, CallFacts, RecordFacts
<1>4. calls' = Append(calls, w) /\ pc' = [pc EXCEPT ![t] = "writing"] /\ pc \in [Tasks -> Places]
  BY <1>0 DEF Send, TypeOK
<1>5. pc'[t] = "writing" /\ \A u \in Tasks \ {t} : pc'[u] = pc[u]
  BY <1>4
<1>6. \A c \in Pending : c.task \in Tasks \ {t} /\ c.task # t /\ pc'[c.task] = pc[c.task]
  BY <1>5, PendingFacts DEF Data
<1>7. /\ calls' \in Seq(Calls) /\ Pending' = Pending \cup {w} /\ Differ(calls')
      /\ Len(calls) \in Nat /\ Len(calls') = Len(calls) + 1
      /\ calls'[Len(calls) + 1] = w /\ \A i \in 1 .. Len(calls) : calls'[i] = calls[i]
  <2>1. \A d \in Pending : d.task # w.task
    BY <1>3, <1>6
  <2>2. calls \in Seq(Calls) /\ Differ(calls)
    BY PendingFacts DEF Data
  <2>3. QED
    BY <1>3, <1>4, <2>1, <2>2, CallsGrow
<1>8. \A s \in ServiceIds : /\ cache'[s] = NoRecord <=> cache[s] = NoRecord
                            /\ cache'[s].key = cache[s].key
  <2>1. cache \in [ServiceIds -> Records \cup {NoRecord}]
    BY DEF TypeOK
  <2>2. QED
    BY <2>1, ApprovalFacts
<1>9. CallsFit'
  <2>1. \A c \in Pending : CallFits(c)'
    BY <1>1, <1>6 DEF CallsFit, CallFits, Sid, Data
  <2>2. CallFits(w)'
    BY <1>1, <1>3, <1>5 DEF CallFits, Sid
  <2>3. \A u \in Tasks : pc'[u] = "migrating" => \E c \in Pending : c.task = u
    BY <1>5 DEF CallsFit, Data
  <2>4. \A c \in Pending' : CallFits(c)'
    BY <1>7, <2>1, <2>2
  <2>5. QED
    BY <1>7, <2>4, <2>3 DEF CallsFit, Differ
<1>10. MigrationsFirst'
  <2>1. ASSUME NEW i \in 1 .. Len(calls'), NEW j \in 1 .. Len(calls'),
               calls'[i].sid = calls'[j].sid, calls'[i].sid \in Kept,
               pc'[calls'[i].task] = "migrating", pc'[calls'[j].task] = "writing"
        PROVE  i < j
    <3>1. i # Len(calls) + 1
      BY <1>3, <1>5, <1>7, <2>1
    <3>2. i \in 1 .. Len(calls) /\ calls'[i] = calls[i] /\ calls[i] \in Pending
      BY <1>7, <2>1, <3>1, PendingFacts DEF Data
    <3>3. CASE j = Len(calls) + 1
      BY <1>7, <3>2, <3>3
    <3>4. CASE j # Len(calls) + 1
      <4>1. j \in 1 .. Len(calls) /\ calls'[j] = calls[j] /\ calls[j] \in Pending
        BY <1>7, <2>1, <3>4, PendingFacts DEF Data
      <4>2. QED
        BY <1>6, <2>1, <3>2, <4>1 DEF Data, MigrationsFirst
    <3>5. QED
      BY <3>3, <3>4
  <2>2. QED
    BY <1>1, <2>1 DEF MigrationsFirst
<1>11. MigrationsAgree'
  <2>1. ASSUME NEW u \in Tasks, pc'[u] = "migrating", NEW s, s = Sid(u), s \in Kept
        PROVE  /\ seen[u] # NoRecord /\ seen[u].verified = "default"
               /\ legacyCache[s] \in {NoRecord, seen[u]}
               /\ cache'[s] = NoRecord => legacyCache[s] # NoRecord
               /\ \A v \in Tasks : pc'[v] = "migrating" /\ Sid(v) = s => seen[v] = seen[u]
               /\ \A v \in Tasks : HasRead(v, s)' => seen[v] = seen[u]
               /\ cache'[s] \in {NoRecord, seen[u]} \/ \E v \in Tasks : HasRead(v, s)'
    <3>1. u # t /\ pc[u] = "migrating" /\ s \in ServiceIds
      BY <1>2, <1>5, <2>1
    <3>2. \A v \in Tasks : HasRead(v, s)' <=> HasRead(v, s)
      BY <1>1, <1>5 DEF HasRead
    <3>3. Sid(t) = s => HasRead(t, s)
      BY <1>2 DEF HasRead
    <3>4. QED
      BY <1>5, <1>8, <2>1, <3>1, <3>2, <3>3 DEF Data, MigrationsAgree
  <2>2. QED
    BY <1>1, <2>1 DEF MigrationsAgree, HasRead
<1>12. BodyHasRecord'
  <2>1. ASSUME NEW u \in Tasks, pc'[u] \in {"read", "unmigrating", "writing"}, Sid(u) \in Kept
        PROVE  /\ cache'[Sid(u)] # NoRecord \/ legacyCache[Sid(u)] = NoRecord
               /\ OnQueue(u) /\ pc'[u] # "writing" => seen[u] = cache'[Sid(u)]
               /\ pc'[u] = "writing" => SameButApproval(cache'[Sid(u)], seen[u])
    <3>1. pc[u] \in {"read", "unmigrating", "writing"} /\ Sid(u) \in ServiceIds
      BY <1>2, <1>5, <2>1
    <3>2. cache'[Sid(u)] # NoRecord \/ legacyCache[Sid(u)] = NoRecord
      BY <1>8, <2>1, <3>1 DEF Data, BodyHasRecord
    <3>3. CASE u = t
      <4>1. seen[t] = cache[Sid(t)]
        BY <1>2, <2>1, <3>3 DEF Data, BodyHasRecord
      <4>2. QED
        BY <1>2, <1>5, <3>2, <3>3, <4>1
    <3>4. CASE u # t /\ Sid(u) = Sid(t)
      <4>1. ~ OnQueue(u) /\ pc[u] # "writing"
        BY <1>2, <3>1, <3>4, BodiesDiffer DEF InBodyPlaces, OneBody
      <4>2. QED
        BY <1>5, <3>2, <3>4, <4>1
    <3>5. CASE u # t /\ Sid(u) # Sid(t)
      BY <1>5, <2>1, <3>1, <3>2, <3>5 DEF Data, BodyHasRecord
    <3>6. QED
      BY <3>3, <3>4, <3>5
  <2>2. QED
    BY <1>1, <2>1 DEF BodyHasRecord, Sid, OnQueue
<1>13. TablesAgree'
  <2>1. ASSUME NEW s \in Kept
        PROVE  /\ SameButApproval(cache'[s], db[s])
               /\ failures = 0 /\ cache'[s] # db[s] => \E c \in Pending' : c.sid = s /\ c.op = "write"
    <3>1. s \in ServiceIds
      BY <2>1 DEF Kept
    <3>2. SameButApproval(cache'[s], db[s])
      BY <2>1, <3>1, ApprovalRelates DEF Data, TablesAgree
    <3>3. CASE s = Sid(t)
      BY <1>3, <1>7, <3>2, <3>3
    <3>4. CASE s # Sid(t)
      BY <1>7, <2>1, <3>1, <3>2, <3>4 DEF Data, TablesAgree
    <3>5. QED
      BY <3>3, <3>4
  <2>2. \A s \in Kept, c \in Pending' : c.sid = s /\ c.op = "removeLegacy" => db[s] # NoRecord
    BY <1>3, <1>7 DEF Data, TablesAgree
  <2>3. QED
    BY <1>1, <2>1, <2>2 DEF Data, TablesAgree
<1>14. KnownKeys'
  <2>1. \A s \in Kept : s \in ServiceIds
    BY DEF Kept
  <2>2. \A u \in Tasks : pc'[u] = "migrating" => pc[u] = "migrating"
    BY <1>5
  <2>3. QED
    BY <1>1, <1>8, <2>1, <2>2 DEF KnownKeys, Data
<1>15. RecordsShow'
  <2>1. \A s \in Kept, c \in Pending' : c.sid = s /\ c.op = "write" => Shows(c.record, c.mark)
    BY <1>3, <1>7 DEF Data, RecordsShow
  <2>2. QED
    BY <1>1, <2>1 DEF Data, RecordsShow
<1>16. QED
  BY <1>7, <1>9, <1>10, <1>11, <1>12, <1>13, <1>14, <1>15 DEF Data

LEMMA SendStep ==
    ASSUME Inv, UNCHANGED BodyLeavesAlone,
           NEW t \in Tasks, pc[t] = "read", NEW r \in Records, NEW m \in Marks, Send(t, r, m),
           r.key = IF request[t].op \in {"save", "sync"} THEN request[t].key ELSE seen[t].key,
           Sid(t) \in Kept => Shows(r, m),
           cache' \in [ServiceIds -> Records \cup {NoRecord}],
           \A s \in ServiceIds : SameButApproval(cache'[s], cache[s]),
           \A s \in ServiceIds \ {Sid(t)} : cache'[s] = cache[s]
    PROVE  Inv'
<1> USE DEF BodyLeavesAlone, zones, limits, history
<1>1. TypeOK /\ OneBody /\ ZoneQueueFits /\ Data
  BY DEF Inv, Turns
<1>2. Data' /\ calls' \in Seq(Calls)
  BY <1>1, SendData
<1>3. UNCHANGED <<request, queues, zoneQueue>>
  BY DEF Send
<1>4. pc' \in [Tasks -> Places] /\ pc'[t] = "writing" /\ \A u \in Tasks : u # t => pc'[u] = pc[u]
  BY <1>1 DEF Send, TypeOK, Places
<1>5. ZoneQueueFits'
  <2>1. \A u \in Tasks : pc[u] = "zoneQueued" => pc'[u] = "zoneQueued"
    BY <1>4
  <2>2. QED
    BY <1>1, <1>3, <2>1, ZoneQueueStays
<1>6. OneBody'
  <2>1. OnQueue(t) /\ First(t)
    BY <1>1 DEF OneBody, InBodyPlaces
  <2>2. /\ \A u \in Tasks : pc'[u] \in InBodyPlaces /\ OnQueue(u) => First(u)
        /\ \A u \in Tasks : pc'[u] \in {"zoneQueued", "outer", "queued", "read", "writing", "archiving"}
                               => OnQueue(u)
        /\ \A u \in Tasks : pc'[u] = "removing" => ~ OnQueue(u)
    BY <1>1, <1>4, <2>1 DEF OneBody
  <2>3. QED
    BY <1>1, <1>3, <2>2, SameQueues, QueuesGrow
<1>7. TypeOK'
  BY <1>1, <1>2, <1>3, <1>4 DEF TypeOK
<1>8. QED
  BY <1>2, <1>5, <1>6, <1>7 DEF Inv, Turns

\* What a body reads shows what was said of the key.
LEMMA SeenShows ==
    ASSUME Inv, NEW t \in Tasks, pc[t] = "read"
    PROVE  /\ OnQueue(t) /\ Sid(t) \in ServiceIds /\ mark[Sid(t)] \in Marks
           /\ seen[t] \in Records \cup {NoRecord}
           /\ Sid(t) \in Kept =>
                /\ seen[t] = cache[Sid(t)]
                /\ seen[t] = NoRecord => mark[Sid(t)].status = "default"
                /\ seen[t] # NoRecord => Shows(seen[t], mark[Sid(t)])
<1>0. TypeOK /\ OneBody /\ Data
  BY DEF Inv, Turns
<1>1. OnQueue(t) /\ Sid(t) \in ServiceIds
  BY <1>0, PendingFacts DEF OneBody, Data
<1>2. /\ mark[Sid(t)] \in Marks /\ seen[t] \in Records \cup {NoRecord}
      /\ cache[Sid(t)] \in Records \cup {NoRecord} /\ db[Sid(t)] \in Records \cup {NoRecord}
  BY <1>0, <1>1 DEF TypeOK
<1>3. ASSUME Sid(t) \in Kept
      PROVE  /\ seen[t] = cache[Sid(t)]
             /\ seen[t] = NoRecord => mark[Sid(t)].status = "default"
             /\ seen[t] # NoRecord => Shows(seen[t], mark[Sid(t)])
  <2>1. seen[t] = cache[Sid(t)] /\ SameButApproval(seen[t], db[Sid(t)])
    BY <1>0, <1>1, <1>3 DEF Data, BodyHasRecord, TablesAgree
  <2>2. /\ seen[t].key = db[Sid(t)].key /\ seen[t].verified = db[Sid(t)].verified
        /\ seen[t] = NoRecord <=> db[Sid(t)] = NoRecord
    BY <1>2, <2>1, ApprovalFacts
  <2>3. /\ db[Sid(t)] # NoRecord => Shows(db[Sid(t)], mark[Sid(t)])
        /\ db[Sid(t)] = NoRecord => mark[Sid(t)].status = "default"
    BY <1>0, <1>3 DEF Data, RecordsShow
  <2>4. QED
    BY <2>1, <2>2, <2>3 DEF Shows
<1>4. QED
  BY <1>1, <1>2, <1>3

\* A body that ends without a call.
LEMMA SettleStep ==
    ASSUME Inv, UNCHANGED <<BodyLeavesAlone, cache, calls>>,
           NEW t \in Tasks, pc[t] = "read", Settle(t)
    PROVE  Inv'
<1>0. TypeOK /\ OneBody /\ ZoneQueueFits /\ Data
  BY DEF Inv, Turns
<1>1. DataAlone
  BY DEF BodyLeavesAlone, DataAlone, memory, disk
<1>2. pc'[t] \in Quiet /\ \A u \in Tasks \ {t} : pc'[u] = pc[u]
  BY <1>0 DEF Settle, TypeOK, Quiet
<1>3. \A u \in Tasks : pc'[u] = pc[u] \/ (pc[u] \in Quiet \cup {"read"} /\ pc'[u] \in Quiet)
  <2>1. ASSUME NEW u \in Tasks, u # t PROVE pc'[u] = pc[u]
    BY <1>2, <2>1
  <2>2. pc[t] \in Quiet \cup {"read"} /\ pc'[t] \in Quiet
    BY <1>2
  <2>3. QED
    BY <2>1, <2>2
<1>4. Data'
  BY <1>0, <1>1, <1>3, QuietData
<1>5. OneBody' /\ queues' \in [ServiceIds -> Seq(Tasks)] /\ pc' \in [Tasks -> Places]
  BY <1>0, SettleTurns DEF BodyLeavesAlone, InBodyPlaces
<1>6. ZoneQueueFits'
  BY <1>0, <1>2, ZoneQueueStays DEF BodyLeavesAlone, zones
<1>7. TypeOK'
  BY <1>0, <1>5 DEF TypeOK, BodyLeavesAlone, zones, limits, history
<1>8. QED
  BY <1>4, <1>5, <1>6, <1>7 DEF Inv, Turns

\* A body that writes and leaves the cache alone.
LEMMA WriteStep ==
    ASSUME Inv, UNCHANGED <<BodyLeavesAlone, cache>>,
           NEW t \in Tasks, pc[t] = "read", NEW r \in Records, NEW m \in Marks, Send(t, r, m),
           r.key = IF request[t].op \in {"save", "sync"} THEN request[t].key ELSE seen[t].key,
           Sid(t) \in Kept => Shows(r, m)
    PROVE  Inv'
<1>1. cache' = cache /\ UNCHANGED BodyLeavesAlone /\ cache \in [ServiceIds -> Records \cup {NoRecord}]
  BY DEF TypeOK, Inv
<1>2. QED
  BY <1>1, SendStep, ApprovalRelates

LEMMA SaveNewStep ==
    ASSUME Inv, NEW t \in Tasks, SaveNew(t)
    PROVE  Inv'
<1>1. PICK r : r = [key |-> request[t].key, firstUse |-> TRUE, verified |-> "default",
                    approved |-> FALSE]
  OBVIOUS
<1>2. PICK m : m = mark[Sid(t)]
  OBVIOUS
<1>3. /\ UNCHANGED <<BodyLeavesAlone, cache>> /\ pc[t] = "read" /\ request[t].op = "save"
      /\ seen[t] = NoRecord /\ Send(t, r, m)
  BY <1>1, <1>2 DEF SaveNew, InBody
<1>4. request[t].key \in Keys
  BY <1>3, RequestFacts DEF TypeOK, Inv
<1>5. r \in Records /\ r.key = request[t].key /\ r.verified = "default"
  BY <1>1, <1>4 DEF Records, Statuses
<1>6. m \in Marks /\ (Sid(t) \in Kept => m.status = "default")
  BY <1>2, <1>3, SeenShows
<1>7. Sid(t) \in Kept => Shows(r, m)
  BY <1>5, <1>6 DEF Shows
<1>8. QED
  BY <1>3, <1>5, <1>6, <1>7, WriteStep

LEMMA SaveChangedStep ==
    ASSUME Inv, NEW t \in Tasks, SaveChanged(t)
    PROVE  Inv'
<1>1. PICK r : r = [key |-> request[t].key, firstUse |-> FALSE,
                    verified |-> ReplacedStatus(seen[t].verified), approved |-> FALSE]
  OBVIOUS
<1>2. PICK m : m = mark[Sid(t)]
  OBVIOUS
<1>3. /\ UNCHANGED <<BodyLeavesAlone, cache>> /\ pc[t] = "read" /\ request[t].op = "save"
      /\ seen[t] # NoRecord /\ Send(t, r, m)
  BY <1>1, <1>2 DEF SaveChanged, InBody
<1>4. request[t].key \in Keys
  BY <1>3, RequestFacts DEF TypeOK, Inv
<1>5. r \in Records /\ r.key = request[t].key
      /\ r.verified = IF seen[t].verified = "default" THEN "default" ELSE "unverified"
  BY <1>1, <1>4 DEF Records, Statuses, ReplacedStatus
<1>6. m \in Marks /\ (Sid(t) \in Kept => Shows(seen[t], m))
  BY <1>2, <1>3, SeenShows
<1>7. Sid(t) \in Kept => Shows(r, m)
  BY <1>5, <1>6 DEF Shows
<1>8. QED
  BY <1>3, <1>5, <1>6, <1>7, WriteStep

LEMMA SaveSameStep ==
    ASSUME Inv, NEW t \in Tasks, SaveSame(t)
    PROVE  Inv'
<1>1. /\ UNCHANGED <<BodyLeavesAlone, cache>> /\ pc[t] = "read" /\ request[t].op = "save"
      /\ seen[t].key = request[t].key
  BY DEF SaveSame, InBody
<1>2. CASE Send(t, seen[t], mark[Sid(t)])
  <2>1. PICK r, m : r = seen[t] /\ m = mark[Sid(t)]
    OBVIOUS
  <2>2. request[t].key \in Keys
    BY <1>1, RequestFacts DEF TypeOK, Inv
  <2>3. r \in Records /\ r.key = request[t].key /\ r # NoRecord
    BY <1>1, <2>1, <2>2, SeenShows, RecordFacts, KeysAssumption
  <2>4. m \in Marks /\ (Sid(t) \in Kept => Shows(r, m))
    BY <1>1, <2>1, <2>3, SeenShows
  <2>5. QED
    BY <1>1, <1>2, <2>1, <2>3, <2>4, WriteStep
<1>3. CASE Settle(t) /\ UNCHANGED calls
  <2>1. UNCHANGED <<BodyLeavesAlone, cache, calls>>
    BY <1>1, <1>3
  <2>2. QED
    BY <1>1, <1>3, <2>1, SettleStep
<1>4. QED
  BY <1>2, <1>3 DEF SaveSame

LEMMA ApproveStep ==
    ASSUME Inv, NEW t \in Tasks, Approve(t)
    PROVE  Inv'
<1>1. UNCHANGED BodyLeavesAlone /\ pc[t] = "read" /\ request[t].op = "approve"
  BY DEF Approve, InBody
<1>2. CASE seen[t] = NoRecord
  <2>1. UNCHANGED <<BodyLeavesAlone, cache, calls>> /\ Settle(t)
    BY <1>1, <1>2 DEF Approve
  <2>2. QED
    BY <1>1, <2>1, SettleStep
<1>3. CASE seen[t] # NoRecord
  <2>1. PICK r, m : r = [seen[t] EXCEPT !.approved = TRUE] /\ m = mark[Sid(t)]
    OBVIOUS
  <2>2. /\ Send(t, r, m)
        /\ cache' = IF cache[Sid(t)] = seen[t] THEN [cache EXCEPT ![Sid(t)] = r] ELSE cache
    BY <1>3, <2>1 DEF Approve
  <2>3. seen[t] \in Records /\ Sid(t) \in ServiceIds
    BY <1>1, <1>3, SeenShows
  <2>4. /\ r \in Records /\ SameButApproval(r, seen[t])
        /\ r.key = seen[t].key /\ r.verified = seen[t].verified
    BY <2>1, <2>3, ApprovedIs
  <2>5. m \in Marks /\ (Sid(t) \in Kept => Shows(r, m))
    <3>1. m \in Marks /\ (Sid(t) \in Kept => Shows(seen[t], m))
      BY <1>1, <1>3, <2>1, SeenShows
    <3>2. QED
      BY <2>4, <3>1 DEF Shows
  <2>6. /\ cache' \in [ServiceIds -> Records \cup {NoRecord}]
        /\ \A s \in ServiceIds \ {Sid(t)} : cache'[s] = cache[s]
        /\ cache'[Sid(t)] = cache[Sid(t)] \/ (cache'[Sid(t)] = r /\ cache[Sid(t)] = seen[t])
    BY <2>2, <2>3, <2>4 DEF TypeOK, Inv
  <2>7. \A s \in ServiceIds : SameButApproval(cache'[s], cache[s])
    BY <2>4, <2>6, ApprovalRelates
  <2>8. QED
    BY <1>1, <2>2, <2>4, <2>5, <2>6, <2>7, SendStep
<1>4. QED
  BY <1>2, <1>3

LEMMA VerifyStep ==
    ASSUME Inv, NEW t \in Tasks, Verify(t)
    PROVE  Inv'
<1>1. UNCHANGED <<BodyLeavesAlone, cache>> /\ pc[t] = "read" /\ request[t].op = "verify"
  BY DEF Verify, InBody
<1>2. CASE seen[t] = NoRecord
  <2>1. UNCHANGED <<BodyLeavesAlone, cache, calls>> /\ Settle(t)
    BY <1>1, <1>2 DEF Verify
  <2>2. QED
    BY <1>1, <2>1, SettleStep
<1>3. CASE seen[t] # NoRecord
  <2>1. PICK extra : extra = IF request[t].status = "default" THEN seen[t]
                             ELSE [seen[t] EXCEPT !.firstUse = FALSE, !.approved = TRUE]
    OBVIOUS
  <2>2. PICK r : r = [extra EXCEPT !.verified = request[t].status]
    OBVIOUS
  <2>3. PICK m : m = [status |-> request[t].status, key |-> seen[t].key]
    OBVIOUS
  <2>4. Send(t, r, m)
    BY <1>3, <2>1, <2>2, <2>3 DEF Verify
  <2>5. seen[t] \in Records /\ request[t].status \in Statuses
    BY <1>1, <1>3, SeenShows, RequestFacts DEF TypeOK, Inv
  <2>6. extra \in Records /\ extra.key = seen[t].key
    BY <2>1, <2>5 DEF Records
  <2>7. r \in Records /\ r.key = seen[t].key /\ r.verified = request[t].status
    BY <2>2, <2>5, <2>6 DEF Records
  <2>8. m \in Marks /\ Shows(r, m)
    BY <2>3, <2>5, <2>7, RecordFacts DEF Marks, Shows
  <2>9. QED
    BY <1>1, <2>4, <2>7, <2>8, WriteStep
<1>4. QED
  BY <1>2, <1>3

LEMMA SyncStep ==
    ASSUME Inv, NEW t \in Tasks, Sync(t)
    PROVE  Inv'
<1>1. UNCHANGED <<BodyLeavesAlone, cache>> /\ pc[t] = "read" /\ request[t].op = "sync"
  BY DEF Sync, InBody
<1>2. CASE Settle(t) /\ UNCHANGED calls
  <2>1. UNCHANGED <<BodyLeavesAlone, cache, calls>>
    BY <1>1, <1>2
  <2>2. QED
    BY <1>1, <1>2, <2>1, SettleStep
<1>3. CASE ~ (Settle(t) /\ UNCHANGED calls)
  <2>1. PICK r : r = [key |-> request[t].key, firstUse |-> ~ (seen[t] # NoRecord),
                      verified |-> request[t].status, approved |-> TRUE]
    OBVIOUS
  <2>2. PICK m : m = [status |-> request[t].status, key |-> request[t].key]
    OBVIOUS
  <2>3. Send(t, r, m)
    BY <1>3, <2>1, <2>2 DEF Sync
  <2>4. request[t].key \in Keys /\ request[t].status \in Statuses
    BY <1>1, RequestFacts DEF TypeOK, Inv
  <2>5. r \in Records /\ r.key = request[t].key /\ r.verified = request[t].status
    BY <2>1, <2>4 DEF Records
  <2>6. m \in Marks /\ Shows(r, m)
    BY <2>2, <2>4, <2>5 DEF Marks, Shows
  <2>7. QED
    BY <1>1, <2>3, <2>5, <2>6, WriteStep
<1>4. QED
  BY <1>2, <1>3
-------------------------------------------------------------------------------
(* Reading and migrating *)

LEMMA MayReadFacts ==
    ASSUME OneBody, NEW t \in Tasks, MayRead(t)
    PROVE  /\ pc[t] \in {"idle", "queued"}
           /\ OnQueue(t) => First(t)
           /\ \A v \in Tasks, s \in {Sid(t)} : OnQueue(t) => ~ HasRead(v, s)
<1>1. pc[t] \in {"idle", "queued"} /\ (OnQueue(t) => First(t))
  BY DEF MayRead, OnQueue
<1>2. ASSUME NEW v \in Tasks, OnQueue(t), HasRead(v, Sid(t)) PROVE FALSE
  BY <1>1, <1>2, BodiesDiffer DEF HasRead, InBodyPlaces
<1>3. QED
  BY <1>1, <1>2

LEMMA ReadData ==
    ASSUME TypeOK, OneBody, Data, NEW t \in Tasks, Read(t)
    PROVE  Data'
<1> USE DEF memory, disk, limits, history
<1>1. /\ UNCHANGED <<Kept, removed, cut, cache, legacyCache, prev, db, legacyDb, failures, told, mark,
                     calls, Pending>>
      /\ \A u : Sid(u)' = Sid(u) /\ (OnQueue(u)' <=> OnQueue(u)) /\ request'[u] = request[u]
  BY DEF Kept, Sid, OnQueue, Read, Pending
<1>2. /\ cache[Sid(t)] # NoRecord \/ legacyCache[Sid(t)] = NoRecord
      /\ pc'[t] = IF OnQueue(t) THEN "read" ELSE "done"
      /\ seen'[t] = cache[Sid(t)]
      /\ \A u \in Tasks : u # t => pc'[u] = pc[u] /\ seen'[u] = seen[u]
  BY DEF Read, TypeOK
<1>3. /\ pc[t] \in {"idle", "queued"} /\ (OnQueue(t) => First(t))
      /\ \A v \in Tasks : OnQueue(t) => ~ HasRead(v, Sid(t))
  BY MayReadFacts DEF Read
<1>4. \A c \in Pending : c.task \in Tasks /\ c.task # t
  BY <1>3, PendingFacts DEF Data
<1>5. CallsFit'
  <2>1. \A c \in Pending : CallFits(c)'
    BY <1>1, <1>2, <1>4 DEF CallsFit, CallFits, Sid, Data
  <2>2. \A u \in Tasks : pc'[u] = "migrating" => \E c \in Pending : c.task = u
    BY <1>2 DEF CallsFit, Data
  <2>3. QED
    BY <1>1, <2>1, <2>2 DEF CallsFit, Data
<1>6. MigrationsFirst'
  <2>1. \A i \in 1 .. Len(calls) : calls[i].task \in Tasks /\ calls[i].task # t
    BY <1>4, PendingFacts DEF Data
  <2>2. QED
    BY <1>1, <1>2, <2>1 DEF MigrationsFirst, Data
<1>7. MigrationsAgree'
  <2>1. ASSUME NEW u \in Tasks, pc'[u] = "migrating", NEW s, s = Sid(u), s \in Kept
        PROVE  /\ seen'[u] # NoRecord /\ seen'[u].verified = "default"
               /\ legacyCache[s] \in {NoRecord, seen'[u]}
               /\ cache[s] = NoRecord => legacyCache[s] # NoRecord
               /\ \A v \in Tasks : pc'[v] = "migrating" /\ Sid(v) = s => seen'[v] = seen'[u]
               /\ \A v \in Tasks : HasRead(v, s)' => seen'[v] = seen'[u]
               /\ cache[s] \in {NoRecord, seen'[u]} \/ \E v \in Tasks : HasRead(v, s)'
    <3>1. u # t /\ pc[u] = "migrating" /\ seen'[u] = seen[u]
      BY <1>2, <2>1
    <3>2. /\ seen[u] # NoRecord /\ seen[u].verified = "default"
          /\ legacyCache[s] \in {NoRecord, seen[u]}
          /\ cache[s] = NoRecord => legacyCache[s] # NoRecord
          /\ \A v \in Tasks : pc[v] = "migrating" /\ Sid(v) = s => seen[v] = seen[u]
          /\ \A v \in Tasks : HasRead(v, s) => seen[v] = seen[u]
          /\ cache[s] \in {NoRecord, seen[u]} \/ \E v \in Tasks : HasRead(v, s)
      BY <2>1, <3>1 DEF Data, MigrationsAgree
    <3>3. \A v \in Tasks : v # t => (HasRead(v, s)' <=> HasRead(v, s))
      BY <1>1, <1>2 DEF HasRead
    <3>4. ~ HasRead(t, s)
      BY <1>3 DEF HasRead
    <3>5. HasRead(t, s)' => seen'[t] = seen[u]
      BY <1>1, <1>2, <1>3, <3>2 DEF HasRead
    <3>6. \A v \in Tasks : pc'[v] = "migrating" => v # t /\ pc[v] = "migrating" /\ seen'[v] = seen[v]
      BY <1>2
    <3>7. \A v \in Tasks : HasRead(v, s)' => seen'[v] = seen[u]
      BY <1>2, <3>2, <3>3, <3>5
    <3>8. cache[s] \in {NoRecord, seen[u]} \/ \E v \in Tasks : HasRead(v, s)'
      BY <3>2, <3>3, <3>4
    <3>9. QED
      BY <3>1, <3>2, <3>6, <3>7, <3>8
  <2>2. QED
    BY <1>1, <2>1 DEF MigrationsAgree, HasRead
<1>8. BodyHasRecord'
  <2>1. ASSUME NEW u \in Tasks, pc'[u] \in {"read", "unmigrating", "writing"}, Sid(u) \in Kept
        PROVE  /\ cache[Sid(u)] # NoRecord \/ legacyCache[Sid(u)] = NoRecord
               /\ OnQueue(u) /\ pc'[u] # "writing" => seen'[u] = cache[Sid(u)]
               /\ pc'[u] = "writing" => SameButApproval(cache[Sid(u)], seen'[u])
    BY <1>2, <2>1 DEF Data, BodyHasRecord
  <2>2. QED
    BY <1>1, <2>1 DEF BodyHasRecord, Sid, OnQueue
<1>9. TablesAgree'
  BY <1>1 DEF Data, TablesAgree
<1>10. KnownKeys'
  <2>1. \A u \in Tasks : pc'[u] = "migrating" => pc[u] = "migrating" /\ seen'[u] = seen[u]
    BY <1>2
  <2>2. QED
    BY <1>1, <2>1 DEF KnownKeys, Data
<1>11. RecordsShow'
  BY <1>1 DEF Data, RecordsShow
<1>12. QED
  BY <1>5, <1>6, <1>7, <1>8, <1>9, <1>10, <1>11 DEF Data

LEMMA MigrateData ==
    ASSUME TypeOK, OneBody, Data, NEW t \in Tasks, Migrate(t)
    PROVE  Data'
<1> USE DEF limits, history
<1>1. /\ UNCHANGED <<Kept, removed, cut, cache, legacyCache, prev, db, legacyDb, failures, told, mark>>
      /\ \A u : Sid(u)' = Sid(u) /\ (OnQueue(u)' <=> OnQueue(u)) /\ request'[u] = request[u]
  BY DEF Kept, Sid, OnQueue, Migrate, memory
<1>2. /\ cache[Sid(t)] = NoRecord /\ legacyCache[Sid(t)] # NoRecord
      /\ pc'[t] = "migrating" /\ seen'[t] = legacyCache[Sid(t)]
      /\ \A u \in Tasks : u # t => pc'[u] = pc[u] /\ seen'[u] = seen[u]
  BY DEF Migrate, TypeOK
<1>3. /\ pc[t] \in {"idle", "queued"} /\ Sid(t) \in ServiceIds
      /\ legacyCache[Sid(t)] \in Records /\ mark[Sid(t)] \in Marks
  <2>1. pc[t] \in {"idle", "queued"} /\ Sid(t) \in ServiceIds
    BY MayReadFacts, PendingFacts DEF Migrate, Data
  <2>2. QED
    BY <1>2, <2>1 DEF TypeOK
<1>4. PICK w : w = Write(t, Sid(t), legacyCache[Sid(t)], mark[Sid(t)])
  OBVIOUS
<1>5. /\ w \in Calls /\ w.op = "write" /\ w.task = t /\ w.sid = Sid(t)
      /\ w.record = legacyCache[Sid(t)] /\ w.mark = mark[Sid(t)]
  BY <1>3, <1>4, CallFacts
<1>6. \A c \in Pending : c.task \in Tasks /\ c.task # t
  BY <1>3, PendingFacts DEF Data
<1>7. /\ calls' \in Seq(Calls) /\ Pending' = Pending \cup {w} /\ Differ(calls')
      /\ Len(calls) \in Nat /\ Len(calls') = Len(calls) + 1
      /\ calls'[Len(calls) + 1] = w /\ \A i \in 1 .. Len(calls) : calls'[i] = calls[i]
  <2>1. calls' = Append(calls, w)
    BY <1>4 DEF Migrate
  <2>2. calls \in Seq(Calls) /\ Differ(calls)
    BY PendingFacts DEF Data
  <2>3. QED
    BY <1>5, <1>6, <2>1, <2>2, CallsGrow
<1>8. CallsFit'
  <2>1. \A c \in Pending : CallFits(c)'
    BY <1>1, <1>2, <1>6 DEF CallsFit, CallFits, Sid, Data
  <2>2. CallFits(w)'
    BY <1>1, <1>2, <1>3, <1>5 DEF CallFits, Sid
  <2>3. \A u \in Tasks : pc'[u] = "migrating" => \E c \in Pending' : c.task = u
    BY <1>2, <1>5, <1>7 DEF CallsFit, Data
  <2>4. \A c \in Pending' : CallFits(c)'
    BY <1>7, <2>1, <2>2
  <2>5. QED
    BY <1>7, <2>3, <2>4 DEF CallsFit, Differ
\* No body about this service id is writing, nor has its record.
<1>9. Sid(t) \in Kept => \A u \in Tasks : pc[u] \in {"read", "unmigrating", "writing"} => Sid(u) # Sid(t)
  BY <1>2 DEF Data, BodyHasRecord
<1>10. MigrationsFirst'
  <2>1. ASSUME NEW i \in 1 .. Len(calls'), NEW j \in 1 .. Len(calls'),
               calls'[i].sid = calls'[j].sid, calls'[i].sid \in Kept,
               pc'[calls'[i].task] = "migrating", pc'[calls'[j].task] = "writing"
        PROVE  i < j
    <3>1. j # Len(calls) + 1
      BY <1>2, <1>5, <1>7, <2>1
    <3>2. j \in 1 .. Len(calls) /\ calls'[j] = calls[j] /\ calls[j] \in Pending
      BY <1>7, <2>1, <3>1, PendingFacts DEF Data
    <3>3. calls[j].task \in Tasks /\ calls[j].task # t /\ pc[calls[j].task] = "writing"
          /\ calls[j].sid = Sid(calls[j].task)
      BY <1>2, <1>6, <2>1, <3>2, PendingFacts DEF Data
    <3>4. CASE i = Len(calls) + 1
      BY <1>5, <1>7, <1>9, <2>1, <3>2, <3>3, <3>4
    <3>5. CASE i # Len(calls) + 1
      <4>1. i \in 1 .. Len(calls) /\ calls'[i] = calls[i] /\ calls[i] \in Pending
        BY <1>7, <2>1, <3>5, PendingFacts DEF Data
      <4>2. pc[calls[i].task] = "migrating"
        BY <1>2, <1>6, <2>1, <4>1
      <4>3. QED
        BY <2>1, <3>2, <3>3, <4>1, <4>2 DEF Data, MigrationsFirst
    <3>6. QED
      BY <3>4, <3>5
  <2>2. QED
    BY <1>1, <2>1 DEF MigrationsFirst
<1>11. MigrationsAgree'
  <2>1. ASSUME NEW u \in Tasks, pc'[u] = "migrating", NEW s, s = Sid(u), s \in Kept
        PROVE  /\ seen'[u] # NoRecord /\ seen'[u].verified = "default"
               /\ legacyCache[s] \in {NoRecord, seen'[u]}
               /\ cache[s] = NoRecord => legacyCache[s] # NoRecord
               /\ \A v \in Tasks : pc'[v] = "migrating" /\ Sid(v) = s => seen'[v] = seen'[u]
               /\ \A v \in Tasks : HasRead(v, s)' => seen'[v] = seen'[u]
               /\ cache[s] \in {NoRecord, seen'[u]} \/ \E v \in Tasks : HasRead(v, s)'
    <3>1. CASE s # Sid(t)
      <4>1. u # t /\ pc[u] = "migrating" /\ seen'[u] = seen[u]
        BY <1>2, <2>1, <3>1
      <4>2. \A v \in Tasks : HasRead(v, s)' <=> HasRead(v, s)
        BY <1>1, <1>2, <3>1 DEF HasRead
      <4>3. \A v \in Tasks : Sid(v) = s => pc'[v] = pc[v] /\ seen'[v] = seen[v]
        BY <1>2, <3>1
      <4>4. \A v \in Tasks : HasRead(v, s) => Sid(v) = s
        BY DEF HasRead
      <4>5. QED
        BY <2>1, <4>1, <4>2, <4>3, <4>4 DEF Data, MigrationsAgree
    <3>2. CASE s = Sid(t)
      <4>1. \A v \in Tasks : pc'[v] = "migrating" /\ Sid(v) = s => seen'[v] = legacyCache[s]
        BY <1>2, <2>1, <3>2 DEF Data, MigrationsAgree
      <4>2. \A v \in Tasks : ~ HasRead(v, s)'
        BY <1>1, <1>2, <1>9, <2>1, <3>2 DEF HasRead
      <4>3. legacyCache[s].verified = "default"
        BY <1>2, <2>1, <3>2 DEF Data, TablesAgree
      <4>4. QED
        BY <1>2, <2>1, <3>2, <4>1, <4>2, <4>3
    <3>3. QED
      BY <3>1, <3>2
  <2>2. QED
    BY <1>1, <2>1 DEF MigrationsAgree, HasRead
<1>12. BodyHasRecord'
  BY <1>1, <1>2 DEF BodyHasRecord, Data
<1>13. TablesAgree'
  BY <1>1, <1>5, <1>7 DEF Data, TablesAgree
<1>14. KnownKeys'
  <2>1. \A s \in Kept \ cut, u \in Tasks : pc'[u] = "migrating" /\ Sid(u) = s => seen'[u].key = told[s]
    BY <1>2 DEF Data, KnownKeys
  <2>2. QED
    BY <1>1, <2>1 DEF KnownKeys, Data
<1>15. RecordsShow'
  <2>1. Sid(t) \in Kept => Shows(w.record, w.mark)
    <3>1. SUFFICES ASSUME Sid(t) \in Kept PROVE Shows(legacyCache[Sid(t)], mark[Sid(t)])
      BY <1>5
    <3>2. SameButApproval(NoRecord, db[Sid(t)]) /\ db[Sid(t)] \in Records \cup {NoRecord}
      BY <1>2, <1>3, <3>1 DEF Data, TablesAgree, TypeOK
    <3>3. db[Sid(t)] = NoRecord
      BY <3>2, ApprovalFacts
    <3>4. mark[Sid(t)].status = "default" /\ legacyCache[Sid(t)].verified = "default"
      BY <1>2, <3>1, <3>3 DEF Data, RecordsShow, TablesAgree
    <3>5. QED
      BY <3>4 DEF Shows
  <2>2. \A s \in Kept, c \in Pending' : c.sid = s /\ c.op = "write" => Shows(c.record, c.mark)
    BY <1>5, <1>7, <2>1 DEF Data, RecordsShow
  <2>3. QED
    BY <1>1, <2>2 DEF Data, RecordsShow
<1>16. QED
  BY <1>8, <1>10, <1>11, <1>12, <1>13, <1>14, <1>15 DEF Data
-------------------------------------------------------------------------------
(* Removals *)

LEMMA RemoveKeyData ==
    ASSUME TypeOK, OneBody, Data, NEW t \in Tasks, RemoveKey(t)
    PROVE  Data'
<1> USE DEF limits
<1>1. /\ UNCHANGED <<cut, seen, legacyCache, prev, db, legacyDb, failures, told, mark>>
      /\ removed' = removed \cup {Sid(t)} /\ Kept' = Kept \ {Sid(t)}
      /\ \A u : Sid(u)' = Sid(u) /\ (OnQueue(u)' <=> OnQueue(u)) /\ request'[u] = request[u]
  BY DEF Kept, Sid, OnQueue, RemoveKey
<1>2. /\ \A s \in ServiceIds \ {Sid(t)} : cache'[s] = cache[s]
      /\ pc[t] = "idle" /\ pc'[t] = "removing"
      /\ \A u \in Tasks : u # t => pc'[u] = pc[u]
  BY DEF RemoveKey, TypeOK
<1>3. \A s \in Kept' : s \in Kept /\ s \in ServiceIds /\ s # Sid(t) /\ cache'[s] = cache[s]
  BY <1>1, <1>2 DEF Kept
<1>4. PICK w : w = Removal(t, Sid(t), "remove")
  OBVIOUS
<1>5. w \in Calls /\ w.op = "remove" /\ w.task = t /\ w.sid = Sid(t) /\ w.record = NoRecord
  <2>1. Sid(t) \in ServiceIds
    BY PendingFacts DEF Data
  <2>2. QED
    BY <1>4, <2>1, CallFacts
<1>6. \A c \in Pending : c.task \in Tasks /\ c.task # t
  BY <1>2, PendingFacts DEF Data
<1>7. /\ calls' \in Seq(Calls) /\ Pending' = Pending \cup {w} /\ Differ(calls')
      /\ Len(calls) \in Nat /\ Len(calls') = Len(calls) + 1
      /\ calls'[Len(calls) + 1] = w /\ \A i \in 1 .. Len(calls) : calls'[i] = calls[i]
  <2>1. calls' = Append(calls, w)
    BY <1>4 DEF RemoveKey
  <2>2. calls \in Seq(Calls) /\ Differ(calls)
    BY PendingFacts DEF Data
  <2>3. QED
    BY <1>5, <1>6, <2>1, <2>2, CallsGrow
<1>8. CallsFit'
  <2>1. \A c \in Pending : CallFits(c)'
    BY <1>1, <1>2, <1>6 DEF CallsFit, CallFits, Sid, Data
  <2>2. CallFits(w)'
    BY <1>1, <1>2, <1>5 DEF CallFits, Sid
  <2>3. \A u \in Tasks : pc'[u] = "migrating" => \E c \in Pending' : c.task = u
    BY <1>2, <1>5, <1>7 DEF CallsFit, Data
  <2>4. \A c \in Pending' : CallFits(c)'
    BY <1>7, <2>1, <2>2
  <2>5. QED
    BY <1>7, <2>3, <2>4 DEF CallsFit, Differ
<1>9. MigrationsFirst'
  <2>1. ASSUME NEW i \in 1 .. Len(calls'), NEW j \in 1 .. Len(calls'),
               calls'[i].sid = calls'[j].sid, calls'[i].sid \in Kept',
               pc'[calls'[i].task] = "migrating", pc'[calls'[j].task] = "writing"
        PROVE  i < j
    <3>1. i # Len(calls) + 1 /\ j # Len(calls) + 1
      BY <1>2, <1>5, <1>7, <2>1
    <3>2. /\ i \in 1 .. Len(calls) /\ calls'[i] = calls[i] /\ calls[i] \in Pending
          /\ j \in 1 .. Len(calls) /\ calls'[j] = calls[j] /\ calls[j] \in Pending
      BY <1>7, <2>1, <3>1, PendingFacts DEF Data
    <3>3. QED
      BY <1>2, <1>3, <1>6, <2>1, <3>2 DEF Data, MigrationsFirst
  <2>2. QED
    BY <2>1 DEF MigrationsFirst
<1>10. MigrationsAgree'
  <2>1. ASSUME NEW u \in Tasks, pc'[u] = "migrating", NEW s, s = Sid(u), s \in Kept'
        PROVE  /\ seen[u] # NoRecord /\ seen[u].verified = "default"
               /\ legacyCache[s] \in {NoRecord, seen[u]}
               /\ cache'[s] = NoRecord => legacyCache[s] # NoRecord
               /\ \A v \in Tasks : pc'[v] = "migrating" /\ Sid(v) = s => seen[v] = seen[u]
               /\ \A v \in Tasks : HasRead(v, s)' => seen[v] = seen[u]
               /\ cache'[s] \in {NoRecord, seen[u]} \/ \E v \in Tasks : HasRead(v, s)'
    <3>1. u # t /\ pc[u] = "migrating" /\ s \in Kept /\ cache'[s] = cache[s] /\ s # Sid(t)
      BY <1>2, <1>3, <2>1
    <3>2. \A v \in Tasks : HasRead(v, s)' <=> HasRead(v, s)
      BY <1>1, <1>2, <3>1 DEF HasRead
    <3>3. \A v \in Tasks : Sid(v) = s => pc'[v] = pc[v]
      BY <1>2, <3>1
    <3>4. QED
      BY <2>1, <3>1, <3>2, <3>3 DEF Data, MigrationsAgree
  <2>2. QED
    BY <1>1, <2>1 DEF MigrationsAgree, HasRead
<1>11. BodyHasRecord'
  <2>1. ASSUME NEW u \in Tasks, pc'[u] \in {"read", "unmigrating", "writing"}, Sid(u) \in Kept'
        PROVE  /\ cache'[Sid(u)] # NoRecord \/ legacyCache[Sid(u)] = NoRecord
               /\ OnQueue(u) /\ pc'[u] # "writing" => seen[u] = cache'[Sid(u)]
               /\ pc'[u] = "writing" => SameButApproval(cache'[Sid(u)], seen[u])
    <3>1. u # t /\ pc'[u] = pc[u] /\ Sid(u) \in Kept /\ cache'[Sid(u)] = cache[Sid(u)]
      BY <1>2, <1>3, <2>1
    <3>2. QED
      BY <2>1, <3>1 DEF Data, BodyHasRecord
  <2>2. QED
    BY <1>1, <2>1 DEF BodyHasRecord, Sid, OnQueue
<1>12. TablesAgree'
  BY <1>1, <1>3, <1>5, <1>7 DEF Data, TablesAgree
<1>13. KnownKeys'
  <2>1. \A u \in Tasks : pc'[u] = "migrating" => pc[u] = "migrating"
    BY <1>2
  <2>2. \A s \in Kept' \ cut : s \in Kept \ cut /\ cache'[s] = cache[s]
    BY <1>3
  <2>3. QED
    BY <1>1, <2>1, <2>2 DEF KnownKeys, Data
<1>14. RecordsShow'
  BY <1>1, <1>3, <1>5, <1>7 DEF Data, RecordsShow
<1>15. QED
  BY <1>8, <1>9, <1>10, <1>11, <1>12, <1>13, <1>14 DEF Data

\* What is known of the first call when it is answered.
LEMMA AnswerFacts ==
    ASSUME TypeOK, Data, calls # <<>>, NEW t, t = Head(calls).task
    PROVE  LET h == Head(calls) IN
           /\ h \in Pending /\ h \in Calls /\ h = calls[1] /\ 1 \in 1 .. Len(calls) /\ CallFits(h)
           /\ t \in Tasks /\ h.sid = Sid(t) /\ Sid(t) \in ServiceIds
           /\ h.record \in Records \cup {NoRecord} /\ h.mark \in Marks
           /\ Sid(t) \in Kept => h.op # "remove"
           /\ Sid(t) \in Kept /\ pc[t] = "writing" =>
                \A u \in Tasks : pc[u] = "migrating" => Sid(u) # Sid(t)
<1>1. PICK h : h = Head(calls)
  OBVIOUS
<1>2. /\ h = calls[1] /\ 1 \in 1 .. Len(calls) /\ h \in Pending /\ Len(calls) \in Nat
      /\ Pending = {calls[i] : i \in 1 .. Len(calls)}
  <2>1. calls \in Seq(Calls)
    BY DEF TypeOK
  <2>2. QED
    BY <1>1, <2>1, TailFacts, ElementsAre DEF Pending
<1>3. /\ h \in Calls /\ CallFits(h) /\ t \in Tasks /\ h.sid = Sid(t) /\ Sid(t) \in ServiceIds
      /\ h.record \in Records \cup {NoRecord} /\ h.mark \in Marks
  BY <1>1, <1>2, PendingFacts DEF Data, CallsFit
<1>4. Sid(t) \in Kept => h.op # "remove"
  BY <1>3 DEF CallFits, Kept
<1>5. ASSUME Sid(t) \in Kept, pc[t] = "writing", NEW u \in Tasks, pc[u] = "migrating", Sid(u) = Sid(t)
      PROVE  FALSE
  <2>1. PICK c \in Pending : c.task = u
    BY <1>5 DEF Data, CallsFit
  <2>2. PICK i \in 1 .. Len(calls) : c = calls[i]
    BY <1>2, <2>1
  <2>3. c.sid = Sid(u)
    BY <2>1, PendingFacts DEF Data
  <2>4. i < 1
    BY <1>1, <1>2, <1>3, <1>5, <2>1, <2>2, <2>3 DEF Data, MigrationsFirst
  <2>5. QED
    BY <1>2, <2>4
<1>6. QED
  BY <1>1, <1>2, <1>3, <1>4, <1>5

\* The calls that stay are still the ones that their tasks await.
LEMMA ShrinkData ==
    ASSUME TypeOK, Data, calls # <<>>, calls' = Tail(calls), UNCHANGED <<request, seen, removed>>,
           NEW t \in Tasks, t = Head(calls).task, pc'[t] \notin {"migrating", "writing"},
           \A u \in Tasks : u # t => pc'[u] = pc[u]
    PROVE  /\ CallsFit' /\ MigrationsFirst' /\ Pending' = {c \in Pending : c.task # t}
           /\ \A c \in Pending : c.task = t => c = Head(calls)
<1>1. Kept' = Kept /\ \A u : Sid(u)' = Sid(u) /\ request'[u] = request[u]
  BY DEF Kept, Sid
<1>2. calls \in Seq(Calls) /\ Differ(calls)
  BY PendingFacts DEF Data
<1>3. /\ calls' \in Seq(Calls) /\ Differ(calls') /\ Pending' = {c \in Pending : c.task # t}
      /\ Len(calls) \in Nat /\ Len(calls') = Len(calls) - 1
      /\ \A i \in 1 .. Len(calls') : i + 1 \in 1 .. Len(calls) /\ calls'[i] = calls[i + 1]
  BY <1>2, CallsShrink
<1>4. \A c \in Pending : c.task = t => c = Head(calls)
  <2>1. \A p \in Seq(Calls) : Differ(p) /\ p # <<>> => \A c \in ToSet(p) : c.task = Head(p).task => c = Head(p)
    BY CallAnswered
  <2>2. QED
    BY <1>2, <2>1 DEF Pending
<1>5. \A c \in Pending' : c \in Pending /\ c.task \in Tasks /\ c.task # t /\ CallFits(c)
  BY <1>3, PendingFacts DEF Data, CallsFit
<1>6. CallsFit'
  <2>1. \A c \in Pending' : CallFits(c)'
    BY <1>1, <1>5 DEF CallFits, Sid
  <2>2. ASSUME NEW u \in Tasks, pc'[u] = "migrating" PROVE \E c \in Pending' : c.task = u
    <3>1. u # t /\ pc[u] = "migrating"
      BY <2>2
    <3>2. PICK c \in Pending : c.task = u
      BY <3>1 DEF Data, CallsFit
    <3>3. QED
      BY <1>3, <3>1, <3>2
  <2>3. QED
    BY <1>3, <2>1, <2>2 DEF CallsFit, Differ
<1>7. MigrationsFirst'
  <2>1. ASSUME NEW i \in 1 .. Len(calls'), NEW j \in 1 .. Len(calls'),
               calls'[i].sid = calls'[j].sid, calls'[i].sid \in Kept,
               pc'[calls'[i].task] = "migrating", pc'[calls'[j].task] = "writing"
        PROVE  i < j
    <3>1. \A k \in 1 .. Len(calls') : calls'[k] \in Pending'
      <4>1. \A p \in Seq(Calls) : \A k \in 1 .. Len(p) : p[k] \in ToSet(p)
        BY ElementsAre
      <4>2. QED
        BY <1>3, <4>1 DEF Pending
    <3>2. /\ i + 1 \in 1 .. Len(calls) /\ calls'[i] = calls[i + 1] /\ calls'[i] \in Pending'
          /\ j + 1 \in 1 .. Len(calls) /\ calls'[j] = calls[j + 1] /\ calls'[j] \in Pending'
      BY <1>3, <2>1, <3>1
    <3>3. calls'[i].task \in Tasks \ {t} /\ calls'[j].task \in Tasks \ {t}
      BY <1>5, <3>2
    <3>4. i + 1 < j + 1
      BY <2>1, <3>2, <3>3 DEF Data, MigrationsFirst
    <3>5. QED
      BY <1>3, <3>4
  <2>2. QED
    BY <1>1, <2>1 DEF MigrationsFirst
<1>8. QED
  BY <1>3, <1>4, <1>6, <1>7

LEMMA RemovalAnsweredData ==
    ASSUME TypeOK, OneBody, Data, NEW t \in Tasks, RemovalAnswered(t)
    PROVE  Data'
<1> USE DEF limits
<1>1. /\ UNCHANGED <<Kept, removed, cut, seen, cache, legacyCache, prev, failures, told>>
      /\ \A u : Sid(u)' = Sid(u) /\ (OnQueue(u)' <=> OnQueue(u)) /\ request'[u] = request[u]
  BY DEF Kept, Sid, OnQueue, RemovalAnswered, memory
<1>2. /\ calls # <<>> /\ calls' = Tail(calls) /\ Execute(1)
      /\ pc'[t] = IF OnQueue(t) THEN "read" ELSE "done"
      /\ \A u \in Tasks : u # t => pc'[u] = pc[u]
  BY DEF RemovalAnswered, TypeOK
<1>3. PICK h : h = Head(calls)
  OBVIOUS
<1>4. /\ h \in Pending /\ CallFits(h) /\ h.sid = Sid(t) /\ Sid(t) \in ServiceIds /\ h.task = t
      /\ h.op \in {"removeLegacy", "remove"}
      /\ Sid(t) \in Kept => h.op = "removeLegacy"
  <2>1. h.op # "write" /\ h.task = t
    BY <1>3 DEF RemovalAnswered
  <2>2. QED
    BY <1>2, <1>3, <2>1, AnswerFacts, CallFacts
<1>5. /\ h.op = "removeLegacy" => pc[t] = "unmigrating"
      /\ h.op = "remove" => pc[t] = "removing" /\ ~ OnQueue(t)
  BY <1>4 DEF CallFits, OneBody
<1>6. /\ CallsFit' /\ MigrationsFirst' /\ Pending' = {c \in Pending : c.task # t}
      /\ \A c \in Pending : c.task = t => c = h
  <2>1. UNCHANGED <<request, seen, removed>> /\ pc'[t] \in {"read", "done"}
    BY <1>1, <1>2 DEF RemovalAnswered
  <2>2. pc'[t] \notin {"migrating", "writing"}
    BY <2>1
  <2>3. QED
    BY <1>2, <1>3, <1>4, <2>1, <2>2, ShrinkData
<1>7. \A s \in Kept : /\ s \in ServiceIds /\ db'[s] = db[s] /\ mark'[s] = mark[s]
                      /\ s = Sid(t) /\ h.op = "removeLegacy" => legacyDb'[s] = NoRecord
                      /\ legacyDb'[s] = legacyDb[s] \/ (legacyDb'[s] = NoRecord /\ db[s] # NoRecord)
  <2>1. ASSUME NEW s \in Kept
        PROVE  /\ s \in ServiceIds /\ db'[s] = db[s] /\ mark'[s] = mark[s]
               /\ s = Sid(t) /\ h.op = "removeLegacy" => legacyDb'[s] = NoRecord
               /\ legacyDb'[s] = legacyDb[s] \/ (legacyDb'[s] = NoRecord /\ db[s] # NoRecord)
    <3>1. s \in ServiceIds
      BY DEF Kept
    <3>2. /\ db'[s] = IF h.sid = s /\ h.op \in {"write", "remove"} THEN h.record ELSE db[s]
          /\ legacyDb'[s] = IF h.sid = s /\ h.op = "removeLegacy" THEN NoRecord ELSE legacyDb[s]
          /\ mark'[s] = IF h.sid = s /\ h.op = "write" THEN h.mark ELSE mark[s]
      BY <1>2, <1>3, <3>1, ExecuteOne, PendingFacts DEF Data
    <3>3. h.sid = s /\ h.op = "removeLegacy" => db[s] # NoRecord
      BY <1>4 DEF Data, TablesAgree
    <3>4. h.sid = s => h.op = "removeLegacy"
      BY <1>4
    <3>5. QED
      BY <1>4, <3>1, <3>2, <3>3, <3>4
  <2>2. QED
    BY <2>1
<1>8. MigrationsAgree'
  <2>1. ASSUME NEW u \in Tasks, pc'[u] = "migrating", NEW s, s = Sid(u), s \in Kept
        PROVE  /\ seen[u] # NoRecord /\ seen[u].verified = "default"
               /\ legacyCache[s] \in {NoRecord, seen[u]}
               /\ cache[s] = NoRecord => legacyCache[s] # NoRecord
               /\ \A v \in Tasks : pc'[v] = "migrating" /\ Sid(v) = s => seen[v] = seen[u]
               /\ \A v \in Tasks : HasRead(v, s)' => seen[v] = seen[u]
               /\ cache[s] \in {NoRecord, seen[u]} \/ \E v \in Tasks : HasRead(v, s)'
    <3>1. u # t /\ pc[u] = "migrating"
      BY <1>2, <2>1
    <3>2. \A v \in Tasks : HasRead(v, s)' <=> HasRead(v, s)
      <4>1. Sid(t) = s => h.op = "removeLegacy" /\ pc[t] = "unmigrating"
        BY <1>4, <1>5, <2>1
      <4>2. HasRead(t, s)' <=> HasRead(t, s)
        BY <1>1, <1>2, <4>1 DEF HasRead
      <4>3. \A v \in Tasks : v # t => (HasRead(v, s)' <=> HasRead(v, s))
        BY <1>1, <1>2 DEF HasRead
      <4>4. QED
        BY <4>2, <4>3
    <3>3. \A v \in Tasks : pc'[v] = "migrating" => pc[v] = "migrating"
      BY <1>2
    <3>4. QED
      BY <2>1, <3>1, <3>2, <3>3 DEF Data, MigrationsAgree
  <2>2. QED
    BY <1>1, <2>1 DEF MigrationsAgree, HasRead
<1>9. BodyHasRecord'
  <2>1. ASSUME NEW u \in Tasks, pc'[u] \in {"read", "unmigrating", "writing"}, Sid(u) \in Kept
        PROVE  /\ cache[Sid(u)] # NoRecord \/ legacyCache[Sid(u)] = NoRecord
               /\ OnQueue(u) /\ pc'[u] # "writing" => seen[u] = cache[Sid(u)]
               /\ pc'[u] = "writing" => SameButApproval(cache[Sid(u)], seen[u])
    <3>1. pc[u] \in {"read", "unmigrating", "writing"} /\ (pc[u] = pc'[u] \/ pc'[u] # "writing")
          /\ (pc[u] = "writing" => pc'[u] = "writing")
      BY <1>2, <1>4, <1>5, <2>1
    <3>2. QED
      BY <2>1, <3>1 DEF Data, BodyHasRecord
  <2>2. QED
    BY <1>1, <2>1 DEF BodyHasRecord, Sid, OnQueue
<1>10. TablesAgree'
  <2>1. ASSUME NEW s \in Kept
        PROVE  /\ SameButApproval(cache[s], db'[s])
               /\ failures = 0 /\ cache[s] # db'[s] => \E c \in Pending' : c.sid = s /\ c.op = "write"
               /\ legacyCache[s] # NoRecord => legacyCache[s].verified = "default"
               /\ legacyDb'[s] # NoRecord => legacyDb'[s].verified = "default"
               /\ db'[s] = NoRecord => legacyDb'[s] = legacyCache[s]
               /\ \A c \in Pending' : c.sid = s /\ c.op = "removeLegacy" => db'[s] # NoRecord
    <3>1. \A c \in Pending : c.op = "write" => c \in Pending'
      BY <1>4, <1>6
    <3>2. QED
      BY <1>6, <1>7, <3>1 DEF Data, TablesAgree
  <2>2. QED
    BY <1>1, <2>1 DEF TablesAgree
<1>11. KnownKeys'
  <2>1. \A u \in Tasks : pc'[u] = "migrating" => pc[u] = "migrating"
    BY <1>2
  <2>2. QED
    BY <1>1, <2>1 DEF KnownKeys, Data
<1>12. RecordsShow'
  BY <1>1, <1>6, <1>7 DEF Data, RecordsShow
<1>13. QED
  BY <1>6, <1>8, <1>9, <1>10, <1>11, <1>12 DEF Data
-------------------------------------------------------------------------------
(* Answers *)

\* The answer to a write: the row is what was written.
LEMMA WrittenFacts ==
    ASSUME TypeOK, Data, calls # <<>>, Execute(1), Head(calls).op = "write"
    PROVE  \A s \in Kept :
             /\ s \in ServiceIds /\ legacyDb'[s] = legacyDb[s]
             /\ s = Head(calls).sid => /\ db'[s] = Head(calls).record
                                       /\ mark'[s] = Head(calls).mark
                                       /\ Shows(db'[s], mark'[s])
             /\ s # Head(calls).sid => db'[s] = db[s] /\ mark'[s] = mark[s]
<1>1. ASSUME NEW s \in Kept
      PROVE  /\ s \in ServiceIds /\ legacyDb'[s] = legacyDb[s]
             /\ s = Head(calls).sid => db'[s] = Head(calls).record /\ mark'[s] = Head(calls).mark
             /\ s # Head(calls).sid => db'[s] = db[s] /\ mark'[s] = mark[s]
  <2>1. s \in ServiceIds
    BY DEF Kept
  <2>2. LET c == Head(calls) IN
        /\ db'[s] = IF c.sid = s /\ c.op \in {"write", "remove"} THEN c.record ELSE db[s]
        /\ legacyDb'[s] = IF c.sid = s /\ c.op = "removeLegacy" THEN NoRecord ELSE legacyDb[s]
        /\ mark'[s] = IF c.sid = s /\ c.op = "write" THEN c.mark ELSE mark[s]
    BY <2>1, ExecuteOne, PendingFacts DEF Data
  <2>3. QED
    BY <2>1, <2>2
<1>2. Head(calls) \in Pending
  BY AnswerFacts
<1>3. \A s \in Kept : s = Head(calls).sid => Shows(Head(calls).record, Head(calls).mark)
  BY <1>2 DEF Data, RecordsShow
<1>4. QED
  BY <1>1, <1>3

LEMMA WriteAnsweredData ==
    ASSUME TypeOK, OneBody, Data, NEW t \in Tasks, WriteAnswered(t)
    PROVE  Data'
<1> USE DEF limits
<1>1. /\ UNCHANGED <<Kept, removed, cut, seen, legacyCache, failures>>
      /\ \A u : Sid(u)' = Sid(u) /\ (OnQueue(u)' <=> OnQueue(u)) /\ request'[u] = request[u]
  BY DEF Kept, Sid, OnQueue, WriteAnswered
<1>2. /\ calls # <<>> /\ calls' = Tail(calls) /\ Execute(1) /\ Head(calls).op = "write"
      /\ Head(calls).task = t /\ pc[t] = "writing"
      /\ pc'[t] \in {"archiving", "settled", "done"}
      /\ \A u \in Tasks : u # t => pc'[u] = pc[u]
  BY DEF WriteAnswered, TypeOK, Settle
<1>3. PICK h : h = Head(calls)
  OBVIOUS
<1>4. /\ h \in Pending /\ CallFits(h) /\ h.sid = Sid(t) /\ Sid(t) \in ServiceIds
      /\ Sid(t) \in Kept => \A u \in Tasks : pc[u] = "migrating" => Sid(u) # Sid(t)
  BY <1>2, <1>3, AnswerFacts
<1>5. /\ h.record \in Records /\ h.record # NoRecord
      /\ h.record.key = IF request[t].op \in {"save", "sync"} THEN request[t].key ELSE seen[t].key
  BY <1>2, <1>3, <1>4, RecordFacts DEF CallFits
<1>6. /\ CallsFit' /\ MigrationsFirst' /\ Pending' = {c \in Pending : c.task # t}
      /\ \A c \in Pending : c.task = t => c = h
  <2>1. UNCHANGED <<request, seen, removed>> /\ pc'[t] \notin {"migrating", "writing"}
    BY <1>2 DEF WriteAnswered
  <2>2. QED
    BY <1>2, <1>3, <2>1, ShrinkData
<1>7. /\ cache'[Sid(t)] = h.record
      /\ \A s \in ServiceIds : s # Sid(t) => cache'[s] = cache[s]
  BY <1>3, <1>4 DEF WriteAnswered, TypeOK
<1>8. \A s \in Kept : /\ s \in ServiceIds /\ legacyDb'[s] = legacyDb[s]
                      /\ s = Sid(t) => db'[s] = h.record /\ Shows(db'[s], mark'[s])
                      /\ s # Sid(t) => db'[s] = db[s] /\ mark'[s] = mark[s]
  BY <1>2, <1>3, <1>4, WrittenFacts
<1>9. \A u \in Tasks : pc'[u] \in {"read", "migrating", "unmigrating", "writing"} => u # t /\ pc'[u] = pc[u]
  BY <1>2
<1>10. MigrationsAgree'
  <2>1. ASSUME NEW u \in Tasks, pc'[u] = "migrating", NEW s, s = Sid(u), s \in Kept
        PROVE  /\ seen[u] # NoRecord /\ seen[u].verified = "default"
               /\ legacyCache[s] \in {NoRecord, seen[u]}
               /\ cache'[s] = NoRecord => legacyCache[s] # NoRecord
               /\ \A v \in Tasks : pc'[v] = "migrating" /\ Sid(v) = s => seen[v] = seen[u]
               /\ \A v \in Tasks : HasRead(v, s)' => seen[v] = seen[u]
               /\ cache'[s] \in {NoRecord, seen[u]} \/ \E v \in Tasks : HasRead(v, s)'
    <3>1. pc[u] = "migrating" /\ s \in ServiceIds /\ s # Sid(t) /\ cache'[s] = cache[s]
      BY <1>4, <1>7, <1>8, <1>9, <2>1
    <3>2. \A v \in Tasks : HasRead(v, s)' <=> HasRead(v, s)
      BY <1>1, <1>2, <3>1 DEF HasRead
    <3>3. \A v \in Tasks : pc'[v] = "migrating" => pc[v] = "migrating"
      BY <1>9
    <3>4. QED
      BY <2>1, <3>1, <3>2, <3>3 DEF Data, MigrationsAgree
  <2>2. QED
    BY <1>1, <2>1 DEF MigrationsAgree, HasRead
<1>11. BodyHasRecord'
  <2>1. ASSUME NEW u \in Tasks, pc'[u] \in {"read", "unmigrating", "writing"}, Sid(u) \in Kept
        PROVE  /\ cache'[Sid(u)] # NoRecord \/ legacyCache[Sid(u)] = NoRecord
               /\ OnQueue(u) /\ pc'[u] # "writing" => seen[u] = cache'[Sid(u)]
               /\ pc'[u] = "writing" => SameButApproval(cache'[Sid(u)], seen[u])
    <3>1. u # t /\ pc'[u] = pc[u] /\ Sid(u) \in ServiceIds
      BY <1>8, <1>9, <2>1
    <3>2. CASE Sid(u) # Sid(t)
      BY <1>7, <2>1, <3>1, <3>2 DEF Data, BodyHasRecord
    <3>3. CASE Sid(u) = Sid(t)
      <4>1. OnQueue(t) /\ First(t)
        BY <1>2 DEF OneBody, InBodyPlaces
      <4>2. ~ OnQueue(u)
        BY <2>1, <3>1, <3>3, <4>1, BodiesDiffer DEF InBodyPlaces
      <4>3. pc[u] # "writing"
        BY <4>2 DEF OneBody
      <4>4. QED
        BY <1>5, <1>7, <3>1, <3>3, <4>2, <4>3
    <3>4. QED
      BY <3>2, <3>3
  <2>2. QED
    BY <1>1, <2>1 DEF BodyHasRecord, Sid, OnQueue
<1>12. TablesAgree'
  <2>1. ASSUME NEW s \in Kept
        PROVE  /\ SameButApproval(cache'[s], db'[s])
               /\ failures = 0 /\ cache'[s] # db'[s] => \E c \in Pending' : c.sid = s /\ c.op = "write"
               /\ legacyCache[s] # NoRecord => legacyCache[s].verified = "default"
               /\ legacyDb'[s] # NoRecord => legacyDb'[s].verified = "default"
               /\ db'[s] = NoRecord => legacyDb'[s] = legacyCache[s]
               /\ \A c \in Pending' : c.sid = s /\ c.op = "removeLegacy" => db'[s] # NoRecord
    <3>1. CASE s = Sid(t)
      BY <1>5, <1>7, <1>8, <3>1, ApprovalRelates DEF Data, TablesAgree
    <3>2. CASE s # Sid(t)
      <4>1. \A c \in Pending : c.sid = s => c \in Pending'
        BY <1>4, <1>6, <3>2
      <4>2. cache'[s] = cache[s] /\ db'[s] = db[s] /\ legacyDb'[s] = legacyDb[s]
        BY <1>7, <1>8, <3>2
      <4>3. QED
        BY <1>6, <4>1, <4>2 DEF Data, TablesAgree
    <3>3. QED
      BY <3>1, <3>2
  <2>2. QED
    BY <1>1, <2>1 DEF TablesAgree
<1>13. KnownKeys'
  <2>1. ASSUME NEW s \in Kept \ cut
        PROVE  /\ cache'[s] # NoRecord => cache'[s].key = told'[s]
               /\ cache'[s] = NoRecord /\ legacyCache[s] # NoRecord => legacyCache[s].key = told'[s]
               /\ cache'[s] = NoRecord /\ prev'[s] # NoKey => prev'[s] = told'[s]
               /\ \A u \in Tasks : pc'[u] = "migrating" /\ Sid(u) = s => seen[u].key = told'[s]
    <3>1. s \in ServiceIds /\ s \in Kept
      BY <1>8
    <3>2. Announce(t)
      BY DEF WriteAnswered
    <3>3. CASE s # Sid(t)
      <4>1. told'[s] = told[s] /\ prev'[s] = prev[s] /\ cache'[s] = cache[s]
        BY <1>7, <3>1, <3>2, <3>3 DEF Announce, CheckPreviousKey, KeyChange, TypeOK
      <4>2. QED
        BY <1>9, <4>1 DEF Data, KnownKeys
    <3>4. CASE s = Sid(t)
      <4>1. \A u \in Tasks : pc'[u] = "migrating" => Sid(u) # s
        BY <1>4, <1>9, <3>1, <3>4
      <4>2. SameButApproval(cache[s], seen[t]) /\ cache[s] \in Records \cup {NoRecord}
            /\ seen[t] \in Records \cup {NoRecord}
        BY <1>2, <3>1, <3>4 DEF Data, BodyHasRecord, TypeOK
      <4>3. cache[s].key = seen[t].key /\ (cache[s] = NoRecord <=> seen[t] = NoRecord)
        BY <4>2, ApprovalFacts
      <4>4. h.record.key # NoKey /\ NoRecord.key = NoKey
        BY <1>5, RecordFacts
      <4>5. told'[s] = h.record.key
        <5>1. CASE request[t].op \notin {"save", "sync"} \/ seen[t].key = request[t].key
          <6>1. told'[s] = told[s] /\ h.record.key = seen[t].key
            BY <1>5, <3>2, <5>1 DEF Announce
          <6>2. cache[s] # NoRecord
            BY <4>3, <4>4, <6>1
          <6>3. QED
            BY <4>3, <6>1, <6>2 DEF Data, KnownKeys
        <5>2. CASE ~ (request[t].op \notin {"save", "sync"} \/ seen[t].key = request[t].key)
          <6>1. h.record.key = request[t].key
            BY <1>5, <5>2
          <6>2. CASE seen[t] = NoRecord
            <7>1. told' = IF prev[s] = request[t].key THEN told ELSE [told EXCEPT ![s] = request[t].key]
              BY <3>2, <3>4, <5>2, <6>2 DEF Announce, CheckPreviousKey
            <7>2. prev[s] # NoKey => prev[s] = told[s]
              BY <4>3, <6>2 DEF Data, KnownKeys
            <7>3. QED
              BY <3>1, <4>4, <6>1, <7>1, <7>2 DEF TypeOK
          <6>3. CASE seen[t] # NoRecord
            <7>1. told' = [told EXCEPT ![s] = request[t].key]
              BY <3>2, <3>4, <5>2, <6>3 DEF Announce, KeyChange
            <7>2. QED
              BY <3>1, <6>1, <7>1 DEF TypeOK
          <6>4. QED
            BY <6>2, <6>3
        <5>3. QED
          BY <5>1, <5>2
      <4>6. QED
        BY <1>5, <1>7, <3>4, <4>1, <4>5
    <3>5. QED
      BY <3>3, <3>4
  <2>2. QED
    BY <1>1, <2>1 DEF KnownKeys
<1>14. RecordsShow'
  <2>1. ASSUME NEW s \in Kept
        PROVE  /\ db'[s] # NoRecord => Shows(db'[s], mark'[s])
               /\ db'[s] = NoRecord => mark'[s].status = "default"
               /\ \A c \in Pending' : c.sid = s /\ c.op = "write" => Shows(c.record, c.mark)
    BY <1>5, <1>6, <1>8 DEF Data, RecordsShow
  <2>2. QED
    BY <1>1, <2>1 DEF RecordsShow, Shows
<1>15. QED
  BY <1>6, <1>10, <1>11, <1>12, <1>13, <1>14 DEF Data

LEMMA MigrationAnsweredData ==
    ASSUME TypeOK, OneBody, Data, NEW t \in Tasks, MigrationAnswered(t)
    PROVE  Data'
<1> USE DEF limits
<1>1. /\ UNCHANGED <<Kept, removed, cut, seen, failures, prev, told>>
      /\ \A u : Sid(u)' = Sid(u) /\ (OnQueue(u)' <=> OnQueue(u)) /\ request'[u] = request[u]
  BY DEF Kept, Sid, OnQueue, MigrationAnswered
<1>2. /\ calls # <<>> /\ Execute(1) /\ Head(calls).op = "write"
      /\ Head(calls).task = t /\ pc[t] = "migrating" /\ pc'[t] = "unmigrating"
      /\ \A u \in Tasks : u # t => pc'[u] = pc[u]
  BY DEF MigrationAnswered, TypeOK
<1>3. PICK h : h = Head(calls)
  OBVIOUS
<1>4. /\ h \in Pending /\ CallFits(h) /\ h.sid = Sid(t) /\ Sid(t) \in ServiceIds /\ h.task = t
  BY <1>2, <1>3, AnswerFacts
<1>5. h.record \in Records /\ h.record # NoRecord /\ h.record = seen[t]
  BY <1>2, <1>3, <1>4, RecordFacts DEF CallFits
<1>6. PICK w : w = Removal(t, Sid(t), "removeLegacy")
  OBVIOUS
<1>7. w \in Calls /\ w.op = "removeLegacy" /\ w.task = t /\ w.sid = Sid(t) /\ w.record = NoRecord
  BY <1>4, <1>6, CallFacts
<1>8. /\ calls' \in Seq(Calls) /\ Differ(calls') /\ Pending' = {c \in Pending : c.task # t} \cup {w}
      /\ Len(calls) \in Nat /\ Len(calls) >= 1 /\ Len(calls') = Len(calls)
      /\ calls'[Len(calls)] = w
      /\ \A i \in 1 .. Len(calls) : i # Len(calls) =>
            i + 1 \in 1 .. Len(calls) /\ calls'[i] = calls[i + 1]
  <2>1. calls' = Append(Tail(calls), w)
    BY <1>6 DEF MigrationAnswered
  <2>2. calls \in Seq(Calls) /\ Differ(calls)
    BY PendingFacts DEF Data
  <2>3. QED
    BY <1>2, <1>7, <2>1, <2>2, CallsGoOn
<1>9. /\ cache'[Sid(t)] = h.record /\ legacyCache'[Sid(t)] = NoRecord
      /\ \A s \in ServiceIds : s # Sid(t) => cache'[s] = cache[s] /\ legacyCache'[s] = legacyCache[s]
  BY <1>3, <1>4 DEF MigrationAnswered, TypeOK
<1>10. \A s \in Kept : /\ s \in ServiceIds /\ legacyDb'[s] = legacyDb[s]
                       /\ s = Sid(t) => db'[s] = h.record /\ Shows(db'[s], mark'[s])
                       /\ s # Sid(t) => db'[s] = db[s] /\ mark'[s] = mark[s]
  BY <1>2, <1>3, <1>4, WrittenFacts
<1>11. \A u \in Tasks : pc'[u] \in {"read", "migrating", "writing"} => u # t /\ pc'[u] = pc[u]
  BY <1>2
<1>12. CallsFit'
  <2>1. \A c \in Pending : c.task # t => CallFits(c)'
    <3>1. \A c \in Pending : c.task \in Tasks /\ CallFits(c)
      BY PendingFacts DEF Data, CallsFit
    <3>2. QED
      BY <1>1, <1>2, <3>1 DEF CallFits, Sid
  <2>2. CallFits(w)'
    BY <1>1, <1>2, <1>7 DEF CallFits, Sid
  <2>3. ASSUME NEW u \in Tasks, pc'[u] = "migrating" PROVE \E c \in Pending' : c.task = u
    <3>1. u # t /\ pc[u] = "migrating"
      BY <1>11, <2>3
    <3>2. PICK c \in Pending : c.task = u
      BY <3>1 DEF Data, CallsFit
    <3>3. QED
      BY <1>8, <3>1, <3>2
  <2>4. \A c \in Pending' : CallFits(c)'
    BY <1>8, <2>1, <2>2
  <2>5. QED
    BY <1>8, <2>3, <2>4 DEF CallsFit, Differ
<1>13. MigrationsFirst'
  <2>1. ASSUME NEW i \in 1 .. Len(calls'), NEW j \in 1 .. Len(calls'),
               calls'[i].sid = calls'[j].sid, calls'[i].sid \in Kept,
               pc'[calls'[i].task] = "migrating", pc'[calls'[j].task] = "writing"
        PROVE  i < j
    <3>1. i # Len(calls) /\ j # Len(calls)
      BY <1>2, <1>7, <1>8, <2>1
    <3>2. /\ i + 1 \in 1 .. Len(calls) /\ calls'[i] = calls[i + 1]
          /\ j + 1 \in 1 .. Len(calls) /\ calls'[j] = calls[j + 1]
      BY <1>8, <2>1, <3>1
    <3>3. /\ calls[i + 1] \in Pending /\ calls[i + 1].task \in Tasks
          /\ calls[j + 1] \in Pending /\ calls[j + 1].task \in Tasks
      BY <3>2, PendingFacts DEF Data
    <3>4. pc[calls[i + 1].task] = "migrating" /\ pc[calls[j + 1].task] = "writing"
      BY <1>11, <2>1, <3>2, <3>3
    <3>5. i + 1 < j + 1
      BY <2>1, <3>2, <3>4 DEF Data, MigrationsFirst
    <3>6. QED
      BY <1>8, <3>5
  <2>2. QED
    BY <1>1, <2>1 DEF MigrationsFirst
\* The others about this service id hold the same record.
<1>14. Sid(t) \in Kept =>
         /\ seen[t] # NoRecord /\ seen[t].verified = "default"
         /\ \A v \in Tasks : pc[v] = "migrating" /\ Sid(v) = Sid(t) => seen[v] = seen[t]
         /\ \A v \in Tasks : HasRead(v, Sid(t)) => seen[v] = seen[t]
  BY <1>2 DEF Data, MigrationsAgree
<1>15. MigrationsAgree'
  <2>1. ASSUME NEW u \in Tasks, pc'[u] = "migrating", NEW s, s = Sid(u), s \in Kept
        PROVE  /\ seen[u] # NoRecord /\ seen[u].verified = "default"
               /\ legacyCache'[s] \in {NoRecord, seen[u]}
               /\ cache'[s] = NoRecord => legacyCache'[s] # NoRecord
               /\ \A v \in Tasks : pc'[v] = "migrating" /\ Sid(v) = s => seen[v] = seen[u]
               /\ \A v \in Tasks : HasRead(v, s)' => seen[v] = seen[u]
               /\ cache'[s] \in {NoRecord, seen[u]} \/ \E v \in Tasks : HasRead(v, s)'
    <3>1. u # t /\ pc[u] = "migrating" /\ s \in ServiceIds
      BY <1>10, <1>11, <2>1
    <3>2. \A v \in Tasks : pc'[v] = "migrating" => pc[v] = "migrating"
      BY <1>11
    <3>3. \A v \in Tasks : v # t => (HasRead(v, s)' <=> HasRead(v, s))
      BY <1>1, <1>2 DEF HasRead
    <3>4. CASE s # Sid(t)
      <4>1. ~ HasRead(t, s)' /\ ~ HasRead(t, s)
        BY <1>1, <3>4 DEF HasRead
      <4>2. \A v \in Tasks : HasRead(v, s)' <=> HasRead(v, s)
        BY <3>3, <4>1
      <4>3. cache'[s] = cache[s] /\ legacyCache'[s] = legacyCache[s]
        BY <1>9, <3>1, <3>4
      <4>4. QED
        BY <2>1, <3>1, <3>2, <4>2, <4>3 DEF Data, MigrationsAgree
    <3>5. CASE s = Sid(t)
      <4>1. seen[u] = seen[t]
        BY <1>14, <2>1, <3>1, <3>5
      <4>2. \A v \in Tasks : HasRead(v, s)' => seen[v] = seen[u]
        BY <1>14, <2>1, <3>3, <3>5, <4>1
      <4>3. QED
        BY <1>5, <1>9, <1>14, <2>1, <3>2, <3>5, <4>1, <4>2
    <3>6. QED
      BY <3>4, <3>5
  <2>2. QED
    BY <1>1, <2>1 DEF MigrationsAgree, HasRead
<1>16. BodyHasRecord'
  <2>1. ASSUME NEW u \in Tasks, pc'[u] \in {"read", "unmigrating", "writing"}, Sid(u) \in Kept
        PROVE  /\ cache'[Sid(u)] # NoRecord \/ legacyCache'[Sid(u)] = NoRecord
               /\ OnQueue(u) /\ pc'[u] # "writing" => seen[u] = cache'[Sid(u)]
               /\ pc'[u] = "writing" => SameButApproval(cache'[Sid(u)], seen[u])
    <3>1. Sid(u) \in ServiceIds /\ (u # t => pc'[u] = pc[u])
      BY <1>2, <1>10, <2>1
    <3>2. CASE Sid(u) # Sid(t)
      <4>1. cache'[Sid(u)] = cache[Sid(u)] /\ legacyCache'[Sid(u)] = legacyCache[Sid(u)] /\ u # t
        BY <1>9, <3>1, <3>2
      <4>2. QED
        BY <2>1, <3>1, <4>1 DEF Data, BodyHasRecord
    <3>3. CASE Sid(u) = Sid(t)
      <4>1. cache'[Sid(u)] = seen[t] /\ cache'[Sid(u)] # NoRecord
        BY <1>5, <1>9, <3>3
      <4>2. OnQueue(u) => seen[u] = seen[t]
        <5>1. CASE u = t
          BY <5>1
        <5>2. CASE u # t
          BY <1>14, <2>1, <3>1, <3>3, <5>2 DEF HasRead
        <5>3. QED
          BY <5>1, <5>2
      <4>3. pc'[u] = "writing" => OnQueue(u)
        BY <1>11 DEF OneBody
      <4>4. QED
        BY <4>1, <4>2, <4>3, ApprovalRelates
    <3>4. QED
      BY <3>2, <3>3
  <2>2. QED
    BY <1>1, <2>1 DEF BodyHasRecord, Sid, OnQueue
<1>17. TablesAgree'
  <2>1. ASSUME NEW s \in Kept
        PROVE  /\ SameButApproval(cache'[s], db'[s])
               /\ failures = 0 /\ cache'[s] # db'[s] => \E c \in Pending' : c.sid = s /\ c.op = "write"
               /\ legacyCache'[s] # NoRecord => legacyCache'[s].verified = "default"
               /\ legacyDb'[s] # NoRecord => legacyDb'[s].verified = "default"
               /\ db'[s] = NoRecord => legacyDb'[s] = legacyCache'[s]
               /\ \A c \in Pending' : c.sid = s /\ c.op = "removeLegacy" => db'[s] # NoRecord
    <3>1. CASE s = Sid(t)
      BY <1>5, <1>9, <1>10, <3>1, ApprovalRelates DEF Data, TablesAgree
    <3>2. CASE s # Sid(t)
      <4>1. \A c \in Pending : c.sid = s => c \in Pending'
        <5>1. \A c \in Pending : c.sid = Sid(c.task)
          BY PendingFacts DEF Data
        <5>2. QED
          BY <1>8, <3>2, <5>1
      <4>2. \A c \in Pending' : c.sid = s => c \in Pending
        BY <1>7, <1>8, <3>2
      <4>3. cache'[s] = cache[s] /\ db'[s] = db[s] /\ legacyDb'[s] = legacyDb[s]
            /\ legacyCache'[s] = legacyCache[s]
        BY <1>9, <1>10, <3>2
      <4>4. QED
        BY <4>1, <4>2, <4>3 DEF Data, TablesAgree
    <3>3. QED
      BY <3>1, <3>2
  <2>2. QED
    BY <1>1, <2>1 DEF TablesAgree
<1>18. KnownKeys'
  <2>1. ASSUME NEW s \in Kept \ cut
        PROVE  /\ cache'[s] # NoRecord => cache'[s].key = told[s]
               /\ cache'[s] = NoRecord /\ legacyCache'[s] # NoRecord => legacyCache'[s].key = told[s]
               /\ cache'[s] = NoRecord /\ prev[s] # NoKey => prev[s] = told[s]
               /\ \A u \in Tasks : pc'[u] = "migrating" /\ Sid(u) = s => seen[u].key = told[s]
    <3>1. \A u \in Tasks : pc'[u] = "migrating" => pc[u] = "migrating"
      BY <1>11
    <3>2. CASE s = Sid(t)
      BY <1>2, <1>5, <1>9, <3>1, <3>2 DEF Data, KnownKeys
    <3>3. CASE s # Sid(t)
      <4>1. cache'[s] = cache[s] /\ legacyCache'[s] = legacyCache[s]
        BY <1>9, <1>10, <3>3
      <4>2. QED
        BY <3>1, <4>1 DEF Data, KnownKeys
    <3>4. QED
      BY <3>2, <3>3
  <2>2. QED
    BY <1>1, <2>1 DEF KnownKeys
<1>19. RecordsShow'
  <2>1. ASSUME NEW s \in Kept
        PROVE  /\ db'[s] # NoRecord => Shows(db'[s], mark'[s])
               /\ db'[s] = NoRecord => mark'[s].status = "default"
               /\ \A c \in Pending' : c.sid = s /\ c.op = "write" => Shows(c.record, c.mark)
    BY <1>5, <1>7, <1>8, <1>10 DEF Data, RecordsShow
  <2>2. QED
    BY <1>1, <2>1 DEF RecordsShow, Shows
<1>20. QED
  BY <1>12, <1>13, <1>15, <1>16, <1>17, <1>18, <1>19 DEF Data

LEMMA CallFailsData ==
    ASSUME TypeOK, OneBody, Data, NEW t \in Tasks, CallFails(t)
    PROVE  Data'
<1> USE DEF memory, history
<1>1. /\ UNCHANGED <<Kept, removed, cut, seen, cache, legacyCache, prev, db, legacyDb, told, mark>>
      /\ \A u : Sid(u)' = Sid(u) /\ (OnQueue(u)' <=> OnQueue(u)) /\ request'[u] = request[u]
  BY DEF Kept, Sid, OnQueue, CallFails
<1>2. /\ calls # <<>> /\ calls' = Tail(calls) /\ Head(calls).task = t
      /\ failures' # 0
      /\ pc'[t] \in {"settled", "done"}
      /\ \A u \in Tasks : u # t => pc'[u] = pc[u]
  BY DEF CallFails, TypeOK, Settle
<1>3. /\ CallsFit' /\ MigrationsFirst' /\ Pending' = {c \in Pending : c.task # t}
  <2>1. UNCHANGED <<request, seen, removed>> /\ pc'[t] \notin {"migrating", "writing"}
    BY <1>2 DEF CallFails
  <2>2. QED
    BY <1>2, <2>1, ShrinkData
<1>4. \A u \in Tasks : pc'[u] \in {"read", "migrating", "unmigrating", "writing"} => u # t /\ pc'[u] = pc[u]
  BY <1>2
<1>5. /\ Sid(t) \in Kept /\ pc[t] = "writing" => \A u \in Tasks : pc[u] = "migrating" => Sid(u) # Sid(t)
      /\ pc[t] # "read"
  <2>1. Head(calls) \in Pending
    BY <1>2, AnswerFacts
  <2>2. QED
    BY <1>2, <2>1, AnswerFacts, PendingFacts DEF Data
<1>6. MigrationsAgree'
  <2>1. ASSUME NEW u \in Tasks, pc'[u] = "migrating", NEW s, s = Sid(u), s \in Kept
        PROVE  /\ seen[u] # NoRecord /\ seen[u].verified = "default"
               /\ legacyCache[s] \in {NoRecord, seen[u]}
               /\ cache[s] = NoRecord => legacyCache[s] # NoRecord
               /\ \A v \in Tasks : pc'[v] = "migrating" /\ Sid(v) = s => seen[v] = seen[u]
               /\ \A v \in Tasks : HasRead(v, s)' => seen[v] = seen[u]
               /\ cache[s] \in {NoRecord, seen[u]} \/ \E v \in Tasks : HasRead(v, s)'
    <3>1. u # t /\ pc[u] = "migrating"
      BY <1>4, <2>1
    <3>2. /\ seen[u] # NoRecord /\ seen[u].verified = "default"
          /\ legacyCache[s] \in {NoRecord, seen[u]}
          /\ cache[s] = NoRecord => legacyCache[s] # NoRecord
          /\ \A v \in Tasks : pc[v] = "migrating" /\ Sid(v) = s => seen[v] = seen[u]
          /\ \A v \in Tasks : HasRead(v, s) => seen[v] = seen[u]
          /\ cache[s] \in {NoRecord, seen[u]} \/ \E v \in Tasks : HasRead(v, s)
      BY <2>1, <3>1 DEF Data, MigrationsAgree
    <3>3. \A v \in Tasks : HasRead(v, s)' => HasRead(v, s)
      BY <1>1, <1>4 DEF HasRead
    <3>4. \A v \in Tasks : v # t /\ HasRead(v, s) => HasRead(v, s)'
      BY <1>1, <1>2 DEF HasRead
    \* The body that ends wrote nothing: the migrations would be over.
    <3>5. HasRead(t, s) => cache[s] = seen[u]
      <4>1. SUFFICES ASSUME HasRead(t, s) PROVE cache[s] = seen[u]
        OBVIOUS
      <4>2. Sid(t) = s /\ OnQueue(t) /\ pc[t] = "unmigrating" /\ seen[t] = seen[u]
        BY <1>5, <2>1, <3>1, <3>2, <4>1 DEF HasRead
      <4>3. QED
        BY <2>1, <4>2 DEF Data, BodyHasRecord
    <3>6. cache[s] \in {NoRecord, seen[u]} \/ \E v \in Tasks : HasRead(v, s)'
      BY <3>2, <3>4, <3>5
    <3>7. \A v \in Tasks : pc'[v] = "migrating" => pc[v] = "migrating"
      BY <1>4
    <3>8. QED
      BY <3>2, <3>3, <3>6, <3>7
  <2>2. QED
    BY <1>1, <2>1 DEF MigrationsAgree, HasRead
<1>7. BodyHasRecord'
  BY <1>1, <1>4 DEF BodyHasRecord, Data
<1>8. TablesAgree'
  BY <1>1, <1>2, <1>3 DEF Data, TablesAgree
<1>9. KnownKeys'
  BY <1>1, <1>4 DEF KnownKeys, Data
<1>10. RecordsShow'
  BY <1>1, <1>3 DEF Data, RecordsShow
<1>11. QED
  BY <1>3, <1>6, <1>7, <1>8, <1>9, <1>10 DEF Data
-------------------------------------------------------------------------------
(* Crashes *)

LEMMA RestartData ==
    ASSUME TypeOK, OneBody, Data, NEW n \in 0 .. Len(calls), Restart(n)
    PROVE  Data'
<1>1. /\ UNCHANGED <<Kept, removed, failures, prev, told>>
      /\ calls' = <<>> /\ Execute(n) /\ cache' = db' /\ legacyCache' = legacyDb'
      /\ cut' = cut \cup {calls[i].sid : i \in DOMAIN calls}
      /\ \A t \in Tasks : pc'[t] \in {"idle", "done"}
  BY DEF Restart, Kept
<1>2. Pending' = {} /\ \A i \in 1 .. Len(calls') : FALSE
  BY <1>1 DEF Pending, ToSet
<1>3. \A c \in Pending : c.sid \in cut'
  <2>1. calls \in Seq(Calls) /\ DOMAIN calls = 1 .. Len(calls) /\ Pending = {calls[i] : i \in 1 .. Len(calls)}
    BY ElementsAre DEF TypeOK, Pending
  <2>2. QED
    BY <1>1, <2>1
<1>4. ASSUME NEW s \in Kept
      PROVE  /\ legacyDb'[s] # NoRecord => legacyDb'[s].verified = "default"
             /\ db'[s] # NoRecord => Shows(db'[s], mark'[s])
             /\ db'[s] = NoRecord => mark'[s].status = "default"
  <2>1. s \in ServiceIds /\ \A c \in Pending : c.sid = s => c.op # "remove"
    BY DEF Data, CallsFit, CallFits, Kept
  <2>2. /\ \/ legacyDb'[s] = legacyDb[s]
           \/ legacyDb'[s] = NoRecord /\ \E c \in Pending : c.sid = s /\ c.op = "removeLegacy"
        /\ \/ db'[s] = db[s] /\ mark'[s] = mark[s]
           \/ \E c \in Pending : c.sid = s /\ c.op = "write"
                                 /\ db'[s] = c.record /\ mark'[s] = c.mark
    BY <1>1, <2>1, ExecuteFacts, PendingFacts DEF Data
  <2>3. legacyDb'[s] # NoRecord => legacyDb'[s].verified = "default"
    BY <2>2 DEF Data, TablesAgree
  <2>4. /\ db'[s] # NoRecord => Shows(db'[s], mark'[s])
        /\ db'[s] = NoRecord => mark'[s].status = "default"
    <3>1. CASE db'[s] = db[s] /\ mark'[s] = mark[s]
      BY <3>1 DEF Data, RecordsShow
    <3>2. CASE \E c \in Pending : c.sid = s /\ c.op = "write"
                                  /\ db'[s] = c.record /\ mark'[s] = c.mark
      <4>1. PICK c \in Pending : c.sid = s /\ c.op = "write" /\ db'[s] = c.record /\ mark'[s] = c.mark
        BY <3>2
      <4>2. c.record # NoRecord
        BY <4>1, RecordFacts DEF Data, CallsFit, CallFits
      <4>3. QED
        BY <4>1, <4>2 DEF Data, RecordsShow
    <3>3. QED
      BY <2>2, <3>1, <3>2
  <2>5. QED
    BY <2>3, <2>4
\* Without a call in flight the tables are what they were.
<1>5. ASSUME NEW s \in Kept \ cut'
      PROVE  /\ cache'[s] # NoRecord => cache'[s].key = told[s]
             /\ cache'[s] = NoRecord /\ legacyCache'[s] # NoRecord => legacyCache'[s].key = told[s]
             /\ cache'[s] = NoRecord /\ prev[s] # NoKey => prev[s] = told[s]
  <2>1. s \in ServiceIds /\ s \in Kept \ cut /\ \A c \in Pending : c.sid # s
    BY <1>1, <1>3 DEF Kept
  <2>2. cache'[s] = db[s] /\ legacyCache'[s] = legacyDb[s]
    BY <1>1, <2>1, ExecuteFacts, PendingFacts DEF Data
  <2>3. SameButApproval(cache[s], db[s]) /\ (db[s] = NoRecord => legacyDb[s] = legacyCache[s])
    BY <2>1 DEF Data, TablesAgree
  <2>4. cache[s].key = db[s].key /\ (cache[s] = NoRecord <=> db[s] = NoRecord)
    BY <2>1, <2>3, ApprovalFacts DEF TypeOK
  <2>5. QED
    BY <2>1, <2>2, <2>3, <2>4 DEF Data, KnownKeys
<1>6. CallsFit' /\ MigrationsFirst'
  BY <1>1, <1>2 DEF CallsFit, MigrationsFirst
<1>7. MigrationsAgree' /\ BodyHasRecord'
  BY <1>1 DEF MigrationsAgree, BodyHasRecord
<1>8. TablesAgree'
  BY <1>1, <1>2, <1>4, ApprovalRelates DEF TablesAgree
<1>9. KnownKeys'
  BY <1>1, <1>5 DEF KnownKeys
<1>10. RecordsShow'
  <2>1. \A s \in Kept : /\ db'[s] # NoRecord => Shows(db'[s], mark'[s])
                        /\ db'[s] = NoRecord => mark'[s].status = "default"
    BY <1>4
  <2>2. QED
    BY <1>1, <1>2, <2>1 DEF RecordsShow, Shows
<1>11. QED
  BY <1>6, <1>7, <1>8, <1>9, <1>10 DEF Data
-------------------------------------------------------------------------------
(* Every step keeps the invariant *)

\* A step that leaves the queue of the zones and joins no identity queue, by a task that
\* is first in its queue if it goes into a body.
LEMMA TurnsStay ==
    ASSUME TypeOK, Turns, UNCHANGED <<request, queues, zoneQueue>>, NEW t \in Tasks,
           \A u \in Tasks : u # t => pc'[u] = pc[u], pc[t] # "zoneQueued",
           pc'[t] \in {"read", "migrating", "unmigrating", "removing", "done"},
           pc'[t] \in {"read", "migrating", "unmigrating"} /\ OnQueue(t) => First(t),
           pc'[t] = "read" => OnQueue(t),
           pc'[t] = "removing" => ~ OnQueue(t)
    PROVE  Turns'
<1>1. OneBody /\ ZoneQueueFits
  BY DEF Turns
<1>2. \A u \in Tasks : pc[u] = "zoneQueued" => pc'[u] = "zoneQueued"
  OBVIOUS
<1>3. ZoneQueueFits'
  BY <1>1, <1>2, ZoneQueueStays
<1>4. /\ \A u \in Tasks : pc'[u] \in InBodyPlaces /\ OnQueue(u) => First(u)
      /\ \A u \in Tasks : pc'[u] \in {"zoneQueued", "outer", "queued", "read", "writing", "archiving"}
                            => OnQueue(u)
      /\ \A u \in Tasks : pc'[u] = "removing" => ~ OnQueue(u)
  <2>1. ASSUME NEW u \in Tasks
        PROVE  /\ pc'[u] \in InBodyPlaces /\ OnQueue(u) => First(u)
               /\ pc'[u] \in {"zoneQueued", "outer", "queued", "read", "writing", "archiving"} => OnQueue(u)
               /\ pc'[u] = "removing" => ~ OnQueue(u)
    <3>1. CASE u = t
      BY <3>1 DEF InBodyPlaces
    <3>2. CASE u # t
      BY <1>1, <3>2 DEF OneBody
    <3>3. QED
      BY <3>1, <3>2
  <2>2. QED
    BY <2>1
<1>5. OneBody'
  BY <1>1, <1>4, SameQueues, QueuesGrow
<1>6. QED
  BY <1>3, <1>5 DEF Turns

LEMMA InvParts == Inv => TypeOK /\ Turns /\ OneBody /\ ZoneQueueFits /\ Data
BY DEF Inv, Turns

LEMMA ReadStep ==
    ASSUME Inv, NEW t \in Tasks, Read(t)
    PROVE  Inv'
<1> USE DEF zones, memory, disk, limits, history
<1>1. TypeOK /\ Turns /\ OneBody /\ Data /\ Data'
  BY InvParts, ReadData
<1>2. pc[t] \in {"idle", "queued"} /\ (OnQueue(t) => First(t)) /\ Sid(t) \in ServiceIds
  BY <1>1, MayReadFacts, PendingFacts DEF Read, Data
<1>3. /\ pc'[t] = (IF OnQueue(t) THEN "read" ELSE "done") /\ pc' \in [Tasks -> Places]
      /\ \A u \in Tasks : u # t => pc'[u] = pc[u]
      /\ seen' \in [Tasks -> Records \cup {NoRecord}]
  BY <1>1, <1>2 DEF Read, TypeOK, Places
<1>4. Turns'
  <2>1. UNCHANGED <<request, queues, zoneQueue>>
    BY DEF Read
  <2>2. QED
    BY <1>1, <1>2, <1>3, <2>1, TurnsStay
<1>5. TypeOK'
  BY <1>1, <1>3 DEF Read, TypeOK
<1>6. QED
  BY <1>1, <1>4, <1>5 DEF Inv

LEMMA MigrateStep ==
    ASSUME Inv, NEW t \in Tasks, Migrate(t)
    PROVE  Inv'
<1> USE DEF zones, memory, limits, history
<1>1. TypeOK /\ Turns /\ OneBody /\ Data /\ Data'
  BY InvParts, MigrateData
<1>2. /\ pc[t] \in {"idle", "queued"} /\ (OnQueue(t) => First(t)) /\ Sid(t) \in ServiceIds
      /\ legacyCache[Sid(t)] \in Records \cup {NoRecord} /\ mark[Sid(t)] \in Marks
  BY <1>1, MayReadFacts, PendingFacts DEF Migrate, Data, TypeOK
<1>3. /\ pc'[t] = "migrating" /\ pc' \in [Tasks -> Places]
      /\ \A u \in Tasks : u # t => pc'[u] = pc[u]
      /\ seen' \in [Tasks -> Records \cup {NoRecord}]
  BY <1>1, <1>2 DEF Migrate, TypeOK, Places
<1>4. Turns'
  <2>1. UNCHANGED <<request, queues, zoneQueue>>
    BY DEF Migrate
  <2>2. QED
    BY <1>1, <1>2, <1>3, <2>1, TurnsStay
<1>5. calls' \in Seq(Calls)
  <2>1. Write(t, Sid(t), legacyCache[Sid(t)], mark[Sid(t)]) \in Calls
    BY <1>2, CallFacts
  <2>2. QED
    BY <1>1, <2>1, AppendFacts DEF Migrate, TypeOK
<1>6. TypeOK'
  BY <1>1, <1>3, <1>5 DEF Migrate, TypeOK
<1>7. QED
  BY <1>1, <1>4, <1>6 DEF Inv

LEMMA RemoveKeyStep ==
    ASSUME Inv, NEW t \in Tasks, RemoveKey(t)
    PROVE  Inv'
<1> USE DEF zones, limits, history
<1>1. TypeOK /\ Turns /\ OneBody /\ Data /\ Data'
  BY InvParts, RemoveKeyData
<1>2. pc[t] = "idle" /\ ~ OnQueue(t) /\ Sid(t) \in ServiceIds
  BY <1>1, PendingFacts DEF RemoveKey, Data, OnQueue
<1>3. /\ pc'[t] = "removing" /\ pc' \in [Tasks -> Places]
      /\ \A u \in Tasks : u # t => pc'[u] = pc[u]
      /\ cache' \in [ServiceIds -> Records \cup {NoRecord}] /\ removed' \subseteq ServiceIds
  BY <1>1, <1>2 DEF RemoveKey, TypeOK, Places
<1>4. Turns'
  <2>1. UNCHANGED <<request, queues, zoneQueue>>
    BY DEF RemoveKey
  <2>2. QED
    BY <1>1, <1>2, <1>3, <2>1, TurnsStay
<1>5. calls' \in Seq(Calls)
  <2>1. Removal(t, Sid(t), "remove") \in Calls
    BY <1>2, CallFacts
  <2>2. QED
    BY <1>1, <2>1, AppendFacts DEF RemoveKey, TypeOK
<1>6. TypeOK'
  BY <1>1, <1>3, <1>5 DEF RemoveKey, TypeOK
<1>7. QED
  BY <1>1, <1>4, <1>6 DEF Inv

\* The types of what the database answers.
LEMMA AnswerTypes ==
    ASSUME TypeOK, Data, calls # <<>>, Execute(1)
    PROVE  /\ db' \in [ServiceIds -> Records \cup {NoRecord}]
           /\ legacyDb' \in [ServiceIds -> Records \cup {NoRecord}]
           /\ mark' \in [ServiceIds -> Marks]
           /\ Tail(calls) \in Seq(Calls)
<1>1. Rows
  BY PendingFacts DEF Data
<1>2. 1 \in 0 .. Len(calls) /\ Tail(calls) \in Seq(Calls)
  BY <1>1, TailFacts DEF Rows
<1>3. QED
  BY <1>1, <1>2, ExecuteFacts

LEMMA RemovalAnsweredStep ==
    ASSUME Inv, NEW t \in Tasks, RemovalAnswered(t)
    PROVE  Inv'
<1> USE DEF zones, memory, limits
<1>1. TypeOK /\ Turns /\ OneBody /\ Data /\ Data'
  BY InvParts, RemovalAnsweredData
<1>2. /\ pc[t] = "unmigrating" \/ (pc[t] = "removing" /\ ~ OnQueue(t))
      /\ OnQueue(t) => First(t)
  <2>1. /\ calls # <<>> /\ Head(calls).task = t /\ Head(calls) \in Pending /\ CallFits(Head(calls))
        /\ Head(calls).op \in {"removeLegacy", "remove"}
    BY <1>1, AnswerFacts, CallFacts DEF RemovalAnswered
  <2>2. QED
    BY <1>1, <2>1 DEF CallFits, OneBody, InBodyPlaces
<1>3. /\ pc'[t] = (IF OnQueue(t) THEN "read" ELSE "done") /\ pc' \in [Tasks -> Places]
      /\ \A u \in Tasks : u # t => pc'[u] = pc[u]
  BY <1>1 DEF RemovalAnswered, TypeOK, Places
<1>4. Turns'
  <2>1. UNCHANGED <<request, queues, zoneQueue>>
    BY DEF RemovalAnswered
  <2>2. QED
    BY <1>1, <1>2, <1>3, <2>1, TurnsStay
<1>5. TypeOK'
  BY <1>1, <1>3, AnswerTypes DEF RemovalAnswered, TypeOK
<1>6. QED
  BY <1>1, <1>4, <1>5 DEF Inv

LEMMA MigrationAnsweredStep ==
    ASSUME Inv, NEW t \in Tasks, MigrationAnswered(t)
    PROVE  Inv'
<1> USE DEF zones, limits
<1>1. TypeOK /\ Turns /\ OneBody /\ Data /\ Data'
  BY InvParts, MigrationAnsweredData
<1>2. pc[t] = "migrating" /\ (OnQueue(t) => First(t)) /\ Sid(t) \in ServiceIds
      /\ Head(calls).record \in Records \cup {NoRecord}
  BY <1>1, PendingFacts, AnswerFacts DEF MigrationAnswered, OneBody, InBodyPlaces, Data
<1>3. /\ pc'[t] = "unmigrating" /\ pc' \in [Tasks -> Places]
      /\ \A u \in Tasks : u # t => pc'[u] = pc[u]
  BY <1>1 DEF MigrationAnswered, TypeOK, Places
<1>4. Turns'
  <2>1. UNCHANGED <<request, queues, zoneQueue>>
    BY DEF MigrationAnswered
  <2>2. QED
    BY <1>1, <1>2, <1>3, <2>1, TurnsStay
<1>5. calls' \in Seq(Calls)
  <2>1. Removal(t, Sid(t), "removeLegacy") \in Calls /\ Tail(calls) \in Seq(Calls)
    BY <1>1, <1>2, CallFacts, AnswerTypes DEF MigrationAnswered
  <2>2. QED
    BY <2>1, AppendFacts DEF MigrationAnswered
<1>6. /\ cache' \in [ServiceIds -> Records \cup {NoRecord}]
      /\ legacyCache' \in [ServiceIds -> Records \cup {NoRecord}]
  BY <1>1, <1>2 DEF MigrationAnswered, TypeOK
<1>7. TypeOK'
  BY <1>1, <1>3, <1>5, <1>6, AnswerTypes DEF MigrationAnswered, TypeOK
<1>8. QED
  BY <1>1, <1>4, <1>7 DEF Inv

\* What is announced is the key of a request.
LEMMA AnnounceTypes ==
    ASSUME TypeOK, NEW t \in Tasks, Announce(t)
    PROVE  told' \in [ServiceIds -> Keys \cup {NoKey}] /\ prev' \in [ServiceIds -> Keys \cup {NoKey}]
<1>1. Sid(t) \in ServiceIds /\ request[t].key \in Keys \cup {NoKey}
  BY RequestFacts DEF TypeOK
<1>2. QED
  BY <1>1 DEF Announce, CheckPreviousKey, KeyChange, TypeOK

\* A body that has its answer ends, or archives the sibling sessions.
LEMMA WriteAnsweredStep ==
    ASSUME Inv, NEW t \in Tasks, WriteAnswered(t)
    PROVE  Inv'
<1> USE DEF zones, limits
<1>1. TypeOK /\ Turns /\ OneBody /\ ZoneQueueFits /\ Data /\ Data'
  BY InvParts, WriteAnsweredData
<1>2. /\ pc[t] = "writing" /\ OnQueue(t) /\ First(t) /\ Sid(t) \in ServiceIds
      /\ Head(calls).record \in Records \cup {NoRecord}
  BY <1>1, PendingFacts, AnswerFacts DEF WriteAnswered, OneBody, InBodyPlaces, Data
<1>3. /\ \A u \in Tasks : u # t => pc'[u] = pc[u]
      /\ UNCHANGED <<request, zoneQueue>>
  BY <1>1 DEF WriteAnswered, Settle, TypeOK
<1>4. ZoneQueueFits'
  <2>1. \A u \in Tasks : pc[u] = "zoneQueued" => pc'[u] = "zoneQueued"
    BY <1>2, <1>3
  <2>2. QED
    BY <1>1, <1>3, <2>1, ZoneQueueStays
<1>5. OneBody' /\ queues' \in [ServiceIds -> Seq(Tasks)] /\ pc' \in [Tasks -> Places]
  <2>1. CASE Settle(t)
    BY <1>1, <1>2, <1>3, <2>1, SettleTurns DEF InBodyPlaces
  <2>2. CASE pc' = [pc EXCEPT ![t] = "archiving"] /\ UNCHANGED queues
    <3>1. pc'[t] = "archiving" /\ pc' \in [Tasks -> Places]
      BY <1>1, <2>2 DEF TypeOK, Places
    <3>2. /\ \A u \in Tasks : pc'[u] \in InBodyPlaces /\ OnQueue(u) => First(u)
          /\ \A u \in Tasks : pc'[u] \in {"zoneQueued", "outer", "queued", "read", "writing", "archiving"}
                                => OnQueue(u)
          /\ \A u \in Tasks : pc'[u] = "removing" => ~ OnQueue(u)
      BY <1>1, <1>2, <1>3, <3>1 DEF OneBody
    <3>3. OneBody'
      BY <1>1, <1>3, <2>2, <3>2, SameQueues, QueuesGrow
    <3>4. QED
      BY <1>1, <2>2, <3>1, <3>3 DEF TypeOK
  <2>3. QED
    BY <2>1, <2>2 DEF WriteAnswered
<1>6. cache' \in [ServiceIds -> Records \cup {NoRecord}]
  BY <1>1, <1>2 DEF WriteAnswered, TypeOK
<1>7. TypeOK'
  <2>1. /\ db' \in [ServiceIds -> Records \cup {NoRecord}]
        /\ legacyDb' \in [ServiceIds -> Records \cup {NoRecord}]
        /\ mark' \in [ServiceIds -> Marks] /\ calls' \in Seq(Calls)
    BY <1>1, AnswerTypes DEF WriteAnswered
  <2>2. told' \in [ServiceIds -> Keys \cup {NoKey}] /\ prev' \in [ServiceIds -> Keys \cup {NoKey}]
    BY <1>1, AnnounceTypes DEF WriteAnswered
  <2>3. QED
    BY <1>1, <1>5, <1>6, <2>1, <2>2 DEF WriteAnswered, TypeOK
<1>8. QED
  BY <1>1, <1>4, <1>5, <1>7 DEF Inv, Turns

LEMMA CallFailsStep ==
    ASSUME Inv, NEW t \in Tasks, CallFails(t)
    PROVE  Inv'
<1> USE DEF zones, memory, history
<1>1. TypeOK /\ Turns /\ OneBody /\ ZoneQueueFits /\ Data /\ Data'
  BY InvParts, CallFailsData
<1>2. /\ pc[t] \in InBodyPlaces \cup {"removing"} /\ pc[t] # "zoneQueued"
      /\ Tail(calls) \in Seq(Calls)
  <2>1. Head(calls) \in Pending /\ Head(calls).task = t /\ calls # <<>>
    BY <1>1, AnswerFacts DEF CallFails
  <2>2. pc[t] \in {"writing", "migrating", "unmigrating", "removing"}
    BY <1>1, <2>1, PendingFacts DEF Data
  <2>3. QED
    BY <1>1, <2>1, <2>2, TailFacts DEF InBodyPlaces, TypeOK
<1>3. UNCHANGED <<request, zoneQueue>> /\ Settle(t)
  BY DEF CallFails
<1>4. OneBody' /\ queues' \in [ServiceIds -> Seq(Tasks)] /\ pc' \in [Tasks -> Places]
  BY <1>1, <1>2, <1>3, SettleTurns
<1>5. ZoneQueueFits'
  <2>1. \A u \in Tasks : pc[u] = "zoneQueued" => pc'[u] = "zoneQueued"
    BY <1>1, <1>2, <1>3 DEF Settle, TypeOK
  <2>2. QED
    BY <1>1, <1>3, <2>1, ZoneQueueStays
<1>6. calls' \in Seq(Calls) /\ failures' \in 0 .. MaxFailures
  BY <1>1, <1>2, BoundsAssumption DEF CallFails, TypeOK
<1>7. TypeOK'
  BY <1>1, <1>4, <1>6 DEF CallFails, TypeOK
<1>8. QED
  BY <1>1, <1>4, <1>5, <1>7 DEF Inv, Turns

LEMMA ArchiveStep ==
    ASSUME Inv, NEW t \in Tasks, Archive(t)
    PROVE  Inv'
<1> USE DEF zones, memory, disk, limits, history
<1>1. TypeOK /\ Turns /\ OneBody /\ ZoneQueueFits /\ Data
  BY InvParts
<1>2. pc[t] = "archiving" /\ Settle(t) /\ UNCHANGED <<request, zoneQueue>> /\ DataAlone
  BY DEF Archive, DataAlone
<1>3. pc'[t] \in Quiet /\ \A u \in Tasks : u # t => pc'[u] = pc[u]
  BY <1>1, <1>2 DEF Settle, TypeOK, Quiet
<1>4. Data'
  <2>1. \A u \in Tasks : pc'[u] = pc[u] \/ (pc[u] \in Quiet \cup {"read"} /\ pc'[u] \in Quiet)
    BY <1>2, <1>3 DEF Quiet
  <2>2. QED
    BY <1>1, <1>2, <2>1, QuietData
<1>5. OneBody' /\ queues' \in [ServiceIds -> Seq(Tasks)] /\ pc' \in [Tasks -> Places]
  BY <1>1, <1>2, SettleTurns DEF InBodyPlaces
<1>6. ZoneQueueFits'
  BY <1>1, <1>2, <1>3, ZoneQueueStays
<1>7. TypeOK'
  BY <1>1, <1>5 DEF Archive, TypeOK
<1>8. QED
  BY <1>4, <1>5, <1>6, <1>7 DEF Inv, Turns

LEMMA RestartStep ==
    ASSUME Inv, NEW n \in 0 .. Len(calls), Restart(n)
    PROVE  Inv'
<1> USE DEF zones, memory, limits
<1>1. TypeOK /\ Turns /\ OneBody /\ ZoneQueueFits /\ Data /\ Data'
  BY InvParts, RestartData
<1>2. /\ \A u \in Tasks : pc'[u] \in {"idle", "done"}
      /\ pc' \in [Tasks -> Places] /\ queues' \in [ServiceIds -> Seq(Tasks)]
      /\ zoneQueue' = <<>> /\ inZone' = {} /\ currentZone' = "none" /\ calls' = <<>>
      /\ restarts' \in 0 .. MaxRestarts
  BY <1>1, BoundsAssumption DEF Restart, TypeOK, Places
<1>3. OneBody' /\ ZoneQueueFits'
  <2>1. \A i \in 1 .. Len(zoneQueue') : FALSE
    BY <1>2
  <2>2. ZoneQueueFits'
    BY <2>1 DEF ZoneQueueFits
  <2>3. QED
    BY <1>2, <2>2 DEF OneBody, InBodyPlaces
<1>4. /\ db' \in [ServiceIds -> Records \cup {NoRecord}]
      /\ legacyDb' \in [ServiceIds -> Records \cup {NoRecord}]
      /\ mark' \in [ServiceIds -> Marks]
  BY <1>1, ExecuteFacts, PendingFacts DEF Restart, Data
<1>5. cut' \subseteq ServiceIds
  <2>1. \A i \in DOMAIN calls : calls[i].sid \in ServiceIds
    BY <1>1, ElementsAre, CallFacts DEF TypeOK
  <2>2. QED
    BY <1>1, <2>1 DEF Restart, TypeOK
<1>6. calls' \in Seq(Calls) /\ zoneQueue' \in Seq(Tasks)
  BY <1>2
<1>7. TypeOK'
  BY <1>1, <1>2, <1>4, <1>5, <1>6 DEF Restart, TypeOK
<1>8. QED
  BY <1>1, <1>3, <1>7 DEF Inv, Turns
-------------------------------------------------------------------------------
(* The zones *)

\* The tasks that enter are in their zone or in an identity queue, at its end.
LEMMA AdmitFacts ==
    ASSUME TypeOK, NEW entering \in Seq(Tasks), NEW left \in SUBSET Tasks, Admit(entering, left)
    PROVE  /\ pc' \in [Tasks -> Places] /\ inZone' \subseteq Tasks
           /\ queues' \in [ServiceIds -> Seq(Tasks)]
           /\ \A s \in ServiceIds : \E q \in Seq(Tasks) : queues'[s] = queues[s] \o q
           /\ \A u \in Tasks : /\ u \in left => pc'[u] = "done"
                               /\ u \notin left /\ u \in ToSet(entering) => pc'[u] \in {"outer", "queued"}
                               /\ u \notin left /\ u \notin ToSet(entering) => pc'[u] = pc[u]
<1>1. ToSet(entering) \subseteq Tasks /\ Len(entering) \in Nat
  BY ElementsAre
<1>2. pc' \in [Tasks -> Places]
  BY DEF Admit, TypeOK, Places
<1>3. \A u \in Tasks : /\ u \in left => pc'[u] = "done"
                       /\ u \notin left /\ u \in ToSet(entering) => pc'[u] \in {"outer", "queued"}
                       /\ u \notin left /\ u \notin ToSet(entering) => pc'[u] = pc[u]
  BY DEF Admit
<1>4. inZone' \subseteq Tasks
  BY <1>1 DEF Admit, TypeOK
<1>5. PICK joining \in [ServiceIds -> BoundedSeq(ToSet(entering), Len(entering))] :
         queues' = [s \in ServiceIds |-> queues[s] \o joining[s]]
  BY DEF Admit
<1>6. ASSUME NEW s \in ServiceIds PROVE joining[s] \in Seq(Tasks)
  <2>1. PICK m \in 0 .. Len(entering) : joining[s] \in [1 .. m -> ToSet(entering)]
    BY <1>5 DEF BoundedSeq, SeqOf
  <2>2. m \in Nat /\ joining[s] \in [1 .. m -> Tasks]
    BY <1>1, <2>1
  <2>3. QED
    BY <2>2, SeqDef
<1>7. \A s \in ServiceIds : queues[s] \in Seq(Tasks) /\ queues'[s] = queues[s] \o joining[s]
  BY <1>5 DEF TypeOK
<1>8. queues' \in [ServiceIds -> Seq(Tasks)]
  BY <1>5, <1>6, <1>7
<1>9. QED
  BY <1>2, <1>3, <1>4, <1>6, <1>7, <1>8

\* The tasks that enter were waiting, in the queue of the zones or not at all, and make
\* their request in a body later; those that leave have settled.
LEMMA AdmitTurns ==
    ASSUME TypeOK, OneBody, UNCHANGED request,
           NEW entering \in Seq(Tasks), NEW left \in SUBSET Tasks, Admit(entering, left),
           \A u \in ToSet(entering) : OnQueue(u)
    PROVE  OneBody'
<1>1. /\ \A s \in ServiceIds : \E q \in Seq(Tasks) : queues'[s] = queues[s] \o q
      /\ \A u \in Tasks : /\ u \in left => pc'[u] = "done"
                          /\ u \notin left /\ u \in ToSet(entering) => pc'[u] \in {"outer", "queued"}
                          /\ u \notin left /\ u \notin ToSet(entering) => pc'[u] = pc[u]
  BY AdmitFacts
<1>2. ASSUME NEW u \in Tasks
      PROVE  /\ pc'[u] \in InBodyPlaces /\ OnQueue(u) => First(u)
             /\ pc'[u] \in {"zoneQueued", "outer", "queued", "read", "writing", "archiving"} => OnQueue(u)
             /\ pc'[u] = "removing" => ~ OnQueue(u)
  <2>1. CASE u \in left
    BY <1>1, <2>1 DEF InBodyPlaces
  <2>2. CASE u \notin left /\ u \in ToSet(entering)
    BY <1>1, <2>2 DEF InBodyPlaces
  <2>3. CASE u \notin left /\ u \notin ToSet(entering)
    BY <1>1, <2>3 DEF OneBody
  <2>4. QED
    BY <2>1, <2>2, <2>3
<1>3. QED
  BY <1>1, <1>2, QueuesGrow

LEMMA AdmitQuiet ==
    ASSUME TypeOK, Data, DataAlone,
           NEW entering \in Seq(Tasks), NEW left \in SUBSET Tasks, Admit(entering, left),
           \A u \in ToSet(entering) \cup left : pc[u] \in Quiet
    PROVE  Data'
<1>1. \A u \in Tasks : pc'[u] = pc[u] \/ (pc[u] \in Quiet \cup {"read"} /\ pc'[u] \in Quiet)
  BY AdmitFacts DEF Quiet
<1>2. QED
  BY <1>1, QuietData

LEMMA EnterZoneStep ==
    ASSUME Inv, NEW t \in Tasks, EnterZone(t)
    PROVE  Inv'
<1> USE DEF memory, disk, limits, history
<1>1. TypeOK /\ OneBody /\ ZoneQueueFits /\ Data
  BY InvParts
<1>2. /\ pc[t] = "idle" /\ OnQueue(t) /\ UNCHANGED request /\ DataAlone
      /\ Zone(t) \in {"global", "receiver"}
  BY DEF EnterZone, DataAlone, Zone
<1>3. CASE currentZone \in {"none", Zone(t)}
  <2>1. Admit(<<t>>, {}) /\ currentZone' = Zone(t) /\ UNCHANGED zoneQueue
    BY <1>3 DEF EnterZone
  <2>2. <<t>> \in Seq(Tasks) /\ ToSet(<<t>>) = {t} /\ {} \in SUBSET Tasks
    BY DEF ToSet
  <2>3. Data'
    BY <1>1, <1>2, <2>1, <2>2, AdmitQuiet DEF Quiet
  <2>4. OneBody'
    BY <1>1, <1>2, <2>1, <2>2, AdmitTurns
  <2>5. /\ pc' \in [Tasks -> Places] /\ inZone' \subseteq Tasks
        /\ queues' \in [ServiceIds -> Seq(Tasks)]
        /\ \A u \in Tasks : u # t => pc'[u] = pc[u]
    BY <1>1, <2>1, <2>2, AdmitFacts
  <2>6. ZoneQueueFits'
    <3>1. \A u \in Tasks : pc[u] = "zoneQueued" => pc'[u] = "zoneQueued"
      BY <1>2, <2>5
    <3>2. QED
      BY <1>1, <2>1, <3>1, ZoneQueueStays
  <2>7. TypeOK'
    BY <1>1, <1>2, <2>1, <2>5 DEF EnterZone, TypeOK
  <2>8. QED
    BY <2>3, <2>4, <2>6, <2>7 DEF Inv, Turns
<1>4. CASE currentZone \notin {"none", Zone(t)}
  <2>1. /\ pc' = [pc EXCEPT ![t] = "zoneQueued"] /\ zoneQueue' = Append(zoneQueue, t)
        /\ UNCHANGED <<currentZone, inZone, queues>>
    BY <1>4 DEF EnterZone
  <2>2. /\ pc'[t] = "zoneQueued" /\ pc' \in [Tasks -> Places]
        /\ \A u \in Tasks : u # t => pc'[u] = pc[u]
    BY <1>1, <2>1 DEF TypeOK, Places
  <2>3. Data'
    <3>1. \A u \in Tasks : pc'[u] = pc[u] \/ (pc[u] \in Quiet \cup {"read"} /\ pc'[u] \in Quiet)
      BY <1>2, <2>2 DEF Quiet
    <3>2. QED
      BY <1>1, <1>2, <3>1, QuietData
  <2>4. OneBody'
    <3>1. /\ \A u \in Tasks : pc'[u] \in InBodyPlaces /\ OnQueue(u) => First(u)
          /\ \A u \in Tasks : pc'[u] \in {"zoneQueued", "outer", "queued", "read", "writing", "archiving"}
                                => OnQueue(u)
          /\ \A u \in Tasks : pc'[u] = "removing" => ~ OnQueue(u)
      BY <1>1, <1>2, <2>2 DEF OneBody, InBodyPlaces
    <3>2. QED
      BY <1>1, <1>2, <2>1, <3>1, SameQueues, QueuesGrow
  <2>5. /\ zoneQueue' \in Seq(Tasks) /\ Len(zoneQueue) \in Nat /\ Len(zoneQueue') = Len(zoneQueue) + 1
        /\ zoneQueue'[Len(zoneQueue) + 1] = t
        /\ \A i \in 1 .. Len(zoneQueue) : zoneQueue'[i] = zoneQueue[i] /\ zoneQueue[i] \in Tasks
    BY <1>1, <2>1, AppendFacts DEF TypeOK
  <2>6. ZoneQueueFits'
    <3>1. \A i \in 1 .. Len(zoneQueue) : zoneQueue[i] # t /\ pc'[zoneQueue[i]] = "zoneQueued"
      BY <1>1, <1>2, <2>2, <2>5 DEF ZoneQueueFits
    <3>2. QED
      BY <1>1, <2>2, <2>5, <3>1 DEF ZoneQueueFits
  <2>7. TypeOK'
    BY <1>1, <1>2, <2>1, <2>2, <2>5 DEF EnterZone, TypeOK
  <2>8. QED
    BY <2>3, <2>4, <2>6, <2>7 DEF Inv, Turns
<1>5. QED
  BY <1>3, <1>4

LEMMA AskNestedStep ==
    ASSUME Inv, NEW t \in Tasks, AskNested(t)
    PROVE  Inv'
<1> USE DEF zones, memory, disk, limits, history
<1>1. TypeOK /\ OneBody /\ ZoneQueueFits /\ Data
  BY InvParts
<1>2. /\ pc[t] = "outer" /\ OnQueue(t) /\ UNCHANGED <<request, zoneQueue>> /\ DataAlone
      /\ Sid(t) \in ServiceIds
  BY <1>1, RequestFacts DEF AskNested, DataAlone, OneBody, TypeOK
<1>3. /\ pc'[t] = "queued" /\ pc' \in [Tasks -> Places]
      /\ \A u \in Tasks : u # t => pc'[u] = pc[u]
  BY <1>1 DEF AskNested, TypeOK, Places
<1>4. Data'
  <2>1. \A u \in Tasks : pc'[u] = pc[u] \/ (pc[u] \in Quiet \cup {"read"} /\ pc'[u] \in Quiet)
    BY <1>2, <1>3 DEF Quiet
  <2>2. QED
    BY <1>1, <1>2, <2>1, QuietData
<1>5. \A s \in ServiceIds : queues[s] \in Seq(Tasks) /\ queues'[s] = queues[s] \o (IF s = Sid(t) THEN <<t>> ELSE <<>>)
  <2>1. ASSUME NEW s \in ServiceIds
        PROVE  queues[s] \in Seq(Tasks) /\ queues'[s] = queues[s] \o (IF s = Sid(t) THEN <<t>> ELSE <<>>)
    <3>1. queues[s] \in Seq(Tasks)
      BY <1>1 DEF TypeOK
    <3>2. queues[s] \o <<t>> = Append(queues[s], t) /\ queues[s] \o <<>> = queues[s]
      BY <3>1
    <3>3. queues'[s] = IF s = Sid(t) THEN Append(queues[s], t) ELSE queues[s]
      BY <1>1 DEF AskNested, TypeOK
    <3>4. QED
      BY <3>1, <3>2, <3>3
  <2>2. QED
    BY <2>1
<1>6. <<t>> \in Seq(Tasks) /\ <<>> \in Seq(Tasks)
  OBVIOUS
<1>7. OneBody'
  <2>1. \A s \in ServiceIds : \E q \in Seq(Tasks) : queues'[s] = queues[s] \o q
    BY <1>5, <1>6
  <2>2. /\ \A u \in Tasks : pc'[u] \in InBodyPlaces /\ OnQueue(u) => First(u)
        /\ \A u \in Tasks : pc'[u] \in {"zoneQueued", "outer", "queued", "read", "writing", "archiving"}
                              => OnQueue(u)
        /\ \A u \in Tasks : pc'[u] = "removing" => ~ OnQueue(u)
    BY <1>1, <1>2, <1>3 DEF OneBody, InBodyPlaces
  <2>3. QED
    BY <1>1, <1>2, <2>1, <2>2, QueuesGrow
<1>8. ZoneQueueFits'
  <2>1. \A u \in Tasks : pc[u] = "zoneQueued" => pc'[u] = "zoneQueued"
    BY <1>2, <1>3
  <2>2. QED
    BY <1>1, <1>2, <2>1, ZoneQueueStays
<1>9. queues' \in [ServiceIds -> Seq(Tasks)]
  <2>1. queues[Sid(t)] \in Seq(Tasks)
    BY <1>1, <1>2 DEF TypeOK
  <2>2. Append(queues[Sid(t)], t) \in Seq(Tasks)
    BY <2>1
  <2>3. QED
    BY <1>1, <2>2 DEF AskNested, TypeOK
<1>10. TypeOK'
  BY <1>1, <1>3, <1>9 DEF AskNested, TypeOK
<1>11. QED
  BY <1>4, <1>7, <1>8, <1>10 DEF Inv, Turns

\* Those that enter next are the first of the queue of the zones.
LEMMA NextFacts ==
    ASSUME zoneQueue \in Seq(Tasks)
    PROVE  \E n \in 0 .. Len(zoneQueue) :
             /\ NextToEnter \in Seq(Tasks) /\ Len(NextToEnter) = n
             /\ ToSet(NextToEnter) = {zoneQueue[i] : i \in 1 .. n}
             /\ SubSeq(zoneQueue, n + 1, Len(zoneQueue)) \in Seq(Tasks)
             /\ Len(SubSeq(zoneQueue, n + 1, Len(zoneQueue))) = Len(zoneQueue) - n
             /\ \A i \in 1 .. Len(zoneQueue) - n :
                   SubSeq(zoneQueue, n + 1, Len(zoneQueue))[i] = zoneQueue[n + i]
<1> DEFINE same == {n \in 0 .. Len(zoneQueue) :
                      \A i \in 1 .. n : Zone(zoneQueue[i]) = Zone(zoneQueue[1])}
           n == CHOOSE k \in same : \A m \in same : m <= k
<1>1. Len(zoneQueue) \in Nat /\ \A i \in 1 .. Len(zoneQueue) : zoneQueue[i] \in Tasks
  OBVIOUS
<1>2. 0 \in same /\ same \subseteq 0 .. Len(zoneQueue)
  BY <1>1
<1>3. \E k \in same : \A m \in same : m <= k
  <2> HIDE DEF same
  <2>1. QED
    BY <1>1, <1>2, GreatestOf
<1>4. n \in same
  <2> HIDE DEF same
  <2>1. QED
    BY <1>3
<1>5. n \in 0 .. Len(zoneQueue)
  BY <1>2, <1>4
<1>6. NextToEnter = SubSeq(zoneQueue, 1, n)
  BY Zenon DEF NextToEnter
<1> HIDE DEF n, same
<1>7. \A i \in 1 .. n : zoneQueue[i] \in Tasks
  BY <1>1, <1>5
<1>8. /\ NextToEnter \in Seq(Tasks) /\ Len(NextToEnter) = n
      /\ \A i \in 1 .. n : NextToEnter[i] = zoneQueue[i]
  BY <1>1, <1>5, <1>6
<1>9. ToSet(NextToEnter) = {zoneQueue[i] : i \in 1 .. n}
  <2>1. ToSet(NextToEnter) = {NextToEnter[i] : i \in 1 .. n}
    BY <1>8, ElementsAre
  <2>2. QED
    BY <1>8, <2>1
<1>10. /\ SubSeq(zoneQueue, n + 1, Len(zoneQueue)) \in Seq(Tasks)
       /\ Len(SubSeq(zoneQueue, n + 1, Len(zoneQueue))) = Len(zoneQueue) - n
       /\ \A i \in 1 .. Len(zoneQueue) - n :
             SubSeq(zoneQueue, n + 1, Len(zoneQueue))[i] = zoneQueue[n + i]
  BY <1>1, <1>5
<1>11. QED
  BY <1>5, <1>8, <1>9, <1>10

LEMMA LeaveZoneStep ==
    ASSUME Inv, NEW t \in Tasks, LeaveZone(t)
    PROVE  Inv'
<1> USE DEF memory, disk, limits, history
<1>1. TypeOK /\ OneBody /\ ZoneQueueFits /\ Data
  BY InvParts
<1>2. pc[t] = "settled" /\ UNCHANGED request /\ DataAlone /\ zoneQueue \in Seq(Tasks)
  BY <1>1 DEF LeaveZone, DataAlone, TypeOK
<1>3. CASE inZone = {t}
  <2>1. /\ Admit(NextToEnter, {t})
        /\ currentZone' = IF zoneQueue = <<>> THEN "none" ELSE Zone(zoneQueue[1])
        /\ zoneQueue' = SubSeq(zoneQueue, Len(NextToEnter) + 1, Len(zoneQueue))
    BY <1>3 DEF LeaveZone
  <2>2. PICK n \in 0 .. Len(zoneQueue) :
             /\ NextToEnter \in Seq(Tasks) /\ Len(NextToEnter) = n
             /\ ToSet(NextToEnter) = {zoneQueue[i] : i \in 1 .. n}
             /\ zoneQueue' \in Seq(Tasks) /\ Len(zoneQueue') = Len(zoneQueue) - n
             /\ \A i \in 1 .. Len(zoneQueue) - n : zoneQueue'[i] = zoneQueue[n + i]
    BY <1>2, <2>1, NextFacts
  <2>3. Len(zoneQueue) \in Nat /\ \A i \in 1 .. Len(zoneQueue) : zoneQueue[i] \in Tasks /\ pc[zoneQueue[i]] = "zoneQueued"
    BY <1>1, <1>2 DEF ZoneQueueFits
  <2>4. \A u \in ToSet(NextToEnter) : u \in Tasks /\ pc[u] = "zoneQueued" /\ OnQueue(u)
    <3>1. \A i \in 1 .. n : i \in 1 .. Len(zoneQueue)
      BY <2>3
    <3>2. QED
      BY <1>1, <2>2, <2>3, <3>1 DEF OneBody
  <2>5. Data'
    <3>1. \A u \in ToSet(NextToEnter) \cup {t} : pc[u] \in Quiet
      BY <1>2, <2>4 DEF Quiet
    <3>2. {t} \in SUBSET Tasks
      OBVIOUS
    <3>3. QED
      BY <1>1, <1>2, <2>1, <2>2, <3>1, <3>2, AdmitQuiet
  <2>6. {t} \in SUBSET Tasks
    OBVIOUS
  <2>7. OneBody'
    BY <1>1, <1>2, <2>1, <2>2, <2>4, <2>6, AdmitTurns
  <2>8. /\ pc' \in [Tasks -> Places] /\ inZone' \subseteq Tasks /\ queues' \in [ServiceIds -> Seq(Tasks)]
        /\ \A u \in Tasks : u # t /\ u \notin ToSet(NextToEnter) => pc'[u] = pc[u]
    BY <1>1, <2>1, <2>2, <2>6, AdmitFacts
  <2>9. ZoneQueueFits'
    <3>1. \A i \in 1 .. Len(zoneQueue') : /\ n + i \in 1 .. Len(zoneQueue) /\ n + i \notin 1 .. n
                                          /\ zoneQueue'[i] = zoneQueue[n + i]
      BY <2>2, <2>3
    <3>2. \A i, j \in 1 .. Len(zoneQueue') : zoneQueue'[i] = zoneQueue'[j] => i = j
      <4>1. ASSUME NEW i \in 1 .. Len(zoneQueue'), NEW j \in 1 .. Len(zoneQueue'),
                   zoneQueue'[i] = zoneQueue'[j]
            PROVE  i = j
        <5>1. n + i = n + j
          BY <1>1, <3>1, <4>1 DEF ZoneQueueFits
        <5>2. QED
          BY <2>2, <5>1
      <4>2. QED
        BY <4>1
    <3>3. ASSUME NEW i \in 1 .. Len(zoneQueue') PROVE pc'[zoneQueue'[i]] = "zoneQueued"
      <4>1. zoneQueue[n + i] \in Tasks /\ pc[zoneQueue[n + i]] = "zoneQueued"
        BY <2>3, <3>1
      <4>2. zoneQueue[n + i] \notin ToSet(NextToEnter)
        <5>1. \A k \in 1 .. n : k \in 1 .. Len(zoneQueue) /\ k # n + i
          BY <2>2, <2>3, <3>1
        <5>2. \A k \in 1 .. n : zoneQueue[k] # zoneQueue[n + i]
          BY <1>1, <3>1, <5>1 DEF ZoneQueueFits
        <5>3. QED
          BY <2>2, <5>2
      <4>3. QED
        BY <1>2, <2>8, <3>1, <4>1, <4>2
    <3>4. QED
      BY <3>2, <3>3 DEF ZoneQueueFits
  <2>10. currentZone' \in {"none", "global", "receiver"}
    BY <2>1 DEF Zone
  <2>11. TypeOK'
    BY <1>1, <2>2, <2>8, <2>10 DEF LeaveZone, TypeOK
  <2>12. QED
    BY <2>5, <2>7, <2>9, <2>11 DEF Inv, Turns
<1>4. CASE inZone # {t}
  <2>1. Admit(<<>>, {t}) /\ UNCHANGED <<currentZone, zoneQueue>>
    BY <1>4 DEF LeaveZone
  <2>2. <<>> \in Seq(Tasks) /\ ToSet(<<>>) = {} /\ {t} \in SUBSET Tasks
    BY DEF ToSet
  <2>3. Data'
    BY <1>1, <1>2, <2>1, <2>2, AdmitQuiet DEF Quiet
  <2>4. OneBody'
    BY <1>1, <1>2, <2>1, <2>2, AdmitTurns
  <2>5. /\ pc' \in [Tasks -> Places] /\ inZone' \subseteq Tasks /\ queues' \in [ServiceIds -> Seq(Tasks)]
        /\ \A u \in Tasks : u # t => pc'[u] = pc[u]
    BY <1>1, <2>1, <2>2, AdmitFacts
  <2>6. ZoneQueueFits'
    <3>1. \A u \in Tasks : pc[u] = "zoneQueued" => pc'[u] = "zoneQueued"
      BY <1>2, <2>5
    <3>2. QED
      BY <1>1, <2>1, <3>1, ZoneQueueStays
  <2>7. TypeOK'
    BY <1>1, <2>1, <2>5 DEF LeaveZone, TypeOK
  <2>8. QED
    BY <2>3, <2>4, <2>6, <2>7 DEF Inv, Turns
<1>5. QED
  BY <1>3, <1>4
-------------------------------------------------------------------------------
(* The theorems *)

\* A contact starts with a record, an old one, or a previous key, but with one of them.
LEMMA InitKeys ==
    ASSUME Init, NEW s \in ServiceIds
    PROVE  legacyCache[s] # NoRecord => prev[s] = NoKey
<1> DEFINE S == {i \in 1 .. 3 : <<cache[s].key, legacyCache[s].key, prev[s]>>[i] # NoKey}
<1>1. Cardinality(S) \in {0, 1}
  BY DEF Init
<1>2. ASSUME legacyCache[s] # NoRecord, prev[s] # NoKey PROVE FALSE
  <2>1. legacyCache[s].key # NoKey
    <3>1. legacyCache[s] \in FirstRecords \cup {NoRecord}
      BY DEF Init
    <3>2. QED
      BY <1>2, <3>1, RecordFacts
  <2>2. 2 \in S /\ 3 \in S
    BY <1>2, <2>1
  <2>3. IsFiniteSet(S)
    <3>1. S \in SUBSET (1 .. 3)
      OBVIOUS
    <3> HIDE DEF S
    <3>2. 1 \in Int /\ 3 \in Int
      OBVIOUS
    <3>3. IsFiniteSet(1 .. 3)
      BY <3>2, FS_Interval
    <3>4. QED
      BY <3>1, <3>3, FS_Subset
  <2> HIDE DEF S
  <2>4. CASE Cardinality(S) = 0
    BY <2>2, <2>3, <2>4, FS_EmptySet
  <2>5. CASE Cardinality(S) = 1
    <3>1. \E x : S = {x}
      BY <2>3, <2>5, FS_Singleton
    <3>2. QED
      BY <2>2, <3>1
  <2>6. QED
    BY <1>1, <2>4, <2>5
<1>3. QED
  BY <1>2

LEMMA InitInv == Init => Inv
<1> SUFFICES ASSUME Init PROVE Inv
  OBVIOUS
<1>1. \A s \in ServiceIds :
         /\ cache[s] \in FirstRecords \cup {NoRecord} /\ legacyCache[s] \in FirstRecords \cup {NoRecord}
         /\ cache[s] \in Records \cup {NoRecord} /\ legacyCache[s] \in Records \cup {NoRecord}
         /\ cache[s].verified = "default" /\ legacyCache[s].verified = "default"
         /\ cache[s].key \in Keys \cup {NoKey} /\ legacyCache[s].key \in Keys \cup {NoKey}
         /\ prev[s] \in Keys \cup {NoKey}
         /\ mark[s] = NoMark
         /\ told[s] = IF cache[s] # NoRecord THEN cache[s].key
                      ELSE IF legacyCache[s] # NoRecord THEN legacyCache[s].key ELSE prev[s]
         /\ legacyCache[s] # NoRecord => prev[s] = NoKey
  <2>1. ASSUME NEW s \in ServiceIds
        PROVE  cache[s] \in FirstRecords \cup {NoRecord} /\ legacyCache[s] \in FirstRecords \cup {NoRecord}
               /\ prev[s] \in Keys \cup {NoKey} /\ mark[s] = NoMark
    BY DEF Init
  <2>2. ASSUME NEW r \in FirstRecords \cup {NoRecord}
        PROVE  r \in Records \cup {NoRecord} /\ r.verified = "default" /\ r.key \in Keys \cup {NoKey}
    BY RecordFacts
  <2>3. \A s \in ServiceIds :
           told[s] = IF cache[s] # NoRecord THEN cache[s].key
                     ELSE IF legacyCache[s] # NoRecord THEN legacyCache[s].key ELSE prev[s]
    BY DEF Init
  <2>4. QED
    BY <2>1, <2>2, <2>3, InitKeys
<1>2. NoMark \in Marks /\ NoMark.status = "default"
  BY DEF NoMark, Marks, Statuses
<1>3. /\ pc = [t \in Tasks |-> "idle"] /\ calls = <<>> /\ zoneQueue = <<>> /\ db = cache
      /\ legacyDb = legacyCache /\ removed = {} /\ cut = {}
  BY DEF Init
<1>4. TypeOK
  <2>1. currentZone \in {"none", "global", "receiver"} /\ inZone \subseteq Tasks
        /\ zoneQueue \in Seq(Tasks) /\ queues \in [ServiceIds -> Seq(Tasks)]
        /\ pc \in [Tasks -> Places]
    BY DEF Init, Places
  <2>2. request \in [Tasks -> Requests] /\ seen \in [Tasks -> Records \cup {NoRecord}]
    BY DEF Init
  <2>3. /\ cache \in [ServiceIds -> Records \cup {NoRecord}]
        /\ legacyCache \in [ServiceIds -> Records \cup {NoRecord}]
    <3>1. /\ cache \in [ServiceIds -> FirstRecords \cup {NoRecord}]
          /\ legacyCache \in [ServiceIds -> FirstRecords \cup {NoRecord}]
      BY DEF Init
    <3>2. QED
      BY <3>1, RecordFacts
  <2>4. prev \in [ServiceIds -> Keys \cup {NoKey}] /\ mark \in [ServiceIds -> Marks]
    BY <1>2 DEF Init
  <2>5. told \in [ServiceIds -> Keys \cup {NoKey}]
    <3>1. \A s \in ServiceIds : told[s] \in Keys \cup {NoKey}
      BY <1>1
    <3>2. told = [s \in ServiceIds |-> told[s]]
      BY DEF Init
    <3>3. QED
      BY <3>1, <3>2
  <2>6. calls \in Seq(Calls) /\ failures \in 0 .. MaxFailures /\ restarts \in 0 .. MaxRestarts
    BY BoundsAssumption DEF Init
  <2>7. QED
    BY <1>3, <2>1, <2>2, <2>3, <2>4, <2>5, <2>6 DEF TypeOK
<1>5. (\A i \in 1 .. Len(calls) : FALSE) /\ (\A i \in 1 .. Len(zoneQueue) : FALSE) /\ Pending = {}
  BY <1>3 DEF Pending, ToSet
<1>6. \A t \in Tasks : pc[t] = "idle"
  BY <1>3
<1>7. Turns
  BY <1>5, <1>6 DEF Turns, OneBody, ZoneQueueFits, InBodyPlaces
<1>8. CallsFit /\ MigrationsFirst
  BY <1>5, <1>6 DEF CallsFit, MigrationsFirst
<1>9. MigrationsAgree /\ BodyHasRecord
  BY <1>6 DEF MigrationsAgree, BodyHasRecord
<1>10. \A s \in Kept : s \in ServiceIds
  BY DEF Kept
<1>11. TablesAgree
  BY <1>1, <1>3, <1>5, <1>10, ApprovalRelates DEF TablesAgree
<1>12. KnownKeys
  BY <1>1, <1>6, <1>10 DEF KnownKeys
<1>13. RecordsShow
  BY <1>1, <1>2, <1>3, <1>5, <1>10 DEF RecordsShow, Shows
<1>14. QED
  BY <1>4, <1>7, <1>8, <1>9, <1>11, <1>12, <1>13 DEF Inv, Data

LEMMA UnchangedInv == Inv /\ UNCHANGED vars => Inv'
<1> SUFFICES ASSUME Inv, UNCHANGED vars PROVE Inv'
  OBVIOUS
<1> USE DEF vars, zones, memory, disk, limits, history
<1>1. TypeOK /\ OneBody /\ ZoneQueueFits /\ Data
  BY InvParts
<1>2. DataAlone /\ UNCHANGED <<pc, zoneQueue, queues, request>>
  BY DEF DataAlone
<1>3. Data'
  BY <1>1, <1>2, QuietData
<1>4. OneBody'
  BY <1>1, <1>2 DEF OneBody, First, OnQueue, Sid
<1>5. ZoneQueueFits'
  BY <1>1, <1>2 DEF ZoneQueueFits
<1>6. TypeOK'
  BY <1>1 DEF TypeOK
<1>7. QED
  BY <1>3, <1>4, <1>5, <1>6 DEF Inv, Turns

LEMMA InvStep == Inv /\ [Next]_vars => Inv'
<1> SUFFICES ASSUME Inv, [Next]_vars PROVE Inv'
  OBVIOUS
<1>1. CASE UNCHANGED vars
  BY <1>1, UnchangedInv
<1>2. ASSUME NEW t \in Tasks, Goes(t) PROVE Inv'
  BY <1>2, EnterZoneStep, AskNestedStep, LeaveZoneStep, MigrateStep, ReadStep, SaveNewStep,
     SaveChangedStep, SaveSameStep, ApproveStep, VerifyStep, SyncStep, RemoveKeyStep,
     WriteAnsweredStep, MigrationAnsweredStep, RemovalAnsweredStep, ArchiveStep DEF Goes
<1>3. ASSUME NEW t \in Tasks, CallFails(t) PROVE Inv'
  BY <1>3, CallFailsStep
<1>4. CASE Crash
  BY <1>4, RestartStep DEF Crash
<1>5. QED
  BY <1>1, <1>2, <1>3, <1>4 DEF Next

\* What the bodies, migrations and calls about one service id may be at the same time.
THEOREM InvHolds == Spec => []Inv
BY InitInv, InvStep, PTL DEF Spec

\* The variables have their types.
THEOREM TypeCorrect == Spec => []TypeOK
<1>1. Inv => TypeOK
  BY DEF Inv
<1>2. QED
  BY <1>1, InvHolds, PTL

\* _runOnIdentityQueue: the record that a body has read is the record when it writes, so
\* that it overwrites no update, whatever else is migrated, loaded or answered meanwhile.
THEOREM NoUpdateIsLost == Spec => []NoLostUpdate
<1>1. Inv => NoLostUpdate
  BY DEF Inv, Turns, Data, OneBody, BodyHasRecord, NoLostUpdate
<1>2. QED
  BY <1>1, InvHolds, PTL

\* The cache of identity keys follows its table: with no call in flight they differ at
\* most by an approval whose write failed.
THEOREM CacheFollows == Spec => []CacheMatchesDb
<1>1. Inv => CacheMatchesDb
  <2> SUFFICES ASSUME Inv, NEW s \in Kept, \A i \in DOMAIN calls : calls[i].sid # s
               PROVE  SameButApproval(cache[s], db[s]) /\ (failures = 0 => cache[s] = db[s])
    BY DEF CacheMatchesDb
  <2>1. \A c \in Pending : c.sid # s
    BY DEF Pending, ToSet
  <2>2. QED
    BY <2>1 DEF Inv, Data, TablesAgree
<1>2. QED
  BY <1>1, InvHolds, PTL

\* The keychange event: the store holds no key that the user was not told of, however it
\* came, unless the process stopped between a write and its announcement.
THEOREM ChangesAreTold == Spec => []KeyChangesAreTold
<1>1. Inv => KeyChangesAreTold
  BY DEF Inv, Data, KnownKeys, KeyChangesAreTold
<1>2. QED
  BY <1>1, InvHolds, PTL

\* A contact is verified with the very key that was verified; a verification that a new
\* key ends does not look as if there had been none.
THEOREM VerificationsShow == Spec => []VerificationShows
<1>1. Inv => VerificationShows
  <2> SUFFICES ASSUME Inv, NEW s \in Kept, db[s] # NoRecord PROVE Shows(db[s], mark[s])
    BY DEF VerificationShows, Shows
  <2>1. QED
    BY DEF Inv, Data, RecordsShow
<1>2. QED
  BY <1>1, InvHolds, PTL

\* The old record of a contact is removed after the new one is written.
LEMMA RowsStay ==
    ASSUME Inv, NEW n \in 0 .. Len(calls), Execute(n), NEW s \in Kept, HasRow(s)
    PROVE  HasRow(s)'
<1>1. s \in ServiceIds /\ \A c \in Pending : c.sid = s => c.op # "remove"
  BY DEF Inv, Data, CallsFit, CallFits, Kept
<1>2. /\ \/ legacyDb'[s] = legacyDb[s]
         \/ legacyDb'[s] = NoRecord /\ \E c \in Pending : c.sid = s /\ c.op = "removeLegacy"
      /\ \/ db'[s] = db[s]
         \/ \E c \in Pending : c.sid = s /\ c.op = "write" /\ db'[s] = c.record
  BY <1>1, InvParts, ExecuteFacts, PendingFacts DEF Data
<1>3. \A c \in Pending : c.op = "write" => c.record # NoRecord
  BY RecordFacts DEF Inv, Data, CallsFit, CallFits
<1>4. (\E c \in Pending : c.sid = s /\ c.op = "removeLegacy") => db[s] # NoRecord
  BY DEF Inv, Data, TablesAgree
<1>5. QED
  BY <1>2, <1>3, <1>4 DEF HasRow

\* A migration, with its crashes and failures, leaves every contact a record.
THEOREM MigrationKeepsRecords == Spec => IdentitySurvives
<1>1. ASSUME Inv, [Next]_vars PROVE [\A s \in Kept' : HasRow(s) => HasRow(s)']_vars
  <2>1. \A s \in Kept' : s \in Kept
    <3>1. removed \subseteq removed'
      BY <1>1 DEF Next, Goes, Crash, vars, zones, memory, disk, limits, history, EnterZone, AskNested,
         LeaveZone, Migrate, Read, SaveNew, SaveChanged, SaveSame, Approve, Verify, Sync, RemoveKey,
         WriteAnswered, MigrationAnswered, RemovalAnswered, Archive, CallFails, Restart, BodyLeavesAlone
    <3>2. QED
      BY <3>1 DEF Kept
  <2>2. UNCHANGED <<db, legacyDb>> \/ \E n \in 0 .. Len(calls) : Execute(n)
    <3>1. ASSUME calls # <<>> PROVE 1 \in 0 .. Len(calls)
      BY <1>1, <3>1, TailFacts DEF Inv, TypeOK
    <3>2. QED
      BY <1>1, <3>1 DEF Next, Goes, Crash, vars, zones, memory, disk, limits, history, EnterZone, AskNested,
         LeaveZone, Migrate, Read, SaveNew, SaveChanged, SaveSame, Approve, Verify, Sync, RemoveKey,
         WriteAnswered, MigrationAnswered, RemovalAnswered, Archive, CallFails, Restart, BodyLeavesAlone
  <2>3. CASE UNCHANGED <<db, legacyDb>>
    BY <2>3 DEF HasRow
  <2>4. CASE \E n \in 0 .. Len(calls) : Execute(n)
    BY <1>1, <2>1, <2>4, RowsStay
  <2>5. QED
    BY <2>2, <2>3, <2>4
<1>2. QED
  BY <1>1, InvHolds, PTL DEF Spec, IdentitySurvives
===============================================================================
