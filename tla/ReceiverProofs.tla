---------------------------- MODULE ReceiverProofs ----------------------------
(***************************************************************************)
(* For any envelopes, batches, attempts, connections and faults: the       *)
(* variables of Receiver keep their types, no envelope is lost but for     *)
(* receipts whose events are, and envelopes reach the application in       *)
(* order, but for receipts that overtake messages.                         *)
(*                                                                         *)
(* The argument follows a copy.  Until its decryption is committed it is   *)
(* in one place, once, and its row is not a decrypted one, unless its row  *)
(* was queued while it was there (`doubled`).  So a batch saves what it    *)
(* decrypted, and does not save a failure over it; a message key is only   *)
(* spent together with the row of what it decrypted; and what is removed   *)
(* from the cache is over, or is a row that another copy has replaced.     *)
(* A receipt that was dispatched has no row to follow; it has its event,   *)
(* and no key, so that nothing but another receipt is ahead of it.         *)
(***************************************************************************)
EXTENDS Receiver, FiniteSetTheorems, SequenceTheorems, TLAPS

\* The copies that there are, and what is kept and passed on of them.
Arrived == 1 .. Len(arrivals)
ItemOf(arrived) == [copy : arrived, attempts : Nat, conn : 0 .. MaxConnections]
FoundRow(arrived) == [copy : arrived, plain : BOOLEAN, attempts : Nat]
FailedOf(arrived) == UNION {[copies -> Nat] : copies \in SUBSET arrived}
IncomingTask ==
    [op : {"request"}, n : Envelopes, conn : 1 .. MaxConnections]
    \cup [op : {"fetch", "empty", "idle"}, n : {0}]
EncryptedTask(arrived) ==
    [op : {"decrypt"}, item : ItemOf(arrived)]
    \cup [op : {"cached"}, n : arrived] \cup [op : {"empty"}, n : {0}]
DecryptedTask(arrived) ==
    [op : {"event", "error"}, n : arrived] \cup [op : {"schedule", "empty"}, n : {0}]
AppTask(arrived) == [op : {"event"}, n : arrived] \cup [op : {"empty"}, n : {0}]
-------------------------------------------------------------------------------
(* The types, as far as the proofs need them. *)

NetShape ==
    /\ server \in SUBSET Envelopes /\ sent \in SUBSET Envelopes
    /\ connection \in 1 .. MaxConnections /\ emptySent \in BOOLEAN
DiskShape ==
    /\ arrivals \in Seq(Envelopes)
    /\ db \in [DOMAIN db -> Row] /\ DOMAIN db \in SUBSET Arrived
    /\ used \in SUBSET Envelopes
FlagShape ==
    /\ emptied \in BOOLEAN /\ idleWait \in BOOLEAN
    /\ timer \in BOOLEAN /\ stopping \in BOOLEAN
    /\ faults \in [errors : Nat, failures : Nat] /\ Faults <= MaxFaults

\* A fetch stays the first task of incomingQueue until all that it found is queued.
IncomingShape ==
    /\ incoming \in Seq(IncomingTask)
    /\ Len(arrivals) + Cardinality(Requests) <= MaxArrivals
    /\ found.phase # "idle" => incoming # <<>> /\ Head(incoming).op = "fetch"
FoundShape ==
    /\ found \in [phase : {"idle", "ids", "rows"}, ids : SUBSET Arrived,
                  rows : Seq(FoundRow(Arrived))]
    /\ found.phase = "rows" => found.rows # <<>>
ItemsShape ==
    /\ items \in Seq(ItemOf(Arrived)) /\ Len(items) < BatchSize
    /\ waiting \in Seq(Seq(ItemOf(Arrived)))
    /\ \A i \in DOMAIN waiting : Len(waiting[i]) \in 1 .. BatchSize
QueueShape ==
    /\ encrypted \in Seq(EncryptedTask(Arrived))
    /\ decrypted \in Seq(DecryptedTask(Arrived))
    /\ app \in Seq(AppTask(Arrived))
    /\ errors \in SUBSET Arrived /\ removing \in SUBSET Arrived
BatchShape ==
    /\ zone \in {"free", "open", "saved", "stuck"}
    /\ batch \in [left : 0 .. BatchSize, items : SUBSET ItemOf(Arrived),
                  ok : Seq(ItemOf(Arrived)),
                  failed : FailedOf(Arrived), uses : SUBSET Envelopes]
    /\ zone \in {"free", "stuck"} => batch = NoBatch

\* The decrypt tasks of encryptedQueue are those of the batch in the zone, one after
\* the other, as many as it still waits for.
Block ==
    /\ \E a \in Nat :
        /\ a + batch.left <= Len(encrypted)
        /\ \A i \in DOMAIN encrypted :
            (encrypted[i].op = "decrypt") <=> (a < i /\ i <= a + batch.left)
    /\ zone = "saved" => batch.left = 0

Shapes ==
    /\ NetShape /\ DiskShape /\ FlagShape
    /\ IncomingShape /\ FoundShape /\ ItemsShape /\ QueueShape /\ BatchShape /\ Block
-------------------------------------------------------------------------------
(* One place for each copy. *)

\* The copies in a sequence of batches, and that each is there once, but for some.
CopiesOf(batches) ==
    UNION {{batches[i][k].copy : k \in DOMAIN batches[i]} : i \in DOMAIN batches}
OnceIn(batches, except) ==
    \A i, j \in DOMAIN batches : \A k \in DOMAIN batches[i], l \in DOMAIN batches[j] :
        batches[i][k].copy = batches[j][l].copy /\ (i # j \/ k # l)
        => batches[i][k].copy \in except

\* The batches that wait, and the one that is being filled.
Batches == Append(waiting, items)
InBatches == CopiesOf(Batches)

InEncrypted == {encrypted[i].item.copy : i \in Tasks}

InFailed == DOMAIN batch.failed

\* The copies of envelopes that were queued twice are left out of all this.
Twice == {c \in Arrived : Env(c) \in doubled}

OnceInBatches == OnceIn(Batches, Twice)
OnceInEncrypted ==
    \A i, k \in Tasks :
        encrypted[i].item.copy = encrypted[k].item.copy /\ i # k
        => encrypted[i].item.copy \in Twice
Apart ==
    /\ InBatches \cap InEncrypted \subseteq Twice
    /\ InBatches \cap (InOk \cup InFailed) \subseteq Twice
    /\ InEncrypted \cap (InOk \cup InFailed) \subseteq Twice
    /\ InOk \cap InFailed \subseteq Twice
Once == OnceInBatches /\ OnceInEncrypted /\ Apart

Plain == {c \in DOMAIN db : db[c].plain}

\* What is to be decrypted, or failed, is not stored as decrypted.
PendingIsNotPlain ==
    (InBatches \cup InEncrypted \cup InFailed) \cap Plain \subseteq Twice

Orderly == Once /\ PendingIsNotPlain
-------------------------------------------------------------------------------
(* What is stored. *)

\* What nothing need be stored of: it is over, its rows were spoilt, or it is a receipt that
\* was given to the application.
Excepted == ended \cup doubled \cup outlived \cup (Receipts \cap dispatched)
Stored(e) == \E c \in DOMAIN db : Env(c) = e
Decrypted(e) == \E c \in Plain : Env(c) = e

\* What the server no longer has is stored ...
Kept == \A e \in Envelopes \ (server \cup Excepted) : Stored(e)

\* ... and what was decrypted, as such.
SpentIsPlain == \A e \in used \ Excepted : Decrypted(e)

\* The message keys a batch uses are those of what it has decrypted.
UsesAreOk ==
    /\ \A e \in batch.uses \ Excepted : \E c \in InOk : Env(c) = e
    /\ \A c \in InOk : Env(c) \in batch.uses
    /\ zone = "saved" => batch.uses \subseteq used

\* Every item of a batch is waited for, decrypted, failed or over; once it is saved,
\* it is stored.
ItemsAreKept ==
    \A item \in batch.items :
        /\ zone = "open" => \/ Env(item.copy) \in Excepted
                            \/ item.copy \in InEncrypted \cup InOk \cup InFailed
        /\ zone = "saved" => \/ Env(item.copy) \in Excepted
                             \/ Stored(Env(item.copy))

\* What is removed is over, or is not the row of what its message key decrypted.
RemovedIsOver ==
    zone # "stuck" =>
        \A c \in removing :
            \/ Env(c) \in Excepted
            \/ Env(c) \in Spent /\ c \notin Plain /\ c \notin InOk

Safety ==
    /\ Kept /\ SpentIsPlain /\ UsesAreOk /\ ItemsAreKept /\ RemovedIsOver

Inv == Shapes /\ Orderly /\ Safety
-------------------------------------------------------------------------------
(* Sequences *)

LEMMA AppendFacts ==
    ASSUME NEW S, NEW s \in Seq(S), NEW e \in S
    PROVE  /\ Len(s) \in Nat /\ DOMAIN s = 1 .. Len(s)
           /\ Append(s, e) \in Seq(S)
           /\ Append(s, e) # <<>>
           /\ s # <<>> => Head(Append(s, e)) = Head(s)
           /\ Len(Append(s, e)) = Len(s) + 1
           /\ DOMAIN Append(s, e) = 1 .. Len(s) + 1
           /\ \A i \in 1 .. Len(s) : Append(s, e)[i] = s[i]
           /\ Append(s, e)[Len(s) + 1] = e
OBVIOUS

\* The tail of a sequence, element by element.
LEMMA TailFacts ==
    ASSUME NEW S, NEW s \in Seq(S), s # <<>>
    PROVE  /\ Len(s) \in Nat /\ Len(s) >= 1 /\ DOMAIN s = 1 .. Len(s)
           /\ Head(s) = s[1] /\ Head(s) \in S
           /\ Tail(s) \in Seq(S)
           /\ Len(Tail(s)) = Len(s) - 1
           /\ DOMAIN Tail(s) = 1 .. Len(s) - 1
           /\ \A i \in 1 .. Len(s) - 1 : Tail(s)[i] = s[i + 1]
OBVIOUS

\* A concatenation, element by element.
LEMMA ConcatFacts ==
    ASSUME NEW S, NEW s \in Seq(S), NEW t \in Seq(S)
    PROVE  /\ Len(s) \in Nat /\ Len(t) \in Nat
           /\ s \o t \in Seq(S)
           /\ Len(s \o t) = Len(s) + Len(t)
           /\ DOMAIN (s \o t) = 1 .. Len(s) + Len(t)
           /\ \A i \in 1 .. Len(s) : (s \o t)[i] = s[i]
           /\ \A i \in 1 .. Len(s) + Len(t) :
                 i > Len(s) => i - Len(s) \in 1 .. Len(t) /\ (s \o t)[i] = t[i - Len(s)]
<1>1. /\ Len(s) \in Nat /\ Len(t) \in Nat
      /\ s \o t \in Seq(S)
      /\ Len(s \o t) = Len(s) + Len(t)
  BY LenProperties, ConcatProperties
<1>2. \A i \in 1 .. Len(s) : (s \o t)[i] = s[i]
  BY <1>1, ConcatProperties
<1>3. ASSUME NEW i \in 1 .. Len(s) + Len(t), i > Len(s)
      PROVE  i - Len(s) \in 1 .. Len(t) /\ (s \o t)[i] = t[i - Len(s)]
  BY <1>1, <1>3, ConcatProperties
<1>4. QED
  BY <1>1, <1>2, <1>3

LEMMA TailOfAppend ==
    ASSUME NEW S, NEW s \in Seq(S), s # <<>>, NEW e \in S
    PROVE  /\ Append(s, e) \in Seq(S) /\ Append(s, e) # <<>> /\ Append(s, e)[1] = Head(s)
           /\ Tail(Append(s, e)) = Append(Tail(s), e)
<1> PICK p, q : p = Tail(Append(s, e)) /\ q = Append(Tail(s), e)
  OBVIOUS
<1>1. Append(s, e) \in Seq(S) /\ Append(s, e) # <<>> /\ Append(s, e)[1] = Head(s)
  OBVIOUS
<1>2. p \in Seq(S) /\ q \in Seq(S) /\ Len(p) = Len(s) /\ Len(q) = Len(s)
  OBVIOUS
<1>3. \A i \in 1 .. Len(s) : p[i] = q[i]
  OBVIOUS
<1>4. p = q
  BY <1>2, <1>3, SeqEqual
<1>5. QED
  BY <1>1, <1>4

LEMMA FunctionIsSeq ==
    ASSUME NEW S, NEW n \in Nat, NEW f \in [1 .. n -> S]
    PROVE  f \in Seq(S)
OBVIOUS

\* The requests among the tasks of a queue.
RequestsIn(q) == {i \in DOMAIN q : q[i].op = "request"}

LEMMA RequestsAreFinite ==
    ASSUME NEW q \in Seq(IncomingTask)
    PROVE  IsFiniteSet(RequestsIn(q)) /\ Cardinality(RequestsIn(q)) \in Nat
<1>1. RequestsIn(q) \in SUBSET (1 .. Len(q)) /\ 1 \in Int /\ Len(q) \in Int
  BY DEF RequestsIn
<1>2. IsFiniteSet(1 .. Len(q))
  BY <1>1, FS_Interval
<1>3. QED
  BY <1>1, <1>2, FS_Subset, FS_CardinalityType

\* A task that comes in is counted when it is a request.
LEMMA RequestsAppended ==
    ASSUME NEW q \in Seq(IncomingTask), NEW t \in IncomingTask
    PROVE  Cardinality(RequestsIn(Append(q, t))) =
               Cardinality(RequestsIn(q)) + (IF t.op = "request" THEN 1 ELSE 0)
<1> DEFINE n == Len(q) + 1
           p == Append(q, t)
<1>1. /\ n \notin RequestsIn(q)
      /\ DOMAIN p = 1 .. n /\ DOMAIN q = 1 .. Len(q) /\ Len(q) \in Nat
      /\ \A i \in 1 .. Len(q) : p[i] = q[i]
      /\ p[n] = t
  BY AppendFacts DEF RequestsIn
<1> HIDE DEF p
<1>2. CASE t.op = "request"
  <2>1. RequestsIn(p) = RequestsIn(q) \cup {n}
    BY <1>1, <1>2 DEF RequestsIn
  <2> HIDE DEF n
  <2>2. QED
    BY <1>1, <1>2, <2>1, RequestsAreFinite, FS_AddElement DEF p
<1>3. CASE t.op # "request"
  <2>1. RequestsIn(p) = RequestsIn(q)
    BY <1>1, <1>3 DEF RequestsIn
  <2>2. QED
    BY <1>3, <2>1, RequestsAreFinite DEF p
<1>4. QED
  BY <1>2, <1>3

\* A task that is done no longer is.
LEMMA RequestsShifted ==
    ASSUME NEW q \in Seq(IncomingTask), q # <<>>
    PROVE  Cardinality(RequestsIn(q)) =
               Cardinality(RequestsIn(Tail(q))) + (IF Head(q).op = "request" THEN 1 ELSE 0)
<1> DEFINE p == Tail(q)
           rest == RequestsIn(q) \ {1}
           f == [i \in RequestsIn(p) |-> i + 1]
<1>1. /\ Len(q) \in Nat /\ Len(q) >= 1 /\ DOMAIN q = 1 .. Len(q)
      /\ Head(q) = q[1]
      /\ p \in Seq(IncomingTask)
      /\ DOMAIN p = 1 .. Len(q) - 1
      /\ \A i \in 1 .. Len(q) - 1 : p[i] = q[i + 1]
  BY TailFacts
<1> HIDE DEF p
<1>2. \A i \in RequestsIn(p) : i \in Int /\ i + 1 \in rest
  BY <1>1 DEF RequestsIn
<1>3. \A k \in rest : k \in Int /\ k - 1 \in RequestsIn(p) /\ (k - 1) + 1 = k
  BY <1>1 DEF RequestsIn
<1>4. f \in Bijection(RequestsIn(p), rest)
  <2>1. f \in [RequestsIn(p) -> rest]
    BY <1>2
  <2>2. \A i, k \in RequestsIn(p) : f[i] = f[k] => i = k
    BY <1>2
  <2>3. \A k \in rest : \E i \in RequestsIn(p) : f[i] = k
    BY <1>3
  <2>4. QED
    BY <2>1, <2>2, <2>3 DEF Bijection, Injection, Surjection, IsInjective
<1>5. Cardinality(rest) = Cardinality(RequestsIn(p))
  <2>1. ExistsBijection(RequestsIn(p), rest)
    BY <1>4 DEF ExistsBijection
  <2>2. IsFiniteSet(RequestsIn(p))
    BY <1>1, RequestsAreFinite
  <2>3. QED
    BY <2>1, <2>2, FS_Bijection
<1>6. CASE Head(q).op = "request"
  <2>1. 1 \in RequestsIn(q)
    BY <1>1, <1>6 DEF RequestsIn
  <2>2. Cardinality(rest) = Cardinality(RequestsIn(q)) - 1 /\ Cardinality(RequestsIn(q)) \in Nat
    BY <2>1, RequestsAreFinite, FS_RemoveElement
  <2>3. QED
    BY <1>5, <1>6, <2>2 DEF p
<1>7. CASE Head(q).op # "request"
  <2>1. rest = RequestsIn(q)
    BY <1>1, <1>7 DEF RequestsIn
  <2>2. Cardinality(RequestsIn(q)) \in Nat
    BY RequestsAreFinite
  <2>3. Cardinality(RequestsIn(q)) = Cardinality(RequestsIn(p))
    BY <1>5, <2>1
  <2> HIDE DEF rest, f
  <2>4. QED
    BY <1>7, <2>2, <2>3 DEF p
<1>8. QED
  BY <1>6, <1>7
-------------------------------------------------------------------------------
(* What a step leaves alone *)

LEMMA SameShapes ==
    /\ NetShape /\ UNCHANGED <<server, sent, connection, emptySent>> => NetShape'
    /\ DiskShape /\ UNCHANGED <<arrivals, db, used>> => DiskShape'
    /\ FlagShape /\ UNCHANGED <<emptied, idleWait, timer, stopping, faults>> => FlagShape'
    /\ IncomingShape /\ UNCHANGED <<incoming, found, arrivals>> => IncomingShape'
    /\ FoundShape /\ UNCHANGED <<found, arrivals>> => FoundShape'
    /\ ItemsShape /\ UNCHANGED <<items, waiting, arrivals>> => ItemsShape'
    /\ QueueShape /\ UNCHANGED <<encrypted, decrypted, app, errors, removing, arrivals>>
            => QueueShape'
    /\ BatchShape /\ UNCHANGED <<zone, batch, arrivals>> => BatchShape'
    /\ Block /\ UNCHANGED <<encrypted, batch, zone>> => Block'
<1>1. NetShape /\ UNCHANGED <<server, sent, connection, emptySent>> => NetShape'
  BY DEF NetShape
<1>2. DiskShape /\ UNCHANGED <<arrivals, db, used>> => DiskShape'
  BY DEF DiskShape, Arrived, Row
<1>3. FlagShape /\ UNCHANGED <<emptied, idleWait, timer, stopping, faults>> => FlagShape'
  BY DEF FlagShape, Faults
<1>4. IncomingShape /\ UNCHANGED <<incoming, found, arrivals>> => IncomingShape'
  BY DEF IncomingShape, Requests
<1>5. FoundShape /\ UNCHANGED <<found, arrivals>> => FoundShape'
  BY DEF FoundShape, Arrived
<1>6. ItemsShape /\ UNCHANGED <<items, waiting, arrivals>> => ItemsShape'
  BY DEF ItemsShape, Arrived
<1>7. QueueShape /\ UNCHANGED <<encrypted, decrypted, app, errors, removing, arrivals>>
            => QueueShape'
  BY DEF QueueShape, Arrived
<1>8. BatchShape /\ UNCHANGED <<zone, batch, arrivals>> => BatchShape'
  BY DEF BatchShape, Arrived
<1>9. Block /\ UNCHANGED <<encrypted, batch, zone>> => Block'
  BY DEF Block
<1>10. QED
  BY <1>1, <1>2, <1>3, <1>4, <1>5, <1>6, <1>7, <1>8, <1>9

\* A task that goes to incomingQueue and is no request.
LEMMA IncomingAppended ==
    ASSUME IncomingShape, UNCHANGED <<found, arrivals>>,
           NEW op \in {"fetch", "empty", "idle"}, incoming' = Append(incoming, Task(op, 0)),
           DiskShape
    PROVE  IncomingShape'
<1> PICK t : t = Task(op, 0)
  OBVIOUS
<1>1. t \in IncomingTask /\ t.op # "request"
  BY DEF IncomingTask, Task
<1>2. /\ incoming' \in Seq(IncomingTask)
      /\ incoming' # <<>>
      /\ incoming # <<>> => Head(incoming') = Head(incoming)
  BY <1>1, AppendFacts DEF IncomingShape
<1>3. Cardinality(Requests') = Cardinality(Requests)
  <2>1. incoming \in Seq(IncomingTask)
    BY DEF IncomingShape
  <2>2. Cardinality(RequestsIn(incoming')) = Cardinality(RequestsIn(incoming)) + 0
    BY <1>1, <2>1, RequestsAppended
  <2>3. Cardinality(RequestsIn(incoming)) \in Nat
    BY <2>1, RequestsAreFinite
  <2>4. Requests' = RequestsIn(incoming') /\ Requests = RequestsIn(incoming)
    BY DEF RequestsIn, Requests
  <2>5. QED
    BY <2>2, <2>3, <2>4
<1>4. QED
  BY <1>2, <1>3 DEF IncomingShape

\* A task of incomingQueue is done: nothing is being fetched, or the fetch is over.
LEMMA IncomingShifted ==
    ASSUME IncomingShape, UNCHANGED arrivals, incoming # <<>>, Head(incoming).op # "request",
           incoming' = Tail(incoming), found'.phase = "idle"
    PROVE  IncomingShape'
<1>1. incoming' \in Seq(IncomingTask)
  BY TailFacts DEF IncomingShape
<1>2. Cardinality(Requests') = Cardinality(Requests)
  <2>1. incoming \in Seq(IncomingTask)
    BY DEF IncomingShape
  <2>2. Cardinality(RequestsIn(incoming)) = Cardinality(RequestsIn(incoming')) + 0
    BY <2>1, RequestsShifted
  <2>3. Cardinality(RequestsIn(incoming')) \in Nat
    BY <1>1, RequestsAreFinite
  <2>4. Requests' = RequestsIn(incoming') /\ Requests = RequestsIn(incoming)
    BY DEF RequestsIn, Requests
  <2>5. QED
    BY <2>2, <2>3, <2>4
<1>3. QED
  BY <1>1, <1>2 DEF IncomingShape
-------------------------------------------------------------------------------
(* The types: the server and incomingQueue *)

USE DEF net, disk, pipeline, batching, flags, history

LEMMA DeliverShapes ==
    ASSUME Shapes, Deliver
    PROVE  Shapes'
<1> PICK e \in server \ sent :
        /\ sent' = sent \cup {e}
        /\ incoming' = Append(incoming, [op |-> "request", n |-> e, conn |-> connection])
  BY DEF Deliver
<1> PICK t : t = [op |-> "request", n |-> e, conn |-> connection]
  OBVIOUS
<1>1. t \in IncomingTask /\ t.op = "request"
  BY DEF IncomingTask, Shapes, NetShape
<1>2. NetShape'
  BY DEF Deliver, Shapes, NetShape
<1>3. IncomingShape'
  <2>1. incoming \in Seq(IncomingTask)
    BY DEF Shapes, IncomingShape
  <2>2. /\ incoming' \in Seq(IncomingTask)
        /\ incoming' # <<>>
        /\ incoming # <<>> => Head(incoming') = Head(incoming)
    BY <1>1, <2>1, AppendFacts
  <2>3. Cardinality(RequestsIn(incoming')) = Cardinality(RequestsIn(incoming)) + 1
    BY <1>1, <2>1, RequestsAppended
  <2>4. Cardinality(RequestsIn(incoming)) \in Nat
    BY <2>1, RequestsAreFinite
  <2>5. Requests' = RequestsIn(incoming') /\ Requests = RequestsIn(incoming)
    BY DEF RequestsIn, Requests
  <2>6. Len(arrivals) \in Nat /\ MaxArrivals \in Nat
    BY LimitsAssumption DEF Shapes, DiskShape
  <2>7. Len(arrivals') + Cardinality(Requests') <= MaxArrivals
    BY <2>3, <2>4, <2>5, <2>6 DEF Deliver
  <2>8. QED
    BY <2>2, <2>7 DEF Deliver, Shapes, IncomingShape
<1>4. QED
  BY <1>2, <1>3, SameShapes DEF Deliver, Shapes

LEMMA SayEmptyShapes ==
    ASSUME Shapes, SayEmpty
    PROVE  Shapes'
<1>1. NetShape'
  BY DEF SayEmpty, Shapes, NetShape
<1>2. IncomingShape'
  BY IncomingAppended DEF SayEmpty, Shapes
<1>3. QED
  BY <1>1, <1>2, SameShapes DEF SayEmpty, Shapes

LEMMA HandleEmptyShapes ==
    ASSUME Shapes, HandleEmpty
    PROVE  Shapes'
<1>1. FlagShape'
  BY DEF HandleEmpty, Shapes, FlagShape, Faults
<1>2. IncomingShape'
  <2>1. found'.phase = "idle"
    BY DEF HandleEmpty, Shapes, IncomingShape
  <2>2. QED
    BY <2>1, IncomingShifted DEF HandleEmpty, Shapes
<1>3. QED
  BY <1>1, <1>2, SameShapes DEF HandleEmpty, Shapes

LEMMA BatcherIdleShapes ==
    ASSUME Shapes, BatcherIdle
    PROVE  Shapes'
<1>1. FlagShape'
  BY DEF BatcherIdle, Shapes, FlagShape, Faults
<1>2. IncomingShape'
  BY IncomingAppended DEF BatcherIdle, Shapes
<1>3. QED
  BY <1>1, <1>2, SameShapes DEF BatcherIdle, Shapes

LEMMA RetryCachedShapes ==
    ASSUME Shapes, RetryCached
    PROVE  Shapes'
<1>1. FlagShape'
  BY DEF RetryCached, Shapes, FlagShape, Faults
<1>2. IncomingShape'
  BY IncomingAppended DEF RetryCached, Shapes
<1>3. QED
  BY <1>1, <1>2, SameShapes DEF RetryCached, Shapes

\* A connection more.
LEMMA NewConnectionShape ==
    ASSUME NetShape, NewConnection, UNCHANGED server
    PROVE  NetShape'
<1>1. connection \in Int /\ connection >= 1
  BY LimitsAssumption DEF NetShape
<1>2. connection' \in 1 .. MaxConnections
  BY <1>1, LimitsAssumption DEF NewConnection
<1>3. QED
  BY <1>2 DEF NewConnection, NetShape

LEMMA ReconnectShapes ==
    ASSUME Shapes, Reconnect
    PROVE  Shapes'
<1>1. FlagShape'
  BY DEF Reconnect, NewConnection, Shapes, FlagShape, Faults
<1>2. IncomingShape'
  BY IncomingAppended DEF Reconnect, Shapes
<1>3. NetShape'
  BY NewConnectionShape DEF Reconnect, Shapes
<1>4. QED
  BY <1>1, <1>2, <1>3, SameShapes DEF Reconnect, NewConnection, Shapes

LEMMA StopProcessingShapes ==
    ASSUME Shapes, StopProcessing
    PROVE  Shapes'
<1>1. FlagShape'
  BY DEF StopProcessing, Shapes, FlagShape, Faults
<1>2. QED
  BY <1>1, SameShapes DEF StopProcessing, Shapes

\* A task that is not a decryption passes to encryptedQueue behind those that are.
LEMMA BlockAppended ==
    ASSUME Block, NEW S, encrypted \in Seq(S), batch.left \in Nat,
           NEW t \in S, t.op # "decrypt",
           encrypted' = Append(encrypted, t), UNCHANGED <<batch, zone>>
    PROVE  Block'
<1> PICK a \in Nat :
        /\ a + batch.left <= Len(encrypted)
        /\ \A i \in DOMAIN encrypted :
            (encrypted[i].op = "decrypt") <=> (a < i /\ i <= a + batch.left)
  BY DEF Block
<1>1. /\ Len(encrypted) \in Nat /\ DOMAIN encrypted = 1 .. Len(encrypted)
      /\ Len(encrypted') = Len(encrypted) + 1 /\ DOMAIN encrypted' = 1 .. Len(encrypted) + 1
      /\ \A i \in 1 .. Len(encrypted) : encrypted'[i] = encrypted[i]
      /\ encrypted'[Len(encrypted) + 1] = t
  BY AppendFacts
<1>2. a + batch'.left <= Len(encrypted')
  BY <1>1
<1>3. ASSUME NEW i \in DOMAIN encrypted'
      PROVE  (encrypted'[i].op = "decrypt") <=> (a < i /\ i <= a + batch'.left)
  <2>1. CASE i \in 1 .. Len(encrypted)
    BY <1>1, <2>1
  <2>2. CASE i = Len(encrypted) + 1
    BY <1>1, <2>2
  <2>3. QED
    BY <1>1, <1>3, <2>1, <2>2
<1>4. QED
  BY <1>2, <1>3 DEF Block

\* The head of encryptedQueue that is no decryption leaves it.
LEMMA BlockShifted ==
    ASSUME Block, NEW S, encrypted \in Seq(S), batch.left \in Nat,
           encrypted # <<>>, Head(encrypted).op # "decrypt",
           encrypted' = Tail(encrypted), UNCHANGED <<batch, zone>>
    PROVE  Block'
<1> PICK a \in Nat :
        /\ a + batch.left <= Len(encrypted)
        /\ \A i \in DOMAIN encrypted :
            (encrypted[i].op = "decrypt") <=> (a < i /\ i <= a + batch.left)
  BY DEF Block
<1>1. /\ Len(encrypted) \in Nat /\ Len(encrypted) >= 1 /\ DOMAIN encrypted = 1 .. Len(encrypted)
      /\ Head(encrypted) = encrypted[1]
      /\ Len(encrypted') = Len(encrypted) - 1 /\ DOMAIN encrypted' = 1 .. Len(encrypted) - 1
      /\ \A i \in 1 .. Len(encrypted) - 1 : encrypted'[i] = encrypted[i + 1]
  BY TailFacts
<1>2. \A i \in DOMAIN encrypted' : i + 1 \in DOMAIN encrypted /\ i \in Nat /\ encrypted'[i] = encrypted[i + 1]
  BY <1>1
<1>3. a > 0 \/ batch.left = 0
  BY <1>1
<1>4. CASE a > 0
  <2>1. a - 1 \in Nat /\ (a - 1) + batch'.left <= Len(encrypted')
    BY <1>1, <1>4
  <2>2. \A i \in DOMAIN encrypted' :
            (encrypted'[i].op = "decrypt") <=> (a - 1 < i /\ i <= (a - 1) + batch'.left)
    <3> TAKE i \in DOMAIN encrypted'
    <3>1. (encrypted'[i].op = "decrypt") <=> (a < i + 1 /\ i + 1 <= a + batch.left)
      BY <1>2
    <3>2. (a < i + 1 /\ i + 1 <= a + batch.left) <=> (a - 1 < i /\ i <= (a - 1) + batch.left)
      BY <1>2, <1>4
    <3>3. QED
      BY <3>1, <3>2
  <2>3. QED
    BY <2>1, <2>2 DEF Block
<1>5. CASE a = 0 /\ batch.left = 0
  <2>1. 0 + batch'.left <= Len(encrypted')
    BY <1>1, <1>5
  <2>2. \A i \in DOMAIN encrypted' :
            (encrypted'[i].op = "decrypt") <=> (0 < i /\ i <= 0 + batch'.left)
    BY <1>2, <1>5
  <2>3. QED
    BY <2>1, <2>2, <1>5 DEF Block
<1>6. QED
  BY <1>3, <1>4, <1>5

LEMMA WaitForIncomingShapes ==
    ASSUME Shapes, WaitForIncoming
    PROVE  Shapes'
<1> PICK t : t = Task("empty", 0)
  OBVIOUS
<1>1. t \in EncryptedTask(Arrived) /\ t.op = "empty"
  BY DEF EncryptedTask, Task
<1>2. encrypted \in Seq(EncryptedTask(Arrived)) /\ batch.left \in Nat
  BY BatchAssumption DEF Shapes, QueueShape, BatchShape
<1>3. IncomingShape'
  <2>1. found'.phase = "idle"
    BY DEF WaitForIncoming, Shapes, IncomingShape
  <2>2. QED
    BY <2>1, IncomingShifted DEF WaitForIncoming, Shapes
<1>4. QueueShape'
  <2>1. encrypted' \in Seq(EncryptedTask(Arrived)')
    BY <1>1, <1>2, AppendFacts DEF WaitForIncoming, EncryptedTask, ItemOf, Arrived
  <2>2. QED
    BY <2>1 DEF WaitForIncoming, Shapes, QueueShape, Arrived
<1>5. Block'
  BY <1>1, <1>2, BlockAppended DEF WaitForIncoming, Shapes
<1>6. QED
  BY <1>3, <1>4, <1>5, SameShapes DEF WaitForIncoming, Shapes
-------------------------------------------------------------------------------
(* The types: fetching *)

\* The table without some rows.
LEMMA RestrictShape ==
    ASSUME DiskShape, NEW gone, db' = Restrict(db, DOMAIN db \ gone),
           UNCHANGED <<arrivals, used>>
    PROVE  /\ DiskShape'
           /\ DOMAIN db' = DOMAIN db \ gone
           /\ \A c \in DOMAIN db' : db'[c] = db[c]
<1>1. DOMAIN db' = DOMAIN db \ gone /\ \A c \in DOMAIN db' : db'[c] = db[c]
  BY DEF Restrict
<1>2. db' = [c \in DOMAIN db' |-> db'[c]]
  BY DEF Restrict
<1>3. db' \in [DOMAIN db' -> Row]
  BY <1>1, <1>2 DEF DiskShape, Row
<1>4. QED
  BY <1>1, <1>3 DEF DiskShape, Arrived, Row

\* The task stays until the last row is queued.
LEMMA FetchDoneShape ==
    ASSUME IncomingShape, UNCHANGED arrivals, found.phase # "idle",
           NEW rows \in Seq(FoundRow(Arrived)), FetchDone(rows)
    PROVE  IncomingShape' /\ FoundShape'
<1>1. CASE rows = <<>>
  <2>1. found' = NothingFound /\ incoming' = Tail(incoming)
    BY <1>1 DEF FetchDone
  <2>2. found'.phase = "idle" /\ incoming # <<>> /\ Head(incoming).op # "request"
    BY <2>1 DEF NothingFound, IncomingShape
  <2>3. NothingFound \in [phase : {"idle", "ids", "rows"}, ids : SUBSET Arrived',
                          rows : Seq(FoundRow(Arrived'))]
    BY DEF NothingFound
  <2>4. QED
    BY <2>1, <2>2, <2>3, IncomingShifted DEF FoundShape
<1>2. CASE rows # <<>>
  <2> PICK f : f = [phase |-> "rows", ids |-> {}, rows |-> rows]
    OBVIOUS
  <2>1. found' = f /\ incoming' = incoming
    BY <1>2 DEF FetchDone
  <2>2. f \in [phase : {"idle", "ids", "rows"}, ids : SUBSET Arrived, rows : Seq(FoundRow(Arrived))]
    OBVIOUS
  <2>3. FoundShape'
    BY <1>2, <2>1, <2>2 DEF FoundShape, Arrived
  <2>4. QED
    BY <2>1, <2>3 DEF IncomingShape, Requests
<1>3. QED
  BY <1>1, <1>2

LEMMA GetAllUnprocessedIdsShapes ==
    ASSUME Shapes, GetAllUnprocessedIds
    PROVE  Shapes'
<1>1. CASE stopping
  <2>1. IncomingShape'
    BY <1>1, IncomingShifted DEF GetAllUnprocessedIds, Shapes
  <2>2. QED
    BY <1>1, <2>1, SameShapes DEF GetAllUnprocessedIds, Shapes
<1>2. CASE ~stopping
  <2> PICK worn : worn = {c \in DOMAIN db : db[c].attempts >= MaxAttempts}
    OBVIOUS
  <2>1. /\ db' = Restrict(db, DOMAIN db \ worn)
        /\ found' = [NothingFound EXCEPT !.phase = "ids", !.ids = DOMAIN db']
        /\ UNCHANGED <<arrivals, used, incoming>>
    BY <1>2 DEF GetAllUnprocessedIds
  <2>2. DiskShape' /\ DOMAIN db' \subseteq DOMAIN db
    BY <2>1, RestrictShape DEF Shapes
  <2>3. found' = [phase |-> "ids", ids |-> DOMAIN db', rows |-> <<>>]
    BY <2>1 DEF NothingFound
  <2>4. FoundShape'
    BY <2>2, <2>3 DEF FoundShape, DiskShape
  <2>5. IncomingShape'
    BY <2>1 DEF GetAllUnprocessedIds, Shapes, IncomingShape, Requests
  <2>6. QED
    BY <2>2, <2>4, <2>5, SameShapes DEF GetAllUnprocessedIds, Shapes
<1>3. QED
  BY <1>1, <1>2

\* The rows that are fetched have one attempt more, and no other change.
LEMMA IncrementShape ==
    ASSUME DiskShape, NEW ids,
           db' = [c \in DOMAIN db |->
                    IF c \in ids THEN [db[c] EXCEPT !.attempts = @ + 1] ELSE db[c]],
           UNCHANGED <<arrivals, used>>
    PROVE  /\ DiskShape'
           /\ DOMAIN db' = DOMAIN db
           /\ \A c \in DOMAIN db : db'[c] \in Row /\ db'[c].plain = db[c].plain
<1>1. ASSUME NEW c \in DOMAIN db PROVE db'[c] \in Row /\ db'[c].plain = db[c].plain
  <2>1. db[c] \in Row
    BY DEF DiskShape
  <2>2. CASE c \in ids
    <3>1. db'[c] = [db[c] EXCEPT !.attempts = @ + 1]
      BY <2>2
    <3>2. QED
      BY <2>1, <3>1 DEF Row
  <2>3. CASE c \notin ids
    BY <2>1, <2>3
  <2>4. QED
    BY <2>2, <2>3
<1>2. DOMAIN db' = DOMAIN db /\ db' = [c \in DOMAIN db' |-> db'[c]]
  OBVIOUS
<1>3. db' \in [DOMAIN db' -> Row]
  BY <1>1, <1>2
<1>4. QED
  BY <1>1, <1>2, <1>3 DEF DiskShape, Arrived, Row

LEMMA GetUnprocessedShapes ==
    ASSUME Shapes, GetUnprocessed
    PROVE  Shapes'
<1> DEFINE Fetched(c) == [copy |-> c, plain |-> db'[c].plain, attempts |-> db'[c].attempts]
<1> PICK ids : ids = found.ids \cap DOMAIN db
  OBVIOUS
<1>1. /\ db' = [c \in DOMAIN db |->
                    IF c \in ids THEN [db[c] EXCEPT !.attempts = @ + 1] ELSE db[c]]
      /\ UNCHANGED <<arrivals, used>>
      /\ found.phase = "ids"
  BY DEF GetUnprocessed
<1>2. /\ DiskShape' /\ DOMAIN db' = DOMAIN db
      /\ \A c \in DOMAIN db : db'[c] \in Row
  BY <1>1, IncrementShape DEF Shapes
<1>3. PICK rows \in [1 .. Cardinality(ids) -> ids] :
        FetchDone([i \in DOMAIN rows |-> Fetched(rows[i])])
  BY DEF GetUnprocessed
<1> PICK fetched : fetched = [i \in DOMAIN rows |-> Fetched(rows[i])]
  OBVIOUS
<1>4. fetched \in Seq(FoundRow(Arrived))
  <2>1. ids \subseteq Arrived /\ ids \subseteq DOMAIN db
    BY DEF Shapes, DiskShape
  <2>2. Cardinality(ids) \in Nat
    <3>1. Len(arrivals) \in Int /\ 1 \in Int
      BY DEF Shapes, DiskShape
    <3>2. IsFiniteSet(Arrived)
      BY <3>1, FS_Interval DEF Arrived
    <3>3. QED
      BY <2>1, <3>2, FS_Subset, FS_CardinalityType
  <2>3. ASSUME NEW c \in ids PROVE Fetched(c) \in FoundRow(Arrived)
    <3>1. db'[c] \in Row
      BY <1>2, <2>1
    <3>2. QED
      BY <2>1, <3>1 DEF Row, FoundRow
  <2>4. \A i \in 1 .. Cardinality(ids) : rows[i] \in ids
    OBVIOUS
  <2>5. \A i \in 1 .. Cardinality(ids) : fetched[i] \in FoundRow(Arrived)
    BY <2>3, <2>4
  <2>6. fetched = [i \in 1 .. Cardinality(ids) |-> fetched[i]]
    OBVIOUS
  <2> HIDE DEF Fetched
  <2>7. fetched \in [1 .. Cardinality(ids) -> FoundRow(Arrived)]
    BY <2>5, <2>6
  <2>8. QED
    BY <2>2, <2>7, FunctionIsSeq
<1>5. IncomingShape' /\ FoundShape'
  BY <1>1, <1>3, <1>4, FetchDoneShape DEF Shapes
<1>6. QED
  BY <1>2, <1>5, SameShapes DEF GetUnprocessed, Shapes

\* An item more, which may send the batch off.
LEMMA AddItemShape ==
    ASSUME NEW S, items \in Seq(S), Len(items) < BatchSize,
           waiting \in Seq(Seq(S)), \A i \in DOMAIN waiting : Len(waiting[i]) \in 1 .. BatchSize,
           NEW item \in S, AddItem(item)
    PROVE  /\ items' \in Seq(S) /\ Len(items') < BatchSize
           /\ waiting' \in Seq(Seq(S))
           /\ \A i \in DOMAIN waiting' : Len(waiting'[i]) \in 1 .. BatchSize
<1> PICK all : all = Append(items, item)
  OBVIOUS
<1>1. /\ all \in Seq(S) /\ Len(all) = Len(items) + 1 /\ Len(items) \in Nat
      /\ BatchSize \in Nat /\ BatchSize > 1
  BY AppendFacts, BatchAssumption
<1>2. CASE Len(all) >= BatchSize
  <2>1. items' = <<>> /\ waiting' = Append(waiting, all)
    BY <1>2 DEF AddItem
  <2>2. Len(all) \in 1 .. BatchSize
    BY <1>1, <1>2
  <2>3. /\ waiting' \in Seq(Seq(S))
        /\ DOMAIN waiting = 1 .. Len(waiting)
        /\ DOMAIN waiting' = 1 .. Len(waiting) + 1 /\ Len(waiting) \in Nat
        /\ \A i \in 1 .. Len(waiting) : waiting'[i] = waiting[i]
        /\ waiting'[Len(waiting) + 1] = all
    BY <1>1, <2>1, AppendFacts
  <2>4. ASSUME NEW i \in DOMAIN waiting' PROVE Len(waiting'[i]) \in 1 .. BatchSize
    <3>1. CASE i \in 1 .. Len(waiting)
      BY <2>3, <3>1
    <3>2. CASE i = Len(waiting) + 1
      BY <2>2, <2>3, <3>2
    <3>3. QED
      BY <2>3, <3>1, <3>2
  <2>5. items' \in Seq(S) /\ Len(items') < BatchSize
    BY <1>1, <2>1
  <2>6. QED
    BY <2>3, <2>4, <2>5
<1>3. CASE ~ (Len(all) >= BatchSize)
  <2>1. items' = all /\ UNCHANGED waiting
    BY <1>3 DEF AddItem
  <2>2. Len(all) < BatchSize
    BY <1>1, <1>3
  <2>3. QED
    BY <1>1, <2>1, <2>2
<1>4. QED
  BY <1>2, <1>3

LEMMA QueueCachedShapes ==
    ASSUME Shapes, QueueCached
    PROVE  Shapes'
<1> PICK row : row = Head(found.rows)
  OBVIOUS
<1>1. /\ found.phase = "rows" /\ FetchDone(Tail(found.rows))
      /\ UNCHANGED <<server, sent, connection, emptySent, arrivals, db, used, decrypted, app,
                     errors, removing, zone, batch, emptied, idleWait, timer, stopping, faults>>
  BY DEF QueueCached
<1>2. row \in FoundRow(Arrived) /\ Tail(found.rows) \in Seq(FoundRow(Arrived))
  <2>1. found.rows \in Seq(FoundRow(Arrived)) /\ found.rows # <<>>
    BY <1>1 DEF Shapes, FoundShape
  <2>2. QED
    BY <2>1, TailFacts
<1>3. IncomingShape' /\ FoundShape'
  BY <1>1, <1>2, FetchDoneShape DEF Shapes
<1>4. CASE row.plain
  <2>1. encrypted' = Append(encrypted, Task("cached", row.copy)) /\ UNCHANGED <<items, waiting>>
    BY <1>4 DEF QueueCached
  <2> PICK t : t = Task("cached", row.copy)
    OBVIOUS
  <2>2. t \in EncryptedTask(Arrived) /\ t.op # "decrypt"
    BY <1>2 DEF EncryptedTask, Task, FoundRow
  <2>3. encrypted \in Seq(EncryptedTask(Arrived)) /\ batch.left \in Nat
    BY BatchAssumption DEF Shapes, QueueShape, BatchShape
  <2>4. encrypted' \in Seq(EncryptedTask(Arrived))
    BY <2>1, <2>2, <2>3, AppendFacts
  <2>5. QueueShape'
    BY <1>1, <2>4 DEF Shapes, QueueShape, Arrived
  <2>6. Block'
    BY <1>1, <2>1, <2>2, <2>3, BlockAppended DEF Shapes
  <2>7. QED
    BY <1>1, <1>3, <2>1, <2>5, <2>6, SameShapes DEF Shapes
<1>5. CASE ~row.plain
  <2>1. AddItem(Item(row.copy, row.attempts, 0)) /\ UNCHANGED encrypted
    BY <1>5 DEF QueueCached
  <2> PICK item : item = Item(row.copy, row.attempts, 0)
    OBVIOUS
  <2>2. item \in ItemOf(Arrived)
    BY <1>2, LimitsAssumption DEF ItemOf, Item, FoundRow
  <2>3. ItemsShape'
    BY <1>1, <2>1, <2>2, AddItemShape DEF Shapes, ItemsShape, Arrived
  <2>4. QED
    BY <1>1, <1>3, <2>1, <2>3, SameShapes DEF Shapes
<1>6. QED
  BY <1>4, <1>5
-------------------------------------------------------------------------------
(* The types: batches *)

LEMMA KickBatchOffShapes ==
    ASSUME Shapes, KickBatchOff
    PROVE  Shapes'
<1>1. /\ items \in Seq(ItemOf(Arrived)) /\ Len(items) < BatchSize /\ items # <<>>
      /\ waiting \in Seq(Seq(ItemOf(Arrived)))
      /\ \A i \in DOMAIN waiting : Len(waiting[i]) \in 1 .. BatchSize
  BY DEF KickBatchOff, Shapes, ItemsShape
<1>2. Len(items) \in 1 .. BatchSize
  BY <1>1, BatchAssumption
<1>3. /\ waiting' \in Seq(Seq(ItemOf(Arrived)))
      /\ DOMAIN waiting = 1 .. Len(waiting)
      /\ DOMAIN waiting' = 1 .. Len(waiting) + 1 /\ Len(waiting) \in Nat
      /\ \A i \in 1 .. Len(waiting) : waiting'[i] = waiting[i]
      /\ waiting'[Len(waiting) + 1] = items
  BY <1>1, AppendFacts DEF KickBatchOff
<1>4. ASSUME NEW i \in DOMAIN waiting' PROVE Len(waiting'[i]) \in 1 .. BatchSize
  <2>1. CASE i \in 1 .. Len(waiting)
    BY <1>1, <1>3, <2>1
  <2>2. CASE i = Len(waiting) + 1
    BY <1>2, <1>3, <2>2
  <2>3. QED
    BY <1>3, <2>1, <2>2
<1>5. items' \in Seq(ItemOf(Arrived)) /\ Len(items') < BatchSize
  BY BatchAssumption DEF KickBatchOff
<1>6. ItemsShape'
  BY <1>3, <1>4, <1>5 DEF ItemsShape, KickBatchOff, Arrived
<1>7. QED
  BY <1>6, SameShapes DEF KickBatchOff, Shapes

LEMMA SeqWider ==
    ASSUME NEW S, NEW T, S \subseteq T, NEW q \in Seq(S)
    PROVE  q \in Seq(T)
OBVIOUS

\* With more copies the types have more values.
LEMMA Wider ==
    ASSUME NEW A, NEW B, A \subseteq B
    PROVE  /\ ItemOf(A) \subseteq ItemOf(B)
           /\ FoundRow(A) \subseteq FoundRow(B)
           /\ EncryptedTask(A) \subseteq EncryptedTask(B)
           /\ DecryptedTask(A) \subseteq DecryptedTask(B)
           /\ AppTask(A) \subseteq AppTask(B)
           /\ FailedOf(A) \subseteq FailedOf(B)
<1>1. ItemOf(A) \subseteq ItemOf(B)
  BY DEF ItemOf
<1>2. FoundRow(A) \subseteq FoundRow(B)
  BY DEF FoundRow
<1>3. EncryptedTask(A) \subseteq EncryptedTask(B)
  BY <1>1 DEF EncryptedTask
<1>4. DecryptedTask(A) \subseteq DecryptedTask(B) /\ AppTask(A) \subseteq AppTask(B)
  BY DEF DecryptedTask, AppTask
<1>5. FailedOf(A) \subseteq FailedOf(B)
  BY DEF FailedOf
<1>6. QED
  BY <1>1, <1>2, <1>3, <1>4, <1>5

LEMMA HandleRequestShapes ==
    ASSUME Shapes, HandleRequest
    PROVE  /\ Shapes'
           /\ Arrived \subseteq Arrived' /\ Len(arrivals) + 1 \in Arrived' \ Arrived
           /\ \A c \in Arrived : Env(c)' = Env(c)
<1> PICK e, item : e = Head(incoming).n /\ item = Item(Len(arrivals) + 1, 0, Head(incoming).conn)
  OBVIOUS
<1>1. incoming \in Seq(IncomingTask) /\ incoming # <<>> /\ Head(incoming).op = "request"
  BY DEF HandleRequest, Shapes, IncomingShape
<1>2. e \in Envelopes /\ Head(incoming).conn \in 1 .. MaxConnections
  <2>1. Head(incoming) \in IncomingTask
    BY <1>1, TailFacts
  <2>2. QED
    BY <1>1, <2>1 DEF IncomingTask
<1>3. arrivals \in Seq(Envelopes) /\ arrivals' = Append(arrivals, e)
  BY DEF HandleRequest, Shapes, DiskShape
<1>4. /\ arrivals' \in Seq(Envelopes)
      /\ Len(arrivals) \in Nat
      /\ Len(arrivals') = Len(arrivals) + 1
      /\ \A c \in 1 .. Len(arrivals) : arrivals'[c] = arrivals[c]
  BY <1>2, <1>3, AppendFacts
<1>5. /\ Arrived \subseteq Arrived' /\ Len(arrivals) + 1 \in Arrived' \ Arrived
      /\ \A c \in Arrived : Env(c)' = Env(c)
  BY <1>4 DEF Arrived, Env
<1>6. item \in ItemOf(Arrived')
  BY <1>2, <1>5, LimitsAssumption DEF ItemOf, Item
<1>7. DiskShape'
  BY <1>4, <1>5 DEF HandleRequest, Shapes, DiskShape, Row
<1>8. IncomingShape'
  <2>1. incoming' = Tail(incoming) /\ found' = found
    BY DEF HandleRequest
  <2>2. incoming' \in Seq(IncomingTask)
    BY <1>1, <2>1, TailFacts
  <2>3. Cardinality(RequestsIn(incoming)) = Cardinality(RequestsIn(incoming')) + 1
    BY <1>1, <2>1, RequestsShifted
  <2>4. Cardinality(RequestsIn(incoming')) \in Nat
    BY <2>2, RequestsAreFinite
  <2>5. Requests' = RequestsIn(incoming') /\ Requests = RequestsIn(incoming)
    BY DEF RequestsIn, Requests
  <2>6. Len(arrivals') + Cardinality(Requests') = Len(arrivals) + Cardinality(Requests)
    BY <1>4, <2>3, <2>4, <2>5
  <2>7. found'.phase = "idle"
    BY <1>1, <2>1 DEF Shapes, IncomingShape, FoundShape
  <2>8. QED
    BY <2>2, <2>6, <2>7 DEF Shapes, IncomingShape
<1>9. FoundShape'
  <2>1. FoundRow(Arrived) \subseteq FoundRow(Arrived')
    BY <1>5, Wider
  <2>2. found.rows \in Seq(FoundRow(Arrived'))
    BY <2>1, SeqWider DEF Shapes, FoundShape
  <2>3. QED
    BY <1>5, <2>2 DEF HandleRequest, Shapes, FoundShape
<1>10. ItemsShape'
  <2>1. ItemOf(Arrived) \subseteq ItemOf(Arrived')
    BY <1>5, Wider
  <2>2. items \in Seq(ItemOf(Arrived'))
    BY <2>1, SeqWider DEF Shapes, ItemsShape
  <2>3. Seq(ItemOf(Arrived)) \subseteq Seq(ItemOf(Arrived'))
    BY <2>1, SeqWider
  <2>4. waiting \in Seq(Seq(ItemOf(Arrived')))
    BY <2>3, SeqWider DEF Shapes, ItemsShape
  <2>5. AddItem(item)
    BY DEF HandleRequest
  <2>6. Len(items) < BatchSize /\ \A i \in DOMAIN waiting : Len(waiting[i]) \in 1 .. BatchSize
    BY DEF Shapes, ItemsShape
  <2>7. QED
    BY <1>6, <2>2, <2>4, <2>5, <2>6, AddItemShape DEF ItemsShape
<1>11. QueueShape'
  <2>1. /\ EncryptedTask(Arrived) \subseteq EncryptedTask(Arrived')
        /\ DecryptedTask(Arrived) \subseteq DecryptedTask(Arrived')
        /\ AppTask(Arrived) \subseteq AppTask(Arrived')
    BY <1>5, Wider
  <2>2. /\ encrypted \in Seq(EncryptedTask(Arrived'))
        /\ decrypted \in Seq(DecryptedTask(Arrived'))
        /\ app \in Seq(AppTask(Arrived'))
    BY <2>1, SeqWider DEF Shapes, QueueShape
  <2>3. QED
    BY <1>5, <2>2 DEF HandleRequest, Shapes, QueueShape
<1>12. BatchShape'
  <2>1. ItemOf(Arrived) \subseteq ItemOf(Arrived') /\ FailedOf(Arrived) \subseteq FailedOf(Arrived')
    BY <1>5, Wider
  <2>2. batch.ok \in Seq(ItemOf(Arrived')) /\ batch.failed \in FailedOf(Arrived')
    BY <2>1, SeqWider DEF Shapes, BatchShape
  <2>3. QED
    BY <2>1, <2>2 DEF HandleRequest, Shapes, BatchShape
<1>13. QED
  BY <1>5, <1>7, <1>8, <1>9, <1>10, <1>11, <1>12, SameShapes DEF HandleRequest, Shapes

\* Before anything failed.
LEMMA NoFailures ==
    ASSUME NEW A
    PROVE  << >> \in FailedOf(A) /\ DOMAIN << >> = {}
<1>1. << >> \in [{} -> Nat]
  OBVIOUS
<1>2. {} \in SUBSET A
  OBVIOUS
<1>3. QED
  BY <1>1, <1>2 DEF FailedOf

\* The next batch: its items become decrypt tasks at the end of encryptedQueue.
LEMMA EnterZoneShapes ==
    ASSUME Shapes, EnterZone
    PROVE  /\ Shapes'
           /\ \A i \in DOMAIN encrypted : encrypted[i].op # "decrypt"
           /\ LET first == Head(waiting) IN
              /\ first \in Seq(ItemOf(Arrived))
              /\ batch' = [left |-> Len(first), items |-> ToSet(first), ok |-> <<>>,
                           failed |-> << >>, uses |-> {}]
              /\ \A i \in DOMAIN encrypted' :
                    IF i <= Len(encrypted)
                    THEN encrypted'[i] = encrypted[i]
                    ELSE /\ i - Len(encrypted) \in DOMAIN first
                         /\ encrypted'[i] = [op |-> "decrypt", item |-> first[i - Len(encrypted)]]
              /\ \A k \in DOMAIN first :
                    /\ Len(encrypted) + k \in DOMAIN encrypted'
                    /\ encrypted'[Len(encrypted) + k] = [op |-> "decrypt", item |-> first[k]]
<1> PICK first : first = Head(waiting)
  OBVIOUS
<1> PICK tasks : tasks = [i \in DOMAIN first |-> [op |-> "decrypt", item |-> first[i]]]
  OBVIOUS
<1>1. waiting \in Seq(Seq(ItemOf(Arrived))) /\ waiting # <<>>
  BY DEF EnterZone, Shapes, ItemsShape
<1>2. /\ first \in Seq(ItemOf(Arrived)) /\ first = waiting[1]
      /\ waiting' \in Seq(Seq(ItemOf(Arrived)))
      /\ Len(waiting) \in Nat /\ Len(waiting) >= 1
      /\ DOMAIN waiting = 1 .. Len(waiting) /\ DOMAIN waiting' = 1 .. Len(waiting) - 1
      /\ \A i \in 1 .. Len(waiting) - 1 : waiting'[i] = waiting[i + 1]
  BY <1>1, TailFacts DEF EnterZone
<1>3. Len(first) \in 1 .. BatchSize /\ Len(first) \in Nat /\ DOMAIN first = 1 .. Len(first)
  <2>1. 1 \in DOMAIN waiting
    BY <1>2
  <2>2. Len(waiting[1]) \in 1 .. BatchSize
    BY <2>1 DEF Shapes, ItemsShape
  <2>3. QED
    BY <1>2, <2>2
<1>4. tasks \in Seq(EncryptedTask(Arrived)) /\ Len(tasks) = Len(first)
  <2>1. \A i \in 1 .. Len(first) : [op |-> "decrypt", item |-> first[i]] \in EncryptedTask(Arrived)
    BY <1>2, <1>3 DEF EncryptedTask
  <2>2. QED
    BY <1>3, <2>1
<1>5. encrypted \in Seq(EncryptedTask(Arrived)) /\ encrypted' = encrypted \o tasks
  BY DEF EnterZone, Shapes, QueueShape
<1>6. /\ encrypted' \in Seq(EncryptedTask(Arrived))
      /\ Len(encrypted) \in Nat /\ DOMAIN encrypted = 1 .. Len(encrypted)
      /\ Len(encrypted') = Len(encrypted) + Len(first)
      /\ DOMAIN encrypted' = 1 .. Len(encrypted) + Len(first)
      /\ \A i \in 1 .. Len(encrypted) : encrypted'[i] = encrypted[i]
      /\ \A i \in 1 .. Len(encrypted) + Len(first) :
            i > Len(encrypted) => /\ i - Len(encrypted) \in 1 .. Len(first)
                                  /\ encrypted'[i] = tasks[i - Len(encrypted)]
  <2> PICK joined : joined = encrypted \o tasks
    OBVIOUS
  <2>1. /\ joined \in Seq(EncryptedTask(Arrived))
        /\ Len(encrypted) \in Nat
        /\ Len(joined) = Len(encrypted) + Len(tasks)
        /\ DOMAIN joined = 1 .. Len(encrypted) + Len(tasks)
        /\ \A i \in 1 .. Len(encrypted) : joined[i] = encrypted[i]
        /\ \A i \in 1 .. Len(encrypted) + Len(tasks) :
              i > Len(encrypted) => /\ i - Len(encrypted) \in 1 .. Len(tasks)
                                    /\ joined[i] = tasks[i - Len(encrypted)]
    BY <1>4, <1>5, ConcatFacts
  <2>2. DOMAIN encrypted = 1 .. Len(encrypted)
    BY <1>5
  <2>3. encrypted' = joined
    BY <1>5
  <2>4. QED
    BY <1>4, <2>1, <2>2, <2>3
<1>7. batch = NoBatch
  BY DEF EnterZone, Shapes, BatchShape
<1>8. batch' = [left |-> Len(first), items |-> ToSet(first), ok |-> <<>>,
                failed |-> << >>, uses |-> {}]
  BY DEF EnterZone, NoBatch
<1>9. \A i \in DOMAIN encrypted : encrypted[i].op # "decrypt"
  <2> PICK a \in Nat :
        \A i \in DOMAIN encrypted :
            (encrypted[i].op = "decrypt") <=> (a < i /\ i <= a + batch.left)
    BY DEF Shapes, Block
  <2>1. batch.left = 0
    BY <1>7 DEF NoBatch
  <2>2. QED
    BY <1>6, <2>1
<1>10. \A i \in DOMAIN encrypted' :
            IF i <= Len(encrypted)
            THEN encrypted'[i] = encrypted[i]
            ELSE /\ i - Len(encrypted) \in DOMAIN first
                 /\ encrypted'[i] = [op |-> "decrypt", item |-> first[i - Len(encrypted)]]
  <2> TAKE i \in DOMAIN encrypted'
  <2>1. CASE i <= Len(encrypted)
    BY <1>6, <2>1
  <2>2. CASE ~ (i <= Len(encrypted))
    <3>1. i - Len(encrypted) \in DOMAIN first /\ encrypted'[i] = tasks[i - Len(encrypted)]
      BY <1>3, <1>6, <2>2
    <3>2. QED
      BY <2>2, <3>1
  <2>3. QED
    BY <2>1, <2>2
<1>11. \A k \in DOMAIN first :
            /\ Len(encrypted) + k \in DOMAIN encrypted'
            /\ encrypted'[Len(encrypted) + k] = [op |-> "decrypt", item |-> first[k]]
  <2> TAKE k \in DOMAIN first
  <2>1. /\ Len(encrypted) + k \in 1 .. Len(encrypted) + Len(first)
        /\ Len(encrypted) + k > Len(encrypted) /\ (Len(encrypted) + k) - Len(encrypted) = k
    BY <1>3, <1>6
  <2>2. encrypted'[Len(encrypted) + k] = tasks[k]
    BY <1>6, <2>1
  <2>3. QED
    BY <1>6, <2>1, <2>2
<1>12. Block'
  <2>1. Len(encrypted) \in Nat /\ Len(encrypted) + batch'.left <= Len(encrypted')
    BY <1>3, <1>6, <1>8
  <2>2. ASSUME NEW i \in DOMAIN encrypted'
        PROVE  (encrypted'[i].op = "decrypt")
                    <=> (Len(encrypted) < i /\ i <= Len(encrypted) + batch'.left)
    <3>1. CASE i <= Len(encrypted)
      <4>1. encrypted'[i].op # "decrypt"
        BY <1>6, <1>9, <3>1
      <4>2. ~ (Len(encrypted) < i)
        BY <1>6, <3>1
      <4>3. QED
        BY <4>1, <4>2
    <3>2. CASE ~ (i <= Len(encrypted))
      <4>1. encrypted'[i].op = "decrypt"
        BY <1>10, <3>2
      <4>2. Len(encrypted) < i /\ i <= Len(encrypted) + batch'.left
        BY <1>3, <1>6, <1>8, <3>2
      <4>3. QED
        BY <4>1, <4>2
    <3>3. QED
      BY <3>1, <3>2
  <2>3. zone' = "open"
    BY DEF EnterZone
  <2>4. QED
    BY <2>1, <2>2, <2>3 DEF Block
<1>13. QueueShape'
  BY <1>6 DEF EnterZone, Shapes, QueueShape, Arrived
<1>14. ItemsShape'
  <2>1. \A i \in DOMAIN waiting' : i + 1 \in DOMAIN waiting /\ waiting'[i] = waiting[i + 1]
    BY <1>2
  <2>2. \A i \in DOMAIN waiting' : Len(waiting'[i]) \in 1 .. BatchSize
    BY <2>1 DEF Shapes, ItemsShape
  <2>3. QED
    BY <1>2, <2>2 DEF EnterZone, Shapes, ItemsShape, Arrived
<1>15. BatchShape'
  <2>1. ToSet(first) \subseteq ItemOf(Arrived)
    BY <1>2 DEF ToSet
  <2>2. << >> \in FailedOf(Arrived)
    BY NoFailures
  <2>3. Len(first) \in 0 .. BatchSize
    BY <1>3
  <2>4. batch' \in [left : 0 .. BatchSize, items : SUBSET ItemOf(Arrived),
                    ok : Seq(ItemOf(Arrived)), failed : FailedOf(Arrived),
                    uses : SUBSET Envelopes]
    BY <1>8, <2>1, <2>2, <2>3
  <2>5. QED
    BY <2>4 DEF EnterZone, BatchShape, Arrived
<1>16. Shapes'
  BY <1>12, <1>13, <1>14, <1>15, SameShapes DEF EnterZone, Shapes
<1>17. QED
  BY <1>2, <1>8, <1>9, <1>10, <1>11, <1>16
-------------------------------------------------------------------------------
(* The types: the zone *)

\* A decrypt task at the head of encryptedQueue is one of the batch in the zone.
LEMMA DecryptingFacts ==
    ASSUME Shapes, Decrypting
    PROVE  /\ encrypted \in Seq(EncryptedTask(Arrived)) /\ encrypted # <<>>
           /\ encrypted[1].op = "decrypt" /\ NextItem = encrypted[1].item
           /\ NextItem \in ItemOf(Arrived)
           /\ batch.left \in 1 .. BatchSize /\ zone = "open"
           /\ encrypted' = Tail(encrypted) /\ batch'.left = batch.left - 1 /\ zone' = zone => Block'
<1>1. encrypted \in Seq(EncryptedTask(Arrived)) /\ encrypted # <<>>
  BY DEF Decrypting, Shapes, QueueShape
<1>2. /\ Head(encrypted) = encrypted[1] /\ Head(encrypted) \in EncryptedTask(Arrived)
      /\ Len(encrypted) \in Nat /\ Len(encrypted) >= 1
      /\ DOMAIN encrypted = 1 .. Len(encrypted)
  BY <1>1, TailFacts
<1>3. encrypted[1].op = "decrypt" /\ NextItem = encrypted[1].item /\ NextItem \in ItemOf(Arrived)
  BY <1>2 DEF Decrypting, NextItem, EncryptedTask
<1> PICK a \in Nat :
        /\ a + batch.left <= Len(encrypted)
        /\ \A i \in DOMAIN encrypted :
            (encrypted[i].op = "decrypt") <=> (a < i /\ i <= a + batch.left)
  BY DEF Shapes, Block
<1>4. batch.left \in 0 .. BatchSize /\ BatchSize \in Nat
  BY BatchAssumption DEF Shapes, BatchShape
<1>5. a < 1 /\ 1 <= a + batch.left
  BY <1>2, <1>3
<1>6. a = 0 /\ batch.left \in 1 .. BatchSize
  BY <1>4, <1>5
<1>7. zone = "open"
  <2>1. batch # NoBatch
    BY <1>6 DEF NoBatch
  <2>2. QED
    BY <1>6, <2>1 DEF Shapes, BatchShape, Block
<1>8. ASSUME encrypted' = Tail(encrypted), batch'.left = batch.left - 1, zone' = zone
      PROVE  Block'
  <2>1. /\ Len(encrypted') = Len(encrypted) - 1 /\ DOMAIN encrypted' = 1 .. Len(encrypted) - 1
        /\ \A i \in 1 .. Len(encrypted) - 1 : encrypted'[i] = encrypted[i + 1]
    BY <1>1, <1>8, TailFacts
  <2>2. 0 + batch'.left <= Len(encrypted')
    BY <1>2, <1>4, <1>6, <1>8, <2>1
  <2>3. ASSUME NEW i \in DOMAIN encrypted'
        PROVE  (encrypted'[i].op = "decrypt") <=> (0 < i /\ i <= 0 + batch'.left)
    <3>1. i + 1 \in DOMAIN encrypted /\ encrypted'[i] = encrypted[i + 1] /\ i \in Nat
      BY <1>2, <2>1
    <3>2. (encrypted'[i].op = "decrypt") <=> (a < i + 1 /\ i + 1 <= a + batch.left)
      BY <3>1
    <3>3. (a < i + 1 /\ i + 1 <= a + batch.left) <=> (0 < i /\ i <= 0 + batch'.left)
      BY <1>4, <1>6, <1>8, <2>1, <3>1
    <3>4. QED
      BY <3>2, <3>3
  <2>4. zone' # "saved"
    BY <1>7, <1>8
  <2>5. QED
    BY <2>2, <2>3, <2>4 DEF Block
<1>9. QED
  BY <1>1, <1>3, <1>6, <1>7, <1>8

\* The item fails, and its attempts are kept.
LEMMA FailedShape ==
    ASSUME Shapes, NEW item \in ItemOf(Arrived)
    PROVE  /\ Failed(item) \in FailedOf(Arrived)
           /\ DOMAIN Failed(item) = InFailed \cup {item.copy}
<1> PICK copies \in SUBSET Arrived : batch.failed \in [copies -> Nat]
  BY DEF Shapes, BatchShape, FailedOf
<1>1. item.copy \in Arrived /\ item.attempts \in Nat
  BY DEF ItemOf
<1>2. DOMAIN Failed(item) = copies \cup {item.copy} /\ DOMAIN batch.failed = copies
  BY DEF Failed
<1>3. \A c \in copies \cup {item.copy} : Failed(item)[c] \in Nat
  BY <1>1 DEF Failed
<1>4. Failed(item) \in [copies \cup {item.copy} -> Nat]
  BY <1>3 DEF Failed
<1>5. copies \cup {item.copy} \in SUBSET Arrived
  BY <1>1
<1>6. QED
  BY <1>2, <1>4, <1>5 DEF FailedOf, InFailed

\* A step of the batch in the zone, the decrypt task at the head being done.
LEMMA DecryptShapes ==
    ASSUME Shapes, Decrypting, Decrypt
    PROVE  /\ QueueShape' /\ BatchShape' /\ Block' /\ FlagShape'
           /\ \E ok, failed, uses :
                batch' = [left |-> batch.left - 1, items |-> batch.items,
                          ok |-> ok, failed |-> failed, uses |-> uses]
<1>1. /\ encrypted \in Seq(EncryptedTask(Arrived)) /\ encrypted # <<>>
      /\ NextItem \in ItemOf(Arrived)
      /\ batch.left \in 1 .. BatchSize /\ zone = "open"
      /\ encrypted' = Tail(encrypted) /\ batch'.left = batch.left - 1 /\ zone' = zone => Block'
  BY DecryptingFacts
<1> PICK item : item = NextItem
  OBVIOUS
<1>2. /\ Failed(item) \in FailedOf(Arrived)
      /\ item.copy \in Arrived /\ Env(item.copy) \in Envelopes
      /\ Append(batch.ok, item) \in Seq(ItemOf(Arrived))
      /\ Task("event", item.copy) \in AppTask(Arrived)
  <2>1. item.copy \in Arrived
    BY <1>1 DEF ItemOf
  <2>2. Env(item.copy) \in Envelopes
    BY <2>1 DEF Arrived, Env, Shapes, DiskShape
  <2>3. batch.ok \in Seq(ItemOf(Arrived))
    BY DEF Shapes, BatchShape
  <2>4. Task("event", item.copy) \in AppTask(Arrived)
    BY <2>1 DEF Task, AppTask
  <2>5. QED
    BY <1>1, <2>1, <2>2, <2>3, <2>4, FailedShape, AppendFacts
<1>3. batch \in [left : 0 .. BatchSize, items : SUBSET ItemOf(Arrived),
                 ok : Seq(ItemOf(Arrived)), failed : FailedOf(Arrived), uses : SUBSET Envelopes]
  BY DEF Shapes, BatchShape
<1>4. /\ UNCHANGED <<zone, arrivals, errors>> /\ encrypted' = Tail(encrypted)
      /\ \/ app' = app \/ app' = Append(app, Task("event", item.copy))
      /\ \/ decrypted' = decrypted \/ decrypted' = Append(decrypted, Task("error", item.copy))
      /\ \/ removing' = removing \/ removing' = removing \cup {item.copy}
      /\ UNCHANGED <<emptied, idleWait, timer, stopping>>
      /\ \/ faults' = faults
         \/ faults' = [faults EXCEPT !.errors = @ + 1] /\ Faults < MaxFaults
  BY DEF Decrypt, DecryptStopped, DecryptDropsEarly, DecryptThrows, DecryptReceipt,
         DecryptingContent, DecryptDuplicate, DecryptSucceeds, DecryptDrops, DecryptRejected,
         DecryptFails, DecryptTimesOut
<1>5. \E ok \in Seq(ItemOf(Arrived)), failed \in FailedOf(Arrived), uses \in SUBSET Envelopes :
        batch' = [left |-> batch.left - 1, items |-> batch.items,
                  ok |-> ok, failed |-> failed, uses |-> uses]
  <2>1. CASE batch' = [batch EXCEPT !.left = @ - 1, !.failed = Failed(item)]
    <3>1. batch' = [left |-> batch.left - 1, items |-> batch.items,
                    ok |-> batch.ok, failed |-> Failed(item), uses |-> batch.uses]
      BY <1>3, <2>1
    <3>2. QED
      BY <1>2, <1>3, <3>1
  <2>2. CASE batch' = [batch EXCEPT !.left = @ - 1, !.ok = Append(@, item),
                                    !.uses = @ \cup {Env(item.copy)}]
    <3>1. batch' = [left |-> batch.left - 1, items |-> batch.items, ok |-> Append(batch.ok, item),
                    failed |-> batch.failed, uses |-> batch.uses \cup {Env(item.copy)}]
      BY <1>3, <2>2
    <3>2. batch.uses \cup {Env(item.copy)} \in SUBSET Envelopes
      BY <1>2, <1>3
    <3>3. QED
      BY <1>2, <1>3, <3>1, <3>2
  <2>3. ASSUME NEW spent \in SUBSET {Env(item.copy)},
               batch' = [batch EXCEPT !.left = @ - 1, !.uses = @ \cup spent]
        PROVE  \E ok \in Seq(ItemOf(Arrived)), failed \in FailedOf(Arrived),
                  uses \in SUBSET Envelopes :
                    batch' = [left |-> batch.left - 1, items |-> batch.items,
                              ok |-> ok, failed |-> failed, uses |-> uses]
    <3>1. batch' = [left |-> batch.left - 1, items |-> batch.items, ok |-> batch.ok,
                    failed |-> batch.failed, uses |-> batch.uses \cup spent]
      BY <1>3, <2>3
    <3>2. batch.uses \cup spent \in SUBSET Envelopes
      BY <1>2, <1>3
    <3>3. QED
      BY <1>2, <1>3, <3>1, <3>2
  <2>4. ASSUME NEW spent \in SUBSET {Env(item.copy)},
               batch' = [batch EXCEPT !.left = @ - 1, !.failed = Failed(item),
                                      !.uses = @ \cup spent]
        PROVE  \E ok \in Seq(ItemOf(Arrived)), failed \in FailedOf(Arrived),
                  uses \in SUBSET Envelopes :
                    batch' = [left |-> batch.left - 1, items |-> batch.items,
                              ok |-> ok, failed |-> failed, uses |-> uses]
    <3>1. batch' = [left |-> batch.left - 1, items |-> batch.items, ok |-> batch.ok,
                    failed |-> Failed(item), uses |-> batch.uses \cup spent]
      BY <1>3, <2>4
    <3>2. batch.uses \cup spent \in SUBSET Envelopes
      BY <1>2, <1>3
    <3>3. QED
      BY <1>2, <1>3, <3>1, <3>2
  <2>5. CASE batch' = [batch EXCEPT !.left = @ - 1]
    <3>1. batch' = [left |-> batch.left - 1, items |-> batch.items, ok |-> batch.ok,
                    failed |-> batch.failed, uses |-> batch.uses]
      BY <1>3, <2>5
    <3>2. QED
      BY <1>3, <3>1
  <2>6. CASE DecryptDrops \/ DecryptRejected
    BY <2>3, <2>4, <2>6 DEF DecryptDrops, DecryptRejected
  <2>7. CASE DecryptTimesOut
    BY <2>4, <2>7 DEF DecryptTimesOut
  <2>8. CASE DecryptStopped \/ DecryptThrows \/ DecryptDuplicate \/ DecryptFails
    BY <2>1, <2>8 DEF DecryptStopped, DecryptThrows, DecryptDuplicate, DecryptFails
  <2>9. CASE DecryptDropsEarly \/ DecryptReceipt
    BY <2>5, <2>9 DEF DecryptDropsEarly, DecryptReceipt
  <2>10. CASE DecryptSucceeds
    BY <2>2, <2>10 DEF DecryptSucceeds
  <2>11. QED
    BY <2>6, <2>7, <2>8, <2>9, <2>10 DEF Decrypt
<1>6. BatchShape'
  <2>1. batch.left - 1 \in 0 .. BatchSize
    BY <1>1, BatchAssumption
  <2>2. QED
    BY <1>1, <1>3, <1>4, <1>5, <2>1 DEF BatchShape, Arrived
<1>7. Block'
  BY <1>1, <1>4, <1>5
<1>8. QueueShape'
  <2>1. encrypted' \in Seq(EncryptedTask(Arrived))
    BY <1>1, <1>4, TailFacts
  <2>2. decrypted' \in Seq(DecryptedTask(Arrived))
    <3>1. decrypted \in Seq(DecryptedTask(Arrived))
      BY DEF Shapes, QueueShape
    <3> PICK t : t = Task("error", item.copy)
      OBVIOUS
    <3>2. t \in DecryptedTask(Arrived)
      BY <1>2 DEF DecryptedTask, Task
    <3>3. QED
      BY <1>4, <3>1, <3>2, AppendFacts
  <2>3. removing' \in SUBSET Arrived
    BY <1>2, <1>4 DEF Shapes, QueueShape
  <2>4. app' \in Seq(AppTask(Arrived))
    <3>1. app \in Seq(AppTask(Arrived))
      BY DEF Shapes, QueueShape
    <3> PICK t : t = Task("event", item.copy)
      OBVIOUS
    <3>2. QED
      BY <1>2, <1>4, <3>1, AppendFacts
  <2>5. QED
    BY <1>4, <2>1, <2>2, <2>3, <2>4 DEF Shapes, QueueShape, Arrived
<1>9. FlagShape'
  <2>1. faults \in [errors : Nat, failures : Nat] /\ Faults <= MaxFaults /\ MaxFaults \in Nat
    BY LimitsAssumption DEF Shapes, FlagShape
  <2>2. faults' \in [errors : Nat, failures : Nat] /\ Faults' <= MaxFaults
    <3>1. CASE faults' = [faults EXCEPT !.errors = @ + 1] /\ Faults < MaxFaults
      <4>1. faults' = [errors |-> faults.errors + 1, failures |-> faults.failures]
        BY <2>1, <3>1
      <4>2. QED
        BY <2>1, <3>1, <4>1 DEF Faults
    <3>2. QED
      BY <1>4, <2>1, <3>1 DEF Faults
  <2>3. QED
    BY <1>4, <2>2 DEF Shapes, FlagShape
<1>10. QED
  BY <1>5, <1>6, <1>7, <1>8, <1>9

LEMMA DecryptionShapes ==
    ASSUME Shapes, Decrypt
    PROVE  Shapes' /\ Decrypting
<1>1. /\ Decrypting
      /\ UNCHANGED <<server, sent, connection, emptySent, arrivals, db, used, incoming, found,
                     items, waiting>>
  BY DEF Decrypt, DecryptStopped, DecryptDropsEarly, DecryptThrows, DecryptReceipt,
         DecryptingContent, DecryptDuplicate, DecryptSucceeds, DecryptDrops, DecryptRejected,
         DecryptFails, DecryptTimesOut
<1>2. QED
  BY <1>1, DecryptShapes, SameShapes DEF Shapes

\* A fault that is not a decryption's.
LEMMA FailureShape ==
    ASSUME FlagShape, Faults < MaxFaults, faults' = [faults EXCEPT !.failures = @ + 1],
           UNCHANGED <<emptied, idleWait, timer, stopping>>
    PROVE  FlagShape'
<1>1. faults \in [errors : Nat, failures : Nat] /\ Faults < MaxFaults /\ MaxFaults \in Nat
  BY LimitsAssumption DEF FlagShape
<1>2. faults' = [errors |-> faults.errors, failures |-> faults.failures + 1]
  BY <1>1
<1>3. faults' \in [errors : Nat, failures : Nat] /\ Faults' <= MaxFaults
  BY <1>1, <1>2 DEF Faults
<1>4. QED
  BY <1>3 DEF FlagShape

\* The attempts of a copy that was decrypted are those of one of its items.
LEMMA DecryptedRowShape ==
    ASSUME Shapes, NEW c \in InOk
    PROVE  DecryptedRow(c) \in Row /\ DecryptedRow(c).plain /\ c \in Arrived
<1> PICK chosen : chosen = CHOOSE item \in ToSet(batch.ok) : item.copy = c
  OBVIOUS
<1>1. chosen \in ToSet(batch.ok) /\ chosen.copy = c
  BY DEF InOk
<1>2. ToSet(batch.ok) \subseteq ItemOf(Arrived)
  BY DEF ToSet, Shapes, BatchShape
<1>3. chosen \in ItemOf(Arrived)
  BY <1>1, <1>2
<1>4. chosen.attempts \in Nat /\ c \in Arrived
  BY <1>1, <1>3 DEF ItemOf
<1>5. DecryptedRow(c) = [plain |-> TRUE, attempts |-> chosen.attempts]
  BY DEF DecryptedRow
<1>6. QED
  BY <1>4, <1>5 DEF Row

\* What a commit stores.
LEMMA CommitShapes ==
    ASSUME Shapes, Commit
    PROVE  /\ Shapes'
           /\ DOMAIN db' = DOMAIN db \cup InOk \cup InFailed
           /\ \A c \in InFailed : ~db'[c].plain
           /\ \A c \in InOk \ InFailed : db'[c].plain
           /\ \A c \in DOMAIN db \ (InOk \cup InFailed) : db'[c] = db[c]
<1> PICK copies \in SUBSET Arrived : batch.failed \in [copies -> Nat]
  BY DEF Shapes, BatchShape, FailedOf
<1>1. InFailed = copies /\ \A c \in copies : batch.failed[c] \in Nat
  BY DEF InFailed
<1>2. db' = [c \in DOMAIN db \cup InOk \cup InFailed |->
                IF c \in InFailed
                THEN [plain |-> FALSE, attempts |-> batch.failed[c]]
                ELSE IF c \in InOk THEN DecryptedRow(c) ELSE db[c]]
  BY DEF Commit, InFailed
<1>3. DOMAIN db' = DOMAIN db \cup InOk \cup InFailed
  BY <1>2
<1>4. ASSUME NEW c \in InFailed PROVE db'[c] \in Row /\ ~db'[c].plain
  <2>1. db'[c] = [plain |-> FALSE, attempts |-> batch.failed[c]]
    BY <1>2
  <2>2. QED
    BY <1>1, <2>1 DEF Row
<1>5. ASSUME NEW c \in InOk \ InFailed PROVE db'[c] \in Row /\ db'[c].plain
  BY <1>2, DecryptedRowShape
<1>6. ASSUME NEW c \in DOMAIN db \ (InOk \cup InFailed) PROVE db'[c] = db[c] /\ db[c] \in Row
  BY <1>2 DEF Shapes, DiskShape
<1>7. DiskShape'
  <2>1. \A c \in DOMAIN db' : db'[c] \in Row
    BY <1>3, <1>4, <1>5, <1>6
  <2>2. db' = [c \in DOMAIN db' |-> db'[c]]
    BY <1>2
  <2>3. db' \in [DOMAIN db' -> Row]
    BY <2>1, <2>2
  <2>4. DOMAIN db' \in SUBSET Arrived
    <3>1. InOk \subseteq Arrived
      BY DecryptedRowShape
    <3>2. QED
      BY <1>1, <1>3, <3>1 DEF Shapes, DiskShape
  <2>5. used' \in SUBSET Envelopes
    BY DEF Commit, Spent, Shapes, DiskShape, BatchShape
  <2>6. QED
    BY <2>3, <2>4, <2>5 DEF Commit, Shapes, DiskShape, Arrived, Row
<1>8. BatchShape'
  BY DEF Commit, Shapes, BatchShape, Arrived
<1>9. Block'
  BY DEF Commit, Shapes, Block
<1>10. Shapes'
  BY <1>7, <1>8, <1>9, SameShapes DEF Commit, Shapes
<1>11. QED
  BY <1>3, <1>4, <1>5, <1>6, <1>10

\* Nothing of a batch is left.
LEMMA NoBatchShape ==
    ASSUME Shapes, (zone = "open" /\ batch.left = 0) \/ zone = "saved",
           zone' \in {"free", "stuck"}, batch' = NoBatch, UNCHANGED <<encrypted, arrivals>>
    PROVE  BatchShape' /\ Block'
<1>1. NoBatch \in [left : 0 .. BatchSize, items : SUBSET ItemOf(Arrived),
                   ok : Seq(ItemOf(Arrived)), failed : FailedOf(Arrived),
                   uses : SUBSET Envelopes]
  BY NoFailures, BatchAssumption DEF NoBatch
<1>2. BatchShape'
  BY <1>1 DEF BatchShape, Arrived
<1>3. batch.left = 0 /\ batch'.left = 0
  BY DEF Shapes, Block, NoBatch
<1>4. QED
  BY <1>2, <1>3 DEF Shapes, Block

LEMMA CommitFailsShapes ==
    ASSUME Shapes, CommitFails
    PROVE  Shapes'
<1>1. BatchShape' /\ Block'
  BY NoBatchShape DEF CommitFails
<1>2. FlagShape'
  BY FailureShape DEF CommitFails, Shapes
<1>3. QED
  BY <1>1, <1>2, SameShapes DEF CommitFails, Shapes

LEMMA CommitAnsweredShapes ==
    ASSUME Shapes, CommitAnswered
    PROVE  Shapes'
<1>1. BatchShape' /\ Block'
  BY NoBatchShape DEF CommitAnswered
<1>2. NetShape'
  BY DEF CommitAnswered, Shapes, NetShape
<1>3. QueueShape'
  <2> PICK events, last : /\ events = [i \in DOMAIN batch.ok |-> Task("event", batch.ok[i].copy)]
                          /\ last = <<Task("schedule", 0)>>
    OBVIOUS
  <2>1. batch.ok \in Seq(ItemOf(Arrived)) /\ decrypted \in Seq(DecryptedTask(Arrived))
    BY DEF Shapes, QueueShape, BatchShape
  <2>2. events \in Seq(DecryptedTask(Arrived))
    <3>1. DOMAIN batch.ok = 1 .. Len(batch.ok) /\ Len(batch.ok) \in Nat
      BY <2>1
    <3>2. ASSUME NEW i \in DOMAIN batch.ok
          PROVE  Task("event", batch.ok[i].copy) \in DecryptedTask(Arrived)
      <4>1. batch.ok[i] \in ItemOf(Arrived)
        BY <2>1
      <4>2. batch.ok[i].copy \in Arrived
        BY <4>1 DEF ItemOf
      <4>3. QED
        BY <4>2 DEF Task, DecryptedTask
    <3>3. events \in [1 .. Len(batch.ok) -> DecryptedTask(Arrived)]
      BY <3>1, <3>2
    <3>4. QED
      BY <3>1, <3>3, FunctionIsSeq
  <2>3. last \in Seq(DecryptedTask(Arrived))
    BY DEF Task, DecryptedTask
  <2>4. decrypted' = decrypted \o events \o last
    BY DEF CommitAnswered
  <2>5. decrypted \o events \in Seq(DecryptedTask(Arrived))
    BY <2>1, <2>2, ConcatFacts
  <2>6. decrypted' \in Seq(DecryptedTask(Arrived))
    BY <2>3, <2>4, <2>5, ConcatFacts
  <2>7. QED
    BY <2>6 DEF CommitAnswered, Shapes, QueueShape, Arrived
<1>4. QED
  BY <1>1, <1>2, <1>3, SameShapes DEF CommitAnswered, Shapes
-------------------------------------------------------------------------------
(* The types: encryptedQueue, decryptedQueue and the application *)

LEMMA PassOnShapes ==
    ASSUME Shapes, PassOn
    PROVE  /\ Shapes'
           /\ encrypted \in Seq(EncryptedTask(Arrived)) /\ encrypted # <<>>
           /\ Head(encrypted).op # "decrypt"
<1>1. /\ encrypted \in Seq(EncryptedTask(Arrived)) /\ encrypted # <<>>
      /\ Head(encrypted).op # "decrypt" /\ encrypted' = Tail(encrypted)
  BY DEF PassOn, Shapes, QueueShape
<1> PICK t : t = IF Head(encrypted).op = "empty" THEN Head(encrypted)
                                                  ELSE Task("event", Head(encrypted).n)
  OBVIOUS
<1>2. t \in DecryptedTask(Arrived)
  <2>1. Head(encrypted) \in EncryptedTask(Arrived) /\ Head(encrypted).op \in {"cached", "empty"}
    BY <1>1, TailFacts DEF PassOn
  <2>2. CASE Head(encrypted).op = "empty"
    BY <2>1, <2>2 DEF EncryptedTask, DecryptedTask
  <2>3. CASE Head(encrypted).op = "cached"
    BY <2>1, <2>3 DEF EncryptedTask, DecryptedTask, Task
  <2>4. QED
    BY <2>1, <2>2, <2>3
<1>3. QueueShape'
  <2>1. encrypted' \in Seq(EncryptedTask(Arrived))
    BY <1>1, TailFacts
  <2>2. decrypted \in Seq(DecryptedTask(Arrived)) /\ decrypted' = Append(decrypted, t)
    BY DEF PassOn, Shapes, QueueShape
  <2>3. decrypted' \in Seq(DecryptedTask(Arrived))
    BY <1>2, <2>2, AppendFacts
  <2>4. QED
    BY <2>1, <2>3 DEF PassOn, Shapes, QueueShape, Arrived
<1>4. Block'
  <2>1. batch.left \in Nat
    BY BatchAssumption DEF Shapes, BatchShape
  <2>2. QED
    BY <1>1, <2>1, BlockShifted DEF PassOn, Shapes
<1>5. QED
  BY <1>1, <1>3, <1>4, SameShapes DEF PassOn, Shapes

\* What is at the head of decryptedQueue.
LEMMA NextDecryptedShape ==
    ASSUME QueueShape, NEW op, NextDecrypted(op), decrypted' = Tail(decrypted)
    PROVE  /\ decrypted' \in Seq(DecryptedTask(Arrived))
           /\ Head(decrypted) \in DecryptedTask(Arrived) /\ Head(decrypted).op = op
BY TailFacts DEF NextDecrypted, QueueShape

LEMMA HandleDecryptedShapes ==
    ASSUME Shapes, HandleDecrypted
    PROVE  Shapes'
<1>1. /\ decrypted' \in Seq(DecryptedTask(Arrived))
      /\ Head(decrypted) \in DecryptedTask(Arrived) /\ Head(decrypted).op = "event"
  BY NextDecryptedShape DEF HandleDecrypted, Shapes
<1>2. Head(decrypted) \in AppTask(Arrived)
  BY <1>1 DEF DecryptedTask, AppTask
<1>3. app \in Seq(AppTask(Arrived)) /\ (app' = app \/ app' = Append(app, Head(decrypted)))
  BY DEF HandleDecrypted, Shapes, QueueShape
<1>4. app' \in Seq(AppTask(Arrived))
  BY <1>2, <1>3, AppendFacts
<1>5. QueueShape'
  BY <1>1, <1>4 DEF HandleDecrypted, Shapes, QueueShape, Arrived
<1>6. QED
  BY <1>5, SameShapes DEF HandleDecrypted, Shapes

LEMMA DispatchErrorShapes ==
    ASSUME Shapes, DispatchError
    PROVE  Shapes'
<1>1. /\ decrypted' \in Seq(DecryptedTask(Arrived))
      /\ Head(decrypted) \in DecryptedTask(Arrived) /\ Head(decrypted).op = "error"
  BY NextDecryptedShape DEF DispatchError, Shapes
<1>2. Head(decrypted).n \in Arrived
  BY <1>1 DEF DecryptedTask
<1>3. QueueShape'
  BY <1>1, <1>2 DEF DispatchError, Shapes, QueueShape, Arrived
<1>4. QED
  BY <1>3, SameShapes DEF DispatchError, Shapes

LEMMA WaitForDecryptedShapes ==
    ASSUME Shapes, WaitForDecrypted
    PROVE  Shapes'
<1>1. /\ decrypted' \in Seq(DecryptedTask(Arrived))
      /\ Head(decrypted) \in DecryptedTask(Arrived) /\ Head(decrypted).op = "empty"
  BY NextDecryptedShape DEF WaitForDecrypted, Shapes
<1>2. Head(decrypted) \in AppTask(Arrived)
  BY <1>1 DEF DecryptedTask, AppTask
<1>3. app \in Seq(AppTask(Arrived)) /\ app' = Append(app, Head(decrypted))
  BY DEF WaitForDecrypted, Shapes, QueueShape
<1>4. app' \in Seq(AppTask(Arrived))
  BY <1>2, <1>3, AppendFacts
<1>5. QueueShape'
  BY <1>1, <1>4 DEF WaitForDecrypted, Shapes, QueueShape, Arrived
<1>6. QED
  BY <1>5, SameShapes DEF WaitForDecrypted, Shapes

LEMMA ScheduleRetryShapes ==
    ASSUME Shapes, ScheduleRetry
    PROVE  Shapes'
<1>1. decrypted' \in Seq(DecryptedTask(Arrived))
  BY NextDecryptedShape DEF ScheduleRetry, Shapes
<1>2. QueueShape'
  BY <1>1 DEF ScheduleRetry, Shapes, QueueShape, Arrived
<1>3. FlagShape'
  <2>1. timer' \in BOOLEAN
    BY DEF ScheduleRetry, Shapes, FlagShape
  <2>2. QED
    BY <2>1 DEF ScheduleRetry, Shapes, FlagShape, Faults
<1>4. QED
  BY <1>2, <1>3, SameShapes DEF ScheduleRetry, Shapes

\* What is at the head of the application's queue.
LEMMA AppShape ==
    ASSUME QueueShape, app # <<>>, app' = Tail(app)
    PROVE  app' \in Seq(AppTask(Arrived)) /\ Head(app) \in AppTask(Arrived)
BY TailFacts DEF QueueShape

LEMMA EmitEmptyShapes ==
    ASSUME Shapes, EmitEmpty
    PROVE  Shapes'
<1>1. app' \in Seq(AppTask(Arrived))
  BY AppShape DEF EmitEmpty, Shapes
<1>2. QueueShape'
  BY <1>1 DEF EmitEmpty, Shapes, QueueShape, Arrived
<1>3. FlagShape'
  BY DEF EmitEmpty, Shapes, FlagShape, Faults
<1>4. QED
  BY <1>2, <1>3, SameShapes DEF EmitEmpty, Shapes

LEMMA AppHandlesShapes ==
    ASSUME Shapes, AppHandles
    PROVE  Shapes' /\ Head(app).n \in Arrived
<1>1. app' \in Seq(AppTask(Arrived)) /\ Head(app) \in AppTask(Arrived) /\ Head(app).op = "event"
  BY AppShape DEF AppHandles, Shapes
<1>2. Head(app).n \in Arrived
  BY <1>1 DEF AppTask
<1>3. QueueShape'
  BY <1>1, <1>2 DEF AppHandles, Shapes, QueueShape, Arrived
<1>4. QED
  BY <1>2, <1>3, SameShapes DEF AppHandles, Shapes

LEMMA AppThrowsShapes ==
    ASSUME Shapes, AppThrows
    PROVE  Shapes'
<1>1. app' \in Seq(AppTask(Arrived))
  BY AppShape DEF AppThrows, Shapes
<1>2. QueueShape'
  BY <1>1 DEF AppThrows, Shapes, QueueShape, Arrived
<1>3. FlagShape'
  BY FailureShape DEF AppThrows, Shapes
<1>4. QED
  BY <1>2, <1>3, SameShapes DEF AppThrows, Shapes

LEMMA AppSeesErrorShapes ==
    ASSUME Shapes, AppSeesError
    PROVE  Shapes'
<1>1. QueueShape'
  BY DEF AppSeesError, Shapes, QueueShape, Arrived
<1>2. QED
  BY <1>1, SameShapes DEF AppSeesError, Shapes

LEMMA RemoveFromCacheShapes ==
    ASSUME Shapes, RemoveFromCache
    PROVE  /\ Shapes'
           /\ DOMAIN db' = DOMAIN db \ removing
           /\ \A c \in DOMAIN db' : db'[c] = db[c]
<1>1. /\ DiskShape'
      /\ DOMAIN db' = DOMAIN db \ removing
      /\ \A c \in DOMAIN db' : db'[c] = db[c]
  BY RestrictShape DEF RemoveFromCache, Shapes
<1>2. QueueShape'
  BY DEF RemoveFromCache, Shapes, QueueShape, Arrived
<1>3. QED
  BY <1>1, <1>2, SameShapes DEF RemoveFromCache, Shapes

\* A process that begins: nothing but the first fetch.
LEMMA FreshShapes ==
    ASSUME Len(arrivals) \in Nat, Len(arrivals) <= MaxArrivals,
           incoming = <<Task("fetch", 0)>>, found = NothingFound,
           items = <<>>, waiting = <<>>, zone = "free", batch = NoBatch,
           encrypted = <<>>, decrypted = <<>>, app = <<>>, errors = {}, removing = {}
    PROVE  IncomingShape /\ FoundShape /\ ItemsShape /\ QueueShape /\ BatchShape /\ Block
<1>1. IncomingShape
  <2>1. Task("fetch", 0) \in IncomingTask /\ Task("fetch", 0).op = "fetch"
    BY DEF IncomingTask, Task
  <2>2. incoming \in Seq(IncomingTask) /\ DOMAIN incoming = {1} /\ incoming[1] = Task("fetch", 0)
    BY <2>1
  <2>3. Requests = {}
    BY <2>1, <2>2 DEF Requests
  <2>4. Cardinality(Requests) = 0
    BY <2>3, FS_EmptySet
  <2>5. found.phase = "idle"
    BY DEF NothingFound
  <2>6. QED
    BY <2>2, <2>4, <2>5 DEF IncomingShape
<1>2. FoundShape
  BY DEF FoundShape, NothingFound
<1>3. ItemsShape
  <2>1. Len(items) < BatchSize
    BY BatchAssumption
  <2>2. QED
    BY <2>1 DEF ItemsShape
<1>4. QueueShape
  BY DEF QueueShape
<1>5. BatchShape
  <2>1. NoBatch \in [left : 0 .. BatchSize, items : SUBSET ItemOf(Arrived),
                     ok : Seq(ItemOf(Arrived)), failed : FailedOf(Arrived),
                     uses : SUBSET Envelopes]
    BY NoFailures, BatchAssumption DEF NoBatch
  <2>2. QED
    BY <2>1 DEF BatchShape
<1>6. Block
  <2>1. batch.left = 0
    BY DEF NoBatch
  <2>2. \A i \in DOMAIN encrypted : FALSE
    OBVIOUS
  <2>3. 0 + batch.left <= Len(encrypted) /\ 0 \in Nat
    BY <2>1
  <2>4. QED
    BY <2>2, <2>3 DEF Block
<1>7. QED
  BY <1>1, <1>2, <1>3, <1>4, <1>5, <1>6

LEMMA RestartShapes ==
    ASSUME Shapes, Restart
    PROVE  Shapes'
<1>1. Len(arrivals) \in Nat /\ Len(arrivals) <= MaxArrivals
  <2>1. Len(arrivals) \in Nat /\ Cardinality(RequestsIn(incoming)) \in Nat
    BY RequestsAreFinite DEF Shapes, DiskShape, IncomingShape
  <2>2. Requests = RequestsIn(incoming)
    BY DEF Requests, RequestsIn
  <2>3. Len(arrivals) + Cardinality(Requests) <= MaxArrivals /\ MaxArrivals \in Nat
    BY LimitsAssumption DEF Shapes, IncomingShape
  <2>4. QED
    BY <2>1, <2>2, <2>3
<1>2. IncomingShape' /\ FoundShape' /\ ItemsShape' /\ QueueShape' /\ BatchShape' /\ Block'
  <2>1. /\ (Len(arrivals) \in Nat)' /\ (Len(arrivals) <= MaxArrivals)'
        /\ (incoming = <<Task("fetch", 0)>>)' /\ (found = NothingFound)'
        /\ (items = <<>>)' /\ (waiting = <<>>)' /\ (zone = "free")' /\ (batch = NoBatch)'
        /\ (encrypted = <<>>)' /\ (decrypted = <<>>)' /\ (app = <<>>)'
        /\ (errors = {})' /\ (removing = {})'
    BY <1>1 DEF Restart
  <2>2. (/\ Len(arrivals) \in Nat /\ Len(arrivals) <= MaxArrivals
         /\ incoming = <<Task("fetch", 0)>> /\ found = NothingFound
         /\ items = <<>> /\ waiting = <<>> /\ zone = "free" /\ batch = NoBatch
         /\ encrypted = <<>> /\ decrypted = <<>> /\ app = <<>> /\ errors = {} /\ removing = {}
         => IncomingShape /\ FoundShape /\ ItemsShape /\ QueueShape /\ BatchShape /\ Block)'
    BY FreshShapes, PTL
  <2>3. QED
    BY <2>1, <2>2
<1>3. NetShape'
  BY NewConnectionShape DEF Restart, Shapes
<1>4. FlagShape'
  BY DEF Restart, NewConnection, Shapes, FlagShape, Faults
<1>5. QED
  BY <1>2, <1>3, <1>4, SameShapes DEF Restart, Shapes
-------------------------------------------------------------------------------
(* One place for each copy *)

\* What is in two places stays there when some more may be.
LEMMA OnceInWeaker ==
    ASSUME NEW b, NEW A, NEW B, A \subseteq B, OnceIn(b, A)
    PROVE  OnceIn(b, B)
BY DEF OnceIn

\* An item is added to the last batch.
LEMMA ItemAdded ==
    ASSUME NEW S, NEW w \in Seq(Seq(S)), NEW s \in Seq(S), NEW e \in S, NEW except
    PROVE  LET before == Append(w, s)
               after == Append(w, Append(s, e)) IN
           /\ CopiesOf(after) = CopiesOf(before) \cup {e.copy}
           /\ OnceIn(before, except) /\ (e.copy \in CopiesOf(before) => e.copy \in except)
                => OnceIn(after, except)
<1>0. PICK before, all, after, m, n :
        /\ before = Append(w, s) /\ all = Append(s, e) /\ after = Append(w, all)
        /\ m = Len(w) + 1 /\ n = Len(s) + 1
  OBVIOUS
<1>1. /\ all \in Seq(S) /\ DOMAIN all = 1 .. n /\ DOMAIN s = 1 .. Len(s) /\ Len(s) \in Nat
      /\ \A k \in 1 .. Len(s) : all[k] = s[k]
      /\ all[n] = e
  BY <1>0, AppendFacts
<1>2. /\ DOMAIN before = 1 .. m /\ DOMAIN after = 1 .. m /\ Len(w) \in Nat
      /\ \A i \in 1 .. Len(w) : before[i] = w[i]
      /\ \A i \in 1 .. Len(w) : after[i] = w[i]
      /\ before[m] = s /\ after[m] = all
  BY <1>0, <1>1, AppendFacts
<1>3. /\ DOMAIN before = DOMAIN after /\ m \in DOMAIN after
      /\ \A i \in DOMAIN after : i # m => after[i] = before[i]
      /\ n \in DOMAIN all /\ n \notin DOMAIN s
      /\ \A k \in DOMAIN all : k # n => k \in DOMAIN s /\ all[k] = s[k]
      /\ \A k \in DOMAIN s : k \in DOMAIN all /\ k # n /\ all[k] = s[k]
      /\ before[m] = s /\ after[m] = all /\ all[n] = e
  <2>1. m \in 1 .. m /\ n \in 1 .. n /\ n \notin 1 .. Len(s)
    BY <1>0, <1>1, <1>2
  <2>2. \A i \in 1 .. m : i # m => i \in 1 .. Len(w)
    BY <1>0, <1>2
  <2>3. \A k \in 1 .. n : k # n => k \in 1 .. Len(s)
    BY <1>0, <1>1
  <2>4. \A k \in 1 .. Len(s) : k \in 1 .. n
    BY <1>0, <1>1
  <2>5. QED
    BY <1>1, <1>2, <2>1, <2>2, <2>3, <2>4
\* An item of the batches after is one of those before, or the new one.
<1>4. ASSUME NEW i \in DOMAIN after, NEW k \in DOMAIN after[i]
      PROVE  \/ i = m /\ k = n /\ after[i][k] = e
             \/ k \in DOMAIN before[i] /\ after[i][k] = before[i][k] /\ ~ (i = m /\ k = n)
  BY <1>3
<1>5. ASSUME NEW i \in DOMAIN before, NEW k \in DOMAIN before[i]
      PROVE  k \in DOMAIN after[i] /\ after[i][k] = before[i][k]
  BY <1>3
<1>6. CopiesOf(after) = CopiesOf(before) \cup {e.copy}
  <2>1. \A c \in CopiesOf(after) : c \in CopiesOf(before) \cup {e.copy}
    BY <1>3, <1>4 DEF CopiesOf
  <2>2. \A c \in CopiesOf(before) : c \in CopiesOf(after)
    BY <1>3, <1>5 DEF CopiesOf
  <2>3. e.copy \in CopiesOf(after)
    <3>1. m \in DOMAIN after /\ n \in DOMAIN after[m] /\ after[m][n] = e
      BY <1>3
    <3>2. \A i \in DOMAIN after : \A k \in DOMAIN after[i] : after[i][k].copy \in CopiesOf(after)
      BY DEF CopiesOf
    <3>3. QED
      BY <3>1, <3>2
  <2>4. QED
    BY <2>1, <2>2, <2>3
<1>7. ASSUME OnceIn(before, except), e.copy \in CopiesOf(before) => e.copy \in except
      PROVE  OnceIn(after, except)
  <2>1. \A p \in DOMAIN before : \A q \in DOMAIN before[p] : before[p][q].copy \in CopiesOf(before)
    BY DEF CopiesOf
  <2>2. \A i, j \in DOMAIN before : \A k \in DOMAIN before[i], l \in DOMAIN before[j] :
            before[i][k].copy = before[j][l].copy /\ (i # j \/ k # l)
            => before[i][k].copy \in except
    BY <1>7 DEF OnceIn
  <2>3. ASSUME NEW i \in DOMAIN after, NEW j \in DOMAIN after,
               NEW k \in DOMAIN after[i], NEW l \in DOMAIN after[j],
               after[i][k].copy = after[j][l].copy, i # j \/ k # l
        PROVE  after[i][k].copy \in except
    <3>1. CASE i = m /\ k = n
      <4>1. l \in DOMAIN before[j] /\ after[j][l] = before[j][l]
        BY <1>4, <2>3, <3>1
      <4>2. after[i][k].copy = e.copy
        BY <1>3, <3>1
      <4>3. QED
        BY <1>3, <1>7, <2>1, <2>3, <4>1, <4>2
    <3>2. CASE j = m /\ l = n
      <4>1. k \in DOMAIN before[i] /\ after[i][k] = before[i][k]
        BY <1>4, <2>3, <3>2
      <4>2. after[j][l].copy = e.copy
        BY <1>3, <3>2
      <4>3. QED
        BY <1>3, <1>7, <2>1, <2>3, <4>1, <4>2
    <3>3. CASE ~ (i = m /\ k = n) /\ ~ (j = m /\ l = n)
      <4>1. /\ k \in DOMAIN before[i] /\ after[i][k] = before[i][k]
            /\ l \in DOMAIN before[j] /\ after[j][l] = before[j][l]
        BY <1>4, <3>3
      <4>2. QED
        BY <1>3, <2>2, <2>3, <4>1
    <3>4. QED
      BY <3>1, <3>2, <3>3
  <2>4. QED
    BY <2>3 DEF OnceIn
<1>8. QED
  BY <1>0, <1>6, <1>7

\* A batch that is empty has no copies.
LEMMA EmptyBatchAdded ==
    ASSUME NEW S, NEW b \in Seq(Seq(S)), NEW except
    PROVE  /\ CopiesOf(Append(b, <<>>)) = CopiesOf(b)
           /\ OnceIn(b, except) => OnceIn(Append(b, <<>>), except)
<1> PICK after, m : after = Append(b, <<>>) /\ m = Len(b) + 1
  OBVIOUS
<1>1. /\ DOMAIN b = 1 .. Len(b) /\ DOMAIN after = 1 .. m /\ Len(b) \in Nat
      /\ \A i \in 1 .. Len(b) : after[i] = b[i]
      /\ after[m] = <<>>
  BY AppendFacts
<1>2. \A k \in DOMAIN << >> : FALSE
  OBVIOUS
<1>3. ASSUME NEW i \in DOMAIN after, NEW k \in DOMAIN after[i]
      PROVE  i \in DOMAIN b /\ after[i] = b[i]
  <2>1. i # m
    BY <1>1, <1>2
  <2>2. QED
    BY <1>1, <2>1
<1>4. \A i \in DOMAIN b : i \in DOMAIN after /\ after[i] = b[i]
  BY <1>1
<1>5. CopiesOf(after) = CopiesOf(b)
  BY <1>3, <1>4 DEF CopiesOf
<1>6. OnceIn(b, except) => OnceIn(after, except)
  BY <1>3 DEF OnceIn
<1>7. QED
  BY <1>5, <1>6

\* The first of some batches, and the others.
LEMMA FirstBatch ==
    ASSUME NEW S, NEW b \in Seq(Seq(S)), b # <<>>, NEW except, OnceIn(b, except)
    PROVE  /\ OnceIn(Tail(b), except)
           /\ CopiesOf(Tail(b)) \subseteq CopiesOf(b)
           /\ \A k \in DOMAIN b[1] :
                /\ b[1][k].copy \in CopiesOf(b)
                /\ b[1][k].copy \in CopiesOf(Tail(b)) => b[1][k].copy \in except
                /\ \A l \in DOMAIN b[1] :
                      k # l /\ b[1][k].copy = b[1][l].copy => b[1][k].copy \in except
<1> PICK rest : rest = Tail(b)
  OBVIOUS
<1>1. /\ Len(b) \in Nat /\ Len(b) >= 1 /\ DOMAIN b = 1 .. Len(b)
      /\ DOMAIN rest = 1 .. Len(b) - 1
      /\ \A i \in 1 .. Len(b) - 1 : rest[i] = b[i + 1]
  BY TailFacts
<1>2. /\ 1 \in DOMAIN b
      /\ \A i \in DOMAIN rest : i + 1 \in DOMAIN b /\ rest[i] = b[i + 1] /\ i + 1 # 1
      /\ \A i, j \in DOMAIN rest : i # j => i + 1 # j + 1
  BY <1>1
<1>3. OnceIn(rest, except)
  <2> SUFFICES ASSUME NEW i \in DOMAIN rest, NEW j \in DOMAIN rest,
                      NEW k \in DOMAIN rest[i], NEW l \in DOMAIN rest[j],
                      rest[i][k].copy = rest[j][l].copy, i # j \/ k # l
               PROVE  rest[i][k].copy \in except
    BY DEF OnceIn
  <2> PICK p, q : p = i + 1 /\ q = j + 1
    OBVIOUS
  <2>1. /\ p \in DOMAIN b /\ q \in DOMAIN b /\ rest[i] = b[p] /\ rest[j] = b[q]
        /\ p # q \/ k # l
    BY <1>2
  <2>2. QED
    BY <2>1 DEF OnceIn
<1>4. CopiesOf(rest) \subseteq CopiesOf(b)
  BY <1>2 DEF CopiesOf
<1>5. ASSUME NEW k \in DOMAIN b[1]
      PROVE  /\ b[1][k].copy \in CopiesOf(b)
             /\ b[1][k].copy \in CopiesOf(rest) => b[1][k].copy \in except
             /\ \A l \in DOMAIN b[1] :
                  k # l /\ b[1][k].copy = b[1][l].copy => b[1][k].copy \in except
  <2>1. b[1][k].copy \in CopiesOf(b)
    BY <1>2 DEF CopiesOf
  <2>2. ASSUME b[1][k].copy \in CopiesOf(rest) PROVE b[1][k].copy \in except
    <3> PICK i \in DOMAIN rest : \E l \in DOMAIN rest[i] : b[1][k].copy = rest[i][l].copy
      BY <2>2 DEF CopiesOf
    <3> PICK l \in DOMAIN rest[i] : b[1][k].copy = rest[i][l].copy
      OBVIOUS
    <3> PICK p : p = i + 1
      OBVIOUS
    <3>1. p \in DOMAIN b /\ p # 1 /\ rest[i] = b[p]
      BY <1>2
    <3>2. QED
      BY <1>2, <3>1 DEF OnceIn
  <2>3. ASSUME NEW l \in DOMAIN b[1], k # l, b[1][k].copy = b[1][l].copy
        PROVE  b[1][k].copy \in except
    BY <1>2, <2>3 DEF OnceIn
  <2>4. QED
    BY <2>1, <2>2, <2>3
<1>6. QED
  BY <1>3, <1>4, <1>5
-------------------------------------------------------------------------------
(* The places and the steps *)

\* The copies in a place have arrived.
LEMMA PlacesArrived ==
    ASSUME Shapes
    PROVE  /\ Batches \in Seq(Seq(ItemOf(Arrived)))
           /\ InBatches \subseteq Arrived /\ InEncrypted \subseteq Arrived
           /\ InOk \subseteq Arrived /\ InFailed \subseteq Arrived
<1>1. /\ Batches \in Seq(Seq(ItemOf(Arrived)))
  BY AppendFacts DEF Batches, Shapes, ItemsShape
<1>2. InBatches \subseteq Arrived
  <2> SUFFICES ASSUME NEW i \in DOMAIN Batches, NEW k \in DOMAIN Batches[i]
               PROVE  Batches[i][k].copy \in Arrived
    BY DEF InBatches, CopiesOf
  <2>1. Batches[i] \in Seq(ItemOf(Arrived))
    BY <1>1
  <2>2. Batches[i][k] \in ItemOf(Arrived)
    BY <2>1
  <2>3. QED
    BY <2>2 DEF ItemOf
<1>3. InEncrypted \subseteq Arrived
  <2> SUFFICES ASSUME NEW i \in Tasks PROVE encrypted[i].item.copy \in Arrived
    BY DEF InEncrypted
  <2>1. encrypted \in Seq(EncryptedTask(Arrived)) /\ i \in DOMAIN encrypted
    BY DEF Tasks, Shapes, QueueShape
  <2>2. encrypted[i] \in EncryptedTask(Arrived) /\ encrypted[i].op = "decrypt"
    BY <2>1 DEF Tasks
  <2>3. QED
    BY <2>2 DEF EncryptedTask, ItemOf
<1>4. InOk \subseteq Arrived
  BY DecryptedRowShape
<1>5. InFailed \subseteq Arrived
  BY DEF InFailed, Shapes, BatchShape, FailedOf
<1>6. QED
  BY <1>1, <1>2, <1>3, <1>4, <1>5

\* The places in the words of the model.
LEMMA UndecryptedPlaces ==
    ASSUME Shapes
    PROVE  Undecrypted = InBatches \cup InEncrypted \cup InOk \cup InFailed
<1>1. InBatches = {items[i].copy : i \in DOMAIN items}
          \cup UNION {{waiting[i][k].copy : k \in DOMAIN waiting[i]} : i \in DOMAIN waiting}
  <2> PICK b : b = Batches
    OBVIOUS
  <2>1. /\ Len(waiting) \in Nat /\ DOMAIN waiting = 1 .. Len(waiting)
        /\ DOMAIN b = 1 .. Len(waiting) + 1
        /\ \A i \in 1 .. Len(waiting) : b[i] = waiting[i]
        /\ b[Len(waiting) + 1] = items
    BY AppendFacts DEF Batches, Shapes, ItemsShape
  <2>2. /\ \A i \in DOMAIN b : (i \in DOMAIN waiting /\ b[i] = waiting[i]) \/ b[i] = items
        /\ \A i \in DOMAIN waiting : i \in DOMAIN b /\ b[i] = waiting[i]
        /\ \E i \in DOMAIN b : b[i] = items
    BY <2>1
  <2>3. CopiesOf(b) = {items[i].copy : i \in DOMAIN items}
          \cup UNION {{waiting[i][k].copy : k \in DOMAIN waiting[i]} : i \in DOMAIN waiting}
    <3> PICK U, V : /\ U = {items[i].copy : i \in DOMAIN items}
                    /\ V = UNION {{waiting[i][k].copy : k \in DOMAIN waiting[i]} : i \in DOMAIN waiting}
      OBVIOUS
    <3>1. \A i \in DOMAIN b : \A k \in DOMAIN b[i] : b[i][k].copy \in U \cup V
      BY <2>2
    <3>2. \A k \in DOMAIN items : items[k].copy \in CopiesOf(b)
      BY <2>2 DEF CopiesOf
    <3>3. \A i \in DOMAIN waiting : \A k \in DOMAIN waiting[i] : waiting[i][k].copy \in CopiesOf(b)
      BY <2>2 DEF CopiesOf
    <3>4. CopiesOf(b) \subseteq U \cup V
      BY <3>1 DEF CopiesOf
    <3>5. U \cup V \subseteq CopiesOf(b)
      BY <3>2, <3>3
    <3>6. QED
      BY <3>4, <3>5
  <2>4. QED
    BY <2>3 DEF InBatches
<1>2. InEncrypted = {encrypted[i].item.copy : i \in Tasks}
  BY DEF InEncrypted
<1>3. QED
  BY <1>1, <1>2 DEF Undecrypted, InFailed

\* A step that moves no copy.
LEMMA SamePlaces ==
    ASSUME UNCHANGED <<arrivals, items, waiting, encrypted, batch, doubled>>
    PROVE  /\ Once => Once'
           /\ InBatches' = InBatches /\ InEncrypted' = InEncrypted
           /\ InOk' = InOk /\ InFailed' = InFailed /\ Twice' = Twice
<1>1. InBatches' = InBatches /\ Batches' = Batches
  BY DEF InBatches, Batches, CopiesOf
<1>2. InEncrypted' = InEncrypted /\ Tasks' = Tasks
  BY DEF InEncrypted, Tasks
<1>3. InOk' = InOk /\ InFailed' = InFailed
  BY DEF InOk, InFailed
<1>4. Twice' = Twice
  BY DEF Twice, Arrived, Env
<1>5. OnceInBatches => OnceInBatches'
  BY <1>1, <1>4 DEF OnceInBatches
<1>6. OnceInEncrypted => OnceInEncrypted'
  BY <1>2, <1>4 DEF OnceInEncrypted
<1>7. Apart => Apart'
  BY <1>1, <1>2, <1>3, <1>4 DEF Apart
<1>8. QED
  BY <1>1, <1>2, <1>3, <1>4, <1>5, <1>6, <1>7 DEF Once

\* A step of which Twice, the batch in the zone and encryptedQueue know nothing.
LEMMA OthersStay ==
    ASSUME UNCHANGED <<encrypted, batch>>
    PROVE  /\ InEncrypted' = InEncrypted /\ Tasks' = Tasks
           /\ InOk' = InOk /\ InFailed' = InFailed
BY DEF InEncrypted, Tasks, InOk, InFailed

\* The batcher gets an item, from the server or from a row.
LEMMA AddItemPlaces ==
    ASSUME NEW S, items \in Seq(S), waiting \in Seq(Seq(S)), NEW item \in S, AddItem(item),
           NEW except, OnceIn(Batches, except), item.copy \in InBatches => item.copy \in except
    PROVE  InBatches' = InBatches \cup {item.copy} /\ OnceIn(Batches', except)
<1>0. PICK all, after : all = Append(items, item) /\ after = Append(waiting, all)
  OBVIOUS
<1>1. /\ CopiesOf(after) = CopiesOf(Batches) \cup {item.copy}
      /\ OnceIn(after, except)
  BY <1>0, ItemAdded DEF Batches, InBatches
<1>2. CASE Len(all) >= BatchSize
  <2>1. items' = <<>> /\ waiting' = after
    BY <1>0, <1>2 DEF AddItem
  <2>2. after \in Seq(Seq(S))
    BY <1>0, AppendFacts
  <2>3. Batches' = Append(after, <<>>)
    BY <2>1 DEF Batches
  <2>4. QED
    BY <1>1, <2>2, <2>3, EmptyBatchAdded DEF InBatches
<1>3. CASE ~ (Len(all) >= BatchSize)
  <2>1. items' = all /\ waiting' = waiting
    BY <1>0, <1>3 DEF AddItem
  <2>2. Batches' = after
    BY <1>0, <2>1 DEF Batches
  <2>3. QED
    BY <1>1, <2>2 DEF InBatches
<1>4. QED
  BY <1>2, <1>3

\* With one copy more in the batcher, which is in no place or was queued twice.
LEMMA OnceAdded ==
    ASSUME Once, UNCHANGED <<encrypted, batch>>, Twice \subseteq Twice',
           NEW c, c \in Undecrypted => c \in Twice',
           Undecrypted = InBatches \cup InEncrypted \cup InOk \cup InFailed,
           InBatches' = InBatches \cup {c}, OnceIn(Batches', Twice')
    PROVE  Once'
<1>1. OnceInBatches'
  BY DEF OnceInBatches
<1>2. OnceInEncrypted'
  BY OthersStay DEF Once, OnceInEncrypted
<1>3. Apart'
  BY OthersStay DEF Once, Apart
<1>4. QED
  BY <1>1, <1>2, <1>3 DEF Once

\* A task at the end of encryptedQueue that is no decryption.
LEMMA EncryptedAppended ==
    ASSUME NEW S, encrypted \in Seq(S), NEW t \in S, t.op # "decrypt",
           encrypted' = Append(encrypted, t)
    PROVE  /\ Tasks' = Tasks /\ InEncrypted' = InEncrypted
           /\ \A i \in Tasks : encrypted'[i] = encrypted[i]
<1>1. /\ Len(encrypted) \in Nat /\ DOMAIN encrypted = 1 .. Len(encrypted)
      /\ DOMAIN encrypted' = 1 .. Len(encrypted) + 1
      /\ \A i \in 1 .. Len(encrypted) : encrypted'[i] = encrypted[i]
      /\ encrypted'[Len(encrypted) + 1] = t
  BY AppendFacts
<1>2. /\ \A i \in DOMAIN encrypted : i \in DOMAIN encrypted' /\ encrypted'[i] = encrypted[i]
      /\ \A i \in DOMAIN encrypted' : i \in DOMAIN encrypted \/ encrypted'[i] = t
  BY <1>1
<1>3. Tasks' = Tasks /\ \A i \in Tasks : encrypted'[i] = encrypted[i]
  BY <1>2 DEF Tasks
<1>4. QED
  BY <1>3 DEF InEncrypted

\* encryptedQueue without its head.
LEMMA EncryptedShifted ==
    ASSUME NEW S, encrypted \in Seq(S), encrypted # <<>>, encrypted' = Tail(encrypted)
    PROVE  /\ \A i \in Tasks' : i + 1 \in Tasks /\ encrypted'[i] = encrypted[i + 1] /\ i + 1 # 1
           /\ \A i \in Tasks : i # 1 => i - 1 \in Tasks' /\ encrypted'[i - 1] = encrypted[i]
           /\ \A i, k \in Tasks' : i # k => i + 1 # k + 1
           /\ encrypted[1].op = "decrypt" => 1 \in Tasks
<1>1. /\ Len(encrypted) \in Nat /\ Len(encrypted) >= 1 /\ DOMAIN encrypted = 1 .. Len(encrypted)
      /\ DOMAIN encrypted' = 1 .. Len(encrypted) - 1
      /\ \A i \in 1 .. Len(encrypted) - 1 : encrypted'[i] = encrypted[i + 1]
  BY TailFacts
<1>2. /\ \A i \in DOMAIN encrypted' :
            i \in Int /\ i + 1 \in DOMAIN encrypted /\ encrypted'[i] = encrypted[i + 1] /\ i + 1 # 1
      /\ \A i \in DOMAIN encrypted : i # 1 => i - 1 \in DOMAIN encrypted' /\ (i - 1) + 1 = i
      /\ 1 \in DOMAIN encrypted
  BY <1>1
<1>3. \A i \in Tasks' : i \in Int /\ i + 1 \in Tasks /\ encrypted'[i] = encrypted[i + 1] /\ i + 1 # 1
  BY <1>2 DEF Tasks
<1>4. ASSUME NEW i \in Tasks, i # 1 PROVE i - 1 \in Tasks' /\ encrypted'[i - 1] = encrypted[i]
  <2>1. i - 1 \in DOMAIN encrypted' /\ encrypted'[i - 1] = encrypted[i]
    BY <1>2, <1>4 DEF Tasks
  <2>2. QED
    BY <2>1 DEF Tasks
<1>5. \A i, k \in Tasks' : i # k => i + 1 # k + 1
  BY <1>3
<1>6. encrypted[1].op = "decrypt" => 1 \in Tasks
  BY <1>2 DEF Tasks
<1>7. QED
  BY <1>3, <1>4, <1>5, <1>6

\* The decrypt tasks that stay are apart as they were, and the one that leaves too.
LEMMA OnceInEncryptedShifted ==
    ASSUME NEW S, encrypted \in Seq(S), encrypted # <<>>, encrypted' = Tail(encrypted),
           OnceInEncrypted, Twice \subseteq Twice'
    PROVE  /\ OnceInEncrypted'
           /\ InEncrypted' \subseteq InEncrypted
           /\ encrypted[1].op = "decrypt" =>
                /\ encrypted[1].item.copy \in InEncrypted
                /\ encrypted[1].item.copy \in InEncrypted' => encrypted[1].item.copy \in Twice
                /\ InEncrypted \subseteq InEncrypted' \cup {encrypted[1].item.copy}
           /\ encrypted[1].op # "decrypt" => InEncrypted' = InEncrypted
<1>1. /\ \A i \in Tasks' : i + 1 \in Tasks /\ encrypted'[i] = encrypted[i + 1] /\ i + 1 # 1
      /\ \A i \in Tasks : i # 1 => i - 1 \in Tasks' /\ encrypted'[i - 1] = encrypted[i]
      /\ \A i, k \in Tasks' : i # k => i + 1 # k + 1
      /\ encrypted[1].op = "decrypt" => 1 \in Tasks
  BY EncryptedShifted
<1>2. OnceInEncrypted'
  <2> SUFFICES ASSUME NEW i \in Tasks', NEW k \in Tasks',
                      encrypted'[i].item.copy = encrypted'[k].item.copy, i # k
               PROVE  encrypted'[i].item.copy \in Twice'
    BY DEF OnceInEncrypted
  <2> PICK p, q : p = i + 1 /\ q = k + 1
    OBVIOUS
  <2>1. /\ p \in Tasks /\ q \in Tasks /\ p # q
        /\ encrypted'[i] = encrypted[p] /\ encrypted'[k] = encrypted[q]
    BY <1>1
  <2>2. encrypted[p].item.copy \in Twice
    BY <2>1 DEF OnceInEncrypted
  <2>3. QED
    BY <2>1, <2>2
<1>3. InEncrypted' \subseteq InEncrypted
  <2>1. ASSUME NEW i \in Tasks' PROVE encrypted'[i].item.copy \in InEncrypted
    <3> PICK p : p = i + 1
      OBVIOUS
    <3>1. p \in Tasks /\ encrypted'[i] = encrypted[p]
      BY <1>1
    <3>2. QED
      BY <3>1 DEF InEncrypted
  <2>2. QED
    BY <2>1 DEF InEncrypted
<1>4. \A i \in Tasks : i = 1 \/ encrypted[i].item.copy \in InEncrypted'
  BY <1>1 DEF InEncrypted
<1>5. ASSUME encrypted[1].op = "decrypt"
      PROVE  /\ encrypted[1].item.copy \in InEncrypted
             /\ encrypted[1].item.copy \in InEncrypted' => encrypted[1].item.copy \in Twice
             /\ InEncrypted \subseteq InEncrypted' \cup {encrypted[1].item.copy}
  <2>1. encrypted[1].item.copy \in InEncrypted
    BY <1>1, <1>5 DEF InEncrypted
  <2>2. ASSUME encrypted[1].item.copy \in InEncrypted' PROVE encrypted[1].item.copy \in Twice
    <3> PICK i \in Tasks' : encrypted'[i].item.copy = encrypted[1].item.copy
      BY <2>2 DEF InEncrypted
    <3> PICK p : p = i + 1
      OBVIOUS
    <3>1. p \in Tasks /\ p # 1 /\ encrypted[p].item.copy = encrypted[1].item.copy /\ 1 \in Tasks
      BY <1>1, <1>5
    <3>2. QED
      BY <3>1 DEF OnceInEncrypted
  <2>3. InEncrypted \subseteq InEncrypted' \cup {encrypted[1].item.copy}
    BY <1>4 DEF InEncrypted
  <2>4. QED
    BY <2>1, <2>2, <2>3
<1>6. ASSUME encrypted[1].op # "decrypt" PROVE InEncrypted' = InEncrypted
  <2>1. 1 \notin Tasks
    BY <1>6 DEF Tasks
  <2>2. InEncrypted \subseteq InEncrypted'
    BY <1>4, <2>1 DEF InEncrypted
  <2>3. QED
    BY <1>3, <2>2
<1>7. QED
  BY <1>2, <1>3, <1>5, <1>6

\* What was stored as decrypted, after steps that store nothing as such.
LEMMA PlainStays ==
    ASSUME DOMAIN db' \subseteq DOMAIN db, \A c \in DOMAIN db' : db'[c].plain = db[c].plain
    PROVE  Plain' \subseteq Plain
BY DEF Plain

\* A step that moves no copy and stores nothing as decrypted.
LEMMA OrderlyStays ==
    ASSUME Orderly, UNCHANGED <<arrivals, items, waiting, encrypted, batch, doubled>>,
           Plain' \subseteq Plain
    PROVE  Orderly'
<1>1. /\ Once'
      /\ InBatches' = InBatches /\ InEncrypted' = InEncrypted /\ InFailed' = InFailed
      /\ Twice' = Twice
  BY SamePlaces DEF Orderly
<1>2. PendingIsNotPlain'
  BY <1>1 DEF Orderly, PendingIsNotPlain
<1>3. QED
  BY <1>1, <1>2 DEF Orderly

\* A step that only removes copies from their places.
LEMMA OrderlyWithout ==
    ASSUME Orderly, OnceInBatches', OnceInEncrypted',
           InBatches' \subseteq InBatches, InEncrypted' \subseteq InEncrypted,
           InOk' \subseteq InOk, InFailed' \subseteq InFailed,
           Twice' = Twice, Plain' \subseteq Plain
    PROVE  Orderly'
<1>1. Apart'
  BY DEF Orderly, Once, Apart
<1>2. PendingIsNotPlain'
  BY DEF Orderly, PendingIsNotPlain
<1>3. QED
  BY <1>1, <1>2 DEF Orderly, Once

LEMMA SameTwice ==
    ASSUME UNCHANGED <<arrivals, doubled>>
    PROVE  Twice' = Twice
BY DEF Twice, Arrived, Env

\* encryptedQueue gets, or passes on, what is no decryption.
LEMMA WaitForIncomingOrder ==
    ASSUME Shapes, Orderly, WaitForIncoming
    PROVE  Orderly'
<1> PICK t : t = Task("empty", 0)
  OBVIOUS
<1>1. t \in EncryptedTask(Arrived) /\ t.op # "decrypt" /\ encrypted' = Append(encrypted, t)
  BY DEF EncryptedTask, Task, WaitForIncoming
<1>2. encrypted \in Seq(EncryptedTask(Arrived))
  BY DEF Shapes, QueueShape
<1>3. Tasks' = Tasks /\ InEncrypted' = InEncrypted /\ \A i \in Tasks : encrypted'[i] = encrypted[i]
  BY <1>1, <1>2, EncryptedAppended
<1>4. Twice' = Twice /\ Plain' = Plain
  BY SameTwice DEF WaitForIncoming, Plain
<1>5. OnceInEncrypted'
  BY <1>3, <1>4 DEF Orderly, Once, OnceInEncrypted
<1>6. Batches' = Batches /\ InBatches' = InBatches /\ InOk' = InOk /\ InFailed' = InFailed
  BY DEF WaitForIncoming, Batches, InBatches, CopiesOf, InOk, InFailed
<1>7. OnceInBatches'
  BY <1>4, <1>6 DEF Orderly, Once, OnceInBatches
<1>8. QED
  BY <1>3, <1>4, <1>5, <1>6, <1>7, OrderlyWithout

LEMMA PassOnOrder ==
    ASSUME Shapes, Orderly, PassOn
    PROVE  Orderly'
<1>1. /\ encrypted \in Seq(EncryptedTask(Arrived)) /\ encrypted # <<>>
      /\ encrypted' = Tail(encrypted)
  BY PassOnShapes DEF PassOn
<1>2. Twice' = Twice /\ Plain' = Plain
  BY SameTwice DEF PassOn, Plain
<1>3. OnceInEncrypted' /\ InEncrypted' \subseteq InEncrypted
  BY <1>1, <1>2, OnceInEncryptedShifted DEF Orderly, Once
<1>4. Batches' = Batches /\ InBatches' = InBatches /\ InOk' = InOk /\ InFailed' = InFailed
  BY DEF PassOn, Batches, InBatches, CopiesOf, InOk, InFailed
<1>5. OnceInBatches'
  BY <1>2, <1>4 DEF Orderly, Once, OnceInBatches
<1>6. QED
  BY <1>2, <1>3, <1>4, <1>5, OrderlyWithout

\* A new copy is in no place and has no row.
LEMMA HandleRequestOrder ==
    ASSUME Shapes, Orderly, HandleRequest
    PROVE  Orderly'
<1> PICK c, item : c = Len(arrivals) + 1 /\ item = Item(c, 0, Head(incoming).conn)
  OBVIOUS
<1>1. /\ Arrived \subseteq Arrived' /\ c \in Arrived' \ Arrived
      /\ \A k \in Arrived : Env(k)' = Env(k)
  BY HandleRequestShapes
<1>2. /\ Undecrypted = InBatches \cup InEncrypted \cup InOk \cup InFailed
      /\ Undecrypted \subseteq Arrived
  BY PlacesArrived, UndecryptedPlaces
<1>3. Twice \subseteq Twice'
  BY <1>1 DEF HandleRequest, Twice
<1>4. UNCHANGED <<encrypted, batch, db>> /\ AddItem(item) /\ item.copy = c
  BY DEF HandleRequest, Item
<1>5. InBatches' = InBatches \cup {c} /\ OnceIn(Batches', Twice')
  <2>1. PICK S : S = ItemOf(Arrived')
    OBVIOUS
  <2>2. item \in S
    <3>1. incoming \in Seq(IncomingTask) /\ incoming # <<>> /\ Head(incoming).op = "request"
      BY DEF HandleRequest, Shapes, IncomingShape
    <3>2. Head(incoming) \in IncomingTask
      BY <3>1, TailFacts
    <3>3. Head(incoming).conn \in 1 .. MaxConnections
      BY <3>1, <3>2 DEF IncomingTask
    <3>4. QED
      BY <1>1, <2>1, <3>3, LimitsAssumption DEF ItemOf, Item
  <2>3. items \in Seq(S) /\ waiting \in Seq(Seq(S))
    <3>1. ItemOf(Arrived) \subseteq S
      BY <1>1, <2>1, Wider
    <3>2. Seq(ItemOf(Arrived)) \subseteq Seq(S)
      BY <3>1, SeqWider
    <3>3. QED
      BY <3>1, <3>2, SeqWider DEF Shapes, ItemsShape
  <2>4. OnceIn(Batches, Twice')
    BY <1>3, OnceInWeaker DEF Orderly, Once, OnceInBatches
  <2>5. item.copy \notin InBatches
    BY <1>1, <1>2, <1>4
  <2> PICK except : except = Twice'
    OBVIOUS
  <2>6. InBatches' = InBatches \cup {item.copy} /\ OnceIn(Batches', except)
    BY <1>4, <2>2, <2>3, <2>4, <2>5, AddItemPlaces
  <2>7. QED
    BY <1>4, <2>6
<1>6. Once'
  BY <1>1, <1>2, <1>3, <1>4, <1>5, OnceAdded DEF Orderly
<1>7. PendingIsNotPlain'
  <2>1. InEncrypted' = InEncrypted /\ InFailed' = InFailed
    BY <1>4, OthersStay
  <2>2. Plain' = Plain /\ Plain \subseteq Arrived
    BY <1>4 DEF Plain, Shapes, DiskShape
  <2>3. QED
    BY <1>1, <1>3, <1>5, <2>1, <2>2 DEF Orderly, PendingIsNotPlain
<1>8. QED
  BY <1>6, <1>7 DEF Orderly

\* A row that is queued while its copy is in a place, or is decrypted, is so marked.
LEMMA QueueCachedOrder ==
    ASSUME Shapes, Orderly, QueueCached
    PROVE  Orderly'
<1> PICK row : row = Head(found.rows)
  OBVIOUS
<1>1. row \in FoundRow(Arrived)
  <2>1. found.rows \in Seq(FoundRow(Arrived)) /\ found.rows # <<>>
    BY DEF QueueCached, Shapes, FoundShape
  <2>2. QED
    BY <2>1, TailFacts
<1>2. UNCHANGED <<arrivals, db, batch>>
  BY DEF QueueCached
<1>3. Plain' = Plain
  BY <1>2 DEF Plain
<1>4. CASE row.plain
  <2> PICK t : t = Task("cached", row.copy)
    OBVIOUS
  <2>1. t \in EncryptedTask(Arrived) /\ t.op # "decrypt" /\ encrypted' = Append(encrypted, t)
    BY <1>1, <1>4 DEF EncryptedTask, Task, FoundRow, QueueCached
  <2>2. UNCHANGED <<items, waiting, doubled>>
    BY <1>4 DEF QueueCached
  <2>3. encrypted \in Seq(EncryptedTask(Arrived))
    BY DEF Shapes, QueueShape
  <2>4. Tasks' = Tasks /\ InEncrypted' = InEncrypted /\ \A i \in Tasks : encrypted'[i] = encrypted[i]
    BY <2>1, <2>3, EncryptedAppended
  <2>5. Twice' = Twice
    BY <1>2, <2>2, SameTwice
  <2>6. OnceInEncrypted'
    BY <2>4, <2>5 DEF Orderly, Once, OnceInEncrypted
  <2>7. Batches' = Batches /\ InBatches' = InBatches /\ InOk' = InOk /\ InFailed' = InFailed
    BY <1>2, <2>2 DEF Batches, InBatches, CopiesOf, InOk, InFailed
  <2>8. OnceInBatches'
    BY <2>5, <2>7 DEF Orderly, Once, OnceInBatches
  <2>9. QED
    BY <1>3, <2>4, <2>5, <2>6, <2>7, <2>8, OrderlyWithout
<1>5. CASE ~row.plain
  <2> PICK c, item : c = row.copy /\ item = Item(row.copy, row.attempts, 0)
    OBVIOUS
  <2>1. /\ AddItem(item) /\ UNCHANGED encrypted /\ item.copy = c
        /\ doubled' = IF \/ c \in Undecrypted
                         \/ c \in DOMAIN db /\ db[c].plain
                      THEN doubled \cup {Env(c)} ELSE doubled
    BY <1>5 DEF QueueCached, Item
  <2>2. c \in Arrived /\ item \in ItemOf(Arrived)
    BY <1>1, LimitsAssumption DEF FoundRow, Item, ItemOf
  <2>3. Twice \subseteq Twice' /\ (c \in Undecrypted \/ c \in Plain => c \in Twice')
    BY <1>2, <2>1, <2>2 DEF Twice, Arrived, Env, Plain
  <2>4. /\ Undecrypted = InBatches \cup InEncrypted \cup InOk \cup InFailed
    BY UndecryptedPlaces
  <2>5. InBatches' = InBatches \cup {c} /\ OnceIn(Batches', Twice')
    <3>1. items \in Seq(ItemOf(Arrived)) /\ waiting \in Seq(Seq(ItemOf(Arrived)))
      BY DEF Shapes, ItemsShape
    <3>2. OnceIn(Batches, Twice')
      BY <2>3, OnceInWeaker DEF Orderly, Once, OnceInBatches
    <3> PICK except : except = Twice'
      OBVIOUS
    <3>3. item.copy \in InBatches => item.copy \in except
      BY <2>1, <2>3, <2>4
    <3>4. InBatches' = InBatches \cup {item.copy} /\ OnceIn(Batches', except)
      BY <2>1, <2>2, <3>1, <3>2, <3>3, AddItemPlaces
    <3>5. QED
      BY <2>1, <3>4
  <2>6. Once'
    BY <1>2, <2>1, <2>3, <2>4, <2>5, OnceAdded DEF Orderly
  <2>7. PendingIsNotPlain'
    <3>1. InEncrypted' = InEncrypted /\ InFailed' = InFailed
      BY <1>2, <2>1, OthersStay
    <3>2. QED
      BY <1>3, <2>3, <2>5, <3>1 DEF Orderly, PendingIsNotPlain
  <2>8. QED
    BY <2>6, <2>7 DEF Orderly
<1>6. QED
  BY <1>4, <1>5

LEMMA KickBatchOffOrder ==
    ASSUME Shapes, Orderly, KickBatchOff
    PROVE  Orderly'
<1>1. Batches' = Append(Batches, <<>>)
  BY DEF KickBatchOff, Batches
<1>2. Batches \in Seq(Seq(ItemOf(Arrived)))
  BY PlacesArrived
<1>3. InBatches' = InBatches /\ OnceIn(Batches', Twice)
  BY <1>1, <1>2, EmptyBatchAdded DEF InBatches, Orderly, Once, OnceInBatches
<1>4. Twice' = Twice /\ Plain' = Plain
  BY SameTwice DEF KickBatchOff, Plain
<1>5. OnceInBatches'
  BY <1>3, <1>4 DEF OnceInBatches
<1>6. InEncrypted' = InEncrypted /\ Tasks' = Tasks /\ InOk' = InOk /\ InFailed' = InFailed
  BY OthersStay DEF KickBatchOff
<1>7. OnceInEncrypted'
  BY <1>4, <1>6 DEF KickBatchOff, Orderly, Once, OnceInEncrypted
<1>8. QED
  BY <1>3, <1>4, <1>5, <1>6, <1>7, OrderlyWithout

\* A batch goes from those that wait to encryptedQueue.
LEMMA EnterZoneOrder ==
    ASSUME Shapes, Orderly, EnterZone
    PROVE  Orderly'
<1>0. PICK first, n : first = Head(waiting) /\ n = Len(encrypted)
  OBVIOUS
<1>1. /\ \A i \in DOMAIN encrypted : encrypted[i].op # "decrypt"
      /\ batch' = [left |-> Len(first), items |-> ToSet(first), ok |-> <<>>,
                   failed |-> << >>, uses |-> {}]
      /\ \A i \in DOMAIN encrypted' :
            IF i <= n
            THEN encrypted'[i] = encrypted[i]
            ELSE i - n \in DOMAIN first
                 /\ encrypted'[i] = [op |-> "decrypt", item |-> first[i - n]]
      /\ DOMAIN encrypted = 1 .. n /\ n \in Nat /\ DOMAIN encrypted' \subseteq Nat \ {0}
  <2>1. encrypted \in Seq(EncryptedTask(Arrived)) /\ encrypted' \in Seq(EncryptedTask(Arrived'))
    BY EnterZoneShapes DEF Shapes, QueueShape
  <2>2. DOMAIN encrypted = 1 .. n /\ n \in Nat /\ DOMAIN encrypted' \subseteq Nat \ {0}
    BY <1>0, <2>1
  <2>3. QED
    BY <1>0, <2>2, EnterZoneShapes
\* What is to be decrypted are the items of the first batch.
<1>2. ASSUME NEW i \in Tasks'
      PROVE  /\ i \in Int /\ i - n \in DOMAIN first
             /\ encrypted'[i].item = first[i - n]
  <2>1. i \in DOMAIN encrypted' /\ encrypted'[i].op = "decrypt" /\ i \in Nat \ {0}
    BY <1>1 DEF Tasks
  <2>2. ~ (i <= n)
    <3>1. ASSUME i <= n PROVE FALSE
      <4>1. i \in DOMAIN encrypted
        BY <1>1, <2>1, <3>1
      <4>2. QED
        BY <1>1, <2>1, <3>1, <4>1
    <3>2. QED
      BY <3>1
  <2>3. QED
    BY <1>1, <2>1, <2>2
<1>3. /\ Batches \in Seq(Seq(ItemOf(Arrived))) /\ Batches # <<>>
      /\ Batches[1] = first /\ Batches' = Tail(Batches)
  <2>1. waiting \in Seq(Seq(ItemOf(Arrived))) /\ items \in Seq(ItemOf(Arrived)) /\ waiting # <<>>
    BY DEF Shapes, ItemsShape, EnterZone
  <2>2. waiting' = Tail(waiting) /\ items' = items
    BY DEF EnterZone
  <2>3. QED
    BY <1>0, <2>1, <2>2, TailOfAppend DEF Batches
<1>4. /\ OnceIn(Batches', Twice)
      /\ InBatches' \subseteq InBatches
      /\ \A k \in DOMAIN first :
            /\ first[k].copy \in InBatches
            /\ first[k].copy \in InBatches' => first[k].copy \in Twice
            /\ \A l \in DOMAIN first :
                  k # l /\ first[k].copy = first[l].copy => first[k].copy \in Twice
  <2>1. OnceIn(Batches, Twice)
    BY DEF Orderly, Once, OnceInBatches
  <2> PICK b, rest, except : b = Batches /\ rest = Batches' /\ except = Twice
    OBVIOUS
  <2>2. InBatches = CopiesOf(b) /\ InBatches' = CopiesOf(rest)
    BY DEF InBatches
  <2>3. b \in Seq(Seq(ItemOf(Arrived))) /\ b # <<>> /\ b[1] = first /\ rest = Tail(b) /\ OnceIn(b, except)
    BY <1>3, <2>1
  <2>4. QED
    BY <2>2, <2>3, FirstBatch
<1>5. Twice' = Twice /\ Plain' = Plain
  BY SameTwice DEF EnterZone, Plain
<1>6. InOk' = {} /\ InFailed' = {}
  BY <1>1, NoFailures DEF InOk, InFailed, ToSet
<1>7. /\ InEncrypted' \subseteq InBatches
      /\ InBatches' \cap InEncrypted' \subseteq Twice
  <2>1. ASSUME NEW i \in Tasks'
        PROVE  /\ encrypted'[i].item.copy \in InBatches
               /\ encrypted'[i].item.copy \in InBatches' => encrypted'[i].item.copy \in Twice
    BY <1>2, <1>4
  <2>2. QED
    BY <2>1 DEF InEncrypted
<1>8. OnceInBatches'
  BY <1>4, <1>5 DEF OnceInBatches
<1>9. OnceInEncrypted'
  <2> SUFFICES ASSUME NEW i \in Tasks', NEW k \in Tasks',
                      encrypted'[i].item.copy = encrypted'[k].item.copy, i # k
               PROVE  encrypted'[i].item.copy \in Twice'
    BY DEF OnceInEncrypted
  <2> PICK p, q : p = i - n /\ q = k - n
    OBVIOUS
  <2>1. /\ p \in DOMAIN first /\ q \in DOMAIN first /\ p # q
        /\ encrypted'[i].item = first[p] /\ encrypted'[k].item = first[q]
    <3>1. i \in Int /\ k \in Int /\ n \in Int
      BY <1>1, <1>2
    <3>2. p # q
      BY <3>1
    <3>3. QED
      BY <1>2, <3>2
  <2>2. QED
    BY <1>4, <1>5, <2>1
<1>10. Apart'
  BY <1>5, <1>6, <1>7 DEF Apart
<1>11. PendingIsNotPlain'
  BY <1>4, <1>5, <1>6, <1>7 DEF Orderly, PendingIsNotPlain
<1>12. QED
  BY <1>8, <1>9, <1>10, <1>11 DEF Orderly, Once

\* A decryption takes the first task, and its copy is decrypted, or has failed, or is over.
LEMMA DecryptPlaces ==
    ASSUME Shapes, Decrypt
    PROVE  /\ UNCHANGED <<arrivals, db, used, server, items, waiting, zone, doubled>>
           /\ batch'.items = batch.items
           /\ \/ InOk' = InOk /\ InFailed' = InFailed \cup {NextItem.copy}
              \/ InOk' = InOk \cup {NextItem.copy} /\ InFailed' = InFailed
              \/ /\ InOk' = InOk /\ InFailed' = InFailed
                 /\ Env(NextItem.copy) \in Excepted'
<1>1. NextItem \in ItemOf(Arrived)
  BY DecryptionShapes, DecryptingFacts
<1>2. batch \in [left : 0 .. BatchSize, items : SUBSET ItemOf(Arrived),
                 ok : Seq(ItemOf(Arrived)),
                 failed : FailedOf(Arrived), uses : SUBSET Envelopes]
  BY DEF Shapes, BatchShape
<1>3. DOMAIN Failed(NextItem) = InFailed \cup {NextItem.copy}
  BY <1>1, FailedShape
<1>4. CASE \/ DecryptStopped \/ DecryptThrows \/ DecryptDuplicate
           \/ DecryptRejected \/ DecryptFails \/ DecryptTimesOut
  <2>1. batch'.ok = batch.ok /\ batch'.failed = Failed(NextItem) /\ batch'.items = batch.items
    BY <1>2, <1>4 DEF DecryptStopped, DecryptThrows, DecryptDuplicate, DecryptRejected,
                      DecryptFails, DecryptTimesOut
  <2>2. InOk' = InOk
    BY <2>1 DEF InOk
  <2>3. InFailed' = InFailed \cup {NextItem.copy}
    BY <1>3, <2>1 DEF InFailed
  <2>4. UNCHANGED <<arrivals, db, used, server, items, waiting, zone, doubled>>
    BY <1>4 DEF DecryptStopped, DecryptThrows, DecryptDuplicate, DecryptRejected,
                DecryptFails, DecryptTimesOut
  <2>5. QED
    BY <2>1, <2>2, <2>3, <2>4
<1>5. CASE DecryptSucceeds
  <2>1. /\ batch'.ok = Append(batch.ok, NextItem) /\ batch'.failed = batch.failed
        /\ batch'.items = batch.items
    BY <1>2, <1>5 DEF DecryptSucceeds
  <2>2. ToSet(batch'.ok) = ToSet(batch.ok) \cup {NextItem}
    <3>1. /\ DOMAIN batch'.ok = 1 .. Len(batch.ok) + 1 /\ DOMAIN batch.ok = 1 .. Len(batch.ok)
          /\ Len(batch.ok) \in Nat
          /\ \A i \in 1 .. Len(batch.ok) : batch'.ok[i] = batch.ok[i]
          /\ batch'.ok[Len(batch.ok) + 1] = NextItem
      BY <1>1, <1>2, <2>1, AppendFacts
    <3>2. \A i \in DOMAIN batch'.ok : batch'.ok[i] \in ToSet(batch.ok) \cup {NextItem}
      BY <3>1 DEF ToSet
    <3>3. NextItem \in ToSet(batch'.ok)
      BY <3>1 DEF ToSet
    <3>4. \A i \in DOMAIN batch.ok : batch.ok[i] \in ToSet(batch'.ok)
      BY <3>1 DEF ToSet
    <3>5. ToSet(batch'.ok) \subseteq ToSet(batch.ok) \cup {NextItem}
      BY <3>2 DEF ToSet
    <3>6. ToSet(batch.ok) \subseteq ToSet(batch'.ok)
      BY <3>4 DEF ToSet
    <3>7. QED
      BY <3>3, <3>5, <3>6
  <2>3. InOk' = InOk \cup {NextItem.copy}
    BY <2>2 DEF InOk
  <2>4. InFailed' = InFailed
    BY <2>1 DEF InFailed
  <2>5. UNCHANGED <<arrivals, db, used, server, items, waiting, zone, doubled>>
    BY <1>5 DEF DecryptSucceeds
  <2>6. QED
    BY <2>1, <2>3, <2>4, <2>5
<1>6. CASE DecryptDropsEarly \/ DecryptReceipt \/ DecryptDrops
  <2>1. batch'.ok = batch.ok /\ batch'.failed = batch.failed /\ batch'.items = batch.items
    BY <1>2, <1>6 DEF DecryptDropsEarly, DecryptReceipt, DecryptDrops
  <2>2. InOk' = InOk /\ InFailed' = InFailed
    BY <2>1 DEF InOk, InFailed
  <2>3. /\ UNCHANGED <<arrivals, db, used, server, items, waiting, zone, doubled>>
        /\ Env(NextItem.copy) \in Excepted'
    BY <1>6 DEF DecryptDropsEarly, DecryptReceipt, DecryptDrops, Excepted
  <2>4. QED
    BY <2>1, <2>2, <2>3
<1>7. QED
  BY <1>4, <1>5, <1>6 DEF Decrypt

LEMMA DecryptOrder ==
    ASSUME Shapes, Orderly, Decrypt
    PROVE  Orderly'
<1> PICK c : c = NextItem.copy
  OBVIOUS
<1>1. /\ encrypted \in Seq(EncryptedTask(Arrived)) /\ encrypted # <<>>
      /\ encrypted[1].op = "decrypt" /\ encrypted[1].item.copy = c
  BY DecryptionShapes, DecryptingFacts
<1>2. encrypted' = Tail(encrypted)
  BY DEF Decrypt, DecryptStopped, DecryptDropsEarly, DecryptThrows, DecryptReceipt,
         DecryptingContent, DecryptDuplicate, DecryptSucceeds, DecryptDrops, DecryptRejected,
         DecryptFails, DecryptTimesOut
<1>3. /\ UNCHANGED <<arrivals, db, items, waiting, doubled>>
      /\ \/ InOk' = InOk /\ InFailed' = InFailed \cup {c}
         \/ InOk' = InOk \cup {c} /\ InFailed' = InFailed
         \/ InOk' = InOk /\ InFailed' = InFailed
  BY DecryptPlaces
<1>4. Twice' = Twice /\ Plain' = Plain
  BY <1>3, SameTwice DEF Plain
<1>5. /\ OnceInEncrypted'
      /\ InEncrypted' \subseteq InEncrypted
      /\ c \in InEncrypted
      /\ c \in InEncrypted' => c \in Twice
  BY <1>1, <1>2, <1>4, OnceInEncryptedShifted DEF Orderly, Once
<1>6. InBatches' = InBatches /\ Batches' = Batches
  BY <1>3 DEF Batches, InBatches, CopiesOf
<1>7. OnceInBatches'
  BY <1>4, <1>6 DEF Orderly, Once, OnceInBatches
<1>8. Apart'
  <2>1. Apart
    BY DEF Orderly, Once
  <2>2. c \in InBatches \cup InOk \cup InFailed => c \in Twice
    BY <1>5, <2>1 DEF Apart
  <2>3. QED
    BY <1>3, <1>4, <1>5, <1>6, <2>1, <2>2 DEF Apart
<1>9. PendingIsNotPlain'
  <2>1. (InBatches' \cup InEncrypted' \cup InFailed') \subseteq (InBatches \cup InEncrypted \cup InFailed)
    BY <1>3, <1>5, <1>6
  <2>2. QED
    BY <1>4, <2>1 DEF Orderly, PendingIsNotPlain
<1>10. QED
  BY <1>5, <1>7, <1>8, <1>9 DEF Orderly, Once

\* What is saved as decrypted is in no other place; what failed is not saved as such.
LEMMA CommitOrder ==
    ASSUME Shapes, Orderly, Commit
    PROVE  Orderly'
<1>1. UNCHANGED <<arrivals, items, waiting, encrypted, batch, doubled>>
  BY DEF Commit
<1>2. /\ Once'
      /\ InBatches' = InBatches /\ InEncrypted' = InEncrypted
      /\ InOk' = InOk /\ InFailed' = InFailed /\ Twice' = Twice
  BY <1>1, SamePlaces DEF Orderly
<1>3. Plain' \subseteq Plain \cup InOk /\ Plain' \cap InFailed = {}
  BY CommitShapes DEF Plain
<1>4. PendingIsNotPlain'
  BY <1>2, <1>3 DEF Orderly, Once, Apart, PendingIsNotPlain
<1>5. QED
  BY <1>2, <1>4 DEF Orderly

\* A batch that has ended has no copies.
LEMMA NoBatchOrder ==
    ASSUME Shapes, Orderly, batch' = NoBatch,
           UNCHANGED <<arrivals, items, waiting, encrypted, doubled, db>>
    PROVE  Orderly' /\ InOk' = {} /\ InFailed' = {}
<1>1. InOk' = {} /\ InFailed' = {}
  BY NoFailures DEF InOk, InFailed, NoBatch, ToSet
<1>2. InBatches' = InBatches /\ Batches' = Batches
  BY DEF InBatches, Batches, CopiesOf
<1>3. InEncrypted' = InEncrypted /\ Tasks' = Tasks
  BY DEF InEncrypted, Tasks
<1>4. Twice' = Twice /\ Plain' = Plain
  BY SameTwice DEF Plain
<1>5. OnceInBatches' /\ OnceInEncrypted'
  BY <1>2, <1>3, <1>4 DEF Orderly, Once, OnceInBatches, OnceInEncrypted
<1>6. Orderly'
  BY <1>1, <1>2, <1>3, <1>4, <1>5, OrderlyWithout
<1>7. QED
  BY <1>1, <1>6

\* A process that starts has no copies.
LEMMA FreshOrder ==
    ASSUME items = <<>>, waiting = <<>>, encrypted = <<>>, batch = NoBatch
    PROVE  Orderly /\ InOk = {} /\ InEncrypted = {} /\ InFailed = {}
<1>1. InOk = {} /\ InFailed = {} /\ Tasks = {} /\ InEncrypted = {}
  BY NoFailures DEF InOk, InFailed, Tasks, InEncrypted, NoBatch, ToSet
<1>2. OnceIn(Batches, Twice) /\ InBatches = {}
  <2> PICK none, b : none = << >> /\ b = Batches
    OBVIOUS
  <2>1. /\ \A i \in DOMAIN b : b[i] = none
        /\ \A k \in DOMAIN none : FALSE
    BY DEF Batches
  <2>2. CopiesOf(b) = {} /\ OnceIn(b, Twice)
    BY <2>1 DEF CopiesOf, OnceIn
  <2>3. QED
    BY <2>2 DEF InBatches
<1>3. QED
  BY <1>1, <1>2 DEF Orderly, Once, OnceInBatches, OnceInEncrypted, Apart, PendingIsNotPlain

\* The rows that are gone had no attempts left, and are over.
LEMMA GetAllUnprocessedIdsRows ==
    ASSUME Shapes, GetAllUnprocessedIds
    PROVE  /\ DOMAIN db' \subseteq DOMAIN db /\ \A c \in DOMAIN db' : db'[c] = db[c]
           /\ ended \subseteq ended'
           /\ \A c \in DOMAIN db \ DOMAIN db' : Env(c) \in ended'
<1>1. CASE stopping
  BY <1>1 DEF GetAllUnprocessedIds
<1>2. CASE ~stopping
  <2> PICK worn : worn = {c \in DOMAIN db : db[c].attempts >= MaxAttempts}
    OBVIOUS
  <2>1. /\ db' = Restrict(db, DOMAIN db \ worn)
        /\ ended' = ended \cup {Env(c) : c \in worn}
        /\ UNCHANGED <<arrivals, used>>
    BY <1>2 DEF GetAllUnprocessedIds
  <2>2. DOMAIN db' = DOMAIN db \ worn /\ \A c \in DOMAIN db' : db'[c] = db[c]
    BY <2>1, RestrictShape DEF Shapes
  <2>3. QED
    BY <2>1, <2>2
<1>3. QED
  BY <1>1, <1>2

LEMMA GetUnprocessedRows ==
    ASSUME Shapes, GetUnprocessed
    PROVE  DOMAIN db' = DOMAIN db /\ \A c \in DOMAIN db : db'[c].plain = db[c].plain
<1> PICK ids : ids = found.ids \cap DOMAIN db
  OBVIOUS
<1>1. /\ db' = [c \in DOMAIN db |->
                    IF c \in ids THEN [db[c] EXCEPT !.attempts = @ + 1] ELSE db[c]]
      /\ UNCHANGED <<arrivals, used>>
  BY DEF GetUnprocessed
<1>2. QED
  BY <1>1, IncrementShape DEF Shapes

\* The steps that move no copy and store nothing as decrypted.
LEMMA QuietOrder ==
    ASSUME Shapes, Orderly,
           \/ Deliver \/ SayEmpty \/ HandleEmpty \/ BatcherIdle \/ RetryCached \/ Hand
           \/ Handle \/ AppSeesError \/ Reconnect \/ StopProcessing
           \/ GetAllUnprocessedIds \/ GetUnprocessed \/ RemoveFromCache
    PROVE  Orderly'
<1>1. UNCHANGED <<arrivals, items, waiting, encrypted, batch, doubled>>
  BY DEF Deliver, SayEmpty, HandleEmpty, BatcherIdle, RetryCached, Hand, HandleDecrypted,
         DispatchError, WaitForDecrypted, ScheduleRetry, Handle, EmitEmpty, AppHandles, AppThrows,
         AppSeesError, Reconnect, StopProcessing, GetAllUnprocessedIds, GetUnprocessed,
         RemoveFromCache
<1>2. DOMAIN db' \subseteq DOMAIN db /\ \A c \in DOMAIN db' : db'[c].plain = db[c].plain
  <2>1. CASE GetAllUnprocessedIds
    BY <2>1, GetAllUnprocessedIdsRows
  <2>2. CASE GetUnprocessed
    BY <2>2, GetUnprocessedRows
  <2>3. CASE RemoveFromCache
    BY <2>3, RemoveFromCacheShapes
  <2>4. CASE UNCHANGED db
    BY <2>4
  <2>5. QED
    BY <2>1, <2>2, <2>3, <2>4
    DEF Deliver, SayEmpty, HandleEmpty, BatcherIdle, RetryCached, Hand, HandleDecrypted,
        DispatchError, WaitForDecrypted, ScheduleRetry, Handle, EmitEmpty, AppHandles, AppThrows,
        AppSeesError, Reconnect, StopProcessing
<1>3. QED
  BY <1>1, <1>2, PlainStays, OrderlyStays
-------------------------------------------------------------------------------
(* What is stored, and the steps *)

\* A copy that was queued twice is left out.
LEMMA TwiceIsExcepted ==
    ASSUME NEW c \in Twice
    PROVE  Env(c) \in Excepted
BY DEF Twice, Excepted

\* What a copy has is an envelope.
LEMMA EnvIsEnvelope ==
    ASSUME Shapes, NEW c \in Arrived
    PROVE  Env(c) \in Envelopes
BY DEF Shapes, DiskShape, Arrived, Env

\* A step that leaves the batch in the zone alone, removes no row that is needed, and
\* confirms nothing that is not over.
LEMMA SafetyStays ==
    ASSUME Shapes, Safety, UNCHANGED <<server, used, zone, batch>>,
           \A c \in Arrived : Env(c)' = Env(c),
           Excepted \subseteq Excepted',
           \A e \in Envelopes \ Excepted' :
                (Stored(e) => Stored(e)') /\ (Decrypted(e) => Decrypted(e)'),
           Plain' \subseteq Plain, InEncrypted \subseteq InEncrypted',
           \A c \in removing' : c \in removing \/ Env(c)' \in Excepted'
    PROVE  Safety'
<1>1. InOk' = InOk /\ InFailed' = InFailed /\ Spent' = Spent
  BY DEF InOk, InFailed, Spent
<1>2. InOk \subseteq Arrived /\ removing \subseteq Arrived /\ used \subseteq Envelopes
  BY PlacesArrived DEF Shapes, QueueShape, DiskShape
<1>3. \A item \in batch.items : item.copy \in Arrived
  BY DEF Shapes, BatchShape, ItemOf
<1>4. Kept'
  BY DEF Safety, Kept
<1>5. SpentIsPlain'
  BY <1>2 DEF Safety, SpentIsPlain
<1>6. UsesAreOk'
  <2>1. \A e \in batch.uses \ Excepted' : \E c \in InOk : Env(c)' = e
    BY <1>2 DEF Safety, UsesAreOk
  <2>2. \A c \in InOk : Env(c)' \in batch.uses
    BY <1>2 DEF Safety, UsesAreOk
  <2>3. zone = "saved" => batch.uses \subseteq used
    BY DEF Safety, UsesAreOk
  <2>4. QED
    BY <1>1, <2>1, <2>2, <2>3 DEF UsesAreOk
<1>7. ItemsAreKept'
  <2> SUFFICES ASSUME NEW item \in batch.items
               PROVE  /\ zone = "open" => \/ Env(item.copy)' \in Excepted'
                                          \/ item.copy \in InEncrypted' \cup InOk \cup InFailed
                      /\ zone = "saved" => \/ Env(item.copy)' \in Excepted'
                                           \/ Stored(Env(item.copy))'
    BY <1>1 DEF ItemsAreKept
  <2> PICK e : e = Env(item.copy)
    OBVIOUS
  <2>1. Env(item.copy)' = e /\ e \in Envelopes
    BY <1>3, EnvIsEnvelope
  <2>2. /\ zone = "open" => e \in Excepted \/ item.copy \in InEncrypted \cup InOk \cup InFailed
        /\ zone = "saved" => e \in Excepted \/ Stored(e)
    BY DEF Safety, ItemsAreKept
  <2>3. zone = "saved" => e \in Excepted' \/ Stored(Env(item.copy))'
    <3>1. zone = "saved" => e \in Excepted' \/ Stored(e)'
      BY <2>1, <2>2
    <3>2. QED
      BY <2>1, <3>1 DEF Stored
  <2>4. QED
    BY <2>1, <2>2, <2>3
<1>8. RemovedIsOver'
  BY <1>1, <1>2 DEF Safety, RemovedIsOver
<1>9. QED
  BY <1>4, <1>5, <1>6, <1>7, <1>8 DEF Safety

\* The same with the table of rows left alone, and the copies.
LEMMA SafetyUnmoved ==
    ASSUME Shapes, Safety, UNCHANGED <<server, arrivals, db, used, zone, batch>>,
           Excepted \subseteq Excepted', InEncrypted \subseteq InEncrypted',
           \A c \in removing' : c \in removing \/ Env(c) \in Excepted'
    PROVE  Safety'
<1>1. Plain' = Plain /\ \A c \in Arrived : Env(c)' = Env(c)
  BY DEF Plain, Env
<1>2. \A e \in Envelopes : (Stored(e) => Stored(e)') /\ (Decrypted(e) => Decrypted(e)')
  BY <1>1 DEF Stored, Decrypted, Env
<1>3. \A c \in removing' : c \in removing \/ Env(c)' \in Excepted'
  BY DEF Env
<1>4. QED
  BY <1>1, <1>2, <1>3, SafetyStays

\* The steps that touch neither the rows nor the batch in the zone.
LEMMA QuietSafety ==
    ASSUME Shapes, Safety,
           \/ Deliver \/ SayEmpty \/ HandleEmpty \/ BatcherIdle \/ RetryCached \/ Hand
           \/ Handle \/ AppSeesError \/ Reconnect \/ StopProcessing \/ KickBatchOff
    PROVE  Safety'
<1>1. UNCHANGED <<server, arrivals, db, used, zone, batch, encrypted, doubled, outlived>>
  BY DEF Deliver, SayEmpty, HandleEmpty, BatcherIdle, RetryCached, Hand, HandleDecrypted,
         DispatchError, WaitForDecrypted, ScheduleRetry, Handle, EmitEmpty, AppHandles, AppThrows,
         AppSeesError, Reconnect, StopProcessing, KickBatchOff
<1>2. InEncrypted' = InEncrypted
  BY <1>1 DEF InEncrypted, Tasks
<1>3. ended \subseteq ended' /\ \A c \in removing' : c \in removing \/ Env(c) \in ended'
  <2>1. CASE AppHandles
    BY <2>1 DEF AppHandles
  <2>2. CASE AppSeesError
    BY <2>2 DEF AppSeesError
  <2>3. CASE UNCHANGED <<ended, removing>>
    BY <2>3
  <2>4. QED
    BY <2>1, <2>2, <2>3
    DEF Deliver, SayEmpty, HandleEmpty, BatcherIdle, RetryCached, Hand, HandleDecrypted,
        DispatchError, WaitForDecrypted, ScheduleRetry, Handle, EmitEmpty, AppThrows,
        Reconnect, StopProcessing, KickBatchOff
<1>4. Excepted \subseteq Excepted'
  <2>1. dispatched \subseteq dispatched'
    BY DEF Deliver, SayEmpty, HandleEmpty, BatcherIdle, RetryCached, Hand, HandleDecrypted,
           DispatchError, WaitForDecrypted, ScheduleRetry, Handle, EmitEmpty, AppHandles, AppThrows,
           AppSeesError, Reconnect, StopProcessing, KickBatchOff
  <2>2. QED
    BY <1>1, <1>3, <2>1 DEF Excepted
<1>5. \A c \in removing' : c \in removing \/ Env(c) \in Excepted'
  BY <1>3 DEF Excepted
<1>6. QED
  BY <1>1, <1>2, <1>4, <1>5, SafetyUnmoved

\* encryptedQueue gets, or passes on, what is no decryption.
LEMMA PassingSafety ==
    ASSUME Shapes, Safety, WaitForIncoming \/ PassOn \/ QueueCached
    PROVE  Safety'
<1>1. /\ UNCHANGED <<server, arrivals, db, used, zone, batch, removing, ended, dispatched, outlived>>
      /\ doubled \subseteq doubled'
  BY DEF WaitForIncoming, PassOn, QueueCached
<1>2. encrypted \in Seq(EncryptedTask(Arrived))
  BY DEF Shapes, QueueShape
<1>3. InEncrypted \subseteq InEncrypted'
  <2>1. ASSUME NEW t \in EncryptedTask(Arrived), t.op # "decrypt", encrypted' = Append(encrypted, t)
        PROVE  InEncrypted' = InEncrypted
    BY <1>2, <2>1, EncryptedAppended
  <2>2. CASE UNCHANGED encrypted
    BY <2>2 DEF InEncrypted, Tasks
  <2>3. CASE WaitForIncoming
    <3> PICK t : t = Task("empty", 0)
      OBVIOUS
    <3>1. t \in EncryptedTask(Arrived) /\ t.op # "decrypt" /\ encrypted' = Append(encrypted, t)
      BY <2>3 DEF EncryptedTask, Task, WaitForIncoming
    <3>2. QED
      BY <2>1, <3>1
  <2>4. CASE QueueCached /\ Head(found.rows).plain
    <3> PICK row, t : row = Head(found.rows) /\ t = Task("cached", row.copy)
      OBVIOUS
    <3>1. found.rows \in Seq(FoundRow(Arrived)) /\ found.rows # <<>>
      BY <2>4 DEF QueueCached, Shapes, FoundShape
    <3>2. row \in FoundRow(Arrived)
      BY <3>1, TailFacts
    <3>3. t \in EncryptedTask(Arrived) /\ t.op # "decrypt" /\ encrypted' = Append(encrypted, t)
      BY <2>4, <3>2 DEF EncryptedTask, Task, FoundRow, QueueCached
    <3>4. QED
      BY <2>1, <3>3
  <2>5. CASE PassOn
    <3>1. encrypted # <<>> /\ Head(encrypted).op # "decrypt" /\ encrypted' = Tail(encrypted)
      BY <2>5, PassOnShapes DEF PassOn
    <3>2. \A i \in Tasks : i # 1 => i - 1 \in Tasks' /\ encrypted'[i - 1] = encrypted[i]
      BY <1>2, <3>1, EncryptedShifted
    <3>3. 1 \notin Tasks
      BY <1>2, <3>1 DEF Tasks
    <3>4. QED
      BY <3>2, <3>3 DEF InEncrypted
  <2>6. CASE QueueCached /\ ~Head(found.rows).plain
    BY <2>2, <2>6 DEF QueueCached
  <2>7. QED
    BY <2>3, <2>4, <2>5, <2>6
<1>4. Excepted \subseteq Excepted'
  BY <1>1 DEF Excepted
<1>5. QED
  BY <1>1, <1>3, <1>4, SafetyUnmoved

\* A new copy has no row.
LEMMA HandleRequestSafety ==
    ASSUME Shapes, Safety, HandleRequest
    PROVE  Safety'
<1>1. UNCHANGED <<server, db, used, zone, batch, encrypted, removing, ended, dispatched,
                 doubled, outlived>>
  BY DEF HandleRequest
<1>2. \A c \in Arrived : Env(c)' = Env(c)
  BY HandleRequestShapes
<1>3. InEncrypted' = InEncrypted /\ Plain' = Plain /\ Excepted' = Excepted
  BY <1>1 DEF InEncrypted, Tasks, Plain, Excepted
<1>4. DOMAIN db \subseteq Arrived /\ Plain \subseteq Arrived
  BY DEF Shapes, DiskShape, Plain
<1>5. \A e \in Envelopes : (Stored(e) => Stored(e)') /\ (Decrypted(e) => Decrypted(e)')
  BY <1>1, <1>2, <1>3, <1>4 DEF Stored, Decrypted
<1>6. QED
  BY <1>1, <1>2, <1>3, <1>5, SafetyStays

\* The rows without attempts are over; the others get one more.
LEMMA FetchSafety ==
    ASSUME Shapes, Safety, GetAllUnprocessedIds \/ GetUnprocessed
    PROVE  Safety'
<1>1. UNCHANGED <<server, arrivals, used, zone, batch, encrypted, removing, dispatched, doubled,
                 outlived>>
  BY DEF GetAllUnprocessedIds, GetUnprocessed
<1>2. /\ DOMAIN db' \subseteq DOMAIN db
      /\ \A c \in DOMAIN db' : db'[c].plain = db[c].plain
      /\ ended \subseteq ended'
      /\ \A c \in DOMAIN db \ DOMAIN db' : Env(c) \in ended'
  <2>1. CASE GetAllUnprocessedIds
    BY <2>1, GetAllUnprocessedIdsRows
  <2>2. CASE GetUnprocessed
    BY <2>2, GetUnprocessedRows DEF GetUnprocessed
  <2>3. QED
    BY <2>1, <2>2
<1>3. Plain' \subseteq Plain /\ \A c \in Plain \cap DOMAIN db' : c \in Plain'
  BY <1>2 DEF Plain
<1>4. InEncrypted' = InEncrypted /\ Excepted \subseteq Excepted' /\ ended' \subseteq Excepted'
  BY <1>1, <1>2 DEF InEncrypted, Tasks, Excepted
<1>5. \A c \in Arrived : Env(c)' = Env(c)
  BY <1>1 DEF Env
<1>6. ASSUME NEW e \in Envelopes \ Excepted'
      PROVE  (Stored(e) => Stored(e)') /\ (Decrypted(e) => Decrypted(e)')
  <2>1. \A c \in DOMAIN db : Env(c) = e => c \in DOMAIN db'
    BY <1>2, <1>4
  <2>2. \A c \in DOMAIN db : Env(c)' = Env(c)
    BY <1>1 DEF Env
  <2>3. Stored(e) => Stored(e)'
    BY <2>1, <2>2 DEF Stored
  <2>4. Decrypted(e) => Decrypted(e)'
    BY <1>3, <2>1, <2>2 DEF Decrypted, Plain
  <2>5. QED
    BY <2>3, <2>4
<1>7. QED
  BY <1>1, <1>3, <1>4, <1>5, <1>6, SafetyStays

\* What is removed from the cache is over, or another row has what its key decrypted.
LEMMA RemoveFromCacheSafety ==
    ASSUME Shapes, Safety, RemoveFromCache
    PROVE  Safety'
<1>1. /\ UNCHANGED <<server, arrivals, used, zone, batch, encrypted, ended, dispatched, doubled,
                    outlived>>
      /\ removing' = {} /\ zone = "free"
  BY DEF RemoveFromCache
<1>2. DOMAIN db' = DOMAIN db \ removing /\ \A c \in DOMAIN db' : db'[c] = db[c]
  BY RemoveFromCacheShapes
<1>3. Plain' = Plain \ removing
  BY <1>2 DEF Plain
<1>4. InEncrypted' = InEncrypted /\ Excepted' = Excepted
  BY <1>1 DEF InEncrypted, Tasks, Excepted
<1>5. \A c \in Arrived : Env(c)' = Env(c)
  BY <1>1 DEF Env
<1>6. Spent = used
  BY <1>1 DEF Spent, NoBatch, Shapes, BatchShape
<1>7. \A c \in removing : Env(c) \in Excepted \/ (Env(c) \in used /\ c \notin Plain)
  BY <1>1, <1>6 DEF Safety, RemovedIsOver
<1>8. ASSUME NEW e \in Envelopes \ Excepted'
      PROVE  (Stored(e) => Stored(e)') /\ (Decrypted(e) => Decrypted(e)')
  <2>1. \A c : Env(c)' = Env(c)
    BY <1>1 DEF Env
  <2>2. Decrypted(e) => Decrypted(e)'
    BY <1>3, <1>4, <1>7, <2>1 DEF Decrypted
  <2>3. Decrypted(e)' => Stored(e)'
    BY DEF Decrypted, Stored, Plain
  <2>4. ASSUME Stored(e) PROVE Stored(e)'
    <3> PICK c \in DOMAIN db : Env(c) = e
      BY <2>4 DEF Stored
    <3>1. CASE c \in removing
      <4>1. e \in used \ Excepted
        BY <1>4, <1>7, <3>1
      <4>2. Decrypted(e)
        BY <4>1 DEF Safety, SpentIsPlain
      <4>3. QED
        BY <2>2, <2>3, <4>2
    <3>2. CASE c \notin removing
      BY <1>2, <2>1, <3>2 DEF Stored
    <3>3. QED
      BY <3>1, <3>2
  <2>5. QED
    BY <2>2, <2>4
<1>9. QED
  BY <1>1, <1>3, <1>4, <1>5, <1>8, SafetyStays

\* What is stored, for the steps that leave the server and the rows alone.
LEMMA StoredStays ==
    ASSUME Safety, UNCHANGED <<server, arrivals, db, used>>, Excepted \subseteq Excepted'
    PROVE  Kept' /\ SpentIsPlain'
<1>1. Plain' = Plain
  BY DEF Plain
<1>2. \A e : (Stored(e) => Stored(e)') /\ (Decrypted(e) => Decrypted(e)')
  BY <1>1 DEF Stored, Decrypted, Env
<1>3. QED
  BY <1>2 DEF Safety, Kept, SpentIsPlain

\* The items of a batch that enters the zone wait to be decrypted.
LEMMA EnterZoneSafety ==
    ASSUME Shapes, Safety, EnterZone
    PROVE  Safety'
<1>0. PICK first, n : first = Head(waiting) /\ n = Len(encrypted)
  OBVIOUS
<1>1. /\ batch' = [left |-> Len(first), items |-> ToSet(first), ok |-> <<>>,
                   failed |-> << >>, uses |-> {}]
      /\ \A k \in DOMAIN first :
            /\ n + k \in DOMAIN encrypted'
            /\ encrypted'[n + k] = [op |-> "decrypt", item |-> first[k]]
  BY <1>0, EnterZoneShapes
<1>2. /\ UNCHANGED <<server, arrivals, db, used, removing, ended, dispatched, doubled, outlived>>
      /\ zone = "free" /\ zone' = "open"
  BY DEF EnterZone
<1>3. /\ Excepted' = Excepted /\ Plain' = Plain /\ InOk' = {}
      /\ Spent = used /\ Spent' = used
  BY <1>1, <1>2 DEF Excepted, Plain, InOk, ToSet, Spent, NoBatch, Shapes, BatchShape
<1>4. UsesAreOk'
  BY <1>1, <1>2, <1>3 DEF UsesAreOk
<1>5. ItemsAreKept'
  <2>1. \A item \in batch'.items : item.copy \in InEncrypted'
    <3> SUFFICES ASSUME NEW k \in DOMAIN first PROVE first[k].copy \in InEncrypted'
      BY <1>1 DEF ToSet
    <3> PICK i : i = n + k
      OBVIOUS
    <3>1. i \in DOMAIN encrypted' /\ encrypted'[i] = [op |-> "decrypt", item |-> first[k]]
      BY <1>1
    <3>2. i \in Tasks' /\ encrypted'[i].item = first[k]
      BY <3>1 DEF Tasks
    <3>3. QED
      BY <3>2 DEF InEncrypted
  <2>2. QED
    BY <1>2, <2>1 DEF ItemsAreKept
<1>6. RemovedIsOver'
  <2>1. \A c \in removing : Env(c) \in Excepted \/ (Env(c) \in used /\ c \notin Plain)
    BY <1>2, <1>3 DEF Safety, RemovedIsOver
  <2>2. \A c : Env(c)' = Env(c)
    BY <1>2 DEF Env
  <2>3. QED
    BY <1>2, <1>3, <2>1, <2>2 DEF RemovedIsOver
<1>7. Kept' /\ SpentIsPlain'
  BY <1>2, <1>3, StoredStays
<1>8. QED
  BY <1>4, <1>5, <1>6, <1>7 DEF Safety

\* A commit that fails leaves the message keys, and the rows, as they were.
LEMMA CommitFailsSafety ==
    ASSUME Shapes, Orderly, Safety, CommitFails
    PROVE  Safety'
<1>1. /\ UNCHANGED <<server, arrivals, items, waiting, encrypted, db, used, ended, dispatched,
                    doubled, outlived>>
      /\ zone' = "stuck" /\ batch' = NoBatch
  BY DEF CommitFails
<1>2. InOk' = {} /\ Excepted' = Excepted
  BY <1>1, NoBatchOrder DEF Excepted
<1>3. Kept' /\ SpentIsPlain'
  BY <1>1, <1>2, StoredStays
<1>4. UsesAreOk' /\ ItemsAreKept' /\ RemovedIsOver'
  BY <1>1, <1>2 DEF UsesAreOk, ItemsAreKept, RemovedIsOver, NoBatch
<1>5. QED
  BY <1>3, <1>4 DEF Safety

LEMMA RestartSafety ==
    ASSUME Shapes, Safety, Restart
    PROVE  Safety'
<1>1. /\ UNCHANGED <<server, arrivals, db, used, ended, dispatched, doubled, outlived>>
      /\ zone' = "free" /\ batch' = NoBatch /\ removing' = {}
  BY DEF Restart
<1>2. Excepted' = Excepted /\ InOk' = {}
  BY <1>1 DEF Excepted, InOk, NoBatch, ToSet
<1>3. Kept' /\ SpentIsPlain'
  BY <1>1, <1>2, StoredStays
<1>4. UsesAreOk' /\ ItemsAreKept' /\ RemovedIsOver'
  BY <1>1, <1>2 DEF UsesAreOk, ItemsAreKept, RemovedIsOver, NoBatch
<1>5. QED
  BY <1>3, <1>4 DEF Safety

\* The copies that are acknowledged are stored.
LEMMA CommitAnsweredSafety ==
    ASSUME Shapes, Orderly, Safety, CommitAnswered
    PROVE  Safety'
<1>1. /\ UNCHANGED <<arrivals, items, waiting, encrypted, db, used, removing, ended, dispatched,
                    doubled, outlived>>
      /\ zone = "saved" /\ zone' = "free" /\ batch' = NoBatch
      /\ server \subseteq server' \cup {Env(item.copy) : item \in batch.items}
  BY DEF CommitAnswered
<1>2. /\ InOk' = {} /\ Excepted' = Excepted /\ Plain' = Plain
      /\ \A c : Env(c)' = Env(c)
  BY <1>1, NoBatchOrder DEF Excepted, Plain, Env
<1>3. \A e : (Stored(e) => Stored(e)') /\ (Decrypted(e) => Decrypted(e)')
  BY <1>1, <1>2 DEF Stored, Decrypted
<1>4. \A item \in batch.items : Env(item.copy) \in Excepted \/ Stored(Env(item.copy))
  BY <1>1 DEF Safety, ItemsAreKept
<1>5. Kept'
  <2> SUFFICES ASSUME NEW e \in Envelopes \ (server' \cup Excepted') PROVE Stored(e)'
    BY DEF Kept
  <2>1. CASE e \in server
    BY <1>1, <1>2, <1>3, <1>4, <2>1
  <2>2. CASE e \notin server
    BY <1>2, <1>3, <2>2 DEF Safety, Kept
  <2>3. QED
    BY <2>1, <2>2
<1>6. SpentIsPlain'
  BY <1>1, <1>2, <1>3 DEF Safety, SpentIsPlain
<1>7. Spent = used /\ Spent' = used
  BY <1>1 DEF Safety, UsesAreOk, Spent, NoBatch
<1>8. RemovedIsOver'
  <2>1. \A c \in removing : Env(c) \in Excepted \/ (Env(c) \in used /\ c \notin Plain)
    BY <1>1, <1>7 DEF Safety, RemovedIsOver
  <2>2. QED
    BY <1>1, <1>2, <1>7, <2>1 DEF RemovedIsOver
<1>9. UsesAreOk' /\ ItemsAreKept'
  BY <1>1, <1>2 DEF UsesAreOk, ItemsAreKept, NoBatch
<1>10. QED
  BY <1>5, <1>6, <1>8, <1>9 DEF Safety

\* The message keys are spent together with the rows of what they decrypted.
LEMMA CommitSafety ==
    ASSUME Shapes, Orderly, Safety, Commit
    PROVE  Safety'
<1>1. /\ UNCHANGED <<server, arrivals, encrypted, batch, removing, ended, dispatched, doubled,
                    outlived>>
      /\ zone = "open" /\ zone' = "saved" /\ batch.left = 0 /\ used' = Spent
  BY DEF Commit
<1>2. /\ DOMAIN db' = DOMAIN db \cup InOk \cup InFailed
      /\ \A c \in InFailed : ~db'[c].plain
      /\ \A c \in InOk \ InFailed : db'[c].plain
      /\ \A c \in DOMAIN db \ (InOk \cup InFailed) : db'[c] = db[c]
  BY CommitShapes
<1>3. /\ InOk' = InOk /\ InFailed' = InFailed /\ Excepted' = Excepted
      /\ \A c : Env(c)' = Env(c)
  BY <1>1 DEF InOk, InFailed, Excepted, Env
<1>4. InEncrypted = {}
  <2>1. Tasks = {}
    <3> PICK a \in Nat : \A i \in DOMAIN encrypted :
            (encrypted[i].op = "decrypt") <=> (a < i /\ i <= a + batch.left)
      BY DEF Shapes, Block
    <3>1. DOMAIN encrypted \subseteq Nat
      BY DEF Shapes, QueueShape
    <3>2. \A i \in DOMAIN encrypted : encrypted[i].op # "decrypt"
      BY <1>1, <3>1
    <3>3. QED
      BY <3>2 DEF Tasks
  <2>2. QED
    BY <2>1 DEF InEncrypted
\* What failed is not stored over what was decrypted.
<1>5. \A c \in InOk \cap InFailed : Env(c) \in Excepted
  BY TwiceIsExcepted DEF Orderly, Once, Apart
<1>6. \A c \in Plain \cap InFailed : Env(c) \in Excepted
  BY TwiceIsExcepted DEF Orderly, PendingIsNotPlain
<1>7. /\ \A c \in InOk \ InFailed : c \in Plain'
      /\ \A c \in Plain \ InFailed : c \in Plain'
      /\ Plain' \subseteq Plain \cup InOk
  BY <1>2 DEF Plain
<1>8. Kept'
  <2>1. \A e : Stored(e) => Stored(e)'
    BY <1>2, <1>3 DEF Stored
  <2>2. QED
    BY <1>1, <1>3, <2>1 DEF Safety, Kept
<1>9. SpentIsPlain'
  <2> SUFFICES ASSUME NEW e \in Spent \ Excepted PROVE \E c \in Plain' : Env(c) = e
    BY <1>1, <1>3 DEF SpentIsPlain, Decrypted
  <2>1. CASE e \in batch.uses
    <3>1. PICK c \in InOk : Env(c) = e
      BY <2>1 DEF Safety, UsesAreOk
    <3>2. QED
      BY <1>5, <1>7, <3>1
  <2>2. CASE e \in used
    <3>1. PICK c \in Plain : Env(c) = e
      BY <2>2 DEF Safety, SpentIsPlain, Decrypted
    <3>2. QED
      BY <1>6, <1>7, <3>1
  <2>3. QED
    BY <2>1, <2>2 DEF Spent
<1>10. UsesAreOk'
  <2>1. batch.uses \subseteq Spent
    BY DEF Spent
  <2>2. QED
    BY <1>1, <1>3, <2>1 DEF Safety, UsesAreOk
<1>11. ItemsAreKept'
  <2>1. ASSUME NEW item \in batch.items
        PROVE  Env(item.copy) \in Excepted \/ item.copy \in DOMAIN db'
    BY <1>1, <1>2, <1>4 DEF Safety, ItemsAreKept
  <2>2. \A c \in DOMAIN db' : Stored(Env(c))'
    BY <1>3 DEF Stored
  <2>3. QED
    BY <1>1, <1>3, <2>1, <2>2 DEF ItemsAreKept
<1>12. RemovedIsOver'
  <2>1. \A c \in removing : Env(c) \in Excepted \/ (Env(c) \in Spent /\ c \notin Plain /\ c \notin InOk)
    BY <1>1 DEF Safety, RemovedIsOver
  <2>2. Spent' = Spent
    BY <1>1 DEF Spent
  <2>3. QED
    BY <1>1, <1>3, <1>7, <2>1, <2>2 DEF RemovedIsOver
<1>13. QED
  BY <1>8, <1>9, <1>10, <1>11, <1>12 DEF Safety

\* A decryption, as far as the message keys are concerned.
LEMMA DecryptUses ==
    ASSUME Shapes, Decrypt, NEW e, e = Env(NextItem.copy)
    PROVE  /\ ended \subseteq ended' /\ outlived \subseteq outlived'
           /\ dispatched \subseteq dispatched'
           /\ \/ /\ batch'.uses = batch.uses \cup {e} /\ e \notin Spent
                 /\ InOk' = InOk \cup {NextItem.copy} /\ removing' = removing
              \/ /\ batch'.uses = batch.uses \/ (batch'.uses = batch.uses \cup {e} /\ e \in Excepted')
                 /\ InOk' = InOk
                 /\ \/ removing' = removing
                    \/ /\ removing' = removing \cup {NextItem.copy}
                       /\ e \in Spent \cup Excepted'
<1>1. batch \in [left : 0 .. BatchSize, items : SUBSET ItemOf(Arrived),
                 ok : Seq(ItemOf(Arrived)),
                 failed : FailedOf(Arrived), uses : SUBSET Envelopes]
  BY DEF Shapes, BatchShape
<1>2. ended \subseteq ended' /\ outlived \subseteq outlived' /\ dispatched \subseteq dispatched'
  BY DEF Decrypt, DecryptStopped, DecryptDropsEarly, DecryptThrows, DecryptReceipt,
         DecryptingContent, DecryptDuplicate, DecryptSucceeds, DecryptDrops, DecryptRejected,
         DecryptFails, DecryptTimesOut
<1>3. CASE DecryptSucceeds
  <2>1. /\ batch'.uses = batch.uses \cup {e} /\ e \notin Spent /\ removing' = removing
        /\ batch'.ok = Append(batch.ok, NextItem)
    BY <1>1, <1>3 DEF DecryptSucceeds
  <2>2. NextItem \in ItemOf(Arrived)
    BY DecryptionShapes, DecryptingFacts
  <2>3. InOk' = InOk \cup {NextItem.copy}
    <3> PICK ok, all, n : ok = batch.ok /\ all = batch'.ok /\ n = Len(batch.ok)
      OBVIOUS
    <3>1. /\ DOMAIN all = 1 .. n + 1 /\ DOMAIN ok = 1 .. n /\ n \in Nat
          /\ \A i \in 1 .. n : all[i] = ok[i]
          /\ all[n + 1] = NextItem
      BY <1>1, <2>1, <2>2, AppendFacts
    <3>2. /\ \A i \in DOMAIN all : (i \in DOMAIN ok /\ all[i] = ok[i]) \/ all[i] = NextItem
          /\ \A i \in DOMAIN ok : i \in DOMAIN all /\ all[i] = ok[i]
          /\ n + 1 \in DOMAIN all
      BY <3>1
    <3>3. ToSet(all) = ToSet(ok) \cup {NextItem}
      BY <3>1, <3>2 DEF ToSet
    <3>4. QED
      BY <3>3 DEF InOk
  <2>4. QED
    BY <1>2, <2>1, <2>3
<1>4. CASE DecryptStopped \/ DecryptDropsEarly \/ DecryptThrows \/ DecryptReceipt \/ DecryptFails
  <2>1. batch'.ok = batch.ok /\ batch'.uses = batch.uses /\ removing' = removing
    BY <1>1, <1>4 DEF DecryptStopped, DecryptDropsEarly, DecryptThrows, DecryptReceipt, DecryptFails
  <2>2. QED
    BY <1>2, <2>1 DEF InOk
<1>5. CASE DecryptDuplicate
  <2>1. /\ batch'.ok = batch.ok /\ batch'.uses = batch.uses
        /\ removing' = removing \cup {NextItem.copy} /\ e \in Spent
    BY <1>1, <1>5 DEF DecryptDuplicate
  <2>2. QED
    BY <1>2, <2>1 DEF InOk
<1>6. CASE DecryptDrops \/ DecryptRejected
  <2>1. PICK spent \in SUBSET {e} : batch'.ok = batch.ok /\ batch'.uses = batch.uses \cup spent
    BY <1>1, <1>6 DEF DecryptDrops, DecryptRejected
  <2>2. spent = {} \/ spent = {e}
    OBVIOUS
  <2>3. batch'.uses = batch.uses \/ batch'.uses = batch.uses \cup {e}
    BY <2>1, <2>2
  <2>4. removing' = removing \cup {NextItem.copy} /\ e \in Excepted'
    BY <1>6 DEF DecryptDrops, DecryptRejected, Excepted
  <2>5. QED
    BY <1>2, <2>1, <2>3, <2>4 DEF InOk
<1>7. CASE DecryptTimesOut
  <2>1. /\ batch'.ok = batch.ok /\ batch'.uses = batch.uses \cup {e}
        /\ removing' = removing /\ e \in Excepted'
    BY <1>1, <1>7 DEF DecryptTimesOut, Excepted
  <2>2. QED
    BY <1>2, <2>1 DEF InOk
<1>8. QED
  BY <1>3, <1>4, <1>5, <1>6, <1>7 DEF Decrypt

\* A copy that cannot be decrypted again is removed, and no other row of its envelope is.
LEMMA DecryptSafety ==
    ASSUME Shapes, Orderly, Safety, Decrypt
    PROVE  Safety'
<1> PICK c, e : c = NextItem.copy /\ e = Env(NextItem.copy)
  OBVIOUS
<1>1. /\ encrypted \in Seq(EncryptedTask(Arrived)) /\ encrypted # <<>>
      /\ encrypted[1].op = "decrypt" /\ encrypted[1].item.copy = c
      /\ zone = "open"
  BY DecryptionShapes, DecryptingFacts
<1>2. encrypted' = Tail(encrypted)
  BY DEF Decrypt, DecryptStopped, DecryptDropsEarly, DecryptThrows, DecryptReceipt,
         DecryptingContent, DecryptDuplicate, DecryptSucceeds, DecryptDrops, DecryptRejected,
         DecryptFails, DecryptTimesOut
<1>3. /\ UNCHANGED <<arrivals, db, used, server, zone, doubled>>
      /\ batch'.items = batch.items
      /\ \/ InOk' = InOk /\ InFailed' = InFailed \cup {c}
         \/ InOk' = InOk \cup {c} /\ InFailed' = InFailed
         \/ InOk' = InOk /\ InFailed' = InFailed /\ e \in Excepted'
  BY DecryptPlaces
<1>4. Plain' = Plain /\ Twice' = Twice /\ \A d : Env(d)' = Env(d)
  BY <1>3, SameTwice DEF Plain, Env
<1>5. /\ ended \subseteq ended' /\ outlived \subseteq outlived' /\ dispatched \subseteq dispatched'
      /\ \/ /\ batch'.uses = batch.uses \cup {e} /\ e \notin Spent
            /\ InOk' = InOk \cup {c} /\ removing' = removing
         \/ /\ batch'.uses = batch.uses \/ (batch'.uses = batch.uses \cup {e} /\ e \in Excepted')
            /\ InOk' = InOk
            /\ \/ removing' = removing
               \/ /\ removing' = removing \cup {c}
                  /\ e \in Spent \cup Excepted'
  BY DecryptUses
<1>6. Excepted \subseteq Excepted'
  BY <1>3, <1>5 DEF Excepted
<1>7. /\ c \in InEncrypted /\ InEncrypted \subseteq InEncrypted' \cup {c}
  BY <1>1, <1>2, <1>4, OnceInEncryptedShifted DEF Orderly, Once
<1>8. Kept' /\ SpentIsPlain'
  BY <1>3, <1>6, StoredStays
<1>9. UsesAreOk'
  <2>1. /\ \A f \in batch.uses \ Excepted : \E d \in InOk : Env(d) = f
        /\ \A d \in InOk : Env(d) \in batch.uses
    BY DEF Safety, UsesAreOk
  <2>2. \A f \in batch'.uses \ Excepted' : \E d \in InOk' : Env(d) = f
    BY <1>5, <1>6, <2>1
  <2>3. \A d \in InOk' : Env(d) \in batch'.uses
    BY <1>5, <2>1
  <2>4. QED
    BY <1>1, <1>3, <1>4, <2>2, <2>3 DEF UsesAreOk
<1>10. ItemsAreKept'
  <2> SUFFICES ASSUME NEW item \in batch.items
               PROVE  \/ Env(item.copy) \in Excepted'
                      \/ item.copy \in InEncrypted' \cup InOk' \cup InFailed'
    BY <1>1, <1>3, <1>4 DEF ItemsAreKept
  <2>1. \/ Env(item.copy) \in Excepted
        \/ item.copy \in InEncrypted \cup InOk \cup InFailed
    BY <1>1 DEF Safety, ItemsAreKept
  <2>2. QED
    BY <1>3, <1>6, <1>7, <2>1
<1>11. RemovedIsOver'
  <2>1. c \in Plain \cup InOk => e \in Excepted
    <3>1. c \in Plain \cup InOk => c \in Twice
      BY <1>7 DEF Orderly, Once, Apart, PendingIsNotPlain
    <3>2. QED
      BY <3>1, TwiceIsExcepted
  <2>2. \A d \in removing : Env(d) \in Excepted \/ (Env(d) \in Spent /\ d \notin Plain /\ d \notin InOk)
    BY <1>1 DEF Safety, RemovedIsOver
  <2>3. Spent \subseteq Spent'
    BY <1>3, <1>5 DEF Spent
  <2>4. ASSUME NEW d \in removing'
        PROVE  Env(d) \in Excepted' \/ (Env(d) \in Spent' /\ d \notin Plain /\ d \notin InOk')
    <3>1. CASE d \in removing /\ d # c
      BY <1>5, <1>6, <2>2, <2>3, <3>1
    <3>2. CASE d \in removing /\ d = c
      BY <1>5, <1>6, <2>2, <2>3, <3>2
    <3>3. CASE d \notin removing
      BY <1>5, <1>6, <2>1, <2>3, <3>3
    <3>4. QED
      BY <3>1, <3>2, <3>3
  <2>5. QED
    BY <1>4, <2>4 DEF RemovedIsOver
<1>12. QED
  BY <1>8, <1>9, <1>10, <1>11 DEF Safety
-------------------------------------------------------------------------------
(* The invariant *)

LEMMA InitInv ==
    ASSUME Init
    PROVE  Inv
<1>1. DiskShape /\ Len(arrivals) = 0 /\ DOMAIN db = {}
  <2>1. arrivals \in Seq(Envelopes) /\ Len(arrivals) = 0
    BY DEF Init
  <2>2. DOMAIN db = {} /\ db \in [DOMAIN db -> Row]
    BY DEF Init
  <2>3. QED
    BY <2>1, <2>2 DEF DiskShape, Init
<1>2. NetShape /\ FlagShape
  <2>1. NetShape
    <3>1. MaxConnections \in Nat /\ MaxConnections # 0
      BY LimitsAssumption
    <3>2. connection \in 1 .. MaxConnections
      BY <3>1 DEF Init
    <3>3. server \in SUBSET Envelopes /\ sent \in SUBSET Envelopes /\ emptySent \in BOOLEAN
      BY DEF Init
    <3>4. QED
      BY <3>2, <3>3 DEF NetShape
  <2>2. faults.errors = 0 /\ faults.failures = 0 /\ faults \in [errors : Nat, failures : Nat]
    BY DEF Init
  <2>3. Faults <= MaxFaults
    BY <2>2, LimitsAssumption DEF Faults
  <2>4. emptied \in BOOLEAN /\ idleWait \in BOOLEAN /\ timer \in BOOLEAN /\ stopping \in BOOLEAN
    BY DEF Init
  <2>5. QED
    BY <2>1, <2>2, <2>3, <2>4 DEF FlagShape
<1>3. Shapes
  <2>1. Len(arrivals) \in Nat /\ Len(arrivals) <= MaxArrivals
    BY <1>1, LimitsAssumption
  <2>2. IncomingShape /\ FoundShape /\ ItemsShape /\ QueueShape /\ BatchShape /\ Block
    BY <2>1, FreshShapes DEF Init
  <2>3. QED
    BY <1>1, <1>2, <2>2 DEF Shapes
<1>4. Orderly /\ InOk = {}
  BY FreshOrder DEF Init
<1>5. Safety
  <2>1. Kept
    BY DEF Init, Kept, Excepted
  <2>2. SpentIsPlain /\ UsesAreOk /\ ItemsAreKept /\ RemovedIsOver
    BY <1>4 DEF Init, SpentIsPlain, UsesAreOk, ItemsAreKept, RemovedIsOver, NoBatch
  <2>3. QED
    BY <2>1, <2>2 DEF Safety
<1>6. QED
  BY <1>3, <1>4, <1>5 DEF Inv

\* Every step keeps the invariant.
LEMMA InvStep ==
    ASSUME Inv, [Next]_vars
    PROVE  Inv'
<1>1. Shapes /\ Orderly /\ Safety
  BY DEF Inv
<1>2. CASE UNCHANGED vars
  <2>1. Shapes'
    BY <1>1, <1>2, SameShapes DEF Shapes, vars
  <2>2. Orderly'
    BY <1>1, <1>2, OrderlyStays DEF vars, Plain
  <2>3. Safety'
    BY <1>1, <1>2, SafetyUnmoved DEF vars, Excepted, InEncrypted, Tasks
  <2>4. QED
    BY <2>1, <2>2, <2>3 DEF Inv
<1>3. CASE Deliver \/ SayEmpty \/ HandleEmpty \/ BatcherIdle \/ RetryCached
  <2>1. Shapes'
    BY <1>1, <1>3, DeliverShapes, SayEmptyShapes, HandleEmptyShapes, BatcherIdleShapes,
       RetryCachedShapes
  <2>2. Orderly' /\ Safety'
    BY <1>1, <1>3, QuietOrder, QuietSafety
  <2>3. QED
    BY <2>1, <2>2 DEF Inv
<1>4. CASE Hand \/ Handle \/ AppSeesError
  <2>1. Shapes'
    BY <1>1, <1>4, HandleDecryptedShapes, DispatchErrorShapes, WaitForDecryptedShapes,
       ScheduleRetryShapes, EmitEmptyShapes, AppHandlesShapes, AppThrowsShapes,
       AppSeesErrorShapes
    DEF Hand, Handle
  <2>2. Orderly' /\ Safety'
    BY <1>1, <1>4, QuietOrder, QuietSafety
  <2>3. QED
    BY <2>1, <2>2 DEF Inv
<1>5. CASE Reconnect \/ StopProcessing
  <2>1. Shapes'
    BY <1>1, <1>5, ReconnectShapes, StopProcessingShapes
  <2>2. Orderly' /\ Safety'
    BY <1>1, <1>5, QuietOrder, QuietSafety
  <2>3. QED
    BY <2>1, <2>2 DEF Inv
<1>6. CASE KickBatchOff
  BY <1>1, <1>6, KickBatchOffShapes, KickBatchOffOrder, QuietSafety DEF Inv
<1>7. CASE HandleRequest
  BY <1>1, <1>7, HandleRequestShapes, HandleRequestOrder, HandleRequestSafety DEF Inv
<1>8. CASE WaitForIncoming \/ PassOn \/ QueueCached
  <2>1. Shapes' /\ Orderly'
    BY <1>1, <1>8, WaitForIncomingShapes, WaitForIncomingOrder, PassOnShapes, PassOnOrder,
       QueueCachedShapes, QueueCachedOrder
  <2>2. QED
    BY <1>1, <1>8, <2>1, PassingSafety DEF Inv
<1>9. CASE GetAllUnprocessedIds \/ GetUnprocessed
  <2>1. Shapes' /\ Orderly'
    BY <1>1, <1>9, GetAllUnprocessedIdsShapes, GetUnprocessedShapes, QuietOrder
  <2>2. QED
    BY <1>1, <1>9, <2>1, FetchSafety DEF Inv
<1>10. CASE EnterZone
  BY <1>1, <1>10, EnterZoneShapes, EnterZoneOrder, EnterZoneSafety DEF Inv
<1>11. CASE Decrypt
  BY <1>1, <1>11, DecryptionShapes, DecryptOrder, DecryptSafety DEF Inv
<1>12. CASE Commit
  BY <1>1, <1>12, CommitShapes, CommitOrder, CommitSafety DEF Inv
<1>13. CASE CommitFails
  <2>1. Orderly'
    BY <1>1, <1>13, NoBatchOrder DEF CommitFails
  <2>2. QED
    BY <1>1, <1>13, <2>1, CommitFailsShapes, CommitFailsSafety DEF Inv
<1>14. CASE CommitAnswered
  <2>1. Orderly'
    BY <1>1, <1>14, NoBatchOrder DEF CommitAnswered
  <2>2. QED
    BY <1>1, <1>14, <2>1, CommitAnsweredShapes, CommitAnsweredSafety DEF Inv
<1>15. CASE RemoveFromCache
  BY <1>1, <1>15, RemoveFromCacheShapes, QuietOrder, RemoveFromCacheSafety DEF Inv
<1>16. CASE Restart
  <2>1. items' = <<>> /\ waiting' = <<>> /\ encrypted' = <<>> /\ batch' = NoBatch
    BY <1>16 DEF Restart
  <2>2. (items = <<>> /\ waiting = <<>> /\ encrypted = <<>> /\ batch = NoBatch => Orderly)'
    BY FreshOrder, PTL
  <2>3. Orderly'
    BY <2>1, <2>2 DEF NoBatch
  <2>4. QED
    BY <1>1, <1>16, <2>3, RestartShapes, RestartSafety DEF Inv
<1>17. QED
  BY <1>2, <1>3, <1>4, <1>5, <1>6, <1>7, <1>8, <1>9, <1>10, <1>11, <1>12, <1>13, <1>14, <1>15,
     <1>16
  DEF Next, Work, Receive, Fetch, EndBatch

\* The inductive invariant: the types, one place for each copy, and what is stored.
THEOREM InvHolds == Spec => []Inv
<1>1. Init => Inv
  BY InitInv
<1>2. Inv /\ [Next]_vars => Inv'
  BY InvStep
<1>3. QED
  BY <1>1, <1>2, PTL DEF Spec

\* TypeOK: every variable stays within its type; of the copies that wait, fail, are
\* removed or have a row, each has arrived; no bound of the batcher, the batch in the
\* zone or the faults is passed.
THEOREM TypeCorrect == Spec => []TypeOK
<1>1. ASSUME Inv PROVE TypeOK
  <2>1. Shapes
    BY <1>1 DEF Inv
  <2>2. /\ server \subseteq Envelopes /\ sent \subseteq Envelopes
        /\ connection \in 1 .. MaxConnections /\ emptySent \in BOOLEAN
        /\ arrivals \in Seq(Envelopes) /\ used \subseteq Envelopes
    BY <2>1 DEF Shapes, NetShape, DiskShape
  <2>3. Arrived = DOMAIN arrivals /\ Len(arrivals) \in Nat
    BY <2>2 DEF Arrived
  <2>4. Len(arrivals) <= MaxArrivals
    <3>1. Cardinality(RequestsIn(incoming)) \in Nat
      BY <2>1, RequestsAreFinite DEF Shapes, IncomingShape
    <3>2. Requests = RequestsIn(incoming)
      BY DEF Requests, RequestsIn
    <3>3. Len(arrivals) + Cardinality(Requests) <= MaxArrivals /\ MaxArrivals \in Nat
      BY <2>1, LimitsAssumption DEF Shapes, IncomingShape
    <3>4. QED
      BY <2>3, <3>1, <3>2, <3>3
  <2>5. DOMAIN db \subseteq DOMAIN arrivals /\ \A c \in DOMAIN db : db[c] \in Row
    BY <2>1, <2>3 DEF Shapes, DiskShape
  <2>6. /\ zone \in {"free", "open", "saved", "stuck"}
        /\ batch.left \in 0 .. BatchSize /\ batch.uses \subseteq Envelopes
    BY <2>1 DEF Shapes, BatchShape
  <2>7. /\ found.phase \in {"idle", "ids", "rows"}
        /\ Len(items) < BatchSize
        /\ \A i \in DOMAIN waiting : Len(waiting[i]) \in 1 .. BatchSize
    BY <2>1 DEF Shapes, FoundShape, ItemsShape
  <2>8. Undecrypted \cup errors \cup removing \subseteq DOMAIN arrivals
    <3>1. Undecrypted \subseteq Arrived
      BY <2>1, UndecryptedPlaces, PlacesArrived
    <3>2. errors \subseteq Arrived /\ removing \subseteq Arrived
      BY <2>1 DEF Shapes, QueueShape
    <3>3. QED
      BY <2>3, <3>1, <3>2
  <2>9. {emptied, idleWait, timer, stopping} \subseteq BOOLEAN
    BY <2>1, Zenon DEF Shapes, FlagShape
  <2>10. faults \in [errors : 0 .. MaxFaults, failures : 0 .. MaxFaults] /\ Faults <= MaxFaults
    <3>1. faults \in [errors : Nat, failures : Nat] /\ Faults <= MaxFaults /\ MaxFaults \in Nat
      BY <2>1, LimitsAssumption DEF Shapes, FlagShape
    <3>2. faults.errors \in 0 .. MaxFaults /\ faults.failures \in 0 .. MaxFaults
      BY <3>1 DEF Faults
    <3>3. QED
      BY <3>1, <3>2
  <2>11. QED
    BY <2>2, <2>4, <2>5, <2>6, <2>7, <2>8, <2>9, <2>10 DEF TypeOK
<1>2. QED
  BY <1>1, InvHolds, PTL
-------------------------------------------------------------------------------
(* Delivery receipts *)

\* A receipt that was given to the application is there, or was handled, or its event was
\* thrown away.
HandedOn == \A e \in Receipts \cap dispatched : e \in ended \cup lost \cup ReceiptsIn(app)

\* Receipts have no message keys.
ReceiptsHaveNoKeys == Receipts \cap Spent = {}

LEMMA ReceiptsInFacts ==
    ASSUME NEW list, NEW e
    PROVE  e \in ReceiptsIn(list)
               <=> e \in Receipts /\ \E i \in DOMAIN list : list[i].op = "event" /\ Env(list[i].n) = e
BY DEF ReceiptsIn

\* The events stay where they are, and so do the envelopes of their copies.
LEMMA AppStays ==
    ASSUME Shapes, HandedOn, UNCHANGED <<app, dispatched, lost>>, ended \subseteq ended',
           \A c \in Arrived : Env(c)' = Env(c)
    PROVE  HandedOn'
<1>1. \A i \in DOMAIN app : app[i].op = "event" => app[i].n \in Arrived
  BY DEF Shapes, QueueShape, AppTask
<1>2. ReceiptsIn(app) \subseteq ReceiptsIn(app)'
  BY <1>1 DEF ReceiptsIn
<1>3. QED
  BY <1>2 DEF HandedOn

\* A task comes in, and what it dispatches is among the events.
LEMMA AppGrows ==
    ASSUME Shapes, HandedOn, UNCHANGED <<arrivals, ended, lost>>,
           NEW t \in AppTask(Arrived), app' = Append(app, t),
           \A e \in dispatched' : e \in dispatched \/ (t.op = "event" /\ e = Env(t.n))
    PROVE  HandedOn'
<1>1. /\ app \in Seq(AppTask(Arrived))
      /\ DOMAIN app' = 1 .. Len(app) + 1 /\ DOMAIN app = 1 .. Len(app) /\ Len(app) \in Nat
      /\ \A i \in 1 .. Len(app) : app'[i] = app[i]
      /\ app'[Len(app) + 1] = t
  BY AppendFacts DEF Shapes, QueueShape
<1>2. \A c : Env(c)' = Env(c)
  BY DEF Env
<1> SUFFICES ASSUME NEW e \in Receipts \cap dispatched'
             PROVE  e \in ended \cup lost \cup ReceiptsIn(app)'
  BY DEF HandedOn
<1>3. e \in ReceiptsIn(app)' <=> \E i \in DOMAIN app' : app'[i].op = "event" /\ Env(app'[i].n) = e
  BY <1>2 DEF ReceiptsIn
<1>4. CASE e \in dispatched
  <2>1. \A i \in DOMAIN app : i \in DOMAIN app' /\ app'[i] = app[i]
    BY <1>1
  <2>2. e \in ReceiptsIn(app) => e \in ReceiptsIn(app)'
    BY <1>3, <2>1, ReceiptsInFacts
  <2>3. QED
    BY <1>4, <2>2 DEF HandedOn
<1>5. CASE t.op = "event" /\ e = Env(t.n)
  <2>1. Len(app) + 1 \in DOMAIN app'
    BY <1>1
  <2>2. QED
    BY <1>1, <1>3, <1>5, <2>1
<1>6. QED
  BY <1>4, <1>5

\* A task is done; the receipt it was for is handled, or lost.
LEMMA AppShrinks ==
    ASSUME Shapes, HandedOn, UNCHANGED <<arrivals, dispatched>>, app # <<>>, app' = Tail(app),
           ended \subseteq ended', lost \subseteq lost',
           Head(app).op = "event" /\ Env(Head(app).n) \in Receipts
                => Env(Head(app).n) \in ended' \cup lost'
    PROVE  HandedOn'
<1>1. /\ app \in Seq(AppTask(Arrived)) /\ Head(app) = app[1]
      /\ DOMAIN app' = 1 .. Len(app) - 1 /\ DOMAIN app = 1 .. Len(app) /\ Len(app) \in Nat
      /\ \A i \in 1 .. Len(app) - 1 : app'[i] = app[i + 1]
  BY TailFacts DEF Shapes, QueueShape
<1>2. \A c : Env(c)' = Env(c)
  BY DEF Env
<1> SUFFICES ASSUME NEW e \in Receipts \cap dispatched, e \notin ended' \cup lost'
             PROVE  e \in ReceiptsIn(app)'
  BY DEF HandedOn
<1>3. e \in ReceiptsIn(app)' <=> \E i \in DOMAIN app' : app'[i].op = "event" /\ Env(app'[i].n) = e
  BY <1>2 DEF ReceiptsIn
<1>4. e \in ReceiptsIn(app)
  BY DEF HandedOn
<1>5. PICK i \in DOMAIN app : app[i].op = "event" /\ Env(app[i].n) = e
  BY <1>4, ReceiptsInFacts
<1>6. i # 1
  BY <1>1, <1>5
<1>7. i - 1 \in DOMAIN app' /\ app'[i - 1] = app[i]
  BY <1>1, <1>6
<1>8. QED
  BY <1>3, <1>5, <1>7

LEMMA HandedOnStep ==
    ASSUME Shapes, HandedOn, [Next]_vars
    PROVE  HandedOn'
<1>1. CASE HandleDecrypted \/ WaitForDecrypted
  <2> PICK t : t = Head(decrypted)
    OBVIOUS
  <2>1. decrypted \in Seq(DecryptedTask(Arrived)) /\ decrypted # <<>> /\ t.op \in {"event", "empty"}
    BY <1>1 DEF HandleDecrypted, WaitForDecrypted, NextDecrypted, Shapes, QueueShape
  <2>2. t \in DecryptedTask(Arrived)
    BY <2>1, TailFacts
  <2>3. t \in AppTask(Arrived)
    BY <2>1, <2>2 DEF DecryptedTask, AppTask
  <2>4. CASE UNCHANGED <<app, dispatched>>
    BY <1>1, <2>4, AppStays DEF HandleDecrypted, WaitForDecrypted, Env
  <2>5. CASE HandleDecrypted /\ ~stopping
    <3>1. /\ UNCHANGED <<arrivals, ended, lost>> /\ app' = Append(app, t) /\ t.op = "event"
          /\ dispatched' = dispatched \cup {Env(t.n)}
      BY <2>5 DEF HandleDecrypted, NextDecrypted
    <3>2. QED
      BY <2>3, <3>1, AppGrows
  <2>6. CASE WaitForDecrypted
    <3>1. UNCHANGED <<arrivals, ended, lost, dispatched>> /\ app' = Append(app, t)
      BY <2>6 DEF WaitForDecrypted
    <3>2. QED
      BY <2>3, <3>1, AppGrows
  <2>7. QED
    BY <1>1, <2>4, <2>5, <2>6 DEF HandleDecrypted
<1>2. CASE DecryptReceipt
  <2> PICK t : t = Task("event", NextItem.copy)
    OBVIOUS
  <2>1. NextItem \in ItemOf(Arrived)
    BY <1>2, DecryptionShapes, DecryptingFacts DEF Decrypt
  <2>2. t \in AppTask(Arrived) /\ t.op = "event" /\ t.n = NextItem.copy
    BY <2>1 DEF AppTask, Task, ItemOf
  <2>3. /\ UNCHANGED <<arrivals, ended, lost>> /\ app' = Append(app, t)
        /\ dispatched' = dispatched \cup {Env(t.n)}
    BY <1>2, <2>2 DEF DecryptReceipt
  <2>4. QED
    BY <2>2, <2>3, AppGrows
<1>3. CASE Handle
  <2>1. /\ UNCHANGED <<arrivals, dispatched>> /\ app # <<>> /\ app' = Tail(app)
        /\ ended \subseteq ended' /\ lost \subseteq lost'
        /\ Head(app).op = "event" /\ Env(Head(app).n) \in Receipts
                => Env(Head(app).n) \in ended' \cup lost'
    BY <1>3 DEF Handle, EmitEmpty, AppHandles, AppThrows
  <2>2. QED
    BY <2>1, AppShrinks
<1>4. CASE Restart
  BY <1>4 DEF Restart, HandedOn
<1>5. CASE HandleRequest
  <2>1. \A c \in Arrived : Env(c)' = Env(c)
    BY <1>5, HandleRequestShapes
  <2>2. QED
    BY <1>5, <2>1, AppStays DEF HandleRequest
<1>6. CASE UNCHANGED <<arrivals, app, dispatched, lost>> /\ ended \subseteq ended'
  BY <1>6, AppStays DEF Env
<1>7. QED
  BY <1>1, <1>2, <1>3, <1>4, <1>5, <1>6
  DEF Next, Work, Deliver, SayEmpty, Receive, HandleEmpty, WaitForIncoming, Fetch,
      GetAllUnprocessedIds, GetUnprocessed, QueueCached, KickBatchOff, BatcherIdle, RetryCached,
      EnterZone, Decrypt, DecryptStopped, DecryptDropsEarly, DecryptThrows, DecryptDuplicate,
      DecryptSucceeds, DecryptDrops, DecryptRejected, DecryptFails, DecryptTimesOut, EndBatch,
      Commit, CommitFails, CommitAnswered, PassOn, Hand, DispatchError, ScheduleRetry,
      AppSeesError, RemoveFromCache, Reconnect, StopProcessing, vars

\* Only what is decrypted spends a key, and a receipt is not.
LEMMA ReceiptsHaveNoKeysStep ==
    ASSUME ReceiptsHaveNoKeys, Shapes, [Next]_vars
    PROVE  ReceiptsHaveNoKeys'
<1>1. CASE Decrypt
  <2>1. batch \in [left : 0 .. BatchSize, items : SUBSET ItemOf(Arrived),
                   ok : Seq(ItemOf(Arrived)),
                   failed : FailedOf(Arrived), uses : SUBSET Envelopes]
    BY DEF Shapes, BatchShape
  <2>2. CASE DecryptStopped \/ DecryptDropsEarly \/ DecryptThrows \/ DecryptReceipt
             \/ DecryptDuplicate \/ DecryptFails
    BY <2>1, <2>2
    DEF DecryptStopped, DecryptDropsEarly, DecryptThrows, DecryptReceipt, DecryptDuplicate,
        DecryptFails, ReceiptsHaveNoKeys, Spent
  <2>3. CASE DecryptSucceeds \/ DecryptDrops \/ DecryptRejected \/ DecryptTimesOut
    <3>1. used' = used /\ Env(NextItem.copy) \notin Receipts
      BY <2>3
      DEF DecryptSucceeds, DecryptDrops, DecryptRejected, DecryptTimesOut, DecryptingContent
    <3>2. batch'.uses \subseteq batch.uses \cup {Env(NextItem.copy)}
      <4>1. CASE DecryptSucceeds
        BY <2>1, <4>1 DEF DecryptSucceeds
      <4>2. CASE DecryptDrops \/ DecryptRejected
        <5>1. PICK spent \in SUBSET {Env(NextItem.copy)} : batch'.uses = batch.uses \cup spent
          BY <2>1, <4>2 DEF DecryptDrops, DecryptRejected
        <5>2. QED
          BY <5>1
      <4>3. CASE DecryptTimesOut
        BY <2>1, <4>3 DEF DecryptTimesOut
      <4>4. QED
        BY <2>3, <4>1, <4>2, <4>3
    <3>3. QED
      BY <3>1, <3>2 DEF ReceiptsHaveNoKeys, Spent
  <2>4. QED
    BY <1>1, <2>2, <2>3 DEF Decrypt
<1>2. CASE EnterZone \/ CommitFails \/ CommitAnswered \/ Restart
  <2>1. used' = used /\ batch'.uses = {}
    <3>1. CASE EnterZone
      BY <3>1, EnterZoneShapes DEF EnterZone
    <3>2. CASE CommitFails \/ CommitAnswered \/ Restart
      BY <3>2 DEF CommitFails, CommitAnswered, Restart, NoBatch
    <3>3. QED
      BY <1>2, <3>1, <3>2
  <2>2. QED
    BY <2>1 DEF ReceiptsHaveNoKeys, Spent
<1>3. CASE Commit
  BY <1>3 DEF Commit, ReceiptsHaveNoKeys, Spent
<1>4. CASE UNCHANGED <<used, batch>>
  BY <1>4 DEF ReceiptsHaveNoKeys, Spent
<1>5. QED
  BY <1>1, <1>2, <1>3, <1>4
  DEF Next, Work, Deliver, SayEmpty, Receive, HandleRequest, HandleEmpty, WaitForIncoming, Fetch,
      GetAllUnprocessedIds, GetUnprocessed, QueueCached, KickBatchOff, BatcherIdle, RetryCached,
      EndBatch, PassOn, Hand, HandleDecrypted, DispatchError, WaitForDecrypted, ScheduleRetry,
      Handle, EmitEmpty, AppHandles, AppThrows, AppSeesError, RemoveFromCache, Reconnect,
      StopProcessing, vars

LEMMA ReceiptsHold == Spec => [](HandedOn /\ ReceiptsHaveNoKeys)
<1>1. Init => HandedOn /\ ReceiptsHaveNoKeys
  BY DEF Init, HandedOn, ReceiptsHaveNoKeys, Spent, NoBatch
<1>2. Inv /\ HandedOn /\ ReceiptsHaveNoKeys /\ [Next]_vars => (HandedOn /\ ReceiptsHaveNoKeys)'
  BY HandedOnStep, ReceiptsHaveNoKeysStep DEF Inv
<1>3. QED
  BY <1>1, <1>2, InvHolds, PTL DEF Spec

\* NoEnvelopeLost: whatever crashes, connections, failing commits and handlers and second
\* deliveries do, an envelope is on the server, or over, or in a row that is decrypted or
\* can still be decrypted, unless its row was fetched twice or its decryption outlived its
\* task.  Only a delivery receipt that the sender did not encrypt may be in memory alone,
\* and then its event is in the queues of the application, or was thrown away with the
\* process or by a handler: no message, and no receipt that was not dispatched, is.
THEOREM NoEnvelopeIsLost == Spec => []NoEnvelopeLost
<1>1. ASSUME Inv, HandedOn PROVE NoEnvelopeLost
  <2> SUFFICES ASSUME NEW e \in Envelopes \ (doubled \cup outlived), e \notin server \cup ended,
                      e \notin ReceiptsIn(app) \cup lost
               PROVE  \E c \in DOMAIN db : Env(c) = e /\ (db[c].plain \/ e \notin used)
    BY DEF NoEnvelopeLost, Safe
  <2>1. Kept /\ SpentIsPlain
    BY <1>1 DEF Inv, Safety
  <2>2. e \notin Excepted
    BY <1>1 DEF Excepted, HandedOn
  <2>3. CASE e \in used
    <3>1. Decrypted(e)
      BY <2>1, <2>2, <2>3 DEF SpentIsPlain
    <3>2. QED
      BY <3>1 DEF Decrypted, Plain
  <2>4. CASE e \notin used
    BY <2>1, <2>2, <2>4 DEF Kept, Stored
  <2>5. QED
    BY <2>3, <2>4
<1>2. QED
  BY <1>1, InvHolds, ReceiptsHold, PTL
-------------------------------------------------------------------------------
(* The order in which envelopes are passed on.                             *)
(*                                                                         *)
(* An envelope is exempt once it was dispatched, or InOrder leaves it out. *)
(* Every smaller one that is not exempt is ahead of an envelope wherever   *)
(* that one is: among the requests, among the copies to be decrypted, in   *)
(* the batch, in the rows fetched, and in each queue.                      *)

\* In a queue of tasks: the envelopes of those that do op, all and before place n, where
\* env is the envelope of what a task is for.
Before(env, q, op, n) ==
    {f \in Envelopes : \E i \in DOMAIN q : i < n /\ q[i].op = op /\ env[q[i].n] = f}
Tells(env, q, op) == {f \in Envelopes : \E i \in DOMAIN q : q[i].op = op /\ env[q[i].n] = f}

\* What is smaller than the envelope of a task of those kinds is done, or ahead of it.
InTurn(env, q, kinds, op, done) ==
    \A i \in DOMAIN q, f \in Envelopes :
        q[i].op \in kinds /\ f < env[q[i].n] => f \in done \/ f \in Before(env, q, op, i)

Exempt == dispatched \cup troubled \cup ended
Cleared(e) == \A f \in Envelopes : f < e => f \in used \cup Exempt

\* What failed before, and was stored.
Again == {c \in Arrived : Env(c) \in Exempt /\ Cleared(Env(c))}

RowCopies == {found.rows[i].copy : i \in DOMAIN found.rows}
Pending == InEncrypted \cup InBatches
Known == DOMAIN db \cup RowCopies \cup Pending \cup InOk \cup InFailed

\* A row that is not decrypted has failed before.
RowsFailed ==
    /\ doubled \cup outlived \subseteq troubled
    /\ \A c \in DOMAIN db \ Plain : Env(c) \in troubled
    /\ \A i \in DOMAIN found.rows : ~found.rows[i].plain => Env(found.rows[i].copy) \in troubled
    /\ \A c \in InFailed : Env(c) \in troubled

\* All that is smaller than what is stored, or than what a batch has dealt with, was
\* decrypted or is exempt; and so is what the server no longer has.
Past ==
    /\ \A c \in DOMAIN db \cup RowCopies : Cleared(Env(c))
    /\ Envelopes \ server \subseteq used \cup Exempt
    /\ zone = "open" => batch.uses \cap used = {}
    /\ \A c \in InOk \cup InFailed, f \in Envelopes : f < Env(c) => f \in Spent \cup Exempt
    /\ \A item \in batch.items :
        /\ zone = "open" => \/ Env(item.copy) \in Spent \cup Exempt
                            \/ item.copy \in InEncrypted
        /\ zone = "saved" => Env(item.copy) \in used \cup Exempt

\* What was sent is there, in the order in which it was.
Itself == [e \in Envelopes |-> e]
Asked == Tells(Itself, incoming, "request")
PendingEnvelopes == {f \in Envelopes : \E c \in Pending : Env(c) = f}
Queued ==
    zone # "stuck" =>
        /\ sent \subseteq Spent \cup Exempt \cup PendingEnvelopes \cup Asked
        /\ InTurn(Itself, incoming, {"request"}, "request",
                  Spent \cup Exempt \cup PendingEnvelopes)
        /\ \A c \in Pending, f \in Envelopes :
              f < Env(c) => \/ f \in Spent \cup Exempt
                            \/ \E d \in Pending : Env(d) = f /\ d < c

\* Copies are decrypted in the order in which they arrived, unless they are decrypted
\* again; so their rows are in the order of the envelopes.
InSequence(batches, again) ==
    \A i, j \in DOMAIN batches : \A k \in DOMAIN batches[i], l \in DOMAIN batches[j] :
        i < j \/ (i = j /\ k < l) =>
            batches[i][k].copy < batches[j][l].copy \/ batches[j][l].copy \in again
Arranged ==
    /\ InSequence(Batches, Again)
    /\ \A c \in InEncrypted \cup InOk, d \in InBatches : c < d \/ d \in Again
    /\ \A i, k \in Tasks : i < k =>
          encrypted[i].item.copy < encrypted[k].item.copy \/ encrypted[k].item.copy \in Again
    /\ \A c \in InOk, d \in InEncrypted : c < d \/ d \in Again
    /\ zone = "open" => \A c \in InOk, d \in InOk \cup InFailed :
          Env(c) < Env(d) => Env(c) \in Exempt \/ c < d
    /\ \A c \in Plain, d \in Known : Env(c) < Env(d) => Env(c) \in Exempt \/ c < d

\* What was decrypted and is not dispatched is on its way, in its turn.
OkTasks == [i \in DOMAIN batch.ok |-> Task("event", batch.ok[i].copy)]
RowTasks ==
    [i \in DOMAIN found.rows |->
        Task(IF found.rows[i].plain THEN "cached" ELSE "item", found.rows[i].copy)]
Events == Tells(arrivals, decrypted, "event")
CachedOnes == Tells(arrivals, encrypted, "cached")
Ready == IF zone = "saved" THEN Tells(arrivals, OkTasks, "event") ELSE {}
Coming == Events \cup CachedOnes \cup Ready

OnTheWay ==
    \A f \in used \ Exempt :
        \/ f \in Coming
        \/ found.phase = "idle" /\ incoming # <<>> /\ Head(incoming).op = "fetch"
        \/ found.phase = "ids" /\ \A c \in Plain : Env(c) = f => c \in found.ids
        \/ found.phase = "rows" /\ f \in Tells(arrivals, RowTasks, "cached")
EventsInTurn == InTurn(arrivals, decrypted, {"event"}, "event", Exempt)
OkInTurn == InTurn(arrivals, OkTasks, {"event"}, "event", Exempt \cup Events)
CachedInTurn == InTurn(arrivals, encrypted, {"cached"}, "cached", Exempt \cup Events)
RowsInTurn ==
    InTurn(arrivals, RowTasks, {"cached", "item"}, "cached", Exempt \cup Events \cup CachedOnes)
BlockInTurn ==
    \A i \in Tasks, f \in used :
        f < Env(encrypted[i].item.copy) =>
            f \in Exempt \cup Events \cup Before(arrivals, encrypted, "cached", i)
ItemsInTurn ==
    \A c \in InBatches, f \in used : f < Env(c) => f \in Exempt \cup Coming
Line ==
    ~stopping =>
        /\ OnTheWay /\ EventsInTurn /\ OkInTurn /\ CachedInTurn /\ RowsInTurn
        /\ BlockInTurn /\ ItemsInTurn

OrderInv == RowsFailed /\ Past /\ Queued /\ Arranged /\ Line
-------------------------------------------------------------------------------
LEMMA InTurnWith ==
    ASSUME NEW env, NEW q, NEW kinds, NEW op, NEW done, NEW more, done \subseteq more,
           InTurn(env, q, kinds, op, done)
    PROVE  InTurn(env, q, kinds, op, more)
BY DEF InTurn

\* A task that joins a queue behind what it has to follow.
LEMMA TaskJoins ==
    ASSUME NEW S, NEW q \in Seq(S), NEW t \in S, NEW env, NEW kinds, NEW op, NEW done,
           InTurn(env, q, kinds, op, done),
           t.op \in kinds =>
               \A f \in Envelopes : f < env[t.n] => f \in done \cup Tells(env, q, op)
    PROVE  InTurn(env, Append(q, t), kinds, op, done)
<1> DEFINE p == Append(q, t)
<1>1. /\ Len(q) \in Nat /\ DOMAIN q = 1 .. Len(q)
      /\ DOMAIN p = 1 .. Len(q) + 1
      /\ \A i \in 1 .. Len(q) : p[i] = q[i]
      /\ p[Len(q) + 1] = t
  BY AppendFacts
<1> HIDE DEF p
<1> SUFFICES ASSUME NEW i \in DOMAIN p, NEW f \in Envelopes, p[i].op \in kinds, f < env[p[i].n]
             PROVE  f \in done \/ f \in Before(env, p, op, i)
  BY DEF InTurn, p
<1>2. CASE i \in 1 .. Len(q)
  <2>1. f \in done \/ f \in Before(env, q, op, i)
    BY <1>1, <1>2 DEF InTurn
  <2>2. Before(env, q, op, i) \subseteq Before(env, p, op, i)
    BY <1>1 DEF Before
  <2>3. QED
    BY <2>1, <2>2
<1>3. CASE i = Len(q) + 1
  <2>1. f \in done \cup Tells(env, q, op)
    BY <1>1, <1>3
  <2>2. Tells(env, q, op) \subseteq Before(env, p, op, i)
    BY <1>1, <1>3 DEF Before, Tells
  <2>3. QED
    BY <2>1, <2>2
<1>4. QED
  BY <1>1, <1>2, <1>3

LEMMA TellsAppended ==
    ASSUME NEW S, NEW q \in Seq(S), NEW t \in S, NEW env, NEW op
    PROVE  /\ Tells(env, q, op) \subseteq Tells(env, Append(q, t), op)
           /\ t.op = op /\ env[t.n] \in Envelopes => env[t.n] \in Tells(env, Append(q, t), op)
           /\ \A n \in Nat : Before(env, q, op, n) \subseteq Before(env, Append(q, t), op, n)
<1> DEFINE p == Append(q, t)
<1>1. /\ Len(q) \in Nat /\ DOMAIN q = 1 .. Len(q)
      /\ DOMAIN p = 1 .. Len(q) + 1
      /\ \A i \in 1 .. Len(q) : p[i] = q[i]
      /\ p[Len(q) + 1] = t
  BY AppendFacts
<1> HIDE DEF p
<1>2. Tells(env, q, op) \subseteq Tells(env, p, op)
  BY <1>1 DEF Tells
<1>3. \A n \in Nat : Before(env, q, op, n) \subseteq Before(env, p, op, n)
  BY <1>1 DEF Before
<1>4. t.op = op /\ env[t.n] \in Envelopes => env[t.n] \in Tells(env, p, op)
  BY <1>1 DEF Tells
<1>5. QED
  BY <1>2, <1>3, <1>4 DEF p

\* A queue whose first task is taken, and what that task was for.
LEMMA TaskLeaves ==
    ASSUME NEW S, NEW q \in Seq(S), q # <<>>, NEW env, NEW kinds, NEW op, NEW done, NEW more,
           InTurn(env, q, kinds, op, done), done \subseteq more,
           Head(q).op = op /\ env[Head(q).n] \in Envelopes => env[Head(q).n] \in more
    PROVE  /\ InTurn(env, Tail(q), kinds, op, more)
           /\ Head(q).op \in kinds => \A f \in Envelopes : f < env[Head(q).n] => f \in done
           /\ Tells(env, q, op) \subseteq Tells(env, Tail(q), op) \cup more
           /\ \A n \in Nat : Before(env, q, op, n + 1) \subseteq Before(env, Tail(q), op, n) \cup more
<1> DEFINE p == Tail(q)
<1>1. /\ Len(q) \in Nat /\ DOMAIN q = 1 .. Len(q) /\ 1 \in DOMAIN q
      /\ DOMAIN p = 1 .. Len(q) - 1
      /\ \A i \in 1 .. Len(q) - 1 : p[i] = q[i + 1]
      /\ Head(q) = q[1]
  BY TailFacts
<1> HIDE DEF p
<1>2. \A n \in Nat : Before(env, q, op, n + 1) \subseteq Before(env, p, op, n) \cup more
  <2> SUFFICES ASSUME NEW n \in Nat, NEW f \in Envelopes, NEW i \in DOMAIN q,
                      i < n + 1, q[i].op = op, env[q[i].n] = f
               PROVE  f \in Before(env, p, op, n) \cup more
    BY DEF Before
  <2>1. CASE i = 1
    BY <1>1, <2>1
  <2>2. CASE i # 1
    <3>1. i - 1 \in DOMAIN p /\ p[i - 1] = q[i] /\ i - 1 < n
      BY <1>1, <2>2
    <3>2. QED
      BY <3>1 DEF Before
  <2>3. QED
    BY <2>1, <2>2
<1>3. Tells(env, q, op) \subseteq Tells(env, p, op) \cup more
  <2> SUFFICES ASSUME NEW f \in Envelopes, NEW i \in DOMAIN q, q[i].op = op, env[q[i].n] = f
               PROVE  f \in Tells(env, p, op) \cup more
    BY DEF Tells
  <2>1. CASE i = 1
    BY <1>1, <2>1
  <2>2. CASE i # 1
    <3>1. i - 1 \in DOMAIN p /\ p[i - 1] = q[i]
      BY <1>1, <2>2
    <3>2. QED
      BY <3>1 DEF Tells
  <2>3. QED
    BY <2>1, <2>2
<1>4. ASSUME NEW i \in DOMAIN p, NEW f \in Envelopes, p[i].op \in kinds, f < env[p[i].n]
      PROVE  f \in more \/ f \in Before(env, p, op, i)
  <2>1. i \in Nat /\ i + 1 \in DOMAIN q /\ q[i + 1] = p[i]
    BY <1>1
  <2>2. f \in done \/ f \in Before(env, q, op, i + 1)
    BY <1>4, <2>1 DEF InTurn
  <2>3. QED
    BY <1>2, <2>1, <2>2
<1>5. InTurn(env, p, kinds, op, more)
  BY <1>4 DEF InTurn
<1>6. ASSUME Head(q).op \in kinds, NEW f \in Envelopes, f < env[Head(q).n]
      PROVE  f \in done
  <2>1. f \in done \/ f \in Before(env, q, op, 1)
    BY <1>1, <1>6 DEF InTurn
  <2>2. Before(env, q, op, 1) = {}
    BY <1>1 DEF Before
  <2>3. QED
    BY <2>1, <2>2
<1>7. QED
  BY <1>2, <1>3, <1>5, <1>6 DEF p

\* A queue behind another one.
LEMMA TasksJoin ==
    ASSUME NEW S, NEW q \in Seq(S), NEW t \in Seq(S), NEW env, NEW kinds, NEW op, NEW done,
           InTurn(env, q, kinds, op, done), InTurn(env, t, kinds, op, done \cup Tells(env, q, op))
    PROVE  /\ InTurn(env, q \o t, kinds, op, done)
           /\ Tells(env, q, op) \subseteq Tells(env, q \o t, op)
           /\ Tells(env, t, op) \subseteq Tells(env, q \o t, op)
<1> DEFINE p == q \o t
           n == Len(q)
<1>1. /\ n \in Nat /\ Len(t) \in Nat
      /\ DOMAIN q = 1 .. n /\ DOMAIN t = 1 .. Len(t) /\ DOMAIN p = 1 .. n + Len(t)
      /\ \A i \in 1 .. n : p[i] = q[i]
      /\ \A i \in 1 .. n + Len(t) : i > n => i - n \in DOMAIN t /\ p[i] = t[i - n]
      /\ \A i \in 1 .. Len(t) : n + i \in DOMAIN p /\ n + i > n /\ (n + i) - n = i
  BY ConcatFacts
<1> HIDE DEF p, n
<1>2. \A i \in DOMAIN t : n + i \in DOMAIN p /\ p[n + i] = t[i] /\ i \in Nat
  BY <1>1
<1>3. \A i \in DOMAIN q : i \in DOMAIN p /\ p[i] = q[i]
  BY <1>1
<1>4. Tells(env, q, op) \subseteq Tells(env, p, op) /\ Tells(env, t, op) \subseteq Tells(env, p, op)
  BY <1>2, <1>3 DEF Tells
<1>5. ASSUME NEW i \in DOMAIN p, NEW f \in Envelopes, p[i].op \in kinds, f < env[p[i].n]
      PROVE  f \in done \/ f \in Before(env, p, op, i)
  <2>1. CASE i \in DOMAIN q
    <3>1. f \in done \/ f \in Before(env, q, op, i)
      BY <1>3, <1>5, <2>1 DEF InTurn
    <3>2. Before(env, q, op, i) \subseteq Before(env, p, op, i)
      BY <1>3 DEF Before
    <3>3. QED
      BY <3>1, <3>2
  <2>2. CASE i \notin DOMAIN q
    <3> PICK k : k = i - n
      OBVIOUS
    <3>1. i \in Nat /\ i > n /\ k \in DOMAIN t /\ p[i] = t[k] /\ k \in Nat
      BY <1>1, <2>2
    <3>2. f \in done \/ f \in Tells(env, q, op) \/ f \in Before(env, t, op, k)
      BY <1>5, <3>1 DEF InTurn
    <3>3. Tells(env, q, op) \subseteq Before(env, p, op, i)
      BY <1>1, <1>3, <3>1 DEF Tells, Before
    <3>4. Before(env, t, op, k) \subseteq Before(env, p, op, i)
      <4> SUFFICES ASSUME NEW g \in Envelopes, NEW l \in DOMAIN t, l < k, t[l].op = op,
                          env[t[l].n] = g
                   PROVE  g \in Before(env, p, op, i)
        BY DEF Before
      <4>1. n + l < i /\ n + l \in DOMAIN p /\ p[n + l] = t[l]
        BY <1>1, <1>2, <3>1
      <4>2. QED
        BY <4>1 DEF Before
    <3>5. QED
      BY <3>2, <3>3, <3>4
  <2>3. QED
    BY <2>1, <2>2
<1>6. QED
  BY <1>4, <1>5 DEF InTurn, p
-------------------------------------------------------------------------------
(* What every step does to the rows and to the history. *)

LEMMA HistoryGrows ==
    ASSUME Next
    PROVE  /\ dispatched \subseteq dispatched' /\ troubled \subseteq troubled' /\ ended \subseteq ended'
           /\ Exempt \subseteq Exempt'
<1>1. CASE Deliver \/ SayEmpty \/ Receive \/ KickBatchOff \/ BatcherIdle \/ RetryCached \/ EnterZone
  BY <1>1 DEF Deliver, SayEmpty, Receive, HandleRequest, HandleEmpty, WaitForIncoming,
      KickBatchOff, BatcherIdle, RetryCached, EnterZone, history, Exempt
<1>2. CASE Fetch
  BY <1>2 DEF Fetch, GetAllUnprocessedIds, GetUnprocessed, QueueCached, history, Exempt
<1>3. CASE Decrypt
  BY <1>3 DEF Decrypt, DecryptStopped, DecryptDropsEarly, DecryptThrows, DecryptReceipt,
              DecryptingContent, DecryptDuplicate, DecryptSucceeds, DecryptDrops,
              DecryptRejected, DecryptFails, DecryptTimesOut, history, Exempt
<1>4. CASE EndBatch \/ PassOn
  BY <1>4 DEF EndBatch, Commit, CommitFails, CommitAnswered, PassOn, history, Exempt
<1>5. CASE Hand
  BY <1>5 DEF Hand, HandleDecrypted, DispatchError, WaitForDecrypted, ScheduleRetry, history, Exempt
<1>6. CASE Handle \/ AppSeesError \/ RemoveFromCache
  BY <1>6 DEF Handle, EmitEmpty, AppHandles, AppThrows, AppSeesError, RemoveFromCache, history,
      Exempt
<1>7. CASE Reconnect \/ StopProcessing \/ Restart
  BY <1>7 DEF Reconnect, StopProcessing, Restart, history, Exempt
<1>8. QED
  BY <1>1, <1>2, <1>3, <1>4, <1>5, <1>6, <1>7 DEF Next, Work

\* The steps that leave the copies that there are, the rows and the batch alone.
Quiet ==
    \/ Deliver \/ SayEmpty \/ HandleEmpty \/ WaitForIncoming \/ KickBatchOff \/ BatcherIdle
    \/ RetryCached \/ PassOn \/ Hand \/ Handle \/ AppSeesError \/ Reconnect \/ StopProcessing

LEMMA QuietSteps ==
    ASSUME Quiet
    PROVE  UNCHANGED <<server, arrivals, db, used, found, zone, batch, troubled, doubled, outlived>>
<1>1. CASE Deliver \/ SayEmpty \/ HandleEmpty \/ WaitForIncoming \/ KickBatchOff
  BY <1>1 DEF Deliver, SayEmpty, HandleEmpty, WaitForIncoming, KickBatchOff, net, disk, batching,
      history
<1>2. CASE BatcherIdle \/ RetryCached \/ PassOn \/ Hand
  BY <1>2 DEF BatcherIdle, RetryCached, PassOn, Hand, HandleDecrypted, DispatchError,
      WaitForDecrypted, ScheduleRetry, net, disk, batching, history
<1>3. CASE Handle \/ AppSeesError \/ Reconnect \/ StopProcessing
  BY <1>3 DEF Handle, EmitEmpty, AppHandles, AppThrows, AppSeesError, Reconnect, StopProcessing,
      net, disk, pipeline, batching, history
<1>4. QED
  BY <1>1, <1>2, <1>3 DEF Quiet

\* Copies stay copies of their envelopes.
LEMMA EnvStays ==
    ASSUME Shapes, Next
    PROVE  Arrived \subseteq Arrived' /\ \A c \in Arrived : Env(c)' = Env(c)
<1>1. CASE HandleRequest
  BY <1>1, HandleRequestShapes
<1>2. CASE UNCHANGED arrivals
  BY <1>2 DEF Arrived, Env
<1>3. Quiet \/ Fetch \/ EnterZone \/ Decrypt \/ EndBatch \/ RemoveFromCache \/ Restart
        => UNCHANGED arrivals
  BY QuietSteps DEF Fetch, GetAllUnprocessedIds, GetUnprocessed, QueueCached, EnterZone,
                    Decrypt, DecryptStopped, DecryptDropsEarly, DecryptThrows, DecryptReceipt,
                    DecryptingContent, DecryptDuplicate, DecryptSucceeds, DecryptDrops,
                    DecryptRejected, DecryptFails, DecryptTimesOut, EndBatch, Commit,
                    CommitFails, CommitAnswered, RemoveFromCache, Restart, disk
<1>4. QED
  BY <1>1, <1>2, <1>3 DEF Next, Work, Quiet, Receive

\* Only a commit stores a copy, or stores one as decrypted.
LEMMA RowsStay ==
    ASSUME Shapes, Next, ~Commit
    PROVE  /\ DOMAIN db' \subseteq DOMAIN db /\ \A c \in DOMAIN db' : db'[c].plain = db[c].plain
           /\ Plain' \subseteq Plain /\ used' = used
<1>1. DOMAIN db' \subseteq DOMAIN db /\ \A c \in DOMAIN db' : db'[c].plain = db[c].plain
  <2>1. CASE GetAllUnprocessedIds
    BY <2>1, GetAllUnprocessedIdsRows
  <2>2. CASE GetUnprocessed
    BY <2>2, GetUnprocessedRows
  <2>3. CASE RemoveFromCache
    BY <2>3, RemoveFromCacheShapes
  <2>4. CASE UNCHANGED db
    BY <2>4
  <2>5. Quiet \/ HandleRequest \/ QueueCached \/ EnterZone \/ Decrypt \/ CommitFails
            \/ CommitAnswered \/ Restart => UNCHANGED db
    BY QuietSteps DEF HandleRequest, QueueCached, EnterZone, Decrypt, DecryptStopped,
                      DecryptDropsEarly, DecryptThrows, DecryptReceipt, DecryptingContent,
                      DecryptDuplicate, DecryptSucceeds, DecryptDrops, DecryptRejected,
                      DecryptFails, DecryptTimesOut, CommitFails, CommitAnswered, Restart, disk
  <2>6. QED
    BY <2>1, <2>2, <2>3, <2>4, <2>5 DEF Next, Work, Quiet, Receive, Fetch, EndBatch
<1>2. used' = used
  <2>1. Quiet \/ HandleRequest \/ Fetch \/ EnterZone \/ Decrypt \/ CommitFails \/ CommitAnswered
            \/ RemoveFromCache \/ Restart => UNCHANGED used
    BY QuietSteps DEF HandleRequest, Fetch, GetAllUnprocessedIds, GetUnprocessed, QueueCached,
                      EnterZone, Decrypt, DecryptStopped, DecryptDropsEarly, DecryptThrows,
                      DecryptReceipt, DecryptingContent, DecryptDuplicate, DecryptSucceeds,
                      DecryptDrops, DecryptRejected, DecryptFails, DecryptTimesOut, CommitFails,
                      CommitAnswered, RemoveFromCache, Restart, disk
  <2>2. QED
    BY <2>1 DEF Next, Work, Quiet, Receive, EndBatch
<1>3. QED
  BY <1>1, <1>2, PlainStays

\* What is found is queued in the order in which it was found.
LEMMA FetchDoneRows ==
    ASSUME NEW rows, FetchDone(rows)
    PROVE  /\ found'.rows = rows
           /\ rows = <<>> => found'.phase = "idle" /\ incoming' = Tail(incoming)
           /\ rows # <<>> => found'.phase = "rows" /\ incoming' = incoming
BY DEF FetchDone, NothingFound

\* All rows whose ids were found and that are still there, oldest first.
LEMMA GetUnprocessedFinds ==
    ASSUME Shapes, GetUnprocessed
    PROVE  /\ \A i \in DOMAIN found'.rows :
                /\ found'.rows[i].copy \in found.ids \cap DOMAIN db
                /\ found'.rows[i].plain = db[found'.rows[i].copy].plain
           /\ \A c \in found.ids \cap DOMAIN db :
                \E i \in DOMAIN found'.rows : found'.rows[i].copy = c
           /\ \A i, k \in DOMAIN found'.rows : i < k => found'.rows[i].copy < found'.rows[k].copy
           /\ FetchDone(found'.rows)
<1> DEFINE Fetched(c) == [copy |-> c, plain |-> db'[c].plain, attempts |-> db'[c].attempts]
<1> PICK ids : ids = found.ids \cap DOMAIN db
  OBVIOUS
<1>1. DOMAIN db' = DOMAIN db /\ \A c \in DOMAIN db : db'[c].plain = db[c].plain
  BY GetUnprocessedRows
<1>2. PICK rows \in [1 .. Cardinality(ids) -> ids] :
        /\ \A m, n \in DOMAIN rows : m < n => rows[m] < rows[n]
        /\ FetchDone([i \in DOMAIN rows |-> Fetched(rows[i])])
  BY DEF GetUnprocessed
<1> PICK fetched : fetched = [i \in DOMAIN rows |-> Fetched(rows[i])]
  OBVIOUS
<1>3. found'.rows = fetched /\ FetchDone(found'.rows)
  BY <1>2, FetchDoneRows
<1>4. ids \subseteq Arrived /\ ids \subseteq Nat
  BY DEF Shapes, DiskShape, Arrived
<1>5. IsFiniteSet(ids) /\ Cardinality(ids) \in Nat
  <2>1. Len(arrivals) \in Int /\ 1 \in Int
    BY DEF Shapes, DiskShape
  <2>2. QED
    BY <1>4, <2>1, FS_Interval, FS_Subset, FS_CardinalityType DEF Arrived
<1>6. \A c \in ids : \E i \in DOMAIN rows : rows[i] = c
  <2> DEFINE numbers == 1 .. Cardinality(ids)
  <2>1. IsFiniteSet(numbers) /\ Cardinality(numbers) = Cardinality(ids)
    BY <1>5, FS_Interval
  <2>2. \A m, n \in numbers : m # n => rows[m] # rows[n]
    <3> SUFFICES ASSUME NEW m \in numbers, NEW n \in numbers, m # n
                 PROVE  rows[m] # rows[n]
      OBVIOUS
    <3>1. rows[m] \in Nat /\ rows[n] \in Nat /\ m \in Int /\ n \in Int
      <4>1. rows[m] \in ids /\ rows[n] \in ids
        OBVIOUS
      <4>2. QED
        BY <1>4, <1>5, <4>1
    <3>2. (m < n => rows[m] < rows[n]) /\ (n < m => rows[n] < rows[m])
      BY <1>2
    <3>3. QED
      BY <3>1, <3>2
  <2>3. rows \in Injection(numbers, ids)
    BY <2>2 DEF Injection, IsInjective
  <2>4. rows \in Surjection(numbers, ids)
    BY <1>5, <2>1, <2>3, FS_Injection
  <2>5. QED
    BY <2>4 DEF Surjection
<1>7. DOMAIN fetched = DOMAIN rows /\ \A i \in DOMAIN rows : fetched[i] = Fetched(rows[i])
  OBVIOUS
<1>8. \A i \in DOMAIN rows : rows[i] \in ids
  OBVIOUS
<1>9. \A i \in DOMAIN fetched :
        fetched[i].copy = rows[i] /\ rows[i] \in ids /\ fetched[i].plain = db[rows[i]].plain
  BY <1>1, <1>7, <1>8
<1>10. \A c \in ids : \E i \in DOMAIN fetched : fetched[i].copy = c
  BY <1>6, <1>7, <1>9
<1>11. \A i, k \in DOMAIN fetched : i < k => fetched[i].copy < fetched[k].copy
  BY <1>2, <1>7, <1>9
<1> HIDE DEF Fetched
<1>12. \A i \in DOMAIN fetched :
        /\ fetched[i].copy \in found.ids \cap DOMAIN db
        /\ fetched[i].plain = db[fetched[i].copy].plain
  BY <1>9
<1>13. QED
  BY <1>3, <1>10, <1>11, <1>12


LEMMA FoundBecomes ==
    ASSUME Shapes, Next
    PROVE  \A i \in DOMAIN found'.rows :
              \/ \E k \in DOMAIN found.rows : found.rows[k] = found'.rows[i]
              \/ /\ found'.rows[i].copy \in DOMAIN db
                 /\ found'.rows[i].plain = db[found'.rows[i].copy].plain
<1>1. CASE GetUnprocessed
  BY <1>1, GetUnprocessedFinds
<1>2. CASE QueueCached
  <2>1. found.rows \in Seq(FoundRow(Arrived)) /\ found.rows # <<>>
    BY <1>2 DEF QueueCached, Shapes, FoundShape
  <2>2. found'.rows = Tail(found.rows)
    BY <1>2, FetchDoneRows DEF QueueCached
  <2>3. \A i \in DOMAIN Tail(found.rows) :
            i + 1 \in DOMAIN found.rows /\ Tail(found.rows)[i] = found.rows[i + 1]
    BY <2>1, TailFacts
  <2>4. QED
    BY <2>2, <2>3
<1>3. CASE found' = found
  BY <1>3
<1>4. CASE found'.rows = <<>>
  BY <1>4
<1>5. GetAllUnprocessedIds => found' = found \/ found'.rows = <<>>
  BY DEF GetAllUnprocessedIds, NothingFound
<1>6. Restart => found'.rows = <<>>
  BY DEF Restart, NothingFound
<1>7. Quiet \/ HandleRequest \/ EnterZone \/ Decrypt \/ EndBatch \/ RemoveFromCache => found' = found
  BY QuietSteps DEF HandleRequest, EnterZone, Decrypt, DecryptStopped, DecryptDropsEarly,
                    DecryptThrows, DecryptReceipt, DecryptingContent, DecryptDuplicate,
                    DecryptSucceeds, DecryptDrops, DecryptRejected, DecryptFails,
                    DecryptTimesOut, EndBatch, Commit, CommitFails, CommitAnswered,
                    RemoveFromCache, pipeline
<1>8. QED
  BY <1>1, <1>2, <1>3, <1>4, <1>5, <1>6, <1>7 DEF Next, Work, Quiet, Receive, Fetch

\* A decryption succeeds with a message key that was not used, or its envelope is exempt.
DecryptsOk(c) ==
    /\ Env(c) \notin Spent
    /\ batch'.ok = Append(batch.ok, NextItem) /\ InOk' = InOk \cup {c}
    /\ InFailed' = InFailed
    /\ batch'.uses = batch.uses \cup {Env(c)}
    /\ ~stopping
DecryptsBad(c) ==
    /\ Env(c) \in Exempt'
    /\ batch'.ok = batch.ok /\ InOk' = InOk
    /\ InFailed' = InFailed \/ (InFailed' = InFailed \cup {c} /\ Env(c) \in troubled')
    /\ \/ batch'.uses = batch.uses
       \/ batch'.uses = batch.uses \cup {Env(c)} /\ Env(c) \notin Spent

LEMMA DecryptResult ==
    ASSUME Shapes, Decrypt
    PROVE  /\ DecryptsOk(NextItem.copy) \/ DecryptsBad(NextItem.copy)
           /\ doubled' = doubled
           /\ outlived' = outlived \/
                (outlived' = outlived \cup {Env(NextItem.copy)} /\ Env(NextItem.copy) \in troubled')
           /\ UNCHANGED <<server, sent, incoming, found, stopping, batch.items>>
           /\ encrypted' = Tail(encrypted)
           /\ decrypted' = decrypted \/ decrypted' = Append(decrypted, Task("error", NextItem.copy))
<1> PICK c : c = NextItem.copy
  OBVIOUS
<1>1. NextItem \in ItemOf(Arrived)
  BY DecryptionShapes, DecryptingFacts
<1>2. batch \in [left : 0 .. BatchSize, items : SUBSET ItemOf(Arrived),
                 ok : Seq(ItemOf(Arrived)),
                 failed : FailedOf(Arrived), uses : SUBSET Envelopes]
  BY DEF Shapes, BatchShape
<1>3. DOMAIN Failed(NextItem) = InFailed \cup {c}
  BY <1>1, FailedShape
<1>4. CASE DecryptStopped \/ DecryptThrows \/ DecryptDuplicate \/ DecryptFails
  <2>1. /\ batch'.ok = batch.ok /\ batch'.failed = Failed(NextItem) /\ batch'.items = batch.items
        /\ batch'.uses = batch.uses
    BY <1>2, <1>4 DEF DecryptStopped, DecryptThrows, DecryptDuplicate, DecryptFails
  <2>2. InOk' = InOk /\ InFailed' = InFailed \cup {c}
    BY <1>3, <2>1 DEF InOk, InFailed
  <2>3. /\ Env(c) \in troubled'
        /\ UNCHANGED <<server, sent, incoming, found, stopping, doubled, outlived>>
        /\ encrypted' = Tail(encrypted)
        /\ decrypted' = decrypted \/ decrypted' = Append(decrypted, Task("error", c))
    BY <1>4 DEF DecryptStopped, DecryptThrows, DecryptDuplicate, DecryptFails, net, flags
  <2>4. DecryptsBad(c)
    BY <2>1, <2>2, <2>3 DEF DecryptsBad, Exempt
  <2>5. QED
    BY <2>1, <2>3, <2>4
<1>5. CASE DecryptTimesOut
  <2>1. /\ batch'.ok = batch.ok /\ batch'.failed = Failed(NextItem) /\ batch'.items = batch.items
        /\ batch'.uses = batch.uses \cup {Env(c)}
    BY <1>2, <1>5 DEF DecryptTimesOut
  <2>2. InOk' = InOk /\ InFailed' = InFailed \cup {c}
    BY <1>3, <2>1 DEF InOk, InFailed
  <2>3. /\ Env(c) \in troubled' /\ Env(c) \notin Spent
        /\ outlived' = outlived \cup {Env(c)}
        /\ UNCHANGED <<server, sent, incoming, found, stopping, doubled, decrypted>>
        /\ encrypted' = Tail(encrypted)
    BY <1>5 DEF DecryptTimesOut, net, flags
  <2>4. DecryptsBad(c)
    BY <2>1, <2>2, <2>3 DEF DecryptsBad, Exempt
  <2>5. QED
    BY <2>1, <2>3, <2>4
<1>6. CASE DecryptSucceeds
  <2>1. /\ batch'.ok = Append(batch.ok, NextItem) /\ batch'.failed = batch.failed
        /\ batch'.items = batch.items
        /\ batch'.uses = batch.uses \cup {Env(c)}
    BY <1>2, <1>6 DEF DecryptSucceeds
  <2>2. ToSet(batch'.ok) = ToSet(batch.ok) \cup {NextItem}
    <3>1. /\ DOMAIN batch'.ok = 1 .. Len(batch.ok) + 1 /\ DOMAIN batch.ok = 1 .. Len(batch.ok)
          /\ Len(batch.ok) \in Nat
          /\ \A i \in 1 .. Len(batch.ok) : batch'.ok[i] = batch.ok[i]
          /\ batch'.ok[Len(batch.ok) + 1] = NextItem
      BY <1>1, <1>2, <2>1, AppendFacts
    <3>2. \A i \in DOMAIN batch'.ok : batch'.ok[i] \in ToSet(batch.ok) \cup {NextItem}
      BY <3>1 DEF ToSet
    <3>3. NextItem \in ToSet(batch'.ok)
      BY <3>1 DEF ToSet
    <3>4. \A i \in DOMAIN batch.ok : batch.ok[i] \in ToSet(batch'.ok)
      BY <3>1 DEF ToSet
    <3>5. ToSet(batch'.ok) \subseteq ToSet(batch.ok) \cup {NextItem}
      BY <3>2 DEF ToSet
    <3>6. ToSet(batch.ok) \subseteq ToSet(batch'.ok)
      BY <3>4 DEF ToSet
    <3>7. QED
      BY <3>3, <3>5, <3>6
  <2>3. InOk' = InOk \cup {c} /\ InFailed' = InFailed
    BY <2>1, <2>2 DEF InOk, InFailed
  <2>4. /\ Env(c) \notin Spent /\ ~stopping
        /\ UNCHANGED <<server, sent, incoming, found, stopping, doubled, outlived, decrypted>>
        /\ encrypted' = Tail(encrypted)
    BY <1>6 DEF DecryptSucceeds, DecryptingContent, net, flags, history
  <2>5. DecryptsOk(c)
    BY <2>1, <2>3, <2>4 DEF DecryptsOk
  <2>6. QED
    BY <2>1, <2>4, <2>5
<1>7. CASE DecryptDropsEarly \/ DecryptReceipt
  <2>1. /\ batch'.ok = batch.ok /\ batch'.failed = batch.failed /\ batch'.items = batch.items
        /\ batch'.uses = batch.uses
    BY <1>2, <1>7 DEF DecryptDropsEarly, DecryptReceipt
  <2>2. InOk' = InOk /\ InFailed' = InFailed
    BY <2>1 DEF InOk, InFailed
  <2>3. /\ Env(c) \in ended' \cup dispatched'
        /\ UNCHANGED <<server, sent, incoming, found, stopping, doubled, outlived, decrypted>>
        /\ encrypted' = Tail(encrypted)
    BY <1>7 DEF DecryptDropsEarly, DecryptReceipt, net, flags
  <2>4. DecryptsBad(c)
    BY <2>1, <2>2, <2>3 DEF DecryptsBad, Exempt
  <2>5. QED
    BY <2>1, <2>3, <2>4
<1>8. CASE DecryptDrops \/ DecryptRejected
  <2>1. PICK spent \in SUBSET {Env(c)} :
            /\ batch'.ok = batch.ok /\ batch'.items = batch.items
            /\ batch'.failed = batch.failed \/ (DecryptRejected /\ batch'.failed = Failed(NextItem))
            /\ batch'.uses = batch.uses \cup spent
    BY <1>2, <1>8 DEF DecryptDrops, DecryptRejected
  <2>2. spent = {} \/ spent = {Env(c)}
    OBVIOUS
  <2>3. batch'.uses = batch.uses \/ batch'.uses = batch.uses \cup {Env(c)}
    BY <2>1, <2>2
  <2>4. DecryptRejected => Env(c) \in troubled'
    BY DEF DecryptRejected
  <2>5. InOk' = InOk /\ (InFailed' = InFailed \/ (InFailed' = InFailed \cup {c} /\ Env(c) \in troubled'))
    BY <1>3, <2>1, <2>4 DEF InOk, InFailed
  <2>6. /\ Env(c) \in ended' /\ Env(c) \notin Spent
        /\ UNCHANGED <<server, sent, incoming, found, stopping, doubled, outlived, decrypted>>
        /\ encrypted' = Tail(encrypted)
    BY <1>8 DEF DecryptDrops, DecryptRejected, net, flags
  <2>7. DecryptsBad(c)
    BY <2>1, <2>3, <2>5, <2>6 DEF DecryptsBad, Exempt
  <2>8. QED
    BY <2>1, <2>6, <2>7
<1>9. QED
  BY <1>4, <1>5, <1>6, <1>7, <1>8 DEF Decrypt

\* A step that is neither a decryption nor QueueCached leaves `doubled` and `outlived` alone,
\* and the batch it leaves alone or it ends it or lets another one in.
LEMMA BatchSteps ==
    ASSUME Shapes, Next, ~Decrypt
    PROVE  /\ outlived' = outlived
           /\ InFailed' \subseteq InFailed /\ InOk' \subseteq InOk
           /\ QueueCached \/ doubled' = doubled
<1>1. QueueCached => UNCHANGED <<outlived, batch>>
  BY DEF QueueCached, batching
<1>2. Quiet \/ HandleRequest \/ GetAllUnprocessedIds \/ GetUnprocessed \/ Commit \/ RemoveFromCache
        => UNCHANGED <<outlived, doubled, batch>>
  BY QuietSteps DEF HandleRequest, GetAllUnprocessedIds, GetUnprocessed, Commit, RemoveFromCache,
     batching, history
<1>3. EnterZone \/ CommitFails \/ CommitAnswered \/ Restart => UNCHANGED <<outlived, doubled>>
  BY DEF EnterZone, CommitFails, CommitAnswered, Restart, history
<1>4. EnterZone => batch'.ok = <<>> /\ batch'.failed = << >>
  BY EnterZoneShapes
<1>5. CommitFails \/ CommitAnswered \/ Restart => batch'.ok = <<>> /\ batch'.failed = << >>
  BY DEF CommitFails, CommitAnswered, Restart, NoBatch
<1>6. batch'.ok = <<>> /\ batch'.failed = << >> => InOk' = {} /\ InFailed' = {}
  BY NoFailures DEF InOk, InFailed, ToSet
<1>7. batch' = batch => InOk' = InOk /\ InFailed' = InFailed
  BY DEF InOk, InFailed
<1>8. QED
  BY <1>1, <1>2, <1>3, <1>4, <1>5, <1>6, <1>7 DEF Next, Work, Quiet, Receive, Fetch, EndBatch

LEMMA FoundRowsAre ==
    ASSUME Shapes
    PROVE  /\ found.rows \in Seq(FoundRow(Arrived))
           /\ \A k \in DOMAIN found.rows :
                found.rows[k] \in FoundRow(Arrived) /\ found.rows[k].copy \in Arrived
<1>1. found.rows \in Seq(FoundRow(Arrived))
  BY DEF Shapes, FoundShape
<1>2. \A k \in DOMAIN found.rows : found.rows[k] \in FoundRow(Arrived)
  BY <1>1
<1>3. \A k \in DOMAIN found.rows : found.rows[k].copy \in Arrived
  BY <1>2 DEF FoundRow
<1>4. QED
  BY <1>1, <1>2, <1>3

LEMMA RowsFailedKept ==
    ASSUME Shapes, RowsFailed, Next
    PROVE  RowsFailed'
<1>1. troubled \subseteq troubled' /\ \A c \in Arrived : arrivals'[c] = arrivals[c]
  BY HistoryGrows, EnvStays DEF Env
<1>2. DOMAIN db \subseteq Arrived /\ InFailed \subseteq Arrived /\ InOk \subseteq Arrived
  BY PlacesArrived DEF Shapes, DiskShape
<1>3. /\ doubled \cup outlived \subseteq troubled
      /\ \A c \in DOMAIN db : ~db[c].plain => arrivals[c] \in troubled
      /\ \A k \in DOMAIN found.rows : ~found.rows[k].plain => arrivals[found.rows[k].copy] \in troubled
      /\ \A c \in InFailed : arrivals[c] \in troubled
  BY DEF RowsFailed, Plain, Env
<1>4. doubled' \cup outlived' \subseteq troubled'
  <2>1. CASE Decrypt
    BY <1>1, <1>3, <2>1, DecryptResult
  <2>2. CASE QueueCached
    <3> PICK row : row = Head(found.rows)
      OBVIOUS
    <3>1. row \in FoundRow(Arrived) /\ found.rows # <<>> /\ 1 \in DOMAIN found.rows /\ row = found.rows[1]
      BY <2>2, FoundRowsAre, TailFacts DEF QueueCached, Shapes, FoundShape
    <3>2. doubled' \subseteq doubled \cup {f \in {arrivals[row.copy]} : ~row.plain}
      BY <2>2 DEF QueueCached, Env
    <3>3. outlived' = outlived
      BY <2>2 DEF QueueCached
    <3>4. QED
      BY <1>1, <1>3, <3>1, <3>2, <3>3
  <2>3. CASE ~Decrypt /\ ~QueueCached
    BY <1>1, <1>3, <2>3, BatchSteps
  <2>4. QED
    BY <2>1, <2>2, <2>3
<1>5. ASSUME NEW c \in DOMAIN db', ~db'[c].plain
      PROVE  arrivals'[c] \in troubled'
  <2>1. CASE Commit
    BY <1>1, <1>2, <1>3, <1>5, <2>1, CommitShapes
  <2>2. CASE ~Commit
    BY <1>1, <1>2, <1>3, <1>5, <2>2, RowsStay
  <2>3. QED
    BY <2>1, <2>2
<1>6. ASSUME NEW i \in DOMAIN found'.rows, ~found'.rows[i].plain
      PROVE  arrivals'[found'.rows[i].copy] \in troubled'
  <2>1. CASE \E k \in DOMAIN found.rows : found.rows[k] = found'.rows[i]
    BY <1>1, <1>3, <1>6, <2>1, FoundRowsAre
  <2>2. CASE /\ found'.rows[i].copy \in DOMAIN db
             /\ found'.rows[i].plain = db[found'.rows[i].copy].plain
    BY <1>1, <1>2, <1>3, <1>6, <2>2
  <2>3. QED
    BY <2>1, <2>2, FoundBecomes
<1>7. ASSUME NEW c \in InFailed'
      PROVE  arrivals'[c] \in troubled'
  <2>1. CASE Decrypt
    <3>1. NextItem.copy \in Arrived
      BY <2>1, DecryptionShapes, DecryptingFacts DEF ItemOf
    <3>2. InFailed' = InFailed \/ (InFailed' = InFailed \cup {NextItem.copy} /\ Env(NextItem.copy) \in troubled')
      BY <2>1, DecryptResult DEF DecryptsOk, DecryptsBad
    <3>3. QED
      BY <1>1, <1>2, <1>3, <1>7, <3>1, <3>2 DEF Env
  <2>2. CASE ~Decrypt
    BY <1>1, <1>2, <1>3, <1>7, <2>2, BatchSteps
  <2>3. QED
    BY <2>1, <2>2
<1>8. QED
  BY <1>4, <1>5, <1>6, <1>7 DEF RowsFailed, Plain, Env
-------------------------------------------------------------------------------
(* Where the tasks and the batches are after a step. *)

LEMMA BatchSame ==
    ASSUME Next, ~EnterZone, ~Decrypt, ~CommitFails, ~CommitAnswered, ~Restart
    PROVE  batch' = batch
<1>1. Quiet \/ HandleRequest \/ Fetch \/ Commit \/ RemoveFromCache => batch' = batch
  BY QuietSteps DEF HandleRequest, Fetch, GetAllUnprocessedIds, GetUnprocessed, QueueCached, Commit,
     RemoveFromCache, batching
<1>2. QED
  BY <1>1 DEF Next, Work, Quiet, Receive, EndBatch

LEMMA NoBatchEmpty ==
    ASSUME CommitFails \/ CommitAnswered \/ Restart
    PROVE  batch' = NoBatch /\ InOk' = {} /\ InFailed' = {}
<1>1. batch' = NoBatch
  BY DEF CommitFails, CommitAnswered, Restart
<1>2. batch'.ok = <<>> /\ batch'.failed = << >>
  BY <1>1 DEF NoBatch
<1>3. QED
  BY <1>1, <1>2, NoFailures DEF InOk, InFailed, ToSet

\* When the last item is decrypted, no task of the batch is left.
LEMMA NothingLeft ==
    ASSUME Shapes, batch.left = 0
    PROVE  Tasks = {} /\ InEncrypted = {}
<1>1. Tasks = {}
  <2>1. PICK a \in Nat : \A i \in DOMAIN encrypted :
            (encrypted[i].op = "decrypt") <=> (a < i /\ i <= a + batch.left)
    BY DEF Shapes, Block
  <2>2. \A i \in DOMAIN encrypted : i \in Nat
    BY DEF Shapes, QueueShape
  <2>3. \A i \in DOMAIN encrypted : encrypted[i].op # "decrypt"
    BY <2>1, <2>2
  <2>4. QED
    BY <2>3 DEF Tasks
<1>2. QED
  BY <1>1 DEF InEncrypted

\* A batch stays as it is, or is a new one.
LEMMA BatchStaysOrEnds ==
    ASSUME Shapes, Next, ~Decrypt
    PROVE  \/ batch' = batch /\ InOk' = InOk /\ InFailed' = InFailed
           \/ InOk' = {} /\ InFailed' = {}
<1>1. ~EnterZone /\ ~CommitFails /\ ~CommitAnswered /\ ~Restart => batch' = batch
  BY BatchSame
<1>2. EnterZone => batch'.ok = <<>> /\ batch'.failed = << >>
  BY EnterZoneShapes
<1>3. CommitFails \/ CommitAnswered \/ Restart => InOk' = {} /\ InFailed' = {}
  BY NoBatchEmpty
<1>4. batch'.ok = <<>> /\ batch'.failed = << >> => InOk' = {} /\ InFailed' = {}
  BY NoFailures DEF InOk, InFailed, ToSet
<1>5. batch' = batch => InOk' = InOk /\ InFailed' = InFailed
  BY DEF InOk, InFailed
<1>6. QED
  BY <1>1, <1>2, <1>3, <1>4, <1>5

\* The tasks of a batch stay in their order.
LEMMA TasksStay ==
    ASSUME Shapes,
           \/ encrypted' = encrypted
           \/ encrypted # <<>> /\ encrypted' = Tail(encrypted)
           \/ \E t \in EncryptedTask(Arrived) : t.op # "decrypt" /\ encrypted' = Append(encrypted, t)
    PROVE  /\ \A i \in Tasks' : \E j \in Tasks : encrypted'[i] = encrypted[j]
           /\ \A i, k \in Tasks' : i < k =>
                \E j, l \in Tasks : j < l /\ encrypted'[i] = encrypted[j] /\ encrypted'[k] = encrypted[l]
           /\ InEncrypted' \subseteq InEncrypted
           /\ encrypted' = Tail(encrypted) /\ encrypted # <<>> /\ Head(encrypted).op # "decrypt"
                => InEncrypted' = InEncrypted
           /\ encrypted' = Tail(encrypted) /\ encrypted # <<>> /\ Head(encrypted).op = "decrypt"
                => InEncrypted \subseteq InEncrypted' \cup {Head(encrypted).item.copy}
           /\ encrypted' # Tail(encrypted) => InEncrypted' = InEncrypted
<1>0. encrypted \in Seq(EncryptedTask(Arrived)) /\ Tasks \subseteq Nat
  BY DEF Shapes, QueueShape, Tasks
<1>1. CASE encrypted # <<>> /\ encrypted' = Tail(encrypted)
  <2>1. /\ \A i \in Tasks' : i + 1 \in Tasks /\ encrypted'[i] = encrypted[i + 1] /\ i \in Nat
        /\ \A i \in Tasks : i # 1 => i - 1 \in Tasks' /\ encrypted'[i - 1] = encrypted[i]
        /\ Head(encrypted) = encrypted[1]
    <3>1. encrypted' \in Seq(EncryptedTask(Arrived)) /\ Head(encrypted) = encrypted[1]
      BY <1>0, <1>1, TailFacts
    <3>2. Tasks' \subseteq Nat
      BY <3>1 DEF Tasks
    <3>3. QED
      BY <1>0, <1>1, <3>1, <3>2, EncryptedShifted
  <2>2. \A i, k \in Tasks' : i < k =>
          \E j, l \in Tasks : j < l /\ encrypted'[i] = encrypted[j] /\ encrypted'[k] = encrypted[l]
    <3> SUFFICES ASSUME NEW i \in Tasks', NEW k \in Tasks', i < k
                 PROVE  \E j, l \in Tasks : j < l /\ encrypted'[i] = encrypted[j]
                                                  /\ encrypted'[k] = encrypted[l]
      OBVIOUS
    <3>1. i + 1 < k + 1 /\ i + 1 \in Tasks /\ k + 1 \in Tasks
      BY <2>1
    <3>2. QED
      BY <2>1, <3>1
  <2>3. InEncrypted' \subseteq InEncrypted
    BY <2>1 DEF InEncrypted
  <2>4. ASSUME NEW i \in Tasks
        PROVE  \/ encrypted[i].item.copy \in InEncrypted'
               \/ Head(encrypted).op = "decrypt" /\ encrypted[i].item.copy = Head(encrypted).item.copy
    <3>1. CASE i = 1
      BY <2>1, <3>1 DEF Tasks
    <3>2. CASE i # 1
      BY <2>1, <3>2 DEF InEncrypted
    <3>3. QED
      BY <3>1, <3>2
  <2>5. QED
    BY <1>1, <2>1, <2>2, <2>3, <2>4 DEF InEncrypted
<1>2. CASE Tasks' = Tasks /\ \A i \in Tasks : encrypted'[i] = encrypted[i]
  <2>1. InEncrypted' = InEncrypted
    BY <1>2 DEF InEncrypted
  <2>2. QED
    BY <1>2, <2>1
<1>3. encrypted' = encrypted => Tasks' = Tasks /\ \A i \in Tasks : encrypted'[i] = encrypted[i]
  BY DEF Tasks
<1>4. ASSUME NEW t \in EncryptedTask(Arrived), t.op # "decrypt", encrypted' = Append(encrypted, t)
      PROVE  Tasks' = Tasks /\ \A i \in Tasks : encrypted'[i] = encrypted[i]
  BY <1>0, <1>4, EncryptedAppended
<1>5. QED
  BY <1>1, <1>2, <1>3, <1>4

\* What a step does to encryptedQueue.
LEMMA EncryptedSteps ==
    ASSUME Shapes, Next, ~EnterZone, ~Restart
    PROVE  /\ \/ encrypted' = encrypted /\ ~Decrypt
              \/ encrypted # <<>> /\ encrypted' = Tail(encrypted) /\ (PassOn \/ Decrypt)
              \/ /\ \E t \in EncryptedTask(Arrived) :
                       t.op # "decrypt" /\ encrypted' = Append(encrypted, t)
                 /\ ~Decrypt /\ (WaitForIncoming \/ QueueCached)
           /\ PassOn => encrypted # <<>> /\ Head(encrypted).op # "decrypt"
           /\ Decrypt => encrypted # <<>> /\ Head(encrypted) \in EncryptedTask(Arrived)
                         /\ Head(encrypted).op = "decrypt" /\ Head(encrypted).item = NextItem
<1>10. PassOn => encrypted # <<>> /\ encrypted' = Tail(encrypted) /\ Head(encrypted).op # "decrypt"
  BY DEF PassOn
<1>11. ASSUME Decrypt
       PROVE  /\ encrypted # <<>> /\ encrypted' = Tail(encrypted)
              /\ Head(encrypted) \in EncryptedTask(Arrived)
              /\ Head(encrypted).op = "decrypt" /\ Head(encrypted).item = NextItem
  <2>1. encrypted \in Seq(EncryptedTask(Arrived)) /\ encrypted # <<>> /\ Decrypting
    BY <1>11, DecryptionShapes, DecryptingFacts
  <2>2. Head(encrypted) \in EncryptedTask(Arrived)
    BY <2>1, TailFacts
  <2>3. QED
    BY <1>11, <2>1, <2>2, DecryptResult DEF Decrypting, NextItem
<1>1. CASE Decrypt
  BY <1>1, <1>10, <1>11
<1>2. CASE PassOn
  BY <1>2, <1>10, <1>11
<1>3. CASE WaitForIncoming /\ ~Decrypt
  <2>1. encrypted' = Append(encrypted, Task("empty", 0))
    BY <1>3 DEF WaitForIncoming
  <2>2. Task("empty", 0) \in EncryptedTask(Arrived) /\ Task("empty", 0).op # "decrypt"
    BY DEF Task, EncryptedTask
  <2>3. QED
    BY <1>3, <1>10, <2>1, <2>2
<1>4. CASE QueueCached /\ ~Decrypt
  <2> PICK row : row = Head(found.rows)
    OBVIOUS
  <2>1. encrypted' = encrypted \/ encrypted' = Append(encrypted, Task("cached", row.copy))
    BY <1>4 DEF QueueCached
  <2>2. row.copy \in Arrived
    BY <1>4, FoundRowsAre, TailFacts DEF QueueCached, Shapes, FoundShape
  <2>3. Task("cached", row.copy) \in EncryptedTask(Arrived) /\ Task("cached", row.copy).op # "decrypt"
    BY <2>2 DEF Task, EncryptedTask
  <2>4. QED
    BY <1>4, <1>10, <2>1, <2>3
<1>5. CASE encrypted' = encrypted /\ ~Decrypt
  BY <1>5, <1>10
<1>6. Deliver \/ SayEmpty \/ HandleEmpty \/ KickBatchOff \/ BatcherIdle \/ RetryCached
        => encrypted' = encrypted
  BY DEF Deliver, SayEmpty, HandleEmpty, KickBatchOff, BatcherIdle, RetryCached
<1>7. Hand \/ Handle \/ AppSeesError \/ Reconnect \/ StopProcessing => encrypted' = encrypted
  BY DEF Hand, HandleDecrypted, DispatchError, WaitForDecrypted, ScheduleRetry, Handle, EmitEmpty,
     AppHandles, AppThrows, AppSeesError, Reconnect, StopProcessing, pipeline
<1>8. HandleRequest \/ GetAllUnprocessedIds \/ GetUnprocessed \/ EndBatch \/ RemoveFromCache
        => encrypted' = encrypted
  BY DEF HandleRequest, GetAllUnprocessedIds, GetUnprocessed, EndBatch, Commit, CommitFails,
     CommitAnswered, RemoveFromCache, pipeline
<1>9. QED
  BY <1>1, <1>2, <1>3, <1>4, <1>5, <1>6, <1>7, <1>8 DEF Next, Work, Receive, Fetch

\* So the copies that wait for a decryption stay, but for the one that is decrypted.
LEMMA InEncryptedStays ==
    ASSUME Shapes, Next, ~EnterZone, ~Restart
    PROVE  /\ InEncrypted' \subseteq InEncrypted
           /\ ~Decrypt => InEncrypted' = InEncrypted
           /\ Decrypt => /\ InEncrypted \subseteq InEncrypted' \cup {NextItem.copy}
                         /\ NextItem.copy \in InEncrypted
           /\ \A i, k \in Tasks' : i < k =>
                \E j, l \in Tasks : j < l /\ encrypted'[i] = encrypted[j] /\ encrypted'[k] = encrypted[l]
<1>0. Decrypt => NextItem.copy \in InEncrypted
  <2>1. ASSUME Decrypt PROVE 1 \in Tasks /\ NextItem = encrypted[1].item
    BY <2>1, DecryptionShapes, DecryptingFacts DEF Tasks
  <2>2. QED
    BY <2>1 DEF InEncrypted
<1>1. CASE encrypted' = encrypted /\ ~Decrypt
  <2>1. Tasks' = Tasks /\ InEncrypted' = InEncrypted
    BY <1>1 DEF Tasks, InEncrypted
  <2>2. QED
    BY <1>1, <2>1, TasksStay
<1>2. CASE encrypted # <<>> /\ encrypted' = Tail(encrypted) /\ (PassOn \/ Decrypt)
  <2>1. (PassOn => Head(encrypted).op # "decrypt")
        /\ (Decrypt => Head(encrypted).op = "decrypt" /\ Head(encrypted).item = NextItem)
    BY EncryptedSteps
  <2>2. QED
    BY <1>0, <1>2, <2>1, TasksStay
<1>3. CASE /\ \E t \in EncryptedTask(Arrived) :
                 t.op # "decrypt" /\ encrypted' = Append(encrypted, t)
           /\ ~Decrypt
  <2>1. PICK t \in EncryptedTask(Arrived) : t.op # "decrypt" /\ encrypted' = Append(encrypted, t)
    BY <1>3
  <2>2. InEncrypted' = InEncrypted
    BY <2>1, EncryptedAppended DEF Shapes, QueueShape
  <2>3. QED
    BY <1>0, <1>3, <2>1, <2>2, TasksStay
<1>4. QED
  BY <1>1, <1>2, <1>3, EncryptedSteps
-------------------------------------------------------------------------------
(* What was stored, acknowledged or dealt with is past. *)

\* A copy is decrypted after those of all smaller envelopes.
LEMMA HeadCleared ==
    ASSUME Shapes, Queued, Arranged, Decrypt, NEW f \in Envelopes, f < Env(NextItem.copy)
    PROVE  f \in Spent \cup Exempt
<1> PICK c : c = NextItem.copy
  OBVIOUS
<1>1. /\ encrypted[1].item.copy = c /\ 1 \in Tasks /\ zone = "open"
  BY DecryptionShapes, DecryptingFacts DEF Tasks
<1>2. c \in InEncrypted /\ InEncrypted \subseteq Nat /\ InBatches \subseteq Nat /\ Tasks \subseteq Nat \ {0}
  <2>1. Tasks \subseteq Nat \ {0}
    BY DEF Tasks, Shapes, QueueShape
  <2>2. Arrived \subseteq Nat
    BY DEF Arrived
  <2>3. c \in InEncrypted
    BY <1>1 DEF InEncrypted
  <2>4. QED
    BY <2>1, <2>2, <2>3, PlacesArrived
<1>3. f \in Spent \cup Exempt \/ \E d \in Pending : Env(d) = f /\ d < c
  BY <1>1, <1>2 DEF Queued, Pending
<1>4. ASSUME NEW d \in Pending, Env(d) = f, d < c
      PROVE  f \in Exempt
  <2>0. c \in Nat /\ d \in Nat
    BY <1>2 DEF Pending
  <2>1. c \in Nat /\ d \in Nat /\ ~(c < d)
    BY <1>4, <2>0
  <2>2. CASE d \in InBatches
    BY <1>2, <1>4, <2>1, <2>2 DEF Arranged, Again
  <2>3. CASE d \in InEncrypted
    <3>1. PICK k \in Tasks : d = encrypted[k].item.copy
      BY <2>3 DEF InEncrypted
    <3>2. k # 1
      BY <1>1, <1>4, <2>1, <3>1
    <3>3. 1 < k
      BY <1>2, <3>2
    <3>4. d \in Again
      BY <1>1, <2>1, <3>1, <3>3 DEF Arranged
    <3>5. QED
      BY <1>4, <3>4 DEF Again
  <2>4. QED
    BY <2>2, <2>3 DEF Pending
<1>5. QED
  BY <1>3, <1>4

LEMMA CommitUses ==
    ASSUME Commit
    PROVE  used' = Spent /\ Spent' = Spent /\ used \subseteq used'
BY DEF Commit, Spent

LEMMA UsedGrows ==
    ASSUME Shapes, Next
    PROVE  used \subseteq used' /\ used \cup Exempt \subseteq used' \cup Exempt'
BY HistoryGrows, CommitUses, RowsStay

\* What a batch has used is not forgotten before it ends.
LEMMA SpentStays ==
    ASSUME Shapes, Safety, Next, ~CommitFails, ~Restart
    PROVE  Spent \cup Exempt \subseteq Spent' \cup Exempt'
<1>1. Exempt \subseteq Exempt' /\ used \subseteq used'
  BY HistoryGrows, UsedGrows
<1>2. CASE batch.uses \subseteq batch'.uses
  BY <1>1, <1>2 DEF Spent
<1>3. Decrypt => batch.uses \subseteq batch'.uses
  BY DecryptResult DEF DecryptsOk, DecryptsBad
<1>4. EnterZone => batch.uses = {}
  BY DEF EnterZone, Shapes, BatchShape, NoBatch
<1>5. CASE CommitAnswered
  <2>1. batch.uses \subseteq used
    BY <1>5 DEF CommitAnswered, Safety, UsesAreOk
  <2>2. QED
    BY <1>1, <2>1 DEF Spent
<1>6. ~EnterZone /\ ~Decrypt /\ ~CommitAnswered => batch' = batch
  BY BatchSame
<1>7. QED
  BY <1>2, <1>3, <1>4, <1>5, <1>6

\* A step in the zone.
LEMMA ZoneSteps ==
    ASSUME Next, ~EnterZone, ~EndBatch, ~Restart
    PROVE  zone' = zone
<1>1. Quiet \/ HandleRequest \/ Fetch \/ RemoveFromCache => zone' = zone
  BY QuietSteps DEF HandleRequest, Fetch, GetAllUnprocessedIds, GetUnprocessed, QueueCached,
     RemoveFromCache, batching
<1>2. Decrypt => zone' = zone
  BY DEF Decrypt, DecryptStopped, DecryptDropsEarly, DecryptThrows, DecryptReceipt,
         DecryptingContent, DecryptDuplicate, DecryptSucceeds, DecryptDrops, DecryptRejected,
         DecryptFails, DecryptTimesOut
<1>3. QED
  BY <1>1, <1>2 DEF Next, Work, Quiet, Receive

LEMMA ItemsPast ==
    ASSUME Shapes, Safety, Past, Queued, Arranged, Next, NEW item \in batch'.items
    PROVE  /\ zone' = "open" => \/ arrivals'[item.copy] \in Spent' \cup Exempt'
                                \/ item.copy \in InEncrypted'
           /\ zone' = "saved" => arrivals'[item.copy] \in used' \cup Exempt'
<1>1. CASE EnterZone
  <2> PICK first : first = Head(waiting)
    OBVIOUS
  <2>1. batch'.items = ToSet(first) /\ zone' = "open"
    BY <1>1, EnterZoneShapes DEF EnterZone
  <2>2. PICK k \in DOMAIN first : item = first[k]
    BY <2>1 DEF ToSet
  <2>3. /\ Len(encrypted) + k \in Tasks'
        /\ encrypted'[Len(encrypted) + k].item = item
    <3>1. \A l \in DOMAIN first :
            /\ Len(encrypted) + l \in DOMAIN encrypted'
            /\ encrypted'[Len(encrypted) + l] = [op |-> "decrypt", item |-> first[l]]
      BY <1>1, EnterZoneShapes
    <3> PICK task : task = encrypted'[Len(encrypted) + k]
      OBVIOUS
    <3>2. task.op = "decrypt" /\ task.item = first[k]
      <4>1. task = [op |-> "decrypt", item |-> first[k]]
        BY <3>1
      <4>2. QED
        BY <4>1
    <3>3. QED
      BY <2>2, <3>1, <3>2 DEF Tasks
  <2>4. item.copy \in InEncrypted'
    BY <2>3 DEF InEncrypted
  <2>5. QED
    BY <2>1, <2>4
<1>2. CASE CommitFails \/ CommitAnswered \/ Restart
  BY <1>2 DEF CommitFails, CommitAnswered, Restart
<1> SUFFICES ASSUME ~EnterZone, ~CommitFails, ~CommitAnswered, ~Restart
             PROVE  /\ zone' = "open" => \/ arrivals'[item.copy] \in Spent' \cup Exempt'
                                         \/ item.copy \in InEncrypted'
                    /\ zone' = "saved" => arrivals'[item.copy] \in used' \cup Exempt'
  BY <1>1, <1>2
<1>3. item \in batch.items /\ item.copy \in Arrived
  <2>1. batch'.items = batch.items
    BY BatchSame, DecryptResult
  <2>2. batch.items \subseteq ItemOf(Arrived)
    BY DEF Shapes, BatchShape
  <2>3. QED
    BY <2>1, <2>2 DEF ItemOf
<1>4. arrivals'[item.copy] = Env(item.copy)
  BY <1>3, EnvStays DEF Env
<1>5. Spent \cup Exempt \subseteq Spent' \cup Exempt' /\ used \cup Exempt \subseteq used' \cup Exempt'
  BY SpentStays, UsedGrows
<1>6. CASE Commit
  <2>1. InEncrypted = {}
    BY <1>6, NothingLeft DEF Commit
  <2>2. Env(item.copy) \in Spent \cup Exempt
    BY <1>3, <1>6, <2>1 DEF Past, Commit
  <2>3. QED
    BY <1>4, <1>6, <2>2, CommitUses, HistoryGrows DEF Commit
<1>7. CASE Decrypt
  <2>1. zone' = zone /\ zone = "open"
    BY <1>7, DecryptionShapes, DecryptingFacts, DecryptPlaces
  <2>2. CASE item.copy = NextItem.copy
    <3>1. Env(NextItem.copy) \in Spent' \cup Exempt'
      BY <1>7, DecryptResult DEF DecryptsOk, DecryptsBad, Spent
    <3>2. QED
      BY <1>4, <2>1, <2>2, <3>1
  <2>3. CASE item.copy # NextItem.copy
    BY <1>3, <1>4, <1>5, <1>7, <2>1, <2>3, InEncryptedStays DEF Past
  <2>4. QED
    BY <2>2, <2>3
<1>8. CASE ~Commit /\ ~Decrypt
  <2>1. zone' = zone /\ InEncrypted' = InEncrypted
    BY <1>8, ZoneSteps, InEncryptedStays DEF EndBatch
  <2>2. QED
    BY <1>3, <1>4, <1>5, <2>1 DEF Past
<1>9. QED
  BY <1>6, <1>7, <1>8

LEMMA PastKept ==
    ASSUME Shapes, Safety, Past, Queued, Arranged, Next
    PROVE  Past'
<1>1. /\ Exempt \subseteq Exempt' /\ used \subseteq used'
      /\ \A c \in Arrived : arrivals'[c] = arrivals[c]
  BY HistoryGrows, UsedGrows, EnvStays DEF Env
<1>2. DOMAIN db \subseteq Arrived /\ InFailed \subseteq Arrived /\ InOk \subseteq Arrived
  BY PlacesArrived DEF Shapes, DiskShape
<1>3. /\ \A c \in DOMAIN db \cup RowCopies : Cleared(arrivals[c])
      /\ \A c \in InOk \cup InFailed, f \in Envelopes : f < arrivals[c] => f \in Spent \cup Exempt
  BY DEF Past, Env
<1>4. \A c \in DOMAIN db \cup RowCopies, f \in Envelopes : f < arrivals[c] => f \in used' \cup Exempt'
  BY <1>1, <1>3 DEF Cleared
<1>5. ASSUME NEW c \in DOMAIN db' \cup RowCopies', NEW f \in Envelopes, f < arrivals'[c]
      PROVE  f \in used' \cup Exempt'
  <2>1. CASE c \in DOMAIN db \cup RowCopies
    <3>1. c \in Arrived
      BY <1>2, <2>1, FoundRowsAre DEF RowCopies
    <3>2. QED
      BY <1>1, <1>4, <1>5, <2>1, <3>1
  <2>2. CASE Commit /\ c \in InOk \cup InFailed
    BY <1>1, <1>2, <1>3, <1>5, <2>2, CommitUses
  <2>3. CASE c \notin DOMAIN db \cup RowCopies
    <3>1. c \notin RowCopies'
      BY <2>3, FoundBecomes DEF RowCopies
    <3>2. QED
      BY <1>5, <2>2, <2>3, <3>1, CommitShapes, RowsStay
  <2>4. QED
    BY <2>1, <2>3
<1>6. Envelopes \ server' \subseteq used' \cup Exempt'
  <2>1. CASE CommitAnswered
    <3>1. \A item \in batch.items : Env(item.copy) \in used \cup Exempt
      BY <2>1 DEF Past, CommitAnswered
    <3>2. server' = server \ {Env(item.copy) : item \in {item \in batch.items : item.conn = connection}}
      BY <2>1 DEF CommitAnswered
    <3>3. QED
      BY <1>1, <3>1, <3>2 DEF Past
  <2>2. CASE server' = server
    BY <1>1, <2>2 DEF Past
  <2>3. ~CommitAnswered => server' = server
    BY QuietSteps, DecryptResult DEF Next, Work, Quiet, Receive, EndBatch, HandleRequest, Fetch,
       GetAllUnprocessedIds, GetUnprocessed, QueueCached, EnterZone, Commit, CommitFails,
       RemoveFromCache, Restart, net
  <2>4. QED
    BY <2>1, <2>2, <2>3
<1>7. zone' = "open" => batch'.uses \cap used' = {}
  <2>1. CASE EnterZone
    BY <2>1, EnterZoneShapes
  <2>2. CASE EndBatch \/ Restart
    BY <2>2 DEF EndBatch, Commit, CommitFails, CommitAnswered, Restart
  <2>3. CASE Decrypt
    <3>1. used' = used /\ zone' = zone
      BY <2>3, DecryptPlaces
    <3>2. \/ batch'.uses = batch.uses
          \/ batch'.uses = batch.uses \cup {Env(NextItem.copy)} /\ Env(NextItem.copy) \notin Spent
      BY <2>3, DecryptResult DEF DecryptsOk, DecryptsBad
    <3>3. QED
      BY <3>1, <3>2 DEF Past, Spent
  <2>4. CASE ~EnterZone /\ ~EndBatch /\ ~Restart /\ ~Decrypt
    <3>1. zone' = zone /\ used' = used /\ batch' = batch
      BY <2>4, ZoneSteps, RowsStay, BatchSame DEF EndBatch
    <3>2. QED
      BY <3>1 DEF Past
  <2>5. QED
    BY <2>1, <2>2, <2>3, <2>4
<1>8. ASSUME NEW c \in InOk' \cup InFailed', NEW f \in Envelopes, f < arrivals'[c]
      PROVE  f \in Spent' \cup Exempt'
  <2>1. CASE Decrypt
    <3>1. NextItem.copy \in Arrived
      BY <2>1, DecryptionShapes, DecryptingFacts DEF ItemOf
    <3>2. c \in InOk \cup InFailed \cup {NextItem.copy}
      BY <1>8, <2>1, DecryptResult DEF DecryptsOk, DecryptsBad
    <3>3. f \in Spent \cup Exempt
      BY <1>1, <1>2, <1>3, <1>8, <2>1, <3>1, <3>2, HeadCleared DEF Env
    <3>4. ~CommitFails /\ ~Restart
      BY <1>8, NoBatchEmpty
    <3>5. QED
      BY <3>3, <3>4, SpentStays
  <2>2. CASE ~Decrypt
    <3>1. c \in InOk \cup InFailed /\ batch' = batch
      BY <1>8, <2>2, BatchStaysOrEnds
    <3>2. f \in Spent \cup Exempt
      BY <1>1, <1>2, <1>3, <1>8, <3>1
    <3>3. QED
      BY <1>1, <3>1, <3>2 DEF Spent
  <2>3. QED
    BY <2>1, <2>2
<1>9. \A c \in DOMAIN db' \cup RowCopies', f \in Envelopes :
        f < arrivals'[c] => f \in used' \cup Exempt'
  BY <1>5
<1>10. \A item \in batch'.items :
        /\ zone' = "open" => \/ arrivals'[item.copy] \in Spent' \cup Exempt'
                             \/ item.copy \in InEncrypted'
        /\ zone' = "saved" => arrivals'[item.copy] \in used' \cup Exempt'
  BY ItemsPast
<1>11. \A c \in InOk' \cup InFailed', f \in Envelopes : f < arrivals'[c] => f \in Spent' \cup Exempt'
  BY <1>8
<1>12. QED
  BY <1>6, <1>7, <1>9, <1>10, <1>11 DEF Past, Env, Cleared
-------------------------------------------------------------------------------
(* The sequence of the copies in the batches. *)

LEMMA InSequenceWith ==
    ASSUME NEW b, NEW A, NEW B, A \subseteq B, InSequence(b, A)
    PROVE  InSequence(b, B)
BY DEF InSequence

LEMMA ItemInSequence ==
    ASSUME NEW S, NEW w \in Seq(Seq(S)), NEW s \in Seq(S), NEW e \in S, NEW again
    PROVE  LET before == Append(w, s)
               after == Append(w, Append(s, e)) IN
           /\ CopiesOf(after) = CopiesOf(before) \cup {e.copy}
           /\ InSequence(before, again)
              /\ (\A c \in CopiesOf(before) : c < e.copy \/ e.copy \in again)
                => InSequence(after, again)
<1>0. PICK before, all, after, m, n :
        /\ before = Append(w, s) /\ all = Append(s, e) /\ after = Append(w, all)
        /\ m = Len(w) + 1 /\ n = Len(s) + 1
  OBVIOUS
<1>1. /\ all \in Seq(S) /\ DOMAIN all = 1 .. n /\ DOMAIN s = 1 .. Len(s) /\ Len(s) \in Nat
      /\ \A k \in 1 .. Len(s) : all[k] = s[k]
      /\ all[n] = e
  BY <1>0, AppendFacts
<1>2. /\ DOMAIN before = 1 .. m /\ DOMAIN after = 1 .. m /\ Len(w) \in Nat
      /\ \A i \in 1 .. Len(w) : before[i] = w[i]
      /\ \A i \in 1 .. Len(w) : after[i] = w[i]
      /\ before[m] = s /\ after[m] = all
  BY <1>0, <1>1, AppendFacts
<1>3. /\ DOMAIN before = 1 .. m /\ DOMAIN after = 1 .. m /\ m \in Nat /\ n \in Nat
      /\ \A i \in DOMAIN after : i # m => after[i] = before[i]
      /\ DOMAIN before[m] = 1 .. n - 1 /\ DOMAIN after[m] = 1 .. n
      /\ \A k \in 1 .. n - 1 : after[m][k] = before[m][k]
      /\ after[m][n] = e
  BY <1>0, <1>1, <1>2
\* An item of the batches after is one of those before, or the new one, which is the last.
<1>4. ASSUME NEW i \in DOMAIN after, NEW k \in DOMAIN after[i]
      PROVE  \/ i = m /\ k = n /\ after[i][k] = e
             \/ /\ k \in DOMAIN before[i] /\ after[i][k] = before[i][k]
                /\ ~ (i = m /\ k = n)
  BY <1>3
<1>5. CopiesOf(after) = CopiesOf(before) \cup {e.copy}
  <2>1. LET b == Append(w, s)
            a == Append(w, Append(s, e)) IN
        /\ CopiesOf(a) = CopiesOf(b) \cup {e.copy}
        /\ OnceIn(b, again) /\ (e.copy \in CopiesOf(b) => e.copy \in again)
                => OnceIn(a, again)
    BY ItemAdded, Zenon
  <2>2. QED
    BY <1>0, <2>1
<1>6. ASSUME InSequence(before, again), \A c \in CopiesOf(before) : c < e.copy \/ e.copy \in again
      PROVE  InSequence(after, again)
  <2>1. \A p \in DOMAIN before : \A q \in DOMAIN before[p] : before[p][q].copy \in CopiesOf(before)
    BY DEF CopiesOf
  <2>2. ASSUME NEW i \in DOMAIN after, NEW j \in DOMAIN after,
               NEW k \in DOMAIN after[i], NEW l \in DOMAIN after[j],
               i < j \/ (i = j /\ k < l)
        PROVE  after[i][k].copy < after[j][l].copy \/ after[j][l].copy \in again
    <3>1. ~ (i = m /\ k = n)
      BY <1>3, <2>2
    <3>2. k \in DOMAIN before[i] /\ after[i][k] = before[i][k]
      BY <1>4, <3>1
    <3>3. CASE j = m /\ l = n
      <4>1. after[j][l] = e
        BY <1>3, <3>3
      <4>2. QED
        BY <1>3, <1>6, <2>1, <3>2, <4>1
    <3>4. CASE ~ (j = m /\ l = n)
      <4>1. l \in DOMAIN before[j] /\ after[j][l] = before[j][l]
        BY <1>4, <3>4
      <4>2. i \in DOMAIN before /\ j \in DOMAIN before
        BY <1>3
      <4>3. before[i][k].copy < before[j][l].copy \/ before[j][l].copy \in again
        BY <1>6, <2>2, <3>2, <4>1, <4>2 DEF InSequence
      <4>4. QED
        BY <3>2, <4>1, <4>3
    <3>5. QED
      BY <3>3, <3>4
  <2>3. QED
    BY <2>2 DEF InSequence
<1>7. QED
  BY <1>0, <1>5, <1>6

LEMMA EmptyInSequence ==
    ASSUME NEW S, NEW b \in Seq(Seq(S)), NEW again, InSequence(b, again)
    PROVE  InSequence(Append(b, <<>>), again) /\ CopiesOf(Append(b, <<>>)) = CopiesOf(b)
<1> PICK after, m : after = Append(b, <<>>) /\ m = Len(b) + 1
  OBVIOUS
<1>1. /\ DOMAIN b = 1 .. Len(b) /\ DOMAIN after = 1 .. m /\ Len(b) \in Nat
      /\ \A i \in 1 .. Len(b) : after[i] = b[i]
      /\ after[m] = <<>>
  BY AppendFacts
<1>2. \A k \in DOMAIN << >> : FALSE
  OBVIOUS
<1>3. ASSUME NEW i \in DOMAIN after, NEW k \in DOMAIN after[i]
      PROVE  i \in DOMAIN b /\ after[i] = b[i]
  <2>1. i # m
    BY <1>1, <1>2
  <2>2. QED
    BY <1>1, <2>1
<1>4. InSequence(after, again)
  BY <1>3 DEF InSequence
<1>5. QED
  BY <1>4, EmptyBatchAdded

LEMMA FirstInSequence ==
    ASSUME NEW S, NEW b \in Seq(Seq(S)), b # <<>>, NEW again, InSequence(b, again)
    PROVE  /\ InSequence(Tail(b), again)
           /\ \A k \in DOMAIN b[1] :
                /\ \A c \in CopiesOf(Tail(b)) : b[1][k].copy < c \/ c \in again
                /\ \A l \in DOMAIN b[1] : k < l => b[1][k].copy < b[1][l].copy \/ b[1][l].copy \in again
           /\ \A c : c \in CopiesOf(b) <=>
                   (\E k \in DOMAIN b[1] : c = b[1][k].copy) \/ c \in CopiesOf(Tail(b))
<1> PICK rest : rest = Tail(b)
  OBVIOUS
<1>1. /\ Len(b) \in Nat /\ Len(b) >= 1 /\ DOMAIN b = 1 .. Len(b)
      /\ DOMAIN rest = 1 .. Len(b) - 1
      /\ \A i \in 1 .. Len(b) - 1 : rest[i] = b[i + 1]
  BY TailFacts
<1>2. /\ 1 \in DOMAIN b
      /\ \A i \in DOMAIN rest : i \in Int /\ i + 1 \in DOMAIN b /\ rest[i] = b[i + 1] /\ 1 < i + 1
      /\ \A i \in DOMAIN b : i # 1 => i - 1 \in DOMAIN rest /\ rest[i - 1] = b[i]
  <2>1. /\ 1 \in DOMAIN b
        /\ \A i \in DOMAIN rest : i \in Int /\ i + 1 \in DOMAIN b /\ rest[i] = b[i + 1] /\ 1 < i + 1
    BY <1>1
  <2>2. ASSUME NEW i \in DOMAIN b, i # 1 PROVE i - 1 \in DOMAIN rest /\ rest[i - 1] = b[i]
    <3>1. i - 1 \in 1 .. Len(b) - 1 /\ (i - 1) + 1 = i
      BY <1>1, <2>2
    <3>2. QED
      BY <1>1, <3>1
  <2>3. QED
    BY <2>1, <2>2
<1>3. InSequence(rest, again)
  <2> SUFFICES ASSUME NEW i \in DOMAIN rest, NEW j \in DOMAIN rest,
                      NEW k \in DOMAIN rest[i], NEW l \in DOMAIN rest[j],
                      i < j \/ (i = j /\ k < l)
               PROVE  rest[i][k].copy < rest[j][l].copy \/ rest[j][l].copy \in again
    BY DEF InSequence
  <2> PICK p, q : p = i + 1 /\ q = j + 1
    OBVIOUS
  <2>1. /\ p \in DOMAIN b /\ q \in DOMAIN b /\ rest[i] = b[p] /\ rest[j] = b[q]
        /\ p < q \/ (p = q /\ k < l)
    BY <1>2
  <2>2. QED
    BY <2>1 DEF InSequence
<1>4. ASSUME NEW k \in DOMAIN b[1], NEW i \in DOMAIN rest, NEW l \in DOMAIN rest[i]
      PROVE  b[1][k].copy < rest[i][l].copy \/ rest[i][l].copy \in again
  <2> PICK p : p = i + 1
    OBVIOUS
  <2>1. p \in DOMAIN b /\ 1 < p /\ rest[i] = b[p]
    BY <1>2
  <2>2. QED
    BY <1>2, <2>1 DEF InSequence
<1>5. ASSUME NEW k \in DOMAIN b[1], NEW c \in CopiesOf(rest)
      PROVE  b[1][k].copy < c \/ c \in again
  BY <1>4 DEF CopiesOf
<1>6. ASSUME NEW k \in DOMAIN b[1], NEW l \in DOMAIN b[1], k < l
      PROVE  b[1][k].copy < b[1][l].copy \/ b[1][l].copy \in again
  BY <1>2, <1>6 DEF InSequence
<1>7. ASSUME NEW c
      PROVE  c \in CopiesOf(b) <=> (\E k \in DOMAIN b[1] : c = b[1][k].copy) \/ c \in CopiesOf(rest)
  <2>1. ASSUME NEW i \in DOMAIN b, NEW k \in DOMAIN b[i], c = b[i][k].copy
        PROVE  (\E l \in DOMAIN b[1] : c = b[1][l].copy) \/ c \in CopiesOf(rest)
    <3>1. CASE i = 1
      BY <2>1, <3>1
    <3>2. CASE i # 1
      <4> PICK p : p = i - 1
        OBVIOUS
      <4>1. p \in DOMAIN rest /\ rest[p] = b[i]
        BY <1>2, <3>2
      <4>2. QED
        BY <2>1, <4>1 DEF CopiesOf
    <3>3. QED
      BY <3>1, <3>2
  <2>2. c \in CopiesOf(b) => \E i \in DOMAIN b : \E k \in DOMAIN b[i] : c = b[i][k].copy
    BY DEF CopiesOf
  <2>3. (\E l \in DOMAIN b[1] : c = b[1][l].copy) => c \in CopiesOf(b)
    BY <1>2 DEF CopiesOf
  <2>4. CopiesOf(rest) \subseteq CopiesOf(b)
    BY <1>2 DEF CopiesOf
  <2>5. QED
    BY <2>1, <2>2, <2>3, <2>4
<1>8. QED
  BY <1>3, <1>5, <1>6, <1>7

\* The batcher gets an item that has arrived after those it has, or failed before.
LEMMA AddItemInSequence ==
    ASSUME NEW S, items \in Seq(S), waiting \in Seq(Seq(S)), NEW item \in S, AddItem(item),
           NEW again
    PROVE  /\ InBatches' = InBatches \cup {item.copy}
           /\ InSequence(Batches, again)
              /\ (\A c \in InBatches : c < item.copy \/ item.copy \in again)
                => InSequence(Batches', again)
<1>0. PICK all, after : all = Append(items, item) /\ after = Append(waiting, all)
  OBVIOUS
<1>1. /\ CopiesOf(after) = CopiesOf(Batches) \cup {item.copy}
      /\ InSequence(Batches, again) /\ (\A c \in InBatches : c < item.copy \/ item.copy \in again)
            => InSequence(after, again)
  BY <1>0, ItemInSequence DEF Batches, InBatches
<1>2. CASE Len(all) >= BatchSize
  <2>1. items' = <<>> /\ waiting' = after
    BY <1>0, <1>2 DEF AddItem
  <2>2. after \in Seq(Seq(S))
    BY <1>0, AppendFacts
  <2>3. Batches' = Append(after, <<>>)
    BY <2>1 DEF Batches
  <2>4. QED
    BY <1>1, <2>2, <2>3, EmptyInSequence, EmptyBatchAdded DEF InBatches
<1>3. CASE ~ (Len(all) >= BatchSize)
  <2>1. items' = all /\ waiting' = waiting
    BY <1>0, <1>3 DEF AddItem
  <2>2. Batches' = after
    BY <1>0, <2>1 DEF Batches
  <2>3. QED
    BY <1>1, <2>2 DEF InBatches
<1>4. QED
  BY <1>2, <1>3
-------------------------------------------------------------------------------
(* Where the copies that wait for their decryption are after a step. *)

LEMMA AgainGrows ==
    ASSUME Shapes, Next
    PROVE  Again \subseteq Again' /\ \A c \in Again' : c \in Arrived' /\ Env(c)' \in Exempt'
<1>1. /\ Exempt \subseteq Exempt' /\ used \cup Exempt \subseteq used' \cup Exempt'
      /\ Arrived \subseteq Arrived' /\ \A c \in Arrived : arrivals'[c] = arrivals[c]
  BY HistoryGrows, UsedGrows, EnvStays DEF Env
<1>2. ASSUME NEW c \in Again PROVE c \in Again'
  BY <1>1, <1>2 DEF Again, Cleared, Env
<1>3. \A c \in Again' : c \in Arrived' /\ Env(c)' \in Exempt'
  BY DEF Again
<1>4. QED
  BY <1>2, <1>3

\* A row that is an item again has failed before.
LEMMA QueuedAgain ==
    ASSUME Shapes, RowsFailed, Past, QueueCached, ~Head(found.rows).plain
    PROVE  Head(found.rows).copy \in Again
<1> PICK row : row = Head(found.rows)
  OBVIOUS
<1>1. row = found.rows[1] /\ 1 \in DOMAIN found.rows /\ row.copy \in Arrived
  BY FoundRowsAre, TailFacts DEF QueueCached, Shapes, FoundShape
<1>2. row.copy \in RowCopies
  BY <1>1 DEF RowCopies
<1>3. QED
  BY <1>1, <1>2 DEF Again, RowsFailed, Past, Exempt

LEMMA QueueCachedBatches ==
    ASSUME Shapes, RowsFailed, Past, Arranged, QueueCached
    PROVE  /\ InSequence(Batches', Again)
           /\ Head(found.rows).copy \in RowCopies /\ Head(found.rows).copy \in Arrived
           /\ IF Head(found.rows).plain
              THEN InBatches' = InBatches
              ELSE /\ InBatches' = InBatches \cup {Head(found.rows).copy}
                   /\ Head(found.rows).copy \in Again
<1> PICK row, item : row = Head(found.rows) /\ item = Item(row.copy, row.attempts, 0)
  OBVIOUS
<1>1. row = found.rows[1] /\ 1 \in DOMAIN found.rows /\ row \in FoundRow(Arrived)
  BY FoundRowsAre, TailFacts DEF QueueCached, Shapes, FoundShape
<1>2. row.copy \in RowCopies /\ row.copy \in Arrived
  BY <1>1 DEF RowCopies, FoundRow
<1>3. CASE row.plain
  <2>1. UNCHANGED <<items, waiting>>
    BY <1>3 DEF QueueCached
  <2>2. Batches' = Batches
    BY <2>1 DEF Batches
  <2>3. QED
    BY <1>2, <1>3, <2>2 DEF InBatches, Arranged
<1>4. CASE ~row.plain
  <2>1. AddItem(item) /\ item.copy = row.copy
    BY <1>4 DEF QueueCached, Item
  <2>2. item \in ItemOf(Arrived)
    BY <1>1, LimitsAssumption DEF FoundRow, Item, ItemOf
  <2>3. items \in Seq(ItemOf(Arrived)) /\ waiting \in Seq(Seq(ItemOf(Arrived)))
    BY DEF Shapes, ItemsShape
  <2>4. item.copy \in Again
    BY <1>4, <2>1, QueuedAgain
  <2>5. InSequence(Batches, Again)
    BY DEF Arranged
  <2> PICK again : again = Again
    OBVIOUS
  <2>6. InBatches' = InBatches \cup {item.copy} /\ InSequence(Batches', again)
    BY <2>1, <2>2, <2>3, <2>4, <2>5, AddItemInSequence
  <2>7. QED
    BY <1>2, <1>4, <2>1, <2>4, <2>6
<1>5. QED
  BY <1>3, <1>4

LEMMA HandleRequestBatches ==
    ASSUME Shapes, Arranged, HandleRequest
    PROVE  /\ InSequence(Batches', Again)
           /\ InBatches' = InBatches \cup {Len(arrivals) + 1}
           /\ Head(incoming).n \in Envelopes /\ arrivals'[Len(arrivals) + 1] = Head(incoming).n
           /\ Len(arrivals) + 1 \in Nat /\ \A c \in Arrived : c \in Nat /\ c < Len(arrivals) + 1
           /\ UNCHANGED <<encrypted, batch>>
<1> PICK c, item : c = Len(arrivals) + 1 /\ item = Item(c, 0, Head(incoming).conn)
  OBVIOUS
<1>1. Arrived \subseteq Arrived' /\ c \in Arrived'
  BY HandleRequestShapes
<1>2. UNCHANGED <<encrypted, batch>> /\ AddItem(item) /\ item.copy = c
  BY DEF HandleRequest, Item, batching
<1>3. c \in Nat /\ \A d \in Arrived : d \in Nat /\ d < c
  BY DEF Arrived, Shapes, DiskShape
<1>4. Head(incoming).n \in Envelopes /\ Head(incoming).conn \in 1 .. MaxConnections
  <2>1. incoming \in Seq(IncomingTask) /\ incoming # <<>> /\ Head(incoming).op = "request"
    BY DEF HandleRequest, Shapes, IncomingShape
  <2>2. Head(incoming) \in IncomingTask
    BY <2>1, TailFacts
  <2>3. QED
    BY <2>1, <2>2 DEF IncomingTask
<1>5. arrivals'[c] = Head(incoming).n
  <2>1. arrivals' = Append(arrivals, Head(incoming).n) /\ arrivals \in Seq(Envelopes)
    BY DEF HandleRequest, Shapes, DiskShape
  <2>2. QED
    BY <1>4, <2>1, AppendFacts
<1>6. InBatches' = InBatches \cup {c} /\ InSequence(Batches', Again)
  <2>1. PICK S : S = ItemOf(Arrived')
    OBVIOUS
  <2>2. item \in S
    BY <1>1, <1>4, <2>1, LimitsAssumption DEF ItemOf, Item
  <2>3. items \in Seq(S) /\ waiting \in Seq(Seq(S))
    <3>1. ItemOf(Arrived) \subseteq S
      BY <1>1, <2>1, Wider
    <3>2. Seq(ItemOf(Arrived)) \subseteq Seq(S)
      BY <3>1, SeqWider
    <3>3. QED
      BY <3>1, <3>2, SeqWider DEF Shapes, ItemsShape
  <2>4. InSequence(Batches, Again) /\ \A d \in InBatches : d < item.copy
    BY <1>2, <1>3, PlacesArrived DEF Arranged
  <2> PICK again : again = Again
    OBVIOUS
  <2>5. InBatches' = InBatches \cup {item.copy} /\ InSequence(Batches', again)
    BY <1>2, <2>2, <2>3, <2>4, AddItemInSequence
  <2>6. QED
    BY <1>2, <2>5
<1>7. QED
  BY <1>2, <1>3, <1>4, <1>5, <1>6

\* The first batch goes to encryptedQueue in its order, before all other copies.
LEMMA EnterZoneBatches ==
    ASSUME Shapes, Arranged, EnterZone
    PROVE  /\ InSequence(Batches', Again)
           /\ InEncrypted = {} /\ InEncrypted' \cup InBatches' = InBatches
           /\ \A c \in InEncrypted', d \in InBatches' : c < d \/ d \in Again
           /\ \A i, k \in Tasks' : i < k =>
                \/ encrypted'[i].item.copy < encrypted'[k].item.copy
                \/ encrypted'[k].item.copy \in Again
           /\ \A i \in Tasks' : i \in Nat /\ i > Len(encrypted)
<1>0. PICK first, n : first = Head(waiting) /\ n = Len(encrypted)
  OBVIOUS
<1>1. /\ \A i \in DOMAIN encrypted : encrypted[i].op # "decrypt"
      /\ \A i \in DOMAIN encrypted' :
            IF i <= n
            THEN encrypted'[i] = encrypted[i]
            ELSE i - n \in DOMAIN first
                 /\ encrypted'[i] = [op |-> "decrypt", item |-> first[i - n]]
      /\ \A k \in DOMAIN first :
            /\ n + k \in DOMAIN encrypted'
            /\ encrypted'[n + k] = [op |-> "decrypt", item |-> first[k]]
      /\ DOMAIN encrypted = 1 .. n /\ n \in Nat /\ DOMAIN encrypted' \subseteq Nat \ {0}
  <2>1. encrypted \in Seq(EncryptedTask(Arrived)) /\ encrypted' \in Seq(EncryptedTask(Arrived'))
    BY EnterZoneShapes DEF Shapes, QueueShape
  <2>2. DOMAIN encrypted = 1 .. n /\ n \in Nat /\ DOMAIN encrypted' \subseteq Nat \ {0}
    BY <1>0, <2>1
  <2>3. QED
    BY <1>0, <2>2, EnterZoneShapes
<1>2. ASSUME NEW i \in Tasks'
      PROVE  /\ i \in Nat /\ i > n /\ i - n \in DOMAIN first
             /\ encrypted'[i].item = first[i - n]
  <2>1. i \in DOMAIN encrypted' /\ encrypted'[i].op = "decrypt" /\ i \in Nat \ {0}
    BY <1>1 DEF Tasks
  <2>2. ~ (i <= n)
    <3>1. ASSUME i <= n PROVE FALSE
      <4>1. i \in DOMAIN encrypted
        BY <1>1, <2>1, <3>1
      <4>2. QED
        BY <1>1, <2>1, <3>1, <4>1
    <3>2. QED
      BY <3>1
  <2>3. QED
    BY <1>1, <2>1, <2>2
<1>3. ASSUME NEW k \in DOMAIN first
      PROVE  n + k \in Tasks' /\ encrypted'[n + k].item = first[k]
  <2> PICK task : task = encrypted'[n + k]
    OBVIOUS
  <2>1. task.op = "decrypt" /\ task.item = first[k]
    <3>1. task = [op |-> "decrypt", item |-> first[k]]
      BY <1>1
    <3>2. QED
      BY <3>1
  <2>2. QED
    BY <1>1, <2>1 DEF Tasks
<1>4. /\ Batches \in Seq(Seq(ItemOf(Arrived))) /\ Batches # <<>>
      /\ Batches[1] = first /\ Batches' = Tail(Batches)
  <2>1. waiting \in Seq(Seq(ItemOf(Arrived))) /\ items \in Seq(ItemOf(Arrived)) /\ waiting # <<>>
    BY DEF Shapes, ItemsShape, EnterZone
  <2>2. waiting' = Tail(waiting) /\ items' = items
    BY DEF EnterZone
  <2>3. QED
    BY <1>0, <2>1, <2>2, TailOfAppend DEF Batches
<1>5. /\ InSequence(Batches', Again)
      /\ \A k \in DOMAIN first :
           /\ \A c \in InBatches' : first[k].copy < c \/ c \in Again
           /\ \A l \in DOMAIN first : k < l => first[k].copy < first[l].copy \/ first[l].copy \in Again
      /\ InBatches = {first[k].copy : k \in DOMAIN first} \cup InBatches'
  <2> PICK b, rest, again : b = Batches /\ rest = Batches' /\ again = Again
    OBVIOUS
  <2>1. InBatches = CopiesOf(b) /\ InBatches' = CopiesOf(rest) /\ InSequence(b, again)
    BY DEF InBatches, Arranged
  <2>2. b \in Seq(Seq(ItemOf(Arrived))) /\ b # <<>> /\ b[1] = first /\ rest = Tail(b)
    BY <1>4
  <2>3. /\ InSequence(Tail(b), again)
        /\ \A k \in DOMAIN b[1] :
             /\ \A c \in CopiesOf(Tail(b)) : b[1][k].copy < c \/ c \in again
             /\ \A l \in DOMAIN b[1] : k < l => b[1][k].copy < b[1][l].copy \/ b[1][l].copy \in again
        /\ \A c : c \in CopiesOf(b) <=>
                (\E k \in DOMAIN b[1] : c = b[1][k].copy) \/ c \in CopiesOf(Tail(b))
    BY <2>1, <2>2, FirstInSequence
  <2>4. QED
    BY <2>1, <2>2, <2>3
<1>6. InEncrypted' = {first[k].copy : k \in DOMAIN first}
  BY <1>2, <1>3 DEF InEncrypted
<1>7. InEncrypted = {}
  BY <1>1 DEF InEncrypted, Tasks
<1>8. ASSUME NEW i \in Tasks', NEW k \in Tasks', i < k
      PROVE  \/ encrypted'[i].item.copy < encrypted'[k].item.copy
             \/ encrypted'[k].item.copy \in Again
  <2> PICK p, q : p = i - n /\ q = k - n
    OBVIOUS
  <2>1. /\ p \in DOMAIN first /\ q \in DOMAIN first /\ p < q
        /\ encrypted'[i].item = first[p] /\ encrypted'[k].item = first[q]
    <3>1. i \in Int /\ k \in Int /\ n \in Int
      BY <1>1, <1>2
    <3>2. p < q
      BY <1>8, <3>1
    <3>3. QED
      BY <1>2, <3>2
  <2>2. QED
    BY <1>5, <2>1
<1>9. \A i \in Tasks' : i \in Nat /\ i > Len(encrypted)
  BY <1>0, <1>2
<1>10. QED
  BY <1>5, <1>6, <1>7, <1>8, <1>9

\* The other steps leave the batches alone, or start an empty one.
LEMMA BatchesStay ==
    ASSUME Shapes, Arranged, Next, ~HandleRequest, ~QueueCached, ~EnterZone, ~Restart
    PROVE  InBatches' = InBatches /\ InSequence(Batches', Again)
<1>1. CASE KickBatchOff
  <2>1. Batches' = Append(Batches, <<>>)
    BY <1>1 DEF KickBatchOff, Batches
  <2>2. Batches \in Seq(Seq(ItemOf(Arrived)))
    BY PlacesArrived
  <2>3. QED
    BY <2>1, <2>2, EmptyInSequence DEF InBatches, Arranged
<1>2. CASE UNCHANGED <<items, waiting>>
  <2>1. Batches' = Batches
    BY <1>2 DEF Batches
  <2>2. QED
    BY <2>1 DEF InBatches, Arranged
<1>3. Deliver \/ SayEmpty \/ HandleEmpty \/ WaitForIncoming \/ BatcherIdle \/ RetryCached \/ PassOn
        => UNCHANGED <<items, waiting>>
  BY DEF Deliver, SayEmpty, HandleEmpty, WaitForIncoming, BatcherIdle, RetryCached, PassOn
<1>4. Hand \/ Handle \/ AppSeesError \/ Reconnect \/ StopProcessing => UNCHANGED <<items, waiting>>
  BY DEF Hand, HandleDecrypted, DispatchError, WaitForDecrypted, ScheduleRetry, Handle, EmitEmpty,
     AppHandles, AppThrows, AppSeesError, Reconnect, StopProcessing, pipeline
<1>5. GetAllUnprocessedIds \/ GetUnprocessed \/ EndBatch \/ RemoveFromCache \/ Decrypt
        => UNCHANGED <<items, waiting>>
  BY DEF GetAllUnprocessedIds, GetUnprocessed, EndBatch, Commit, CommitFails, CommitAnswered,
         RemoveFromCache, pipeline, Decrypt, DecryptStopped, DecryptDropsEarly, DecryptThrows,
         DecryptReceipt, DecryptingContent, DecryptDuplicate, DecryptSucceeds, DecryptDrops,
         DecryptRejected, DecryptFails, DecryptTimesOut
<1>6. QED
  BY <1>1, <1>2, <1>3, <1>4, <1>5 DEF Next, Work, Receive, Fetch

LEMMA RestartEmpties ==
    ASSUME Restart
    PROVE  /\ InBatches' = {} /\ InEncrypted' = {} /\ InOk' = {} /\ InFailed' = {} /\ Tasks' = {}
           /\ RowCopies' = {} /\ InSequence(Batches', Again')
<1>1. items' = <<>> /\ waiting' = <<>> /\ encrypted' = <<>> /\ found' = NothingFound
  BY DEF Restart
<1>2. Batches' = <<<<>>>>
  BY <1>1 DEF Batches
<1>3. \A i \in DOMAIN Batches' : DOMAIN Batches'[i] = {}
  BY <1>2
<1>4. InBatches' = {} /\ InSequence(Batches', Again')
  BY <1>3 DEF InBatches, CopiesOf, InSequence
<1>5. Tasks' = {} /\ InEncrypted' = {}
  BY <1>1 DEF Tasks, InEncrypted
<1>6. RowCopies' = {}
  BY <1>1 DEF RowCopies, NothingFound
<1>7. QED
  BY <1>4, <1>5, <1>6, NoBatchEmpty
-------------------------------------------------------------------------------
(* What was sent stays there, in its order. *)

LEMMA IncomingOthers ==
    ASSUME Shapes, Next, ~Restart, ~Deliver, ~HandleRequest
    PROVE  /\ \/ incoming' = incoming
              \/ /\ incoming # <<>> /\ incoming' = Tail(incoming)
                 /\ Head(incoming).op # "request"
              \/ \E t \in IncomingTask : t.op # "request" /\ incoming' = Append(incoming, t)
           /\ sent' = sent \/ sent' = {}
<1>1. \A op \in {"fetch", "empty", "idle"} :
        Task(op, 0) \in IncomingTask /\ Task(op, 0).op # "request"
  BY DEF Task, IncomingTask
<1>2. CASE SayEmpty \/ BatcherIdle \/ RetryCached \/ Reconnect
  <2>1. PICK op \in {"fetch", "empty", "idle"} : incoming' = Append(incoming, Task(op, 0))
    BY <1>2 DEF SayEmpty, BatcherIdle, RetryCached, Reconnect
  <2>2. sent' = sent \/ sent' = {}
    BY <1>2 DEF SayEmpty, BatcherIdle, RetryCached, Reconnect, NewConnection, net
  <2>3. QED
    BY <1>1, <2>1, <2>2
<1>3. CASE HandleEmpty \/ WaitForIncoming
  BY <1>3 DEF HandleEmpty, WaitForIncoming, net
<1>4. CASE GetAllUnprocessedIds
  BY <1>4 DEF GetAllUnprocessedIds, net
<1>5. CASE GetUnprocessed \/ QueueCached
  <2>1. found.phase # "idle" /\ sent' = sent
    BY <1>5 DEF GetUnprocessed, QueueCached, net
  <2>2. incoming # <<>> /\ Head(incoming).op = "fetch"
    BY <2>1 DEF Shapes, IncomingShape
  <2>3. \E rows : FetchDone(rows)
    BY <1>5 DEF GetUnprocessed, QueueCached
  <2>4. incoming' = incoming \/ incoming' = Tail(incoming)
    BY <2>3, FetchDoneRows
  <2>5. QED
    BY <2>1, <2>2, <2>4
<1>6. KickBatchOff \/ EnterZone \/ Decrypt \/ PassOn => incoming' = incoming /\ sent' = sent
  BY DecryptResult DEF KickBatchOff, EnterZone, PassOn, net
<1>7. EndBatch \/ Hand \/ Handle \/ AppSeesError \/ RemoveFromCache \/ StopProcessing
        => incoming' = incoming /\ sent' = sent
  BY DEF EndBatch, Commit, CommitFails, CommitAnswered, Hand, HandleDecrypted, DispatchError,
     WaitForDecrypted, ScheduleRetry, Handle, EmitEmpty, AppHandles, AppThrows, AppSeesError,
     RemoveFromCache, StopProcessing, net, pipeline
<1>8. QED
  BY <1>2, <1>3, <1>4, <1>5, <1>6, <1>7 DEF Next, Work, Receive, Fetch

\* A copy that waits goes on to, or is decrypted; one that comes is a new one, or failed before.
LEMMA PendingSteps ==
    ASSUME Shapes, RowsFailed, Past, Arranged, Next, ~Restart
    PROVE  /\ \A c \in Pending : c \in Pending' \/ (Decrypt /\ c = NextItem.copy)
           /\ \A c \in Pending' :
                \/ c \in Pending
                \/ c \in Again \cap RowCopies
                \/ HandleRequest /\ c = Len(arrivals) + 1
           /\ HandleRequest => Len(arrivals) + 1 \in Pending'
<1>1. CASE HandleRequest
  <2>1. InEncrypted' = InEncrypted /\ InBatches' = InBatches \cup {Len(arrivals) + 1}
    BY <1>1, HandleRequestBatches, OthersStay
  <2>2. QED
    BY <1>1, <2>1 DEF Pending
<1>2. CASE ~HandleRequest /\ QueueCached
  <2>1. InEncrypted' = InEncrypted
    <3>1. CASE Head(found.rows).plain
      <4> PICK t : t = Task("cached", Head(found.rows).copy)
        OBVIOUS
      <4>1. Head(found.rows).copy \in Arrived /\ encrypted' = Append(encrypted, t)
        BY <1>2, <3>1, QueueCachedBatches DEF QueueCached
      <4>2. t \in EncryptedTask(Arrived) /\ t.op # "decrypt"
        BY <4>1 DEF Task, EncryptedTask
      <4>3. QED
        BY <4>1, <4>2, EncryptedAppended DEF Shapes, QueueShape
    <3>2. CASE ~Head(found.rows).plain
      BY <1>2, <3>2, OthersStay DEF QueueCached, batching
    <3>3. QED
      BY <3>1, <3>2
  <2>2. InBatches' = InBatches \/ \E c \in Again \cap RowCopies : InBatches' = InBatches \cup {c}
    BY <1>2, QueueCachedBatches
  <2>3. QED
    BY <1>2, <2>1, <2>2 DEF Pending
<1>3. CASE ~HandleRequest /\ EnterZone
  <2>1. Pending' = Pending
    BY <1>3, EnterZoneBatches DEF Pending
  <2>2. QED
    BY <1>3, <2>1
<1>4. CASE ~HandleRequest /\ ~QueueCached /\ ~EnterZone
  <2>1. InBatches' = InBatches
    BY <1>4, BatchesStay
  <2>2. QED
    BY <1>4, <2>1, InEncryptedStays DEF Pending
<1>5. QED
  BY <1>1, <1>2, <1>3, <1>4

LEMMA QueuedKept ==
    ASSUME Shapes, Safety, RowsFailed, Past, Queued, Arranged, Next
    PROVE  Queued'
<1> SUFFICES ASSUME zone' # "stuck"
             PROVE  Queued'
  BY DEF Queued
<1>1. CASE Restart
  <2>1. sent' = {} /\ incoming' = <<Task("fetch", 0)>> /\ Pending' = {}
    BY <1>1, RestartEmpties DEF Restart, NewConnection, Pending
  <2>2. \A i \in DOMAIN incoming' : incoming'[i].op # "request"
    BY <2>1 DEF Task
  <2>3. QED
    BY <2>1, <2>2 DEF Queued, InTurn
<1> SUFFICES ASSUME ~Restart
             PROVE  Queued'
  BY <1>1
<1>2. ~CommitFails /\ zone # "stuck"
  <2>1. ~CommitFails
    BY DEF CommitFails
  <2>2. CASE EnterZone \/ EndBatch
    BY <2>1, <2>2 DEF EnterZone, EndBatch, Commit, CommitAnswered
  <2>3. CASE ~EnterZone /\ ~EndBatch
    BY <2>1, <2>3, ZoneSteps
  <2>4. QED
    BY <2>1, <2>2, <2>3
<1> DEFINE Done == Spent \cup Exempt
           All == Done \cup PendingEnvelopes
<1>3. Done \subseteq Done'
  BY <1>2, SpentStays
<1>4. /\ Pending \subseteq Arrived /\ \A c \in Arrived : Env(c)' = Env(c) /\ Env(c) \in Envelopes
      /\ Arrived \subseteq Nat
  <2>1. Arrived \subseteq Nat
    BY DEF Arrived
  <2>2. QED
    BY <2>1, PlacesArrived, EnvStays, EnvIsEnvelope DEF Pending
\* A copy that leaves was decrypted.
<1>5. \A c \in Pending : c \in Pending' \/ Env(c) \in Done'
  <2>1. Decrypt => Env(NextItem.copy) \in Done'
    <3>1. ASSUME Decrypt PROVE Env(NextItem.copy) \in Spent' \cup Exempt'
      BY <3>1, DecryptResult DEF DecryptsOk, DecryptsBad, Spent
    <3>2. QED
      BY <3>1
  <2>2. QED
    BY <2>1, PendingSteps
<1>6. All \subseteq All'
  <2>1. PendingEnvelopes \subseteq Done' \cup PendingEnvelopes'
    BY <1>4, <1>5 DEF PendingEnvelopes, Env
  <2> HIDE DEF Done
  <2>2. QED
    BY <1>3, <2>1
<1>7. /\ sent \subseteq All \cup Asked
      /\ InTurn(Itself, incoming, {"request"}, "request", All)
      /\ \A c \in Pending, f \in Envelopes :
            f < Env(c) => f \in Done \/ \E d \in Pending : Env(d) = f /\ d < c
  BY <1>2 DEF Queued
<1>8. incoming \in Seq(IncomingTask)
  BY DEF Shapes, IncomingShape
<1>9. HandleRequest => Head(incoming).n \in All'
  <2>1. ASSUME HandleRequest PROVE Head(incoming).n \in PendingEnvelopes'
    BY <2>1, PendingSteps, HandleRequestBatches DEF PendingEnvelopes, Env
  <2>2. QED
    BY <2>1
<1> HIDE DEF Done, All
<1>10. sent' \subseteq All' \cup Asked' /\ InTurn(Itself, incoming', {"request"}, "request", All')
  <2>1. CASE Deliver
    <3>1. PICK e \in server \ sent :
            /\ \A f \in server \ sent : e <= f
            /\ sent' = sent \cup {e}
            /\ incoming' = Append(incoming, [op |-> "request", n |-> e, conn |-> connection])
      BY <2>1 DEF Deliver
    <3> PICK t : t = [op |-> "request", n |-> e, conn |-> connection]
      OBVIOUS
    <3>2. t \in IncomingTask /\ t.op = "request" /\ t.n = e /\ e \in Envelopes /\ incoming' = Append(incoming, t)
      BY <3>1 DEF IncomingTask, Shapes, NetShape
    <3>3. Itself[e] = e
      BY <3>2 DEF Itself
    <3>4. \A f \in Envelopes : f < e => f \in All \cup Asked
      <4> SUFFICES ASSUME NEW f \in Envelopes, f < e PROVE f \in All \cup Asked
        OBVIOUS
      <4>1. f \notin server \/ f \in sent
        BY <3>1, <3>2 DEF Envelopes
      <4>2. CASE f \in sent
        BY <1>7, <4>2
      <4>3. CASE f \notin server
        BY <4>3 DEF Past, All, Done, Spent
      <4>4. QED
        BY <4>1, <4>2, <4>3
    <3>5. \A f \in Envelopes : f < Itself[t.n] => f \in All \cup Tells(Itself, incoming, "request")
      BY <3>2, <3>3, <3>4 DEF Asked
    <3>6. InTurn(Itself, incoming', {"request"}, "request", All)
      BY <1>7, <1>8, <3>2, <3>5, TaskJoins
    <3>7. Asked \subseteq Asked' /\ e \in Asked'
      BY <1>8, <3>2, <3>3, TellsAppended DEF Asked
    <3>8. QED
      BY <1>6, <1>7, <3>1, <3>6, <3>7, InTurnWith
  <2>2. CASE HandleRequest
    <3>1. /\ incoming # <<>> /\ incoming' = Tail(incoming) /\ Head(incoming).op = "request"
          /\ sent' = sent
      BY <2>2 DEF HandleRequest, net
    <3>2. Itself[Head(incoming).n] \in All'
      BY <1>9, <2>2, HandleRequestBatches DEF Itself
    <3>3. /\ InTurn(Itself, incoming', {"request"}, "request", All')
          /\ Asked \subseteq Asked' \cup All'
      BY <1>6, <1>7, <1>8, <3>1, <3>2, TaskLeaves DEF Asked
    <3>4. QED
      BY <1>6, <1>7, <3>1, <3>3
  <2>3. CASE ~Deliver /\ ~HandleRequest
    <3>1. sent' = sent \/ sent' = {}
      BY <2>3, IncomingOthers
    <3>2. CASE incoming' = incoming
      BY <1>6, <1>7, <3>1, <3>2, InTurnWith DEF Asked
    <3>3. CASE incoming # <<>> /\ incoming' = Tail(incoming) /\ Head(incoming).op # "request"
      <4>1. /\ InTurn(Itself, incoming', {"request"}, "request", All')
            /\ Asked \subseteq Asked' \cup All'
        BY <1>6, <1>7, <1>8, <3>3, TaskLeaves DEF Asked
      <4>2. QED
        BY <1>6, <1>7, <3>1, <4>1
    <3>4. CASE \E t \in IncomingTask : t.op # "request" /\ incoming' = Append(incoming, t)
      <4>1. PICK t \in IncomingTask : t.op # "request" /\ incoming' = Append(incoming, t)
        BY <3>4
      <4>2. InTurn(Itself, incoming', {"request"}, "request", All)
        BY <1>7, <1>8, <4>1, TaskJoins
      <4>3. Asked \subseteq Asked'
        BY <1>8, <4>1, TellsAppended DEF Asked
      <4>4. QED
        BY <1>6, <1>7, <3>1, <4>2, <4>3, InTurnWith
    <3>5. QED
      BY <2>3, <3>2, <3>3, <3>4, IncomingOthers
  <2>4. QED
    BY <2>1, <2>2, <2>3
<1>11. ASSUME NEW c \in Pending', NEW f \in Envelopes, f < Env(c)'
       PROVE  f \in Done' \/ \E d \in Pending' : Env(d)' = f /\ d < c
  <2>1. CASE c \in Pending
    <3>1. f \in Done \/ \E d \in Pending : Env(d) = f /\ d < c
      BY <1>4, <1>7, <1>11, <2>1
    <3>2. QED
      BY <1>3, <1>4, <1>5, <3>1
  <2>2. CASE c \in Again
    <3>1. c \in Arrived /\ Cleared(Env(c))
      BY <2>2 DEF Again
    <3>2. f \in Done
      BY <1>4, <1>11, <3>1 DEF Cleared, Done, Spent
    <3>3. QED
      BY <1>3, <3>2
  <2>3. CASE HandleRequest /\ c = Len(arrivals) + 1
    <3>1. /\ incoming # <<>> /\ Head(incoming).op = "request"
          /\ Env(c)' = Head(incoming).n /\ Head(incoming).n \in Envelopes
      BY <2>3, HandleRequestBatches DEF HandleRequest, Env
    <3>2. Head(incoming).op \in {"request"} => \A g \in Envelopes : g < Itself[Head(incoming).n] => g \in All
      <4> PICK env : env = Itself
        OBVIOUS
      <4>1. env[Head(incoming).n] \in All'
        BY <1>9, <2>3, <3>1 DEF Itself
      <4>2. InTurn(env, incoming, {"request"}, "request", All)
        BY <1>7
      <4>3. QED
        BY <1>6, <1>8, <3>1, <4>1, <4>2, TaskLeaves
    <3>3. f \in All
      BY <1>11, <3>1, <3>2 DEF Itself
    <3>4. CASE f \in Done
      BY <1>3, <3>4
    <3>5. CASE f \notin Done
      <4>1. PICK d \in Pending : Env(d) = f
        BY <3>3, <3>5 DEF All, PendingEnvelopes
      <4>2. d < c /\ Env(d)' = f
        BY <1>4, <2>3, <4>1, HandleRequestBatches
      <4>3. QED
        BY <1>5, <4>1, <4>2
    <3>6. QED
      BY <3>4, <3>5
  <2>4. QED
    BY <1>11, <2>1, <2>2, <2>3, PendingSteps
<1>12. QED
  BY <1>10, <1>11 DEF Queued, All, Done
-------------------------------------------------------------------------------
(* The order of the copies is the order of their envelopes. *)

LEMMA KnownSteps ==
    ASSUME Shapes, RowsFailed, Past, Arranged, Next
    PROVE  /\ \A d \in Known' : d \in Known \/ (HandleRequest /\ d = Len(arrivals) + 1)
           /\ Known \subseteq Arrived
<1>1. \A d \in DOMAIN db' : d \in Known
  <2>1. DOMAIN db' \subseteq DOMAIN db \cup InOk \cup InFailed
    BY RowsStay, CommitShapes
  <2>2. QED
    BY <2>1 DEF Known
<1>2. \A d \in RowCopies' : d \in Known
  BY FoundBecomes DEF RowCopies, Known
<1>3. \A d \in Pending' : d \in Known \/ (HandleRequest /\ d = Len(arrivals) + 1)
  <2>1. CASE Restart
    BY <2>1, RestartEmpties DEF Pending
  <2>2. CASE ~Restart
    BY <2>2, PendingSteps DEF Known
  <2>3. QED
    BY <2>1, <2>2
<1>4. \A d \in InOk' \cup InFailed' : d \in Known
  <2>1. CASE Decrypt
    <3>1. NextItem.copy \in InEncrypted
      BY <2>1, DecryptionShapes, DecryptingFacts DEF InEncrypted, Tasks
    <3>2. InOk' \cup InFailed' \subseteq InOk \cup InFailed \cup {NextItem.copy}
      BY <2>1, DecryptResult DEF DecryptsOk, DecryptsBad
    <3>3. QED
      BY <3>1, <3>2 DEF Known, Pending
  <2>2. CASE ~Decrypt
    BY <2>2, BatchStaysOrEnds DEF Known
  <2>3. QED
    BY <2>1, <2>2
<1>5. Known \subseteq Arrived
  <2>1. RowCopies \subseteq Arrived
    BY FoundRowsAre DEF RowCopies
  <2>2. DOMAIN db \subseteq Arrived
    BY DEF Shapes, DiskShape
  <2>3. QED
    BY <2>1, <2>2, PlacesArrived DEF Known, Pending
<1>6. QED
  BY <1>1, <1>2, <1>3, <1>4, <1>5 DEF Known

\* What a batch has decrypted was not decrypted before.
LEMMA OkIsNew ==
    ASSUME Shapes, Safety, Past, zone = "open", NEW c \in InOk
    PROVE  Env(c) \in batch.uses /\ Env(c) \notin used
BY DEF Safety, UsesAreOk, Past

\* So it is smaller than what comes after it only if it is exempt.
LEMMA OkFirst ==
    ASSUME Shapes, Safety, Past, zone = "open", NEW c \in InOk, NEW d, Cleared(Env(d)),
           Env(c) < Env(d)
    PROVE  Env(c) \in Exempt
<1>1. Env(c) \in Envelopes
  BY PlacesArrived, EnvIsEnvelope
<1>2. QED
  BY <1>1, OkIsNew DEF Cleared

LEMMA BatchInOrder ==
    ASSUME Shapes, Safety, Past, Queued, Arranged, Next, zone' = "open",
           NEW c \in InOk', NEW d \in InOk' \cup InFailed', Env(c)' < Env(d)'
    PROVE  Env(c)' \in Exempt' \/ c < d
<1>1. InOk \cup InFailed \cup InEncrypted \subseteq Arrived /\ Arrived \subseteq Nat
  <2>1. Arrived \subseteq Nat
    BY DEF Arrived
  <2>2. QED
    BY <2>1, PlacesArrived
<1>2. Exempt \subseteq Exempt' /\ \A k \in Arrived : Env(k)' = Env(k) /\ Env(k) \in Envelopes
  BY HistoryGrows, EnvStays, EnvIsEnvelope
<1>3. zone = "open" => \A k \in InOk, l \in InOk \cup InFailed :
          Env(k) < Env(l) => Env(k) \in Exempt \/ k < l
  BY DEF Arranged
<1>4. CASE Decrypt
  <2> PICK n : n = NextItem.copy
    OBVIOUS
  <2>1. zone = "open" /\ n \in InEncrypted
    BY <1>4, DecryptionShapes, DecryptingFacts DEF InEncrypted, Tasks
  <2>2. /\ InOk' \subseteq InOk \cup {n} /\ InFailed' \subseteq InFailed \cup {n}
        /\ n \in InOk' /\ n \notin InOk => Env(n) \notin Spent
    BY <1>4, DecryptResult DEF DecryptsOk, DecryptsBad
  <2>3. Env(c) < Env(d) /\ Env(c)' = Env(c) /\ Env(c) \in Nat /\ Env(d) \in Nat
    <3>1. c \in Arrived /\ d \in Arrived
      BY <1>1, <2>1, <2>2
    <3>2. QED
      BY <1>2, <3>1 DEF Envelopes
  <2>4. CASE c \in InOk /\ d \in InOk \cup InFailed
    BY <1>2, <1>3, <2>1, <2>3, <2>4
  <2>5. CASE c \in InOk /\ d = n
    <3>1. c < n \/ n \in Again
      BY <2>1, <2>5 DEF Arranged
    <3>2. n \in Again => Env(c) \in Exempt
      BY <2>1, <2>3, <2>5, OkFirst DEF Again
    <3>3. QED
      BY <1>2, <2>3, <2>5, <3>1, <3>2
  <2>6. CASE c = n /\ c \notin InOk /\ d \in InOk \cup InFailed
    <3>1. Env(c) \in Spent \cup Exempt
      BY <1>1, <1>2, <2>1, <2>3, <2>6 DEF Past
    <3>2. QED
      BY <1>2, <2>2, <2>3, <2>6, <3>1
  <2>7. c # n \/ d # n
    BY <2>3
  <2>8. QED
    BY <2>2, <2>4, <2>5, <2>6, <2>7
<1>5. CASE ~Decrypt
  <2>1. batch' = batch /\ InOk' = InOk /\ InFailed' = InFailed
    BY <1>5, BatchStaysOrEnds
  <2>2. CASE zone = "open"
    <3>1. c \in Arrived /\ d \in Arrived
      BY <1>1, <2>1
    <3>2. QED
      BY <1>2, <1>3, <2>1, <2>2, <3>1
  <2>3. CASE zone # "open"
    <3>1. EnterZone
      BY <2>3, ZoneSteps DEF EndBatch, Commit, CommitFails, CommitAnswered, Restart
    <3>2. batch'.ok = <<>>
      BY <3>1, EnterZoneShapes
    <3>3. InOk' = {}
      BY <3>2 DEF InOk, ToSet
    <3>4. QED
      BY <3>3
  <2>4. QED
    BY <2>2, <2>3
<1>6. QED
  BY <1>4, <1>5

LEMMA PlainInOrder ==
    ASSUME Shapes, Safety, RowsFailed, Past, Queued, Arranged, Next,
           NEW c \in Plain', NEW d \in Known', Env(c)' < Env(d)'
    PROVE  Env(c)' \in Exempt' \/ c < d
<1>1. /\ Known \subseteq Arrived /\ Arrived \subseteq Nat
      /\ \A k \in Known' : k \in Known \/ (HandleRequest /\ k = Len(arrivals) + 1)
  <2>1. Arrived \subseteq Nat
    BY DEF Arrived
  <2>2. QED
    BY <2>1, KnownSteps
<1>2. Exempt \subseteq Exempt' /\ \A k \in Arrived : Env(k)' = Env(k) /\ Env(k) \in Envelopes
  BY HistoryGrows, EnvStays, EnvIsEnvelope
<1>3. \A k \in Plain, l \in Known : Env(k) < Env(l) => Env(k) \in Exempt \/ k < l
  BY DEF Arranged
<1>4. c \in Known
  <2>1. c \in DOMAIN db'
    BY DEF Plain
  <2>2. DOMAIN db' \subseteq DOMAIN db \cup InOk \cup InFailed
    BY RowsStay, CommitShapes
  <2>3. QED
    BY <2>1, <2>2 DEF Known
<1>5. CASE HandleRequest /\ d = Len(arrivals) + 1
  BY <1>1, <1>4, <1>5, HandleRequestBatches
<1> SUFFICES ASSUME d \in Known
             PROVE  Env(c)' \in Exempt' \/ c < d
  BY <1>1, <1>5
<1>6. Env(c) < Env(d) /\ Env(c)' = Env(c)
  BY <1>1, <1>2, <1>4
<1>7. CASE c \in Plain
  BY <1>2, <1>3, <1>6, <1>7
<1>8. CASE c \notin Plain
  <2>1. Commit /\ c \in InOk
    BY <1>8, RowsStay, CommitShapes DEF Plain
  <2>2. zone = "open" /\ InEncrypted = {}
    BY <2>1, NothingLeft DEF Commit
  <2>3. CASE d \in DOMAIN db \cup RowCopies
    BY <1>2, <1>6, <2>1, <2>2, <2>3, OkFirst DEF Past
  <2>4. CASE d \in InBatches
    <3>1. c < d \/ d \in Again
      BY <2>1, <2>4 DEF Arranged
    <3>2. d \in Again => Env(c) \in Exempt
      BY <1>6, <2>1, <2>2, OkFirst DEF Again
    <3>3. QED
      BY <1>2, <1>6, <3>1, <3>2
  <2>5. CASE d \in InOk \cup InFailed
    BY <1>2, <1>6, <2>1, <2>2, <2>5 DEF Arranged
  <2>6. QED
    BY <2>2, <2>3, <2>4, <2>5 DEF Known, Pending
<1>9. QED
  BY <1>7, <1>8

LEMMA ArrangedKept ==
    ASSUME Shapes, Safety, RowsFailed, Past, Queued, Arranged, Next
    PROVE  Arranged'
<1>1. Again \subseteq Again'
  BY AgainGrows
<1>2. /\ InSequence(Batches, Again)
      /\ \A c \in InEncrypted \cup InOk, d \in InBatches : c < d \/ d \in Again
      /\ \A i, k \in Tasks : i < k =>
            encrypted[i].item.copy < encrypted[k].item.copy \/ encrypted[k].item.copy \in Again
      /\ \A c \in InOk, d \in InEncrypted : c < d \/ d \in Again
  BY DEF Arranged
<1>3. Decrypt => NextItem.copy \in InEncrypted /\ 1 \in Tasks /\ NextItem = encrypted[1].item
  <2>1. ASSUME Decrypt PROVE 1 \in Tasks /\ NextItem = encrypted[1].item
    BY <2>1, DecryptionShapes, DecryptingFacts DEF Tasks
  <2>2. QED
    BY <2>1 DEF InEncrypted
<1>4. \/ InOk' = InOk
      \/ InOk' = {}
      \/ Decrypt /\ InOk' = InOk \cup {NextItem.copy}
  BY BatchStaysOrEnds, DecryptResult DEF DecryptsOk, DecryptsBad
<1>5. /\ InSequence(Batches', Again')
      /\ \A c \in InEncrypted' \cup InOk', d \in InBatches' : c < d \/ d \in Again'
  <2>1. CASE Restart
    BY <2>1, RestartEmpties
  <2>2. CASE EnterZone
    <3>1. InSequence(Batches', Again) /\ \A c \in InEncrypted', d \in InBatches' : c < d \/ d \in Again
      BY <2>2, EnterZoneBatches
    <3>2. InOk' = {}
      <4>1. batch'.ok = <<>>
        BY <2>2, EnterZoneShapes
      <4>2. QED
        BY <4>1 DEF InOk, ToSet
    <3>3. QED
      BY <1>1, <3>1, <3>2, InSequenceWith
  <2>3. CASE ~Restart /\ ~EnterZone
    <3>1. InEncrypted' \cup InOk' \subseteq InEncrypted \cup InOk
      BY <1>3, <1>4, <2>3, InEncryptedStays
    <3>2. CASE HandleRequest
      <4>1. InSequence(Batches', Again) /\ InBatches' = InBatches \cup {Len(arrivals) + 1}
        BY <3>2, HandleRequestBatches
      <4>2. \A c \in InEncrypted \cup InOk : c < Len(arrivals) + 1
        BY <3>2, HandleRequestBatches, PlacesArrived
      <4>3. QED
        BY <1>1, <1>2, <3>1, <4>1, <4>2, InSequenceWith
    <3>3. CASE QueueCached
      <4>1. /\ InSequence(Batches', Again)
            /\ InBatches' = InBatches \/ \E d \in Again : InBatches' = InBatches \cup {d}
        BY <3>3, QueueCachedBatches
      <4>2. QED
        BY <1>1, <1>2, <3>1, <4>1, InSequenceWith
    <3>4. CASE ~HandleRequest /\ ~QueueCached
      <4>1. InBatches' = InBatches /\ InSequence(Batches', Again)
        BY <2>3, <3>4, BatchesStay
      <4>2. QED
        BY <1>1, <1>2, <3>1, <4>1, InSequenceWith
    <3>5. QED
      BY <3>2, <3>3, <3>4
  <2>4. QED
    BY <2>1, <2>2, <2>3
<1>6. \A i, k \in Tasks' : i < k =>
          \/ encrypted'[i].item.copy < encrypted'[k].item.copy
          \/ encrypted'[k].item.copy \in Again'
  <2>1. CASE Restart
    BY <2>1, RestartEmpties
  <2>2. CASE EnterZone
    BY <1>1, <2>2, EnterZoneBatches
  <2>3. CASE ~Restart /\ ~EnterZone
    <3> SUFFICES ASSUME NEW i \in Tasks', NEW k \in Tasks', i < k
                 PROVE  \/ encrypted'[i].item.copy < encrypted'[k].item.copy
                        \/ encrypted'[k].item.copy \in Again'
      OBVIOUS
    <3>1. PICK j, l \in Tasks : j < l /\ encrypted'[i] = encrypted[j] /\ encrypted'[k] = encrypted[l]
      BY <2>3, InEncryptedStays
    <3>2. QED
      BY <1>1, <1>2, <3>1
  <2>4. QED
    BY <2>1, <2>2, <2>3
<1>7. ASSUME NEW c \in InOk', NEW d \in InEncrypted'
      PROVE  c < d \/ d \in Again'
  <2>1. CASE Restart \/ EnterZone
    <3>1. Restart => InOk' = {}
      BY RestartEmpties
    <3>2. EnterZone => InOk' = {}
      <4>1. EnterZone => batch'.ok = <<>>
        BY EnterZoneShapes
      <4>2. QED
        BY <4>1 DEF InOk, ToSet
    <3>3. QED
      BY <1>7, <2>1, <3>1, <3>2
  <2>2. CASE ~Restart /\ ~EnterZone
    <3>1. d \in InEncrypted
      BY <1>7, <2>2, InEncryptedStays
    <3>2. CASE c \in InOk
      BY <1>1, <1>2, <3>1, <3>2
    <3>3. CASE Decrypt /\ c = NextItem.copy
      <4>1. /\ encrypted \in Seq(EncryptedTask(Arrived)) /\ encrypted # <<>>
            /\ encrypted' = Tail(encrypted)
        BY <3>3, DecryptResult, DecryptionShapes, DecryptingFacts
      <4>2. PICK i \in Tasks' : d = encrypted'[i].item.copy
        BY <1>7 DEF InEncrypted
      <4>3. i + 1 \in Tasks /\ encrypted'[i] = encrypted[i + 1] /\ i \in Nat \ {0}
        <5>1. encrypted' \in Seq(EncryptedTask(Arrived))
          BY <4>1, TailFacts
        <5>2. i \in Nat \ {0}
          BY <5>1 DEF Tasks
        <5>3. QED
          BY <4>1, <5>2, EncryptedShifted
      <4>4. 1 < i + 1
        BY <4>3
      <4>5. QED
        BY <1>1, <1>2, <1>3, <3>3, <4>2, <4>3, <4>4
    <3>4. QED
      BY <1>4, <1>7, <3>2, <3>3
  <2>3. QED
    BY <2>1, <2>2
<1>8. zone' = "open" => \A c \in InOk', d \in InOk' \cup InFailed' :
          Env(c)' < Env(d)' => Env(c)' \in Exempt' \/ c < d
  BY BatchInOrder
<1>9. \A c \in Plain', d \in Known' : Env(c)' < Env(d)' => Env(c)' \in Exempt' \/ c < d
  BY PlainInOrder
<1>10. QED
  BY <1>5, <1>6, <1>7, <1>8, <1>9 DEF Arranged
-------------------------------------------------------------------------------
(* What was decrypted is handed on in its turn. *)

Told == Exempt \cup Events
Held == Told \cup CachedOnes

LEMMA ArrivalsStay ==
    ASSUME Shapes, Next, ~HandleRequest
    PROVE  arrivals' = arrivals
<1>1. Quiet \/ Fetch \/ EnterZone \/ Decrypt \/ EndBatch \/ RemoveFromCache \/ Restart
        => UNCHANGED arrivals
  BY QuietSteps DEF Fetch, GetAllUnprocessedIds, GetUnprocessed, QueueCached, EnterZone,
                    Decrypt, DecryptStopped, DecryptDropsEarly, DecryptThrows, DecryptReceipt,
                    DecryptingContent, DecryptDuplicate, DecryptSucceeds, DecryptDrops,
                    DecryptRejected, DecryptFails, DecryptTimesOut, EndBatch, Commit,
                    CommitFails, CommitAnswered, RemoveFromCache, Restart, disk
<1>2. QED
  BY <1>1 DEF Next, Work, Quiet, Receive

LEMMA OkTasksAre ==
    ASSUME Shapes
    PROVE  /\ OkTasks \in Seq(DecryptedTask(Arrived)) /\ DOMAIN OkTasks = DOMAIN batch.ok
           /\ \A i \in DOMAIN OkTasks : OkTasks[i].op = "event" /\ OkTasks[i].n = batch.ok[i].copy
           /\ \A c \in InOk : Env(c) \in Tells(arrivals, OkTasks, "event")
           /\ Tells(arrivals, OkTasks, "event") \subseteq {Env(c) : c \in InOk}
<1>1. batch.ok \in Seq(ItemOf(Arrived)) /\ DOMAIN batch.ok = 1 .. Len(batch.ok) /\ Len(batch.ok) \in Nat
  BY DEF Shapes, BatchShape
<1>2. ASSUME NEW i \in DOMAIN batch.ok
      PROVE  /\ OkTasks[i] \in DecryptedTask(Arrived)
             /\ OkTasks[i].op = "event" /\ OkTasks[i].n = batch.ok[i].copy
  <2>1. batch.ok[i] \in ItemOf(Arrived)
    BY <1>1
  <2>2. batch.ok[i].copy \in Arrived
    BY <2>1 DEF ItemOf
  <2>3. OkTasks[i] = [op |-> "event", n |-> batch.ok[i].copy]
    BY DEF OkTasks, Task
  <2>4. QED
    BY <2>2, <2>3 DEF DecryptedTask
<1>3. DOMAIN OkTasks = DOMAIN batch.ok
  BY DEF OkTasks
<1>4. OkTasks \in Seq(DecryptedTask(Arrived))
  <2>1. OkTasks \in [1 .. Len(batch.ok) -> DecryptedTask(Arrived)]
    BY <1>1, <1>2 DEF OkTasks
  <2>2. QED
    BY <1>1, <2>1, FunctionIsSeq
<1>5. ASSUME NEW c \in InOk PROVE Env(c) \in Tells(arrivals, OkTasks, "event")
  <2>1. PICK i \in DOMAIN batch.ok : c = batch.ok[i].copy
    BY DEF InOk, ToSet
  <2>2. Env(c) \in Envelopes
    BY PlacesArrived, EnvIsEnvelope
  <2>3. QED
    BY <1>2, <1>3, <2>1, <2>2 DEF Tells, Env
<1>6. ASSUME NEW f \in Tells(arrivals, OkTasks, "event") PROVE f \in {Env(c) : c \in InOk}
  <2>1. PICK i \in DOMAIN OkTasks : arrivals[OkTasks[i].n] = f
    BY DEF Tells
  <2>2. batch.ok[i].copy \in InOk
    BY <1>3, <2>1 DEF InOk, ToSet
  <2>3. f = Env(batch.ok[i].copy)
    BY <1>2, <1>3, <2>1 DEF Env
  <2>4. QED
    BY <2>2, <2>3
<1>7. QED
  BY <1>2, <1>3, <1>4, <1>5, <1>6

LEMMA RowTasksAre ==
    ASSUME Shapes
    PROVE  /\ RowTasks \in Seq([op : {"cached", "item"}, n : Arrived])
           /\ DOMAIN RowTasks = DOMAIN found.rows
           /\ \A i \in DOMAIN RowTasks :
                /\ RowTasks[i].n = found.rows[i].copy
                /\ RowTasks[i].op = IF found.rows[i].plain THEN "cached" ELSE "item"
<1>1. /\ DOMAIN found.rows = 1 .. Len(found.rows) /\ Len(found.rows) \in Nat
      /\ \A i \in DOMAIN found.rows : found.rows[i].copy \in Arrived
  BY FoundRowsAre
<1>2. ASSUME NEW i \in DOMAIN found.rows
      PROVE  /\ RowTasks[i] \in [op : {"cached", "item"}, n : Arrived]
             /\ RowTasks[i].n = found.rows[i].copy
             /\ RowTasks[i].op = IF found.rows[i].plain THEN "cached" ELSE "item"
  <2>1. RowTasks[i] = [op |-> IF found.rows[i].plain THEN "cached" ELSE "item",
                       n |-> found.rows[i].copy]
    BY DEF RowTasks, Task
  <2>2. QED
    BY <1>1, <2>1
<1>3. DOMAIN RowTasks = DOMAIN found.rows
  BY DEF RowTasks
<1>4. RowTasks \in [1 .. Len(found.rows) -> [op : {"cached", "item"}, n : Arrived]]
  BY <1>1, <1>2 DEF RowTasks
<1>5. QED
  BY <1>1, <1>2, <1>3, <1>4, FunctionIsSeq

\* What a step does to decryptedQueue.
LEMMA DecryptedSteps ==
    ASSUME Shapes, Next, ~stopping, ~Restart, ~PassOn, ~CommitAnswered
    PROVE  \/ decrypted' = decrypted
           \/ /\ decrypted # <<>> /\ decrypted' = Tail(decrypted)
              /\ Head(decrypted).op = "event" => arrivals[Head(decrypted).n] \in dispatched'
           \/ \E t \in DecryptedTask(Arrived) : t.op # "event" /\ decrypted' = Append(decrypted, t)
<1>1. CASE Hand
  BY <1>1 DEF Hand, HandleDecrypted, DispatchError, WaitForDecrypted, ScheduleRetry, NextDecrypted, Env
<1>2. CASE Decrypt
  <2> PICK t : t = Task("error", NextItem.copy)
    OBVIOUS
  <2>1. NextItem.copy \in Arrived
    BY <1>2, DecryptionShapes, DecryptingFacts DEF ItemOf
  <2>2. t \in DecryptedTask(Arrived) /\ t.op # "event"
    BY <2>1 DEF Task, DecryptedTask
  <2>3. QED
    BY <1>2, <2>2, DecryptResult
<1>3. Deliver \/ SayEmpty \/ Receive \/ KickBatchOff \/ BatcherIdle \/ RetryCached \/ EnterZone
        => decrypted' = decrypted
  BY DEF Deliver, SayEmpty, Receive, HandleRequest, HandleEmpty, WaitForIncoming, KickBatchOff,
     BatcherIdle, RetryCached, EnterZone
<1>4. Fetch \/ Commit \/ CommitFails \/ Handle \/ AppSeesError \/ RemoveFromCache
        => decrypted' = decrypted
  BY DEF Fetch, GetAllUnprocessedIds, GetUnprocessed, QueueCached, Commit, CommitFails, Handle,
     EmitEmpty, AppHandles, AppThrows, AppSeesError, RemoveFromCache, pipeline
<1>5. Reconnect \/ StopProcessing => decrypted' = decrypted
  BY DEF Reconnect, StopProcessing, pipeline
<1>6. QED
  BY <1>1, <1>2, <1>3, <1>4, <1>5 DEF Next, Work, EndBatch

LEMMA EventsKept ==
    ASSUME Shapes, EventsInTurn, CachedInTurn, OkInTurn,
           Next, ~stopping, ~Restart, ~HandleRequest
    PROVE  /\ EventsInTurn' /\ Told \subseteq Told'
           /\ PassOn /\ Head(encrypted).op = "cached" => arrivals[Head(encrypted).n] \in Told'
           /\ CommitAnswered => Tells(arrivals, OkTasks, "event") \subseteq Told'
<1>1. arrivals' = arrivals /\ Exempt \subseteq Exempt'
  BY ArrivalsStay, HistoryGrows
<1>2. decrypted \in Seq(DecryptedTask(Arrived)) /\ encrypted \in Seq(EncryptedTask(Arrived))
  BY DEF Shapes, QueueShape
<1>3. /\ InTurn(arrivals, decrypted, {"event"}, "event", Exempt)
      /\ Events = Tells(arrivals, decrypted, "event")
      /\ Events' = Tells(arrivals, decrypted', "event")
      /\ EventsInTurn' <=> InTurn(arrivals, decrypted', {"event"}, "event", Exempt')
  BY <1>1 DEF EventsInTurn, Events
<1>4. CASE PassOn
  <2> PICK t : t = IF Head(encrypted).op = "empty" THEN Head(encrypted)
                                                  ELSE Task("event", Head(encrypted).n)
    OBVIOUS
  <2>1. /\ encrypted # <<>> /\ Head(encrypted).op \in {"cached", "empty"}
        /\ decrypted' = Append(decrypted, t)
    BY <1>4 DEF PassOn
  <2>2. Head(encrypted) \in EncryptedTask(Arrived)
    BY <1>2, <2>1, TailFacts
  <2>3. /\ t \in DecryptedTask(Arrived)
        /\ t.op = "event" <=> Head(encrypted).op = "cached"
        /\ t.op = "event" => t.n = Head(encrypted).n /\ t.n \in Arrived
    BY <2>1, <2>2 DEF EncryptedTask, DecryptedTask, Task
  <2>4. Head(encrypted).op = "cached" =>
            \A f \in Envelopes : f < arrivals[Head(encrypted).n] => f \in Exempt \cup Events
    <3> PICK env, done, more : env = arrivals /\ done = Exempt \cup Events /\ more = done \cup Envelopes
      OBVIOUS
    <3>1. InTurn(env, encrypted, {"cached"}, "cached", done) /\ done \subseteq more
      BY DEF CachedInTurn
    <3>2. Head(encrypted).op = "cached" /\ env[Head(encrypted).n] \in Envelopes
            => env[Head(encrypted).n] \in more
      OBVIOUS
    <3>3. Head(encrypted).op \in {"cached"} => \A f \in Envelopes : f < env[Head(encrypted).n] => f \in done
      BY <1>2, <2>1, <3>1, <3>2, TaskLeaves
    <3>4. QED
      BY <3>3
  <2>5. InTurn(arrivals, decrypted', {"event"}, "event", Exempt)
    BY <1>2, <1>3, <2>1, <2>3, <2>4, TaskJoins
  <2>6. Events \subseteq Events' /\ (t.op = "event" => arrivals[t.n] \in Events')
    <3>1. t.op = "event" => arrivals[t.n] \in Envelopes
      BY <2>3, EnvIsEnvelope DEF Env
    <3>2. QED
      BY <1>2, <1>3, <2>1, <2>3, <3>1, TellsAppended
  <2>7. ~CommitAnswered \/ Tells(arrivals, OkTasks, "event") \subseteq Told'
    <3>1. ASSUME CommitAnswered PROVE zone' # zone
      BY <3>1 DEF CommitAnswered
    <3>2. zone' = zone
      BY <1>4 DEF PassOn, batching
    <3>3. QED
      BY <3>1, <3>2
  <2>8. QED
    BY <1>1, <1>3, <2>3, <2>5, <2>6, <2>7, InTurnWith DEF Told
<1>5. CASE CommitAnswered /\ ~PassOn
  <2> PICK ok, last : ok = OkTasks /\ last = <<Task("schedule", 0)>>
    OBVIOUS
  <2>1. decrypted' = (decrypted \o ok) \o last
    BY <1>5 DEF CommitAnswered, OkTasks
  <2>2. ok \in Seq(DecryptedTask(Arrived)) /\ last \in Seq(DecryptedTask(Arrived))
    BY OkTasksAre DEF Task, DecryptedTask
  <2>3. InTurn(arrivals, ok, {"event"}, "event", Exempt \cup Tells(arrivals, decrypted, "event"))
    BY <1>3 DEF OkInTurn
  <2>4. /\ InTurn(arrivals, decrypted \o ok, {"event"}, "event", Exempt)
        /\ Tells(arrivals, decrypted, "event") \subseteq Tells(arrivals, decrypted \o ok, "event")
        /\ Tells(arrivals, ok, "event") \subseteq Tells(arrivals, decrypted \o ok, "event")
    BY <1>2, <1>3, <2>2, <2>3, TasksJoin
  <2>5. decrypted \o ok \in Seq(DecryptedTask(Arrived))
    BY <1>2, <2>2, ConcatFacts
  <2>6. \A done : InTurn(arrivals, last, {"event"}, "event", done)
    BY DEF Task, InTurn
  <2>7. /\ InTurn(arrivals, decrypted', {"event"}, "event", Exempt)
        /\ Tells(arrivals, decrypted \o ok, "event") \subseteq Tells(arrivals, decrypted', "event")
    <3> PICK q : q = decrypted \o ok
      OBVIOUS
    <3>1. /\ q \in Seq(DecryptedTask(Arrived)) /\ decrypted' = q \o last
          /\ InTurn(arrivals, q, {"event"}, "event", Exempt)
          /\ InTurn(arrivals, last, {"event"}, "event", Exempt \cup Tells(arrivals, q, "event"))
      BY <2>1, <2>4, <2>5, <2>6
    <3>2. InTurn(arrivals, q \o last, {"event"}, "event", Exempt)
          /\ Tells(arrivals, q, "event") \subseteq Tells(arrivals, q \o last, "event")
      BY <2>2, <3>1, TasksJoin
    <3>3. QED
      BY <3>1, <3>2
  <2>8. QED
    BY <1>1, <1>3, <1>5, <2>4, <2>7, InTurnWith DEF Told
<1>6. CASE ~PassOn /\ ~CommitAnswered
  <2>1. CASE decrypted' = decrypted
    BY <1>1, <1>3, <1>6, <2>1, InTurnWith DEF Told
  <2>2. CASE /\ decrypted # <<>> /\ decrypted' = Tail(decrypted)
             /\ Head(decrypted).op = "event" => arrivals[Head(decrypted).n] \in dispatched'
    <3>1. Head(decrypted).op = "event" => arrivals[Head(decrypted).n] \in Exempt'
      BY <2>2 DEF Exempt
    <3>2. /\ InTurn(arrivals, decrypted', {"event"}, "event", Exempt')
          /\ Events \subseteq Events' \cup Exempt'
      BY <1>1, <1>2, <1>3, <2>2, <3>1, TaskLeaves
    <3>3. QED
      BY <1>1, <1>3, <1>6, <3>2 DEF Told
  <2>3. CASE \E t \in DecryptedTask(Arrived) : t.op # "event" /\ decrypted' = Append(decrypted, t)
    <3>1. PICK t \in DecryptedTask(Arrived) : t.op # "event" /\ decrypted' = Append(decrypted, t)
      BY <2>3
    <3>2. InTurn(arrivals, decrypted', {"event"}, "event", Exempt)
      BY <1>2, <1>3, <3>1, TaskJoins
    <3>3. Events \subseteq Events'
      BY <1>2, <1>3, <3>1, TellsAppended
    <3>4. QED
      BY <1>1, <1>3, <1>6, <3>2, <3>3, InTurnWith DEF Told
  <2>4. QED
    BY <1>6, <2>1, <2>2, <2>3, DecryptedSteps
<1>7. QED
  BY <1>4, <1>5, <1>6


\* The row that is queued next comes after what is dispatched or on its way.
LEMMA HeadRow ==
    ASSUME Shapes, QueueCached
    PROVE  /\ RowTasks # <<>> /\ Head(RowTasks).n = Head(found.rows).copy
           /\ Head(RowTasks).op = IF Head(found.rows).plain THEN "cached" ELSE "item"
           /\ Head(found.rows).copy \in Arrived /\ arrivals[Head(found.rows).copy] \in Envelopes
<1>1. /\ found.rows # <<>> /\ found.rows \in Seq(FoundRow(Arrived))
      /\ \A k \in DOMAIN found.rows : found.rows[k].copy \in Arrived
  BY FoundRowsAre DEF QueueCached, Shapes, FoundShape
<1>2. 1 \in DOMAIN found.rows /\ Head(found.rows) = found.rows[1]
  BY <1>1, TailFacts
<1>3. 1 \in DOMAIN RowTasks /\ Head(RowTasks) = RowTasks[1] /\ RowTasks # <<>>
  <2>1. RowTasks \in Seq([op : {"cached", "item"}, n : Arrived]) /\ 1 \in DOMAIN RowTasks
    BY <1>2, RowTasksAre
  <2>2. RowTasks # <<>>
    BY <2>1
  <2>3. QED
    BY <2>1, <2>2, TailFacts
<1>4. arrivals[found.rows[1].copy] \in Envelopes
  BY <1>1, <1>2, EnvIsEnvelope DEF Env
<1>5. QED
  BY <1>1, <1>2, <1>3, <1>4, RowTasksAre

LEMMA HeadRowInTurn ==
    ASSUME Shapes, RowsInTurn, QueueCached
    PROVE  \A f \in Envelopes : f < arrivals[Head(found.rows).copy] => f \in Held
<1> PICK q, S, done, more, env :
        /\ q = RowTasks /\ S = [op : {"cached", "item"}, n : Arrived]
        /\ done = Held /\ more = Held \cup Envelopes /\ env = arrivals
  OBVIOUS
<1>1. q \in Seq(S) /\ q # <<>> /\ Head(q).op \in {"cached", "item"} /\ Head(q).n = Head(found.rows).copy
  BY RowTasksAre, HeadRow
<1>2. InTurn(env, q, {"cached", "item"}, "cached", done) /\ done \subseteq more
  BY DEF RowsInTurn, Held, Told
<1>3. Head(q).op = "cached" /\ env[Head(q).n] \in Envelopes => env[Head(q).n] \in more
  OBVIOUS
<1>4. Head(q).op \in {"cached", "item"} => \A f \in Envelopes : f < env[Head(q).n] => f \in done
  BY <1>1, <1>2, <1>3, TaskLeaves
<1>5. QED
  BY <1>1, <1>4

\* The batch that enters the zone comes after what was decrypted.
LEMMA EnterZoneKept ==
    ASSUME Shapes, CachedInTurn, ItemsInTurn, Arranged, Next, EnterZone, Told \subseteq Told',
           ~HandleRequest
    PROVE  CachedInTurn' /\ Held \subseteq Held' /\ BlockInTurn'
<1> PICK tasks : tasks = [i \in DOMAIN Head(waiting) |-> [op |-> "decrypt", item |-> Head(waiting)[i]]]
  OBVIOUS
<1>1. /\ encrypted' = encrypted \o tasks /\ zone = "free" /\ used' = used
      /\ arrivals' = arrivals
  BY DEF EnterZone, disk
<1>2. encrypted \in Seq(EncryptedTask(Arrived)) /\ tasks \in Seq(EncryptedTask(Arrived))
  <2>1. Head(waiting) \in Seq(ItemOf(Arrived))
    BY EnterZoneShapes
  <2>2. /\ DOMAIN Head(waiting) = 1 .. Len(Head(waiting)) /\ Len(Head(waiting)) \in Nat
        /\ \A i \in DOMAIN Head(waiting) : Head(waiting)[i] \in ItemOf(Arrived)
    BY <2>1
  <2>3. tasks \in [1 .. Len(Head(waiting)) -> EncryptedTask(Arrived)]
    BY <2>2 DEF EncryptedTask
  <2>4. QED
    BY <2>2, <2>3, FunctionIsSeq DEF Shapes, QueueShape
<1>3. \A done : InTurn(arrivals, tasks, {"cached"}, "cached", done)
  BY DEF InTurn
<1>4. /\ InTurn(arrivals, encrypted', {"cached"}, "cached", Told)
      /\ CachedOnes \subseteq CachedOnes'
  <2>1. InTurn(arrivals, encrypted, {"cached"}, "cached", Told)
    BY DEF CachedInTurn, Told
  <2>2. InTurn(arrivals, tasks, {"cached"}, "cached", Told \cup Tells(arrivals, encrypted, "cached"))
    BY <1>3
  <2>3. QED
    BY <1>1, <1>2, <2>1, <2>2, TasksJoin DEF CachedOnes
<1>5. CachedInTurn'
  BY <1>1, <1>4, InTurnWith DEF CachedInTurn, Told
<1>6. ASSUME NEW i \in Tasks', NEW f \in used', f < arrivals'[encrypted'[i].item.copy]
      PROVE  f \in Told' \cup Before(arrivals', encrypted', "cached", i)
  <2>1. encrypted'[i].item.copy \in InBatches /\ i \in Nat /\ i > Len(encrypted)
    <3>1. encrypted'[i].item.copy \in InEncrypted'
      BY DEF InEncrypted
    <3>2. QED
      BY <3>1, EnterZoneBatches
  <2>2. f \in Exempt \cup Coming
    BY <1>1, <1>6, <2>1 DEF ItemsInTurn, Env
  <2>3. Ready = {}
    BY <1>1 DEF Ready
  <2>4. CASE f \in Told
    BY <2>4
  <2>5. CASE f \in CachedOnes
    <3>1. PICK k \in DOMAIN encrypted : encrypted[k].op = "cached" /\ arrivals[encrypted[k].n] = f
      BY <2>5 DEF CachedOnes, Tells
    <3>2. k \in Nat /\ k < i /\ k \in DOMAIN encrypted' /\ encrypted'[k] = encrypted[k]
      <4>1. DOMAIN encrypted = 1 .. Len(encrypted) /\ Len(encrypted) \in Nat
        BY <1>2
      <4>2. k \in DOMAIN encrypted' /\ encrypted'[k] = encrypted[k]
        BY <1>1, <1>2, <4>1, ConcatFacts
      <4>3. QED
        BY <2>1, <4>1, <4>2
    <3>3. f \in Envelopes
      BY <2>5 DEF CachedOnes, Tells
    <3>4. QED
      BY <1>1, <3>1, <3>2, <3>3 DEF Before
  <2>6. QED
    BY <2>2, <2>3, <2>4, <2>5 DEF Coming, Told
<1>7. BlockInTurn'
  BY <1>6 DEF BlockInTurn, Told, Env
<1>8. QED
  BY <1>4, <1>5, <1>7 DEF Held

LEMMA CachedKept ==
    ASSUME Shapes, EventsInTurn, CachedInTurn, OkInTurn, RowsInTurn, BlockInTurn, ItemsInTurn,
           Arranged, Next, ~stopping, ~Restart, ~HandleRequest
    PROVE  /\ CachedInTurn' /\ Held \subseteq Held' /\ BlockInTurn'
           /\ QueueCached /\ Head(found.rows).plain /\ ~EnterZone
                => arrivals[Head(found.rows).copy] \in Held'
<1>1. arrivals' = arrivals /\ Told \subseteq Told'
  BY ArrivalsStay, EventsKept
<1>2. CASE EnterZone
  BY <1>1, <1>2, EnterZoneKept
<1> SUFFICES ASSUME ~EnterZone
             PROVE  /\ CachedInTurn' /\ Held \subseteq Held' /\ BlockInTurn'
                    /\ QueueCached /\ Head(found.rows).plain
                         => arrivals[Head(found.rows).copy] \in Held'
  BY <1>2
<1>3. encrypted \in Seq(EncryptedTask(Arrived)) /\ Tasks \subseteq Nat /\ DOMAIN encrypted \subseteq Nat
  BY DEF Shapes, QueueShape, Tasks
<1>4. /\ InTurn(arrivals, encrypted, {"cached"}, "cached", Told)
      /\ CachedOnes = Tells(arrivals, encrypted, "cached")
      /\ CachedOnes' = Tells(arrivals, encrypted', "cached")
      /\ CachedInTurn' <=> InTurn(arrivals, encrypted', {"cached"}, "cached", Told')
  BY <1>1 DEF CachedInTurn, CachedOnes, Told
<1>5. \A i \in Tasks, f \in used :
        f < arrivals[encrypted[i].item.copy] => f \in Told \cup Before(arrivals, encrypted, "cached", i)
  BY DEF BlockInTurn, Told, Env
<1>6. used' = used \/ Tasks' = {}
  <2>1. CASE Commit
    <3>1. Tasks = {} /\ encrypted' = encrypted
      BY <2>1, NothingLeft DEF Commit, pipeline
    <3>2. QED
      BY <3>1 DEF Tasks
  <2>2. QED
    BY <2>1, RowsStay
<1>7. ASSUME \A i \in Tasks', f \in used :
                f < arrivals[encrypted'[i].item.copy] =>
                    f \in Told' \cup Before(arrivals, encrypted', "cached", i)
      PROVE  BlockInTurn'
  BY <1>1, <1>6, <1>7 DEF BlockInTurn, Told, Env
<1>8. CASE QueueCached /\ Head(found.rows).plain
  <2> PICK t : t = Task("cached", Head(found.rows).copy)
    OBVIOUS
  <2>1. encrypted' = Append(encrypted, t)
    BY <1>8 DEF QueueCached
  <2>2. /\ t \in EncryptedTask(Arrived) /\ t.op = "cached" /\ t.n = Head(found.rows).copy
        /\ arrivals[t.n] \in Envelopes
    BY <1>8, HeadRow DEF Task, EncryptedTask
  <2>3. \A f \in Envelopes : f < arrivals[t.n] => f \in Told \cup Tells(arrivals, encrypted, "cached")
    BY <1>4, <1>8, <2>2, HeadRowInTurn DEF Held
  <2>4. InTurn(arrivals, encrypted', {"cached"}, "cached", Told)
    BY <1>3, <1>4, <2>1, <2>2, <2>3, TaskJoins
  <2>5. /\ CachedOnes \subseteq CachedOnes' /\ arrivals[t.n] \in CachedOnes'
        /\ \A n \in Nat : Before(arrivals, encrypted, "cached", n) \subseteq Before(arrivals, encrypted', "cached", n)
    BY <1>3, <1>4, <2>1, <2>2, TellsAppended
  <2>6. Tasks' = Tasks /\ \A i \in Tasks : encrypted'[i] = encrypted[i]
    BY <1>3, <2>1, <2>2, EncryptedAppended
  <2>7. BlockInTurn'
    BY <1>1, <1>3, <1>5, <1>7, <2>5, <2>6
  <2>8. QED
    BY <1>1, <1>4, <2>2, <2>4, <2>5, <2>7, InTurnWith DEF Held
<1>9. CASE ~ (QueueCached /\ Head(found.rows).plain)
  <2>1. CASE encrypted' = encrypted
    <3>1. Tasks' = Tasks
      BY <2>1 DEF Tasks
    <3>2. BlockInTurn'
      BY <1>1, <1>5, <1>7, <2>1, <3>1
    <3>3. QED
      BY <1>1, <1>4, <1>9, <2>1, <3>2, InTurnWith DEF Held
  <2>2. CASE encrypted # <<>> /\ encrypted' = Tail(encrypted) /\ (PassOn \/ Decrypt)
    <3>1. Head(encrypted).op = "cached" => arrivals[Head(encrypted).n] \in Told'
      BY <2>2, EventsKept, EncryptedSteps
    <3>2. /\ InTurn(arrivals, encrypted', {"cached"}, "cached", Told')
          /\ CachedOnes \subseteq CachedOnes' \cup Told'
          /\ \A n \in Nat : Before(arrivals, encrypted, "cached", n + 1)
                                \subseteq Before(arrivals, encrypted', "cached", n) \cup Told'
      BY <1>1, <1>3, <1>4, <2>2, <3>1, TaskLeaves
    <3>3. \A i \in Tasks' : i \in Nat /\ i + 1 \in Tasks /\ encrypted'[i] = encrypted[i + 1]
      <4>1. encrypted' \in Seq(EncryptedTask(Arrived))
        BY <1>3, <2>2, TailFacts
      <4>2. Tasks' \subseteq Nat
        BY <4>1 DEF Tasks
      <4>3. QED
        BY <1>3, <2>2, <4>2, EncryptedShifted
    <3>4. ASSUME NEW i \in Tasks', NEW f \in used, f < arrivals[encrypted'[i].item.copy]
          PROVE  f \in Told' \cup Before(arrivals, encrypted', "cached", i)
      <4>1. f \in Told \cup Before(arrivals, encrypted, "cached", i + 1)
        BY <1>5, <3>3, <3>4
      <4>2. QED
        BY <1>1, <3>2, <3>3, <4>1
    <3>5. BlockInTurn'
      BY <1>7, <3>4
    <3>6. QED
      BY <1>1, <1>4, <1>9, <3>2, <3>5 DEF Held
  <2>3. CASE \E t \in EncryptedTask(Arrived) :
                t.op \notin {"decrypt", "cached"} /\ encrypted' = Append(encrypted, t)
    <3>1. PICK t \in EncryptedTask(Arrived) :
            t.op \notin {"decrypt", "cached"} /\ encrypted' = Append(encrypted, t)
      BY <2>3
    <3>2. InTurn(arrivals, encrypted', {"cached"}, "cached", Told)
      BY <1>3, <1>4, <3>1, TaskJoins
    <3>3. /\ CachedOnes \subseteq CachedOnes'
          /\ \A n \in Nat : Before(arrivals, encrypted, "cached", n)
                                \subseteq Before(arrivals, encrypted', "cached", n)
      BY <1>3, <1>4, <3>1, TellsAppended
    <3>4. Tasks' = Tasks /\ \A i \in Tasks : encrypted'[i] = encrypted[i]
      BY <1>3, <3>1, EncryptedAppended
    <3>5. BlockInTurn'
      BY <1>1, <1>3, <1>5, <1>7, <3>3, <3>4
    <3>6. QED
      BY <1>1, <1>4, <1>9, <3>2, <3>3, <3>5, InTurnWith DEF Held
  <2>4. \/ encrypted' = encrypted
        \/ encrypted # <<>> /\ encrypted' = Tail(encrypted) /\ (PassOn \/ Decrypt)
        \/ \E t \in EncryptedTask(Arrived) :
                t.op \notin {"decrypt", "cached"} /\ encrypted' = Append(encrypted, t)
    <3>1. CASE WaitForIncoming
      <4>1. encrypted' = Append(encrypted, Task("empty", 0))
        BY <3>1 DEF WaitForIncoming
      <4>2. Task("empty", 0) \in EncryptedTask(Arrived) /\ Task("empty", 0).op \notin {"decrypt", "cached"}
        BY DEF Task, EncryptedTask
      <4>3. QED
        BY <4>1, <4>2
    <3>2. CASE QueueCached
      BY <1>9, <3>2 DEF QueueCached
    <3>3. CASE ~WaitForIncoming /\ ~QueueCached
      BY <3>3, EncryptedSteps
    <3>4. QED
      BY <3>1, <3>2, <3>3
  <2>5. QED
    BY <2>1, <2>2, <2>3, <2>4
<1>10. QED
  BY <1>8, <1>9


LEMMA ReadyKept ==
    ASSUME Shapes, Safety, RowsFailed, EventsInTurn, CachedInTurn, OkInTurn, RowsInTurn,
           BlockInTurn, ItemsInTurn, Arranged, Next, ~stopping, ~Restart, ~HandleRequest
    PROVE  /\ Exempt \cup Coming \subseteq Exempt' \cup Coming'
           /\ \A f \in used' \ used : f \in Exempt' \cup Coming'
<1>1. Held \subseteq Held' /\ Told \subseteq Told' /\ Exempt \subseteq Exempt' /\ arrivals' = arrivals
  BY EventsKept, CachedKept, HistoryGrows, ArrivalsStay
<1>2. Held' \subseteq Exempt' \cup Coming'
  BY DEF Held, Told, Coming
<1>3. ASSUME NEW f \in Ready PROVE f \in Exempt' \cup Coming'
  <2>1. zone = "saved" /\ f \in Tells(arrivals, OkTasks, "event")
    BY <1>3 DEF Ready
  <2>2. CASE CommitAnswered
    BY <1>2, <2>1, <2>2, EventsKept DEF Held
  <2>3. CASE ~CommitAnswered
    <3>1. ~EnterZone /\ ~Commit /\ ~CommitFails /\ ~Decrypt
      BY <2>1, DecryptionShapes, DecryptingFacts DEF EnterZone, Commit, CommitFails
    <3>2. zone' = zone /\ batch' = batch
      BY <2>3, <3>1, ZoneSteps, BatchSame DEF EndBatch
    <3>3. f \in Ready'
      BY <1>1, <2>1, <3>2 DEF Ready, OkTasks
    <3>4. QED
      BY <3>3 DEF Coming
  <2>4. QED
    BY <2>2, <2>3
<1>4. ASSUME NEW f \in used' \ used PROVE f \in Exempt' \cup Coming'
  <2>1. Commit /\ f \in batch.uses
    BY <1>4, RowsStay DEF Commit, Spent
  <2>2. CASE f \in Excepted
    BY <1>1, <2>2 DEF Excepted, RowsFailed, Exempt
  <2>3. CASE f \notin Excepted
    <3>1. PICK c \in InOk : Env(c) = f
      BY <2>1, <2>3 DEF Safety, UsesAreOk
    <3>2. f \in Tells(arrivals, OkTasks, "event")
      BY <3>1, OkTasksAre
    <3>3. f \in Ready'
      BY <1>1, <2>1, <3>2 DEF Commit, Ready, OkTasks
    <3>4. QED
      BY <3>3 DEF Coming
  <2>4. QED
    BY <2>2, <2>3
<1>5. Coming \subseteq Held \cup Ready
  BY DEF Held, Told, Coming
<1>6. Exempt \cup Coming \subseteq Exempt' \cup Coming'
  BY <1>1, <1>2, <1>3, <1>5
<1>7. QED
  BY <1>4, <1>6

\* A copy is decrypted after what was decrypted before is dispatched or told.
LEMMA OkKept ==
    ASSUME Shapes, Safety, RowsFailed, Queued, EventsInTurn, CachedInTurn, OkInTurn,
           BlockInTurn, Arranged, Next, ~stopping, ~Restart, ~HandleRequest
    PROVE  OkInTurn'
<1>1. arrivals' = arrivals /\ Told \subseteq Told'
  BY ArrivalsStay, EventsKept
<1>2. /\ InTurn(arrivals, OkTasks, {"event"}, "event", Told)
      /\ OkInTurn' <=> InTurn(arrivals, OkTasks', {"event"}, "event", Told')
  BY <1>1 DEF OkInTurn, Told
<1>3. CASE batch'.ok = batch.ok
  <2>1. OkTasks' = OkTasks
    BY <1>3 DEF OkTasks
  <2>2. QED
    BY <1>1, <1>2, <2>1, InTurnWith
<1>4. CASE batch'.ok = <<>>
  <2>1. DOMAIN OkTasks' = {}
    BY <1>4 DEF OkTasks
  <2>2. QED
    BY <1>2, <2>1 DEF InTurn
<1>5. CASE Decrypt /\ DecryptsOk(NextItem.copy)
  <2> PICK c, t, p, q : /\ c = NextItem.copy /\ t = Task("event", c)
                        /\ p = Append(OkTasks, t) /\ q = OkTasks'
    OBVIOUS
  <2>1. /\ NextItem \in ItemOf(Arrived) /\ c \in Arrived /\ arrivals[c] \in Envelopes
        /\ encrypted \in Seq(EncryptedTask(Arrived)) /\ 1 \in Tasks /\ encrypted[1].item.copy = c
    <3>1. NextItem \in ItemOf(Arrived)
      BY <1>5, DecryptionShapes, DecryptingFacts
    <3>2. c \in Arrived
      BY <3>1 DEF ItemOf
    <3>3. QED
      BY <1>5, <3>1, <3>2, DecryptionShapes, DecryptingFacts, EnvIsEnvelope DEF Tasks, Env
  <2>2. t \in DecryptedTask(Arrived) /\ t.op = "event" /\ t.n = c
    BY <2>1 DEF Task, DecryptedTask
  <2>3. p = q
    <3>1. /\ batch.ok \in Seq(ItemOf(Arrived)) /\ batch'.ok = Append(batch.ok, NextItem)
          /\ OkTasks \in Seq(DecryptedTask(Arrived)) /\ DOMAIN OkTasks = DOMAIN batch.ok
      BY <1>5, OkTasksAre DEF Shapes, BatchShape, DecryptsOk
    <3>2. Len(OkTasks) = Len(batch.ok) /\ Len(batch.ok) \in Nat
      BY <3>1
    <3>3. /\ DOMAIN batch'.ok = 1 .. Len(batch.ok) + 1
          /\ \A i \in 1 .. Len(batch.ok) : batch'.ok[i] = batch.ok[i]
          /\ batch'.ok[Len(batch.ok) + 1] = NextItem
      BY <2>1, <3>1, AppendFacts
    <3>4. /\ p \in Seq(DecryptedTask(Arrived)) /\ Len(p) = Len(batch.ok) + 1
          /\ \A i \in 1 .. Len(batch.ok) : p[i] = OkTasks[i]
          /\ p[Len(batch.ok) + 1] = t
      BY <2>2, <3>1, <3>2, AppendFacts
    <3>5. /\ q = [i \in 1 .. Len(batch.ok) + 1 |-> Task("event", batch'.ok[i].copy)]
          /\ \A i \in 1 .. Len(batch.ok) : OkTasks[i] = Task("event", batch.ok[i].copy)
      BY <3>1, <3>2, <3>3 DEF OkTasks
    <3>6. \A i \in 1 .. Len(batch.ok) + 1 : q[i] = p[i]
      <4>1. ASSUME NEW i \in 1 .. Len(batch.ok) PROVE q[i] = p[i]
        <5>1. i \in 1 .. Len(batch.ok) + 1
          BY <3>2
        <5>2. QED
          BY <3>3, <3>4, <3>5, <5>1
      <4>2. q[Len(batch.ok) + 1] = p[Len(batch.ok) + 1]
        <5>1. Len(batch.ok) + 1 \in 1 .. Len(batch.ok) + 1
          BY <3>2
        <5>2. QED
          BY <3>3, <3>4, <3>5, <5>1
      <4>3. QED
        BY <3>2, <4>1, <4>2
    <3>7. p = [i \in 1 .. Len(batch.ok) + 1 |-> p[i]]
      BY <3>2, <3>4
    <3>8. QED
      BY <3>5, <3>6, <3>7
  <2>4. \A f \in Envelopes : f < arrivals[c] => f \in Told \cup Tells(arrivals, OkTasks, "event")
    <3> SUFFICES ASSUME NEW f \in Envelopes, f < arrivals[c]
                 PROVE  f \in Told \cup Tells(arrivals, OkTasks, "event")
      OBVIOUS
    <3>1. f \in Spent \cup Exempt
      BY <1>5, HeadCleared DEF Env
    <3>2. CASE f \in used
      <4>1. f \in Told \cup Before(arrivals, encrypted, "cached", 1)
        BY <2>1, <3>2 DEF BlockInTurn, Env, Told
      <4>2. \A i \in DOMAIN encrypted : ~(i < 1)
        BY <2>1
      <4>3. Before(arrivals, encrypted, "cached", 1) = {}
        BY <4>2 DEF Before
      <4>4. QED
        BY <4>1, <4>3
    <3>3. CASE f \in Excepted \cup Exempt
      BY <3>3 DEF Excepted, RowsFailed, Exempt, Told
    <3>4. CASE f \in batch.uses \ Excepted
      <4>1. PICK k \in InOk : Env(k) = f
        BY <3>4 DEF Safety, UsesAreOk
      <4>2. QED
        BY <4>1, OkTasksAre
    <3>5. QED
      BY <3>1, <3>2, <3>3, <3>4 DEF Spent
  <2>5. InTurn(arrivals, p, {"event"}, "event", Told)
    <3>1. OkTasks \in Seq(DecryptedTask(Arrived))
      BY OkTasksAre
    <3>2. QED
      BY <1>2, <2>2, <2>4, <3>1, TaskJoins
  <2>6. QED
    BY <1>1, <1>2, <2>3, <2>5, InTurnWith
<1>6. Decrypt => batch'.ok = batch.ok \/ DecryptsOk(NextItem.copy)
  BY DecryptResult DEF DecryptsBad
<1>7. EnterZone \/ CommitFails \/ CommitAnswered => batch'.ok = <<>>
  BY EnterZoneShapes, NoBatchEmpty DEF NoBatch
<1>8. QED
  BY <1>3, <1>4, <1>5, <1>6, <1>7, BatchSame
-------------------------------------------------------------------------------
(* What was fetched is queued in its turn. *)

LEMMA FoundStays ==
    ASSUME Next, ~GetAllUnprocessedIds, ~GetUnprocessed, ~QueueCached, ~Restart
    PROVE  found' = found
<1>1. Quiet \/ Decrypt => found' = found
  BY QuietSteps DEF Decrypt, DecryptStopped, DecryptDropsEarly, DecryptThrows, DecryptReceipt,
                    DecryptingContent, DecryptDuplicate, DecryptSucceeds, DecryptDrops,
                    DecryptRejected, DecryptFails, DecryptTimesOut
<1>2. HandleRequest \/ EnterZone \/ EndBatch \/ RemoveFromCache => found' = found
  BY DEF HandleRequest, EnterZone, EndBatch, Commit, CommitFails, CommitAnswered, RemoveFromCache,
     pipeline
<1>3. QED
  BY <1>1, <1>2 DEF Next, Work, Quiet, Receive, Fetch

LEMMA ExceptedIsExempt ==
    ASSUME RowsFailed
    PROVE  Excepted \subseteq Exempt
BY DEF Excepted, RowsFailed, Exempt

\* A row that was queued is no longer to be.
LEMMA RowTasksShifted ==
    ASSUME Shapes, QueueCached
    PROVE  RowTasks' = Tail(RowTasks) /\ found'.rows = Tail(found.rows)
<1> PICK rows, p, q : rows = found.rows /\ p = Tail(RowTasks) /\ q = RowTasks'
  OBVIOUS
<1>1. found'.rows = Tail(rows)
  BY FetchDoneRows DEF QueueCached
<1>2. rows \in Seq(FoundRow(Arrived)) /\ rows # <<>>
  BY DEF QueueCached, Shapes, FoundShape
<1>3. /\ Len(rows) \in Nat /\ Len(rows) >= 1 /\ DOMAIN rows = 1 .. Len(rows)
      /\ DOMAIN Tail(rows) = 1 .. Len(rows) - 1
      /\ \A i \in 1 .. Len(rows) - 1 : Tail(rows)[i] = rows[i + 1] /\ i + 1 \in 1 .. Len(rows)
  BY <1>2, TailFacts
<1> DEFINE RowTask(row) == Task(IF row.plain THEN "cached" ELSE "item", row.copy)
<1>4. RowTasks \in Seq([op : {"cached", "item"}, n : Arrived]) /\ DOMAIN RowTasks = 1 .. Len(rows)
      /\ \A i \in 1 .. Len(rows) : RowTasks[i] = RowTask(rows[i])
  BY <1>3, RowTasksAre DEF RowTasks
<1>5. q = [i \in 1 .. Len(rows) - 1 |-> RowTask(Tail(rows)[i])]
  BY <1>1, <1>3 DEF RowTasks
<1> HIDE DEF RowTask
<1>6. RowTasks # <<>> /\ Len(RowTasks) = Len(rows)
  <2>1. 1 \in DOMAIN RowTasks
    BY <1>3, <1>4
  <2>2. QED
    BY <1>3, <1>4, <2>1
<1>7. /\ p \in Seq([op : {"cached", "item"}, n : Arrived]) /\ DOMAIN p = 1 .. Len(rows) - 1
      /\ Len(p) = Len(rows) - 1
      /\ \A i \in 1 .. Len(rows) - 1 : p[i] = RowTasks[i + 1]
  BY <1>4, <1>6, TailFacts
<1>8. \A i \in 1 .. Len(rows) - 1 : p[i] = q[i]
  BY <1>3, <1>4, <1>5, <1>7
<1>9. p = q
  <2> PICK S, n : S = [op : {"cached", "item"}, n : Arrived] /\ n = Len(rows) - 1
    OBVIOUS
  <2>1. p \in Seq(S) /\ Len(p) = n /\ n \in Nat
    BY <1>3, <1>7
  <2>2. q \in Seq(S) /\ Len(q) = n
    <3>1. \A i \in 1 .. n : p[i] \in S
      BY <2>1, ElementOfSeq
    <3>2. \A i \in 1 .. n : q[i] \in S
      BY <1>8, <3>1
    <3>3. q \in [1 .. n -> S]
      BY <1>5, <3>2
    <3>4. q \in Seq(S)
      BY <2>1, <3>3, FunctionIsSeq
    <3>5. QED
      BY <2>1, <3>3, <3>4
  <2>3. QED
    BY <1>8, <2>1, <2>2, SeqEqual
<1>10. QED
  BY <1>1, <1>9

LEMMA RowsKept ==
    ASSUME Shapes, Safety, RowsFailed, Past, Arranged, OnTheWay, EventsInTurn, CachedInTurn,
           OkInTurn, RowsInTurn, BlockInTurn, ItemsInTurn,
           Next, ~stopping, ~Restart, ~HandleRequest
    PROVE  RowsInTurn'
<1> PICK kinds : kinds = {"cached", "item"}
  OBVIOUS
<1>1. arrivals' = arrivals /\ Held \subseteq Held' /\ Exempt \subseteq Exempt'
  BY ArrivalsStay, CachedKept, HistoryGrows
<1>2. /\ InTurn(arrivals, RowTasks, kinds, "cached", Held)
      /\ RowsInTurn' <=> InTurn(arrivals, RowTasks', kinds, "cached", Held')
  BY <1>1 DEF RowsInTurn, Held, Told
<1>3. CASE found' = found
  <2>1. RowTasks' = RowTasks
    BY <1>3 DEF RowTasks
  <2>2. QED
    BY <1>1, <1>2, <2>1, InTurnWith
<1>4. CASE GetAllUnprocessedIds
  <2>1. found'.rows = <<>>
    BY <1>4 DEF GetAllUnprocessedIds, NothingFound
  <2>2. DOMAIN RowTasks' = {}
    BY <2>1 DEF RowTasks
  <2>3. QED
    BY <1>2, <2>2 DEF InTurn
<1>5. CASE QueueCached
  <2> PICK q, S, done, more, env :
        /\ q = RowTasks /\ S = [op : {"cached", "item"}, n : Arrived]
        /\ done = Held /\ more = Held' /\ env = arrivals
    OBVIOUS
  <2>1. q \in Seq(S) /\ q # <<>> /\ RowTasks' = Tail(q)
    BY <1>5, RowTasksAre, HeadRow, RowTasksShifted
  <2>2. InTurn(env, q, kinds, "cached", done) /\ done \subseteq more
    BY <1>1, <1>2
  <2>3. Head(q).op = "cached" /\ env[Head(q).n] \in Envelopes => env[Head(q).n] \in more
    <3>1. ~EnterZone
      BY <1>5 DEF QueueCached, EnterZone, batching
    <3>2. Head(found.rows).plain => env[Head(found.rows).copy] \in more
      BY <1>5, <3>1, CachedKept
    <3>3. QED
      BY <1>5, <3>2, HeadRow
  <2>4. InTurn(env, Tail(q), kinds, "cached", more)
    BY <2>1, <2>2, <2>3, TaskLeaves
  <2>5. QED
    BY <1>2, <2>1, <2>4
<1>6. CASE GetUnprocessed
  <2> PICK rows, q : rows = found'.rows /\ q = RowTasks'
    OBVIOUS
  <2>1. /\ \A i \in DOMAIN rows :
            rows[i].copy \in found.ids \cap DOMAIN db /\ rows[i].plain = db[rows[i].copy].plain
        /\ \A c \in found.ids \cap DOMAIN db : \E i \in DOMAIN rows : rows[i].copy = c
        /\ \A i, k \in DOMAIN rows : i < k => rows[i].copy < rows[k].copy
    BY <1>6, GetUnprocessedFinds
  <2>2. /\ DOMAIN q = DOMAIN rows
        /\ \A i \in DOMAIN rows : /\ q[i].n = rows[i].copy
                                  /\ q[i].op = IF rows[i].plain THEN "cached" ELSE "item"
    BY DEF RowTasks, Task
  <2>3. DOMAIN db \subseteq Arrived /\ Arrived \subseteq Nat /\ DOMAIN rows \subseteq Nat
    <3>1. Shapes'
      BY <1>6, GetUnprocessedShapes
    <3>2. rows \in Seq(FoundRow(Arrived'))
      BY <3>1 DEF Shapes, FoundShape, Arrived
    <3>3. QED
      BY <3>2 DEF Shapes, DiskShape, Arrived
  <2> SUFFICES ASSUME NEW i \in DOMAIN q, NEW f \in Envelopes, f < arrivals[q[i].n]
               PROVE  f \in Held' \/ f \in Before(arrivals, q, "cached", i)
    BY <1>2 DEF InTurn
  <2> PICK c : c = rows[i].copy
    OBVIOUS
  <2>4. c \in DOMAIN db /\ c \in Arrived /\ c \in Nat /\ q[i].n = c /\ f < Env(c)
    BY <2>1, <2>2, <2>3 DEF Env
  <2>5. f \in used \cup Exempt
    BY <2>4 DEF Past, Cleared
  <2>6. CASE f \in Exempt
    BY <1>1, <2>6 DEF Held, Told
  <2>7. CASE f \in used \ Exempt
    <3>1. zone = "free" /\ found.phase = "ids"
      BY <1>6 DEF GetUnprocessed
    <3>2. f \in Coming \/ \A d \in Plain : Env(d) = f => d \in found.ids
      BY <2>7, <3>1 DEF OnTheWay
    <3>3. CASE f \in Coming
      BY <1>1, <3>1, <3>3 DEF Coming, Ready, Held, Told
    <3>4. CASE \A d \in Plain : Env(d) = f => d \in found.ids
      <4>1. PICK d \in Plain : Env(d) = f
        BY <2>7, ExceptedIsExempt DEF Safety, SpentIsPlain, Decrypted
      <4>2. d \in found.ids \cap DOMAIN db /\ db[d].plain /\ d \in Nat
        BY <2>3, <3>4, <4>1 DEF Plain
      <4>3. PICK k \in DOMAIN rows : rows[k].copy = d
        BY <2>1, <4>2
      <4>4. d < c
        <5>1. c \in Known
          BY <2>4 DEF Known
        <5>2. Env(d) \in Exempt \/ d < c
          BY <2>4, <4>1, <5>1 DEF Arranged
        <5>3. QED
          BY <2>7, <4>1, <5>2
      <4>5. k < i
        <5>1. k \in Nat /\ i \in Nat /\ i \in DOMAIN rows
          BY <2>2, <2>3
        <5>2. ~(i < k) /\ i # k
          BY <2>1, <2>4, <4>2, <4>3, <4>4, <5>1
        <5>3. QED
          BY <5>1, <5>2
      <4>6. k \in DOMAIN q /\ q[k].op = "cached" /\ arrivals[q[k].n] = f
        BY <2>1, <2>2, <4>1, <4>2, <4>3 DEF Env
      <4>7. QED
        BY <4>5, <4>6 DEF Before
    <3>5. QED
      BY <3>2, <3>3, <3>4
  <2>8. QED
    BY <2>5, <2>6, <2>7
<1>7. QED
  BY <1>3, <1>4, <1>5, <1>6, FoundStays

LEMMA ItemsKept ==
    ASSUME Shapes, Safety, RowsFailed, Past, Arranged, EventsInTurn, CachedInTurn,
           OkInTurn, RowsInTurn, BlockInTurn, ItemsInTurn,
           Next, ~stopping, ~Restart, ~HandleRequest
    PROVE  ItemsInTurn'
<1>1. arrivals' = arrivals /\ Held \subseteq Held' /\ Held' \subseteq Exempt' \cup Coming'
  BY ArrivalsStay, CachedKept DEF Held, Told, Coming
<1>2. /\ Exempt \cup Coming \subseteq Exempt' \cup Coming'
      /\ \A f \in used' \ used : f \in Exempt' \cup Coming'
  BY ReadyKept
<1>3. \A c \in InBatches' : c \in InBatches \/ (QueueCached /\ c = Head(found.rows).copy)
  <2>1. CASE EnterZone
    BY <2>1, EnterZoneBatches
  <2>2. CASE QueueCached
    BY <2>2, QueueCachedBatches
  <2>3. CASE ~EnterZone /\ ~QueueCached
    BY <2>3, BatchesStay
  <2>4. QED
    BY <2>1, <2>2, <2>3
<1> SUFFICES ASSUME NEW c \in InBatches', NEW f \in used', f < arrivals[c]
             PROVE  f \in Exempt' \cup Coming'
  BY <1>1 DEF ItemsInTurn, Env
<1>4. CASE f \notin used
  BY <1>2, <1>4
<1>5. CASE f \in used /\ c \in InBatches
  BY <1>2, <1>5 DEF ItemsInTurn, Env
<1>6. CASE f \in used /\ QueueCached /\ c = Head(found.rows).copy
  <2>1. f \in Envelopes
    BY <1>6 DEF Shapes, DiskShape
  <2>2. f \in Held
    BY <1>6, <2>1, HeadRowInTurn
  <2>3. QED
    BY <1>1, <2>2
<1>7. QED
  BY <1>3, <1>4, <1>5, <1>6
-------------------------------------------------------------------------------
(* What was decrypted stays on its way. *)

\* A fetch that is the first task of incomingQueue stays it until it fetched the ids.
LEMMA IncomingHead ==
    ASSUME Shapes, Next, ~Restart, ~HandleRequest, ~GetAllUnprocessedIds,
           found.phase = "idle", incoming # <<>>, Head(incoming).op = "fetch"
    PROVE  incoming' # <<>> /\ Head(incoming').op = "fetch" /\ found' = found
<1>1. ~GetUnprocessed /\ ~QueueCached /\ ~HandleEmpty /\ ~WaitForIncoming
  BY DEF GetUnprocessed, QueueCached, HandleEmpty, WaitForIncoming
<1>2. found' = found
  BY <1>1, FoundStays
<1>3. incoming \in Seq(IncomingTask)
  BY DEF Shapes, IncomingShape
<1>4. CASE Deliver \/ SayEmpty \/ BatcherIdle \/ RetryCached \/ Reconnect
  <2>1. \E t : incoming' = Append(incoming, t)
    BY <1>4 DEF Deliver, SayEmpty, BatcherIdle, RetryCached, Reconnect
  <2>2. QED
    BY <1>2, <1>3, <2>1
<1>5. KickBatchOff \/ EnterZone \/ Decrypt \/ PassOn => incoming' = incoming
  BY DecryptResult DEF KickBatchOff, EnterZone, PassOn
<1>6. EndBatch \/ Hand \/ Handle \/ AppSeesError \/ RemoveFromCache \/ StopProcessing
        => incoming' = incoming
  BY DEF EndBatch, Commit, CommitFails, CommitAnswered, Hand, HandleDecrypted, DispatchError,
     WaitForDecrypted, ScheduleRetry, Handle, EmitEmpty, AppHandles, AppThrows, AppSeesError,
     RemoveFromCache, StopProcessing, pipeline
<1>7. QED
  BY <1>1, <1>2, <1>4, <1>5, <1>6 DEF Next, Work, Receive, Fetch

LEMMA OnTheWayKept ==
    ASSUME Shapes, Safety, RowsFailed, Past, Arranged, OnTheWay, EventsInTurn, CachedInTurn,
           OkInTurn, RowsInTurn, BlockInTurn, ItemsInTurn,
           Next, ~stopping, ~Restart, ~HandleRequest
    PROVE  OnTheWay'
<1>1. arrivals' = arrivals /\ Held \subseteq Held' /\ Held' \subseteq Exempt' \cup Coming'
      /\ Exempt \subseteq Exempt'
  BY ArrivalsStay, CachedKept, HistoryGrows DEF Held, Told, Coming
<1>2. /\ Exempt \cup Coming \subseteq Exempt' \cup Coming'
      /\ \A f \in used' \ used : f \in Exempt' \cup Coming'
  BY ReadyKept
<1> DEFINE Way(f) ==
        \/ found'.phase = "idle" /\ incoming' # <<>> /\ Head(incoming').op = "fetch"
        \/ found'.phase = "ids" /\ \A c \in Plain' : arrivals[c] = f => c \in found'.ids
        \/ found'.phase = "rows" /\ f \in Tells(arrivals, RowTasks', "cached")
<1> SUFFICES ASSUME NEW f \in used' \ Exempt', f \notin Coming'
             PROVE  Way(f)
  BY <1>1 DEF OnTheWay, Env
<1>3. f \in used /\ f \notin Exempt /\ f \notin Coming /\ f \in Envelopes
  BY <1>1, <1>2 DEF Shapes, DiskShape
<1>4. /\ DOMAIN db \subseteq Arrived
      /\ ~Commit => Plain' \subseteq Plain
      /\ Commit => Plain' \subseteq Plain \cup InOk
  BY RowsStay, CommitShapes DEF Plain, Shapes, DiskShape
<1>5. CASE found.phase = "idle" /\ incoming # <<>> /\ Head(incoming).op = "fetch"
  <2>1. CASE GetAllUnprocessedIds
    <3>1. found'.phase = "ids" /\ found'.ids = DOMAIN db'
      BY <2>1 DEF GetAllUnprocessedIds, NothingFound
    <3>2. QED
      BY <3>1 DEF Plain
  <2>2. CASE ~GetAllUnprocessedIds
    BY <1>5, <2>2, IncomingHead
  <2>3. QED
    BY <2>1, <2>2
<1>6. CASE found.phase = "ids" /\ \A c \in Plain : Env(c) = f => c \in found.ids
  <2>1. CASE GetUnprocessed
    <3> PICK rows, q : rows = found'.rows /\ q = RowTasks'
      OBVIOUS
    <3>1. PICK d \in Plain : Env(d) = f
      BY <1>3, ExceptedIsExempt DEF Safety, SpentIsPlain, Decrypted
    <3>2. d \in found.ids \cap DOMAIN db /\ db[d].plain
      BY <1>6, <3>1 DEF Plain
    <3>3. PICK k \in DOMAIN rows : rows[k].copy = d /\ rows[k].plain
      BY <2>1, <3>2, GetUnprocessedFinds
    <3>4. DOMAIN q = DOMAIN rows /\ q[k].n = d /\ q[k].op = "cached"
      BY <3>3 DEF RowTasks, Task
    <3>5. f \in Tells(arrivals, q, "cached")
      BY <1>3, <3>1, <3>4 DEF Tells, Env
    <3>6. found'.phase = "rows"
      <4>1. FetchDone(rows)
        BY <2>1, GetUnprocessedFinds
      <4>2. rows # <<>>
        BY <3>3
      <4>3. QED
        BY <4>1, <4>2 DEF FetchDone
    <3>7. QED
      BY <3>5, <3>6
  <2>2. CASE ~GetUnprocessed
    <3>1. found' = found
      BY <1>6, <2>2, FoundStays DEF GetAllUnprocessedIds, QueueCached
    <3>2. ASSUME NEW c \in Plain', arrivals[c] = f PROVE c \in Plain
      <4>1. CASE Commit /\ c \in InOk
        BY <1>3, <3>2, <4>1, OkIsNew DEF Commit, Env
      <4>2. QED
        BY <1>4, <4>1
    <3>3. QED
      BY <1>6, <3>1, <3>2 DEF Env
  <2>3. QED
    BY <2>1, <2>2
<1>7. CASE found.phase = "rows" /\ f \in Tells(arrivals, RowTasks, "cached")
  <2>1. CASE QueueCached
    <3> PICK q, S, kinds, done, more, env :
          /\ q = RowTasks /\ S = [op : {"cached", "item"}, n : Arrived] /\ kinds = {"cached", "item"}
          /\ done = Held /\ more = Held' /\ env = arrivals
      OBVIOUS
    <3>1. q \in Seq(S) /\ q # <<>> /\ RowTasks' = Tail(q) /\ found'.rows = Tail(found.rows)
      BY <2>1, RowTasksAre, HeadRow, RowTasksShifted
    <3>2. InTurn(env, q, kinds, "cached", done) /\ done \subseteq more
      BY <1>1 DEF RowsInTurn, Held, Told
    <3>3. Head(q).op = "cached" /\ env[Head(q).n] \in Envelopes => env[Head(q).n] \in more
      <4>1. ~EnterZone
        BY <2>1 DEF QueueCached, EnterZone, batching
      <4>2. Head(found.rows).plain => env[Head(found.rows).copy] \in more
        BY <2>1, <4>1, CachedKept
      <4>3. QED
        BY <2>1, <4>2, HeadRow
    <3>4. Tells(env, q, "cached") \subseteq Tells(env, Tail(q), "cached") \cup more
      BY <3>1, <3>2, <3>3, TaskLeaves
    <3>5. f \in Tells(arrivals, RowTasks', "cached")
      BY <1>1, <1>7, <3>1, <3>4
    <3>6. found'.rows # <<>>
      <4>1. DOMAIN RowTasks' # {}
        BY <3>5 DEF Tells
      <4>2. QED
        BY <4>1 DEF RowTasks
    <3>7. found'.phase = "rows"
      BY <2>1, <3>1, <3>6, FetchDoneRows DEF QueueCached
    <3>8. QED
      BY <3>5, <3>7
  <2>2. CASE ~QueueCached
    <3>1. found' = found
      BY <1>7, <2>2, FoundStays DEF GetAllUnprocessedIds, GetUnprocessed
    <3>2. RowTasks' = RowTasks
      BY <3>1 DEF RowTasks
    <3>3. QED
      BY <1>7, <3>1, <3>2
  <2>3. QED
    BY <2>1, <2>2
<1>8. QED
  BY <1>3, <1>5, <1>6, <1>7 DEF OnTheWay
-------------------------------------------------------------------------------
(* A new copy leaves the queues alone. *)

LEMMA SameEnvelopes ==
    ASSUME NEW env, NEW other, NEW q, NEW kinds, NEW op, NEW done,
           \A i \in DOMAIN q : q[i].op \in kinds \cup {op} => other[q[i].n] = env[q[i].n]
    PROVE  /\ Tells(other, q, op) = Tells(env, q, op)
           /\ \A n : Before(other, q, op, n) = Before(env, q, op, n)
           /\ InTurn(env, q, kinds, op, done) => InTurn(other, q, kinds, op, done)
<1>1. Tells(other, q, op) = Tells(env, q, op)
  BY DEF Tells
<1>2. \A n : Before(other, q, op, n) = Before(env, q, op, n)
  BY DEF Before
<1>3. ASSUME InTurn(env, q, kinds, op, done) PROVE InTurn(other, q, kinds, op, done)
  BY <1>2, <1>3 DEF InTurn
<1>4. QED
  BY <1>1, <1>2, <1>3

LEMMA HandleRequestLine ==
    ASSUME Shapes, Arranged, OnTheWay, EventsInTurn, CachedInTurn, OkInTurn, RowsInTurn,
           BlockInTurn, ItemsInTurn, HandleRequest
    PROVE  /\ OnTheWay' /\ EventsInTurn' /\ CachedInTurn' /\ OkInTurn' /\ RowsInTurn'
           /\ BlockInTurn' /\ ItemsInTurn'
<1> PICK env, other : env = arrivals /\ other = arrivals'
  OBVIOUS
<1>1. \A c \in Arrived : other[c] = env[c]
  BY HandleRequestShapes DEF Env
<1>2. /\ UNCHANGED <<found, batch, zone, encrypted, decrypted, used>>
      /\ Exempt' = Exempt
  BY DEF HandleRequest, batching, history, Exempt
<1>3. OkTasks' = OkTasks /\ RowTasks' = RowTasks /\ Tasks' = Tasks
  BY <1>2 DEF OkTasks, RowTasks, Tasks
<1>4. \A i \in DOMAIN decrypted : decrypted[i].op = "event" => other[decrypted[i].n] = env[decrypted[i].n]
  <2>1. \A i \in DOMAIN decrypted : decrypted[i] \in DecryptedTask(Arrived)
    BY DEF Shapes, QueueShape
  <2>2. \A t \in DecryptedTask(Arrived) : t.op = "event" => t.n \in Arrived
    BY DEF DecryptedTask
  <2>3. QED
    BY <1>1, <2>1, <2>2
<1>5. /\ \A i \in DOMAIN encrypted :
            encrypted[i].op = "cached" => other[encrypted[i].n] = env[encrypted[i].n]
      /\ \A i \in Tasks : other[encrypted[i].item.copy] = env[encrypted[i].item.copy]
  <2>1. \A i \in DOMAIN encrypted : encrypted[i] \in EncryptedTask(Arrived)
    BY DEF Shapes, QueueShape
  <2>2. \A t \in EncryptedTask(Arrived) : /\ t.op = "cached" => t.n \in Arrived
                                          /\ t.op = "decrypt" => t.item.copy \in Arrived
    BY DEF EncryptedTask, ItemOf
  <2>3. QED
    BY <1>1, <2>1, <2>2 DEF Tasks
<1>6. \A i \in DOMAIN OkTasks : other[OkTasks[i].n] = env[OkTasks[i].n]
  <2>1. \A i \in DOMAIN OkTasks : OkTasks[i].n = batch.ok[i].copy /\ batch.ok[i].copy \in InOk
    BY OkTasksAre DEF InOk, ToSet
  <2>2. QED
    BY <1>1, <2>1, PlacesArrived
<1>7. \A i \in DOMAIN RowTasks : other[RowTasks[i].n] = env[RowTasks[i].n]
  BY <1>1, RowTasksAre, FoundRowsAre
<1>8. /\ Tells(other, decrypted, "event") = Tells(env, decrypted, "event")
      /\ InTurn(env, decrypted, {"event"}, "event", Exempt)
            => InTurn(other, decrypted, {"event"}, "event", Exempt)
  BY <1>4, SameEnvelopes
<1>9. Events' = Events
  BY <1>2, <1>8 DEF Events
<1>10. EventsInTurn'
  BY <1>2, <1>8 DEF EventsInTurn
<1>11. /\ Tells(other, encrypted, "cached") = Tells(env, encrypted, "cached")
       /\ \A n : Before(other, encrypted, "cached", n) = Before(env, encrypted, "cached", n)
       /\ \A done : InTurn(env, encrypted, {"cached"}, "cached", done)
                => InTurn(other, encrypted, {"cached"}, "cached", done)
  <2>1. \A i \in DOMAIN encrypted :
            encrypted[i].op \in {"cached"} \cup {"cached"} => other[encrypted[i].n] = env[encrypted[i].n]
    BY <1>5
  <2>2. ASSUME NEW done, InTurn(env, encrypted, {"cached"}, "cached", done)
        PROVE  InTurn(other, encrypted, {"cached"}, "cached", done)
    BY <2>1, <2>2, SameEnvelopes
  <2>3. /\ Tells(other, encrypted, "cached") = Tells(env, encrypted, "cached")
        /\ \A n : Before(other, encrypted, "cached", n) = Before(env, encrypted, "cached", n)
        /\ InTurn(env, encrypted, {"cached"}, "cached", {})
            => InTurn(other, encrypted, {"cached"}, "cached", {})
    BY <2>1, SameEnvelopes
  <2>4. QED
    BY <2>2, <2>3
<1>12. CachedOnes' = CachedOnes
  BY <1>2, <1>11 DEF CachedOnes
<1>13. CachedInTurn'
  BY <1>2, <1>9, <1>11 DEF CachedInTurn
<1>14. BlockInTurn'
  BY <1>2, <1>3, <1>5, <1>9, <1>11 DEF BlockInTurn, Env
<1>15. /\ Tells(other, OkTasks, "event") = Tells(env, OkTasks, "event")
       /\ \A done : InTurn(env, OkTasks, {"event"}, "event", done)
                => InTurn(other, OkTasks, {"event"}, "event", done)
  <2>1. ASSUME NEW done, InTurn(env, OkTasks, {"event"}, "event", done)
        PROVE  InTurn(other, OkTasks, {"event"}, "event", done)
    BY <1>6, <2>1, SameEnvelopes
  <2>2. /\ Tells(other, OkTasks, "event") = Tells(env, OkTasks, "event")
        /\ InTurn(env, OkTasks, {"event"}, "event", {})
            => InTurn(other, OkTasks, {"event"}, "event", {})
    BY <1>6, SameEnvelopes
  <2>3. QED
    BY <2>1, <2>2
<1>16. OkInTurn'
  BY <1>2, <1>3, <1>9, <1>15 DEF OkInTurn
<1>17. Coming' = Coming
  BY <1>2, <1>3, <1>9, <1>12, <1>15 DEF Coming, Ready
<1>18. \A done : InTurn(env, RowTasks, {"cached", "item"}, "cached", done)
                => InTurn(other, RowTasks, {"cached", "item"}, "cached", done)
  BY <1>7, SameEnvelopes
<1>19. RowsInTurn'
  BY <1>2, <1>3, <1>9, <1>12, <1>18 DEF RowsInTurn
<1>20. \A f \in used \ Exempt : f \in Coming
  <2>1. Head(incoming).op = "request" /\ incoming # <<>>
    BY DEF HandleRequest
  <2>2. found.phase = "idle" /\ Head(incoming).op # "fetch"
    BY <2>1 DEF Shapes, IncomingShape
  <2>3. QED
    BY <2>2 DEF OnTheWay
<1>21. OnTheWay'
  BY <1>2, <1>17, <1>20 DEF OnTheWay
<1>22. ItemsInTurn'
  BY <1>2, <1>17, <1>20 DEF ItemsInTurn
<1>23. QED
  BY <1>10, <1>13, <1>14, <1>16, <1>19, <1>21, <1>22
-------------------------------------------------------------------------------
(* The order *)

LEMMA StoppingStays ==
    ASSUME Next, stopping, ~Restart
    PROVE  stopping'
<1>1. Receive \/ Fetch \/ KickBatchOff \/ BatcherIdle \/ RetryCached \/ EnterZone => stopping' = stopping
  BY DEF Receive, HandleRequest, HandleEmpty, WaitForIncoming, Fetch, GetAllUnprocessedIds,
     GetUnprocessed, QueueCached, KickBatchOff, BatcherIdle, RetryCached, EnterZone, flags
<1>2. Decrypt \/ EndBatch \/ PassOn \/ Hand => stopping' = stopping
  BY DEF Decrypt, DecryptStopped, DecryptDropsEarly, DecryptThrows, DecryptReceipt,
         DecryptingContent, DecryptDuplicate, DecryptSucceeds, DecryptDrops, DecryptRejected,
         DecryptFails, DecryptTimesOut, EndBatch, Commit, CommitFails, CommitAnswered, PassOn,
         Hand, HandleDecrypted, DispatchError, WaitForDecrypted, ScheduleRetry, flags
<1>3. Handle \/ AppSeesError \/ RemoveFromCache => stopping' = stopping
  BY DEF Handle, EmitEmpty, AppHandles, AppThrows, AppSeesError, RemoveFromCache, flags
<1>4. QED
  BY <1>1, <1>2, <1>3 DEF Next, Work, Deliver, SayEmpty, Reconnect, StopProcessing

LEMMA FreshLine ==
    ASSUME found.phase = "idle", incoming = <<Task("fetch", 0)>>, found.rows = <<>>,
           encrypted = <<>>, decrypted = <<>>, batch = NoBatch, InBatches = {}
    PROVE  Line
<1>1. incoming # <<>> /\ Head(incoming).op = "fetch"
  BY DEF Task
<1>2. DOMAIN OkTasks = {} /\ DOMAIN RowTasks = {} /\ DOMAIN encrypted = {} /\ DOMAIN decrypted = {}
  BY DEF OkTasks, RowTasks, NoBatch
<1>3. OnTheWay /\ ItemsInTurn /\ BlockInTurn
  BY <1>1, <1>2 DEF OnTheWay, ItemsInTurn, BlockInTurn, Tasks
<1>4. \A q, kinds, op, done : DOMAIN q = {} => InTurn(arrivals, q, kinds, op, done)
  BY DEF InTurn
<1>5. EventsInTurn /\ OkInTurn /\ CachedInTurn /\ RowsInTurn
  BY <1>2, <1>4 DEF EventsInTurn, OkInTurn, CachedInTurn, RowsInTurn
<1>6. QED
  BY <1>3, <1>5 DEF Line


LEMMA LineKept ==
    ASSUME Shapes, Safety, RowsFailed, Past, Queued, Arranged, Line, Next
    PROVE  Line'
<1>1. CASE Restart
  <2>1. /\ (found.phase = "idle")' /\ (found.rows = <<>>)' /\ (incoming = <<Task("fetch", 0)>>)'
        /\ (encrypted = <<>>)' /\ (decrypted = <<>>)' /\ (batch = NoBatch)' /\ (InBatches = {})'
    BY <1>1, RestartEmpties DEF Restart, NothingFound
  <2>2. (/\ found.phase = "idle" /\ found.rows = <<>> /\ incoming = <<Task("fetch", 0)>>
         /\ encrypted = <<>> /\ decrypted = <<>> /\ batch = NoBatch /\ InBatches = {}
         => Line)'
    BY FreshLine, PTL
  <2>3. QED
    BY <2>1, <2>2
<1>2. CASE stopping /\ ~Restart
  <2>1. stopping'
    BY <1>2, StoppingStays
  <2>2. QED
    BY <2>1 DEF Line
<1>3. CASE ~stopping /\ ~Restart
  <2>1. /\ OnTheWay /\ EventsInTurn /\ OkInTurn /\ CachedInTurn /\ RowsInTurn
        /\ BlockInTurn /\ ItemsInTurn
    BY <1>3 DEF Line
  <2>2. CASE HandleRequest
    BY <2>1, <2>2, HandleRequestLine DEF Line
  <2>3. CASE ~HandleRequest
    <3>1. EventsInTurn'
      BY <1>3, <2>1, <2>3, EventsKept
    <3>2. CachedInTurn' /\ BlockInTurn'
      BY <1>3, <2>1, <2>3, CachedKept
    <3>3. OkInTurn'
      BY <1>3, <2>1, <2>3, OkKept
    <3>4. OnTheWay'
      BY <1>3, <2>1, <2>3, OnTheWayKept
    <3>5. RowsInTurn'
      BY <1>3, <2>1, <2>3, RowsKept
    <3>6. ItemsInTurn'
      BY <1>3, <2>1, <2>3, ItemsKept
    <3>7. QED
      BY <3>1, <3>2, <3>3, <3>4, <3>5, <3>6 DEF Line
  <2>4. QED
    BY <2>2, <2>3
<1>4. QED
  BY <1>1, <1>2, <1>3

LEMMA OrderUnmoved ==
    ASSUME OrderInv, UNCHANGED vars
    PROVE  OrderInv'
<1>1. /\ UNCHANGED <<server, sent, arrivals, db, used, incoming, found, items, waiting, zone, batch>>
      /\ UNCHANGED <<encrypted, decrypted, stopping, ended, dispatched, troubled, doubled, outlived>>
  BY DEF vars, net, disk, pipeline, batching, flags, history
<1>2. /\ Exempt' = Exempt /\ Plain' = Plain /\ RowCopies' = RowCopies /\ Spent' = Spent
      /\ Tasks' = Tasks /\ InOk' = InOk /\ InFailed' = InFailed /\ Batches' = Batches
      /\ Arrived' = Arrived
  BY <1>1 DEF Exempt, Plain, RowCopies, Spent, Tasks, InOk, InFailed, Batches, Arrived
<1>3. InEncrypted' = InEncrypted /\ InBatches' = InBatches
  BY <1>1, <1>2 DEF InEncrypted, InBatches
<1>4. Pending' = Pending /\ Known' = Known
  BY <1>1, <1>2, <1>3 DEF Pending, Known
<1>5. RowsFailed'
  BY <1>1, <1>2 DEF OrderInv, RowsFailed, Env
<1>6. Past'
  BY <1>1, <1>2, <1>3 DEF OrderInv, Past, Cleared, Env
<1>7. Queued'
  <2>1. PendingEnvelopes' = PendingEnvelopes /\ Asked' = Asked
    BY <1>1, <1>4 DEF PendingEnvelopes, Asked, Env
  <2>2. QED
    BY <1>1, <1>2, <1>4, <2>1 DEF OrderInv, Queued, Env
<1>8. Arranged'
  <2>1. Again' = Again
    BY <1>1, <1>2 DEF Again, Cleared, Env
  <2>2. QED
    BY <1>1, <1>2, <1>3, <1>4, <2>1 DEF OrderInv, Arranged, Env
<1>9. Line'
  <2>1. OkTasks' = OkTasks /\ RowTasks' = RowTasks
    BY <1>1 DEF OkTasks, RowTasks
  <2>2. Events' = Events /\ CachedOnes' = CachedOnes /\ Ready' = Ready
    BY <1>1, <2>1 DEF Events, CachedOnes, Ready
  <2>3. Coming' = Coming
    BY <2>2 DEF Coming
  <2>4. OnTheWay => OnTheWay'
    BY <1>1, <1>2, <2>1, <2>3 DEF OnTheWay, Env
  <2>5. EventsInTurn' = EventsInTurn /\ OkInTurn' = OkInTurn /\ CachedInTurn' = CachedInTurn
        /\ RowsInTurn' = RowsInTurn
    BY <1>1, <1>2, <2>1, <2>2 DEF EventsInTurn, OkInTurn, CachedInTurn, RowsInTurn
  <2>6. BlockInTurn => BlockInTurn'
    BY <1>1, <1>2, <2>2 DEF BlockInTurn, Env
  <2>7. ItemsInTurn => ItemsInTurn'
    BY <1>1, <1>2, <1>3, <2>3 DEF ItemsInTurn, Env
  <2>8. QED
    BY <1>1, <2>4, <2>5, <2>6, <2>7 DEF OrderInv, Line
<1>10. QED
  BY <1>5, <1>6, <1>7, <1>8, <1>9 DEF OrderInv

LEMMA OrderStep ==
    ASSUME Inv, OrderInv, [Next]_vars
    PROVE  OrderInv'
<1>1. CASE UNCHANGED vars
  BY <1>1, OrderUnmoved
<1>2. CASE Next
  <2>1. Shapes /\ Safety /\ RowsFailed /\ Past /\ Queued /\ Arranged /\ Line
    BY DEF Inv, OrderInv
  <2>2. RowsFailed' /\ Past' /\ Queued' /\ Arranged'
    BY <1>2, <2>1, RowsFailedKept, PastKept, QueuedKept, ArrangedKept
  <2>3. Line'
    BY <1>2, <2>1, LineKept
  <2>4. QED
    BY <2>2, <2>3 DEF OrderInv
<1>3. QED
  BY <1>1, <1>2

LEMMA InitOrder ==
    ASSUME Init
    PROVE  OrderInv
<1>1. /\ arrivals = <<>> /\ Arrived = {} /\ DOMAIN db = {} /\ Plain = {}
      /\ found.rows = <<>> /\ DOMAIN found.rows = {} /\ RowCopies = {}
      /\ DOMAIN encrypted = {} /\ Tasks = {} /\ InEncrypted = {}
      /\ doubled = {} /\ outlived = {} /\ batch.items = {} /\ zone = "free"
  BY DEF Init, Arrived, Plain, NothingFound, RowCopies, Tasks, InEncrypted, NoBatch
<1>2. InOk = {} /\ InFailed = {}
  BY FreshOrder DEF Init
<1>3. Batches = <<<<>>>>
  BY DEF Init, Batches
<1>4. \A i \in DOMAIN Batches : DOMAIN Batches[i] = {}
  BY <1>3
<1>5. InBatches = {} /\ InSequence(Batches, Again)
  BY <1>4 DEF InBatches, CopiesOf, InSequence
<1>6. Pending = {} /\ Known = {}
  BY <1>1, <1>2, <1>5 DEF Pending, Known
<1>7. RowsFailed
  BY <1>1, <1>2 DEF RowsFailed
<1>8. Past
  <2>1. Envelopes \ server \subseteq used \cup Exempt
    BY DEF Init, Exempt
  <2>2. zone = "open" => batch.uses \cap used = {}
    BY <1>1
  <2>3. QED
    BY <1>1, <1>2, <2>1, <2>2 DEF Past
<1>9. Queued
  <2>1. \A i \in DOMAIN incoming : incoming[i].op # "request"
    BY DEF Init, Task
  <2>2. QED
    BY <1>6, <2>1 DEF Queued, InTurn, Init
<1>10. Arranged
  BY <1>1, <1>2, <1>5, <1>6 DEF Arranged
<1>11. Line
  BY <1>1, <1>5, FreshLine DEF Init, NothingFound
<1>12. QED
  BY <1>7, <1>8, <1>9, <1>10, <1>11 DEF OrderInv

\* What is dispatched comes after what is smaller and not exempt: an event that was
\* decrypted, in its turn of decryptedQueue ...
LEMMA DecryptedInOrder ==
    ASSUME Inv, OrderInv, HandleDecrypted,
           NEW e \in dispatched' \ dispatched, NEW f \in Envelopes, f < e
    PROVE  f \in dispatched' \cup troubled \cup ended
<1>1. Shapes /\ Line
  BY DEF Inv, OrderInv
<1>2. ~stopping /\ decrypted # <<>> /\ Head(decrypted).op = "event"
      /\ dispatched' = dispatched \cup {Env(Head(decrypted).n)}
  BY DEF HandleDecrypted, NextDecrypted
<1>3. e = arrivals[Head(decrypted).n]
  BY <1>2 DEF Env
<1>4. InTurn(arrivals, decrypted, {"event"}, "event", Exempt)
  BY <1>1, <1>2 DEF Line, EventsInTurn
<1>5. decrypted \in Seq(DecryptedTask(Arrived))
  BY <1>1 DEF Shapes, QueueShape
<1>6. f \in Exempt
  <2>1. 1 \in DOMAIN decrypted /\ Head(decrypted) = decrypted[1] /\ \A i \in DOMAIN decrypted : ~(i < 1)
    BY <1>2, <1>5, TailFacts
  <2>2. f \in Exempt \/ f \in Before(arrivals, decrypted, "event", 1)
    BY <1>2, <1>3, <1>4, <2>1 DEF InTurn
  <2>3. Before(arrivals, decrypted, "event", 1) = {}
    BY <2>1 DEF Before
  <2>4. QED
    BY <2>2, <2>3
<1>7. QED
  BY <1>2, <1>6 DEF Exempt

\* ... and a receipt, which is given to the application while its batch is decrypted, after
\* the receipts before it: they have no keys that could be used and not yet committed.
LEMMA ReceiptInOrder ==
    ASSUME Inv, OrderInv, ReceiptsHaveNoKeys, DecryptReceipt,
           NEW e \in dispatched' \ dispatched, NEW f \in Receipts, f < e
    PROVE  f \in dispatched' \cup troubled \cup ended
<1>1. e = Env(NextItem.copy) /\ f \in Envelopes
  BY ReceiptsAssumption DEF DecryptReceipt
<1>2. f \in Spent \cup Exempt
  BY <1>1, HeadCleared DEF Inv, OrderInv, Decrypt
<1>3. QED
  BY <1>2 DEF ReceiptsHaveNoKeys, Exempt, DecryptReceipt

LEMMA DispatchInOrder ==
    ASSUME Inv, OrderInv, ReceiptsHaveNoKeys, [Next]_vars,
           NEW e \in dispatched' \ dispatched, NEW f \in Envelopes, f < e,
           e \in Receipts => f \in Receipts
    PROVE  f \in dispatched' \cup troubled \cup ended
<1>1. HandleDecrypted \/ DecryptReceipt
  <2>1. ASSUME UNCHANGED vars PROVE FALSE
    BY <2>1 DEF vars, history
  <2>2. Deliver \/ SayEmpty \/ Receive \/ Fetch \/ KickBatchOff \/ BatcherIdle \/ RetryCached
            \/ EnterZone => dispatched' = dispatched
    BY DEF Deliver, SayEmpty, Receive, HandleRequest, HandleEmpty, WaitForIncoming, Fetch,
       GetAllUnprocessedIds, GetUnprocessed, QueueCached, KickBatchOff, BatcherIdle, RetryCached,
       EnterZone, history
  <2>3. (Decrypt /\ ~DecryptReceipt) \/ EndBatch \/ PassOn \/ DispatchError
            \/ WaitForDecrypted \/ ScheduleRetry => dispatched' = dispatched
    BY DEF Decrypt, DecryptStopped, DecryptDropsEarly, DecryptThrows, DecryptDuplicate,
           DecryptSucceeds, DecryptDrops, DecryptRejected, DecryptFails, DecryptTimesOut,
           EndBatch, Commit, CommitFails, CommitAnswered, PassOn, DispatchError,
           WaitForDecrypted, ScheduleRetry, history
  <2>4. Handle \/ AppSeesError \/ RemoveFromCache \/ Reconnect \/ StopProcessing \/ Restart
            => dispatched' = dispatched
    BY DEF Handle, EmitEmpty, AppHandles, AppThrows, AppSeesError, RemoveFromCache, Reconnect,
       StopProcessing, Restart, history
  <2>5. QED
    BY <2>1, <2>2, <2>3, <2>4 DEF Next, Work, Hand
<1>2. CASE HandleDecrypted
  BY <1>2, DecryptedInOrder
<1>3. CASE DecryptReceipt
  <2>1. e \in Receipts
    BY <1>3 DEF DecryptReceipt
  <2>2. QED
    BY <1>3, <2>1, ReceiptInOrder
<1>4. QED
  BY <1>1, <1>2, <1>3

\* InOrder: when an event is dispatched, every envelope that the server sends before it was
\* dispatched, or is over, or failed to be decrypted once; whatever batches, rows fetched
\* again, timers, second deliveries, crashes and lost connections come between them.  This
\* is so for every message, against messages and receipts, and for receipts among each
\* other; an unencrypted receipt may only overtake messages, as its event does not wait
\* for the commit.
THEOREM EnvelopesInOrder == Spec => InOrder
<1>1. Init => OrderInv
  BY InitOrder
<1>2. Inv /\ OrderInv /\ [Next]_vars => OrderInv'
  BY OrderStep
<1>3. Inv /\ OrderInv /\ ReceiptsHaveNoKeys /\ [Next]_vars =>
        [\A e \in dispatched' \ dispatched, f \in Envelopes :
            f < e /\ (e \in Receipts => f \in Receipts)
                => f \in dispatched' \cup troubled \cup ended]_vars
  BY DispatchInOrder
<1>4. QED
  BY <1>1, <1>2, <1>3, InvHolds, ReceiptsHold, PTL DEF Spec, InOrder
===============================================================================
