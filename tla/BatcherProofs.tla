----------------------------- MODULE BatcherProofs -----------------------------
(***************************************************************************)
(* For any size of the batches and any number of items: the types of       *)
(* Batcher, that no item is lost, doubled or overtaken, and that a flush   *)
(* covers what was added before it.                                        *)
(***************************************************************************)
EXTENDS Batcher, SequenceTheorems, TLAPS

-------------------------------------------------------------------------------
(* Sequences and their elements *)

LEMMA ToSetFacts ==
    ASSUME NEW s \in Seq(Nat), NEW t \in Seq(Nat)
    PROVE  ToSet(s \o t) = ToSet(s) \cup ToSet(t)
<1>1. ToSet(s) = Range(s) /\ ToSet(t) = Range(t) /\ ToSet(s \o t) = Range(s \o t)
  BY DEF ToSet, Range
<1>2. QED
  BY <1>1, RangeConcatenation

LEMMA AppendFacts ==
    ASSUME NEW s \in Seq(Nat), NEW e \in Nat
    PROVE  ToSet(Append(s, e)) = ToSet(s) \cup {e}
<1> DEFINE t == Append(s, e)
<1>1. /\ Len(s) \in Nat /\ DOMAIN s = 1 .. Len(s) /\ DOMAIN t = 1 .. Len(s) + 1
      /\ \A i \in 1 .. Len(s) : t[i] = s[i]
      /\ t[Len(s) + 1] = e
  OBVIOUS
<1> HIDE DEF t
<1>2. ToSet(t) = ToSet(s) \cup {e}
  BY <1>1 DEF ToSet
<1>3. QED
  BY <1>2 DEF t

LEMMA TailFacts ==
    ASSUME NEW S, NEW s \in Seq(S), s # <<>>
    PROVE  /\ Len(s) \in Nat /\ Len(s) >= 1
           /\ Head(s) \in S /\ Head(s) = s[1] /\ Tail(s) \in Seq(S)
           /\ Len(Tail(s)) = Len(s) - 1
           /\ \A k \in 1 .. Len(s) - 1 : Tail(s)[k] = s[k + 1]
OBVIOUS

\* A concatenation ascends if its parts do, one before the other.
LEMMA AscendingConcat ==
    ASSUME NEW s \in Seq(Nat), NEW t \in Seq(Nat), Ascending(s), Ascending(t),
           Before(ToSet(s), ToSet(t))
    PROVE  Ascending(s \o t)
<1> DEFINE u == s \o t
<1>1. /\ Len(s) \in Nat /\ Len(t) \in Nat
      /\ DOMAIN s = 1 .. Len(s) /\ DOMAIN t = 1 .. Len(t)
      /\ DOMAIN u = 1 .. Len(s) + Len(t)
      /\ \A i \in 1 .. Len(s) : u[i] = s[i]
      /\ \A i \in DOMAIN u : i > Len(s) => i - Len(s) \in 1 .. Len(t) /\ u[i] = t[i - Len(s)]
  OBVIOUS
<1> HIDE DEF u
<1>2. SUFFICES ASSUME NEW m \in DOMAIN u, NEW n \in DOMAIN u, m < n
               PROVE  u[m] < u[n]
  BY DEF Ascending, u
<1>3. CASE n <= Len(s)
  <2>1. m \in DOMAIN s /\ n \in DOMAIN s
    BY <1>1, <1>2, <1>3
  <2>2. s[m] < s[n]
    BY <1>2, <2>1 DEF Ascending
  <2>3. QED
    BY <1>1, <2>1, <2>2
<1>4. CASE m > Len(s)
  <2>1. m - Len(s) \in DOMAIN t /\ n - Len(s) \in DOMAIN t /\ m - Len(s) < n - Len(s)
    BY <1>1, <1>2, <1>4
  <2>2. u[m] = t[m - Len(s)] /\ u[n] = t[n - Len(s)]
    BY <1>1, <1>2, <1>4
  <2>3. QED
    BY <2>1, <2>2 DEF Ascending
<1>5. CASE m <= Len(s) /\ n > Len(s)
  <2>1. u[m] \in ToSet(s) /\ u[n] \in ToSet(t)
    BY <1>1, <1>5 DEF ToSet
  <2>2. QED
    BY <2>1 DEF Before
<1>6. QED
  BY <1>1, <1>3, <1>4, <1>5

\* A new item goes behind the others.
LEMMA AscendingAppend ==
    ASSUME NEW s \in Seq(Nat), NEW e \in Nat, Ascending(s), \A i \in ToSet(s) : i < e
    PROVE  Ascending(Append(s, e))
<1> DEFINE t == Append(s, e)
<1>1. /\ Len(s) \in Nat /\ DOMAIN s = 1 .. Len(s) /\ DOMAIN t = 1 .. Len(s) + 1
      /\ \A i \in 1 .. Len(s) : t[i] = s[i]
      /\ t[Len(s) + 1] = e
  OBVIOUS
<1> HIDE DEF t
<1>2. SUFFICES ASSUME NEW m \in DOMAIN t, NEW n \in DOMAIN t, m < n
               PROVE  t[m] < t[n]
  BY DEF Ascending, t
<1>3. CASE n = Len(s) + 1
  <2>1. m \in DOMAIN s /\ t[m] = s[m] /\ s[m] \in ToSet(s)
    BY <1>1, <1>2, <1>3 DEF ToSet
  <2>2. QED
    BY <1>1, <1>3, <2>1
<1>4. CASE n # Len(s) + 1
  BY <1>1, <1>2, <1>4 DEF Ascending
<1>5. QED
  BY <1>3, <1>4

\* What is left of ascending items without one of them.
LEMMA RemoveAtFacts ==
    ASSUME NEW S \in SUBSET Nat, NEW s \in Seq(S), Ascending(s), NEW k \in DOMAIN s
    PROVE  LET t == RemoveAt(s, k) IN
           /\ t \in Seq(S) /\ Len(t) = Len(s) - 1
           /\ Ascending(t) /\ ToSet(t) = ToSet(s) \ {s[k]}
<1> DEFINE t == RemoveAt(s, k)
<1>1. /\ Len(s) \in Nat /\ k \in 1 .. Len(s) /\ DOMAIN s = 1 .. Len(s)
      /\ \A i \in 1 .. Len(s) : s[i] \in S
  OBVIOUS
<1>2. /\ t \in Seq(S) /\ Len(t) = Len(s) - 1 /\ DOMAIN t = 1 .. Len(s) - 1
      /\ \A i \in 1 .. Len(s) - 1 : t[i] = IF i < k THEN s[i] ELSE s[i + 1]
  <2> DEFINE a == SubSeq(s, 1, k - 1)
             b == SubSeq(s, k + 1, Len(s))
  <2>1. /\ a \in Seq(S) /\ Len(a) = k - 1
        /\ \A i \in 1 .. k - 1 : a[i] = s[i]
    BY <1>1
  <2>2. /\ b \in Seq(S) /\ Len(b) = Len(s) - k
        /\ \A i \in 1 .. Len(s) - k : b[i] = s[k + i]
    BY <1>1
  <2>3. t = a \o b
    BY DEF RemoveAt
  <2> HIDE DEF a, b, t
  <2>4. t \in Seq(S) /\ Len(t) = Len(s) - 1
    <3>1. t \in Seq(S) /\ Len(t) = Len(a) + Len(b)
      BY <2>1, <2>2, <2>3, ConcatProperties
    <3>2. QED
      BY <1>1, <2>1, <2>2, <3>1
  <2>5. ASSUME NEW i \in 1 .. Len(s) - 1
        PROVE  t[i] = IF i < k THEN s[i] ELSE s[i + 1]
    <3>1. CASE i < k
      BY <1>1, <2>1, <2>2, <2>3, <3>1
    <3>2. CASE ~(i < k)
      <4>1. i - (k - 1) \in 1 .. Len(s) - k /\ k + (i - (k - 1)) = i + 1
        BY <1>1, <3>2
      <4>2. t[i] = b[i - (k - 1)]
        BY <1>1, <2>1, <2>2, <2>3, <3>2
      <4>3. QED
        BY <2>2, <3>2, <4>1, <4>2
    <3>3. QED
      BY <3>1, <3>2
  <2>6. QED
    BY <2>4, <2>5
<1> HIDE DEF t
<1>3. ASSUME NEW m \in DOMAIN t, NEW n \in DOMAIN t, m < n
      PROVE  t[m] < t[n]
  <2> DEFINE place(i) == IF i < k THEN i ELSE i + 1
  <2>1. place(m) \in DOMAIN s /\ place(n) \in DOMAIN s /\ place(m) < place(n)
    BY <1>1, <1>2, <1>3
  <2>2. t[m] = s[place(m)] /\ t[n] = s[place(n)]
    BY <1>2
  <2>3. QED
    BY <2>1, <2>2 DEF Ascending
<1>4. ASSUME NEW i \in 1 .. Len(s), i # k
      PROVE  s[i] # s[k]
  <2>1. i < k \/ k < i
    BY <1>1, <1>4
  <2>2. s[i] < s[k] \/ s[k] < s[i]
    BY <1>1, <2>1 DEF Ascending
  <2>3. s[i] \in Nat /\ s[k] \in Nat
    BY <1>1
  <2>4. QED
    BY <2>2, <2>3
<1>5. ToSet(t) \subseteq ToSet(s) \ {s[k]}
  BY <1>1, <1>2, <1>4 DEF ToSet
<1>6. ASSUME NEW i \in 1 .. Len(s), i # k
      PROVE  s[i] \in ToSet(t)
  <2>1. CASE i < k
    BY <1>1, <1>2, <2>1 DEF ToSet
  <2>2. CASE k < i
    <3>1. i - 1 \in DOMAIN t /\ t[i - 1] = s[i]
      BY <1>1, <1>2, <2>2
    <3>2. QED
      BY <3>1 DEF ToSet
  <2>3. QED
    BY <1>1, <1>6, <2>1, <2>2
<1>7. ToSet(s) \ {s[k]} \subseteq ToSet(t)
  BY <1>1, <1>6 DEF ToSet
<1>8. QED
  BY <1>2, <1>3, <1>5, <1>7 DEF t, Ascending
-------------------------------------------------------------------------------
(* The order of the items *)

Known == [items : Seq(Nat), forFlush : BOOLEAN]

\* AllInOrder of any sequences.
InOrder(st, q, it, all) ==
    LET waits == 2 .. Len(q) IN
    /\ Ascending(st) /\ Ascending(it) /\ Before(ToSet(st), ToSet(it))
    /\ \A k \in waits :
        /\ Ascending(q[k].items)
        /\ Before(ToSet(st), InBatch(q[k])) /\ Before(InBatch(q[k]), ToSet(it))
        /\ \A l \in waits : k < l => Before(InBatch(q[k]), InBatch(q[l]))
    /\ ToSet(st) \cup Behind(q) \cup ToSet(it) = all

\* What is in the batches of a queue.
Contents(q) == UNION {InBatch(q[k]) : k \in DOMAIN q}

\* The waiting items become the last batch, or go to processBatch at once.
LEMMA OrderOfEnqueue ==
    ASSUME NEW st \in Seq(Nat), NEW q \in Seq(Known), NEW it \in Seq(Nat), NEW all,
           NEW b \in Known, b.items = it, InOrder(st, q, it, all)
    PROVE  /\ Append(q, b) \in Seq(Known)
           /\ InOrder(IF q = <<>> THEN st \o it ELSE st, Append(q, b), <<>>, all)
<1> DEFINE r == Append(q, b)
           n == Len(q)
<1>1. /\ n \in Nat /\ r \in Seq(Known) /\ Len(r) = n + 1
      /\ r[n + 1] = b
      /\ \A k \in 1 .. n : r[k] = q[k]
  OBVIOUS
<1>2. ToSet(<<>>) = {} /\ Ascending(<<>>)
  BY DEF ToSet, Ascending
<1>3. InBatch(b) = ToSet(it)
  BY DEF InBatch
<1> HIDE DEF r, n
<1>4. CASE q = <<>>
  <2>1. n = 0 /\ 2 .. Len(r) = {} /\ 2 .. n = {}
    BY <1>1, <1>4 DEF n
  <2>2. Ascending(st) /\ Ascending(it) /\ Before(ToSet(st), ToSet(it))
        /\ ToSet(st) \cup ToSet(it) = all
    <3>1. Behind(q) = {}
      BY <2>1 DEF n, Behind
    <3>2. QED
      BY <3>1 DEF InOrder
  <2>3. Ascending(st \o it) /\ ToSet(st \o it) = all
    BY <2>2, AscendingConcat, ToSetFacts
  <2>4. InOrder(st \o it, r, <<>>, all)
    <3>1. Behind(r) = {}
      BY <2>1 DEF Behind
    <3>2. QED
      BY <1>2, <2>1, <2>3, <3>1 DEF InOrder, Before
  <2>5. QED
    BY <1>1, <1>4, <2>4 DEF r
<1>5. CASE q # <<>>
  <2>1. n > 0 /\ 2 .. Len(r) = (2 .. n) \cup {n + 1} /\ n + 1 \notin 2 .. n
    BY <1>1, <1>5 DEF n
  <2>2. \A k \in 2 .. n : r[k] = q[k] /\ k < n + 1 /\ ~(n + 1 < k)
    BY <1>1
  <2>3. ~(n + 1 < n + 1)
    BY <1>1
  <2>4. Behind(r) = Behind(q) \cup ToSet(it)
    <3>1. \A k \in 2 .. n : InBatch(r[k]) = InBatch(q[k]) /\ k \in 2 .. Len(r)
      BY <2>1, <2>2
    <3>2. InBatch(r[n + 1]) = ToSet(it) /\ n + 1 \in 2 .. Len(r)
      BY <1>1, <1>3, <2>1
    <3>3. \A k \in 2 .. Len(r) : k \in 2 .. n \/ k = n + 1
      BY <2>1
    <3>4. QED
      BY <3>1, <3>2, <3>3 DEF Behind, n
  <2>5. InOrder(st, r, <<>>, all)
    <3> USE DEF InOrder
    <3>1. Ascending(st) /\ Before(ToSet(st), ToSet(<<>>))
      BY <1>2 DEF Before
    <3>2. ToSet(st) \cup Behind(r) \cup ToSet(<<>>) = all
      BY <1>2, <2>4
    <3>3. ASSUME NEW k \in 2 .. Len(r)
          PROVE  /\ Ascending(r[k].items) /\ Before(ToSet(st), InBatch(r[k]))
                 /\ Before(InBatch(r[k]), ToSet(<<>>))
      <4>1. CASE k \in 2 .. n
        BY <1>2, <2>2, <4>1 DEF n, Before
      <4>2. CASE k = n + 1
        BY <1>1, <1>2, <1>3, <4>2 DEF Before
      <4>3. QED
        BY <2>1, <4>1, <4>2
    <3>4. ASSUME NEW k \in 2 .. Len(r), NEW l \in 2 .. Len(r), k < l
          PROVE  Before(InBatch(r[k]), InBatch(r[l]))
      <4>1. CASE l \in 2 .. n
        BY <2>1, <2>2, <3>4, <4>1 DEF n
      <4>2. CASE l = n + 1
        BY <1>1, <1>3, <2>1, <2>2, <2>3, <3>4, <4>2 DEF n
      <4>3. QED
        BY <2>1, <4>1, <4>2
    <3>5. QED
      BY <1>2, <3>1, <3>2, <3>3, <3>4
  <2>6. QED
    BY <1>1, <1>5, <2>5 DEF r
<1>6. QED
  BY <1>4, <1>5

\* The next batch starts.
LEMMA OrderOfNextBatch ==
    ASSUME NEW st \in Seq(Nat), NEW q \in Seq(Known), q # <<>>, NEW it \in Seq(Nat), NEW all,
           InOrder(st, q, it, all)
    PROVE  InOrder(IF Tail(q) = <<>> THEN st ELSE st \o Tail(q)[1].items, Tail(q), it, all)
<1> DEFINE r == Tail(q)
           n == Len(q)
<1>1. /\ n \in Nat /\ n >= 1 /\ r \in Seq(Known) /\ Len(r) = n - 1
      /\ \A k \in 1 .. n - 1 : r[k] = q[k + 1]
  OBVIOUS
<1> HIDE DEF r, n
<1>2. CASE r = <<>>
  <2>1. n = 1 /\ 2 .. Len(r) = {} /\ 2 .. n = {}
    BY <1>1, <1>2
  <2>2. Behind(q) = {} /\ Behind(r) = {}
    BY <2>1 DEF Behind, n
  <2>3. InOrder(st, r, it, all)
    BY <2>1, <2>2 DEF InOrder, n
  <2>4. QED
    BY <1>2, <2>3 DEF r
<1>3. CASE r # <<>>
  <2> DEFINE next == q[2].items
  <2>1. n >= 2 /\ 2 \in 2 .. n /\ r[1] = q[2] /\ 2 \in 1 .. Len(q)
    BY <1>1, <1>3 DEF n
  <2>2. q[2] \in Known /\ next \in Seq(Nat) /\ InBatch(q[2]) = ToSet(next)
    <3>1. q[2] \in Known
      BY <2>1
    <3>2. QED
      BY <3>1 DEF Known, InBatch, next
  <2>3. \A k \in 2 .. n - 1 : r[k] = q[k + 1] /\ k + 1 \in 2 .. n /\ 2 < k + 1
    BY <1>1
  <2>4. \A k \in 2 .. n - 1, l \in 2 .. n - 1 : k < l => k + 1 < l + 1
    BY <1>1
  <2> HIDE DEF next
  <2>5. Ascending(next) /\ Before(ToSet(st), ToSet(next)) /\ Before(ToSet(next), ToSet(it))
    BY <2>1, <2>2 DEF InOrder, n, next
  <2>6. Ascending(st \o next) /\ ToSet(st \o next) = ToSet(st) \cup ToSet(next)
    <3>1. Ascending(st)
      BY DEF InOrder
    <3>2. QED
      BY <2>2, <2>5, <3>1, AscendingConcat, ToSetFacts
  <2>7. Behind(q) = ToSet(next) \cup Behind(r)
    <3>1. \A k \in 2 .. n : k = 2 \/ (k - 1 \in 2 .. n - 1 /\ r[k - 1] = q[k])
      BY <1>1
    <3>2. QED
      BY <1>1, <2>1, <2>2, <2>3, <3>1 DEF Behind, n
  <2>8. InOrder(st \o next, r, it, all)
    <3> USE DEF InOrder
    <3>1. Ascending(st \o next) /\ Ascending(it) /\ Before(ToSet(st \o next), ToSet(it))
      BY <2>5, <2>6 DEF Before
    <3>2. ToSet(st \o next) \cup Behind(r) \cup ToSet(it) = all
      BY <2>6, <2>7
    <3>3. ASSUME NEW k \in 2 .. n - 1
          PROVE  /\ Ascending(r[k].items) /\ Before(ToSet(st \o next), InBatch(r[k]))
                 /\ Before(InBatch(r[k]), ToSet(it))
      <4>1. Before(ToSet(st), InBatch(q[k + 1])) /\ Before(ToSet(next), InBatch(q[k + 1]))
        BY <2>1, <2>2, <2>3 DEF n
      <4>2. QED
        BY <2>3, <2>6, <4>1 DEF n, Before
    <3>4. ASSUME NEW k \in 2 .. n - 1, NEW l \in 2 .. n - 1, k < l
          PROVE  Before(InBatch(r[k]), InBatch(r[l]))
      BY <2>3, <2>4, <3>4 DEF n
    <3>5. QED
      BY <1>1, <3>1, <3>2, <3>3, <3>4
  <2>9. QED
    BY <1>3, <2>1, <2>8 DEF r, next
<1>4. QED
  BY <1>2, <1>3 DEF r

\* A new item is the last.
LEMMA OrderOfAdd ==
    ASSUME NEW st \in Seq(Nat), NEW q \in Seq(Known), NEW it \in Seq(Nat), NEW all,
           NEW e \in Nat, \A i \in all : i < e, InOrder(st, q, it, all)
    PROVE  InOrder(st, q, Append(it, e), all \cup {e})
<1>1. ToSet(Append(it, e)) = ToSet(it) \cup {e}
  BY AppendFacts
<1>2. Ascending(Append(it, e))
  <2>1. Ascending(it) /\ \A i \in ToSet(it) : i < e
    BY DEF InOrder
  <2>2. QED
    BY <2>1, AscendingAppend
<1>3. ToSet(st) \subseteq all /\ \A k \in 2 .. Len(q) : InBatch(q[k]) \subseteq all
  BY DEF InOrder, Behind
<1>4. /\ Before(ToSet(st), ToSet(it) \cup {e})
      /\ \A k \in 2 .. Len(q) : Before(InBatch(q[k]), ToSet(it) \cup {e})
  BY <1>3 DEF InOrder, Before
<1>5. ToSet(st) \cup Behind(q) \cup (ToSet(it) \cup {e}) = all \cup {e}
  BY DEF InOrder
<1>6. QED
  BY <1>1, <1>2, <1>4, <1>5 DEF InOrder

\* An item is removed before it is in a batch.
LEMMA OrderOfRemove ==
    ASSUME NEW st \in Seq(Nat), NEW q \in Seq(Known), NEW it \in Seq(Nat), NEW all,
           NEW k \in DOMAIN it, InOrder(st, q, it, all)
    PROVE  InOrder(st, q, RemoveAt(it, k), all \ {it[k]})
<1>1. Ascending(RemoveAt(it, k)) /\ ToSet(RemoveAt(it, k)) = ToSet(it) \ {it[k]}
  BY RemoveAtFacts DEF InOrder
<1>2. it[k] \in ToSet(it) /\ it[k] \in Nat /\ ~(it[k] < it[k])
  BY DEF ToSet
<1>3. it[k] \notin ToSet(st) /\ \A l \in 2 .. Len(q) : it[k] \notin InBatch(q[l])
  BY <1>2 DEF InOrder, Before
<1>4. /\ Before(ToSet(st), ToSet(it) \ {it[k]})
      /\ \A l \in 2 .. Len(q) : Before(InBatch(q[l]), ToSet(it) \ {it[k]})
  BY DEF InOrder, Before
<1>5. it[k] \notin Behind(q)
  BY <1>3 DEF Behind
<1>6. ToSet(st) \cup Behind(q) \cup (ToSet(it) \ {it[k]}) = all \ {it[k]}
  <2>1. ToSet(st) \cup Behind(q) \cup ToSet(it) = all
    BY DEF InOrder
  <2>2. QED
    BY <1>3, <1>5, <2>1
<1>7. QED
  BY <1>1, <1>4, <1>6 DEF InOrder
-------------------------------------------------------------------------------
(* The inductive invariant *)

\* What is in the first p batches.
UpTo(q, p) == UNION {InBatch(q[k]) : k \in 1 .. p}

Done == over \cup UNION {InBatch(batch) : batch \in late}

\* Every item is over, in a batch or waits for one.
Accounted == Items \subseteq Done \cup UpTo(queue, Len(queue)) \cup ToSet(items)

\* When the flush of the wait batcher waits for its batch, that one is in the queue, it is
\* the only one of its kind, and what the flush has to cover is in it or in front of it.
OwnBatch ==
    /\ flushing = "batch" =>
        /\ waiting
        /\ \E p \in 1 .. Len(queue) :
            /\ \A k \in 1 .. Len(queue) : queue[k].forFlush <=> k = p
            /\ asked \subseteq Done \cup UpTo(queue, p)
    /\ waiting /\ flushing # "batch" => \A k \in 1 .. Len(queue) : ~queue[k].forFlush

Inv == TypeOK /\ AllInOrder /\ Accounted /\ OwnBatch

LEMMA UpToAppend ==
    ASSUME NEW q \in Seq(Known), NEW b \in Known, NEW p \in 1 .. Len(q)
    PROVE  UpTo(Append(q, b), p) = UpTo(q, p)
<1>1. \A k \in 1 .. p : Append(q, b)[k] = q[k]
  OBVIOUS
<1>2. QED
  BY <1>1 DEF UpTo

LEMMA UpToLast ==
    ASSUME NEW q \in Seq(Known), NEW b \in Known
    PROVE  UpTo(Append(q, b), Len(q) + 1) = UpTo(q, Len(q)) \cup InBatch(b)
<1> DEFINE r == Append(q, b)
<1>1. \A k \in 1 .. Len(q) : r[k] = q[k] /\ k \in 1 .. Len(q) + 1
  OBVIOUS
<1>2. r[Len(q) + 1] = b /\ Len(q) + 1 \in 1 .. Len(q) + 1
  OBVIOUS
<1>3. \A k \in 1 .. Len(q) + 1 : k \in 1 .. Len(q) \/ k = Len(q) + 1
  OBVIOUS
<1> HIDE DEF r
<1>4. UpTo(r, Len(q) + 1) = UpTo(q, Len(q)) \cup InBatch(b)
  BY <1>1, <1>2, <1>3 DEF UpTo
<1>5. QED
  BY <1>4 DEF r

LEMMA UpToTail ==
    ASSUME NEW q \in Seq(Known), q # <<>>, NEW p \in 1 .. Len(q)
    PROVE  UpTo(q, p) = InBatch(Head(q)) \cup UpTo(Tail(q), p - 1)
<1> DEFINE r == Tail(q)
<1>1. \A k \in 1 .. p - 1 : r[k] = q[k + 1] /\ k + 1 \in 1 .. p
  OBVIOUS
<1>2. Head(q) = q[1] /\ 1 \in 1 .. p
  OBVIOUS
<1>3. \A k \in 1 .. p : k = 1 \/ (k - 1 \in 1 .. p - 1 /\ r[k - 1] = q[k])
  BY <1>1
<1> HIDE DEF r
<1>4. UpTo(q, p) = InBatch(Head(q)) \cup UpTo(r, p - 1)
  BY <1>1, <1>2, <1>3 DEF UpTo
<1>5. QED
  BY <1>4 DEF r

LEMMA Wider ==
    ASSUME NEW S, NEW T, S \subseteq T, NEW s \in Seq(S)
    PROVE  s \in Seq(T)
OBVIOUS

\* The types as they are used below.
LEMMA Kinds ==
    ASSUME TypeOK
    PROVE  /\ Items \subseteq Nat /\ added \in Nat
           /\ items \in Seq(Nat) /\ started \in Seq(Nat) /\ queue \in Seq(Known)
           /\ Batches \subseteq Known
<1>1. Items \subseteq Nat /\ added \in Nat
  BY SizeAssumption DEF TypeOK, Items
<1>2. Seq(Items) \subseteq Seq(Nat)
  BY <1>1, Wider
<1>3. Batches \subseteq Known
  BY <1>2 DEF Batches, Known
<1>4. QED
  BY <1>1, <1>2, <1>3, Wider DEF TypeOK

LEMMA OrderIs == AllInOrder <=> InOrder(started, queue, items, Items \ removed)
BY DEF AllInOrder, InOrder
-------------------------------------------------------------------------------
(* The types *)

\* What a batch of `content` does to the types.
LEMMA TypesOfKick ==
    ASSUME TypeOK, NEW content \in Seq(Items'), Len(content) <= MaxSize,
           NEW forFlush \in BOOLEAN, KickBatchOff(content, forFlush),
           Items \subseteq Items', late' = late
    PROVE  /\ items' \in Seq(Items') /\ Len(items') < MaxSize
           /\ queue' \in Seq(Batches') /\ late' \subseteq Batches' /\ started' \in Seq(Items')
           /\ \A batch \in late' \cup ToSet(queue') : Len(batch.items) <= MaxSize
<1> DEFINE b == Batch(content, forFlush)
<1>1. b \in Batches' /\ b.items = content
  BY DEF Batch, Batches
<1>2. Batches \subseteq Batches'
  BY Wider DEF Batches
<1>3. queue \in Seq(Batches') /\ started \in Seq(Items')
  BY <1>2, Wider DEF TypeOK
<1>4. queue' = Append(queue, b) /\ items' = <<>>
      /\ started' = IF queue = <<>> THEN started \o b.items ELSE started
  BY DEF KickBatchOff, Enqueue
<1> HIDE DEF b
<1>5. queue' \in Seq(Batches')
  BY <1>1, <1>3, <1>4
<1>6. started' \in Seq(Items')
  BY <1>1, <1>3, <1>4, ConcatProperties
<1>7. items' \in Seq(Items') /\ Len(items') < MaxSize
  BY <1>4, SizeAssumption
<1>8. late' \subseteq Batches'
  BY <1>2 DEF TypeOK
<1>9. ASSUME NEW k \in DOMAIN queue'
      PROVE  Len(queue'[k].items) <= MaxSize
  <2>1. \/ k \in DOMAIN queue /\ queue'[k] = queue[k]
        \/ queue'[k] = b
    BY <1>3, <1>4
  <2>2. k \in DOMAIN queue => queue[k] \in ToSet(queue)
    BY DEF ToSet
  <2>3. QED
    BY <1>1, <2>1, <2>2 DEF TypeOK
<1>10. \A batch \in late' \cup ToSet(queue') : Len(batch.items) <= MaxSize
  BY <1>9 DEF TypeOK, ToSet
<1>11. QED
  BY <1>5, <1>6, <1>7, <1>8, <1>10

\* What the end of a batch does to them.
LEMMA TypesOfNextBatch ==
    ASSUME TypeOK, queue # <<>>, NextBatch
    PROVE  /\ queue' \in Seq(Batches) /\ started' \in Seq(Items)
           /\ ToSet(queue') \subseteq ToSet(queue) /\ Head(queue) \in ToSet(queue)
           /\ idling' \in {"no", "queue", "sleep"}
<1>1. /\ queue \in Seq(Batches) /\ started \in Seq(Items)
      /\ idling \in {"no", "queue", "sleep"}
  BY DEF TypeOK
<1>2. queue' = Tail(queue)
      /\ started' = IF Tail(queue) = <<>> THEN started ELSE started \o Tail(queue)[1].items
  BY DEF NextBatch
<1>0. idling' = idling \/ idling' = "sleep"
  BY DEF NextBatch
<1>3. /\ queue' \in Seq(Batches) /\ Len(queue) \in Nat /\ Len(queue') = Len(queue) - 1
      /\ \A k \in 1 .. Len(queue) - 1 : queue'[k] = queue[k + 1]
      /\ Head(queue) = queue[1] /\ 1 \in 1 .. Len(queue)
  <2>1. /\ Len(queue) \in Nat /\ Len(queue) >= 1 /\ Head(queue) = queue[1]
        /\ queue' \in Seq(Batches) /\ Len(queue') = Len(queue) - 1
        /\ \A k \in 1 .. Len(queue) - 1 : queue'[k] = queue[k + 1]
    BY <1>1, <1>2, TailFacts
  <2>2. QED
    BY <2>1
<1>4. started' \in Seq(Items)
  <2>1. CASE queue' = <<>>
    BY <1>1, <1>2, <2>1
  <2>2. CASE queue' # <<>>
    <3>1. 1 \in DOMAIN queue'
      BY <1>3, <2>2
    <3>2. queue'[1] \in Batches
      BY <1>3, <3>1
    <3>3. queue'[1].items \in Seq(Items)
      BY <3>2 DEF Batches
    <3>4. started' = started \o queue'[1].items
      BY <1>2, <2>2
    <3>5. QED
      BY <1>1, <3>3, <3>4, ConcatProperties
  <2>3. QED
    BY <2>1, <2>2
<1>5. ToSet(queue') \subseteq ToSet(queue) /\ Head(queue) \in ToSet(queue)
  <2>1. DOMAIN queue = 1 .. Len(queue) /\ DOMAIN queue' = 1 .. Len(queue) - 1
    BY <1>1, <1>3
  <2>2. \A k \in 1 .. Len(queue) - 1 : k + 1 \in 1 .. Len(queue)
    BY <1>3
  <2>3. QED
    BY <1>3, <2>1, <2>2 DEF ToSet
<1>6. QED
  BY <1>0, <1>1, <1>3, <1>4, <1>5

\* What calls leave alone.
Simple == waiting \in BOOLEAN /\ flushing \in {"no", "loop", "batch", "queue"}
          /\ idling \in {"no", "queue", "sleep"}
Counts == added \in 0 .. MaxAdds /\ over \subseteq Items /\ removed \subseteq over
          /\ asked \subseteq Items
Timers == named \in BOOLEAN /\ nameless \in Nat
Pieces == /\ items \in Seq(Items) /\ Len(items) < MaxSize
          /\ queue \in Seq(Batches) /\ late \subseteq Batches /\ started \in Seq(Items)
          /\ \A batch \in late \cup ToSet(queue) : Len(batch.items) <= MaxSize

LEMMA TypesAre == TypeOK <=> Simple /\ Counts /\ Timers /\ Pieces
BY Zenon DEF TypeOK, Simple, Counts, Timers, Pieces

LEMMA SimpleStep == TypeOK /\ Next => Simple'
<1> SUFFICES ASSUME TypeOK, Next PROVE Simple'
  OBVIOUS
<1>1. Simple
  BY TypesAre
<1>2. CASE Add \/ (\E item \in 1 .. added : RemoveAll(item)) \/ Fire \/ EndLate
  BY <1>1, <1>2 DEF Add, RemoveAll, Fire, TimerFires, NamelessTimerFires, EndLate, Simple, calls
<1>3. CASE EndBatch
  <2>1. idling' = idling \/ idling' = "sleep"
    BY <1>3 DEF EndBatch, NextBatch
  <2>2. waiting' = waiting /\ flushing' \in {"queue", "loop", flushing}
    BY <1>3, Zenon DEF EndBatch
  <2>3. QED
    BY <1>1, <2>1, <2>2 DEF Simple
<1>4. CASE BatchExpires
  <2>1. idling' = idling \/ idling' = "sleep"
    BY <1>4 DEF BatchExpires, NextBatch
  <2>2. waiting' = waiting /\ flushing' \in {"no", "loop", flushing}
    BY <1>4, Zenon DEF BatchExpires
  <2>3. QED
    BY <1>1, <2>1, <2>2 DEF Simple
<1>5. CASE FlushAndWait \/ FlushLoop
  BY <1>1, <1>5 DEF FlushAndWait, FlushLoop, GoOnFlushing, Simple
<1>6. CASE OnIdle \/ IdleLoop
  BY <1>1, <1>6 DEF OnIdle, IdleLoop, Simple
<1>7. QED
  BY <1>2, <1>3, <1>4, <1>5, <1>6 DEF Next, Process

LEMMA CountsStep == TypeOK /\ Next => Counts' /\ Items \subseteq Items'
<1> SUFFICES ASSUME TypeOK, Next PROVE Counts' /\ Items \subseteq Items'
  OBVIOUS
<1>1. Counts
  BY TypesAre
<1>2. ASSUME added' = added PROVE Items' = Items
  BY <1>2 DEF Items
<1>3. CASE Add
  <2>1. added' = added + 1 /\ added < MaxAdds /\ UNCHANGED <<over, removed, asked>>
    BY <1>3 DEF Add, calls
  <2>2. Items \subseteq Items'
    BY <1>1, <2>1, SizeAssumption DEF Items, Counts
  <2>3. added' \in 0 .. MaxAdds
    BY <1>1, <2>1, SizeAssumption DEF Counts
  <2>4. QED
    BY <1>1, <2>1, <2>2, <2>3 DEF Counts
<1>4. CASE \E item \in 1 .. added : RemoveAll(item)
  BY <1>1, <1>2, <1>4 DEF RemoveAll, Counts, calls, Items
<1>5. CASE Fire
  BY <1>1, <1>2, <1>5 DEF Fire, TimerFires, NamelessTimerFires, Counts, calls
<1>6. CASE EndBatch
  <2>1. Head(queue).items \in Seq(Items)
    <3>1. queue \in Seq(Batches) /\ queue # <<>>
      BY <1>6 DEF EndBatch, TypeOK
    <3>2. Head(queue) \in Batches
      BY <3>1, TailFacts
    <3>3. QED
      BY <3>2 DEF Batches
  <2>2. ToSet(Head(queue).items) \subseteq Items
    BY <2>1 DEF ToSet
  <2>3. QED
    BY <1>1, <1>2, <1>6, <2>2 DEF EndBatch, Settled, Counts
<1>7. CASE EndLate
  <2> PICK batch \in late : over' = over \cup ToSet(batch.items)
    BY <1>7 DEF EndLate, Settled
  <2>1. batch.items \in Seq(Items)
    BY DEF TypeOK, Batches
  <2>2. ToSet(batch.items) \subseteq Items
    BY <2>1 DEF ToSet
  <2>3. QED
    BY <1>1, <1>2, <1>7, <2>2 DEF EndLate, Counts, calls
<1>8. CASE BatchExpires
  BY <1>1, <1>2, <1>8 DEF BatchExpires, Counts
<1>9. CASE FlushAndWait
  BY <1>1, <1>2, <1>9 DEF FlushAndWait, Counts
<1>10. CASE FlushLoop
  BY <1>1, <1>2, <1>10 DEF FlushLoop, Counts
<1>11. CASE OnIdle \/ IdleLoop
  BY <1>1, <1>2, <1>11 DEF OnIdle, IdleLoop, Counts
<1>12. QED
  BY <1>3, <1>4, <1>5, <1>6, <1>7, <1>8, <1>9, <1>10, <1>11 DEF Next, Process

LEMMA TimersStep == TypeOK /\ Next => Timers'
<1> SUFFICES ASSUME TypeOK, Next PROVE Timers'
  OBVIOUS
<1>1. Timers
  BY TypesAre
<1>2. ASSUME UNCHANGED timers PROVE Timers'
  BY <1>1, <1>2 DEF timers, Timers
<1>3. ASSUME ClearTimer PROVE Timers'
  BY <1>1, <1>3 DEF ClearTimer, Timers
<1>4. ASSUME Arm PROVE Timers'
  BY <1>1, <1>4 DEF Arm, Timers
<1>5. CASE Add
  BY <1>2, <1>3, <1>4, <1>5, Zenon DEF Add
<1>6. CASE \E item \in 1 .. added : RemoveAll(item)
  BY <1>2, <1>6 DEF RemoveAll
<1>7. CASE TimerFires
  BY <1>3, <1>7 DEF TimerFires
<1>8. CASE NamelessTimerFires
  <2>1. named' = FALSE /\ nameless > 0 /\ nameless \in Nat
    BY <1>1, <1>8 DEF NamelessTimerFires, Timers
  <2>2. nameless' = nameless - 0 \/ nameless' = nameless - 1
    BY <1>8 DEF NamelessTimerFires
  <2>3. nameless' \in Nat
    BY <2>1, <2>2
  <2>4. QED
    BY <2>1, <2>3 DEF Timers
<1>9. CASE EndBatch \/ EndLate \/ BatchExpires \/ OnIdle \/ IdleLoop
  BY <1>2, <1>9 DEF EndBatch, EndLate, BatchExpires, OnIdle, IdleLoop
<1>10. CASE FlushAndWait \/ FlushLoop
  BY <1>2, <1>3, <1>10, Zenon DEF FlushAndWait, FlushLoop
<1>11. QED
  BY <1>5, <1>6, <1>7, <1>8, <1>9, <1>10 DEF Next, Process, Fire

LEMMA PiecesStep == TypeOK /\ Next => Pieces'
<1> SUFFICES ASSUME TypeOK, Next PROVE Pieces'
  OBVIOUS
<1>1. Pieces /\ Items \subseteq Items' /\ added \in Nat
  BY TypesAre, CountsStep, Kinds
<1>2. ASSUME NEW content \in Seq(Items'), Len(content) <= MaxSize,
             NEW forFlush \in BOOLEAN, KickBatchOff(content, forFlush), late' = late
      PROVE  Pieces'
  BY <1>1, <1>2, TypesOfKick DEF Pieces
<1>3. ASSUME added' = added PROVE Items' = Items /\ Batches' = Batches
  BY <1>3 DEF Items, Batches
<1>4. items \in Seq(Items') /\ Len(items) \in Nat /\ Len(items) < MaxSize /\ Len(items) <= MaxSize
  BY <1>1, Wider, SizeAssumption DEF Pieces
<1>5. CASE Add
  <2> DEFINE all == Append(items, added + 1)
  <2>1. added + 1 \in Items'
    BY <1>1, <1>5 DEF Add, Items
  <2>2. all \in Seq(Items') /\ Len(all) <= MaxSize /\ Len(all) \in Nat
    BY <1>4, <2>1, SizeAssumption
  <2> HIDE DEF all
  <2>3. CASE KickBatchOff(all, FALSE)
    BY <1>2, <1>5, <2>2, <2>3 DEF Add
  <2>4. CASE Len(all) < MaxSize /\ items' = all /\ UNCHANGED <<queue, started>>
    <3>1. late' = late
      BY <1>5 DEF Add
    <3>2. Batches \subseteq Batches'
      BY <1>1, Wider DEF Batches
    <3>3. queue \in Seq(Batches') /\ late \subseteq Batches' /\ started \in Seq(Items')
      BY <1>1, <3>2, Wider DEF Pieces
    <3>4. QED
      BY <1>1, <2>2, <2>4, <3>1, <3>3 DEF Pieces
  <2>5. KickBatchOff(all, FALSE)
        \/ (~(Len(all) >= MaxSize) /\ items' = all /\ UNCHANGED <<queue, started>>)
    BY <1>5 DEF Add, all
  <2>6. MaxSize \in Nat
    BY SizeAssumption
  <2>7. ~(Len(all) >= MaxSize) => Len(all) < MaxSize
    BY <2>2, <2>6
  <2>8. QED
    BY <2>3, <2>4, <2>5, <2>7
<1>6. CASE \E item \in 1 .. added : RemoveAll(item)
  <2>1. PICK k \in DOMAIN items : items' = RemoveAt(items, k)
    BY <1>6 DEF RemoveAll
  <2>2. UNCHANGED <<queue, late, added, started>>
    BY <1>6 DEF RemoveAll
  <2>3. items' = SubSeq(items, 1, k - 1) \o SubSeq(items, k + 1, Len(items))
    BY <2>1 DEF RemoveAt
  <2>4. items' \in Seq(Items) /\ Len(items') = Len(items) - 1
    <3>1. k \in 1 .. Len(items)
      BY <1>1, <2>1 DEF Pieces
    <3> DEFINE a == SubSeq(items, 1, k - 1)
               b == SubSeq(items, k + 1, Len(items))
    <3>2. a \in Seq(Items) /\ Len(a) = k - 1
      BY <1>1, <3>1 DEF Pieces
    <3>3. b \in Seq(Items) /\ Len(b) = Len(items) - k
      BY <1>1, <3>1 DEF Pieces
    <3>4. items' = a \o b
      BY <2>3
    <3> HIDE DEF a, b
    <3>5. items' \in Seq(Items) /\ Len(items') = Len(a) + Len(b)
      BY <3>2, <3>3, <3>4, ConcatProperties
    <3>6. QED
      BY <1>4, <3>1, <3>2, <3>3, <3>5
  <2>5. QED
    BY <1>1, <1>3, <1>4, <2>2, <2>4, SizeAssumption DEF Pieces
<1>7. CASE Fire
  <2>1. KickBatchOff(items, FALSE) /\ late' = late
    BY <1>7 DEF Fire, TimerFires, NamelessTimerFires
  <2>2. QED
    BY <1>2, <1>4, <2>1
<1>8. CASE EndBatch \/ BatchExpires
  <2>1. queue # <<>> /\ NextBatch /\ UNCHANGED <<items, added>>
        /\ late' \in {late, late \cup {Head(queue)}}
    BY <1>8 DEF EndBatch, BatchExpires
  <2>2. Head(queue) \in ToSet(queue) /\ Head(queue) \in Batches
    BY <2>1, TypesOfNextBatch DEF TypeOK
  <2>3. QED
    BY <1>1, <1>3, <2>1, <2>2, TypesOfNextBatch DEF Pieces
<1>9. CASE EndLate
  BY <1>1, <1>3, <1>9 DEF EndLate, Pieces
<1>10. CASE FlushAndWait \/ FlushLoop
  <2>1. late' = late /\ added' = added
        /\ (KickBatchOff(items, TRUE) \/ UNCHANGED <<items, queue, started>>)
    BY <1>10 DEF FlushAndWait, FlushLoop, GoOnFlushing
  <2>2. CASE KickBatchOff(items, TRUE)
    BY <1>2, <1>4, <2>1, <2>2
  <2>3. CASE UNCHANGED <<items, queue, started>>
    BY <1>1, <1>3, <2>1, <2>3 DEF Pieces
  <2>4. QED
    BY <2>1, <2>2, <2>3
<1>11. CASE OnIdle \/ IdleLoop
  BY <1>1, <1>3, <1>11 DEF OnIdle, IdleLoop, Pieces
<1>12. QED
  BY <1>5, <1>6, <1>7, <1>8, <1>9, <1>10, <1>11 DEF Next, Process

LEMMA TypesStep == TypeOK /\ [Next]_vars => TypeOK'
<1>1. ASSUME TypeOK, UNCHANGED vars PROVE TypeOK'
  BY <1>1 DEF vars, timers, calls, TypeOK, Items, Batches
<1>2. TypeOK' <=> Simple' /\ Counts' /\ Timers' /\ Pieces'
  BY TypesAre, PTL
<1>3. QED
  BY <1>1, <1>2, SimpleStep, CountsStep, TimersStep, PiecesStep

-------------------------------------------------------------------------------
(* The order *)

LEMMA OrderAfterKick ==
    ASSUME TypeOK, NEW content \in Seq(Nat), NEW forFlush \in BOOLEAN, NEW all,
           KickBatchOff(content, forFlush), InOrder(started, queue, content, all)
    PROVE  InOrder(started', queue', items', all)
<1> DEFINE b == Batch(content, forFlush)
<1>1. b \in Known /\ b.items = content
  BY DEF Batch, Known
<1>2. queue' = Append(queue, b) /\ items' = <<>>
      /\ started' = IF queue = <<>> THEN started \o content ELSE started
  BY <1>1 DEF KickBatchOff, Enqueue
<1> HIDE DEF b
<1>3. QED
  BY <1>1, <1>2, Kinds, OrderOfEnqueue

LEMMA OrderStep == TypeOK /\ AllInOrder /\ [Next]_vars => AllInOrder'
<1> SUFFICES ASSUME TypeOK, AllInOrder, [Next]_vars PROVE AllInOrder'
  OBVIOUS
<1> DEFINE all == Items \ removed
<1>1. InOrder(started, queue, items, all)
  BY OrderIs
<1>2. AllInOrder' <=> InOrder(started', queue', items', Items' \ removed')
  <2>1. AllInOrder' <=> InOrder(started, queue, items, Items \ removed)'
    BY OrderIs, PTL
  <2>2. QED
    BY <2>1
<1>3. /\ Items \subseteq Nat /\ added \in Nat /\ items \in Seq(Nat) /\ started \in Seq(Nat)
      /\ queue \in Seq(Known)
  BY Kinds
<1>4. ASSUME added' = added PROVE Items' = Items
  BY <1>4 DEF Items
<1> HIDE DEF all
<1>5. CASE Add
  <2> DEFINE e == added + 1
  <2>1. e \in Nat /\ \A i \in all : i < e
    BY <1>3 DEF all, Items
  <2>2. e \notin removed
    BY <1>3 DEF TypeOK, Items
  <2>3. Items' \ removed' = all \cup {e}
    <3>1. Items' = Items \cup {e}
      BY <1>3, <1>5 DEF Add, Items
    <3>2. QED
      BY <1>5, <2>2, <3>1 DEF Add, all
  <2> HIDE DEF e
  <2>4. InOrder(started, queue, Append(items, e), all \cup {e})
    BY <1>1, <1>3, <2>1, OrderOfAdd
  <2>5. \/ KickBatchOff(Append(items, e), FALSE)
        \/ items' = Append(items, e) /\ UNCHANGED <<queue, started>>
    BY <1>5 DEF Add, e
  <2>6. Append(items, e) \in Seq(Nat)
    BY <1>3, <2>1
  <2>7. QED
    BY <1>2, <2>3, <2>4, <2>5, <2>6, OrderAfterKick
<1>6. CASE \E item \in 1 .. added : RemoveAll(item)
  <2>1. PICK k \in DOMAIN items : items' = RemoveAt(items, k) /\ removed' = removed \cup {items[k]}
    BY <1>6 DEF RemoveAll
  <2>2. UNCHANGED <<queue, added, started>>
    BY <1>6 DEF RemoveAll
  <2>3. Items' \ removed' = all \ {items[k]}
    BY <1>4, <2>1, <2>2 DEF all
  <2>4. InOrder(started, queue, RemoveAt(items, k), all \ {items[k]})
    BY <1>1, <1>3, OrderOfRemove
  <2>5. QED
    BY <1>2, <2>1, <2>2, <2>3, <2>4
<1>7. CASE Fire
  <2>1. KickBatchOff(items, FALSE) /\ UNCHANGED <<added, removed>>
    BY <1>7 DEF Fire, TimerFires, NamelessTimerFires
  <2>2. QED
    BY <1>1, <1>2, <1>3, <1>4, <2>1, OrderAfterKick DEF all
<1>8. CASE EndBatch \/ BatchExpires
  <2>1. queue # <<>> /\ NextBatch /\ UNCHANGED <<items, added, removed>>
    BY <1>8 DEF EndBatch, BatchExpires
  <2>2. queue' = Tail(queue)
        /\ started' = IF Tail(queue) = <<>> THEN started ELSE started \o Tail(queue)[1].items
    BY <2>1 DEF NextBatch
  <2>3. InOrder(started', queue', items, all)
    BY <1>1, <1>3, <2>1, <2>2, OrderOfNextBatch
  <2>4. QED
    BY <1>2, <1>4, <2>1, <2>3 DEF all
<1>9. CASE EndLate
  BY <1>1, <1>2, <1>4, <1>9 DEF EndLate, all
<1>10. CASE FlushAndWait \/ FlushLoop
  <2>1. UNCHANGED <<added, removed>>
        /\ (KickBatchOff(items, TRUE) \/ UNCHANGED <<items, queue, started>>)
    BY <1>10 DEF FlushAndWait, FlushLoop, GoOnFlushing
  <2>2. QED
    BY <1>1, <1>2, <1>3, <1>4, <2>1, OrderAfterKick DEF all
<1>11. CASE OnIdle \/ IdleLoop
  BY <1>1, <1>2, <1>4, <1>11 DEF OnIdle, IdleLoop, all
<1>12. CASE UNCHANGED vars
  BY <1>1, <1>2, <1>4, <1>12 DEF vars, all
<1>13. QED
  BY <1>5, <1>6, <1>7, <1>8, <1>9, <1>10, <1>11, <1>12 DEF Next, Process

-------------------------------------------------------------------------------
(* Every item is somewhere *)

LEMMA DoneStep ==
    ASSUME TypeOK, Next
    PROVE  /\ Done \subseteq Done'
           /\ EndBatch \/ BatchExpires => InBatch(Head(queue)) \subseteq Done'
<1>1. CASE EndBatch
  BY <1>1 DEF EndBatch, Settled, Done, InBatch
<1>2. CASE BatchExpires
  BY <1>2 DEF BatchExpires, Done
<1>3. CASE EndLate
  BY <1>3 DEF EndLate, Settled, Done, InBatch, EndBatch, BatchExpires
<1>4. CASE ~EndBatch /\ ~BatchExpires /\ ~EndLate
  <2>1. over \subseteq over' /\ late' = late
    BY <1>4 DEF Next, Process, Fire, Add, RemoveAll, TimerFires, NamelessTimerFires,
                FlushAndWait, FlushLoop, OnIdle, IdleLoop
  <2>2. QED
    BY <1>4, <2>1 DEF Done
<1>5. QED
  BY <1>1, <1>2, <1>3, <1>4

LEMMA ContentsAfterKick ==
    ASSUME TypeOK, NEW content \in Seq(Nat), NEW forFlush \in BOOLEAN,
           KickBatchOff(content, forFlush)
    PROVE  /\ queue' = Append(queue, Batch(content, forFlush)) /\ Len(queue') = Len(queue) + 1
           /\ UpTo(queue', Len(queue')) = UpTo(queue, Len(queue)) \cup ToSet(content)
           /\ \A p \in 1 .. Len(queue) : UpTo(queue', p) = UpTo(queue, p)
           /\ items' = <<>>
<1> DEFINE b == Batch(content, forFlush)
<1>1. b \in Known /\ InBatch(b) = ToSet(content)
  BY DEF Batch, Known, InBatch
<1>2. queue' = Append(queue, b) /\ items' = <<>>
  BY DEF KickBatchOff, Enqueue
<1> HIDE DEF b
<1>3. queue \in Seq(Known) /\ Len(queue') = Len(queue) + 1
  BY <1>2, Kinds
<1>4. QED
  BY <1>1, <1>2, <1>3, UpToAppend, UpToLast DEF b

LEMMA AccountedStep == TypeOK /\ AllInOrder /\ Accounted /\ [Next]_vars => Accounted'
<1> SUFFICES ASSUME TypeOK, AllInOrder, Accounted, [Next]_vars PROVE Accounted'
  OBVIOUS
<1>1. /\ Items \subseteq Nat /\ added \in Nat /\ items \in Seq(Nat) /\ queue \in Seq(Known)
  BY Kinds
<1>2. ASSUME added' = added PROVE Items' = Items
  BY <1>2 DEF Items
<1>3. ASSUME UNCHANGED <<added, queue>>, Done \subseteq Done',
             ToSet(items) \subseteq Done' \cup ToSet(items')
      PROVE  Accounted'
  BY <1>2, <1>3 DEF Accounted
<1>4. ASSUME UNCHANGED added, Done \subseteq Done', NEW forFlush \in BOOLEAN,
             KickBatchOff(items, forFlush)
      PROVE  Accounted'
  BY <1>1, <1>2, <1>4, ContentsAfterKick DEF Accounted
<1>5. CASE Add
  <2> DEFINE all == Append(items, added + 1)
  <2>1. all \in Seq(Nat) /\ ToSet(all) = ToSet(items) \cup {added + 1}
    BY <1>1, AppendFacts
  <2>2. Items' = Items \cup {added + 1}
    BY <1>1, <1>5 DEF Add, Items
  <2>3. Done' = Done
    BY <1>5 DEF Add, Done
  <2>4. KickBatchOff(all, FALSE) \/ (items' = all /\ queue' = queue)
    BY <1>5 DEF Add
  <2> HIDE DEF all
  <2>5. CASE KickBatchOff(all, FALSE)
    BY <2>1, <2>2, <2>3, <2>5, ContentsAfterKick DEF Accounted
  <2>6. CASE items' = all /\ queue' = queue
    BY <2>1, <2>2, <2>3, <2>6 DEF Accounted
  <2>7. QED
    BY <2>4, <2>5, <2>6
<1>6. CASE \E item \in 1 .. added : RemoveAll(item)
  <2>1. PICK k \in DOMAIN items : items' = RemoveAt(items, k) /\ over' = over \cup {items[k]}
    BY <1>6 DEF RemoveAll
  <2>2. ToSet(items) \subseteq {items[k]} \cup ToSet(items')
    <3>1. Ascending(items)
      BY DEF AllInOrder
    <3>2. QED
      BY <1>1, <2>1, <3>1, RemoveAtFacts
  <2>3. {items[k]} \subseteq Done' /\ UNCHANGED <<added, queue>>
    BY <1>6, <2>1 DEF RemoveAll, Done
  <2>4. QED
    BY <1>3, <1>6, <2>2, <2>3, DoneStep DEF Next
<1>7. CASE Fire
  <2>1. UNCHANGED <<added, over, late>> /\ KickBatchOff(items, FALSE)
    BY <1>7 DEF Fire, TimerFires, NamelessTimerFires
  <2>2. QED
    BY <1>4, <2>1 DEF Done
<1>8. CASE EndBatch \/ BatchExpires
  <2>1. queue # <<>> /\ queue' = Tail(queue) /\ UNCHANGED <<items, added>>
    BY <1>8 DEF EndBatch, BatchExpires, NextBatch
  <2>2. Done \subseteq Done' /\ InBatch(Head(queue)) \subseteq Done'
    BY <1>8, DoneStep DEF Next, Process
  <2>3. Len(queue) \in 1 .. Len(queue) /\ Len(queue') = Len(queue) - 1
    BY <1>1, <2>1
  <2>4. UpTo(queue, Len(queue)) = InBatch(Head(queue)) \cup UpTo(queue', Len(queue'))
    BY <1>1, <2>1, <2>3, UpToTail
  <2>5. QED
    BY <1>2, <2>1, <2>2, <2>4 DEF Accounted
<1>9. CASE EndLate
  BY <1>3, <1>9, DoneStep DEF EndLate, Next, Process
<1>10. CASE FlushAndWait \/ FlushLoop
  <2>1. UNCHANGED <<added, over, late>>
        /\ (KickBatchOff(items, TRUE) \/ UNCHANGED <<items, queue>>)
    BY <1>10 DEF FlushAndWait, FlushLoop, GoOnFlushing
  <2>2. QED
    BY <1>3, <1>4, <2>1 DEF Done
<1>11. CASE OnIdle \/ IdleLoop
  BY <1>3, <1>11 DEF OnIdle, IdleLoop, Done
<1>12. CASE UNCHANGED vars
  BY <1>3, <1>12 DEF vars, Done
<1>13. QED
  BY <1>5, <1>6, <1>7, <1>8, <1>9, <1>10, <1>11, <1>12 DEF Next, Process

-------------------------------------------------------------------------------
(* The batch of a flush *)

\* The batch of the flush is at place p, and it is the only one.
Own(p) ==
    /\ p \in 1 .. Len(queue)
    /\ \A k \in 1 .. Len(queue) : queue[k].forFlush <=> k = p
    /\ asked \subseteq Done \cup UpTo(queue, p)
NoOwn == \A k \in 1 .. Len(queue) : ~queue[k].forFlush

LEMMA OwnIs == OwnBatch <=> /\ flushing = "batch" => waiting /\ \E p \in 1 .. Len(queue) : Own(p)
                            /\ waiting /\ flushing # "batch" => NoOwn
BY DEF OwnBatch, Own, NoOwn

\* A batch that is not for the flush joins the queue.
LEMMA OwnAfterKick ==
    ASSUME TypeOK, NEW content \in Seq(Nat), KickBatchOff(content, FALSE), OwnBatch,
           UNCHANGED <<waiting, flushing, asked, over, late>>
    PROVE  OwnBatch'
<1> DEFINE b == Batch(content, FALSE)
<1>1. queue \in Seq(Known) /\ queue' = Append(queue, b) /\ Len(queue') = Len(queue) + 1
  BY Kinds, ContentsAfterKick
<1>2. b.forFlush = FALSE
  BY DEF Batch
<1> HIDE DEF b
<1>3. /\ \A k \in 1 .. Len(queue) : queue'[k] = queue[k] /\ k # Len(queue) + 1
      /\ queue'[Len(queue) + 1] = b
      /\ \A k \in 1 .. Len(queue') : k \in 1 .. Len(queue) \/ k = Len(queue) + 1
      /\ \A k \in 1 .. Len(queue) : k \in 1 .. Len(queue')
  BY <1>1
<1>4. Done' = Done
  BY DEF Done
<1>5. \A p \in 1 .. Len(queue) : Own(p) => Own(p)'
  BY <1>2, <1>3, <1>4, ContentsAfterKick DEF Own
<1>6. NoOwn => NoOwn'
  BY <1>2, <1>3 DEF NoOwn
<1>7. /\ flushing' = "batch" => waiting' /\ \E p \in 1 .. Len(queue') : Own(p)'
      /\ waiting' /\ flushing' # "batch" => NoOwn'
  BY <1>3, <1>5, <1>6, OwnIs
<1>8. QED
  BY <1>7 DEF OwnBatch, Own, NoOwn

LEMMA OwnStep == TypeOK /\ Accounted /\ OwnBatch /\ [Next]_vars => OwnBatch'
<1> SUFFICES ASSUME TypeOK, Accounted, OwnBatch, [Next]_vars PROVE OwnBatch'
  OBVIOUS
<1>1. /\ items \in Seq(Nat) /\ queue \in Seq(Known) /\ asked \subseteq Items /\ added \in Nat
  BY Kinds DEF TypeOK
<1>2. ASSUME UNCHANGED <<waiting, flushing, asked, queue>>, Done \subseteq Done'
      PROVE  OwnBatch'
  BY <1>2 DEF OwnBatch
<1>3. CASE Add
  <2>1. Append(items, added + 1) \in Seq(Nat)
    BY <1>1
  <2>2. UNCHANGED <<waiting, flushing, asked, over, late>>
    BY <1>3 DEF Add, calls
  <2>3. KickBatchOff(Append(items, added + 1), FALSE) \/ queue' = queue
    BY <1>3 DEF Add
  <2>4. QED
    BY <1>2, <2>1, <2>2, <2>3, OwnAfterKick DEF Done
<1>4. CASE \E item \in 1 .. added : RemoveAll(item)
  BY <1>2, <1>4 DEF RemoveAll, calls, Done
<1>5. CASE Fire
  <2>1. KickBatchOff(items, FALSE) /\ UNCHANGED <<waiting, flushing, asked, over, late>>
    BY <1>5 DEF Fire, TimerFires, NamelessTimerFires, calls
  <2>2. QED
    BY <1>1, <2>1, OwnAfterKick
<1>6. CASE EndBatch \/ BatchExpires
  <2>1. queue # <<>> /\ queue' = Tail(queue) /\ UNCHANGED <<waiting, asked>>
    BY <1>6 DEF EndBatch, BatchExpires, NextBatch
  <2>2. /\ flushing = "batch" /\ Head(queue).forFlush => flushing' # "batch"
        /\ ~(flushing = "batch" /\ Head(queue).forFlush) /\ flushing = "batch"
               => flushing' = "batch"
        /\ flushing # "batch" => flushing' # "batch"
    BY <1>6 DEF EndBatch, BatchExpires
  <2>3. Done \subseteq Done' /\ InBatch(Head(queue)) \subseteq Done'
    BY <1>6, DoneStep DEF Next, Process
  <2>4. /\ Len(queue) \in Nat /\ Len(queue) >= 1 /\ Len(queue') = Len(queue) - 1
        /\ Head(queue) = queue[1] /\ 1 \in 1 .. Len(queue)
        /\ \A k \in 1 .. Len(queue') : queue'[k] = queue[k + 1] /\ k + 1 \in 1 .. Len(queue)
                                       /\ k + 1 # 1
    BY <1>1, <2>1
  <2>5. NoOwn => NoOwn'
    BY <2>4 DEF NoOwn
  <2>6. ASSUME NEW p \in 1 .. Len(queue), Own(p), Head(queue).forFlush
        PROVE  NoOwn'
    BY <2>4, <2>6 DEF Own, NoOwn
  <2>7. ASSUME NEW p \in 1 .. Len(queue), Own(p), ~Head(queue).forFlush
        PROVE  p - 1 \in 1 .. Len(queue') /\ Own(p - 1)'
    <3>1. p # 1
      BY <2>4, <2>7 DEF Own
    <3>2. p - 1 \in 1 .. Len(queue')
      BY <2>4, <3>1
    <3>3. \A k \in 1 .. Len(queue') : k + 1 = p <=> k = p - 1
      BY <2>4
    <3>4. \A k \in 1 .. Len(queue') : queue'[k].forFlush <=> k = p - 1
      BY <2>4, <2>7, <3>3 DEF Own
    <3>5. UpTo(queue, p) = InBatch(Head(queue)) \cup UpTo(queue', p - 1)
      BY <1>1, <2>1, UpToTail
    <3>6. asked' \subseteq Done' \cup UpTo(queue', p - 1)
      BY <2>1, <2>3, <2>7, <3>5 DEF Own
    <3>7. QED
      BY <3>2, <3>4, <3>6 DEF Own
  <2>8. CASE flushing # "batch"
    BY <2>1, <2>2, <2>5, <2>8, OwnIs DEF OwnBatch, NoOwn
  <2>9. CASE flushing = "batch"
    <3>1. PICK p \in 1 .. Len(queue) : Own(p)
      BY <2>9, OwnIs
    <3>2. CASE Head(queue).forFlush
      BY <2>2, <2>6, <2>9, <3>1, <3>2 DEF OwnBatch, NoOwn
    <3>3. CASE ~Head(queue).forFlush
      <4>1. flushing' = "batch" /\ waiting'
        BY <2>1, <2>2, <2>9, <3>3 DEF OwnBatch
      <4>2. QED
        BY <2>7, <3>1, <3>3, <4>1 DEF OwnBatch, Own
    <3>4. QED
      BY <3>2, <3>3
  <2>10. QED
    BY <2>8, <2>9
<1>7. CASE EndLate
  BY <1>2, <1>7, DoneStep DEF EndLate, calls, Next, Process
<1>8. CASE FlushAndWait \/ FlushLoop
  <2>1. /\ flushing # "batch" /\ UNCHANGED <<waiting, added, over, late>>
        /\ asked' \in {asked, Items \ over}
        /\ \/ KickBatchOff(items, TRUE) /\ flushing' = IF waiting THEN "batch" ELSE "queue"
           \/ flushing' = "no" /\ queue' = queue
    BY <1>8 DEF FlushAndWait, FlushLoop, GoOnFlushing
  <2>2. asked' \subseteq Items
    BY <1>1, <2>1
  <2>3. Done' = Done
    BY <2>1 DEF Done
  <2>4. CASE flushing' = "no" /\ queue' = queue
    BY <2>1, <2>4 DEF OwnBatch
  <2>5. CASE KickBatchOff(items, TRUE) /\ waiting /\ flushing' = "batch"
    <3> DEFINE b == Batch(items, TRUE)
    <3>1. /\ queue' = Append(queue, b) /\ Len(queue') = Len(queue) + 1
          /\ UpTo(queue', Len(queue')) = UpTo(queue, Len(queue)) \cup ToSet(items)
      BY <1>1, <2>5, ContentsAfterKick
    <3>2. b.forFlush = TRUE
      BY DEF Batch
    <3> HIDE DEF b
    <3>3. /\ \A k \in 1 .. Len(queue) : queue'[k] = queue[k] /\ k # Len(queue')
          /\ queue'[Len(queue')] = b /\ Len(queue') \in 1 .. Len(queue')
          /\ \A k \in 1 .. Len(queue') : k \in 1 .. Len(queue) \/ k = Len(queue')
      BY <1>1, <3>1
    <3>4. NoOwn
      BY <2>1, <2>5, OwnIs
    <3>5. \A k \in 1 .. Len(queue') : queue'[k].forFlush <=> k = Len(queue')
      BY <3>2, <3>3, <3>4 DEF NoOwn
    <3>6. asked' \subseteq Done' \cup UpTo(queue', Len(queue'))
      BY <2>2, <2>3, <3>1 DEF Accounted
    <3>7. waiting' /\ flushing' = "batch"
      BY <2>1, <2>5
    <3>8. \E p \in 1 .. Len(queue') :
            /\ \A k \in 1 .. Len(queue') : queue'[k].forFlush <=> k = p
            /\ asked' \subseteq Done' \cup UpTo(queue', p)
      BY <3>3, <3>5, <3>6
    <3>9. QED
      BY <3>7, <3>8 DEF OwnBatch
  <2>6. CASE ~waiting /\ flushing' = "queue"
    BY <2>1, <2>6 DEF OwnBatch
  <2>7. QED
    BY <2>1, <2>4, <2>5, <2>6
<1>9. CASE OnIdle \/ IdleLoop
  BY <1>2, <1>9 DEF OnIdle, IdleLoop, Done
<1>10. CASE UNCHANGED vars
  BY <1>2, <1>10 DEF vars, calls, Done
<1>11. QED
  BY <1>3, <1>4, <1>5, <1>6, <1>7, <1>8, <1>9, <1>10 DEF Next, Process

-------------------------------------------------------------------------------
LEMMA InitInv == Init => Inv
<1> SUFFICES ASSUME Init PROVE Inv
  OBVIOUS
<1>1. TypeOK
  <2>1. Simple
    BY DEF Init, Simple
  <2>2. Counts
    BY SizeAssumption DEF Init, Counts
  <2>3. Timers
    <3>1. named \in BOOLEAN /\ nameless = 0
      BY DEF Init
    <3>2. QED
      BY <3>1 DEF Timers
  <2>4. Pieces
    BY SizeAssumption DEF Init, Pieces, ToSet
  <2>5. QED
    BY <2>1, <2>2, <2>3, <2>4, TypesAre
<1>2. AllInOrder
  BY DEF Init, AllInOrder, Ascending, Before, Behind, ToSet, Items
<1>3. Accounted
  BY DEF Init, Accounted, Items
<1>4. OwnBatch
  BY DEF Init, OwnBatch
<1>5. QED
  BY <1>1, <1>2, <1>3, <1>4 DEF Inv

LEMMA InvStep == Inv /\ [Next]_vars => Inv'
BY TypesStep, OrderStep, AccountedStep, OwnStep DEF Inv

\* The inductive invariant: the types, the order of the items, that each is accounted for
\* once, and whose batch it is.
THEOREM InvHolds == Spec => []Inv
BY InitInv, InvStep, PTL DEF Spec

\* The types, and that no batch is ever above maxSize: the check of add and the flushes
\* together keep what waits below it.
THEOREM TypeCorrect == Spec => []TypeOK
<1>1. Inv => TypeOK
  BY DEF Inv
<1>2. QED
  BY <1>1, InvHolds, PTL

\* No item is lost, doubled or overtaken on its way through items and queue to processBatch.
THEOREM NothingLostOrOvertaken == Spec => []AllInOrder
<1>1. Inv => AllInOrder
  BY DEF Inv
<1>2. QED
  BY <1>1, InvHolds, PTL

\* flushAndWait covers what was added before it was called: it loops until nothing is
\* pending, and when the wait batcher's fails with its own batch, that one was the first.
THEOREM FlushIsComplete == Spec => FlushCovers
<1>1. Inv /\ [Next]_vars =>
        [flushing # "no" /\ flushing' = "no" =>
            asked \ UNION {InBatch(batch) : batch \in late'} \subseteq over]_vars
  <2> SUFFICES ASSUME Inv, Next, flushing # "no", flushing' = "no"
               PROVE  asked \subseteq over \cup UNION {InBatch(batch) : batch \in late'}
    OBVIOUS
  <2>1. TypeOK /\ Accounted /\ OwnBatch /\ queue \in Seq(Known) /\ asked \subseteq Items
    BY Kinds DEF Inv, TypeOK
  <2>2. CASE FlushLoop
    <3>1. ~AnyPending /\ late' = late
      BY <2>2 DEF FlushLoop, GoOnFlushing
    <3>2. items = <<>> /\ queue = <<>>
      BY <3>1 DEF AnyPending
    <3>3. UpTo(queue, Len(queue)) = {} /\ ToSet(items) = {}
      BY <3>2 DEF UpTo, ToSet
    <3>4. QED
      BY <2>1, <3>1, <3>3 DEF Accounted, Done
  <2>3. CASE BatchExpires
    <3>1. /\ flushing = "batch" /\ queue # <<>> /\ Head(queue).forFlush
          /\ late' = late \cup {Head(queue)}
      BY <2>3 DEF BatchExpires
    <3>2. PICK p \in 1 .. Len(queue) : Own(p)
      BY <2>1, <3>1, OwnIs
    <3>3. Head(queue) = queue[1] /\ 1 \in 1 .. Len(queue)
      BY <2>1, <3>1
    <3>4. p = 1
      BY <3>1, <3>2, <3>3 DEF Own
    <3>5. UpTo(queue, p) = InBatch(Head(queue))
      BY <3>3, <3>4 DEF UpTo
    <3>6. QED
      BY <3>1, <3>2, <3>5 DEF Own, Done
  <2>4. CASE ~FlushLoop /\ ~BatchExpires
    <3>1. CASE EndBatch
      BY <3>1 DEF EndBatch
    <3>2. CASE FlushAndWait
      BY <3>2 DEF FlushAndWait
    <3>3. CASE ~EndBatch /\ ~FlushAndWait
      BY <2>4, <3>3 DEF Next, Process, Fire, Add, RemoveAll, TimerFires, NamelessTimerFires,
                        EndLate, OnIdle, IdleLoop, calls
    <3>4. QED
      BY <3>1, <3>2, <3>3
  <2>5. QED
    BY <2>2, <2>3, <2>4
<1>2. QED
  BY <1>1, InvHolds, PTL DEF Spec, FlushCovers
===============================================================================
