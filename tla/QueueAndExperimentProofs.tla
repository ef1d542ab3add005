---------------------- MODULE QueueAndExperimentProofs ----------------------
(***************************************************************************)
(* Proofs about two small components that share nothing.                   *)
(*                                                                         *)
(* PageQueueSpec, for every size of the ring and every set of values: the  *)
(* circular queue of as4.c implements the bounded first-in first-out       *)
(* queue.                                                                  *)
(*                                                                         *)
(* SchedulingExperiment, for any number of children, any length of a       *)
(* second and whichever forks fail: the elapsed times of assignment3.c are *)
(* exact, and its second loop waits for every child.                       *)
(***************************************************************************)
EXTENDS PageQueueSpec, SchedulingExperiment, FiniteSetTheorems, NaturalsInduction,
        WellFoundedInduction, TLAPS

-----------------------------------------------------------------------------
(* The queue of frames.                                                    *)

Ring(qq) == qq.front \in Slots /\ qq.rear \in Slots

(* A queue is empty or has both ends on the ring, and nothing between them *)
(* that was not queued.                                                    *)
Queue(qq) ==
  /\ qq \in [items : [Slots -> Int], front : Slots \cup {-1}, rear : Slots \cup {-1}]
  /\ Ring(qq) \/ (qq.front = -1 /\ qq.rear = -1)
  /\ \A s \in Live(qq) : qq.items[s] \in Values

QueueIInv == Queue(q)

-----------------------------------------------------------------------------
(* Arithmetic on the ring.                                                 *)

(* One turn of the ring at most.                                           *)
LEMMA Wrap ==
  ASSUME NEW x \in Nat, x < 2 * maxSize
  PROVE  x % maxSize = IF x < maxSize THEN x ELSE x - maxSize
<1>0. maxSize \in Nat /\ maxSize > 0
  BY MaxSizeAssumption
<1>1. CASE x < maxSize
  BY <1>0, <1>1
<1>2. CASE x >= maxSize
  BY <1>0, <1>2
<1> QED
  BY <1>0, <1>1, <1>2

LEMMA NextSlotValue ==
  ASSUME NEW s \in Slots
  PROVE  /\ NextSlot(s) = IF s = maxSize - 1 THEN 0 ELSE s + 1
         /\ NextSlot(s) \in Slots
<1>1. s + 1 \in Nat /\ s + 1 < 2 * maxSize
  BY MaxSizeAssumption DEF Slots
<1>2. PICK x \in Nat : x = s + 1
  BY <1>1
<1>3. x % maxSize = IF x < maxSize THEN x ELSE x - maxSize
  BY <1>1, <1>2, Wrap
<1>4. NextSlot(s) = x % maxSize
  BY Zenon, <1>2 DEF NextSlot
<1> QED
  BY <1>2, <1>3, <1>4, MaxSizeAssumption DEF Slots

LEMMA OffsetValue ==
  ASSUME NEW qq, qq.front \in Slots, NEW s \in Slots
  PROVE  Offset(qq, s) = IF s < qq.front THEN s - qq.front + maxSize ELSE s - qq.front
<1>1. s - qq.front + maxSize \in Nat /\ s - qq.front + maxSize < 2 * maxSize
  BY MaxSizeAssumption DEF Slots
<1>2. PICK x \in Nat : x = s - qq.front + maxSize
  BY <1>1
<1>3. Offset(qq, s) = IF x < maxSize THEN x ELSE x - maxSize
  BY <1>1, <1>2, Wrap DEF Offset
<1> QED
  BY <1>2, <1>3, MaxSizeAssumption DEF Slots

(* The slot of the k-th element.                                           *)
Place(qq, k) ==
  IF qq.front + k - 1 < maxSize THEN qq.front + k - 1 ELSE qq.front + k - 1 - maxSize

LEMMA ContentsValue ==
  ASSUME NEW qq, Ring(qq)
  PROVE  /\ Size(qq) \in 1 .. maxSize
         /\ Size(qq) = IF qq.rear < qq.front THEN qq.rear - qq.front + maxSize + 1
                       ELSE qq.rear - qq.front + 1
         /\ Contents(qq) = [k \in 1 .. Size(qq) |-> qq.items[Place(qq, k)]]
         /\ \A k \in 1 .. Size(qq) : Place(qq, k) \in Slots
<1>1. qq.front # -1 /\ qq.front \in Slots /\ qq.rear \in Slots
  BY MaxSizeAssumption DEF Ring, Slots
<1>2. Size(qq) = IF qq.rear < qq.front THEN qq.rear - qq.front + maxSize + 1
                 ELSE qq.rear - qq.front + 1
  BY <1>1, OffsetValue DEF Size, isEmpty, Slots
<1>3. Size(qq) \in 1 .. maxSize
  BY <1>1, <1>2, MaxSizeAssumption DEF Slots
<1>4. ASSUME NEW k \in 1 .. maxSize
      PROVE  (qq.front + k - 1) % maxSize = Place(qq, k) /\ Place(qq, k) \in Slots
  <2>1. qq.front + k - 1 \in Nat /\ qq.front + k - 1 < 2 * maxSize
    BY <1>1, <1>4, MaxSizeAssumption DEF Slots
  <2>2. PICK x \in Nat : x = qq.front + k - 1
    BY <2>1
  <2>3. x % maxSize = IF x < maxSize THEN x ELSE x - maxSize
    BY <2>1, <2>2, Wrap
  <2>4. (qq.front + k - 1) % maxSize = x % maxSize
    BY Zenon, <2>2
  <2> QED
    BY <1>1, <2>2, <2>3, <2>4, MaxSizeAssumption DEF Place, Slots
<1>5. \A k \in 1 .. Size(qq) : k \in 1 .. maxSize
  BY <1>3, MaxSizeAssumption
<1>6. Contents(qq) = [k \in 1 .. Size(qq) |-> qq.items[Place(qq, k)]]
  BY <1>4, <1>5 DEF Contents
<1> QED
  BY <1>2, <1>3, <1>4, <1>5, <1>6

LEMMA ContentsOfEmpty ==
  ASSUME NEW qq, qq.front = -1
  PROVE  Size(qq) = 0 /\ Contents(qq) = << >>
BY DEF Size, Contents, isEmpty

-----------------------------------------------------------------------------
(* The operations.                                                         *)

(* A sequence of n elements of S, given as a function.                     *)
LEMMA FunctionIsSeq ==
  ASSUME NEW n \in Nat, NEW S, NEW f \in [1 .. n -> S]
  PROVE  f \in Seq(S) /\ Len(f) = n
OBVIOUS

(* The slots the loops visit are those of the elements.                    *)
LEMMA LivePlaces ==
  ASSUME NEW qq, Ring(qq)
  PROVE  /\ \A k \in 1 .. Size(qq) : Place(qq, k) \in Live(qq) /\ Offset(qq, Place(qq, k)) = k - 1
         /\ \A s \in Live(qq) : /\ s \in Slots /\ Offset(qq, s) + 1 \in 1 .. Size(qq)
                                /\ Place(qq, Offset(qq, s) + 1) = s
<1>0. Size(qq) \in 1 .. maxSize /\ qq.front \in Slots /\ qq.rear \in Slots
  BY ContentsValue DEF Ring
<1>1. Offset(qq, qq.rear) = Size(qq) - 1 /\ ~isEmpty(qq)
  <2>1. Offset(qq, qq.rear) =
          IF qq.rear < qq.front THEN qq.rear - qq.front + maxSize ELSE qq.rear - qq.front
    BY <1>0, OffsetValue
  <2>2. Offset(qq, qq.rear) \in Int
    BY <1>0, <2>1, MaxSizeAssumption DEF Slots
  <2>3. ~isEmpty(qq)
    BY <1>0 DEF Slots, isEmpty
  <2> QED
    BY <2>2, <2>3 DEF Size
<1>2. ASSUME NEW k \in 1 .. Size(qq)
      PROVE  Place(qq, k) \in Live(qq) /\ Offset(qq, Place(qq, k)) = k - 1
  <2>1. Place(qq, k) \in Slots
    BY ContentsValue
  <2>2. Offset(qq, Place(qq, k)) = IF Place(qq, k) < qq.front THEN Place(qq, k) - qq.front + maxSize
                                   ELSE Place(qq, k) - qq.front
    BY <1>0, <2>1, OffsetValue
  <2>3. Offset(qq, Place(qq, k)) = k - 1
    BY <1>0, <2>1, <2>2, MaxSizeAssumption DEF Place, Slots
  <2> QED
    BY <1>0, <1>1, <2>1, <2>3 DEF Live
<1>3. ASSUME NEW s \in Live(qq)
      PROVE  /\ s \in Slots /\ Offset(qq, s) + 1 \in 1 .. Size(qq)
             /\ Place(qq, Offset(qq, s) + 1) = s
  <2>1. s \in Slots /\ Offset(qq, s) <= Size(qq) - 1
    BY <1>1, <1>3 DEF Live
  <2>2. Offset(qq, s) = IF s < qq.front THEN s - qq.front + maxSize ELSE s - qq.front
    BY <1>0, <2>1, OffsetValue
  <2> QED
    BY <1>0, <2>1, <2>2, MaxSizeAssumption DEF Place, Slots
<1> QED
  BY <1>2, <1>3

(* A queue holds values of the client.                                     *)
LEMMA ContentsType ==
  ASSUME NEW qq, Queue(qq)
  PROVE  /\ Contents(qq) \in Seq(Values) /\ Len(Contents(qq)) = Size(qq)
         /\ Size(qq) \in 0 .. maxSize
<1>1. CASE Ring(qq)
  <2>1. \A k \in 1 .. Size(qq) : qq.items[Place(qq, k)] \in Values
    BY <1>1, LivePlaces DEF Queue
  <2>2. Contents(qq) \in [1 .. Size(qq) -> Values] /\ Size(qq) \in Nat
    BY <1>1, <2>1, ContentsValue
  <2> QED
    BY <1>1, <2>2, FunctionIsSeq, ContentsValue
<1>2. CASE ~Ring(qq)
  <2>1. Size(qq) = 0 /\ Contents(qq) = << >>
    BY <1>2, ContentsOfEmpty DEF Queue
  <2> QED
    BY <2>1, MaxSizeAssumption
<1> QED
  BY <1>1, <1>2

(* And what has the shape and holds values of the client is a queue.       *)
LEMMA QueueOf ==
  ASSUME NEW qq \in [items : [Slots -> Int], front : Slots \cup {-1}, rear : Slots \cup {-1}],
         Ring(qq), \A k \in 1 .. Size(qq) : qq.items[Place(qq, k)] \in Values
  PROVE  Queue(qq)
BY LivePlaces DEF Queue

LEMMA SameSeq ==
  ASSUME NEW S, NEW s \in Seq(S), NEW t \in Seq(S), Len(s) = Len(t),
         \A k \in 1 .. Len(s) : s[k] = t[k]
  PROVE  s = t
OBVIOUS

(* enqueue() appends, or refuses when the ring is full.                    *)
LEMMA Enqueued ==
  ASSUME NEW qq, Queue(qq), NEW v \in Values, NEW r, r = enqueue(qq, v)
  PROVE  /\ Queue(r)
         /\ isFull(qq) <=> Len(Contents(qq)) = maxSize
         /\ isFull(qq) => Contents(r) = Contents(qq)
         /\ ~isFull(qq) => Contents(r) = Append(Contents(qq), v)
<1>0. v \in Int /\ maxSize \in Nat /\ maxSize > 0 /\ 0 \in Slots
  BY ClientAssumption, MaxSizeAssumption DEF Slots
<1>1. CASE ~Ring(qq)
  <2>1. qq.front = -1 /\ qq.rear = -1 /\ qq.items \in [Slots -> Int]
    BY <1>1 DEF Queue
  <2>2. NextSlot(-1) = 0
    BY <1>0 DEF NextSlot
  <2>3. r = [items |-> [qq.items EXCEPT ![0] = v], front |-> 0, rear |-> 0] /\ ~isFull(qq)
    BY <2>1, <2>2 DEF enqueue, isFull, isEmpty
  <2>4. Ring(r) /\ Size(r) = 1 /\ Place(r, 1) = 0
    BY <1>0, <2>3, ContentsValue DEF Ring, Place
  <2>5. r.items[0] = v
    BY <1>0, <2>1, <2>3
  <2>6. Queue(r)
    <3>1. r \in [items : [Slots -> Int], front : Slots \cup {-1}, rear : Slots \cup {-1}]
      BY <1>0, <2>1, <2>3
    <3> QED
      BY <2>4, <2>5, <3>1, QueueOf
  <2>7. Contents(qq) = << >> /\ Contents(r) = [k \in 1 .. 1 |-> v]
    <3>1. Contents(r) = [k \in 1 .. Size(r) |-> r.items[Place(r, k)]]
      BY Zenon, <2>4, ContentsValue
    <3>2. \A k \in 1 .. 1 : r.items[Place(r, k)] = v
      BY <2>4, <2>5
    <3>3. Contents(r) = [k \in 1 .. 1 |-> v]
      BY <2>4, <3>1, <3>2
    <3> QED
      BY <2>1, <3>3, ContentsOfEmpty
  <2> QED
    BY <1>0, <2>3, <2>6, <2>7
<1>2. CASE Ring(qq) /\ isFull(qq)
  <2>1. r = qq
    BY <1>2 DEF enqueue
  <2>2. Size(qq) = maxSize
    <3>1. /\ qq.front \in Slots /\ qq.rear \in Slots
          /\ Size(qq) = IF qq.rear < qq.front THEN qq.rear - qq.front + maxSize + 1
                        ELSE qq.rear - qq.front + 1
      BY <1>2, ContentsValue DEF Ring
    <3>2. qq.front = IF qq.rear = maxSize - 1 THEN 0 ELSE qq.rear + 1
      BY <1>2, <3>1, NextSlotValue DEF isFull
    <3> QED
      BY <1>0, <3>1, <3>2 DEF Slots
  <2> QED
    BY <1>2, <2>1, <2>2, ContentsType
<1>3. CASE Ring(qq) /\ ~isFull(qq)
  <2> DEFINE n == NextSlot(qq.rear)
  <2>0. n \in Slots /\ n = IF qq.rear = maxSize - 1 THEN 0 ELSE qq.rear + 1
    BY <1>3, NextSlotValue DEF Ring
  <2>1. r = [items |-> [qq.items EXCEPT ![n] = v], front |-> qq.front, rear |-> n]
    BY <1>0, <1>3 DEF enqueue, isEmpty, Ring, Slots
  <2> HIDE DEF n
  <2>2. Ring(r) /\ r.front = qq.front /\ r.rear = n /\ n # qq.front
    BY <1>3, <2>0, <2>1 DEF Ring, isFull, n
  <2>s. /\ qq.front \in Slots /\ qq.rear \in Slots
        /\ Size(qq) = IF qq.rear < qq.front THEN qq.rear - qq.front + maxSize + 1
                      ELSE qq.rear - qq.front + 1
        /\ Size(r) = IF n < qq.front THEN n - qq.front + maxSize + 1 ELSE n - qq.front + 1
    BY <1>3, <2>2, ContentsValue DEF Ring
  <2>3. Size(r) = Size(qq) + 1 /\ Size(qq) \in 1 .. maxSize - 1
    BY <1>0, <2>0, <2>2, <2>s DEF Slots
  <2>4. Place(r, Size(qq) + 1) = n
    BY <1>0, <2>0, <2>2, <2>3, <2>s DEF Place, Slots
  <2>5. ASSUME NEW k \in 1 .. Size(qq)
        PROVE  Place(r, k) = Place(qq, k) /\ Place(qq, k) # n /\ Place(qq, k) \in Slots
    <3>1. Place(r, k) = Place(qq, k) /\ Place(qq, k) \in Slots
      BY <1>3, <2>2, ContentsValue DEF Place
    <3>2. Place(qq, k) # n
      BY <1>0, <2>0, <2>2, <2>3, <2>5, <2>s DEF Place, Slots
    <3> QED
      BY <3>1, <3>2
  <2>6. qq.items \in [Slots -> Int] /\ r.items = [qq.items EXCEPT ![n] = v]
    BY <2>1 DEF Queue
  <2>7. /\ r.items[Place(r, Size(qq) + 1)] = v
        /\ \A k \in 1 .. Size(qq) : r.items[Place(r, k)] = qq.items[Place(qq, k)]
    BY <2>0, <2>4, <2>5, <2>6
  <2>8. Queue(r)
    <3>1. r \in [items : [Slots -> Int], front : Slots \cup {-1}, rear : Slots \cup {-1}]
      BY <1>0, <1>3, <2>0, <2>1, <2>6 DEF Ring
    <3>2. \A k \in 1 .. Size(qq) : qq.items[Place(qq, k)] \in Values
      BY <1>3, LivePlaces DEF Queue
    <3>3. \A k \in 1 .. Size(r) : r.items[Place(r, k)] \in Values
      BY <2>3, <2>7, <3>2
    <3> QED
      BY <2>2, <3>1, <3>3, QueueOf
  <2>9. Contents(r) = Append(Contents(qq), v) /\ Len(Contents(qq)) # maxSize
    <3>1. /\ Contents(qq) \in Seq(Values) /\ Len(Contents(qq)) = Size(qq)
          /\ Contents(r) \in Seq(Values) /\ Len(Contents(r)) = Size(r)
      BY <2>8, ContentsType
    <3>2. \A k \in 1 .. Size(qq) : Contents(r)[k] = Contents(qq)[k]
      BY <1>3, <2>2, <2>3, <2>7, ContentsValue
    <3>3. Contents(r)[Size(qq) + 1] = v
      BY <2>2, <2>3, <2>7, ContentsValue
    <3> QED
      BY <2>3, <3>1, <3>2, <3>3
  <2> QED
    BY <1>3, <2>8, <2>9
<1> QED
  BY <1>1, <1>2, <1>3

(* dequeue() takes the oldest value, and the last one leaves a new ring.   *)
LEMMA Dequeued ==
  ASSUME NEW qq, Queue(qq), NEW r, r = dequeue(qq)
  PROVE  /\ Queue(r)
         /\ isEmpty(qq) => Contents(qq) = << >> /\ r = qq
         /\ ~isEmpty(qq) => /\ Contents(qq) # << >> /\ dequeuedItem(qq) = Head(Contents(qq))
                            /\ Contents(r) = Tail(Contents(qq))
<1>0. maxSize \in Nat /\ maxSize > 0
  BY MaxSizeAssumption
<1>1. CASE ~Ring(qq)
  <2>1. qq.front = -1 /\ isEmpty(qq)
    BY <1>1 DEF Queue, isEmpty
  <2> QED
    BY <2>1, ContentsOfEmpty DEF dequeue
<1>2. CASE Ring(qq)
  <2>0. /\ ~isEmpty(qq) /\ qq.front \in Slots /\ qq.rear \in Slots
        /\ Size(qq) \in 1 .. maxSize
        /\ Size(qq) = IF qq.rear < qq.front THEN qq.rear - qq.front + maxSize + 1
                      ELSE qq.rear - qq.front + 1
    BY <1>0, <1>2, ContentsValue DEF Ring, isEmpty, Slots
  <2>1. /\ Contents(qq) \in Seq(Values) /\ Len(Contents(qq)) = Size(qq)
        /\ Contents(qq) = [k \in 1 .. Size(qq) |-> qq.items[Place(qq, k)]]
    BY <1>2, ContentsType, ContentsValue
  <2>2. Place(qq, 1) = qq.front
    BY <1>0, <2>0 DEF Place, Slots
  <2>3. Contents(qq) # << >> /\ dequeuedItem(qq) = Head(Contents(qq))
    BY <1>0, <2>0, <2>1, <2>2 DEF dequeuedItem
  <2>4. CASE qq.front = qq.rear
    <3>1. r = initializePageQueue
      BY <2>0, <2>4 DEF dequeue
    <3>2. r.front = -1 /\ r.rear = -1
          /\ r \in [items : [Slots -> Int], front : Slots \cup {-1}, rear : Slots \cup {-1}]
      BY <3>1 DEF initializePageQueue, Uninit
    <3>3. Queue(r) /\ Contents(r) = << >>
      BY <3>2, ContentsOfEmpty DEF Queue, Live, isEmpty
    <3>4. Size(qq) = 1
      BY <1>0, <2>0, <2>4 DEF Slots
    <3>5. Tail(Contents(qq)) = << >>
      BY <2>1, <3>4
    <3> QED
      BY <2>0, <2>3, <3>3, <3>5
  <2>5. CASE qq.front # qq.rear
    <3> DEFINE n == NextSlot(qq.front)
    <3>1. n \in Slots /\ n = IF qq.front = maxSize - 1 THEN 0 ELSE qq.front + 1
      BY <2>0, NextSlotValue
    <3>2. r = [qq EXCEPT !.front = n]
      BY <2>0, <2>5 DEF dequeue
    <3> HIDE DEF n
    <3>3. /\ qq \in [items : [Slots -> Int], front : Slots \cup {-1}, rear : Slots \cup {-1}]
          /\ r \in [items : [Slots -> Int], front : Slots \cup {-1}, rear : Slots \cup {-1}]
          /\ r.items = qq.items /\ r.front = n /\ r.rear = qq.rear
      BY <3>1, <3>2 DEF Queue
    <3>4. Ring(r)
      BY <2>0, <3>1, <3>3 DEF Ring
    <3>5. Size(r) = IF qq.rear < n THEN qq.rear - n + maxSize + 1 ELSE qq.rear - n + 1
      BY <3>3, <3>4, ContentsValue
    <3>6. Size(r) = Size(qq) - 1 /\ Size(r) \in 1 .. maxSize
      <4>1. CASE qq.front = maxSize - 1
        BY <1>0, <2>0, <2>5, <3>1, <3>5, <4>1 DEF Slots
      <4>2. CASE qq.front # maxSize - 1
        BY <1>0, <2>0, <2>5, <3>1, <3>5, <4>2 DEF Slots
      <4> QED
        BY <4>1, <4>2
    <3>7. ASSUME NEW k \in 1 .. Size(r) PROVE Place(r, k) = Place(qq, k + 1)
      <4>1. k \in Nat /\ k <= maxSize
        BY <1>0, <3>6
      <4>2. CASE qq.front = maxSize - 1
        BY <1>0, <2>0, <3>1, <3>3, <4>1, <4>2 DEF Place, Slots
      <4>3. CASE qq.front # maxSize - 1
        <5>1. r.front = qq.front + 1
          BY <3>1, <3>3, <4>3
        <5>2. qq.front \in Int
          BY <2>0 DEF Slots
        <5>3. r.front + k - 1 = qq.front + (k + 1) - 1
          BY <4>1, <5>1, <5>2
        <5>4. Place(r, k) = IF r.front + k - 1 < maxSize THEN r.front + k - 1
                            ELSE r.front + k - 1 - maxSize
          BY Zenon DEF Place
        <5>5. Place(qq, k + 1) = IF qq.front + (k + 1) - 1 < maxSize THEN qq.front + (k + 1) - 1
                                 ELSE qq.front + (k + 1) - 1 - maxSize
          BY Zenon DEF Place
        <5> QED
          BY <1>0, <4>1, <5>1, <5>2, <5>4, <5>5
      <4> QED
        BY <4>2, <4>3
    <3>8. \A k \in 1 .. Size(r) : r.items[Place(r, k)] = Contents(qq)[k + 1]
      BY <2>0, <2>1, <3>3, <3>6, <3>7
    <3>9. Queue(r)
      <4>1. \A k \in 1 .. Size(qq) : Contents(qq)[k] \in Values
        BY <1>2, <2>1, LivePlaces DEF Queue
      <4>2. \A k \in 1 .. Size(r) : r.items[Place(r, k)] \in Values
        BY <2>0, <3>6, <3>8, <4>1
      <4> QED
        BY <3>3, <3>4, <4>2, QueueOf
    <3>10. Contents(r) = Tail(Contents(qq))
      <4>1. /\ Contents(r) \in Seq(Values) /\ Len(Contents(r)) = Size(r)
            /\ Contents(r) = [k \in 1 .. Size(r) |-> r.items[Place(r, k)]]
        BY <3>4, <3>9, ContentsType, ContentsValue
      <4>2. Tail(Contents(qq)) \in Seq(Values) /\ Len(Tail(Contents(qq))) = Size(r)
        BY <2>0, <2>1, <3>6
      <4>3. \A k \in 1 .. Size(r) : Tail(Contents(qq))[k] = Contents(qq)[k + 1]
        BY <2>0, <2>1, <3>6
      <4>4. \A k \in 1 .. Size(r) : Contents(r)[k] = Tail(Contents(qq))[k]
        BY Zenon, <3>8, <4>1, <4>3
      <4> QED
        BY Zenon, <4>1, <4>2, <4>4, SameSeq
    <3> QED
      BY <2>0, <2>3, <3>9, <3>10
  <2> QED
    BY <2>4, <2>5
<1> QED
  BY <1>1, <1>2

(* A set of numbers has a least one.                                       *)
LEMMA Least ==
  ASSUME NEW S \in SUBSET Nat, S # {}
  PROVE  \E x \in S : \A y \in S : x <= y
<1> DEFINE R == OpToRel(<, Nat)
<1>1. IsWellFoundedOn(R, Nat)
  BY Zenon, NatLessThanWellFounded
<1>2. \A x, y \in S : y < x => <<y, x>> \in R
  BY DEF OpToRel
<1> HIDE DEF R
<1>3. PICK x \in S : \A y \in S : ~ (<<y, x>> \in R)
  BY Zenon, <1>1, WFMin
<1>4. \A y \in S : ~ (y < x)
  BY Zenon, <1>2, <1>3
<1> QED
  BY <1>4

(* findPositionInQueue() finds the first occurrence, or none.              *)
LEMMA Found ==
  ASSUME NEW qq, Queue(qq), Ring(qq), NEW v \in Values,
         NEW pos, pos = findPositionInQueue(qq, v)
  PROVE  \/ /\ pos = -1
            /\ \A k \in 1 .. Size(qq) : qq.items[Place(qq, k)] # v
         \/ /\ pos \in Slots
            /\ \E j \in 1 .. Size(qq) :
                 /\ pos = Place(qq, j) /\ Offset(qq, pos) = j - 1 /\ qq.items[pos] = v
                 /\ \A k \in 1 .. j - 1 : qq.items[Place(qq, k)] # v
<1> DEFINE found == {s \in Live(qq) : qq.items[s] = v}
           offsets == {Offset(qq, s) : s \in found}
<1>0. Size(qq) \in 1 .. maxSize /\ maxSize \in Nat
  BY ContentsValue, MaxSizeAssumption
<1>1. pos = IF found = {} THEN -1
            ELSE CHOOSE s \in found : \A t \in found : Offset(qq, s) <= Offset(qq, t)
  BY Zenon DEF findPositionInQueue
<1>2. CASE found = {}
  <2>1. \A k \in 1 .. Size(qq) : Place(qq, k) \notin found
    BY Zenon, <1>2
  <2>2. \A k \in 1 .. Size(qq) : qq.items[Place(qq, k)] # v
    BY Zenon, <2>1, LivePlaces
  <2> QED
    BY Zenon, <1>1, <1>2, <2>2
<1>3. CASE found # {}
  <2>1. \A s \in found : s \in Live(qq) /\ s \in Slots /\ Offset(qq, s) + 1 \in 1 .. Size(qq)
    BY Zenon, LivePlaces
  <2>2. \A s \in found : Offset(qq, s) \in Int
    BY LivePlaces, OffsetValue, MaxSizeAssumption DEF Ring, Slots
  <2>3. offsets \in SUBSET Nat /\ offsets # {}
    BY <1>0, <1>3, <2>1, <2>2
  <2> HIDE DEF offsets
  <2>4. PICK x \in offsets : \A y \in offsets : x <= y
    BY Zenon, <2>3, Least
  <2>5. PICK s \in found : Offset(qq, s) = x
    BY Zenon, <2>4 DEF offsets
  <2>6. \A t \in found : Offset(qq, s) <= Offset(qq, t)
    BY Zenon, <2>4, <2>5 DEF offsets
  <2>7. pos \in found /\ \A t \in found : Offset(qq, pos) <= Offset(qq, t)
    BY Zenon, <1>1, <1>3, <2>6
  <2>8. PICK j \in 1 .. Size(qq) : j = Offset(qq, pos) + 1
    BY Zenon, <2>1, <2>7
  <2>9. pos = Place(qq, j) /\ pos \in Slots /\ qq.items[pos] = v /\ Offset(qq, pos) = j - 1
    <3>1. pos = Place(qq, j) /\ pos \in Slots /\ qq.items[pos] = v
      BY Zenon, <2>7, <2>8, LivePlaces
    <3>2. Offset(qq, pos) = j - 1
      BY Zenon, <3>1, LivePlaces
    <3> QED
      BY Zenon, <3>1, <3>2
  <2>10. ASSUME NEW k \in 1 .. j - 1 PROVE qq.items[Place(qq, k)] # v
    <3>1. k \in 1 .. Size(qq) /\ ~(j - 1 <= k - 1)
      BY <1>0, <2>8
    <3>2. Place(qq, k) \in Live(qq) /\ Offset(qq, Place(qq, k)) = k - 1
      BY Zenon, <3>1, LivePlaces
    <3>3. Place(qq, k) \notin found
      BY Zenon, <2>7, <2>9, <3>1, <3>2
    <3> QED
      BY Zenon, <3>2, <3>3
  <2> QED
    BY Zenon, <2>9, <2>10
<1> QED
  BY Zenon, <1>2, <1>3

(* removeFrameFromQueue() on three or more values takes out one of them.   *)
LEMMA Removed ==
  ASSUME NEW qq, Queue(qq), Ring(qq), Size(qq) >= 3, NEW v \in Values,
         NEW j \in 1 .. Size(qq), NEW pos \in Slots, pos = findPositionInQueue(qq, v),
         pos = Place(qq, j), Offset(qq, pos) = j - 1, NEW r, r = removeFrameFromQueue(qq, v)
  PROVE  /\ Queue(r) /\ Size(r) = Size(qq) - 1 /\ Ring(r)
         /\ \A k \in 1 .. Size(r) :
              Contents(r)[k] = IF k < j THEN Contents(qq)[k] ELSE Contents(qq)[k + 1]
<1>0. /\ maxSize \in Nat /\ maxSize > 0 /\ qq.front \in Slots /\ qq.rear \in Slots
      /\ Size(qq) \in 1 .. maxSize
      /\ Size(qq) = IF qq.rear < qq.front THEN qq.rear - qq.front + maxSize + 1
                    ELSE qq.rear - qq.front + 1
  BY ContentsValue, MaxSizeAssumption DEF Ring
<1> DEFINE shifted == [s \in Slots |->
                         IF s = qq.rear THEN -1
                         ELSE IF Offset(qq, pos) <= Offset(qq, s) /\ Offset(qq, s) < Offset(qq, qq.rear)
                              THEN qq.items[NextSlot(s)] ELSE qq.items[s]]
           e == (qq.rear - 1 + maxSize) % maxSize
<1>1. e = (IF qq.rear = 0 THEN maxSize - 1 ELSE qq.rear - 1) /\ e \in Slots /\ e # qq.front
  <2>1. PICK x \in Nat : x = qq.rear - 1 + maxSize
    BY <1>0 DEF Slots
  <2>2. x % maxSize = IF x < maxSize THEN x ELSE x - maxSize
    BY <1>0, <2>1, Wrap DEF Slots
  <2>3. e = x % maxSize
    BY Zenon, <2>1
  <2> HIDE DEF e
  <2>4. e = IF qq.rear = 0 THEN maxSize - 1 ELSE qq.rear - 1
    BY <1>0, <2>1, <2>2, <2>3 DEF Slots
  <2>5. e \in Slots
    BY <1>0, <2>4 DEF Slots
  <2>6. e # qq.front
    BY <1>0, <2>4 DEF Slots
  <2> QED
    BY Zenon, <2>4, <2>5, <2>6
<1>2. r = [items |-> shifted, front |-> qq.front, rear |-> e]
  <2>1. pos # -1
    BY DEF Slots
  <2> QED
    BY Zenon, <1>1, <2>1 DEF removeFrameFromQueue
<1> HIDE DEF e
<1>3. /\ qq.items \in [Slots -> Int] /\ \A s \in Slots : NextSlot(s) \in Slots
  BY NextSlotValue DEF Queue
<1>4. shifted \in [Slots -> Int]
  BY <1>3
<1> HIDE DEF shifted
<1>5. r.items = shifted /\ r.front = qq.front /\ r.rear = e
  BY <1>2
<1>6. Offset(qq, qq.rear) = Size(qq) - 1
  BY <1>0, OffsetValue DEF Slots
<1>7. ASSUME NEW k \in 1 .. Size(qq) - 1
      PROVE  /\ Place(qq, k) \in Slots /\ Place(qq, k) # qq.rear
             /\ NextSlot(Place(qq, k)) = Place(qq, k + 1)
             /\ Offset(qq, Place(qq, k)) = k - 1 /\ k - 1 < Size(qq) - 1
  <2>1. k \in 1 .. Size(qq) /\ k - 1 < Size(qq) - 1 /\ k \in Nat
    BY <1>0
  <2>2. Place(qq, k) \in Slots /\ Offset(qq, Place(qq, k)) = k - 1
    BY Zenon, <2>1, ContentsValue, LivePlaces
  <2>3. Place(qq, k) # qq.rear
    BY <1>0, <1>6, <2>1, <2>2
  <2>4. NextSlot(Place(qq, k)) = IF Place(qq, k) = maxSize - 1 THEN 0 ELSE Place(qq, k) + 1
    BY Zenon, <2>2, NextSlotValue
  <2>5. NextSlot(Place(qq, k)) = Place(qq, k + 1)
    BY <1>0, <2>1, <2>2, <2>4 DEF Place, Slots
  <2> QED
    BY Zenon, <2>1, <2>2, <2>3, <2>5
<1>8. Ring(r) /\ Size(r) = Size(qq) - 1
  <2>1. Ring(r)
    BY Zenon, <1>0, <1>1, <1>5 DEF Ring
  <2>2. Size(r) = IF e < qq.front THEN e - qq.front + maxSize + 1 ELSE e - qq.front + 1
    BY <1>5, <2>1, ContentsValue
  <2> QED
    BY <1>0, <1>1, <2>1, <2>2 DEF Slots
<1>9. ASSUME NEW k \in 1 .. Size(qq) - 1
      PROVE  r.items[Place(r, k)] = IF k < j THEN qq.items[Place(qq, k)]
                                    ELSE qq.items[Place(qq, k + 1)]
  <2>1. Place(r, k) = Place(qq, k)
    BY Zenon, <1>5 DEF Place
  <2>2. shifted[Place(qq, k)] = IF j - 1 <= k - 1 THEN qq.items[Place(qq, k + 1)]
                                ELSE qq.items[Place(qq, k)]
    BY Zenon, <1>6, <1>7 DEF shifted
  <2>3. j - 1 <= k - 1 <=> ~(k < j)
    BY <1>0
  <2> QED
    BY Zenon, <1>5, <2>1, <2>2, <2>3
<1>10. \A k \in 1 .. Size(qq) : qq.items[Place(qq, k)] \in Values
  BY Zenon, LivePlaces DEF Queue
<1>11. ASSUME NEW k \in 1 .. Size(r)
       PROVE  k \in 1 .. Size(qq) - 1 /\ k \in 1 .. Size(qq) /\ k + 1 \in 1 .. Size(qq)
  BY <1>0, <1>8
<1>12. Queue(r)
  <2>1. r \in [items : [Slots -> Int], front : Slots \cup {-1}, rear : Slots \cup {-1}]
    BY <1>0, <1>1, <1>2, <1>4
  <2>2. \A k \in 1 .. Size(r) : r.items[Place(r, k)] \in Values
    BY Zenon, <1>9, <1>10, <1>11
  <2> QED
    BY Zenon, <1>8, <2>1, <2>2, QueueOf
<1>13. /\ Contents(r) = [k \in 1 .. Size(r) |-> r.items[Place(r, k)]]
       /\ Contents(qq) = [k \in 1 .. Size(qq) |-> qq.items[Place(qq, k)]]
  BY ZenonT(60), <1>8, ContentsValue
<1>14. ASSUME NEW k \in 1 .. Size(r)
       PROVE  Contents(r)[k] = IF k < j THEN Contents(qq)[k] ELSE Contents(qq)[k + 1]
  <2>1. Contents(r)[k] = r.items[Place(r, k)]
    BY Zenon, <1>13
  <2>2. /\ Contents(qq)[k] = qq.items[Place(qq, k)]
        /\ Contents(qq)[k + 1] = qq.items[Place(qq, k + 1)]
    BY Zenon, <1>11, <1>13
  <2>3. r.items[Place(r, k)] = IF k < j THEN qq.items[Place(qq, k)]
                               ELSE qq.items[Place(qq, k + 1)]
    BY Zenon, <1>9, <1>11
  <2> QED
    BY Zenon, <2>1, <2>2, <2>3
<1> QED
  BY Zenon, <1>8, <1>12, <1>14

(* A sequence without one of its elements.                                 *)
LEMMA WithoutOne ==
  ASSUME NEW C \in Seq(Values), NEW j \in 1 .. Len(C),
         NEW D, D = SubSeq(C, 1, j - 1) \o SubSeq(C, j + 1, Len(C))
  PROVE  /\ D \in Seq(Values) /\ Len(D) = Len(C) - 1
         /\ \A k \in 1 .. Len(C) - 1 : D[k] = IF k < j THEN C[k] ELSE C[k + 1]
<1> DEFINE a == SubSeq(C, 1, j - 1)
           b == SubSeq(C, j + 1, Len(C))
<1>1. /\ a \in Seq(Values) /\ Len(a) = j - 1
      /\ \A k \in 1 .. j - 1 : a[k] = C[k]
  OBVIOUS
<1>2. /\ b \in Seq(Values) /\ Len(b) = Len(C) - j
      /\ \A k \in 1 .. Len(C) - j : b[k] = C[j + k]
  OBVIOUS
<1> HIDE DEF a, b
<1>3. a \o b \in Seq(Values) /\ Len(a \o b) = Len(C) - 1
  <2>0. a \in Seq(Values) /\ b \in Seq(Values)
    BY Zenon, <1>1, <1>2
  <2>1. a \o b \in Seq(Values)
    BY <2>0
  <2>2. Len(a \o b) = Len(a) + Len(b)
    BY <2>0
  <2>3. Len(C) \in Nat /\ j \in Nat
    OBVIOUS
  <2>4. Len(a) + Len(b) = Len(C) - 1
    BY <1>1, <1>2, <2>3
  <2> QED
    BY Zenon, <2>1, <2>2, <2>4
<1>4. ASSUME NEW k \in 1 .. Len(C) - 1
       PROVE  (a \o b)[k] = IF k < j THEN C[k] ELSE C[k + 1]
  <2>1. (a \o b)[k] = IF k <= Len(a) THEN a[k] ELSE b[k - Len(a)]
    BY <1>1, <1>2
  <2>2. CASE k < j
    BY <1>1, <2>1, <2>2
  <2>3. CASE ~(k < j)
    <3>1. k - Len(a) = k - (j - 1) /\ k - (j - 1) \in 1 .. Len(C) - j /\ ~(k <= Len(a))
      BY <1>1, <2>3
    <3>2. b[k - (j - 1)] = C[j + (k - (j - 1))]
      BY Zenon, <1>2, <3>1
    <3>3. j + (k - (j - 1)) = k + 1
      OBVIOUS
    <3> QED
      BY Zenon, <2>1, <2>3, <3>1, <3>2, <3>3
  <2> QED
    BY Zenon, <2>2, <2>3
<1> QED
  BY Zenon, <1>3, <1>4 DEF a, b

-----------------------------------------------------------------------------
(* The steps.                                                              *)

LEMMA InitQueue == QueueInit => QueueIInv /\ Contents(q) = << >>
<1> SUFFICES ASSUME QueueInit PROVE QueueIInv /\ Contents(q) = << >>
  OBVIOUS
<1>1. q = [items |-> [s \in Slots |-> Uninit], front |-> -1, rear |-> -1]
  BY Zenon DEF QueueInit, initializePageQueue
<1>2. q.front = -1 /\ q.rear = -1
  BY <1>1
<1>3. Live(q) = {}
  BY Zenon, <1>2 DEF Live, isEmpty
<1>4. q \in [items : [Slots -> Int], front : Slots \cup {-1}, rear : Slots \cup {-1}]
  BY <1>1 DEF Uninit
<1>5. Contents(q) = << >>
  BY Zenon, <1>2, ContentsOfEmpty
<1> QED
  BY Zenon, <1>2, <1>3, <1>4, <1>5 DEF QueueIInv, Queue

LEMMA EnqueueStep ==
  ASSUME QueueIInv, NEW v \in Values, Enqueue(v)
  PROVE  QueueIInv' /\ Fifo!Enqueue(v)
<1>1. q' = enqueue(q, v) /\ ret' = IF isFull(q) THEN -1 ELSE 0
  BY Zenon DEF Enqueue, enqueueResult
<1>2. Queue(q) /\ Queue(q')
  BY Zenon, <1>1, Enqueued DEF QueueIInv
<1>3. /\ isFull(q) <=> Len(Contents(q)) = maxSize
      /\ isFull(q) => Contents(q') = Contents(q)
      /\ ~isFull(q) => Contents(q') = Append(Contents(q), v)
  BY Zenon, <1>1, <1>2, Enqueued
<1>4. Contents(q)' = Contents(q') /\ Queue(q)' = Queue(q')
  BY DEF Contents, Size, isEmpty, Offset, Queue, Ring, Live
<1> QED
  BY Zenon, <1>1, <1>2, <1>3, <1>4 DEF QueueIInv, Fifo!Enqueue

LEMMA DequeueStep ==
  ASSUME QueueIInv, Dequeue
  PROVE  QueueIInv' /\ Fifo!Dequeue
<1>1. q' = dequeue(q) /\ ret' = dequeuedItem(q)
  BY Zenon DEF Dequeue
<1>2. Queue(q) /\ Queue(q')
  BY Zenon, <1>1, Dequeued DEF QueueIInv
<1>3. /\ isEmpty(q) => Contents(q) = << >> /\ q' = q /\ ret' = -1
      /\ ~isEmpty(q) => /\ Contents(q) # << >> /\ ret' = Head(Contents(q))
                        /\ Contents(q') = Tail(Contents(q))
  BY Zenon, <1>1, <1>2, Dequeued DEF dequeuedItem
<1>4. Contents(q)' = Contents(q') /\ Queue(q)' = Queue(q')
  BY DEF Contents, Size, isEmpty, Offset, Queue, Ring, Live
<1> QED
  BY Zenon, <1>1, <1>2, <1>3, <1>4 DEF QueueIInv, Fifo!Dequeue

LEMMA RemoveStep ==
  ASSUME QueueIInv, NEW v \in Values, Remove(v)
  PROVE  QueueIInv' /\ Fifo!RemoveValue(v)
<1>1. q' = removeFrameFromQueue(q, v) /\ ret' = 0 /\ Queue(q)
  BY Zenon DEF Remove, QueueIInv
<1>2. Size(q) >= 3 /\ Size(q) \in Nat /\ Len(Contents(q)) = Size(q) /\ Contents(q) \in Seq(Values)
  <2>1. /\ Contents(q) \in Seq(Values) /\ Len(Contents(q)) = Size(q)
        /\ Size(q) \in 0 .. maxSize
    BY Zenon, <1>1, ContentsType
  <2>2. Size(q) >= MinRemove
    BY Zenon DEF Remove
  <2> QED
    BY <2>1, <2>2, ClientAssumption, MaxSizeAssumption
<1>3. Ring(q)
  <2>1. q.front = -1 => Size(q) = 0
    BY Zenon, ContentsOfEmpty
  <2> QED
    BY <1>1, <1>2, <2>1 DEF Queue
<1>4. Contents(q)' = Contents(q') /\ Queue(q)' = Queue(q')
  BY DEF Contents, Size, isEmpty, Offset, Queue, Ring, Live
<1>5. Contents(q) = [k \in 1 .. Size(q) |-> q.items[Place(q, k)]]
  BY Zenon, <1>3, ContentsValue
<1>6. PICK pos : pos = findPositionInQueue(q, v)
  BY Zenon
<1>7. CASE pos = -1
  <2>1. q' = q
    BY Zenon, <1>1, <1>6, <1>7 DEF removeFrameFromQueue
  <2>2. \A k \in 1 .. Size(q) : q.items[Place(q, k)] # v
    <3>1. -1 \notin Slots
      BY MaxSizeAssumption DEF Slots
    <3> QED
      BY Zenon, <1>1, <1>3, <1>6, <1>7, <3>1, Found
  <2>3. \A k \in 1 .. Len(Contents(q)) : Contents(q)[k] # v
    BY Zenon, <1>2, <1>5, <2>2
  <2> QED
    BY Zenon, <1>1, <1>4, <2>1, <2>3 DEF QueueIInv, Fifo!RemoveValue
<1>8. CASE pos # -1
  <2>1. PICK j \in 1 .. Size(q) :
          /\ pos \in Slots /\ pos = Place(q, j) /\ Offset(q, pos) = j - 1 /\ q.items[pos] = v
          /\ \A k \in 1 .. j - 1 : q.items[Place(q, k)] # v
    <3>1. \/ pos = -1
          \/ /\ pos \in Slots
             /\ \E j \in 1 .. Size(q) :
                  /\ pos = Place(q, j) /\ Offset(q, pos) = j - 1 /\ q.items[pos] = v
                  /\ \A k \in 1 .. j - 1 : q.items[Place(q, k)] # v
      BY <1>1, <1>3, <1>6, Found
    <3> QED
      BY Zenon, <1>8, <3>1
  <2>2. /\ Queue(q') /\ Size(q') = Size(q) - 1
        /\ \A k \in 1 .. Size(q') :
             Contents(q')[k] = IF k < j THEN Contents(q)[k] ELSE Contents(q)[k + 1]
    <3>1. PICK r : r = q'
      BY Zenon
    <3>2. r = removeFrameFromQueue(q, v)
      BY Zenon, <1>1, <3>1
    <3>4. PICK qq : qq = q
      BY Zenon
    <3>5. Queue(qq) /\ Ring(qq) /\ Size(qq) >= 3 /\ j \in 1 .. Size(qq) /\ r = removeFrameFromQueue(qq, v)
      BY Zenon, <1>1, <1>2, <1>3, <2>1, <3>2, <3>4
    <3>6. pos \in Slots /\ pos = findPositionInQueue(qq, v) /\ pos = Place(qq, j) /\ Offset(qq, pos) = j - 1
      BY Zenon, <1>6, <2>1, <3>4
    <3>7. /\ Queue(r) /\ Size(r) = Size(qq) - 1
          /\ \A k \in 1 .. Size(r) :
               Contents(r)[k] = IF k < j THEN Contents(qq)[k] ELSE Contents(qq)[k + 1]
      BY ZenonT(60), <3>5, <3>6, Removed
    <3>3. /\ Queue(r) /\ Size(r) = Size(q) - 1
          /\ \A k \in 1 .. Size(r) :
               Contents(r)[k] = IF k < j THEN Contents(q)[k] ELSE Contents(q)[k + 1]
      BY Zenon, <3>4, <3>7
    <3> QED
      BY Zenon, <3>1, <3>3
  <2>3. j \in 1 .. Len(Contents(q)) /\ Contents(q)[j] = v
    BY Zenon, <1>2, <1>5, <2>1
  <2>4. ASSUME NEW k \in 1 .. j - 1 PROVE Contents(q)[k] # v
    <3>1. k \in 1 .. Size(q)
      BY <1>2
    <3> QED
      BY Zenon, <1>5, <2>1, <3>1
  <2>5. PICK D : D = SubSeq(Contents(q), 1, j - 1) \o SubSeq(Contents(q), j + 1, Len(Contents(q)))
    BY Zenon
  <2>6. /\ D \in Seq(Values) /\ Len(D) = Len(Contents(q)) - 1
        /\ \A k \in 1 .. Len(Contents(q)) - 1 :
             D[k] = IF k < j THEN Contents(q)[k] ELSE Contents(q)[k + 1]
    BY Zenon, <1>2, <2>3, <2>5, WithoutOne
  <2>7. Contents(q') \in Seq(Values) /\ Len(Contents(q')) = Size(q')
    BY Zenon, <2>2, ContentsType
  <2>8. Contents(q') = D
    BY Zenon, <1>2, <2>2, <2>6, <2>7, SameSeq
  <2> QED
    BY Zenon, <1>1, <1>4, <2>2, <2>3, <2>4, <2>5, <2>8 DEF QueueIInv, Fifo!RemoveValue
<1> QED
  BY Zenon, <1>7, <1>8

-----------------------------------------------------------------------------

(* For every size of the ring: the slots between front and rear hold       *)
(* queued values, so neither dequeue() nor findPositionInQueue() reads a   *)
(* cell that malloc left unwritten.                                        *)
THEOREM OnlyWrittenSlots == QueueSpec => []LiveSlotsWritten
<1>1. QueueInit => QueueIInv
  BY Zenon, InitQueue
<1>2. QueueIInv /\ [QueueNext]_queueVars => QueueIInv'
  <2> SUFFICES ASSUME QueueIInv, [QueueNext]_queueVars PROVE QueueIInv'
    OBVIOUS
  <2>1. CASE UNCHANGED queueVars
    BY <2>1 DEF queueVars, QueueIInv, Queue, Ring, Live, isEmpty, Offset
  <2>2. CASE QueueNext
    BY Zenon, <2>2, EnqueueStep, DequeueStep, RemoveStep DEF QueueNext
  <2> QED
    BY Zenon, <2>1, <2>2
<1>3. QueueIInv => LiveSlotsWritten
  BY Zenon DEF QueueIInv, Queue, LiveSlotsWritten
<1> QED
  BY <1>1, <1>2, <1>3, PTL DEF QueueSpec

(* For every size of the ring and every order of calls: the circular queue *)
(* with its wrapping ends, its re-allocation when the last element leaves  *)
(* and its shifting removal is a bounded first-in first-out queue.         *)
THEOREM RingIsFifo == QueueSpec => RefinesFifo
<1>1. QueueInit => QueueIInv /\ Fifo!Init
  BY Zenon, InitQueue DEF QueueInit, Fifo!Init
<1>2. QueueIInv /\ [QueueNext]_queueVars => QueueIInv' /\ [Fifo!Next]_<<Contents(q), ret>>
  <2> SUFFICES ASSUME QueueIInv, [QueueNext]_queueVars
               PROVE  QueueIInv' /\ [Fifo!Next]_<<Contents(q), ret>>
    OBVIOUS
  <2>1. CASE UNCHANGED queueVars
    <3>1. QueueIInv'
      BY <2>1 DEF queueVars, QueueIInv, Queue, Ring, Live, isEmpty, Offset
    <3>2. Contents(q)' = Contents(q) /\ ret' = ret
      BY <2>1 DEF queueVars, Contents, Size, isEmpty, Offset
    <3> QED
      BY Zenon, <3>1, <3>2
  <2>2. CASE QueueNext
    BY Zenon, <2>2, EnqueueStep, DequeueStep, RemoveStep DEF QueueNext, Fifo!Next
  <2> QED
    BY Zenon, <2>1, <2>2
<1> QED
  BY <1>1, <1>2, PTL DEF QueueSpec, RefinesFifo, Fifo!Spec

-----------------------------------------------------------------------------
(* The scheduling experiment.                                              *)

Places == {"none", "start", "setscheduler", "work", "write", "exit", "zombie", "reaped"}

(* A child's clock readings are in the past, and its time is their         *)
(* difference once it has been computed.                                   *)
ClockInv ==
  /\ now \in Nat
  /\ child \in [Children -> Places]
  /\ start \in [Children -> Nat] /\ end \in [Children -> Nat] /\ elapsed \in [Children -> Int]
  /\ \A k \in Children : start[k] <= now
  /\ ElapsedExact

reaped == {k \in Children : child[k] = "reaped"}

(* Each turn of the second loop reaps a child as long as one is left.      *)
WaitInv ==
  /\ pc \in {"start", "fork", "read", "wait", "done", "failed"}
  /\ i \in Nat
  /\ pc \in {"start", "fork", "read", "wait"} => i < N
  /\ pc \in {"start", "fork"} => reaped = {}
  /\ pc \in {"read", "wait"} => unreaped = {} \/ Cardinality(reaped) = i
  /\ pc = "done" => unreaped = {}

IInv == ClockInv /\ WaitInv

-----------------------------------------------------------------------------
(* The arithmetic of the elapsed time.                                     *)

LEMMA DivMod ==
  ASSUME NEW d \in Nat \ {0}, NEW x \in Nat
  PROVE  x \div d \in Nat /\ x % d \in 0 .. d - 1 /\ x = d * (x \div d) + (x % d)
<1>1. x \div d \in Nat
  OBVIOUS
<1>2. x % d \in 0 .. d - 1
  OBVIOUS
<1>3. PICK y \in Nat, z \in Nat : y = x \div d /\ z = x % d
  BY <1>1, <1>2
<1>4. x = d * y + z
  BY <1>3
<1> QED
  BY Zenon, <1>1, <1>2, <1>3, <1>4

(* Fewer whole units and a larger rest, or the same or more and a smaller. *)
LEMMA UnitsInOrder ==
  ASSUME NEW d \in Nat \ {0}, NEW a \in Nat, NEW b \in Nat, NEW r \in 0 .. d - 1,
         NEW t \in 0 .. d - 1, d * a + r <= d * b + t
  PROVE  a <= b /\ (t < r => a < b)
<1>1. ASSUME a > b PROVE FALSE
  <2>1. PICK n \in Nat : a = b + 1 + n
    BY <1>1
  <2>2. d * a = d * b + d + d * n /\ d * n >= 0
    BY <2>1
  <2> QED
    BY <2>2
<1>2. ASSUME t < r, a = b PROVE FALSE
  BY <1>2
<1> QED
  BY <1>1, <1>2

(* Subtracting seconds and microseconds one by one with a borrow, printing *)
(* and parsing gives the difference of two readings in order.              *)
LEMMA ElapsedIsDifference ==
  ASSUME NEW s \in Nat, NEW e \in Nat, s <= e
  PROVE  Elapsed(s, e) = e - s
<1>0. Second \in Nat \ {0} /\ Second \in Nat /\ Second > 0
  BY ExperimentAssumption
<1>1. PICK a, b \in Nat, r, t \in 0 .. Second - 1 :
        a = tv_sec(s) /\ b = tv_sec(e) /\ r = tv_usec(s) /\ t = tv_usec(e)
  BY Zenon, <1>0, DivMod DEF tv_sec, tv_usec
<1>2. s = Second * a + r /\ e = Second * b + t
  BY Zenon, <1>0, <1>1, DivMod DEF tv_sec, tv_usec
<1>3. a <= b /\ (t < r => a < b)
  BY <1>0, <1>2, UnitsInOrder
<1>4. Elapsed(s, e) = IF t - r < 0 THEN strtod(b - a - 1, t - r + Second)
                      ELSE strtod(b - a, t - r)
  BY Zenon, <1>1 DEF Elapsed
<1>5. CASE t - r < 0
  <2>1. ~(t - r + Second < 0) /\ ~(b - a - 1 < 0)
    BY <1>0, <1>3, <1>5
  <2>2. strtod(b - a - 1, t - r + Second) = (b - a - 1) * Second + (t - r + Second)
    BY Zenon, <2>1 DEF strtod
  <2>3. (b - a - 1) * Second = Second * b - Second * a - Second
    BY <1>0
  <2>4. Second * a \in Int /\ Second * b \in Int
    BY <1>0
  <2> QED
    BY <1>0, <1>2, <1>4, <1>5, <2>2, <2>3, <2>4
<1>6. CASE ~(t - r < 0)
  <2>1. ~(b - a < 0)
    BY <1>3
  <2>2. strtod(b - a, t - r) = (b - a) * Second + (t - r)
    BY Zenon, <1>6, <2>1 DEF strtod
  <2>3. (b - a) * Second = Second * b - Second * a
    BY <1>0
  <2>4. Second * a \in Int /\ Second * b \in Int
    BY <1>0
  <2> QED
    BY <1>0, <1>2, <1>4, <1>6, <2>2, <2>3, <2>4
<1> QED
  BY Zenon, <1>5, <1>6

-----------------------------------------------------------------------------
(* The steps.                                                              *)

LEMMA InitIInv == Init => IInv
<1> SUFFICES ASSUME Init PROVE IInv
  OBVIOUS
<1>1. N \in Nat /\ N > 0
  BY ExperimentAssumption
<1>2. ClockInv
  BY DEF Init, ClockInv, Places, ElapsedExact, worked, written
<1>3. reaped = {}
  BY DEF Init, reaped
<1>4. WaitInv
  BY <1>1, <1>3 DEF Init, WaitInv
<1> QED
  BY Zenon, <1>2, <1>4 DEF IInv

(* A step that lets no child finish its work keeps the times exact.        *)
LEMMA ClockKept ==
  ASSUME ClockInv, now' \in Nat, now <= now', child' \in [Children -> Places],
         UNCHANGED <<start, end, elapsed>>, worked' \subseteq worked
  PROVE  ClockInv'
<1>1. \A k \in Children : start'[k] <= now'
  BY DEF ClockInv
<1>2. ElapsedExact'
  BY Zenon DEF ClockInv, ElapsedExact
<1> QED
  BY Zenon, <1>1, <1>2 DEF ClockInv

(* The parent up to the forks.                                             *)
LEMMA PrepareStep ==
  ASSUME IInv, (\E c \in Menu : Prepare(c)) \/ GiveUp
  PROVE  IInv'
<1>1. /\ pc = "start" /\ pc' \in {"fork", "failed"}
      /\ UNCHANGED <<now, i, child, start, end, elapsed>>
  BY Zenon DEF Prepare, GiveUp, childVars
<1>2. ClockInv'
  BY Zenon, <1>1 DEF IInv, ClockInv, ElapsedExact, worked, written
<1>3. WaitInv'
  BY Zenon, <1>1 DEF IInv, WaitInv, reaped
<1> QED
  BY Zenon, <1>2, <1>3 DEF IInv

LEMMA ForkStep ==
  ASSUME IInv, Fork
  PROVE  IInv'
<1>0. N \in Nat /\ N > 0 /\ i \in Nat /\ i < N /\ reaped = {} /\ child \in [Children -> Places]
  BY ExperimentAssumption DEF IInv, WaitInv, ClockInv, Fork
<1>1. PICK place \in {"start", "none"} : child' = [child EXCEPT ![i] = place]
  BY Zenon DEF Fork
<1>2. /\ i' = (i + 1) % N /\ pc' = (IF i + 1 = N THEN "read" ELSE "fork")
      /\ UNCHANGED <<now, start, end, elapsed>>
  BY Zenon DEF Fork, childVars
<1>3. /\ child' \in [Children -> Places]
      /\ \A k \in Children : child'[k] \in {child[k], "start", "none"}
  BY Zenon, <1>0, <1>1 DEF Places
<1>4. ClockInv'
  <2>1. worked' \subseteq worked
    BY Zenon, <1>3 DEF worked, written
  <2>2. now' \in Nat /\ now <= now'
    BY <1>2 DEF IInv, ClockInv
  <2> QED
    BY Zenon, <1>2, <1>3, <2>1, <2>2, ClockKept DEF IInv
<1>5. reaped' = {}
  BY Zenon, <1>0, <1>3 DEF reaped
<1>6. i' \in Nat /\ i' < N /\ (i + 1 = N => i' = 0)
  BY <1>0, <1>2
<1>7. pc' = "read" => Cardinality(reaped') = i'
  BY Zenon, <1>2, <1>5, <1>6, FS_EmptySet
<1>8. WaitInv'
  BY Zenon, <1>2, <1>5, <1>6, <1>7 DEF WaitInv
<1> QED
  BY Zenon, <1>4, <1>8 DEF IInv

LEMMA ReadStep ==
  ASSUME IInv, Read
  PROVE  IInv'
<1>1. /\ pc = "read" /\ pc' = "wait"
      /\ UNCHANGED <<now, i, child, start, end, elapsed>>
  BY Zenon DEF Read, childVars
<1>2. ClockInv'
  BY Zenon, <1>1 DEF IInv, ClockInv, ElapsedExact, worked, written
<1>3. WaitInv'
  BY Zenon, <1>1 DEF IInv, WaitInv, reaped, unreaped
<1> QED
  BY Zenon, <1>2, <1>3 DEF IInv

(* wait() reaps one more child, or there is none left.                     *)
LEMMA WaitStep ==
  ASSUME IInv, Wait
  PROVE  IInv'
<1>0. /\ N \in Nat /\ N > 0 /\ i \in Nat /\ i < N /\ child \in [Children -> Places]
      /\ unreaped = {} \/ Cardinality(reaped) = i
  BY ExperimentAssumption DEF IInv, WaitInv, ClockInv, Wait
<1>1. /\ i' = i + 1 /\ pc' = (IF i + 1 = N THEN "done" ELSE "read")
      /\ UNCHANGED <<now, start, end, elapsed>>
  BY Zenon DEF Wait, childVars
<1>2. i' \in Nat /\ (pc' = "read" => i' < N)
  BY <1>0, <1>1
<1>3. now' \in Nat /\ now <= now'
  BY <1>1 DEF IInv, ClockInv
<1>4. CASE unreaped = {}
  <2>1. child' = child
    BY Zenon, <1>4 DEF Wait
  <2>2. worked' \subseteq worked /\ unreaped' = {}
    BY Zenon, <1>4, <2>1 DEF worked, written, unreaped
  <2>3. ClockInv'
    BY Zenon, <1>0, <1>1, <1>3, <2>1, <2>2, ClockKept DEF IInv
  <2>4. WaitInv'
    BY Zenon, <1>1, <1>2, <2>2 DEF WaitInv
  <2> QED
    BY Zenon, <2>3, <2>4 DEF IInv
<1>5. CASE unreaped # {}
  <2>1. PICK k \in Children : child[k] = "zombie" /\ child' = [child EXCEPT ![k] = "reaped"]
    BY Zenon, <1>5 DEF Wait
  <2>2. child' \in [Children -> Places] /\ \A n \in Children : child'[n] = IF n = k THEN "reaped" ELSE child[n]
    BY Zenon, <1>0, <2>1 DEF Places
  <2>3. worked' \subseteq worked
    BY Zenon, <2>1, <2>2 DEF worked, written
  <2>4. ClockInv'
    BY Zenon, <1>1, <1>3, <2>2, <2>3, ClockKept DEF IInv
  <2>5. IsFiniteSet(Children) /\ Cardinality(Children) = N
    BY <1>0, FS_Interval DEF Children
  <2>6. reaped \in SUBSET Children /\ reaped' \in SUBSET Children
    BY Zenon DEF reaped
  <2>7. reaped' = reaped \cup {k} /\ k \notin reaped
    <3>1. \A n \in Children : n \in reaped' <=> n \in reaped \/ n = k
      BY Zenon, <2>2 DEF reaped
    <3>2. k \notin reaped
      BY Zenon, <2>1 DEF reaped
    <3> QED
      BY Zenon, <2>6, <3>1, <3>2
  <2>8. Cardinality(reaped') = i'
    <3>1. IsFiniteSet(reaped)
      BY Zenon, <2>5, <2>6, FS_Subset
    <3>2. Cardinality(reaped \cup {k}) = Cardinality(reaped) + 1
      BY Zenon, <2>7, <3>1, FS_AddElement
    <3> QED
      BY Zenon, <1>0, <1>1, <1>5, <2>7, <3>2
  <2>9. pc' = "done" => unreaped' = {}
    <3>1. pc' = "done" => Cardinality(reaped') = Cardinality(Children)
      BY Zenon, <1>1, <2>5, <2>8
    <3>2. pc' = "done" => reaped' = Children
      BY Zenon, <2>5, <2>6, <3>1, FS_Subset
    <3> QED
      BY Zenon, <3>2 DEF reaped, unreaped
  <2>10. WaitInv'
    BY Zenon, <1>1, <1>2, <2>8, <2>9 DEF WaitInv
  <2> QED
    BY Zenon, <2>4, <2>10 DEF IInv
<1> QED
  BY Zenon, <1>4, <1>5

(* A child takes its readings, writes and exits.                           *)
LEMMA ChildrenStep ==
  ASSUME IInv, NEW k \in Children, ChildStep(k)
  PROVE  IInv'
<1>0. child \in [Children -> Places]
  BY Zenon DEF IInv, ClockInv
<1>1. PICK place \in {"setscheduler", "work", "write", "exit", "zombie"} :
        child' = [child EXCEPT ![k] = place]
  BY Zenon DEF ChildStep, TakeStart, SetScheduler, TakeEnd, WriteResult, Exit
<1>2. pc' = pc /\ i' = i /\ now' = now /\ child[k] \notin {"none", "reaped"}
  BY Zenon DEF ChildStep, TakeStart, SetScheduler, TakeEnd, WriteResult, Exit, parentVars
<1>3. child' \in [Children -> Places] /\ \A n \in Children : child'[n] = IF n = k THEN place ELSE child[n]
  BY Zenon, <1>0, <1>1 DEF Places
<1>4. WaitInv'
  <2>1. unreaped # {}
    BY Zenon, <1>2 DEF unreaped
  <2>2. reaped' = reaped
    <3>1. \A n \in Children : child'[n] = "reaped" <=> child[n] = "reaped"
      BY Zenon, <1>2, <1>3
    <3> QED
      BY Zenon, <3>1 DEF reaped
  <2> QED
    BY Zenon, <1>2, <2>1, <2>2 DEF IInv, WaitInv
<1>5. ClockInv'
  <2>0. /\ now \in Nat /\ start \in [Children -> Nat] /\ end \in [Children -> Nat]
        /\ elapsed \in [Children -> Int] /\ (\A n \in Children : start[n] <= now)
        /\ now' \in Nat /\ now <= now' /\ ElapsedExact
    BY <1>2 DEF IInv, ClockInv
  <2>1. CASE TakeStart(k)
    <3>1. /\ start' = [start EXCEPT ![k] = now] /\ UNCHANGED <<end, elapsed>>
          /\ place = "setscheduler"
      BY Zenon, <1>0, <1>3, <2>1 DEF TakeStart
    <3>2. start' \in [Children -> Nat] /\ \A n \in Children : start'[n] = IF n = k THEN now ELSE start[n]
      BY Zenon, <2>0, <3>1
    <3>3. \A n \in Children : start'[n] <= now'
      BY <1>2, <2>0, <3>2
    <3>4. \A n \in worked' : n \in worked /\ n # k
      BY Zenon, <1>3, <3>1 DEF worked, written
    <3>5. ElapsedExact'
      BY Zenon, <2>0, <3>1, <3>2, <3>4 DEF ElapsedExact, worked, written
    <3> QED
      BY Zenon, <1>3, <2>0, <3>1, <3>2, <3>3, <3>5 DEF ClockInv
  <2>2. CASE TakeEnd(k)
    <3>1. /\ end' = [end EXCEPT ![k] = now] /\ UNCHANGED start
          /\ elapsed' = [elapsed EXCEPT ![k] = Elapsed(start[k], now)]
      BY Zenon, <2>2 DEF TakeEnd
    <3>2. Elapsed(start[k], now) = now - start[k] /\ now - start[k] \in Int
      <4>1. PICK s \in Nat : s = start[k] /\ s <= now
        BY Zenon, <2>0
      <4>2. Elapsed(s, now) = now - s /\ now - s \in Int
        BY <2>0, <4>1, ElapsedIsDifference
      <4> QED
        BY Zenon, <4>1, <4>2
    <3>3. /\ end' \in [Children -> Nat] /\ elapsed' \in [Children -> Int]
          /\ \A n \in Children : end'[n] = IF n = k THEN now ELSE end[n]
          /\ \A n \in Children : elapsed'[n] = IF n = k THEN now - start[k] ELSE elapsed[n]
      BY Zenon, <2>0, <3>1, <3>2
    <3>4. \A n \in worked' : n \in Children /\ (n = k \/ n \in worked)
      BY Zenon, <1>3 DEF worked, written
    <3>5. ElapsedExact'
      BY Zenon, <2>0, <3>1, <3>3, <3>4 DEF ElapsedExact
    <3> QED
      BY Zenon, <1>2, <1>3, <2>0, <3>1, <3>3, <3>5 DEF ClockInv
  <2>3. CASE SetScheduler(k) \/ WriteResult(k) \/ Exit(k)
    <3>1. UNCHANGED <<start, end, elapsed>>
      BY Zenon, <2>3 DEF SetScheduler, WriteResult, Exit, childVars
    <3>2. worked' \subseteq worked
      <4>1. place \in {"exit", "zombie"} => child[k] \in {"write", "exit"}
        BY Zenon, <1>0, <1>3, <2>3 DEF SetScheduler, WriteResult, Exit
      <4>2. place # "write"
        BY Zenon, <1>0, <1>3, <2>3 DEF SetScheduler, WriteResult, Exit
      <4> QED
        BY Zenon, <1>3, <4>1, <4>2 DEF worked, written
    <3> QED
      BY Zenon, <1>3, <2>0, <3>1, <3>2, ClockKept DEF IInv
  <2> QED
    BY Zenon, <2>1, <2>2, <2>3 DEF ChildStep
<1> QED
  BY Zenon, <1>4, <1>5 DEF IInv

LEMMA NextIInv == IInv /\ [Next]_vars => IInv'
<1> SUFFICES ASSUME IInv, [Next]_vars PROVE IInv'
  OBVIOUS
<1>1. CASE UNCHANGED vars
  BY Zenon, <1>1 DEF vars, IInv, ClockInv, WaitInv, ElapsedExact, worked, written, reaped, unreaped
<1>2. CASE Tick
  <2>1. UNCHANGED <<pc, i, child, start, end, elapsed>>
    BY Zenon, <1>2 DEF Tick, parentVars, childVars
  <2>2. now' \in Nat /\ now <= now'
    BY <1>2 DEF Tick, IInv, ClockInv
  <2>3. worked' \subseteq worked /\ child' \in [Children -> Places]
    BY Zenon, <2>1 DEF worked, written, IInv, ClockInv
  <2>4. ClockInv'
    BY Zenon, <2>1, <2>2, <2>3, ClockKept DEF IInv
  <2>5. WaitInv'
    BY Zenon, <2>1 DEF IInv, WaitInv, reaped, unreaped
  <2> QED
    BY Zenon, <2>4, <2>5 DEF IInv
<1>3. CASE ParentStep
  BY Zenon, <1>3, PrepareStep, ForkStep, ReadStep, WaitStep DEF ParentStep
<1>4. CASE \E k \in Children : ChildStep(k)
  BY Zenon, <1>4, ChildrenStep
<1> QED
  BY Zenon, <1>1, <1>2, <1>3, <1>4 DEF Next

-----------------------------------------------------------------------------

(* For every length of a second and any readings of the clock: the time a  *)
(* child prints and writes to the pipe is the time between its readings.   *)
THEOREM ElapsedAlwaysExact == Spec => []ElapsedExact
<1>1. IInv => ElapsedExact
  BY Zenon DEF IInv, ClockInv
<1> QED
  BY <1>1, InitIInv, NextIInv, PTL DEF Spec

(* For every number of children and whichever forks fail: the N waits of   *)
(* main() leave no child running and none a zombie.                        *)
THEOREM NoChildEverLeft == Spec => []NoChildLeft
<1>1. IInv => NoChildLeft
  BY Zenon DEF IInv, WaitInv, NoChildLeft, unreaped
<1> QED
  BY <1>1, InitIInv, NextIInv, PTL DEF Spec

=============================================================================
