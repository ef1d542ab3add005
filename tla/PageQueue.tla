----------------------------- MODULE PageQueue -----------------------------
(***************************************************************************)
(* The circular queue of frame numbers that the page-replacement simulator *)
(* (src/4/as4.c) keeps for Optimal, FIFO and Second-Chance: the PageQueue  *)
(* struct and its functions, as operators on a queue value                 *)
(*   [items : Slots -> Int, front : Int, rear : Int].                      *)
(* maxSize is set once, by initializePageQueue, and is a constant here.    *)
(* A C function that both returns a value and changes the queue is a pair  *)
(* of operators: the value (dequeuedItem) and the new queue (dequeue).     *)
(***************************************************************************)
EXTENDS Integers

CONSTANT maxSize

ASSUME MaxSizeAssumption == maxSize \in Nat \ {0}

Slots == 0 .. maxSize - 1

(* Content of a cell of the malloc'ed array that no one has written yet.   *)
Uninit == -2

initializePageQueue ==
  [items |-> [s \in Slots |-> Uninit], front |-> -1, rear |-> -1]

(* The slot after s on the ring.                                           *)
NextSlot(s) == (s + 1) % maxSize

(* Mutant of isFull that forgets the ring wraps.                           *)
isFullNoWrap(q) == q.rear + 1 = q.front

isFull(q) == NextSlot(q.rear) = q.front

isEmpty(q) == q.front = -1

(* enqueue reports a full queue and leaves it alone.                       *)
enqueue(q, value) ==
  IF isFull(q)
  THEN q
  ELSE [items |-> [q.items EXCEPT ![NextSlot(q.rear)] = value],
        front |-> IF isEmpty(q) THEN 0 ELSE q.front,
        rear  |-> NextSlot(q.rear)]

enqueueResult(q) == IF isFull(q) THEN -1 ELSE 0

dequeuedItem(q) == IF isEmpty(q) THEN -1 ELSE q.items[q.front]

(* Mutant of dequeue that does not reset the emptied queue.                *)
dequeueNoReset(q) ==
  IF isEmpty(q) THEN q ELSE [q EXCEPT !.front = NextSlot(q.front)]

(* Taking the last element re-initialises the queue with a fresh array.    *)
dequeue(q) ==
  IF isEmpty(q)
  THEN q
  ELSE IF q.front = q.rear
       THEN initializePageQueue
       ELSE [q EXCEPT !.front = NextSlot(q.front)]

(* How many steps after front the loops of the module visit slot s.        *)
Offset(q, s) == (s - q.front + maxSize) % maxSize

(* The slots the loop "for (i = front; ; ...) ... if (i == rear) break"    *)
(* visits.                                                                 *)
Live(q) ==
  IF isEmpty(q) THEN {}
  ELSE {s \in Slots : Offset(q, s) <= Offset(q, q.rear)}

(* The first visited slot that holds value, -1 if none does.               *)
findPositionInQueue(q, value) ==
  LET found == {s \in Live(q) : q.items[s] = value}
  IN  IF found = {} THEN -1
      ELSE CHOOSE s \in found :
             \A t \in found : Offset(q, s) <= Offset(q, t)

(* Everything behind the removed element moves one slot forward, the old   *)
(* rear slot is set to -1, and rear steps back.  The queue is then reset   *)
(* when rear has met front.                                                *)
removeFrameFromQueue(q, value) ==
  LET pos     == findPositionInQueue(q, value)
      shifted == [s \in Slots |->
                    IF s = q.rear THEN -1
                    ELSE IF /\ Offset(q, pos) <= Offset(q, s)
                            /\ Offset(q, s) < Offset(q, q.rear)
                         THEN q.items[NextSlot(s)]
                         ELSE q.items[s]]
      rear    == (q.rear - 1 + maxSize) % maxSize
  IN  IF pos = -1 THEN q
      ELSE IF rear = q.front
           THEN [items |-> shifted, front |-> -1, rear |-> -1]
           ELSE [items |-> shifted, front |-> q.front, rear |-> rear]

=============================================================================
