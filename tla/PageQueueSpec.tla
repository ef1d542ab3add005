--------------------------- MODULE PageQueueSpec ---------------------------
(***************************************************************************)
(* The page queue as a component: a client that calls enqueue, dequeue and *)
(* removeFrameFromQueue in any order.                                      *)
(*                                                                         *)
(* The simulator only removes from a queue that holds totalFrame >= 8      *)
(* frames; MinRemove is the least length of a queue on which the client    *)
(* calls removeFrameFromQueue, which empties a queue of two.               *)
(***************************************************************************)
EXTENDS PageQueue, Sequences

CONSTANTS Values,     (* frame numbers the client queues *)
          MinRemove   (* removal is called on queues at least this long *)

ASSUME ClientAssumption == Values \subseteq Nat /\ MinRemove \in Nat /\ MinRemove >= 3

VARIABLES q, ret

queueVars == <<q, ret>>

Size(qq) == IF isEmpty(qq) THEN 0 ELSE Offset(qq, qq.rear) + 1

(* The queued values from front to rear.                                   *)
Contents(qq) ==
  [k \in 1 .. Size(qq) |-> qq.items[(qq.front + k - 1) % maxSize]]

QueueInit == q = initializePageQueue /\ ret = 0

Enqueue(v) == q' = enqueue(q, v) /\ ret' = enqueueResult(q)

Dequeue == q' = dequeue(q) /\ ret' = dequeuedItem(q)

Remove(v) ==
  /\ Size(q) >= MinRemove
  /\ q' = removeFrameFromQueue(q, v)
  /\ ret' = 0

QueueNext ==
  \/ \E v \in Values : Enqueue(v)
  \/ Dequeue
  \/ \E v \in Values : Remove(v)

QueueSpec == QueueInit /\ [][QueueNext]_queueVars

-----------------------------------------------------------------------------

Fifo == INSTANCE FifoQueue
          WITH Capacity <- maxSize, contents <- Contents(q)

(* The ring with its wrapping front and rear indices, its re-allocation    *)
(* when the last element leaves and its shifting removal behaves as a      *)
(* bounded first-in first-out queue (as4.c:46-129).                        *)
RefinesFifo == Fifo!Spec

(* No operation hands out a cell of the malloc'ed array that was never     *)
(* written: every slot between front and rear holds a queued value         *)
(* (as4.c:35-44 allocates without clearing).                               *)
LiveSlotsWritten == \A s \in Live(q) : q.items[s] \in Values

=============================================================================
