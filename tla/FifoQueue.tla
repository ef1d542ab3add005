----------------------------- MODULE FifoQueue -----------------------------
(***************************************************************************)
(* What a bounded queue with removal promises: elements leave in the order *)
(* they came, a full queue refuses, an empty one answers -1, and removing  *)
(* a value takes out its first occurrence and nothing else.                *)
(***************************************************************************)
EXTENDS Integers, Sequences

CONSTANTS Capacity, Values

VARIABLES contents,   (* the queued values, oldest first *)
          ret         (* what the last operation returned *)

Init == contents = << >> /\ ret = 0

Enqueue(v) ==
  IF Len(contents) = Capacity
  THEN ret' = -1 /\ UNCHANGED contents
  ELSE ret' = 0 /\ contents' = Append(contents, v)

Dequeue ==
  IF contents = << >>
  THEN ret' = -1 /\ UNCHANGED contents
  ELSE ret' = Head(contents) /\ contents' = Tail(contents)

RemoveValue(v) ==
  /\ ret' = 0
  /\ \/ /\ \A k \in 1 .. Len(contents) : contents[k] # v
        /\ UNCHANGED contents
     \/ \E j \in 1 .. Len(contents) :
          /\ contents[j] = v /\ \A k \in 1 .. j - 1 : contents[k] # v
          /\ contents' = SubSeq(contents, 1, j - 1) \o SubSeq(contents, j + 1, Len(contents))

Next ==
  \/ \E v \in Values : Enqueue(v)
  \/ Dequeue
  \/ \E v \in Values : RemoveValue(v)

Spec == Init /\ [][Next]_<<contents, ret>>

=============================================================================
