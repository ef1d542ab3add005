------------------------------- MODULE UClamp -------------------------------
(***************************************************************************)
(* Utilization clamps of a runqueue, kernel/sched/core.c: the buckets that *)
(* count the runnable tasks by clamp value, and the value of the runqueue. *)
(* A runqueue is a record [bucket, value, idle]; every operator returns    *)
(* the runqueue after the call.                                            *)
(*                                                                         *)
(* A struct uclamp_se is represented by the argument v of the              *)
(* uclamp_se_set() that filled it: its value is clamp_value(v), what a     *)
(* bit-field keeps of v, its bucket_id is that of all of v.                *)
(***************************************************************************)
EXTENDS Naturals, FiniteSetsExt

CONSTANTS
    SCHED_CAPACITY_SCALE,
    UCLAMP_BUCKET_DELTA,
    UCLAMP_BUCKETS,
    VALUE_RANGE,     \* of uclamp_se.value: 2^bits_per(SCHED_CAPACITY_SCALE)
    INT_MAX

ASSUME UClampAssumption ==
    /\ SCHED_CAPACITY_SCALE \in Nat
    /\ UCLAMP_BUCKET_DELTA \in Nat \ {0}
    /\ UCLAMP_BUCKETS \in Nat \ {0}
    /\ VALUE_RANGE \in Nat /\ VALUE_RANGE > SCHED_CAPACITY_SCALE
    /\ INT_MAX \in Nat /\ INT_MAX > SCHED_CAPACITY_SCALE

ClampIds == {"MIN", "MAX"}
ClampValues == 0 .. SCHED_CAPACITY_SCALE
BucketIds == 0 .. UCLAMP_BUCKETS - 1

UINT_MAX == 2 * INT_MAX + 1
Unsigned == 0 .. UINT_MAX

clamp_value(v) == v % VALUE_RANGE

uclamp_bucket_id(v) ==
    IF v \div UCLAMP_BUCKET_DELTA < UCLAMP_BUCKETS
    THEN v \div UCLAMP_BUCKET_DELTA ELSE UCLAMP_BUCKETS - 1

uclamp_none(id) == IF id = "MIN" THEN 0 ELSE SCHED_CAPACITY_SCALE

init_uclamp_rq ==
    [bucket |-> [id \in ClampIds |-> [b \in BucketIds |-> [tasks |-> 0, value |-> 0]]],
     value |-> [id \in ClampIds |-> uclamp_none(id)],
     idle |-> TRUE]

Occupied(r, id) == {b \in BucketIds : r.bucket[id][b].tasks > 0}

\* The value of the top bucket with tasks; without any, the last max-clamp is
\* kept and the runqueue is marked idle (uclamp_idle_value()).
uclamp_rq_max_value(r, id, v) ==
    IF Occupied(r, id) # {} THEN r.bucket[id][Max(Occupied(r, id))].value
    ELSE IF id = "MAX" THEN v ELSE uclamp_none("MIN")

LastMax_uclamp_rq_inc_id(r, id, v) ==
    LET b == uclamp_bucket_id(v)
        n == r.bucket[id][b].tasks + 1
        x == clamp_value(v)
    IN  [r EXCEPT !.bucket[id][b] = [tasks |-> n, value |-> x],
                  !.value[id] = IF r.idle \/ x > @ THEN x ELSE @]

\* Each bucket tracks the largest value of its tasks; leaving idle drops the
\* retained clamp (uclamp_idle_reset()).
uclamp_rq_inc_id(r, id, v) ==
    LET b == uclamp_bucket_id(v)
        n == r.bucket[id][b].tasks + 1
        top == r.bucket[id][b].value
        x == clamp_value(v)
    IN  [r EXCEPT !.bucket[id][b] = [tasks |-> n, value |-> IF n = 1 \/ x > top THEN x ELSE top],
                  !.value[id] = IF r.idle \/ x > @ THEN x ELSE @]

\* The runqueue's value changes only when its top bucket becomes empty.
uclamp_rq_dec_id(r, id, v) ==
    LET b == uclamp_bucket_id(v)
        out == [r EXCEPT !.bucket[id][b].tasks = @ - 1]
    IN  IF out.bucket[id][b].tasks > 0 \/ r.bucket[id][b].value < r.value[id] THEN out
        ELSE [out EXCEPT !.value[id] = uclamp_rq_max_value(out, id, clamp_value(v)),
                         !.idle = @ \/ (id = "MAX" /\ Occupied(out, id) = {})]

\* v is the pair of effective clamps of the task.
uclamp_rq_inc(r, v) ==
    [uclamp_rq_inc_id(uclamp_rq_inc_id(r, "MIN", v["MIN"]), "MAX", v["MAX"])
        EXCEPT !.idle = FALSE]

uclamp_rq_dec(r, v) ==
    uclamp_rq_dec_id(uclamp_rq_dec_id(r, "MIN", v["MIN"]), "MAX", v["MAX"])

=============================================================================
