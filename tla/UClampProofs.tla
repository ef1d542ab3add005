---------------------------- MODULE UClampProofs ----------------------------
(***************************************************************************)
(* Proofs about UClamp and the clamps of SchedParams, for every finite set *)
(* of tasks and every size and number of buckets: the buckets of the       *)
(* runqueue count exactly the tasks that are charged to them, and its      *)
(* clamps are right as long as every clamp is in range.                    *)
(***************************************************************************)
EXTENDS SchedParamsProofs, FiniteSetTheorems, WellFoundedInduction

USE UClampAssumption DEF ClampIds, ClampValues

-----------------------------------------------------------------------------
(* The buckets of a runqueue.                                              *)

\* What fits into a bit-field for a clamp value.
FieldValues == 0 .. VALUE_RANGE - 1

Buckets == [BucketIds -> [tasks : Nat, value : FieldValues]]

RqRec == [bucket : [ClampIds -> Buckets], value : [ClampIds -> FieldValues], idle : BOOLEAN]

Charged(A, e, b) == {p \in A : uclamp_bucket_id(e[p]) = b}

\* The buckets B and the value v of a clamp id count the tasks of A, each with
\* its clamp e[p].  If no clamp was ever out of range (ok), a bucket holds a value
\* of its own and v is the largest of them.
Counted(B, v, A, e, ok) ==
    /\ \A b \in BucketIds : B[b].tasks = Cardinality(Charged(A, e, b))
    /\ ok => \A b \in BucketIds :
                 B[b].tasks > 0 => uclamp_bucket_id(B[b].value) = b /\ B[b].value <= v
    /\ \A p \in A : clamp_value(e[p]) <= B[uclamp_bucket_id(e[p])].value
    /\ A # {} => \E b \in BucketIds : B[b].tasks > 0 /\ B[b].value >= v

\* The bit-field of a clamp in range holds the clamp.
LEMMA FieldValue ==
    ASSUME NEW v \in Nat
    PROVE  clamp_value(v) \in FieldValues /\ (v \in ClampValues => clamp_value(v) = v)
BY DEF clamp_value, FieldValues

\* A larger clamp is in the same bucket or a later one.
LEMMA BucketOrder ==
    ASSUME NEW v \in Nat, NEW w \in Nat, v <= w
    PROVE  /\ uclamp_bucket_id(v) \in BucketIds
           /\ uclamp_bucket_id(v) <= uclamp_bucket_id(w)
<1>1. v \div UCLAMP_BUCKET_DELTA \in Nat /\ w \div UCLAMP_BUCKET_DELTA \in Nat
  OBVIOUS
<1>2. v \div UCLAMP_BUCKET_DELTA <= w \div UCLAMP_BUCKET_DELTA
  OBVIOUS
<1> QED
  BY <1>1, <1>2 DEF uclamp_bucket_id, BucketIds

\* Max() of a set of buckets is its last bucket.
LEMMA LastBucket ==
    ASSUME NEW S \in SUBSET BucketIds, S # {}
    PROVE  Max(S) \in S /\ \A b \in S : b <= Max(S)
<1> DEFINE R == OpToRel(<, Nat)
           T == {UCLAMP_BUCKETS - b : b \in S}
<1>1. IsWellFoundedOn(R, Nat)
  BY Zenon, NatLessThanWellFounded
<1>2. T \subseteq Nat
  BY DEF BucketIds
<1>3. T # {}
  BY Zenon
<1>4. \A x, y \in T : y < x => <<y, x>> \in R
  BY <1>2 DEF OpToRel
<1> HIDE DEF R
<1>5. PICK x \in T : \A y \in T : ~(<<y, x>> \in R)
  BY Zenon, <1>1, <1>2, <1>3, WFMin
<1>6. \A y \in T : ~(y < x)
  BY Zenon, <1>4, <1>5
<1>7. PICK m \in S : x = UCLAMP_BUCKETS - m
  BY Zenon
<1>8. \A b \in S : m >= b
  <2>1. \A b \in S : ~(UCLAMP_BUCKETS - b < UCLAMP_BUCKETS - m)
    BY <1>6, <1>7
  <2> QED
    BY <2>1 DEF BucketIds
<1>9. Max(S) \in S /\ \A b \in S : Max(S) >= b
  BY Zenon, <1>8 DEF Max
<1> QED
  BY <1>9 DEF BucketIds

LEMMA ChargedFinite ==
    ASSUME NEW A \in SUBSET Task, NEW e, NEW b
    PROVE  /\ IsFiniteSet(Charged(A, e, b)) /\ Cardinality(Charged(A, e, b)) \in Nat
           /\ Cardinality(Charged(A, e, b)) = 0 <=> Charged(A, e, b) = {}
<1>1. IsFiniteSet(Charged(A, e, b))
  <2>1. Charged(A, e, b) \in SUBSET Task
    BY DEF Charged
  <2> QED
    BY <2>1, TaskFinite, FS_Subset
<1> QED
  BY <1>1, FS_CardinalityType, FS_EmptySet

\* The buckets of one clamp id after uclamp_rq_inc_id() and uclamp_rq_dec_id().
IncBuckets(B, v) ==
    LET b == uclamp_bucket_id(v)
        n == B[b].tasks + 1
        x == clamp_value(v)
    IN  [B EXCEPT ![b] =
            [tasks |-> n, value |-> IF n = 1 \/ x > B[b].value THEN x ELSE B[b].value]]

IncValue(r, id, v) ==
    LET x == clamp_value(v)
    IN  IF r.idle \/ x > r.value[id] THEN x ELSE r.value[id]

DecBuckets(B, v) == [B EXCEPT ![uclamp_bucket_id(v)].tasks = @ - 1]

Left(B) == {b \in BucketIds : B[b].tasks > 0}

\* The top bucket still has tasks, or it was not the one that lost a task.
TopStays(r, id, v) ==
    LET c == DecBuckets(r.bucket[id], v)[uclamp_bucket_id(v)]
    IN  c.tasks > 0 \/ c.value < r.value[id]

DecValue(r, id, v) ==
    LET B == DecBuckets(r.bucket[id], v)
    IN  IF TopStays(r, id, v) THEN r.value[id]
        ELSE IF Left(B) # {} THEN B[Max(Left(B))].value
        ELSE IF id = "MAX" THEN clamp_value(v) ELSE 0

\* From r to s, clamp id counts one more task, of clamp v.
Incremented(r, s, id, v) ==
    /\ s \in RqRec /\ s.idle = r.idle
    /\ s.bucket[id] = IncBuckets(r.bucket[id], v)
    /\ s.value[id] = IncValue(r, id, v)
    /\ \A j \in ClampIds : j # id => s.bucket[j] = r.bucket[j] /\ s.value[j] = r.value[j]

\* What the two functions change of the runqueue.
LEMMA IncShape ==
    ASSUME NEW r \in RqRec, NEW id \in ClampIds, NEW v \in Nat
    PROVE  Incremented(r, uclamp_rq_inc_id(r, id, v), id, v)
<1> DEFINE b == uclamp_bucket_id(v)
           n == r.bucket[id][b].tasks + 1
           top == r.bucket[id][b].value
           f == clamp_value(v)
           x == [tasks |-> n, value |-> IF n = 1 \/ f > top THEN f ELSE top]
           w == IF r.idle \/ f > r.value[id] THEN f ELSE r.value[id]
           s == uclamp_rq_inc_id(r, id, v)
<1>1. b \in BucketIds
  BY BucketOrder
<1>2. x \in [tasks : Nat, value : FieldValues] /\ w \in FieldValues
  <2>1. f \in FieldValues
    BY Zenon, FieldValue
  <2> HIDE DEF f
  <2> QED
    BY <1>1, <2>1 DEF RqRec, Buckets
<1>3. s = [r EXCEPT !.bucket[id][b] = x, !.value[id] = w]
  BY DEF uclamp_rq_inc_id, RqRec
<1>a. IncBuckets(r.bucket[id], v) = [r.bucket[id] EXCEPT ![b] = x]
  BY DEF IncBuckets
<1> HIDE DEF x, w, b, s
<1>4. /\ s.bucket = [r.bucket EXCEPT ![id] = [r.bucket[id] EXCEPT ![b] = x]]
      /\ s.value = [r.value EXCEPT ![id] = w] /\ s.idle = r.idle
  BY <1>3 DEF RqRec
<1>5. s \in RqRec
  BY Zenon, <1>1, <1>2, <1>3 DEF RqRec, Buckets
<1> QED
  BY Zenon, <1>a, <1>4, <1>5 DEF IncValue, w, s, RqRec, Incremented

LEMMA DecShape ==
    ASSUME NEW r \in RqRec, NEW id \in ClampIds, NEW v \in Nat,
           r.bucket[id][uclamp_bucket_id(v)].tasks > 0
    PROVE  LET s == uclamp_rq_dec_id(r, id, v)
           IN  /\ s \in RqRec /\ s.bucket[id] = DecBuckets(r.bucket[id], v)
               /\ s.value[id] = DecValue(r, id, v)
               /\ s.idle = IF /\ ~TopStays(r, id, v) /\ id = "MAX"
                              /\ Left(DecBuckets(r.bucket[id], v)) = {}
                           THEN TRUE ELSE r.idle
               /\ \A j \in ClampIds : j # id => s.bucket[j] = r.bucket[j] /\ s.value[j] = r.value[j]
<1> USE DEF DecBuckets, Left
<1> DEFINE b == uclamp_bucket_id(v)
           B == DecBuckets(r.bucket[id], v)
           left == Left(B)
           still == B[b].tasks > 0 \/ B[b].value < r.value[id]
           out == [r EXCEPT !.bucket[id][b].tasks = @ - 1]
           w == IF left # {} THEN B[Max(left)].value ELSE IF id = "MAX" THEN clamp_value(v) ELSE 0
           s == uclamp_rq_dec_id(r, id, v)
<1>1. b \in BucketIds /\ r.bucket[id] \in Buckets
  BY BucketOrder DEF RqRec
<1>2. B \in Buckets /\ B[b].value = r.bucket[id][b].value
  BY <1>1 DEF Buckets
<1>3. /\ out.bucket = [r.bucket EXCEPT ![id] = B] /\ out.value = r.value /\ out.idle = r.idle
      /\ out \in RqRec
  <2>1. out = [r EXCEPT !.bucket = [r.bucket EXCEPT ![id] = B]]
    BY DEF RqRec
  <2> HIDE DEF B, out
  <2> QED
    BY <1>2, <2>1 DEF RqRec
<1>4. out.bucket[id] = B /\ Occupied(out, id) = left
  <2> HIDE DEF out, B
  <2>1. out.bucket[id] = B
    BY ZenonT(60), <1>3 DEF RqRec
  <2> QED
    BY <2>1 DEF Occupied
<1>5. uclamp_rq_max_value(out, id, clamp_value(v)) = w /\ w \in FieldValues
  <2>1. uclamp_rq_max_value(out, id, clamp_value(v)) = w
    <3> HIDE DEF out, B
    <3> QED
      BY <1>4 DEF uclamp_rq_max_value, uclamp_none
  <2>2. left # {} => Max(left) \in BucketIds
    <3> HIDE DEF B
    <3> QED
      BY LastBucket
  <2> HIDE DEF B, left
  <2>3. clamp_value(v) \in FieldValues /\ 0 \in FieldValues
    BY FieldValue DEF FieldValues
  <2> QED
    BY <1>2, <2>1, <2>2, <2>3 DEF Buckets
<1>6. s = IF still THEN out
          ELSE [out EXCEPT !.value[id] = w, !.idle = @ \/ (id = "MAX" /\ left = {})]
  <2> HIDE DEF out, left, B, w
  <2> QED
    BY Zenon, <1>2, <1>4, <1>5 DEF uclamp_rq_dec_id, out, b
<1> HIDE DEF out, left, B, w, s, still
<1>7. CASE still
  <2>1. TopStays(r, id, v) /\ DecValue(r, id, v) = r.value[id]
    BY Zenon, <1>7 DEF TopStays, DecValue, still, B
  <2> QED
    BY ZenonT(30), <1>3, <1>4, <1>6, <1>7, <2>1 DEF RqRec, s, B
<1>8. CASE ~still
  <2>1. s = [out EXCEPT !.value = [out.value EXCEPT ![id] = w],
                        !.idle = out.idle \/ (id = "MAX" /\ left = {})]
    BY ZenonT(60), <1>3, <1>6, <1>8 DEF RqRec
  <2>2. /\ s \in RqRec /\ s.bucket = out.bucket /\ s.value = [out.value EXCEPT ![id] = w]
        /\ s.idle = (out.idle \/ (id = "MAX" /\ left = {}))
    BY ZenonT(60), <1>3, <1>5, <2>1 DEF RqRec
  <2>3. /\ s.bucket[id] = B /\ s.value[id] = w /\ s.idle = (r.idle \/ (id = "MAX" /\ left = {}))
        /\ \A j \in ClampIds : j # id => s.bucket[j] = r.bucket[j] /\ s.value[j] = r.value[j]
    BY ZenonT(30), <1>3, <2>2 DEF RqRec
  <2>4. ~TopStays(r, id, v) /\ w = DecValue(r, id, v)
    BY <1>8 DEF TopStays, DecValue, still, w, B, left
  <2>5. s.idle = IF id = "MAX" /\ left = {} THEN TRUE ELSE r.idle
    BY Zenon, <2>3 DEF RqRec
  <2> QED
    BY ZenonT(60), <2>2, <2>3, <2>4, <2>5 DEF s, B, left
<1> QED
  BY Zenon, <1>7, <1>8

\* uclamp_rq_inc_id() counts one more task.
LEMMA IncCounted ==
    ASSUME NEW r \in RqRec, NEW id \in ClampIds, NEW A \in SUBSET Task,
           NEW e \in [Task -> Nat], NEW p \in Task, p \notin A, NEW v \in Nat,
           NEW ok, ok => v \in ClampValues,
           r.idle <=> A = {}, Counted(r.bucket[id], r.value[id], A, e, ok)
    PROVE  LET s == uclamp_rq_inc_id(r, id, v)
           IN  Counted(s.bucket[id], s.value[id], A \cup {p}, [e EXCEPT ![p] = v], ok)
<1> DEFINE b == uclamp_bucket_id(v)
           B == r.bucket[id]
           n == B[b].tasks + 1
           x == clamp_value(v)
           top == IF n = 1 \/ x > B[b].value THEN x ELSE B[b].value
           C == [B EXCEPT ![b] = [tasks |-> n, value |-> top]]
           w == IncValue(r, id, v)
           f == [e EXCEPT ![p] = v]
           D == A \cup {p}
<1>0. LET s == uclamp_rq_inc_id(r, id, v) IN s.bucket[id] = C /\ s.value[id] = w
  <2>1. C = IncBuckets(r.bucket[id], v)
    BY DEF IncBuckets
  <2> HIDE DEF C
  <2> QED
    BY ONLY ZenonT(60), <2>1, IncShape, r \in RqRec, id \in ClampIds, v \in Nat DEF Incremented
<1> USE DEF IncValue
<1>1. b \in BucketIds /\ B \in Buckets /\ r.value[id] \in FieldValues
  BY BucketOrder DEF RqRec
<1>x. x \in FieldValues /\ (ok => x = v)
  BY Zenon, FieldValue
<1>2. f[p] = v /\ \A q \in A : f[q] = e[q] /\ e[q] \in Nat
  OBVIOUS
<1>3. Charged(D, f, b) = Charged(A, e, b) \cup {p} /\ p \notin Charged(A, e, b)
  BY Zenon, <1>2 DEF Charged
<1>4. \A c \in BucketIds : c # b => Charged(D, f, c) = Charged(A, e, c)
  BY Zenon, <1>2 DEF Charged
<1>5. \A c \in BucketIds : B[c].tasks \in Nat /\ B[c].value \in FieldValues
  BY ZenonT(60), <1>1 DEF Buckets
<1>6. C[b].tasks = n /\ C[b].value = top /\ \A c \in BucketIds : c # b => C[c] = B[c]
  BY <1>1 DEF Buckets
<1>7. \A c \in BucketIds : C[c].tasks = Cardinality(Charged(D, f, c))
  <2>1. Cardinality(Charged(A, e, b) \cup {p}) = Cardinality(Charged(A, e, b)) + 1
    BY ZenonT(60), <1>3, ChargedFinite, FS_AddElement
  <2>2. B[b].tasks = Cardinality(Charged(A, e, b))
    BY <1>1 DEF Counted
  <2>3. C[b].tasks = Cardinality(Charged(D, f, b))
    BY ZenonT(60), <1>3, <1>6, <2>1, <2>2
  <2> QED
    BY Zenon, <1>4, <1>6, <2>3 DEF Counted
<1>8. A = {} => \A c \in BucketIds : B[c].tasks = 0
  <2>1. A = {} => \A c \in BucketIds : Charged(A, e, c) = {}
    BY DEF Charged
  <2> QED
    BY Zenon, <2>1, FS_EmptySet DEF Counted
<1>w. w = IF r.idle \/ x > r.value[id] THEN x ELSE r.value[id]
  BY Zenon
<1> HIDE DEF C, D, f, B, x, w
<1>9. ok /\ n > 1 => B[b].value <= r.value[id] /\ uclamp_bucket_id(B[b].value) = b
  BY <1>1, <1>5 DEF Counted, B
<1>10. top \in FieldValues /\ x <= top /\ x <= w /\ (n > 1 => B[b].value <= top)
  <2>1. n = 1 \/ n > 1
    BY <1>1, <1>5
  <2> QED
    BY SMTT(60), <1>w, <1>x, <1>1, <1>5, <2>1 DEF FieldValues
<1>a. ok => top <= w /\ uclamp_bucket_id(top) = b
  <2>1. n = 1 \/ (n > 1 /\ A # {})
    BY <1>1, <1>5, <1>8
  <2>2. CASE n = 1
    BY Zenon, <1>x, <1>10, <2>2
  <2>3. CASE n > 1 /\ A # {}
    BY SMTT(60), <1>w, <1>x, <1>1, <1>5, <1>9, <2>3 DEF FieldValues
  <2> QED
    BY Zenon, <2>1, <2>2, <2>3
<1>11. ASSUME ok, NEW c \in BucketIds, C[c].tasks > 0
       PROVE  uclamp_bucket_id(C[c].value) = c /\ C[c].value <= w
  <2>1. CASE c = b
    BY ZenonT(60), <1>6, <1>a, <1>11, <2>1
  <2>2. CASE c # b
    <3>1. B[c].tasks > 0 /\ C[c] = B[c] /\ A # {}
      BY SMTT(60), <1>5, <1>6, <1>8, <1>11, <2>2
    <3>2. uclamp_bucket_id(B[c].value) = c /\ B[c].value <= r.value[id]
      BY <1>11, <3>1 DEF Counted, B
    <3> QED
      BY <1>w, <1>x, <1>1, <1>5, <3>1, <3>2 DEF FieldValues
  <2> QED
    BY Zenon, <2>1, <2>2
<1>12. ASSUME NEW q \in D
       PROVE  clamp_value(f[q]) <= C[uclamp_bucket_id(f[q])].value
  <2>1. CASE q = p
    BY ZenonT(60), <1>2, <1>6, <1>10, <2>1 DEF x
  <2>2. CASE q # p
    <3>1. q \in A /\ f[q] = e[q] /\ e[q] \in Nat /\ uclamp_bucket_id(e[q]) \in BucketIds
      BY <1>2, <2>2, BucketOrder DEF D
    <3>0. clamp_value(e[q]) \in FieldValues
      BY Zenon, <3>1, FieldValue
    <3>2. clamp_value(e[q]) <= B[uclamp_bucket_id(e[q])].value
      BY ZenonT(60), <3>1 DEF Counted, B
    <3>3. CASE uclamp_bucket_id(e[q]) = b
      <4>1. q \in Charged(A, e, b)
        BY ZenonT(60), <3>1, <3>3 DEF Charged
      <4>2. B[b].tasks # 0
        BY ZenonT(60), <1>1, <4>1, ChargedFinite DEF Counted, B
      <4>3. n > 1
        BY <1>1, <1>5, <4>2
      <4> QED
        BY SMTT(60), <1>1, <1>5, <1>6, <1>10, <3>0, <3>1, <3>2, <3>3, <4>3 DEF FieldValues
    <3> QED
      BY ZenonT(60), <1>6, <3>1, <3>2, <3>3
  <2> QED
    BY Zenon, <2>1, <2>2
<1>13. \E c \in BucketIds : C[c].tasks > 0 /\ C[c].value >= w
  <2>1. n > 0
    BY SMTT(60), <1>1, <1>5
  <2>2. CASE w = x
    BY <1>x, <1>1, <1>6, <1>10, <2>1, <2>2 DEF FieldValues
  <2>3. CASE w # x
    <3>1. A # {} /\ w = r.value[id]
      BY Zenon, <1>w, <2>3
    <3>2. PICK c \in BucketIds : B[c].tasks > 0 /\ B[c].value >= r.value[id]
      BY ZenonT(60), <3>1 DEF Counted, B
    <3>3. CASE c = b
      BY SMTT(60), <1>1, <1>5, <1>6, <1>10, <2>1, <3>1, <3>2, <3>3 DEF FieldValues
    <3> QED
      BY ZenonT(60), <1>6, <3>1, <3>2, <3>3
  <2> QED
    BY Zenon, <2>2, <2>3
<1>14. Counted(C, w, D, f, ok)
  BY ZenonT(60), <1>7, <1>11, <1>12, <1>13 DEF Counted
<1> QED
  BY Zenon, <1>0, <1>14 DEF D, f

\* From r to s, task p was taken from the tasks of A that clamp id counts.
Uncounted(r, s, id, A, e, p, ok) ==
    /\ s \in RqRec
    /\ Counted(s.bucket[id], s.value[id], A \ {p}, e, ok)
    /\ s.idle <=> id = "MAX" /\ A \ {p} = {}
    /\ \A j \in ClampIds : j # id => s.bucket[j] = r.bucket[j] /\ s.value[j] = r.value[j]

\* uclamp_rq_dec_id() gives back a task that was counted: the clamp of the
\* runqueue is again that of its top bucket, and the runqueue is idle when no
\* task is left.
LEMMA DecCounted ==
    ASSUME NEW r \in RqRec, NEW id \in ClampIds, NEW A \in SUBSET Task,
           NEW e \in [Task -> Nat], NEW p \in A, ~r.idle, NEW ok,
           Counted(r.bucket[id], r.value[id], A, e, ok)
    PROVE  Uncounted(r, uclamp_rq_dec_id(r, id, e[p]), id, A, e, p, ok)
<1> DEFINE v == e[p]
           b == uclamp_bucket_id(v)
           B == r.bucket[id]
           C == DecBuckets(B, v)
           left == Left(C)
           still == TopStays(r, id, v)
           s == uclamp_rq_dec_id(r, id, v)
           w == DecValue(r, id, v)
           D == A \ {p}
<1>1. v \in Nat /\ b \in BucketIds /\ B \in Buckets /\ r.value[id] \in FieldValues
  BY BucketOrder DEF RqRec
<1>2. Charged(D, e, b) = Charged(A, e, b) \ {p} /\ p \in Charged(A, e, b)
  BY DEF Charged
<1>3. \A c \in BucketIds : c # b => Charged(D, e, c) = Charged(A, e, c)
  BY DEF Charged
<1>4. \A c \in BucketIds : B[c].tasks \in Nat /\ B[c].value \in FieldValues
  BY Zenon, <1>1 DEF Buckets
<1>5. B[b].tasks = Cardinality(Charged(A, e, b)) /\ B[b].tasks # 0
  BY ZenonT(60), <1>1, <1>2, ChargedFinite DEF Counted
<1>6. /\ s \in RqRec /\ s.bucket[id] = C /\ s.value[id] = w
      /\ s.idle = IF ~still /\ id = "MAX" /\ left = {} THEN TRUE ELSE r.idle
      /\ \A j \in ClampIds : j # id => s.bucket[j] = r.bucket[j] /\ s.value[j] = r.value[j]
  <2>1. B[b].tasks > 0
    BY <1>1, <1>4, <1>5
  <2> HIDE DEF v
  <2>2. s \in RqRec /\ s.bucket[id] = C /\ s.value[id] = w
    BY ONLY ZenonT(60), <1>1, <2>1, DecShape, r \in RqRec, id \in ClampIds
  <2>3. s.idle = IF ~still /\ id = "MAX" /\ left = {} THEN TRUE ELSE r.idle
    BY ONLY ZenonT(60), <1>1, <2>1, DecShape, r \in RqRec, id \in ClampIds
  <2>4. \A j \in ClampIds : j # id => s.bucket[j] = r.bucket[j] /\ s.value[j] = r.value[j]
    BY ONLY ZenonT(60), <1>1, <2>1, DecShape, r \in RqRec, id \in ClampIds
  <2> QED
    BY ONLY ZenonT(60), <2>2, <2>3, <2>4
<1>a. still <=> C[b].tasks > 0 \/ C[b].value < r.value[id]
  BY DEF TopStays
<1>b. w = IF still THEN r.value[id] ELSE IF left # {} THEN C[Max(left)].value
          ELSE IF id = "MAX" THEN clamp_value(v) ELSE 0
  BY ZenonT(60) DEF DecValue
<1> HIDE DEF still, w
<1> HIDE DEF s
<1>7. /\ C[b].tasks = B[b].tasks - 1 /\ C[b].value = B[b].value
      /\ \A c \in BucketIds : c # b => C[c] = B[c]
  BY <1>1 DEF Buckets, DecBuckets
<1> HIDE DEF C, B
<1>8. \A c \in BucketIds : C[c].tasks = Cardinality(Charged(D, e, c))
  <2>1. Cardinality(Charged(D, e, b)) = Cardinality(Charged(A, e, b)) - 1
    <3> DEFINE S == Charged(A, e, b)
    <3>1. IsFiniteSet(S)
      BY ChargedFinite
    <3>2. Cardinality(S \ {p}) = Cardinality(S) - 1
      <4> HIDE DEF S
      <4> QED
        BY ZenonT(60), <1>2, <3>1, FS_RemoveElement DEF S
    <3> QED
      BY Zenon, <1>2, <3>2
  <2>2. C[b].tasks = Cardinality(Charged(D, e, b))
    BY ZenonT(60), <1>5, <1>7, <2>1
  <2> QED
    BY ZenonT(60), <1>3, <1>7, <2>2 DEF Counted, B
<1>9. \A c \in left : /\ c \in BucketIds /\ B[c].tasks > 0 /\ C[c].value = B[c].value
                      /\ ok => uclamp_bucket_id(C[c].value) = c /\ C[c].value <= r.value[id]
                      /\ C[c].value \in FieldValues /\ C[c].value \in Nat
  <2> SUFFICES ASSUME NEW c \in left
               PROVE  /\ c \in BucketIds /\ B[c].tasks > 0 /\ C[c].value = B[c].value
                      /\ C[c].value \in FieldValues
    BY DEF Counted, B, FieldValues
  <2> QED
    BY SMTT(60), <1>1, <1>4, <1>5, <1>7 DEF Left
<1>10. /\ \A q \in D : e[q] \in Nat /\ uclamp_bucket_id(e[q]) \in left
       /\ \A c \in left : Charged(D, e, c) # {}
  <2>1. ASSUME NEW q \in D PROVE e[q] \in Nat /\ uclamp_bucket_id(e[q]) \in left
    <3>1. q \in Charged(D, e, uclamp_bucket_id(e[q]))
      BY DEF Charged
    <3>2. e[q] \in Nat /\ uclamp_bucket_id(e[q]) \in BucketIds
      BY BucketOrder
    <3>3. C[uclamp_bucket_id(e[q])].tasks \in Nat \ {0}
      BY ZenonT(60), <1>8, <3>1, <3>2, ChargedFinite
    <3> QED
      BY <3>2, <3>3 DEF Left
  <2>2. ASSUME NEW c \in left PROVE Charged(D, e, c) # {}
    <3>1. c \in BucketIds /\ C[c].tasks > 0
      BY DEF Left
    <3>2. C[c].tasks = Cardinality(Charged(D, e, c))
      BY Zenon, <1>8, <3>1
    <3>3. Cardinality(Charged(D, e, c)) > 0
      BY ONLY Zenon, <3>1, <3>2
    <3> QED
      BY SMTT(60), <3>3, ChargedFinite
  <2> QED
    BY ZenonT(60), <2>1, <2>2
<1>11. left = {} <=> D = {}
  BY Zenon, <1>10 DEF Charged
<1>12. \A q \in D : clamp_value(e[q]) <= C[uclamp_bucket_id(e[q])].value
  <2> SUFFICES ASSUME NEW q \in D PROVE clamp_value(e[q]) <= C[uclamp_bucket_id(e[q])].value
    BY Zenon
  <2>1. clamp_value(e[q]) <= B[uclamp_bucket_id(e[q])].value
    BY Zenon DEF Counted, B
  <2> QED
    BY Zenon, <1>9, <1>10, <2>1
<1>13. PICK t \in BucketIds : B[t].tasks > 0 /\ B[t].value >= r.value[id]
  BY Zenon DEF Counted, B
<1>14. CASE still
  <2>1. w = r.value[id]
    BY ZenonT(60), <1>b, <1>14
  <2>2. t \in left
    BY SMTT(60), <1>a, <1>1, <1>4, <1>5, <1>7, <1>13, <1>14 DEF Left, FieldValues
  <2>3. Counted(C, w, D, e, ok)
    <3> HIDE DEF D
    <3>1. \A c \in BucketIds : C[c].tasks > 0 => c \in left
      BY DEF Left
    <3>2. \E c \in BucketIds : C[c].tasks > 0 /\ C[c].value >= w
      BY ZenonT(60), <1>9, <1>13, <2>1, <2>2 DEF Left
    <3> QED
      BY ZenonT(60), <1>8, <1>9, <1>12, <2>1, <3>1, <3>2 DEF Counted
  <2>4. ~s.idle /\ D # {}
    BY ZenonT(60), <1>6, <1>11, <1>14, <2>2
  <2> QED
    BY Zenon, <1>6, <2>3, <2>4 DEF s, B, Uncounted
<1>15. CASE ~still
  <2>1. s.idle <=> id = "MAX" /\ D = {}
    BY ZenonT(60), <1>6, <1>11, <1>15
  <2>2. CASE left = {}
    <3>1. Counted(C, w, D, e, ok)
      BY ZenonT(60), <1>8, <1>11, <1>12, <2>2 DEF Counted, Left
    <3> QED
      BY ZenonT(60), <1>6, <2>1, <3>1 DEF s, B, Uncounted
  <2>3. CASE left # {}
    <3> DEFINE m == Max(left)
    <3>1. m \in left /\ \A c \in left : c <= m
      BY ZenonT(60), <2>3, LastBucket DEF Left
    <3>2. w = C[m].value
      BY ZenonT(60), <1>b, <1>15, <2>3
    <3> HIDE DEF m
    <3>3. ASSUME ok, NEW c \in left PROVE C[c].value <= C[m].value
      <4>1. CASE C[c].value > C[m].value
        <5>1. m <= c
          BY SMTT(60), <1>9, <3>1, <3>3, <4>1, BucketOrder
        <5>2. c = m
          BY SMTT(60), <1>9, <3>1, <5>1 DEF BucketIds
        <5> QED
          BY SMTT(60), <1>9, <3>1, <4>1, <5>2
      <4> QED
        BY SMTT(60), <1>9, <3>1, <4>1
    <3>4. \A c \in BucketIds : C[c].tasks > 0 => c \in left
      BY DEF Left
    <3>5. m \in BucketIds /\ C[m].tasks > 0 /\ C[m].value >= C[m].value
      BY <1>9, <3>1 DEF Left
    <3>6. Counted(C, w, D, e, ok)
      <4> HIDE DEF left, D
      <4> QED
        BY ZenonT(60), <1>8, <1>9, <1>12, <3>2, <3>3, <3>4, <3>5 DEF Counted
    <3> QED
      BY SMTT(60), <1>6, <2>1, <3>6 DEF s, B, Uncounted
  <2> QED
    BY Zenon, <2>2, <2>3
<1> QED
  BY Zenon, <1>14, <1>15

\* The pair of clamps of a task.
ClampPairs == [ClampIds -> Nat]

\* The clamp id of every task.
Column(e, id) == [p \in Task |-> e[p][id]]

\* The runqueue r counts the tasks of A with the clamps e.
RqExact(r, A, e, ok) ==
    /\ r \in RqRec
    /\ \A id \in ClampIds : Counted(r.bucket[id], r.value[id], A, Column(e, id), ok)
    /\ r.idle <=> A = {}

LEMMA IncExact ==
    ASSUME NEW A \in SUBSET Task, NEW e \in [Task -> ClampPairs], NEW p \in Task, p \notin A,
           NEW v \in ClampPairs, NEW ok, ok => v \in [ClampIds -> ClampValues],
           NEW r, RqExact(r, A, e, ok)
    PROVE  RqExact(uclamp_rq_inc(r, v), A \cup {p}, [e EXCEPT ![p] = v], ok)
<1> DEFINE s == uclamp_rq_inc_id(r, "MIN", v["MIN"])
           t == uclamp_rq_inc_id(s, "MAX", v["MAX"])
           f == [e EXCEPT ![p] = v]
           D == A \cup {p}
           u == uclamp_rq_inc(r, v)
<1>1. /\ r \in RqRec /\ (r.idle <=> A = {}) /\ "MIN" \in ClampIds /\ "MAX" \in ClampIds
      /\ v["MIN"] \in Nat /\ v["MAX"] \in Nat
      /\ ok => v["MIN"] \in ClampValues /\ v["MAX"] \in ClampValues
  BY DEF RqExact, ClampPairs
<1>2. \A id \in ClampIds : Column(e, id) \in [Task -> Nat]
  BY DEF Column, ClampPairs
<1>3. \A id \in ClampIds : Column(f, id) = [Column(e, id) EXCEPT ![p] = v[id]]
  BY Zenon DEF Column
<1>4. s \in RqRec /\ s.idle = r.idle /\ s.bucket["MAX"] = r.bucket["MAX"]
      /\ s.value["MAX"] = r.value["MAX"]
  <2>1. Incremented(r, s, "MIN", v["MIN"])
    BY ONLY Zenon, <1>1, IncShape
  <2> QED
    BY ONLY Zenon, <1>1, <2>1, "MIN" # "MAX" DEF Incremented
<1>5. Counted(s.bucket["MIN"], s.value["MIN"], D, Column(f, "MIN"), ok)
  <2>1. Counted(r.bucket["MIN"], r.value["MIN"], A, Column(e, "MIN"), ok) /\ (r.idle <=> A = {})
    BY <1>1 DEF RqExact
  <2> HIDE DEF f, D
  <2>2. Counted(s.bucket["MIN"], s.value["MIN"], D, [Column(e, "MIN") EXCEPT ![p] = v["MIN"]], ok)
    BY ONLY ZenonT(60), <1>1, <1>2, <2>1, IncCounted, A \in SUBSET Task, p \in Task, p \notin A DEF D
  <2> QED
    BY ONLY ZenonT(60), <1>1, <1>3, <2>2
<1> HIDE DEF s
<1>6. t \in RqRec /\ t.bucket["MIN"] = s.bucket["MIN"] /\ t.value["MIN"] = s.value["MIN"]
  <2>1. Incremented(s, t, "MAX", v["MAX"])
    BY ONLY Zenon, <1>1, <1>4, IncShape
  <2> QED
    BY ONLY Zenon, <1>1, <2>1, "MIN" # "MAX" DEF Incremented
<1>7. Counted(t.bucket["MAX"], t.value["MAX"], D, Column(f, "MAX"), ok)
  <2>1. Counted(s.bucket["MAX"], s.value["MAX"], A, Column(e, "MAX"), ok) /\ (s.idle <=> A = {})
    BY Zenon, <1>1, <1>4 DEF RqExact
  <2> HIDE DEF f, D
  <2>2. Counted(t.bucket["MAX"], t.value["MAX"], D, [Column(e, "MAX") EXCEPT ![p] = v["MAX"]], ok)
    BY ONLY ZenonT(60), <1>1, <1>2, <1>4, <2>1, IncCounted, A \in SUBSET Task, p \in Task, p \notin A
       DEF D
  <2> QED
    BY ONLY Zenon, <1>1, <1>3, <2>2
<1>8. u = [t EXCEPT !.idle = FALSE]
  BY DEF uclamp_rq_inc, s
<1> HIDE DEF t, u, f
<1>9. u \in RqRec /\ u.bucket = t.bucket /\ u.value = t.value /\ ~u.idle
  BY ZenonT(60), <1>6, <1>8 DEF RqRec
<1>10. \A id \in ClampIds : Counted(u.bucket[id], u.value[id], D, Column(f, id), ok)
  BY ZenonT(60), <1>5, <1>6, <1>7, <1>9
<1> QED
  BY ZenonT(60), <1>9, <1>10 DEF RqExact, u, f

LEMMA DecExact ==
    ASSUME NEW A \in SUBSET Task, NEW e \in [Task -> ClampPairs], NEW p \in A,
           NEW r, NEW ok, RqExact(r, A, e, ok)
    PROVE  RqExact(uclamp_rq_dec(r, e[p]), A \ {p}, e, ok)
<1> DEFINE v == e[p]
           s == uclamp_rq_dec_id(r, "MIN", v["MIN"])
           t == uclamp_rq_dec_id(s, "MAX", v["MAX"])
           D == A \ {p}
<1>1. /\ r \in RqRec /\ ~r.idle /\ "MIN" \in ClampIds /\ "MAX" \in ClampIds
  BY DEF RqExact
<1>2. \A id \in ClampIds : Column(e, id) \in [Task -> Nat] /\ Column(e, id)[p] = v[id]
  BY DEF Column, ClampPairs
<1>3. /\ s \in RqRec /\ Counted(s.bucket["MIN"], s.value["MIN"], D, Column(e, "MIN"), ok)
      /\ ~s.idle /\ s.bucket["MAX"] = r.bucket["MAX"] /\ s.value["MAX"] = r.value["MAX"]
  <2>1. Counted(r.bucket["MIN"], r.value["MIN"], A, Column(e, "MIN"), ok)
    BY DEF RqExact
  <2>2. s = uclamp_rq_dec_id(r, "MIN", Column(e, "MIN")[p])
    BY Zenon, <1>1, <1>2
  <2> HIDE DEF s
  <2> DEFINE c == Column(e, "MIN")
  <2> HIDE DEF c, D
  <2>3. Uncounted(r, s, "MIN", A, c, p, ok)
    <3>1. c \in [Task -> Nat] /\ s = uclamp_rq_dec_id(r, "MIN", c[p])
          /\ Counted(r.bucket["MIN"], r.value["MIN"], A, c, ok)
      BY ZenonT(60), <1>1, <1>2, <2>1, <2>2 DEF c
    <3> QED
      BY ONLY ZenonT(60), <1>1, <3>1, DecCounted, A \in SUBSET Task, p \in A
  <2>4. ~s.idle
    BY Zenon, <2>3 DEF Uncounted
  <2>5. s.bucket["MAX"] = r.bucket["MAX"] /\ s.value["MAX"] = r.value["MAX"]
    BY Zenon, <2>3 DEF Uncounted
  <2> QED
    BY ONLY ZenonT(60), <2>3, <2>4, <2>5 DEF c, D, Uncounted
<1> HIDE DEF s
<1>4. /\ t \in RqRec /\ Counted(t.bucket["MAX"], t.value["MAX"], D, Column(e, "MAX"), ok)
      /\ (t.idle <=> D = {}) /\ t.bucket["MIN"] = s.bucket["MIN"] /\ t.value["MIN"] = s.value["MIN"]
  <2>1. Counted(s.bucket["MAX"], s.value["MAX"], A, Column(e, "MAX"), ok)
    BY <1>3 DEF RqExact
  <2>2. t = uclamp_rq_dec_id(s, "MAX", Column(e, "MAX")[p])
    BY ZenonT(60), <1>1, <1>2
  <2> HIDE DEF t
  <2> DEFINE c == Column(e, "MAX")
  <2> HIDE DEF c, D
  <2>3. Uncounted(s, t, "MAX", A, c, p, ok)
    <3>1. c \in [Task -> Nat] /\ t = uclamp_rq_dec_id(s, "MAX", c[p])
          /\ Counted(s.bucket["MAX"], s.value["MAX"], A, c, ok)
      BY ZenonT(60), <1>1, <1>2, <2>1, <2>2 DEF c
    <3> QED
      BY ONLY ZenonT(60), <1>1, <1>3, <3>1, DecCounted, A \in SUBSET Task, p \in A
  <2>4. t.idle <=> A \ {p} = {}
    BY Zenon, <2>3 DEF Uncounted
  <2>5. t.bucket["MIN"] = s.bucket["MIN"] /\ t.value["MIN"] = s.value["MIN"]
    BY Zenon, <2>3 DEF Uncounted
  <2> QED
    BY ONLY ZenonT(60), <2>3, <2>4, <2>5 DEF c, D, Uncounted
<1>5. t = uclamp_rq_dec(r, v)
  BY Zenon DEF uclamp_rq_dec, s
<1> HIDE DEF t
<1>6. \A id \in ClampIds : Counted(t.bucket[id], t.value[id], D, Column(e, id), ok)
  BY ZenonT(60), <1>3, <1>4
<1> QED
  BY ZenonT(60), <1>4, <1>5, <1>6 DEF RqExact

\* Only the clamps of the counted tasks matter.
LEMMA ExactFrame ==
    ASSUME NEW A \in SUBSET Task, NEW e, NEW f, NEW r, NEW ok, RqExact(r, A, e, ok),
           \A p \in A : f[p] = e[p]
    PROVE  RqExact(r, A, f, ok)
<1>1. ASSUME NEW id \in ClampIds PROVE Counted(r.bucket[id], r.value[id], A, Column(f, id), ok)
  <2>1. \A p \in A : Column(f, id)[p] = Column(e, id)[p]
    BY Zenon DEF Column
  <2>2. \A b : Charged(A, Column(f, id), b) = Charged(A, Column(e, id), b)
    BY Zenon, <2>1 DEF Charged
  <2>3. Counted(r.bucket[id], r.value[id], A, Column(e, id), ok)
    BY Zenon DEF RqExact
  <2> QED
    BY ZenonT(60), <2>1, <2>2, <2>3 DEF Counted
<1> QED
  BY Zenon, <1>1 DEF RqExact

\* A clamp that is out of range from now on disturbs nothing but the order.
LEMMA ExactWeak ==
    ASSUME NEW A, NEW e, NEW r, NEW ok, NEW on, on => ok, RqExact(r, A, e, ok)
    PROVE  RqExact(r, A, e, on)
BY Zenon DEF RqExact, Counted

\* What an exact runqueue says of its tasks and of its value.
Tracked(r, id, A, e, ok) ==
    /\ \A b \in BucketIds :
           r.bucket[id][b].tasks = Cardinality({p \in A : uclamp_bucket_id(e[p][id]) = b})
    /\ ok => \A p \in A : e[p][id] <= r.value[id]
    /\ ok /\ A # {} => r.value[id] = r.bucket[id][Max(Occupied(r, id))].value

LEMMA ExactValue ==
    ASSUME NEW A \in SUBSET Task, NEW e \in [Task -> ClampPairs], NEW r, NEW ok,
           RqExact(r, A, e, ok), NEW id \in ClampIds, ok => \A p \in A : e[p][id] \in ClampValues
    PROVE  Tracked(r, id, A, e, ok)
<1> DEFINE B == r.bucket[id]
           c == Column(e, id)
<1>0. Counted(B, r.value[id], A, c, ok) /\ B \in Buckets /\ r.value[id] \in FieldValues
  BY DEF RqExact, RqRec
<1>1. \A p \in A : c[p] = e[p][id] /\ c[p] \in Nat /\ uclamp_bucket_id(c[p]) \in BucketIds
  BY BucketOrder DEF Column, ClampPairs
<1>2. \A b : Charged(A, c, b) = {p \in A : uclamp_bucket_id(e[p][id]) = b}
  BY <1>1 DEF Charged
<1>3. \A b \in BucketIds : B[b].tasks = Cardinality({p \in A : uclamp_bucket_id(e[p][id]) = b})
  BY ZenonT(60), <1>0, <1>2 DEF Counted
<1> HIDE DEF B, c
<1>4. ASSUME ok, NEW p \in A PROVE e[p][id] <= r.value[id]
  <2> DEFINE b == uclamp_bucket_id(c[p])
  <2>1. p \in Charged(A, c, b) /\ b \in BucketIds
    BY Zenon, <1>1 DEF Charged
  <2>2. B[b].tasks \in Nat /\ B[b].tasks # 0 /\ B[b].value \in FieldValues
    BY ZenonT(60), <1>0, <2>1, ChargedFinite DEF Counted, Buckets
  <2>3. B[b].value <= r.value[id] /\ clamp_value(c[p]) <= B[b].value
    BY <1>0, <1>4, <2>1, <2>2 DEF Counted
  <2>4. c[p] \in ClampValues /\ clamp_value(c[p]) = c[p]
    BY Zenon, <1>1, <1>4, FieldValue
  <2> QED
    BY <1>0, <1>1, <2>2, <2>3, <2>4 DEF FieldValues
<1>5. ASSUME ok, A # {} PROVE r.value[id] = B[Max(Occupied(r, id))].value
  <2> DEFINE S == Left(B)
             m == Max(S)
  <2>1. PICK b \in BucketIds : B[b].tasks > 0 /\ B[b].value >= r.value[id]
    BY Zenon, <1>0, <1>5 DEF Counted
  <2>2. b \in S /\ Occupied(r, id) = S
    BY Zenon, <2>1 DEF Left, Occupied, B
  <2>3. m \in S /\ \A x \in S : x <= m
    BY Zenon, <2>2, LastBucket DEF Left
  <2> HIDE DEF m
  <2>4. m \in BucketIds /\ B[m].tasks > 0
    BY Zenon, <2>3 DEF Left
  <2>5. /\ uclamp_bucket_id(B[m].value) = m /\ B[m].value <= r.value[id]
        /\ uclamp_bucket_id(B[b].value) = b /\ b <= m /\ B[b].value <= r.value[id]
        /\ B[m].value \in FieldValues /\ B[b].value \in FieldValues
    BY ZenonT(60), <1>0, <1>5, <2>1, <2>2, <2>3, <2>4 DEF Counted, Buckets
  <2>8. B[b].value = r.value[id] /\ B[m].value \in Nat /\ B[b].value \in Nat
        /\ B[m].value <= B[b].value
    BY <1>0, <2>1, <2>5 DEF FieldValues
  <2>6. m <= b
    BY ZenonT(60), <2>5, <2>8, BucketOrder
  <2>7. m = b
    BY <2>4, <2>5, <2>6 DEF BucketIds
  <2> QED
    BY ZenonT(60), <2>2, <2>7, <2>8 DEF m
<1> QED
  BY ZenonT(60), <1>3, <1>4, <1>5 DEF B, Tracked

-----------------------------------------------------------------------------
(* The tasks and the runqueue.                                             *)

USE SchedParamsAssumption DEF Policies, Nices, None, NoClamp, Unsigned, UINT_MAX

ActiveOf(T) == {p \in Task : T[p].active}
EffOf(T) == [p \in Task |-> T[p].eff]
Exact(r, T, ok) == RqExact(r, ActiveOf(T), EffOf(T), ok)

\* No task was given a clamp out of range; the clamps of a task are in range.
InRange == \A p \in Task : "excess" \notin touched[p]
Fits(t) == \A id \in ClampIds : t.req[id].value \in ClampValues /\ t.eff[id] \in ClampValues

\* The runqueue counts the tasks marked active; such a task is queued, and was
\* charged after the static key was turned on for good; only a task that was
\* woken up is queued.
RqInv ==
    /\ Exact(urq, task, InRange)
    /\ InRange => \A p \in Task : Fits(task[p])
    /\ \A p \in Task : task[p].active => task[p].queued /\ used
    /\ \A p \in Task : task[p].queued => task[p].life = "alive"

\* What a change of parameters leaves alone.
Marks(a, b) ==
    /\ a.queued = b.queued /\ a.active = b.active /\ a.eff = b.eff /\ a.life = b.life

\* A task that is not charged is charged by enqueue_task() if clamps are used.
LEMMA EnqueueExact ==
    ASSUME TypeInv, NEW T \in [Task -> TaskRec], NEW p \in Task, ~T[p].active,
           NEW t \in TaskRec, NEW x \in TaskRec, x.active = used,
           used => x.eff = uclamp_eff_get(t), NEW ok, ok => Fits(t), NEW r, Exact(r, T, ok)
    PROVE  Exact(EnqueuedRq(r, t), [T EXCEPT ![p] = x], ok)
<1> DEFINE U == [T EXCEPT ![p] = x]
           v == uclamp_eff_get(t)
           A == ActiveOf(T)
           e == EffOf(T)
<1>1. v \in ClampPairs /\ (ok => v \in [ClampIds -> ClampValues])
  BY DEF uclamp_eff_get, TypeInv, TaskRec, ClampPairs, Fits
<1>2. A \in SUBSET Task /\ p \notin A /\ e \in [Task -> ClampPairs] /\ RqExact(r, A, e, ok)
  BY DEF ActiveOf, EffOf, Exact, TaskRec, ClampPairs
<1> HIDE DEF v
<1>3. CASE used
  <2>1. ActiveOf(U) = A \cup {p} /\ EffOf(U) = [e EXCEPT ![p] = v]
    BY Zenon, <1>3 DEF ActiveOf, EffOf, v
  <2> HIDE DEF A, e, U
  <2>2. RqExact(uclamp_rq_inc(r, v), A \cup {p}, [e EXCEPT ![p] = v], ok)
    BY ONLY ZenonT(60), <1>1, <1>2, IncExact, p \in Task
  <2> QED
    BY ZenonT(60), <1>3, <2>1, <2>2 DEF EnqueuedRq, Exact, v, U
<1>4. CASE ~used
  <2>1. ActiveOf(U) = A /\ \A q \in A : EffOf(U)[q] = e[q]
    BY Zenon, <1>4 DEF ActiveOf, EffOf
  <2> HIDE DEF A, e, U
  <2>2. RqExact(r, A, EffOf(U), ok)
    BY ONLY ZenonT(60), <1>2, <2>1, ExactFrame
  <2> QED
    BY ZenonT(60), <1>4, <2>1, <2>2 DEF EnqueuedRq, Exact, U
<1> QED
  BY Zenon, <1>3, <1>4 DEF TypeInv

\* dequeue_task() gives the charge of a task back, if there is one.
LEMMA DequeueExact ==
    ASSUME TypeInv, NEW T \in [Task -> TaskRec], NEW p \in Task, T[p].active => used,
           NEW x \in TaskRec, ~x.active, NEW r, NEW ok, Exact(r, T, ok)
    PROVE  Exact(DequeuedRq(r, T[p]), [T EXCEPT ![p] = x], ok)
<1> DEFINE U == [T EXCEPT ![p] = x]
           A == ActiveOf(T)
           e == EffOf(T)
           s == DequeuedRq(r, T[p])
<1>1. A \in SUBSET Task /\ e \in [Task -> ClampPairs] /\ RqExact(r, A, e, ok) /\ e[p] = T[p].eff
  BY DEF ActiveOf, EffOf, Exact, TaskRec, ClampPairs
<1>2. ActiveOf(U) = A \ {p} /\ \A q \in A \ {p} : EffOf(U)[q] = e[q]
  BY DEF ActiveOf, EffOf
<1>3. p \in A <=> T[p].active
  BY DEF ActiveOf
<1> HIDE DEF A, e, U
<1>4. RqExact(s, A \ {p}, e, ok)
  <2>1. CASE p \in A
    <3>1. s = uclamp_rq_dec(r, e[p])
      BY ZenonT(60), <1>1, <1>3, <2>1 DEF DequeuedRq
    <3> QED
      BY ONLY ZenonT(60), <1>1, <2>1, <3>1, DecExact
  <2>2. CASE p \notin A
    BY ZenonT(60), <1>1, <1>3, <2>2 DEF DequeuedRq
  <2> QED
    BY ZenonT(60), <2>1, <2>2
<1>5. RqExact(s, A \ {p}, EffOf(U), ok)
  BY ONLY ZenonT(60), <1>1, <1>2, <1>4, ExactFrame
<1> QED
  BY ZenonT(60), <1>2, <1>5 DEF Exact, U

LEMMA EnqueuedFits ==
    ASSUME TypeInv, NEW t \in TaskRec, Fits(t)
    PROVE  Fits(Enqueued(t))
<1>1. \A id \in ClampIds : uclamp_eff_get(t)[id] \in ClampValues
  BY DEF uclamp_eff_get, TypeInv, TaskRec, Fits
<1>2. /\ Enqueued(t).req = t.req
      /\ Enqueued(t).eff = t.eff \/ Enqueued(t).eff = uclamp_eff_get(t)
  BY Zenon DEF Enqueued, TaskRec
<1> QED
  BY Zenon, <1>1, <1>2 DEF Fits

\* A clamp out of range marks the task that has it.
LEMMA ExcessMarked ==
    ASSUME NEW p \in Task, NEW t \in TaskRec, Excess(t) \subseteq touched'[p], InRange'
    PROVE  \A id \in ClampIds : t.req[id].value \in ClampValues
<1>1. Excess(t) = {}
  BY Zenon DEF InRange, Excess
<1> QED
  BY <1>1 DEF Excess, TaskRec

\* Steps that charge nobody.
LEMMA RqFrame ==
    ASSUME RqInv, TypeInv, UNCHANGED urq, used => used', NEW p \in Task, NEW x \in TaskRec,
           task' = [task EXCEPT ![p] = x], x.active = task[p].active,
           x.queued = task[p].queued, task[p].active => x.eff = task[p].eff,
           x.queued => x.life = "alive", InRange' => InRange /\ Fits(x)
    PROVE  RqInv'
<1>1. ActiveOf(task') = ActiveOf(task)
      /\ \A q \in ActiveOf(task) : EffOf(task')[q] = EffOf(task)[q]
  BY DEF ActiveOf, EffOf, TypeInv
<1>2. ActiveOf(task) \in SUBSET Task
  BY Zenon DEF ActiveOf
<1>3. RqExact(urq, ActiveOf(task), EffOf(task'), InRange)
  BY ONLY ZenonT(60), <1>1, <1>2, ExactFrame, RqInv DEF RqInv, Exact
<1>4. RqExact(urq, ActiveOf(task'), EffOf(task'), InRange')
  BY Zenon, <1>1, <1>3, ExactWeak
<1> QED
  BY ZenonT(60), <1>1, <1>4 DEF RqInv, Exact, TypeInv

LEMMA RqSame ==
    ASSUME RqInv, TypeInv, UNCHANGED <<urq, used>>, NEW p \in Task, NEW x \in TaskRec,
           task' = [task EXCEPT ![p] = x], Marks(x, task[p]), InRange' => InRange /\ Fits(x)
    PROVE  RqInv'
<1>1. x.active = task[p].active /\ x.queued = task[p].queued /\ x.eff = task[p].eff
      /\ (x.queued => x.life = "alive") /\ UNCHANGED urq /\ (used => used')
  BY Zenon DEF Marks, RqInv
<1> QED
  BY Zenon, <1>1, RqFrame

LEMMA RqStutter ==
    ASSUME RqInv, UNCHANGED <<urq, task>>, used => used', InRange' => InRange
    PROVE  RqInv'
<1>1. Exact(urq, task, InRange')
  BY Zenon, ExactWeak DEF RqInv, Exact
<1> QED
  BY Zenon, <1>1 DEF RqInv, Exact, ActiveOf, EffOf, Fits

\* A change under dequeue and enqueue charges the task with its clamps of now.
LEMMA RqChange ==
    ASSUME IInv, RqInv, NEW p \in Task, NEW new \in TaskRec, Marks(new, task[p]),
           Change(p, new), used => used', InRange' => InRange /\ Fits(new)
    PROVE  RqInv'
<1> DEFINE out == [new EXCEPT !.queued = FALSE, !.active = Dequeued(task[p]).active]
           T == [task EXCEPT ![p] = out]
           x == Enqueued(out)
<1>0. TypeInv /\ task[p] \in TaskRec
  BY DEF IInv, TypeInv
<1>3. Exact(urq, task, InRange')
  BY Zenon, ExactWeak DEF RqInv, Exact
<1>1. CASE ~task[p].queued
  <2>1. task' = [task EXCEPT ![p] = new] /\ UNCHANGED urq
    BY Zenon, <1>1 DEF Change
  <2> QED
    BY Zenon, <1>0, <2>1, RqFrame DEF Marks, RqInv
<1>2. CASE task[p].queued
  <2>1. task' = [task EXCEPT ![p] = x] /\ urq' = EnqueuedRq(DequeuedRq(urq, task[p]), out)
    BY <1>2 DEF Change
  <2>2. Dequeued(task[p]).active = FALSE
    BY Zenon, <1>0 DEF Dequeued, TaskRec, RqInv
  <2>3. out \in TaskRec /\ out.active = FALSE /\ out.life = new.life
        /\ out.req = new.req /\ out.eff = new.eff
    BY ONLY ZenonT(60), <2>2, new \in TaskRec DEF TaskRec
  <2> HIDE DEF out
  <2>4. Exact(DequeuedRq(urq, task[p]), T, InRange')
    BY ZenonT(60), <1>0, <1>3, <2>3, DequeueExact DEF RqInv, TypeInv
  <2>9. InRange' => Fits(out) /\ Fits(x)
    BY Zenon, <1>0, <2>3, EnqueuedFits DEF Fits
  <2>5. x \in TaskRec /\ x.active = used /\ x.queued = TRUE /\ x.life = new.life
        /\ (used => x.eff = uclamp_eff_get(out))
    BY ZenonT(60), <1>0, <2>3, EnqueuedSame DEF Enqueued, TaskRec, Same, TypeInv
  <2>6. T \in [Task -> TaskRec] /\ T[p] = out /\ [T EXCEPT ![p] = x] = task'
    BY Zenon, <1>0, <2>1, <2>3 DEF TypeInv
  <2> HIDE DEF x, T
  <2>7. Exact(urq', task', InRange')
    <3>1. ~T[p].active
      BY Zenon, <2>3, <2>6
    <3>2. Exact(EnqueuedRq(DequeuedRq(urq, task[p]), out), [T EXCEPT ![p] = x], InRange')
      BY ONLY ZenonT(60), <1>0, <2>3, <2>4, <2>5, <2>6, <2>9, <3>1, EnqueueExact, p \in Task
    <3> QED
      BY ONLY ZenonT(60), <2>1, <2>6, <3>2
  <2>8. task[p].life = "alive"
    BY <1>2 DEF RqInv
  <2> QED
    BY ZenonT(60), <1>0, <2>1, <2>5, <2>7, <2>8, <2>9 DEF RqInv, Exact, Marks, TypeInv
<1> QED
  BY ZenonT(60), <1>0, <1>1, <1>2 DEF TaskRec

-----------------------------------------------------------------------------
(* What each step does to the marks of a task.                             *)

LEMMA ForkedMarks ==
    ASSUME TypeInv, NEW p \in Task, NEW child \in Task, sched_fork(p, child)
    PROVE  \E x \in TaskRec :
               /\ task' = [task EXCEPT ![child] = x] /\ x.active = FALSE /\ x.queued = FALSE
               /\ Fits(task[p]) => Fits(x)
<1> DEFINE copy == [__sched_fork(task[p]) EXCEPT !.prio = task[p].normal_prio]
           t == uclamp_fork(copy)
           r == IF t.reset_on_fork THEN Reverted(t) ELSE t
           x == [r EXCEPT !.policy = "FIFO", !.prio = ForkPrio, !.rt_priority = ForkRtPriority]
<1>0. task[p] \in TaskRec /\ task[p].normal_prio \in Int
  BY DEF TypeInv, TaskRec
<1>1. copy \in TaskRec /\ copy.queued = FALSE /\ copy.req = task[p].req /\ copy.eff = task[p].eff
  BY ZenonT(60), <1>0, CopyTypes DEF __sched_fork, TaskRec
<1> HIDE DEF copy
<1>2. t \in TaskRec /\ t.queued = FALSE /\ t.active = FALSE
  BY ZenonT(60), <1>1, CopyTypes DEF uclamp_fork, TaskRec
<1>7. Fits(copy) => Fits(t)
  <2>1. t.eff = copy.eff
    BY Zenon, <1>1 DEF uclamp_fork, TaskRec
  <2>2. \A id \in ClampIds : t.req[id].value \in {copy.req[id].value, uclamp_none(id)}
    BY Zenon, <1>1 DEF uclamp_fork, TaskRec
  <2>3. \A id \in ClampIds : uclamp_none(id) \in ClampValues
    BY DEF uclamp_none
  <2> QED
    BY Zenon, <2>1, <2>2, <2>3 DEF Fits
<1> HIDE DEF t
<1>3. r \in TaskRec /\ r.queued = FALSE /\ r.active = FALSE /\ r.req = t.req /\ r.eff = t.eff
  BY ZenonT(60), <1>2, RevertedType DEF Reverted, TaskRec
<1> HIDE DEF r
<1>4. x \in TaskRec
  BY Zenon, <1>3, ForkAssignments
<1>5. x.queued = FALSE /\ x.active = FALSE /\ x.req = r.req /\ x.eff = r.eff
  BY ONLY <1>3 DEF TaskRec
<1>6. task' = [task EXCEPT ![child] = x]
  BY DEF sched_fork, r, t, copy
<1>8. Fits(task[p]) => Fits(x)
  BY Zenon, <1>1, <1>3, <1>5, <1>7 DEF Fits
<1> HIDE DEF x
<1> QED
  BY ZenonT(60), <1>4, <1>5, <1>6, <1>8

LEMMA ParamsMarks ==
    ASSUME NEW t \in TaskRec, NEW a \in Attrs, NEW prio
    PROVE  Marks([__setscheduler_params(t, a) EXCEPT !.prio = prio], t)
<1> DEFINE new == [t EXCEPT !.policy = IF a.policy = "keep" THEN @ ELSE a.policy,
                            !.rt_priority = a.prio]
           u == IF new.policy = "NORMAL" THEN [new EXCEPT !.static_prio = NICE_TO_PRIO(a.nice)]
                ELSE new
<1>1. \A f \in {"queued", "active", "eff", "life"} : new[f] = t[f]
  BY Zenon DEF TaskRec
<1>2. DOMAIN new = DOMAIN t /\ DOMAIN u = DOMAIN t
  OBVIOUS
<1>3. \A f \in {"queued", "active", "eff", "life"} : u[f] = t[f]
  BY Zenon DEF TaskRec
<1>4. __setscheduler_params(t, a) = [u EXCEPT !.normal_prio = normal_prio(u)]
  BY DEF __setscheduler_params
<1> HIDE DEF u, new
<1> QED
  BY Zenon, <1>2, <1>3, <1>4 DEF Marks, TaskRec

LEMMA ClampsMarks ==
    ASSUME NEW t \in TaskRec, NEW a
    PROVE  Marks(__setscheduler_uclamp(t, a), t)
BY Zenon DEF __setscheduler_uclamp, Marks, TaskRec

LEMMA ChangedMarks ==
    ASSUME IInv, NEW c \in Caller, caller[c].pc = "lock"
    PROVE  Marks(Changed(caller[c].task, caller[c]), task[caller[c].task])
<1> DEFINE k == caller[c]
           p == k.task
           t == [task[p] EXCEPT !.reset_on_fork = k.reset]
           prio == __rt_effective_prio(pi_top_task[p],
                                       __normal_prio(k.policy, k.attr.prio, k.attr.nice))
           s == IF k.attr.keep THEN t ELSE [__setscheduler_params(t, k.attr) EXCEPT !.prio = prio]
<1>1. /\ k \in LockedCall /\ p \in Task /\ task[p] \in TaskRec
      /\ pi_top_task[p] \in Task \cup {None}
  BY Zenon DEF IInv, TypeInv, CallStates, LockedCall
<1>2. k.attr \in Attrs /\ k.reset \in BOOLEAN /\ k.attr.nice \in Nices /\ k.attr.prio \in Nat
  BY Zenon, <1>1 DEF LockedCall, IInv, CallInv, Attrs
<1>3. prio \in Int
  <2>1. __normal_prio(k.policy, k.attr.prio, k.attr.nice) \in Int
    BY <1>2 DEF __normal_prio, NICE_TO_PRIO
  <2>2. pi_top_task[p] # None => task[pi_top_task[p]].prio \in Int
    BY Zenon, <1>1 DEF IInv, TypeInv, TaskRec
  <2> HIDE DEF k, p
  <2> QED
    BY Zenon, <2>1, <2>2 DEF __rt_effective_prio
<1>4. Changed(p, k) = __setscheduler_uclamp(s, k.attr)
  BY DEF Changed
<1> HIDE DEF k, p, prio
<1>5. t \in TaskRec /\ Marks(t, task[p])
  BY ONLY Zenon, <1>1, <1>2 DEF TaskRec, Marks
<1> HIDE DEF t
<1>6. s \in TaskRec /\ Marks(s, t)
  <2>1. CASE k.attr.keep
    BY Zenon, <1>5, <2>1 DEF Marks
  <2>2. CASE ~k.attr.keep
    BY ZenonT(30), <1>2, <1>3, <1>5, <2>2, ParamsSet, ParamsMarks
  <2> QED
    BY Zenon, <2>1, <2>2
<1> HIDE DEF s
<1>7. Marks(__setscheduler_uclamp(s, k.attr), s)
  BY Zenon, <1>6, ClampsMarks
<1> QED
  BY ZenonT(60), <1>4, <1>5, <1>6, <1>7 DEF Marks, k, p

LEMMA NiceMarks ==
    ASSUME IInv, RqInv, InRange' => InRange, NEW p \in Task, NEW nice \in Nices, set_user_nice(p, nice)
    PROVE  RqInv'
<1> DEFINE n == NICE_TO_PRIO(nice)
           t == [task[p] EXCEPT !.static_prio = n]
           new == [t EXCEPT !.normal_prio = normal_prio(t), !.prio = effective_prio(t)]
<1>1. task[p] \in TaskRec /\ n \in StaticPrios /\ TypeInv /\ UNCHANGED used
  BY DEF IInv, TypeInv, NICE_TO_PRIO, StaticPrios, set_user_nice
<1> HIDE DEF n
<1>2. t \in TaskRec /\ Marks(t, task[p]) /\ t.policy = task[p].policy /\ t.req = task[p].req
  BY ONLY <1>1 DEF TaskRec, Marks
<1> HIDE DEF t
<1>5. InRange' => Fits(t)
  BY Zenon, <1>2 DEF RqInv, Fits, Marks
<1>3. CASE task[p].policy = "FIFO"
  <2>1. task' = [task EXCEPT ![p] = t] /\ UNCHANGED urq
    BY Zenon, <1>2, <1>3 DEF set_user_nice, t, n
  <2> QED
    BY ZenonT(60), <1>1, <1>2, <1>5, <2>1, RqSame
<1>4. CASE task[p].policy # "FIFO"
  <2>1. Change(p, new)
    BY Zenon, <1>2, <1>4 DEF set_user_nice, t, n
  <2>2. normal_prio(t) \in Int /\ effective_prio(t) \in Int
    BY <1>2 DEF normal_prio, __normal_prio, NICE_TO_PRIO, PRIO_TO_NICE, StaticPrios, TaskRec,
                effective_prio
  <2>3. new \in TaskRec /\ Marks(new, t) /\ new.req = t.req
    BY ONLY Zenon, <1>2, <2>2 DEF TaskRec, Marks
  <2> HIDE DEF new
  <2>4. Marks(new, task[p]) /\ (InRange' => Fits(new))
    BY Zenon, <1>2, <1>5, <2>3 DEF Marks, Fits
  <2> QED
    BY ZenonT(60), <1>1, <2>1, <2>3, <2>4, RqChange
<1> QED
  BY ZenonT(60), <1>3, <1>4

LEMMA SetprioMarks ==
    ASSUME IInv, RqInv, InRange' => InRange, NEW p \in Task, NEW donor \in Task \cup {None}, rt_mutex_setprio(p, donor)
    PROVE  RqInv'
<1> DEFINE prio == __rt_effective_prio(donor, task[p].normal_prio)
           new == [task[p] EXCEPT !.prio = prio]
<1>1. task[p] \in TaskRec /\ prio \in Int /\ UNCHANGED used
  BY Zenon DEF IInv, TypeInv, TaskRec, __rt_effective_prio, rt_mutex_setprio
<1>2. CASE prio = task[p].prio
  <2>1. UNCHANGED <<task, urq>>
    BY Zenon, <1>2 DEF rt_mutex_setprio, Setprio
  <2> QED
    BY Zenon, <1>1, <2>1, RqStutter
<1>3. CASE prio # task[p].prio
  <2>1. Change(p, new)
    BY Zenon, <1>3 DEF rt_mutex_setprio, Setprio
  <2> HIDE DEF prio
  <2>2. new \in TaskRec /\ Marks(new, task[p]) /\ new.req = task[p].req
    BY ONLY Zenon, <1>1 DEF TaskRec, Marks
  <2> HIDE DEF new
  <2>3. InRange' => Fits(new)
    BY Zenon, <2>2 DEF RqInv, Fits, Marks
  <2> QED
    BY Zenon, <1>1, <2>1, <2>2, <2>3, RqChange
<1> QED
  BY Zenon, <1>2, <1>3

-----------------------------------------------------------------------------
(* Every step keeps the runqueue exact.                                    *)

LEMMA SleepRq ==
    ASSUME IInv, RqInv, InRange' => InRange, NEW p \in Task, Sleep(p)
    PROVE  RqInv'
<1> DEFINE x == Dequeued(task[p])
<1>1. /\ task[p] \in TaskRec /\ TypeInv /\ task' = [task EXCEPT ![p] = x]
      /\ urq' = DequeuedRq(urq, task[p]) /\ UNCHANGED used /\ (task[p].active => used)
  BY DEF IInv, TypeInv, Sleep, RqInv
<1>2. x \in TaskRec /\ x.queued = FALSE /\ x.active = FALSE /\ x.req = task[p].req
      /\ x.eff = task[p].eff
  BY ZenonT(60), <1>1, DequeuedSame DEF Dequeued, TaskRec
<1> HIDE DEF x
<1>3. Exact(urq', task', InRange')
  <2>1. Exact(urq, task, InRange')
    BY Zenon, ExactWeak DEF RqInv, Exact
  <2> QED
    BY Zenon, <1>1, <1>2, <2>1, DequeueExact DEF TypeInv
<1>4. InRange' => Fits(x)
  BY Zenon, <1>2 DEF RqInv, Fits
<1> QED
  BY ZenonT(60), <1>1, <1>2, <1>3, <1>4 DEF RqInv, Exact, TypeInv

\* Wake() and wake_up_new_task(): the task was not queued, so not charged.
LEMMA WakeRq ==
    ASSUME IInv, RqInv, InRange' => InRange, NEW p \in Task, Wake(p) \/ wake_up_new_task(p)
    PROVE  RqInv'
<1>1. TypeInv /\ task[p] \in TaskRec /\ UNCHANGED used /\ urq' = EnqueuedRq(urq, task[p])
  BY DEF IInv, TypeInv, Wake, wake_up_new_task
<1>2. ~task[p].active
  BY DEF Wake, wake_up_new_task, RqInv
<1> DEFINE y == Enqueued(task[p])
           z == [y EXCEPT !.life = "alive"]
<1>3. y \in TaskRec /\ y.active = used /\ y.queued = TRUE /\ y.life = task[p].life
      /\ (used => y.eff = uclamp_eff_get(task[p]))
  BY ZenonT(60), <1>1, <1>2, EnqueuedSame DEF Enqueued, TaskRec, Same, TypeInv
<1>a. InRange' => Fits(task[p]) /\ Fits(y)
  BY Zenon, <1>1, EnqueuedFits DEF RqInv
<1>4. (task' = [task EXCEPT ![p] = y] /\ y.life = "alive") \/ task' = [task EXCEPT ![p] = z]
  BY Zenon, <1>3 DEF Wake, wake_up_new_task, Alive
<1> HIDE DEF y
<1>5. z \in TaskRec /\ z.active = used /\ z.queued = TRUE /\ z.life = "alive" /\ z.eff = y.eff /\ z.req = y.req
  BY ONLY Zenon, <1>3 DEF TaskRec
<1> HIDE DEF z
<1>6. PICK x \in TaskRec : /\ task' = [task EXCEPT ![p] = x] /\ x.active = used
                           /\ x.life = "alive" /\ x.queued = TRUE
                           /\ used => x.eff = uclamp_eff_get(task[p])
                           /\ InRange' => Fits(x)
  BY ZenonT(60), <1>a, <1>3, <1>4, <1>5 DEF Fits
<1>7. Exact(urq, task, InRange') /\ task \in [Task -> TaskRec]
  BY Zenon, <1>1, ExactWeak DEF RqInv, Exact, TypeInv
<1>8. Exact(EnqueuedRq(urq, task[p]), [task EXCEPT ![p] = x], InRange')
  BY ONLY ZenonT(60), <1>a, <1>1, <1>2, <1>6, <1>7, EnqueueExact, p \in Task
<1>9. Exact(urq', task', InRange')
  BY ONLY ZenonT(60), <1>1, <1>6, <1>8
<1> QED
  BY ZenonT(60), <1>1, <1>6, <1>9 DEF RqInv, Exact, TypeInv

LEMMA ForkRq ==
    ASSUME IInv, RqInv, InRange' => InRange, NEW p \in Task,
           link(p) \/ sched_post_fork(p) \/ \E child \in Task : sched_fork(p, child)
    PROVE  RqInv'
<1>0. TypeInv /\ UNCHANGED <<urq, used>> /\ task[p] \in TaskRec
  BY DEF IInv, TypeInv, link, sched_post_fork, sched_fork, clampVars
<1>1. CASE link(p)
  <2> DEFINE x == [task[p] EXCEPT !.life = "linked"]
  <2>1. task' = [task EXCEPT ![p] = x] /\ ~task[p].queued
    BY Zenon, <1>1 DEF link, RqInv
  <2>2. x \in TaskRec /\ x.active = task[p].active /\ x.queued = task[p].queued
        /\ x.eff = task[p].eff /\ x.req = task[p].req
    BY ONLY ZenonT(60), <1>0 DEF TaskRec
  <2> HIDE DEF x
  <2>3. InRange' => Fits(x)
    BY Zenon, <2>2 DEF RqInv, Fits
  <2> QED
    BY ZenonT(60), <1>0, <2>1, <2>2, <2>3, RqFrame
<1>2. CASE sched_post_fork(p)
  <2> DEFINE y == IF rt_task(p) THEN WithRtDefault(task[p]) ELSE task[p]
             x == [y EXCEPT !.life = "posted"]
  <2>1. task' = [task EXCEPT ![p] = x] /\ ~task[p].queued
    BY Zenon, <1>2 DEF sched_post_fork, RqInv
  <2>2. y \in TaskRec /\ y.active = task[p].active /\ y.queued = task[p].queued
        /\ y.eff = task[p].eff
    BY ZenonT(30), <1>0, WithRtDefaultSame DEF WithRtDefault, TaskRec
  <2> HIDE DEF y
  <2>3. x \in TaskRec /\ x.active = task[p].active /\ x.queued = task[p].queued
        /\ x.eff = task[p].eff /\ x.req = y.req
    BY ONLY <2>2 DEF TaskRec
  <2>4. Excess(y) \subseteq touched'[p]
    BY Zenon, <1>0, <1>2 DEF sched_post_fork, y, TypeInv
  <2> HIDE DEF x
  <2>5. InRange' => Fits(x)
    BY Zenon, <2>2, <2>3, <2>4, ExcessMarked DEF RqInv, Fits
  <2> QED
    BY Zenon, <1>0, <2>1, <2>3, <2>5, RqFrame
<1>3. ASSUME NEW child \in Task, sched_fork(p, child) PROVE RqInv'
  <2>1. PICK x \in TaskRec :
            /\ task' = [task EXCEPT ![child] = x] /\ x.active = FALSE /\ x.queued = FALSE
            /\ Fits(task[p]) => Fits(x)
    BY Zenon, <1>0, <1>3, ForkedMarks
  <2>2. task[child].queued = FALSE /\ task[child].active = FALSE
    <3>1. task[child].life = "none" /\ task[child] \in TaskRec
      BY ZenonT(60), <1>0, <1>3 DEF sched_fork, TypeInv
    <3> QED
      BY Zenon, <3>1 DEF RqInv, TaskRec
  <2>3. /\ x.active = task[child].active /\ x.queued = task[child].queued
        /\ (task[child].active => x.eff = task[child].eff) /\ (x.queued => x.life = "alive")
        /\ (used => used') /\ UNCHANGED urq /\ (InRange' => InRange /\ Fits(x))
    BY ZenonT(60), <1>0, <2>1, <2>2 DEF RqInv
  <2> QED
    BY ONLY Zenon, <1>0, <2>1, <2>3, RqFrame, RqInv, child \in Task
<1> QED
  BY ZenonT(60), <1>1, <1>2, <1>3

\* A call of __sched_setscheduler() changes no task before it has the lock.
LEMMA CallRq ==
    ASSUME IInv, RqInv, InRange' => InRange, NEW c \in Caller, NEW p \in Task,
           \/ \E a \in may.attrs :
                  sched_setscheduler(c, p, a) \/ sched_setparam(c, p, a) \/ sched_setattr(c, p, a)
           \/ sched_set_fifo(c, p) \/ sched_set_fifo_low(c, p)
           \/ \E nice \in may.nice : sched_set_normal(c, p, nice)
    PROVE  RqInv'
<1>1. PICK a : Call(c, p, a)
  BY Zenon DEF sched_setscheduler, sched_setparam, sched_setattr, sched_set_fifo,
               sched_set_fifo_low, sched_set_normal, _sched_setscheduler
<1>2. UNCHANGED <<urq, task>> /\ (used => used')
  BY Zenon, <1>1 DEF Call, Recheck
<1> QED
  BY ZenonT(60), <1>2, RqStutter

LEMMA SetLockedRq ==
    ASSUME IInv, RqInv, InRange' => InRange, NEW c \in Caller, SetLocked(c)
    PROVE  RqInv'
<1> DEFINE k == caller[c]
           p == k.task
           x == [task[p] EXCEPT !.reset_on_fork = k.reset]
<1>1. /\ k.pc = "lock" /\ k \in LockedCall /\ p \in Task /\ task[p] \in TaskRec
      /\ k.reset \in BOOLEAN /\ TypeInv
  BY DEF IInv, TypeInv, CallStates, LockedCall, SetLocked
<1>2. \/ task' = [task EXCEPT ![p].reset_on_fork = k.reset] /\ UNCHANGED <<urq, used>>
      \/ UNCHANGED <<task, urq>> /\ (used => used')
      \/ /\ ~Stale(task[p], k) /\ Change(p, Changed(p, k)) /\ UNCHANGED used
         /\ Excess(Changed(p, k)) \subseteq touched'[p]
  <2>1. ASSUME NEW A, NEW B, NEW C, touched' = [touched EXCEPT ![p] = @ \cup A \cup B \cup C]
        PROVE  C \subseteq touched'[p]
    BY <1>1, <2>1 DEF TypeInv
  <2> HIDE DEF k, p
  <2> QED
    BY Zenon, <2>1 DEF SetLocked, Recheck, k, p
<1>3. CASE task' = [task EXCEPT ![p].reset_on_fork = k.reset] /\ UNCHANGED <<urq, used>>
  <2>1. task' = [task EXCEPT ![p] = x]
    BY Zenon, <1>1, <1>3
  <2> HIDE DEF k, p
  <2>2. x \in TaskRec /\ Marks(x, task[p]) /\ x.req = task[p].req
    BY ONLY Zenon, <1>1 DEF TaskRec, Marks
  <2> HIDE DEF x
  <2>3. InRange' => InRange /\ Fits(x)
    BY Zenon, <1>1, <2>2 DEF RqInv, Fits, Marks
  <2> QED
    BY ONLY ZenonT(60), <1>1, <1>3, <2>1, <2>2, <2>3, RqSame, RqInv
<1>4. CASE UNCHANGED <<task, urq>> /\ (used => used')
  BY Zenon, <1>4, RqStutter
<1>5. CASE /\ ~Stale(task[p], k) /\ Change(p, Changed(p, k)) /\ UNCHANGED used
           /\ Excess(Changed(p, k)) \subseteq touched'[p]
  <2>1. Changed(p, k) \in TaskRec
    BY ZenonT(60), <1>1, <1>5, ChangedTask
  <2>2. Marks(Changed(p, k), task[p])
    BY Zenon, <1>1, ChangedMarks
  <2> HIDE DEF k, p
  <2>3. InRange' => Fits(Changed(p, k))
    BY Zenon, <1>1, <1>5, <2>1, <2>2, ExcessMarked DEF RqInv, Fits, Marks
  <2> QED
    BY ZenonT(60), <1>1, <1>5, <2>1, <2>2, <2>3, RqChange
<1> QED
  BY ZenonT(30), <1>2, <1>3, <1>4, <1>5

LEMMA AdjustRq ==
    ASSUME IInv, RqInv, InRange' => InRange, NEW c \in Caller, rt_mutex_adjust_pi(c)
    PROVE  RqInv'
<1> DEFINE q == caller[c].task
           p == CHOOSE r \in Task : pi_top_task[r] = q
<1>1. q \in Task
  BY Zenon DEF rt_mutex_adjust_pi, IInv, TypeInv, CallStates, LockedCall
<1>2. CASE Blocked(q)
  <2>1. p \in Task /\ rt_mutex_setprio(p, q)
    BY Zenon, <1>2 DEF Blocked, rt_mutex_adjust_pi
  <2> HIDE DEF p, q
  <2> QED
    BY ZenonT(60), <1>1, <2>1, SetprioMarks
<1>3. CASE ~Blocked(q)
  <2>1. UNCHANGED <<task, urq, used>>
    BY Zenon, <1>3 DEF rt_mutex_adjust_pi, clampVars
  <2> QED
    BY Zenon, <2>1, RqStutter
<1> QED
  BY ZenonT(60), <1>2, <1>3

LEMMA SysctlRq ==
    ASSUME IInv, RqInv, InRange' => InRange, SysctlStep
    PROVE  RqInv'
<1>1. CASE UpdateRt
  <2> DEFINE p == sync.task
             x == WithRtDefault(task[p])
  <2>1. p \in Task /\ task' = [task EXCEPT ![p] = x] /\ UNCHANGED <<urq, used>>
        /\ TypeInv /\ task[p] \in TaskRec
    BY Zenon, <1>1 DEF UpdateRt, IInv, TypeInv, SyncStates
  <2>3. util_min_rt_default \in ClampValues
    BY Zenon, <1>1 DEF UpdateRt, IInv, TypeInv
  <2> HIDE DEF p
  <2>2. x \in TaskRec /\ Marks(x, task[p])
        /\ \A id \in ClampIds : x.req[id].value \in {task[p].req[id].value, util_min_rt_default}
    BY Zenon, <2>1, WithRtDefaultSame DEF WithRtDefault, TaskRec, Marks
  <2> HIDE DEF x
  <2>4. InRange' => Fits(x)
    BY Zenon, <2>1, <2>2, <2>3 DEF RqInv, Fits, Marks
  <2> QED
    BY ZenonT(60), <2>1, <2>2, <2>4, RqSame
<1>2. CASE ~UpdateRt
  <2>1. UNCHANGED <<task, urq>> /\ (used => used')
    BY <1>2 DEF SysctlStep, sysctl_sched_uclamp_default, sysctl_sched_uclamp_handler,
                CheckDefault, uclamp_sync_util_min_rt_default, TestRt, SyncDone
  <2> QED
    BY ZenonT(60), <2>1, RqStutter
<1> QED
  BY ZenonT(60), <1>1, <1>2

LEMMA InitRq == Init => RqInv
<1> SUFFICES ASSUME Init PROVE RqInv
  BY Zenon
<1>1. \A p \in Task : task[p].active = FALSE /\ (task[p].queued => task[p].life = "alive")
  BY DEF Init, FirstTask
<1>2. ActiveOf(task) = {}
  BY Zenon, <1>1 DEF ActiveOf
<1>3. urq \in RqRec /\ urq.idle
  BY DEF Init, init_uclamp_rq, RqRec, Buckets, FieldValues, uclamp_none
<1>4. ASSUME NEW id \in ClampIds, NEW e PROVE Counted(urq.bucket[id], urq.value[id], {}, e, InRange)
  <2>1. \A b \in BucketIds : urq.bucket[id][b].tasks = 0
    BY DEF Init, init_uclamp_rq
  <2>2. \A b : Charged({}, e, b) = {}
    BY DEF Charged
  <2>3. Cardinality({}) = 0
    BY Zenon, FS_EmptySet
  <2>4. \A b \in BucketIds : urq.bucket[id][b].tasks = Cardinality(Charged({}, e, b))
    BY ONLY ZenonT(60), <2>1, <2>2, <2>3
  <2> QED
    BY ONLY <2>1, <2>4 DEF Counted
<1>5. ASSUME NEW p \in Task PROVE Fits(task[p])
  BY DEF Init, FirstTask, Fits, uclamp_none
<1> QED
  BY ZenonT(60), <1>1, <1>2, <1>3, <1>4, <1>5 DEF RqInv, Exact, RqExact

\* No step takes a mark back.
LEMMA MarksStay ==
    ASSUME IInv, [Next]_vars
    PROVE  InRange' => InRange
<1> DEFINE Grown == \A q \in Task : touched[q] \subseteq touched'[q]
<1>1. UNCHANGED touched => Grown
  OBVIOUS
<1>2. ASSUME NEW p, NEW S, touched' = [touched EXCEPT ![p] = @ \cup S] PROVE Grown
  BY <1>2 DEF IInv, TypeInv
<1>3. ASSUME NEW p, NEW A, NEW B, NEW C,
             touched' = [touched EXCEPT ![p] = @ \cup A \cup B \cup C]
      PROVE  Grown
  BY <1>3 DEF IInv, TypeInv
<1> HIDE DEF Grown
<1>4. Grown
  <2>1. CASE \E c \in Caller : SetLocked(c)
    BY Zenon, <1>1, <1>3, <2>1 DEF SetLocked
  <2>2. CASE ~\E c \in Caller : SetLocked(c)
    BY Zenon, <1>1, <1>2, <2>2
       DEF Next, vars, Sleep, Wake, ForkStep, rt_mutex_unlock, sched_fork, link, sched_post_fork,
           wake_up_new_task, sched_setscheduler, sched_setparam, sched_setattr, sched_set_fifo,
           sched_set_fifo_low, sched_set_normal, _sched_setscheduler, Call, rt_mutex_lock,
           rt_mutex_adjust_pi, set_user_nice, SysctlStep, sysctl_sched_uclamp_default,
           sysctl_sched_uclamp_handler, CheckDefault, uclamp_sync_util_min_rt_default, TestRt,
           UpdateRt, SyncDone
  <2> QED
    BY Zenon, <2>1, <2>2
<1> QED
  BY Zenon, <1>4 DEF Grown, InRange

LEMMA NextRq == IInv /\ RqInv /\ [Next]_vars => RqInv'
<1> SUFFICES ASSUME IInv, RqInv, [Next]_vars PROVE RqInv'
  BY Zenon
<1>0. InRange' => InRange
  BY Zenon, MarksStay
<1>1. CASE \E p \in Task : Sleep(p) \/ Wake(p) \/ ForkStep(p) \/ rt_mutex_unlock(p)
  <2> PICK p \in Task : Sleep(p) \/ Wake(p) \/ ForkStep(p) \/ rt_mutex_unlock(p)
    BY Zenon, <1>1
  <2>1. CASE rt_mutex_unlock(p)
    BY Zenon, <2>1, <1>0, SetprioMarks DEF rt_mutex_unlock
  <2> QED
    BY ZenonT(60), <2>1, <1>0, SleepRq, WakeRq, ForkRq DEF ForkStep
<1>2. CASE \E c \in Caller, p \in Task :
             \/ \E a \in may.attrs :
                  sched_setscheduler(c, p, a) \/ sched_setparam(c, p, a) \/ sched_setattr(c, p, a)
             \/ sched_set_fifo(c, p) \/ sched_set_fifo_low(c, p)
             \/ \E nice \in may.nice : sched_set_normal(c, p, nice)
  BY Zenon, <1>2, <1>0, CallRq
<1>3. CASE \E c \in Caller : SetLocked(c) \/ rt_mutex_adjust_pi(c)
  BY Zenon, <1>3, <1>0, SetLockedRq, AdjustRq
<1>4. CASE \E q, p \in Task : rt_mutex_lock(q, p)
  BY Zenon, <1>4, <1>0, SetprioMarks DEF rt_mutex_lock
<1>5. CASE \E p \in Task, nice \in -MAX_NICE .. MAX_NICE : set_user_nice(p, nice)
  BY Zenon, <1>5, <1>0, NiceMarks
<1>6. CASE SysctlStep
  BY Zenon, <1>6, <1>0, SysctlRq
<1>7. CASE UNCHANGED vars
  BY Zenon, <1>7, <1>0, RqStutter DEF vars, clampVars
<1> QED
  BY ZenonT(60), <1>1, <1>2, <1>3, <1>4, <1>5, <1>6, <1>7 DEF Next

(* The buckets of uclamp_rq_inc() and uclamp_rq_dec() count exactly the    *)
(* tasks charged to them, however many tasks sleep, wake up, fork and      *)
(* change their requests, whatever u32 they ask for and whatever the       *)
(* sysctl and the static key do meanwhile: the first SCHED_WARN_ON() of    *)
(* uclamp_rq_dec_id() does not fire.  As long as no clamp out of range got *)
(* past uclamp_validate() or the sysctl, the runqueue's clamps are those   *)
(* of its top buckets and bound those of its tasks.                        *)
THEOREM UClampAlwaysExact == Spec => []UClampExact
<1>1. IInv /\ RqInv => UClampExact
  <2> SUFFICES ASSUME IInv, RqInv PROVE UClampExact
    BY Zenon
  <2> DEFINE e == EffOf(task)
  <2>1. Active \in SUBSET Task /\ e \in [Task -> ClampPairs] /\ RqExact(urq, Active, e, InRange)
    BY DEF Active, EffOf, ActiveOf, RqInv, Exact, IInv, TypeInv, TaskRec, ClampPairs
  <2>2. \A p \in Active : p \in Task /\ task[p].queued /\ e[p] = task[p].eff
    BY Zenon DEF Active, RqInv, EffOf
  <2>5. InRange => \A p \in Active : Fits(task[p])
    BY Zenon, <2>2 DEF RqInv
  <2>3. urq.idle <=> Active = {}
    BY Zenon, <2>1 DEF RqExact
  <2> HIDE DEF e
  <2>4. ASSUME NEW id \in ClampIds
        PROVE  /\ \A b \in BucketIds : urq.bucket[id][b].tasks =
                      Cardinality({p \in Active : uclamp_bucket_id(task[p].eff[id]) = b})
               /\ InRange => \A p \in Active : task[p].eff[id] <= urq.value[id]
               /\ InRange /\ Active # {} =>
                      urq.value[id] = urq.bucket[id][Max(Occupied(urq, id))].value
    <3>1. \A b : {p \in Active : uclamp_bucket_id(e[p][id]) = b}
                 = {p \in Active : uclamp_bucket_id(task[p].eff[id]) = b}
      BY Zenon, <2>2
    <3>2. InRange => \A p \in Active : e[p][id] \in ClampValues
      BY Zenon, <2>2, <2>5 DEF Fits
    <3>3. Tracked(urq, id, Active, e, InRange)
      BY ONLY ZenonT(60), <2>1, <3>2, ExactValue, id \in ClampIds
    <3> QED
      BY ZenonT(60), <2>2, <3>1, <3>3 DEF Tracked
  <2> QED
    BY ZenonT(60), <2>2, <2>3, <2>4 DEF UClampExact, InRange
<1>2. Spec => []RqInv
  BY Inductive, InitRq, NextRq, PTL DEF Spec
<1> QED
  BY <1>1, <1>2, Inductive, PTL

=============================================================================
