------------------------- MODULE SchedParamsProofs -------------------------
(***************************************************************************)
(* Proofs about SchedParams, for every set of tasks, of callers and of     *)
(* scenarios: the fields of a task agree, a lock's owner keeps the         *)
(* priority its waiter lends it, and a new default for real-time tasks     *)
(* reaches every one of them.                                              *)
(***************************************************************************)
EXTENDS SchedParams, TLAPS

Policies == {"NORMAL", "FIFO"}
Nices == -MAX_NICE .. MAX_NICE
StaticPrios == MAX_RT_PRIO .. MAX_RT_PRIO + 2 * MAX_NICE

TaskRec ==
    [life : {"none", "new", "linked", "posted", "alive"}, policy : Policies,
     static_prio : StaticPrios, rt_priority : Nat,
     normal_prio : Int, prio : Int, reset_on_fork : BOOLEAN, queued : BOOLEAN,
     active : BOOLEAN, req : [ClampIds -> [value : Unsigned, user : BOOLEAN]],
     eff : [ClampIds -> Unsigned]]

LockedCall ==
    [pc : {"lock"}, task : Task, attr : Attrs, policy : Policies, old : Policies \cup {None},
     reset : BOOLEAN]

CallStates == [pc : {"idle"}] \cup [pc : {"adjust"}, task : Task] \cup LockedCall

SyncStates ==
    [pc : {"idle", "lock"}] \cup [pc : {"check"}, old : ClampValues] \cup [pc : {"loop"}, todo : SUBSET Task]
        \cup [pc : {"update"}, todo : SUBSET Task, task : Task]

TypeInv ==
    /\ may \in Scenarios
    /\ task \in [Task -> TaskRec]
    /\ touched \in [Task -> SUBSET {"params", "clamps", "boost", "excess"}]
    /\ used \in BOOLEAN
    /\ uclamp_default \in [ClampIds -> ClampValues]
    /\ util_min_rt_default \in Unsigned
    /\ sync.pc # "check" => util_min_rt_default \in ClampValues
    /\ sync \in SyncStates
    /\ caller \in [Caller -> CallStates]
    /\ pi_top_task \in [Task -> Task \cup {None}]

\* A task of real-time policy runs at a real-time priority, unless it was
\* boosted since its fork: it may have got a normal priority back.
FieldsInv ==
    \A p \in Task :
        /\ (task[p].policy = "FIFO") <=> (task[p].rt_priority # 0)
        /\ "params" \in touched[p] =>
               /\ task[p].normal_prio = normal_prio(task[p])
               /\ pi_top_task[p] = None => task[p].prio = task[p].normal_prio
        /\ task[p].policy = "FIFO" /\ "boost" \notin touched[p] => rt_task(p)
        /\ touched[p] # {} => p \in Linked

\* What a caller carries from its checks to the lock: the policy it resolved
\* and the parameters agree, and a kept policy is remembered in k.old.
CallInv ==
    \A c \in Caller : caller[c].pc = "lock" =>
        LET k == caller[c]
        IN  /\ k.task \in Linked /\ k.attr.nice \in Nices /\ k.attr.prio < MAX_RT_PRIO
            /\ (k.policy = "FIFO") <=> (k.attr.prio # 0)
            /\ IF k.attr.policy = "keep" THEN k.old = k.policy
               ELSE k.policy = k.attr.policy /\ k.old = None

\* Waiters: a task lends its priority to one owner at most, and is not lent one.
WaitersInv ==
    \A p \in Task : pi_top_task[p] # None =>
        /\ p \in Alive /\ pi_top_task[p] \in Alive
        /\ pi_top_task[pi_top_task[p]] = None
        /\ "boost" \in touched[p]
        /\ \A q \in Task : pi_top_task[q] = pi_top_task[p] => q = p

\* The tasks of which RtDefaultSynced speaks.
Subject(p) ==
    /\ task[p].life \in {"posted", "alive"} /\ task[p].policy = "FIFO"
    /\ touched[p] \cap {"clamps", "boost"} = {} /\ ~task[p].req["MIN"].user

\* A task without the new default has the one a refused write is going to bring
\* back, or took one that was refused, or the loop over the task list still has
\* it in front of it.
SyncInv ==
    \A p \in Task : Subject(p) =>
        \/ task[p].req["MIN"].value = util_min_rt_default
        \/ task[p].req["MIN"].value > SCHED_CAPACITY_SCALE
        \/ sync.pc = "check" /\ task[p].req["MIN"].value = sync.old
        \/ sync.pc = "lock"
        \/ sync.pc \in {"loop", "update"} /\ p \in sync.todo
        \/ sync.pc = "update" /\ p = sync.task

IInv == TypeInv /\ FieldsInv /\ CallInv /\ WaitersInv /\ BoostKept /\ SyncInv

USE SchedParamsAssumption, UClampAssumption DEF Policies, Nices, ClampIds, ClampValues, None,
    NoClamp, Unsigned, UINT_MAX

-----------------------------------------------------------------------------
(* What the operations on the runqueue leave alone in a task.              *)

SameParams(a, b) ==
    /\ a.policy = b.policy /\ a.rt_priority = b.rt_priority /\ a.static_prio = b.static_prio
    /\ a.normal_prio = b.normal_prio /\ a.prio = b.prio

Same(a, b) == SameParams(a, b) /\ a.life = b.life /\ a.req = b.req

\* enqueue_task() and dequeue_task() change no parameter, only the marks and the
\* clamp the task is charged with.
LEMMA EnqueuedSame ==
    ASSUME TypeInv, NEW t \in TaskRec
    PROVE  Enqueued(t) \in TaskRec /\ Same(Enqueued(t), t)
<1>1. uclamp_eff_get(t) \in [ClampIds -> Unsigned]
  BY DEF uclamp_eff_get, TypeInv, TaskRec
<1> QED
  BY Zenon, <1>1 DEF Enqueued, TaskRec, Same, SameParams, TypeInv

LEMMA DequeuedSame ==
    ASSUME TypeInv, NEW t \in TaskRec
    PROVE  Dequeued(t) \in TaskRec /\ Same(Dequeued(t), t)
BY Zenon DEF Dequeued, TaskRec, Same, SameParams, TypeInv

\* The task after a change has the parameters of the change.
LEMMA ChangeSame ==
    ASSUME TypeInv, NEW p \in Task, NEW new \in TaskRec, Change(p, new)
    PROVE  \E x \in TaskRec : Same(x, new) /\ task' = [task EXCEPT ![p] = x]
<1> DEFINE out == [new EXCEPT !.queued = FALSE, !.active = Dequeued(task[p]).active]
<1>1. Dequeued(task[p]).active \in BOOLEAN
  BY DequeuedSame DEF TypeInv, TaskRec
<1>2. out \in TaskRec /\ Same(out, new)
  BY Zenon, <1>1 DEF TaskRec, Same, SameParams
<1>3. Enqueued(out) \in TaskRec /\ Same(Enqueued(out), out)
  BY <1>2, EnqueuedSame
<1>4. Same(Enqueued(out), new) /\ Same(new, new)
  BY <1>2, <1>3 DEF Same, SameParams
<1> QED
  BY <1>3, <1>4 DEF Change

-----------------------------------------------------------------------------
(* Steps that change no parameter: a task sleeps, wakes up, becomes        *)
(* visible, is charged or gets another clamp request.                      *)

\* Parameters stay, and a task stays visible once it is.
Onward ==
    \A q \in Task :
        /\ SameParams(task[q]', task[q])
        /\ task[q].life = "alive" => task[q]'.life = "alive"
        /\ task[q].life \in {"linked", "posted"} => task[q]'.life \in {"linked", "posted", "alive"}

\* The history of a visible task may only tell of a clamp out of range.
Marked ==
    \A q \in Task :
        \/ touched'[q] = touched[q]
        \/ q \in Linked /\ touched'[q] = touched[q] \cup {"excess"}

LEMMA UpdateOnward ==
    ASSUME TypeInv, NEW p \in Task, NEW x \in TaskRec, SameParams(x, task[p]),
           task' = [task EXCEPT ![p] = x],
           task[p].life = "alive" => x.life = "alive",
           task[p].life \in {"linked", "posted"} => x.life \in {"linked", "posted", "alive"}
    PROVE  Onward /\ task' \in [Task -> TaskRec]
BY DEF Onward, TypeInv, SameParams

LEMMA OnwardInv ==
    ASSUME IInv, TypeInv', Onward, Marked, UNCHANGED <<pi_top_task, caller>>
    PROVE  FieldsInv' /\ CallInv' /\ WaitersInv' /\ BoostKept'
<1> USE DEF IInv, TypeInv
<1>1. \A q \in Task : normal_prio(task[q])' = normal_prio(task[q]) /\ rt_task(q)' = rt_task(q)
  BY DEF Onward, SameParams, normal_prio, rt_task
<1>2. Linked \subseteq Linked' /\ Alive \subseteq Alive'
  BY DEF Onward, Linked, Alive
<1>3. FieldsInv'
  BY <1>1, <1>2 DEF FieldsInv, Onward, Marked, SameParams
<1>4. CallInv'
  BY <1>2 DEF CallInv
<1>5. WaitersInv'
  BY <1>2 DEF WaitersInv, Marked
<1>6. BoostKept'
  <2> SUFFICES ASSUME NEW p \in Task, pi_top_task[p] # None, rt_task(pi_top_task[p])',
                      ~\E c \in Caller : caller[c].pc = "adjust" /\ caller[c].task = pi_top_task[p]
               PROVE  task'[p].prio <= task'[pi_top_task[p]].prio
    BY DEF BoostKept, Alive
  <2>1. pi_top_task[p] \in Task /\ p \in Alive
    BY DEF WaitersInv
  <2> QED
    BY <1>1, <2>1 DEF BoostKept, Onward, SameParams
<1> QED
  BY <1>3, <1>4, <1>5, <1>6

\* Tasks that are as good as before, or have the current default.
LEMMA SyncFrame ==
    ASSUME IInv, UNCHANGED <<util_min_rt_default, sync>>,
           \A q \in Task : Subject(q)' =>
               \/ Subject(q) /\ task[q]'.req = task[q].req
               \/ task[q]'.req["MIN"].value = util_min_rt_default
    PROVE  SyncInv'
BY DEF SyncInv, IInv

LEMMA SleepInv ==
    ASSUME IInv, NEW p \in Task, Sleep(p) \/ Wake(p)
    PROVE  IInv'
<1>1. PICK x \in TaskRec : Same(x, task[p]) /\ task' = [task EXCEPT ![p] = x]
  BY EnqueuedSame, DequeuedSame DEF Sleep, Wake, IInv, TypeInv
<1>2. UNCHANGED <<may, touched, used, uclamp_default, util_min_rt_default, sync, caller,
                  pi_top_task>>
  BY DEF Sleep, Wake
<1>3. Onward /\ task' \in [Task -> TaskRec]
  BY Zenon, <1>1, UpdateOnward DEF Same, IInv
<1>4. TypeInv'
  BY Zenon, <1>2, <1>3 DEF IInv, TypeInv
<1>5. SyncInv'
  BY <1>1, <1>2, SyncFrame DEF Subject, Same, SameParams, IInv, TypeInv
<1> QED
  BY <1>2, <1>3, <1>4, <1>5, OnwardInv DEF IInv, Marked

LEMMA WithRtDefaultSame ==
    ASSUME TypeInv, NEW t \in TaskRec
    PROVE  /\ WithRtDefault(t) \in TaskRec
           /\ SameParams(WithRtDefault(t), t) /\ WithRtDefault(t).life = t.life
           /\ \/ WithRtDefault(t).req["MIN"].user
              \/ WithRtDefault(t).req["MIN"].value = util_min_rt_default
BY Zenon DEF WithRtDefault, TaskRec, SameParams, TypeInv

LEMMA WithLife ==
    ASSUME NEW t \in TaskRec, NEW l \in {"linked", "posted", "alive"}
    PROVE  LET x == [t EXCEPT !.life = l]
           IN  x \in TaskRec /\ SameParams(x, t) /\ x.life = l /\ x.req = t.req
BY DEF TaskRec, SameParams

\* A task on the list that has not been through sched_post_fork() is none of
\* RtDefaultSynced's; there it gets the current default.
LEMMA LinkInv ==
    ASSUME IInv, NEW p \in Task, link(p) \/ sched_post_fork(p) \/ wake_up_new_task(p)
    PROVE  IInv'
<1> USE DEF IInv, TypeInv
<1>0. UNCHANGED <<may, used, uclamp_default, util_min_rt_default, sync, caller,
                  pi_top_task>>
  BY DEF link, sched_post_fork, wake_up_new_task, clampVars
<1>1. CASE link(p)
  <2> DEFINE x == [task[p] EXCEPT !.life = "linked"]
  <2>0. task[p].life = "new" /\ task' = [task EXCEPT ![p] = x]
    BY <1>1 DEF link
  <2>5. UNCHANGED touched
    BY <1>1 DEF link
  <2>1. x \in TaskRec /\ SameParams(x, task[p]) /\ x.life = "linked"
    BY Zenon, WithLife
  <2>2. Onward /\ task' \in [Task -> TaskRec]
    BY Zenon, <2>0, <2>1, UpdateOnward
  <2>3. SyncInv'
    BY Zenon, <1>0, <2>0, <2>1, <2>5, SyncFrame DEF Subject
  <2> QED
    BY <1>0, <2>2, <2>3, <2>5, OnwardInv DEF Marked
<1>2. CASE sched_post_fork(p)
  <2> DEFINE y == IF rt_task(p) THEN WithRtDefault(task[p]) ELSE task[p]
             x == [y EXCEPT !.life = "posted"]
  <2>1. y \in TaskRec /\ SameParams(y, task[p])
    BY WithRtDefaultSame DEF SameParams
  <2>2. x \in TaskRec /\ SameParams(x, task[p]) /\ x.life = "posted" /\ x.req = y.req
        /\ task[p].life = "linked" /\ task' = [task EXCEPT ![p] = x]
    BY Zenon, <1>2, <2>1 DEF sched_post_fork, TaskRec, SameParams
  <2>3. Onward /\ task' \in [Task -> TaskRec]
    BY Zenon, <2>2, UpdateOnward
  <2>6. /\ touched' \in [Task -> SUBSET {"params", "clamps", "boost", "excess"}]
        /\ \A q \in Task : q # p => touched'[q] = touched[q]
        /\ touched[p] \subseteq touched'[p]
        /\ Marked
    BY <1>2, <2>2 DEF sched_post_fork, Excess, Marked, Linked
  <2>4. ASSUME Subject(p)' PROVE task[p]'.req["MIN"].value = util_min_rt_default
    <3>1. rt_task(p)
      BY Zenon, <1>0, <2>2, <2>4, <2>6 DEF Subject, FieldsInv, SameParams
    <3> QED
      BY <2>2, <2>4, <3>1, WithRtDefaultSame DEF Subject
  <2>5. SyncInv'
    BY <1>0, <2>2, <2>4, <2>6, SyncFrame DEF Subject
  <2> QED
    BY <1>0, <2>3, <2>5, <2>6, OnwardInv
<1>3. CASE wake_up_new_task(p)
  <2> DEFINE y == Enqueued(task[p])
             x == [y EXCEPT !.life = "alive"]
  <2>1. y \in TaskRec /\ Same(y, task[p])
    BY EnqueuedSame
  <2>2. x \in TaskRec /\ SameParams(x, task[p]) /\ x.life = "alive" /\ x.req = task[p].req
        /\ task[p].life = "posted" /\ task' = [task EXCEPT ![p] = x]
    BY Zenon, <1>3, <2>1 DEF wake_up_new_task, TaskRec, Same, SameParams
  <2>5. UNCHANGED touched
    BY <1>3 DEF wake_up_new_task
  <2>3. Onward /\ task' \in [Task -> TaskRec]
    BY Zenon, <2>2, UpdateOnward
  <2>4. SyncInv'
    BY <1>0, <2>2, <2>5, SyncFrame DEF Subject, SameParams
  <2> QED
    BY <1>0, <2>3, <2>4, <2>5, OnwardInv DEF Marked
<1> QED
  BY <1>1, <1>2, <1>3

-----------------------------------------------------------------------------
(* Fork.  The child is in nobody's way: not on the task list, not changed  *)
(* by a call, in no lock's queue.                                          *)

LEMMA CopyTypes ==
    ASSUME NEW t \in TaskRec
    PROVE  /\ __sched_fork(t) \in TaskRec /\ __sched_fork(t).life = "new"
           /\ uclamp_fork(t) \in TaskRec /\ uclamp_fork(t).life = t.life
           /\ \A n \in Int : LET x == [t EXCEPT !.prio = n]
                             IN  x \in TaskRec /\ x.life = t.life
<1>1. __sched_fork(t) \in TaskRec /\ __sched_fork(t).life = "new"
  BY Zenon DEF __sched_fork, TaskRec
<1>2. uclamp_fork(t) \in TaskRec /\ uclamp_fork(t).life = t.life
  <2>1. [id \in ClampIds |-> [value |-> uclamp_none(id), user |-> FALSE]]
            \in [ClampIds -> [value : Unsigned, user : BOOLEAN]]
    BY DEF uclamp_none
  <2> QED
    BY Zenon, <2>1 DEF uclamp_fork, TaskRec
<1>3. ASSUME NEW n \in Int
      PROVE  LET x == [t EXCEPT !.prio = n] IN x \in TaskRec /\ x.life = t.life
  BY DEF TaskRec
<1> QED
  BY <1>1, <1>2, <1>3

LEMMA RevertedType ==
    ASSUME NEW t \in TaskRec
    PROVE  Reverted(t) \in TaskRec /\ Reverted(t).life = t.life
<1> DEFINE prio == IF t.policy = "FIFO" \/ PRIO_TO_NICE(t.static_prio) < 0
                   THEN NICE_TO_PRIO(0) ELSE t.static_prio
<1>1. prio \in StaticPrios /\ prio \in Int
  BY DEF TaskRec, NICE_TO_PRIO, StaticPrios
<1>2. Reverted(t) = [t EXCEPT !.policy = "NORMAL", !.rt_priority = 0, !.static_prio = prio,
                              !.prio = prio, !.normal_prio = prio, !.reset_on_fork = FALSE]
  BY DEF Reverted
<1> HIDE DEF prio
<1>3. Reverted(t) \in TaskRec
  <2> DEFINE y == [t EXCEPT !.policy = "NORMAL", !.rt_priority = 0, !.reset_on_fork = FALSE]
  <2>1. y \in TaskRec
    BY ONLY Zenon, t \in TaskRec DEF TaskRec, Policies
  <2>2. Reverted(t) = [y EXCEPT !.static_prio = prio, !.prio = prio, !.normal_prio = prio]
    BY ONLY Zenon, <1>2, t \in TaskRec DEF TaskRec
  <2> HIDE DEF y
  <2> QED
    BY ONLY ZenonT(60), <1>1, <2>1, <2>2 DEF TaskRec
<1>4. Reverted(t).life = t.life
  BY ONLY <1>2, t \in TaskRec DEF TaskRec
<1> QED
  BY <1>3, <1>4

LEMMA ForkAssignments ==
    ASSUME NEW r \in TaskRec
    PROVE  LET x == [r EXCEPT !.policy = "FIFO", !.prio = ForkPrio, !.rt_priority = ForkRtPriority]
           IN  /\ x \in TaskRec /\ x.life = r.life
               /\ x.policy = "FIFO" /\ x.rt_priority = ForkRtPriority /\ x.prio = ForkPrio
<1> DEFINE x == [r EXCEPT !.policy = "FIFO", !.prio = ForkPrio, !.rt_priority = ForkRtPriority]
<1>1. ForkPrio \in Int /\ ForkRtPriority \in Nat
  OBVIOUS
<1>2. x \in TaskRec
  BY ONLY Zenon, <1>1, r \in TaskRec DEF TaskRec, Policies
<1>3. /\ x.life = r.life
      /\ x.policy = "FIFO" /\ x.rt_priority = ForkRtPriority /\ x.prio = ForkPrio
  BY ONLY r \in TaskRec DEF TaskRec
<1> QED
  BY <1>2, <1>3

LEMMA ForkedTask ==
    ASSUME TypeInv, NEW p \in Task, NEW child \in Task, sched_fork(p, child)
    PROVE  \E x \in TaskRec :
               /\ task' = [task EXCEPT ![child] = x]
               /\ x.life = "new" /\ x.policy = "FIFO" /\ x.rt_priority = ForkRtPriority
               /\ x.prio = ForkPrio
<1> DEFINE copy == [__sched_fork(task[p]) EXCEPT !.prio = task[p].normal_prio]
           t == uclamp_fork(copy)
           r == IF t.reset_on_fork THEN Reverted(t) ELSE t
           x == [r EXCEPT !.policy = "FIFO", !.prio = ForkPrio, !.rt_priority = ForkRtPriority]
<1>0. task[p] \in TaskRec /\ task[p].normal_prio \in Int
  BY DEF TypeInv, TaskRec
<1>1. copy \in TaskRec /\ copy.life = "new"
  BY ZenonT(60), <1>0, CopyTypes
<1>2. t \in TaskRec /\ t.life = "new"
  BY Zenon, <1>1, CopyTypes
<1>3. r \in TaskRec /\ r.life = "new"
  BY <1>2, RevertedType
<1>4. x \in TaskRec /\ x.life = "new" /\ x.policy = "FIFO" /\ x.rt_priority = ForkRtPriority
      /\ x.prio = ForkPrio
  BY Zenon, <1>3, ForkAssignments
<1>5. task' = [task EXCEPT ![child] = x]
  BY DEF sched_fork
<1> QED
  BY Zenon, <1>4, <1>5

LEMMA ForkInv ==
    ASSUME IInv, NEW p \in Task, NEW child \in Task, sched_fork(p, child)
    PROVE  IInv'
<1> USE DEF IInv
<1>1. PICK x \in TaskRec :
               /\ task' = [task EXCEPT ![child] = x]
               /\ x.life = "new" /\ x.policy = "FIFO" /\ x.rt_priority = ForkRtPriority
               /\ x.prio = ForkPrio
  BY ForkedTask
<1>2. task[child].life = "none"
      /\ UNCHANGED <<may, touched, used, uclamp_default, util_min_rt_default, sync, caller,
                     pi_top_task>>
  BY DEF sched_fork, clampVars
<1>3. TypeInv'
  BY <1>1, <1>2 DEF TypeInv
<1>4. /\ touched[child] = {} /\ pi_top_task[child] = None
      /\ \A q \in Task : pi_top_task[q] # child
  BY <1>2 DEF FieldsInv, WaitersInv, Linked, Alive
<1>5. \A q \in Task : q # child => task'[q] = task[q]
  BY <1>1 DEF TypeInv
<1>6. task'[child] = x
  BY <1>1 DEF TypeInv
<1>7. Linked' = Linked /\ Alive' = Alive
  BY Zenon, <1>1, <1>2, <1>5, <1>6 DEF Linked, Alive
<1>8. FieldsInv'
  BY <1>1, <1>2, <1>4, <1>5, <1>6, <1>7 DEF FieldsInv, rt_task, rt_prio, normal_prio
<1>9. CallInv'
  BY Zenon, <1>2, <1>7 DEF CallInv
<1>10. WaitersInv'
  BY Zenon, <1>2, <1>7 DEF WaitersInv
<1>11. BoostKept'
  BY ZenonT(60), <1>2, <1>4, <1>5, <1>7 DEF BoostKept, rt_task, TypeInv, Alive
<1>12. SyncInv'
  BY Zenon, <1>1, <1>2, <1>5, <1>6, SyncFrame DEF Subject
<1> QED
  BY <1>3, <1>8, <1>9, <1>10, <1>11, <1>12

-----------------------------------------------------------------------------
(* The calls up to the lock.                                               *)

\* A call that got through its checks carries attributes that agree with the
\* policy it resolved.
LEMMA RecheckInv ==
    ASSUME IInv, NEW c \in Caller, NEW p \in Linked, NEW a \in Attrs, a.nice \in Nices,
           NEW policy \in Policies \cup {"keep"}, caller[c].pc # "adjust",
           policy = "keep" <=> a.policy = "keep", policy # "keep" => policy = a.policy,
           Recheck(c, p, a, policy),
           UNCHANGED <<may, task, touched, uclamp_default, util_min_rt_default, sync,
                       pi_top_task>>
    PROVE  IInv'
<1> DEFINE pol == IF policy = "keep" THEN task[p].policy ELSE policy
           k == [pc |-> "lock", task |-> p, attr |-> a, policy |-> pol,
                 old |-> IF policy = "keep" THEN pol ELSE None,
                 reset |-> IF policy = "keep" THEN task[p].reset_on_fork ELSE a.reset]
<1> USE DEF IInv
<1>0. p \in Task /\ task[p] \in TaskRec
  BY DEF Linked, TypeInv
<1>1. pol \in Policies
  BY Zenon, <1>0 DEF TaskRec
<1>2. k \in LockedCall
  BY <1>0, <1>1 DEF LockedCall, TaskRec, Attrs
<1>3. \/ caller' = [caller EXCEPT ![c] = NotCalling]
      \/ /\ caller' = [caller EXCEPT ![c] = k]
         /\ a.prio < MAX_RT_PRIO /\ (pol = "FIFO" <=> a.prio # 0)
  BY Zenon DEF Recheck
<1>4. used' \in BOOLEAN
  BY Zenon DEF Recheck, TypeInv
<1>5. TypeInv'
  BY <1>2, <1>3, <1>4 DEF TypeInv, CallStates, NotCalling
<1>6. CallInv'
  <2>1. Linked' = Linked
    BY Zenon DEF Linked
  <2>2. ASSUME NEW d \in Caller, d # c PROVE caller'[d] = caller[d]
    BY Zenon, <1>3, <2>2 DEF TypeInv
  <2>3. caller'[c] = NotCalling \/ (caller'[c] = k /\ a.prio < MAX_RT_PRIO
                                    /\ (pol = "FIFO" <=> a.prio # 0))
    BY Zenon, <1>3 DEF TypeInv
  <2> QED
    BY <2>1, <2>2, <2>3 DEF CallInv, NotCalling
<1>7. FieldsInv'
  BY Zenon DEF FieldsInv, Linked, rt_task, normal_prio
<1>8. WaitersInv'
  BY Zenon DEF WaitersInv, Alive
<1>9. BoostKept'
  <2>1. \A d \in Caller : caller[d].pc = "adjust" => caller'[d] = caller[d]
    BY Zenon, <1>3 DEF TypeInv
  <2> QED
    BY ZenonT(60), <2>1 DEF BoostKept, Alive, rt_task
<1>10. SyncInv'
  BY SyncFrame DEF Subject
<1> QED
  BY <1>5, <1>6, <1>7, <1>8, <1>9, <1>10

LEMMA NiceOfTask ==
    ASSUME TypeInv, NEW p \in Task
    PROVE  PRIO_TO_NICE(task[p].static_prio) \in Nices
BY DEF TypeInv, TaskRec, StaticPrios, PRIO_TO_NICE

LEMMA AttrWith ==
    ASSUME NEW a \in Attrs
    PROVE  /\ \A n \in Int : LET b == [a EXCEPT !.nice = n]
                             IN  b \in Attrs /\ b.nice = n /\ b.policy = a.policy
           /\ \A n \in Nat : LET b == [a EXCEPT !.prio = n]
                             IN  b \in Attrs /\ b.nice = a.nice /\ b.policy = a.policy
BY DEF Attrs

LEMMA CallStepInv ==
    ASSUME IInv, NEW c \in Caller, NEW p \in Task, NEW a \in Attrs, a.nice \in Nices,
           Call(c, p, a)
    PROVE  IInv'
<1>1. a.policy \in Policies \cup {"keep"}
  BY DEF Attrs
<1> QED
  BY <1>1, RecheckInv DEF Call

LEMMA LegacyInv ==
    ASSUME IInv, NEW c \in Caller, NEW p \in Task, NEW a \in Attrs,
           _sched_setscheduler(c, p, a)
    PROVE  IInv'
<1>1. PRIO_TO_NICE(task[p].static_prio) \in Nices /\ PRIO_TO_NICE(task[p].static_prio) \in Int
  BY NiceOfTask DEF IInv
<1> QED
  BY Zenon, <1>1, AttrWith, CallStepInv DEF _sched_setscheduler

LEMMA SetattrInv ==
    ASSUME IInv, NEW c \in Caller, NEW p \in Task, NEW attr \in Attrs,
           sched_setattr(c, p, attr)
    PROVE  IInv'
<1> DEFINE a == sched_copy_attr(attr)
           n == attr.nice
           m == IF n > MAX_NICE THEN MAX_NICE ELSE IF n < -MAX_NICE THEN -MAX_NICE ELSE n
<1>1. m \in Nices /\ m \in Int
  BY DEF Attrs
<1>2. a = [attr EXCEPT !.nice = m]
  BY DEF sched_copy_attr, Attrs
<1>3. a \in Attrs /\ a.nice \in Nices
  <2> HIDE DEF m
  <2> QED
    BY <1>1, <1>2, AttrWith
<1> HIDE DEF a
<1>4. get_params(p, a) \in Attrs /\ get_params(p, a).nice \in Nices
  <2>1. PRIO_TO_NICE(task[p].static_prio) \in Nices /\ PRIO_TO_NICE(task[p].static_prio) \in Int
    BY NiceOfTask DEF IInv
  <2>2. task[p].rt_priority \in Nat
    BY DEF IInv, TypeInv, TaskRec
  <2> QED
    BY <1>3, <2>1, <2>2, AttrWith DEF get_params
<1> QED
  BY <1>3, <1>4, CallStepInv DEF sched_setattr, a

LEMMA KernelAttrs ==
    ASSUME NEW policy \in Policies, NEW prio \in Nat, NEW nice \in Int
    PROVE  KernelAttr(policy, prio, nice) \in Attrs /\ KernelAttr(policy, prio, nice).nice = nice
BY DEF KernelAttr, Attrs

LEMMA CallsInv ==
    ASSUME IInv, NEW c \in Caller, NEW p \in Task,
           \/ \E a \in may.attrs :
                sched_setscheduler(c, p, a) \/ sched_setparam(c, p, a) \/ sched_setattr(c, p, a)
           \/ sched_set_fifo(c, p) \/ sched_set_fifo_low(c, p)
           \/ \E nice \in may.nice : sched_set_normal(c, p, nice)
    PROVE  IInv'
<1>0. may.attrs \subseteq Attrs /\ may.nice \subseteq Nices
  BY Zenon, ScenariosAssumption DEF IInv, TypeInv
<1>1. CASE \E a \in may.attrs :
             sched_setscheduler(c, p, a) \/ sched_setparam(c, p, a) \/ sched_setattr(c, p, a)
  BY Zenon, <1>0, <1>1, LegacyInv, SetattrInv DEF sched_setscheduler, sched_setparam
<1>2. CASE sched_set_fifo(c, p) \/ sched_set_fifo_low(c, p)
  <2>1. MAX_RT_PRIO \div 2 \in Nat /\ 1 \in Nat /\ 0 \in Int /\ "FIFO" \in Policies
    OBVIOUS
  <2>2. /\ KernelAttr("FIFO", MAX_RT_PRIO \div 2, 0) \in Attrs
        /\ KernelAttr("FIFO", 1, 0) \in Attrs
    BY Zenon, <2>1, KernelAttrs
  <2> QED
    BY Zenon, <1>2, <2>2, LegacyInv DEF sched_set_fifo, sched_set_fifo_low
<1>3. CASE \E nice \in may.nice : sched_set_normal(c, p, nice)
  <2>1. PICK nice \in may.nice : sched_set_normal(c, p, nice)
    BY <1>3
  <2>2. nice \in Nices /\ nice \in Int
    BY <1>0
  <2> QED
    BY Zenon, <2>1, <2>2, KernelAttrs, CallStepInv DEF sched_set_normal
<1> QED
  BY Zenon, <1>1, <1>2, <1>3

-----------------------------------------------------------------------------
(* The change under the lock.                                              *)

LEMMA ClampsSet ==
    ASSUME TypeInv, NEW t \in TaskRec, NEW a \in Attrs
    PROVE  LET u == __setscheduler_uclamp(t, a)
           IN  /\ u \in TaskRec /\ SameParams(u, t) /\ u.life = t.life
               /\ ~HasClamp(a) /\ rt_prio(t.prio) =>
                      u.req["MIN"].user \/ u.req["MIN"].value = util_min_rt_default
<1> DEFINE req == [id \in ClampIds |->
               IF a.clamp[id] \notin {NoClamp, UINT_MAX} THEN [value |-> a.clamp[id], user |-> TRUE]
               ELSE IF ~uclamp_reset(a, id, t.req[id]) THEN t.req[id]
               ELSE [value |-> IF rt_prio(t.prio) /\ id = "MIN" THEN util_min_rt_default
                               ELSE uclamp_none(id),
                     user |-> FALSE]]
           u == __setscheduler_uclamp(t, a)
<1>1. req \in [ClampIds -> [value : Unsigned, user : BOOLEAN]]
  <2>1. /\ \A id \in ClampIds : uclamp_none(id) \in Unsigned /\ t.req[id] \in [value : Unsigned, user : BOOLEAN]
        /\ util_min_rt_default \in Unsigned
    BY DEF TaskRec, uclamp_none, TypeInv
  <2>2. \A id \in ClampIds : a.clamp[id] \in Unsigned \cup {NoClamp}
    BY DEF Attrs
  <2> HIDE DEF Unsigned, NoClamp, UINT_MAX
  <2> QED
    BY Zenon, <2>1, <2>2
<1>2. u = [t EXCEPT !.req = req]
  BY Zenon DEF __setscheduler_uclamp
<1>3. ASSUME ~HasClamp(a), rt_prio(t.prio)
      PROVE  req["MIN"].user \/ req["MIN"].value = util_min_rt_default
  BY <1>3 DEF HasClamp, uclamp_reset, TaskRec
<1> HIDE DEF req
<1>4. u \in TaskRec /\ SameParams(u, t) /\ u.life = t.life /\ u.req = req
  BY <1>1, <1>2 DEF TaskRec, SameParams
<1> QED
  BY Zenon, <1>3, <1>4

LEMMA ParamsSet ==
    ASSUME NEW t \in TaskRec, NEW a \in Attrs, a.nice \in Nices, NEW prio \in Int
    PROVE  LET x == [__setscheduler_params(t, a) EXCEPT !.prio = prio]
               policy == IF a.policy = "keep" THEN t.policy ELSE a.policy
           IN  /\ x \in TaskRec /\ x.life = t.life /\ x.req = t.req
               /\ x.policy = policy /\ x.rt_priority = a.prio /\ x.prio = prio
               /\ x.normal_prio = normal_prio(x)
               /\ x.normal_prio = __normal_prio(policy, a.prio, a.nice)
<1> DEFINE policy == IF a.policy = "keep" THEN t.policy ELSE a.policy
           new == [t EXCEPT !.policy = policy, !.rt_priority = a.prio]
           s == IF new.policy = "NORMAL" THEN [new EXCEPT !.static_prio = NICE_TO_PRIO(a.nice)]
                ELSE new
           y == [s EXCEPT !.normal_prio = normal_prio(s)]
           x == [y EXCEPT !.prio = prio]
<1>1. policy \in Policies /\ a.prio \in Nat
  BY DEF TaskRec, Attrs
<1>2. NICE_TO_PRIO(a.nice) \in StaticPrios
  BY DEF NICE_TO_PRIO, StaticPrios
<1>3. new \in TaskRec /\ new.policy = policy /\ new.rt_priority = a.prio /\ new.life = t.life
      /\ new.req = t.req
  <2> HIDE DEF policy
  <2> QED
    BY ONLY Zenon, <1>1, t \in TaskRec DEF TaskRec
<1>4. /\ s \in TaskRec /\ s.policy = policy /\ s.rt_priority = a.prio /\ s.life = t.life
      /\ s.req = t.req
      /\ policy = "NORMAL" => s.static_prio = NICE_TO_PRIO(a.nice)
  <2> HIDE DEF new, policy
  <2>1. CASE policy = "NORMAL"
    BY ONLY <1>2, <1>3, <2>1 DEF TaskRec, s
  <2>2. CASE policy # "NORMAL"
    BY ONLY Zenon, <1>3, <2>2 DEF s
  <2> QED
    BY <2>1, <2>2
<1>5. normal_prio(s) \in Int /\ normal_prio(s) = __normal_prio(policy, a.prio, a.nice)
  <2> HIDE DEF s, policy
  <2> QED
    BY <1>1, <1>4 DEF normal_prio, __normal_prio, NICE_TO_PRIO, PRIO_TO_NICE, TaskRec, StaticPrios
<1>6. /\ y \in TaskRec /\ y.policy = policy /\ y.rt_priority = a.prio /\ y.life = t.life
      /\ y.req = t.req /\ y.normal_prio = normal_prio(s) /\ y.static_prio = s.static_prio
  <2> HIDE DEF s, policy
  <2> QED
    BY ONLY <1>4, <1>5 DEF TaskRec
<1>7. /\ x \in TaskRec /\ x.policy = policy /\ x.rt_priority = a.prio /\ x.life = t.life
      /\ x.req = t.req /\ x.normal_prio = normal_prio(s) /\ x.static_prio = s.static_prio
      /\ x.prio = prio
  <2> HIDE DEF y, policy, s
  <2> QED
    BY ONLY Zenon, <1>6, prio \in Int DEF TaskRec
<1>8. normal_prio(x) = normal_prio(s)
  <2> HIDE DEF x, s
  <2> QED
    BY <1>4, <1>7 DEF normal_prio
<1>9. y = __setscheduler_params(t, a)
  BY DEF __setscheduler_params, TaskRec
<1> HIDE DEF y, s, policy
<1> QED
  BY <1>5, <1>7, <1>8, <1>9 DEF policy

\* What a call leaves in the task: all parameters of its own, or all that were
\* there; the priority of a waiter counts in either case.
LEMMA ChangedTask ==
    ASSUME IInv, NEW c \in Caller, caller[c].pc = "lock",
           ~Stale(task[caller[c].task], caller[c])
    PROVE  LET k == caller[c]
               p == k.task
               x == Changed(p, k)
           IN  /\ x \in TaskRec /\ x.life = task[p].life
               /\ k.attr.keep => SameParams(x, task[p])
               /\ ~k.attr.keep =>
                      /\ x.policy = "FIFO" <=> x.rt_priority # 0
                      /\ x.normal_prio = normal_prio(x)
                      /\ x.prio = __rt_effective_prio(pi_top_task[p], x.normal_prio)
                      /\ x.policy = "FIFO" => rt_prio(x.prio)
               /\ ~HasClamp(k.attr) /\ rt_prio(x.prio) =>
                      x.req["MIN"].user \/ x.req["MIN"].value = util_min_rt_default
<1> DEFINE k == caller[c]
           p == k.task
           t == [task[p] EXCEPT !.reset_on_fork = k.reset]
           own == __normal_prio(k.policy, k.attr.prio, k.attr.nice)
           prio == __rt_effective_prio(pi_top_task[p], own)
           s == IF k.attr.keep THEN t ELSE [__setscheduler_params(t, k.attr) EXCEPT !.prio = prio]
           x == __setscheduler_uclamp(s, k.attr)
<1>1. /\ k \in LockedCall /\ p \in Task /\ task[p] \in TaskRec
      /\ pi_top_task[p] \in Task \cup {None}
  BY Zenon DEF IInv, TypeInv, CallStates, LockedCall
<1>2. k.attr \in Attrs /\ k.reset \in BOOLEAN /\ k.attr.nice \in Nices
      /\ k.policy \in Policies /\ k.attr.prio < MAX_RT_PRIO /\ k.attr.prio \in Nat
  BY Zenon, <1>1 DEF LockedCall, IInv, CallInv, Attrs
<1>3. (k.policy = "FIFO" <=> k.attr.prio # 0)
      /\ k.policy = (IF k.attr.policy = "keep" THEN task[p].policy ELSE k.attr.policy)
  BY <1>1 DEF IInv, CallInv, Stale, LockedCall
<1>4. t \in TaskRec /\ t.life = task[p].life /\ t.policy = task[p].policy
      /\ SameParams(t, task[p])
  <2> HIDE DEF p, k
  <2> QED
    BY ONLY Zenon, <1>1, <1>2 DEF TaskRec, SameParams
<1>5. own \in Int /\ (k.policy = "FIFO" => rt_prio(own))
  <2> HIDE DEF k
  <2> QED
    BY <1>2 DEF __normal_prio, rt_prio, NICE_TO_PRIO
<1>6. prio \in Int /\ prio <= own
  <2>1. pi_top_task[p] # None => task[pi_top_task[p]].prio \in Int
    BY <1>1 DEF IInv, TypeInv, TaskRec
  <2> HIDE DEF k, own, p
  <2> QED
    BY <1>5, <2>1 DEF __rt_effective_prio
<1>7. x = Changed(p, k)
  BY ZenonT(60) DEF Changed
<1> HIDE DEF k, p, t, own, prio
<1>8. CASE k.attr.keep
  <2>1. s = t
    BY Zenon, <1>8
  <2> HIDE DEF s
  <2>2. x \in TaskRec /\ SameParams(x, t) /\ x.life = t.life
    BY Zenon, <1>2, <1>4, <2>1, ClampsSet DEF IInv
  <2>3. SameParams(x, task[p]) /\ x.life = task[p].life /\ x.prio = t.prio
    BY ZenonT(60), <1>4, <2>2 DEF SameParams
  <2>4. ~HasClamp(k.attr) /\ rt_prio(t.prio) =>
            x.req["MIN"].user \/ x.req["MIN"].value = util_min_rt_default
    BY <1>2, <1>4, <2>1, ClampsSet DEF IInv
  <2> HIDE DEF x
  <2> QED
    BY <1>7, <1>8, <2>2, <2>3, <2>4 DEF k, p
<1>9. CASE ~k.attr.keep
  <2>1. s = [__setscheduler_params(t, k.attr) EXCEPT !.prio = prio]
    BY <1>9
  <2> HIDE DEF s
  <2>2. /\ s \in TaskRec /\ s.life = task[p].life
        /\ s.policy = k.policy /\ s.rt_priority = k.attr.prio /\ s.prio = prio
        /\ s.normal_prio = normal_prio(s) /\ s.normal_prio = own
    BY <1>2, <1>3, <1>4, <1>6, <2>1, ParamsSet DEF own
  <2>3. x \in TaskRec /\ SameParams(x, s) /\ x.life = s.life
    BY Zenon, <1>2, <2>2, ClampsSet DEF IInv
  <2>4. normal_prio(x) = normal_prio(s)
    BY Zenon, <2>3 DEF SameParams, normal_prio
  <2>5. ~HasClamp(k.attr) /\ rt_prio(x.prio) =>
            x.req["MIN"].user \/ x.req["MIN"].value = util_min_rt_default
    BY Zenon, <1>2, <2>2, <2>3, ClampsSet DEF IInv, SameParams
  <2>6. k.policy = "FIFO" => rt_prio(prio)
    BY <1>5, <1>6 DEF rt_prio
  <2> HIDE DEF x
  <2>7. /\ x.policy = "FIFO" <=> x.rt_priority # 0
        /\ x.normal_prio = normal_prio(x)
        /\ x.prio = __rt_effective_prio(pi_top_task[p], x.normal_prio)
        /\ x.policy = "FIFO" => rt_prio(x.prio)
    BY Zenon, <1>3, <2>2, <2>3, <2>4, <2>6 DEF SameParams, prio
  <2> QED
    BY Zenon, <1>7, <1>9, <2>2, <2>3, <2>5, <2>7 DEF k, p
<1> QED
  BY Zenon, <1>8, <1>9

LEMMA SetUnchangedInv ==
    ASSUME IInv, NEW c \in Caller, caller[c].pc = "lock",
           task' = [task EXCEPT ![caller[c].task].reset_on_fork = caller[c].reset],
           caller' = [caller EXCEPT ![c] = NotCalling],
           UNCHANGED <<may, touched, used, uclamp_default, util_min_rt_default, sync, pi_top_task>>
    PROVE  IInv'
<1> DEFINE p == caller[c].task
           x == [task[p] EXCEPT !.reset_on_fork = caller[c].reset]
<1>1. p \in Task /\ task[p] \in TaskRec /\ caller[c].reset \in BOOLEAN
  BY DEF IInv, TypeInv, CallStates, LockedCall
<1>2. x \in TaskRec /\ Same(x, task[p])
  <2> HIDE DEF p
  <2> QED
    BY ONLY <1>1 DEF TaskRec, Same, SameParams
<1>3. task' = [task EXCEPT ![p] = x]
  BY <1>1
<1> HIDE DEF x, p
<1>4. Onward /\ task' \in [Task -> TaskRec]
  BY Zenon, <1>1, <1>2, <1>3, UpdateOnward DEF Same, IInv
<1>5. TypeInv'
  BY Zenon, <1>4 DEF IInv, TypeInv, CallStates, NotCalling
<1>6. \A q \in Task : normal_prio(task[q])' = normal_prio(task[q]) /\ rt_task(q)' = rt_task(q)
  BY Zenon, <1>4 DEF Onward, SameParams, normal_prio, rt_task
<1>7. Linked \subseteq Linked' /\ Alive' = Alive
  BY <1>1, <1>2, <1>3, <1>4 DEF Onward, Linked, Alive, Same, IInv, TypeInv
<1>8. \A d \in Caller : caller'[d] = caller[d] \/ caller'[d].pc = "idle"
  BY ZenonT(60) DEF IInv, TypeInv, NotCalling
<1>9. FieldsInv'
  BY <1>4, <1>6, <1>7 DEF FieldsInv, Onward, SameParams, IInv
<1>10. CallInv'
  BY <1>7, <1>8 DEF CallInv, IInv
<1>11. WaitersInv'
  BY ZenonT(60), <1>7 DEF WaitersInv, IInv
<1>12. BoostKept'
  <2>1. \A d \in Caller : caller[d].pc = "adjust" => caller'[d] = caller[d]
    BY DEF IInv, TypeInv
  <2>2. \A q \in Task : pi_top_task[q] # None => pi_top_task[q] \in Task
    BY Zenon DEF IInv, TypeInv
  <2> QED
    BY <1>4, <1>6, <1>7, <2>1, <2>2 DEF BoostKept, Onward, SameParams, IInv, Alive
<1>13. SyncInv'
  BY ZenonT(60), <1>1, <1>2, <1>3, SyncFrame DEF Subject, Same, SameParams, IInv, TypeInv
<1> QED
  BY Zenon, <1>5, <1>9, <1>10, <1>11, <1>12, <1>13 DEF IInv

LEMMA SetChangedInv ==
    ASSUME IInv, NEW c \in Caller, caller[c].pc = "lock", SetLocked(c),
           ~Stale(task[caller[c].task], caller[c]), ~Unchanged(task[caller[c].task], caller[c])
    PROVE  IInv'
<1> DEFINE k == caller[c]
           p == k.task
           new == Changed(p, k)
<1>1. /\ k \in LockedCall /\ p \in Task /\ task[p] \in TaskRec /\ k.attr.keep \in BOOLEAN
      /\ p \in Linked
  BY Zenon DEF IInv, TypeInv, CallStates, LockedCall, CallInv, Attrs
<1>2. /\ Change(p, new)
      /\ touched' = [touched EXCEPT ![p] = @ \cup
                       (IF k.attr.keep THEN {} ELSE {"params"}) \cup
                       (IF HasClamp(k.attr) THEN {"clamps"} ELSE {}) \cup Excess(new)]
      /\ caller' = [caller EXCEPT ![c] = [pc |-> "adjust", task |-> p]]
      /\ UNCHANGED <<may, used, uclamp_default, util_min_rt_default, sync, pi_top_task>>
  BY DEF SetLocked
<1>3. /\ new \in TaskRec /\ new.life = task[p].life
      /\ k.attr.keep => SameParams(new, task[p])
      /\ ~k.attr.keep =>
             /\ new.policy = "FIFO" <=> new.rt_priority # 0
             /\ new.normal_prio = normal_prio(new)
             /\ new.prio = __rt_effective_prio(pi_top_task[p], new.normal_prio)
             /\ new.policy = "FIFO" => rt_prio(new.prio)
      /\ ~HasClamp(k.attr) /\ rt_prio(new.prio) =>
             new.req["MIN"].user \/ new.req["MIN"].value = util_min_rt_default
  BY Zenon, ChangedTask
<1> HIDE DEF new
<1>4. PICK x \in TaskRec : Same(x, new) /\ task' = [task EXCEPT ![p] = x]
  BY <1>1, <1>2, <1>3, ChangeSame DEF IInv
<1>5. normal_prio(x) = normal_prio(new)
  BY ZenonT(60), <1>4 DEF Same, SameParams, normal_prio
<1>6. /\ task'[p] = x /\ \A q \in Task : q # p => task'[q] = task[q] /\ touched'[q] = touched[q]
      /\ touched[p] \subseteq touched'[p]
      /\ touched'[p] \subseteq touched[p] \cup {"params", "clamps", "excess"}
      /\ k.attr.keep /\ "params" \in touched'[p] => "params" \in touched[p]
      /\ ~HasClamp(k.attr) \/ "clamps" \in touched'[p]
  BY <1>1, <1>2, <1>4 DEF IInv, TypeInv, Excess
<1>7. TypeInv'
  BY Zenon, <1>1, <1>2, <1>4 DEF IInv, TypeInv, CallStates, Excess
<1>8. Linked' = Linked /\ Alive' = Alive
  <2>1. x.life = task[p].life
    BY Zenon, <1>3, <1>4 DEF Same
  <2>2. \A q \in Task : task'[q].life = task[q].life
    BY Zenon, <1>6, <2>1
  <2> QED
    BY Zenon, <2>2 DEF Linked, Alive
<1>9. FieldsInv'
  <2>1. ASSUME NEW q \in Task, q # p
        PROVE  /\ (task'[q].policy = "FIFO") <=> (task'[q].rt_priority # 0)
               /\ "params" \in touched'[q] =>
                      /\ task'[q].normal_prio = normal_prio(task'[q])
                      /\ pi_top_task'[q] = None => task'[q].prio = task'[q].normal_prio
               /\ task'[q].policy = "FIFO" /\ "boost" \notin touched'[q] => rt_prio(task'[q].prio)
               /\ touched'[q] # {} => q \in Linked'
    BY ZenonT(60), <1>2, <1>6, <1>8, <2>1 DEF IInv, FieldsInv, rt_task
  <2>2. CASE k.attr.keep
    <3>1. SameParams(x, task[p]) /\ normal_prio(x) = normal_prio(task[p])
      BY Zenon, <1>3, <1>4, <2>2 DEF Same, SameParams, normal_prio
    <3>2. /\ (task'[p].policy = "FIFO") <=> (task'[p].rt_priority # 0)
          /\ "params" \in touched'[p] =>
                 /\ task'[p].normal_prio = normal_prio(task'[p])
                 /\ pi_top_task'[p] = None => task'[p].prio = task'[p].normal_prio
          /\ task'[p].policy = "FIFO" /\ "boost" \notin touched'[p] => rt_prio(task'[p].prio)
      BY <1>1, <1>2, <1>6, <2>2, <3>1 DEF IInv, FieldsInv, SameParams, rt_task
    <3> QED
      BY Zenon, <1>1, <1>8, <2>1, <3>2 DEF FieldsInv, rt_task, normal_prio
  <2>3. CASE ~k.attr.keep
    <3>1. /\ (task'[p].policy = "FIFO") <=> (task'[p].rt_priority # 0)
          /\ task'[p].normal_prio = normal_prio(task'[p])
          /\ pi_top_task'[p] = None => task'[p].prio = task'[p].normal_prio
          /\ task'[p].policy = "FIFO" => rt_prio(task'[p].prio)
      BY ZenonT(60), <1>2, <1>3, <1>4, <1>5, <1>6, <2>3 DEF Same, SameParams, __rt_effective_prio
    <3> QED
      BY Zenon, <1>1, <1>8, <2>1, <3>1 DEF FieldsInv, rt_task, normal_prio
  <2> QED
    BY Zenon, <1>1, <2>2, <2>3
<1>10. CallInv'
  <2>1. \A d \in Caller : caller'[d] = caller[d] \/ caller'[d].pc = "adjust"
    BY <1>2 DEF IInv, TypeInv
  <2> QED
    BY ZenonT(60), <1>8, <2>1 DEF CallInv, IInv
<1>11. WaitersInv'
  BY <1>1, <1>2, <1>6, <1>8 DEF WaitersInv, IInv
<1>12. BoostKept'
  <2> SUFFICES ASSUME NEW o \in Alive, pi_top_task[o] # None, rt_task(pi_top_task[o])',
                      ~\E d \in Caller : caller'[d].pc = "adjust"
                                         /\ caller'[d].task = pi_top_task[o]
               PROVE  task'[o].prio <= task'[pi_top_task[o]].prio
    BY Zenon, <1>2, <1>8 DEF BoostKept
  <2> DEFINE q == pi_top_task[o]
  <2>1. caller'[c] = [pc |-> "adjust", task |-> p]
        /\ \A d \in Caller : d # c => caller'[d] = caller[d]
    BY Zenon, <1>2 DEF IInv, TypeInv
  <2>2. q # p /\ q \in Task /\ o \in Task
    <3>1. q # p
      BY ONLY <2>1, c \in Caller, ~\E d \in Caller : caller'[d].pc = "adjust"
                                                     /\ caller'[d].task = pi_top_task[o]
    <3>2. q \in Task /\ o \in Task
      BY ZenonT(60) DEF IInv, TypeInv, Alive
    <3> QED
      BY ZenonT(60), <3>1, <3>2
  <2>3. task'[q] = task[q] /\ rt_task(q)
    BY <1>2, <1>6, <2>2 DEF rt_task
  <2>4. ~\E d \in Caller : caller[d].pc = "adjust" /\ caller[d].task = q
    BY Zenon, <2>1
  <2>5. task[o].prio <= task[q].prio
    BY Zenon, <2>3, <2>4 DEF BoostKept, IInv
  <2>6. task[q].prio \in Int /\ x.normal_prio \in Int
    BY Zenon, <1>4, <2>2 DEF IInv, TypeInv, TaskRec
  <2>7. CASE o = p
    <3>1. ~k.attr.keep => x.prio <= task[q].prio
      <4>1. ~k.attr.keep => x.prio = __rt_effective_prio(q, x.normal_prio)
        BY Zenon, <1>3, <1>4, <2>7 DEF Same, SameParams
      <4>2. q # None
        BY Zenon
      <4> HIDE DEF q
      <4> QED
        BY ONLY <2>6, <4>1, <4>2 DEF __rt_effective_prio
    <3>2. k.attr.keep => x.prio = task[p].prio
      BY ZenonT(60), <1>3, <1>4 DEF Same, SameParams
    <3> QED
      BY Zenon, <1>1, <1>6, <2>3, <2>5, <2>7, <3>1, <3>2
  <2> QED
    BY Zenon, <1>6, <2>2, <2>3, <2>5, <2>7
<1>13. SyncInv'
  <2>1. ASSUME NEW r \in Task, r = p, Subject(r)' PROVE x.req["MIN"].value = util_min_rt_default
    <3>1. ~HasClamp(k.attr) /\ x.policy = "FIFO" /\ "boost" \notin touched[p]
          /\ ~x.req["MIN"].user
      BY Zenon, <1>6, <2>1 DEF Subject
    <3>2. rt_prio(new.prio)
      BY ZenonT(60), <1>1, <1>3, <1>4, <3>1 DEF Same, SameParams, IInv, FieldsInv, rt_task
    <3> QED
      BY Zenon, <1>3, <1>4, <3>1, <3>2 DEF Same
  <2>2. \A q \in Task : q # p /\ Subject(q)' => Subject(q) /\ task'[q].req = task[q].req
    BY Zenon, <1>6 DEF Subject
  <2> QED
    BY <1>1, <1>2, <1>6, <2>1, <2>2, SyncFrame
<1> QED
  BY Zenon, <1>7, <1>9, <1>10, <1>11, <1>12, <1>13 DEF IInv

\* A call whose policy is stale goes back to its checks.
LEMMA SetLockedInv ==
    ASSUME IInv, NEW c \in Caller, SetLocked(c)
    PROVE  IInv'
<1> DEFINE k == caller[c]
<1>1. k \in LockedCall /\ k.pc = "lock" /\ k.task \in Linked /\ k.attr \in Attrs
      /\ k.attr.nice \in Nices
  BY Zenon DEF SetLocked, IInv, TypeInv, CallStates, LockedCall, CallInv
<1>2. CASE Unchanged(task[k.task], k)
  BY Zenon, <1>1, <1>2, SetUnchangedInv DEF SetLocked
<1>3. CASE ~Unchanged(task[k.task], k) /\ Stale(task[k.task], k)
  <2>1. k.attr.policy = "keep"
    BY Zenon, <1>1, <1>3 DEF Stale, IInv, CallInv
  <2>2. Recheck(c, k.task, k.attr, "keep")
        /\ UNCHANGED <<may, task, touched, uclamp_default, util_min_rt_default, sync, pi_top_task>>
    BY Zenon, <1>3 DEF SetLocked
  <2> QED
    BY Zenon, <1>1, <2>1, <2>2, RecheckInv
<1>4. CASE ~Unchanged(task[k.task], k) /\ ~Stale(task[k.task], k)
  BY Zenon, <1>1, <1>4, SetChangedInv
<1> QED
  BY Zenon, <1>2, <1>3, <1>4

-----------------------------------------------------------------------------
(* Priority inheritance.                                                   *)

LEMMA SetprioTask ==
    ASSUME TypeInv, NEW p \in Task, NEW donor \in Task \cup {None}, rt_mutex_setprio(p, donor)
    PROVE  \E x \in TaskRec :
               /\ task' = [task EXCEPT ![p] = x]
               /\ x.policy = task[p].policy /\ x.rt_priority = task[p].rt_priority
               /\ x.static_prio = task[p].static_prio /\ x.normal_prio = task[p].normal_prio
               /\ x.life = task[p].life /\ x.req = task[p].req
               /\ x.prio = __rt_effective_prio(donor, task[p].normal_prio)
<1> DEFINE prio == __rt_effective_prio(donor, task[p].normal_prio)
           new == [task[p] EXCEPT !.prio = prio]
<1>0. task[p] \in TaskRec /\ prio \in Int
  BY DEF TypeInv, TaskRec, __rt_effective_prio
<1>1. CASE prio = task[p].prio
  <2>1. task' = [task EXCEPT ![p] = task[p]]
    BY <1>1 DEF rt_mutex_setprio, Setprio, TypeInv
  <2> QED
    BY Zenon, <1>0, <1>1, <2>1
<1>2. CASE prio # task[p].prio
  <2>1. Change(p, new)
    BY <1>2 DEF rt_mutex_setprio, Setprio
  <2>2. /\ new \in TaskRec /\ new.policy = task[p].policy /\ new.rt_priority = task[p].rt_priority
        /\ new.static_prio = task[p].static_prio /\ new.normal_prio = task[p].normal_prio
        /\ new.life = task[p].life /\ new.req = task[p].req /\ new.prio = prio
    <3> HIDE DEF prio
    <3> QED
      BY ONLY Zenon, <1>0 DEF TaskRec
  <2> HIDE DEF new
  <2>3. PICK x \in TaskRec : Same(x, new) /\ task' = [task EXCEPT ![p] = x]
    BY Zenon, <2>1, <2>2, ChangeSame
  <2> QED
    BY Zenon, <2>2, <2>3 DEF Same, SameParams
<1> QED
  BY Zenon, <1>1, <1>2

\* A step of the lock's code on an owner that waits for nobody itself.
LEMMA SetprioInv ==
    ASSUME IInv, NEW p \in Alive, NEW donor \in Task \cup {None}, donor # p, ~Blocked(p),
           rt_mutex_setprio(p, donor),
           touched' = [touched EXCEPT ![p] = @ \cup {"boost"}],
           caller' \in [Caller -> CallStates],
           \A d \in Caller : \/ caller'[d] = caller[d]
                             \/ /\ caller'[d].pc = "idle"
                                /\ caller[d].pc = "adjust" => caller[d].task = donor,
           \A q \in Task : pi_top_task[q] = donor /\ donor # None => q = p,
           donor # None => donor \in Alive /\ pi_top_task[donor] = None
    PROVE  IInv'
<1>0. p \in Task
  BY Zenon DEF Alive
<1>1. PICK x \in TaskRec :
               /\ task' = [task EXCEPT ![p] = x]
               /\ x.policy = task[p].policy /\ x.rt_priority = task[p].rt_priority
               /\ x.static_prio = task[p].static_prio /\ x.normal_prio = task[p].normal_prio
               /\ x.life = task[p].life /\ x.req = task[p].req
               /\ x.prio = __rt_effective_prio(donor, task[p].normal_prio)
  BY <1>0, SetprioTask DEF IInv
<1>2. /\ UNCHANGED <<may, used, uclamp_default, util_min_rt_default, sync>>
      /\ pi_top_task' = [pi_top_task EXCEPT ![p] = donor]
  BY Zenon DEF rt_mutex_setprio, Setprio
<1>3. /\ task'[p] = x /\ pi_top_task'[p] = donor /\ touched'[p] = touched[p] \cup {"boost"}
      /\ \A q \in Task : q # p => /\ task'[q] = task[q] /\ pi_top_task'[q] = pi_top_task[q]
                                  /\ touched'[q] = touched[q]
  BY Zenon, <1>0, <1>1, <1>2 DEF IInv, TypeInv
<1>4. normal_prio(x) = normal_prio(task[p])
  BY Zenon, <1>1 DEF normal_prio
<1>5. TypeInv'
  BY ZenonT(60), <1>0, <1>1, <1>2 DEF IInv, TypeInv
<1>6. Linked' = Linked /\ Alive' = Alive /\ Alive \subseteq Linked
  BY <1>0, <1>1, <1>3 DEF Linked, Alive
<1>7. FieldsInv'
  <2>1. ASSUME NEW q \in Task
        PROVE  /\ (task'[q].policy = "FIFO") <=> (task'[q].rt_priority # 0)
               /\ "params" \in touched'[q] =>
                      /\ task'[q].normal_prio = normal_prio(task'[q])
                      /\ pi_top_task'[q] = None => task'[q].prio = task'[q].normal_prio
               /\ task'[q].policy = "FIFO" /\ "boost" \notin touched'[q] => rt_prio(task'[q].prio)
               /\ touched'[q] # {} => q \in Linked'
    <3>1. CASE q = p
      BY SMTT(60), <1>1, <1>3, <1>4, <1>6, <3>1 DEF IInv, FieldsInv, __rt_effective_prio
    <3>2. CASE q # p
      BY <1>3, <1>6, <3>2 DEF IInv, FieldsInv, rt_task
    <3> QED
      BY ZenonT(60), <3>1, <3>2
  <2> QED
    BY Zenon, <2>1 DEF FieldsInv, rt_task, normal_prio
<1>8. CallInv'
  BY ZenonT(60), <1>6 DEF CallInv, IInv
<1>9. WaitersInv'
  <2> SUFFICES ASSUME NEW o \in Task, pi_top_task'[o] # None
               PROVE  /\ o \in Alive /\ pi_top_task'[o] \in Alive
                      /\ pi_top_task'[pi_top_task'[o]] = None
                      /\ "boost" \in touched'[o]
                      /\ \A q \in Task : pi_top_task'[q] = pi_top_task'[o] => q = o
    BY Zenon, <1>6 DEF WaitersInv
  <2>1. CASE o = p
    BY ZenonT(60), <1>3, <1>6, <2>1 DEF Alive
  <2>2. CASE o # p
    <3>1. pi_top_task[o] # p
      BY Zenon DEF Blocked
    <3>2. pi_top_task[o] # donor
      BY Zenon, <1>3, <2>2
    <3> QED
      BY <1>3, <2>2, <3>1, <3>2 DEF WaitersInv, IInv, Alive
  <2> QED
    BY Zenon, <2>1, <2>2
<1>10. BoostKept'
  <2> SUFFICES ASSUME NEW o \in Alive, pi_top_task'[o] # None,
                      rt_prio(task'[pi_top_task'[o]].prio),
                      ~\E d \in Caller : caller'[d].pc = "adjust"
                                         /\ caller'[d].task = pi_top_task'[o]
               PROVE  task'[o].prio <= task'[pi_top_task'[o]].prio
    BY Zenon, <1>6 DEF BoostKept, rt_task
  <2>1. CASE o = p
    <3>1. task'[donor] = task[donor] /\ task[donor].prio \in Int /\ task[p].normal_prio \in Int
      BY ZenonT(60), <1>0, <1>3, <2>1 DEF IInv, TypeInv, TaskRec
    <3> QED
      BY <1>1, <1>3, <2>1, <3>1 DEF __rt_effective_prio
  <2>2. CASE o # p
    <3>1. o \in Task /\ pi_top_task'[o] = pi_top_task[o]
      BY Zenon, <1>3, <2>2 DEF Alive
    <3>2. pi_top_task[o] # p /\ pi_top_task[o] # donor /\ pi_top_task[o] \in Task
      BY Zenon, <1>3, <2>2, <3>1 DEF Blocked, IInv, TypeInv
    <3>3. ~\E d \in Caller : caller[d].pc = "adjust" /\ caller[d].task = pi_top_task[o]
      BY ZenonT(60), <3>1, <3>2
    <3> QED
      BY <1>3, <2>2, <3>1, <3>2, <3>3 DEF BoostKept, IInv, rt_task
  <2> QED
    BY Zenon, <2>1, <2>2
<1>11. SyncInv'
  BY <1>0, <1>1, <1>2, <1>3, SyncFrame DEF Subject
<1> QED
  BY Zenon, <1>5, <1>7, <1>8, <1>9, <1>10, <1>11 DEF IInv

LEMMA LockInv ==
    ASSUME IInv, NEW p \in Task, NEW q \in Task, rt_mutex_lock(q, p)
    PROVE  IInv'
<1>1. /\ p \in Alive /\ q \in Alive /\ q # p /\ ~Blocked(p) /\ ~Blocked(q)
      /\ pi_top_task[q] = None /\ rt_mutex_setprio(p, q)
      /\ touched' = [touched EXCEPT ![p] = @ \cup {"boost"}] /\ caller' = caller
  BY DEF rt_mutex_lock
<1> QED
  BY Zenon, <1>1, SetprioInv DEF Blocked, IInv, TypeInv

LEMMA UnlockInv ==
    ASSUME IInv, NEW p \in Task, rt_mutex_unlock(p)
    PROVE  IInv'
<1>1. pi_top_task[p] # None /\ rt_mutex_setprio(p, None) /\ UNCHANGED <<touched, caller>>
  BY Zenon DEF rt_mutex_unlock
<1>2. p \in Alive /\ ~Blocked(p) /\ "boost" \in touched[p]
  BY Zenon, <1>1 DEF IInv, WaitersInv, Blocked
<1>3. touched' = [touched EXCEPT ![p] = @ \cup {"boost"}]
  BY <1>1, <1>2 DEF IInv, TypeInv
<1> QED
  BY Zenon, <1>1, <1>2, <1>3, SetprioInv DEF IInv, TypeInv

LEMMA AdjustInv ==
    ASSUME IInv, NEW c \in Caller, rt_mutex_adjust_pi(c)
    PROVE  IInv'
<1> DEFINE q == caller[c].task
           p == CHOOSE r \in Task : pi_top_task[r] = q
<1>1. caller[c].pc = "adjust" /\ caller' = [caller EXCEPT ![c] = NotCalling]
      /\ UNCHANGED touched /\ q \in Task
  BY Zenon DEF rt_mutex_adjust_pi, IInv, TypeInv, CallStates, LockedCall
<1>2. /\ caller' \in [Caller -> CallStates]
      /\ \A d \in Caller : \/ caller'[d] = caller[d]
                           \/ caller'[d].pc = "idle" /\ caller[d].task = q
  BY <1>1 DEF IInv, TypeInv, CallStates, NotCalling
<1>3. CASE Blocked(q)
  <2>1. p \in Task /\ pi_top_task[p] = q
    BY <1>3 DEF Blocked
  <2>2. rt_mutex_setprio(p, q)
    BY <1>3 DEF rt_mutex_adjust_pi
  <2> HIDE DEF p, q
  <2>3. /\ p \in Alive /\ q \in Alive /\ q # p /\ ~Blocked(p) /\ pi_top_task[q] = None
        /\ "boost" \in touched[p] /\ \A r \in Task : pi_top_task[r] = q => r = p
    BY Zenon, <1>1, <2>1 DEF IInv, WaitersInv, Blocked
  <2>4. touched' = [touched EXCEPT ![p] = @ \cup {"boost"}]
    BY <1>1, <2>3 DEF IInv, TypeInv
  <2> QED
    BY ZenonT(60), <1>1, <1>2, <2>2, <2>3, <2>4, SetprioInv
<1>4. CASE ~Blocked(q)
  <2>1. UNCHANGED <<may, task, used, uclamp_default, util_min_rt_default, sync, pi_top_task>>
    BY Zenon, <1>4 DEF rt_mutex_adjust_pi, clampVars
  <2>2. TypeInv'
    BY Zenon, <1>1, <1>2, <2>1 DEF IInv, TypeInv
  <2>3. FieldsInv'
    BY Zenon, <1>1, <2>1 DEF IInv, FieldsInv, Linked, rt_task, normal_prio
  <2>4. CallInv'
    BY ZenonT(60), <1>2, <2>1 DEF IInv, CallInv, Linked
  <2>5. WaitersInv'
    BY ZenonT(60), <1>1, <2>1 DEF IInv, WaitersInv, Alive
  <2>6. BoostKept'
    <3>1. \A o \in Task : pi_top_task[o] # q
      BY Zenon, <1>4 DEF Blocked
    <3> HIDE DEF q
    <3> QED
      BY ZenonT(60), <1>2, <2>1, <3>1 DEF IInv, BoostKept, Alive, rt_task
  <2>7. SyncInv'
    BY Zenon, <1>1, <2>1, SyncFrame DEF Subject
  <2> QED
    BY Zenon, <2>2, <2>3, <2>4, <2>5, <2>6, <2>7 DEF IInv
<1> QED
  BY Zenon, <1>3, <1>4

-----------------------------------------------------------------------------
(* set_user_nice().                                                        *)

\* A nice value makes no real-time priority and takes none away.
LEMMA NiceTask ==
    ASSUME TypeInv, NEW p \in Task, NEW nice \in Nices, set_user_nice(p, nice)
    PROVE  \E x \in TaskRec :
               /\ task' = [task EXCEPT ![p] = x]
               /\ x.policy = task[p].policy /\ x.rt_priority = task[p].rt_priority
               /\ x.life = task[p].life /\ x.req = task[p].req
               /\ IF task[p].policy = "FIFO"
                  THEN x.normal_prio = task[p].normal_prio /\ x.prio = task[p].prio
                  ELSE /\ x.normal_prio = normal_prio(x)
                       /\ x.prio = IF rt_prio(task[p].prio) THEN task[p].prio ELSE x.normal_prio
                       /\ ~rt_prio(x.normal_prio)
<1> DEFINE n == NICE_TO_PRIO(nice)
           t == [task[p] EXCEPT !.static_prio = n]
           new == [t EXCEPT !.normal_prio = normal_prio(t), !.prio = effective_prio(t)]
<1>1. task[p] \in TaskRec /\ n \in StaticPrios
  BY DEF TypeInv, NICE_TO_PRIO, StaticPrios
<1> HIDE DEF n
<1>2. /\ t \in TaskRec /\ t.policy = task[p].policy /\ t.rt_priority = task[p].rt_priority
      /\ t.life = task[p].life /\ t.req = task[p].req /\ t.normal_prio = task[p].normal_prio
      /\ t.prio = task[p].prio /\ t.static_prio = n
  BY ONLY <1>1 DEF TaskRec
<1> HIDE DEF t
<1>3. CASE task[p].policy = "FIFO"
  <2>1. task' = [task EXCEPT ![p] = t]
    BY <1>2, <1>3 DEF set_user_nice, t, n
  <2> QED
    BY Zenon, <1>2, <1>3, <2>1
<1>4. CASE task[p].policy # "FIFO"
  <2>1. Change(p, new)
    BY <1>2, <1>4 DEF set_user_nice, t, n
  <2>2. normal_prio(t) = n /\ normal_prio(t) \in Int /\ ~rt_prio(normal_prio(t))
    BY <1>1, <1>2, <1>4 DEF normal_prio, __normal_prio, NICE_TO_PRIO, PRIO_TO_NICE, rt_prio,
                            StaticPrios
  <2>3. effective_prio(t) = (IF rt_prio(task[p].prio) THEN task[p].prio ELSE normal_prio(t))
        /\ effective_prio(t) \in Int
    BY <1>1, <1>2, <2>2 DEF effective_prio, TaskRec
  <2>4. /\ new \in TaskRec /\ new.policy = t.policy /\ new.rt_priority = t.rt_priority
        /\ new.life = t.life /\ new.req = t.req /\ new.static_prio = t.static_prio
        /\ new.normal_prio = normal_prio(t) /\ new.prio = effective_prio(t)
    BY ONLY Zenon, <1>2, <2>2, <2>3 DEF TaskRec
  <2> HIDE DEF new
  <2>5. PICK x \in TaskRec : Same(x, new) /\ task' = [task EXCEPT ![p] = x]
    BY Zenon, <2>1, <2>4, ChangeSame
  <2>6. normal_prio(x) = normal_prio(t)
    BY Zenon, <2>4, <2>5 DEF Same, SameParams, normal_prio
  <2> QED
    BY ZenonT(60), <1>2, <1>4, <2>2, <2>3, <2>4, <2>5, <2>6 DEF Same, SameParams
<1> QED
  BY Zenon, <1>3, <1>4

LEMMA NiceInv ==
    ASSUME IInv, NEW p \in Task, NEW nice \in Nices, set_user_nice(p, nice)
    PROVE  IInv'
<1>1. PICK x \in TaskRec :
               /\ task' = [task EXCEPT ![p] = x]
               /\ x.policy = task[p].policy /\ x.rt_priority = task[p].rt_priority
               /\ x.life = task[p].life /\ x.req = task[p].req
               /\ IF task[p].policy = "FIFO"
                  THEN x.normal_prio = task[p].normal_prio /\ x.prio = task[p].prio
                  ELSE /\ x.normal_prio = normal_prio(x)
                       /\ x.prio = IF rt_prio(task[p].prio) THEN task[p].prio ELSE x.normal_prio
                       /\ ~rt_prio(x.normal_prio)
  BY NiceTask DEF IInv
<1>2. UNCHANGED <<may, touched, used, uclamp_default, util_min_rt_default, sync, caller,
                  pi_top_task>>
  BY ZenonT(60) DEF set_user_nice
<1>3. task'[p] = x /\ \A q \in Task : q # p => task'[q] = task[q]
  BY <1>1 DEF IInv, TypeInv
<1>4. TypeInv'
  BY ZenonT(60), <1>1, <1>2 DEF IInv, TypeInv
<1>5. Linked' = Linked /\ Alive' = Alive
  BY SMTT(60), <1>1, <1>3 DEF Linked, Alive
<1>6. \A q \in Task : /\ rt_task(q)' <=> rt_task(q)
                      /\ rt_task(q) => task'[q].prio = task[q].prio
  BY <1>1, <1>3 DEF rt_task
<1>7. FieldsInv'
  <2>1. /\ (x.policy = "FIFO") <=> (x.rt_priority # 0)
        /\ "params" \in touched[p] =>
               /\ x.normal_prio = normal_prio(x)
               /\ pi_top_task[p] = None => x.prio = x.normal_prio
        /\ x.policy = "FIFO" /\ "boost" \notin touched[p] => rt_prio(x.prio)
    <3>1. CASE task[p].policy = "FIFO"
      <4>1. normal_prio(x) = normal_prio(task[p])
        BY <1>1, <3>1 DEF normal_prio, __normal_prio
      <4> QED
        BY Zenon, <1>1, <3>1, <4>1 DEF IInv, FieldsInv, rt_task
    <3>2. CASE task[p].policy # "FIFO"
      <4>1. ~rt_prio(normal_prio(task[p]))
        BY <3>2 DEF normal_prio, __normal_prio, NICE_TO_PRIO, PRIO_TO_NICE, rt_prio, StaticPrios,
                    IInv, TypeInv, TaskRec
      <4> QED
        BY ZenonT(60), <1>1, <3>2, <4>1 DEF IInv, FieldsInv
    <3> QED
      BY <3>1, <3>2
  <2> QED
    BY ZenonT(60), <1>2, <1>3, <1>5, <2>1 DEF IInv, FieldsInv, rt_task, normal_prio
<1>8. CallInv'
  BY Zenon, <1>2, <1>5 DEF IInv, CallInv
<1>9. WaitersInv'
  BY Zenon, <1>2, <1>5 DEF IInv, WaitersInv
<1>10. BoostKept'
  <2> SUFFICES ASSUME NEW o \in Alive, NEW q \in Task, q = pi_top_task[o], rt_task(q)',
                      ~\E c \in Caller : caller[c].pc = "adjust" /\ caller[c].task = q
               PROVE  task'[o].prio <= task'[q].prio
    BY Zenon, <1>2, <1>5 DEF BoostKept, IInv, TypeInv, Alive
  <2>1. rt_task(q) /\ task'[q].prio = task[q].prio /\ task[o].prio <= task[q].prio
    BY Zenon, <1>6 DEF BoostKept, IInv
  <2>2. o \in Task /\ task[o].prio \in Int /\ task[q].prio \in Int
    BY Zenon DEF IInv, TypeInv, TaskRec, Alive
  <2>3. rt_task(o)
    BY <2>1, <2>2 DEF rt_task, rt_prio
  <2> QED
    BY Zenon, <1>6, <2>1, <2>2, <2>3
<1>11. SyncInv'
  BY ZenonT(60), <1>1, <1>2, <1>3, SyncFrame DEF Subject
<1> QED
  BY ZenonT(60), <1>4, <1>7, <1>8, <1>9, <1>10, <1>11 DEF IInv

-----------------------------------------------------------------------------
(* The sysctl.                                                             *)

LEMMA SysctlInv ==
    ASSUME IInv, SysctlStep
    PROVE  IInv'
<1>0. may.defaults \subseteq Unsigned /\ may.sysctl \subseteq Unsigned
  BY ScenariosAssumption DEF IInv, TypeInv
<1>1. CASE UpdateRt
  <2> DEFINE p == sync.task
             x == WithRtDefault(task[p])
  <2>1. /\ sync.pc = "update" /\ p \in Task /\ task' = [task EXCEPT ![p] = x]
        /\ sync' = [pc |-> "loop", todo |-> sync.todo] /\ sync.todo \in SUBSET Task
        /\ UNCHANGED <<may, touched, urq, used, uclamp_default, util_min_rt_default, caller,
                       pi_top_task>>
    BY Zenon, <1>1 DEF UpdateRt, IInv, TypeInv, SyncStates
  <2>2. /\ x \in TaskRec /\ SameParams(x, task[p]) /\ x.life = task[p].life
        /\ x.req["MIN"].user \/ x.req["MIN"].value = util_min_rt_default
    BY Zenon, <2>1, WithRtDefaultSame DEF IInv, TypeInv
  <2> HIDE DEF x, p
  <2>3. Onward /\ task' \in [Task -> TaskRec]
    BY Zenon, <2>1, <2>2, UpdateOnward DEF IInv
  <2>4. TypeInv'
    BY Zenon, <2>1, <2>3 DEF IInv, TypeInv, SyncStates
  <2>5. SyncInv'
    <3>1. task'[p] = x /\ \A q \in Task : q # p => task'[q] = task[q]
      BY Zenon, <2>1 DEF IInv, TypeInv
    <3>2. ASSUME NEW q \in Task, Subject(q)'
          PROVE  \/ task'[q].req["MIN"].value = util_min_rt_default
                 \/ task'[q].req["MIN"].value > SCHED_CAPACITY_SCALE
                 \/ q \in sync.todo
      <4>1. CASE q = p
        BY Zenon, <2>2, <3>1, <3>2, <4>1 DEF Subject
      <4>2. CASE q # p
        <5>1. Subject(q) /\ task'[q].req = task[q].req
          BY Zenon, <2>1, <3>1, <3>2, <4>2 DEF Subject
        <5> QED
          BY Zenon, <2>1, <4>2, <5>1 DEF SyncInv, IInv, p
      <4> QED
        BY Zenon, <4>1, <4>2
    <3> QED
      BY Zenon, <2>1, <3>2 DEF SyncInv
  <2> QED
    BY Zenon, <2>1, <2>3, <2>4, <2>5, OnwardInv DEF IInv, Marked
<1>2. CASE ~UpdateRt
  <2>1. UNCHANGED <<may, task, touched, caller, pi_top_task>>
    BY Zenon, <1>2 DEF SysctlStep, sysctl_sched_uclamp_default, sysctl_sched_uclamp_handler,
                CheckDefault, uclamp_sync_util_min_rt_default, TestRt, SyncDone
  <2>2. Onward
    BY Zenon, <2>1 DEF Onward, SameParams
  <2>3. /\ used' \in BOOLEAN /\ uclamp_default' \in [ClampIds -> ClampValues]
        /\ util_min_rt_default' \in Unsigned /\ sync' \in SyncStates
        /\ sync'.pc # "check" => util_min_rt_default' \in ClampValues
    <3>1. CASE \E id \in ClampIds, v \in may.defaults : sysctl_sched_uclamp_default(id, v)
      <4>1. PICK id \in ClampIds, v \in Unsigned : sysctl_sched_uclamp_default(id, v)
        BY Zenon, <1>0, <3>1
      <4>0. uclamp_default \in [ClampIds -> Unsigned]
        BY DEF IInv, TypeInv
      <4>2. uclamp_default' \in [ClampIds -> Unsigned]
        BY Zenon, <4>0, <4>1 DEF sysctl_sched_uclamp_default
      <4>3. uclamp_default' \in [ClampIds -> ClampValues]
        BY <4>1, <4>2 DEF sysctl_sched_uclamp_default
      <4> QED
        BY Zenon, <4>1, <4>3 DEF sysctl_sched_uclamp_default, IInv, TypeInv
    <3>2. CASE \E v \in may.sysctl : sysctl_sched_uclamp_handler(v)
      BY <1>0, <3>2 DEF sysctl_sched_uclamp_handler, IInv, TypeInv, SyncStates
    <3>6. CASE CheckDefault
      <4>1. sync.old \in ClampValues
        BY Zenon, <3>6 DEF CheckDefault, IInv, TypeInv, SyncStates
      <4>2. util_min_rt_default \in Unsigned /\ used \in BOOLEAN
            /\ uclamp_default \in [ClampIds -> ClampValues]
        BY Zenon DEF IInv, TypeInv
      <4>3. CASE util_min_rt_default > SCHED_CAPACITY_SCALE
        <5>1. /\ util_min_rt_default' = sync.old /\ sync' = [pc |-> "idle"]
              /\ used' = used /\ uclamp_default' = uclamp_default
          BY Zenon, <3>6, <4>3 DEF CheckDefault
        <5>2. sync.old \in Unsigned
          BY <4>1
        <5> QED
          BY Zenon, <4>1, <4>2, <5>1, <5>2 DEF SyncStates
      <4>4. CASE ~(util_min_rt_default > SCHED_CAPACITY_SCALE)
        <5>1. /\ util_min_rt_default' = util_min_rt_default /\ sync' = [pc |-> "lock"]
              /\ used' = TRUE /\ uclamp_default' = uclamp_default
          BY Zenon, <3>6, <4>4 DEF CheckDefault
        <5>2. util_min_rt_default \in ClampValues
          BY <4>2, <4>4
        <5> QED
          BY Zenon, <4>2, <5>1, <5>2 DEF SyncStates
      <4> QED
        BY Zenon, <4>3, <4>4
    <3>3. CASE uclamp_sync_util_min_rt_default
      BY <3>3 DEF uclamp_sync_util_min_rt_default, IInv, TypeInv, SyncStates, Linked
    <3>4. CASE \E p \in Task : TestRt(p)
      <4>1. PICK p \in Task : TestRt(p)
        BY <3>4
      <4>2. sync \in [pc : {"loop"}, todo : SUBSET Task]
        BY <4>1 DEF TestRt, IInv, TypeInv, SyncStates
      <4>3. [sync EXCEPT !.todo = @ \ {p}] \in [pc : {"loop"}, todo : SUBSET Task]
        BY Zenon, <4>2
      <4>4. [pc |-> "update", todo |-> sync.todo \ {p}, task |-> p]
                \in [pc : {"update"}, todo : SUBSET Task, task : Task]
        BY Zenon, <4>2
      <4> QED
        BY Zenon, <4>1, <4>3, <4>4 DEF TestRt, IInv, TypeInv, SyncStates
    <3>5. CASE SyncDone
      BY Zenon, <3>5 DEF SyncDone, IInv, TypeInv, SyncStates
    <3> QED
      BY Zenon, <1>2, <3>1, <3>2, <3>3, <3>4, <3>5, <3>6 DEF SysctlStep
  <2>4. TypeInv'
    BY <2>1, <2>3 DEF IInv, TypeInv
  <2>5. SyncInv'
    <3> SUFFICES ASSUME NEW p \in Task, Subject(p)
                 PROVE  \/ task[p].req["MIN"].value = util_min_rt_default'
                        \/ task[p].req["MIN"].value > SCHED_CAPACITY_SCALE
                        \/ sync'.pc = "check" /\ task[p].req["MIN"].value = sync'.old
                        \/ sync'.pc = "lock"
                        \/ sync'.pc \in {"loop", "update"} /\ p \in sync'.todo
                        \/ sync'.pc = "update" /\ p = sync'.task
      BY Zenon, <2>1 DEF SyncInv, Subject
    <3>0. \/ task[p].req["MIN"].value = util_min_rt_default
          \/ task[p].req["MIN"].value > SCHED_CAPACITY_SCALE
          \/ sync.pc = "check" /\ task[p].req["MIN"].value = sync.old
          \/ sync.pc = "lock"
          \/ sync.pc \in {"loop", "update"} /\ p \in sync.todo
          \/ sync.pc = "update" /\ p = sync.task
      BY Zenon DEF IInv, SyncInv
    <3>1. CASE \E id \in ClampIds, v \in may.defaults : sysctl_sched_uclamp_default(id, v)
      BY ZenonT(60), <3>0, <3>1 DEF sysctl_sched_uclamp_default
    <3>2. CASE \E v \in may.sysctl : sysctl_sched_uclamp_handler(v)
      BY <3>0, <3>2 DEF sysctl_sched_uclamp_handler
    <3>6. CASE CheckDefault
      BY <3>0, <3>6 DEF CheckDefault
    <3>3. CASE uclamp_sync_util_min_rt_default
      BY Zenon, <3>3 DEF uclamp_sync_util_min_rt_default, Subject, Linked
    <3>4. CASE \E q \in Task : TestRt(q)
      <4>1. PICK q \in Task : TestRt(q)
        BY <3>4
      <4>2. sync \in [pc : {"loop"}, todo : SUBSET Task] /\ sync.pc = "loop"
        BY Zenon, <4>1 DEF TestRt, IInv, TypeInv, SyncStates
      <4>3. rt_task(p)
        BY DEF Subject, IInv, FieldsInv
      <4>4. CASE rt_task(q)
        BY Zenon, <3>0, <4>1, <4>2, <4>4 DEF TestRt
      <4>5. CASE ~rt_task(q)
        BY ZenonT(60), <3>0, <4>1, <4>2, <4>3, <4>5 DEF TestRt
      <4> QED
        BY Zenon, <4>4, <4>5
    <3>5. CASE SyncDone
      BY <3>0, <3>5 DEF SyncDone
    <3> QED
      BY Zenon, <1>2, <3>1, <3>2, <3>3, <3>4, <3>5, <3>6 DEF SysctlStep
  <2> QED
    BY Zenon, <2>1, <2>2, <2>4, <2>5, OnwardInv DEF IInv, Marked
<1> QED
  BY <1>1, <1>2

-----------------------------------------------------------------------------
(* The theorems.                                                           *)

LEMMA InitInv == Init => IInv
<1> SUFFICES ASSUME Init PROVE IInv
  OBVIOUS
<1>1. \A p \in Task : \E l \in {"alive", "none"}, b \in BOOLEAN : task[p] = FirstTask(l, b)
  BY ZenonT(60) DEF Init
<1>2. ASSUME NEW l \in {"alive", "none"}, NEW b \in BOOLEAN
      PROVE  /\ FirstTask(l, b) \in TaskRec /\ FirstTask(l, b).policy = "NORMAL"
             /\ FirstTask(l, b).rt_priority = 0
  BY DEF FirstTask, TaskRec, NICE_TO_PRIO, StaticPrios, uclamp_none
<1>3. task \in [Task -> TaskRec]
  <2>1. DOMAIN task = Task /\ task = [p \in Task |-> task[p]]
    BY DEF Init
  <2> QED
    BY ZenonT(60), <1>1, <1>2, <2>1
<1>4. TypeInv
  <2>1. sync \in SyncStates /\ caller \in [Caller -> CallStates]
    BY Zenon DEF Init, SyncStates, CallStates, NotCalling
  <2>2. uclamp_default \in [ClampIds -> ClampValues] /\ util_min_rt_default \in ClampValues
        /\ util_min_rt_default \in Unsigned
    BY DEF Init
  <2>3. touched \in [Task -> SUBSET {"params", "clamps", "boost", "excess"}]
        /\ pi_top_task \in [Task -> Task \cup {None}]
    BY DEF Init
  <2> QED
    BY Zenon, <1>3, <2>1, <2>2, <2>3 DEF Init, TypeInv
<1>5. FieldsInv
  BY Zenon, <1>1, <1>2 DEF Init, FieldsInv
<1>6. CallInv /\ WaitersInv /\ BoostKept
  BY Zenon DEF Init, CallInv, WaitersInv, BoostKept, NotCalling, Alive
<1>7. SyncInv
  BY <1>1, <1>2 DEF SyncInv, Subject
<1> QED
  BY Zenon, <1>4, <1>5, <1>6, <1>7 DEF IInv

LEMMA NextInv == IInv /\ [Next]_vars => IInv'
<1> SUFFICES ASSUME IInv, [Next]_vars PROVE IInv'
  BY Zenon
<1>1. CASE \E p \in Task : Sleep(p) \/ Wake(p) \/ ForkStep(p) \/ rt_mutex_unlock(p)
  BY Zenon, <1>1, SleepInv, ForkInv, LinkInv, UnlockInv DEF ForkStep
<1>2. CASE \E c \in Caller, p \in Task :
             \/ \E a \in may.attrs :
                  sched_setscheduler(c, p, a) \/ sched_setparam(c, p, a) \/ sched_setattr(c, p, a)
             \/ sched_set_fifo(c, p) \/ sched_set_fifo_low(c, p)
             \/ \E nice \in may.nice : sched_set_normal(c, p, nice)
  BY Zenon, <1>2, CallsInv
<1>3. CASE \E c \in Caller : SetLocked(c) \/ rt_mutex_adjust_pi(c)
  BY Zenon, <1>3, SetLockedInv, AdjustInv
<1>4. CASE \E q, p \in Task : rt_mutex_lock(q, p)
  BY Zenon, <1>4, LockInv
<1>5. CASE \E p \in Task, nice \in -MAX_NICE .. MAX_NICE : set_user_nice(p, nice)
  BY <1>5, NiceInv
<1>6. CASE SysctlStep
  BY Zenon, <1>6, SysctlInv
<1>7. CASE UNCHANGED vars
  <2>1. UNCHANGED <<may, task, touched, used, uclamp_default, util_min_rt_default, sync, caller,
                    pi_top_task>>
    BY Zenon, <1>7 DEF vars, clampVars
  <2>2. Onward /\ TypeInv'
    BY Zenon, <2>1 DEF Onward, SameParams, IInv, TypeInv
  <2>3. SyncInv'
    BY <2>1, SyncFrame DEF Subject
  <2> QED
    BY Zenon, <2>1, <2>2, <2>3, OnwardInv DEF IInv, Marked
<1> QED
  BY Zenon, <1>1, <1>2, <1>3, <1>4, <1>5, <1>6, <1>7 DEF Next

(* The invariant of the parameters, the callers, the waiters and the       *)
(* sysctl's loop holds in every state of the model.                        *)
THEOREM Inductive == Spec => []IInv
BY InitInv, NextInv, PTL DEF Spec

(* However many callers race in __sched_setscheduler(), the policy, the    *)
(* rt_priority, the normal and the effective priority of a task agree.     *)
THEOREM ParamsAlwaysAgree == Spec => []ParamsAgree
<1>1. IInv => ParamsAgree
  BY Zenon DEF IInv, FieldsInv, ParamsAgree, Linked
<1> QED
  BY <1>1, Inductive, PTL

(* The owner of a lock never runs below a real-time waiter once            *)
(* rt_mutex_adjust_pi() has been called for the waiter.                    *)
THEOREM BoostAlwaysKept == Spec => []BoostKept
<1>1. IInv => BoostKept
  BY Zenon DEF IInv
<1> QED
  BY <1>1, Inductive, PTL

(* uclamp_sync_util_min_rt_default() misses no real-time task: neither one *)
(* forked while its loop runs, nor one whose policy or priority changes    *)
(* meanwhile; only one that took up a default out of range, before the     *)
(* handler withdrew it, may keep that.                                     *)
THEOREM RtDefaultAlwaysSynced == Spec => []RtDefaultSynced
<1>1. IInv => RtDefaultSynced
  BY DEF IInv, SyncInv, RtDefaultSynced, Subject
<1> QED
  BY <1>1, Inductive, PTL

=============================================================================
