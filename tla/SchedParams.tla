---------------------------- MODULE SchedParams ----------------------------
(***************************************************************************)
(* Scheduling parameters of tasks, kernel/sched/core.c: fork (with the     *)
(* repository's change), sched_setscheduler(), sched_setattr(),            *)
(* set_user_nice(), priority inheritance, and the utilization clamps those *)
(* calls and the sysctl change, on one runqueue.  Policies NORMAL and      *)
(* FIFO; SCHED_DEADLINE and task groups are left out.                      *)
(*                                                                         *)
(* p->pi_lock and rq->lock are taken for one step at a time.               *)
(***************************************************************************)
EXTENDS UClamp, Integers

CONSTANTS
    Task, init_task,
    Caller,           \* callers of __sched_setscheduler()
    MAX_RT_PRIO,      \* 100
    MAX_NICE,         \* nice values are -MAX_NICE .. MAX_NICE
    ForkPrio,         \* NICE_TO_PRIO(-30), a real-time priority
    ForkRtPriority,   \* 99
    Scenarios         \* what may happen in a behaviour

None == "none"
NoClamp == -1    \* the flag of the clamp is not set

\* What a caller passes: see __sched_setscheduler() below.
Attrs == [policy : {"NORMAL", "FIFO", "keep"}, prio : Nat, nice : Int, reset : BOOLEAN,
          keep : BOOLEAN, clamp : [ClampIds -> Unsigned \cup {NoClamp}]]

ASSUME SchedParamsAssumption ==
    /\ init_task \in Task /\ None \notin Task
    /\ MAX_RT_PRIO \in Nat /\ MAX_NICE \in Nat
    /\ ForkPrio \in 0 .. MAX_RT_PRIO - 1
    /\ ForkRtPriority \in 1 .. MAX_RT_PRIO - 1

ASSUME TaskFinite == IsFiniteSet(Task)

ASSUME ScenariosAssumption ==
    \A s \in Scenarios :
        /\ s.attrs \subseteq Attrs /\ s.nice \subseteq -MAX_NICE .. MAX_NICE
        /\ s.sysctl \subseteq Unsigned /\ s.defaults \subseteq Unsigned

VARIABLES
    may,          \* the scenario
    task,         \* struct task_struct of each task
    touched,      \* what has changed each task since its fork (history)
    urq,          \* rq->uclamp, rq->uclamp_flags
    used,         \* sched_uclamp_used
    uclamp_default,
    util_min_rt_default,  \* sysctl_sched_uclamp_util_min_rt_default
    sync,         \* where sysctl_sched_uclamp_handler() is
    caller,       \* where each caller is
    pi_top_task   \* p->pi_top_task: the waiter that lends its priority, or None

clampVars == <<urq, used, uclamp_default, util_min_rt_default, sync>>
vars == <<may, task, touched, clampVars, caller, pi_top_task>>

NotCalling == [pc |-> "idle"]

NICE_TO_PRIO(nice) == MAX_RT_PRIO + MAX_NICE + nice
PRIO_TO_NICE(prio) == prio - MAX_RT_PRIO - MAX_NICE
rt_prio(prio) == prio < MAX_RT_PRIO
rt_task(p) == rt_prio(task[p].prio)

__normal_prio(policy, rt_priority, nice) ==
    IF policy = "FIFO" THEN MAX_RT_PRIO - 1 - rt_priority ELSE NICE_TO_PRIO(nice)

normal_prio(t) == __normal_prio(t.policy, t.rt_priority, PRIO_TO_NICE(t.static_prio))

\* effective_prio(): a real-time priority, own or lent, is left alone.
effective_prio(t) == IF rt_prio(t.prio) THEN t.prio ELSE normal_prio(t)

Linked == {p \in Task : task[p].life \in {"linked", "posted", "alive"}}
Alive == {p \in Task : task[p].life = "alive"}

-----------------------------------------------------------------------------
(* Clamps and the runqueue.                                                *)

uclamp_eff_get(t) ==
    [id \in ClampIds |-> IF clamp_value(t.req[id].value) > clamp_value(uclamp_default[id])
                         THEN uclamp_default[id] ELSE t.req[id].value]

\* The task and the runqueue after enqueue_task() and dequeue_task().
Enqueued(t) ==
    IF used THEN [t EXCEPT !.queued = TRUE, !.active = TRUE, !.eff = uclamp_eff_get(t)]
    ELSE [t EXCEPT !.queued = TRUE]

EnqueuedRq(r, t) == IF used THEN uclamp_rq_inc(r, uclamp_eff_get(t)) ELSE r

Dequeued(t) == [t EXCEPT !.queued = FALSE, !.active = @ /\ ~used]

DequeuedRq(r, t) == IF used /\ t.active THEN uclamp_rq_dec(r, t.eff) ELSE r

\* dequeue, change, enqueue: what every change of a queued task does.
Change(p, new) ==
    LET out == [new EXCEPT !.queued = FALSE, !.active = Dequeued(task[p]).active]
    IN  IF task[p].queued
        THEN /\ task' = [task EXCEPT ![p] = Enqueued(out)]
             /\ urq' = EnqueuedRq(DequeuedRq(urq, task[p]), out)
        ELSE task' = [task EXCEPT ![p] = new] /\ UNCHANGED urq

Sleep(p) ==
    /\ p \in Alive /\ task[p].queued /\ p \in may.sleep
    /\ task' = [task EXCEPT ![p] = Dequeued(task[p])]
    /\ urq' = DequeuedRq(urq, task[p])
    /\ UNCHANGED <<may, touched, used, uclamp_default, util_min_rt_default, sync, caller,
                   pi_top_task>>

Blocked(p) == \E q \in Task : pi_top_task[q] = p

Wake(p) ==
    /\ p \in Alive /\ ~task[p].queued /\ ~Blocked(p)
    /\ task' = [task EXCEPT ![p] = Enqueued(task[p])]
    /\ urq' = EnqueuedRq(urq, task[p])
    /\ UNCHANGED <<may, touched, used, uclamp_default, util_min_rt_default, sync, caller,
                   pi_top_task>>

-----------------------------------------------------------------------------
(* Fork: copy_process() calls sched_fork(), links the child into the task  *)
(* list, calls sched_post_fork() and wake_up_new_task().                   *)

\* uclamp_fork(): no bucket is charged yet; reset-on-fork drops the request.
uclamp_fork(t) ==
    [t EXCEPT !.active = FALSE,
              !.req = IF t.reset_on_fork
                      THEN [id \in ClampIds |-> [value |-> uclamp_none(id), user |-> FALSE]]
                      ELSE @]

Reverted(t) ==
    LET nice == PRIO_TO_NICE(t.static_prio)
        prio == IF t.policy = "FIFO" \/ nice < 0 THEN NICE_TO_PRIO(0) ELSE t.static_prio
    IN  [t EXCEPT !.policy = "NORMAL", !.rt_priority = 0, !.static_prio = prio,
                  !.prio = prio, !.normal_prio = prio, !.reset_on_fork = FALSE]

__sched_fork(t) == [t EXCEPT !.life = "new", !.queued = FALSE]

\* The assignments after the revert are the repository's change to the kernel.
sched_fork(p, child) ==
    LET copy == [__sched_fork(task[p]) EXCEPT !.prio = task[p].normal_prio]
        t == uclamp_fork(copy)
        r == IF t.reset_on_fork THEN Reverted(t) ELSE t
    IN  /\ p \in Alive /\ ~Blocked(p) /\ task[child].life = "none" /\ child \in may.fork
        /\ task' = [task EXCEPT ![child] = [r EXCEPT !.policy = "FIFO", !.prio = ForkPrio,
                                                     !.rt_priority = ForkRtPriority]]
        /\ UNCHANGED <<may, touched, clampVars, caller, pi_top_task>>

\* copy_process() links the child under tasklist_lock.
link(child) ==
    /\ task[child].life = "new"
    /\ task' = [task EXCEPT ![child].life = "linked"]
    /\ UNCHANGED <<may, touched, clampVars, caller, pi_top_task>>

\* __uclamp_update_util_min_rt_default(): a value the user set is kept.
WithRtDefault(t) ==
    IF t.req["MIN"].user THEN t
    ELSE [t EXCEPT !.req["MIN"] = [value |-> util_min_rt_default, user |-> FALSE]]

\* History: the task asked for, or took from the sysctl, a clamp out of range.
Excess(t) == IF \E id \in ClampIds : t.req[id].value > SCHED_CAPACITY_SCALE THEN {"excess"} ELSE {}

sched_post_fork(child) ==
    LET t == IF rt_task(child) THEN WithRtDefault(task[child]) ELSE task[child]
    IN  /\ task[child].life = "linked"
        /\ task' = [task EXCEPT ![child] = [t EXCEPT !.life = "posted"]]
        /\ touched' = [touched EXCEPT ![child] = @ \cup Excess(t)]
        /\ UNCHANGED <<may, clampVars, caller, pi_top_task>>

wake_up_new_task(child) ==
    /\ task[child].life = "posted"
    /\ task' = [task EXCEPT ![child] = [Enqueued(@) EXCEPT !.life = "alive"]]
    /\ urq' = EnqueuedRq(urq, task[child])
    /\ UNCHANGED <<may, touched, used, uclamp_default, util_min_rt_default, sync, caller,
                   pi_top_task>>

-----------------------------------------------------------------------------
(* __sched_setscheduler().  An attr is [policy, prio, nice, reset, keep,   *)
(* clamp]: policy "keep" is SETPARAM_POLICY, keep is SCHED_FLAG_KEEP_PARAMS *)
(* and clamp[id] is the u32 of id, or NoClamp without its flag.             *)

HasClamp(a) == \E id \in ClampIds : a.clamp[id] # NoClamp

\* The int a u32 becomes.
Signed(v) == IF v > INT_MAX THEN v - UINT_MAX - 1 ELSE v

\* v + 1 of an int (signed overflow wraps: the kernel is built that way).
Successor(v) == IF v = INT_MAX THEN -INT_MAX - 1 ELSE v + 1

\* uclamp_validate(): the requested pair, over what the task already has, as
\* ints.  Only -1 is meant to be negative; every negative value passes the test.
uclamp_validate(t, a) ==
    LET v == [id \in ClampIds |-> IF a.clamp[id] # NoClamp THEN Signed(a.clamp[id])
                                 ELSE clamp_value(t.req[id].value)]
    IN  /\ \A id \in ClampIds : a.clamp[id] # NoClamp => Successor(v[id]) <= SCHED_CAPACITY_SCALE + 1
        /\ v["MIN"] # -1 /\ v["MAX"] # -1 => v["MIN"] <= v["MAX"]

\* From the label recheck to the runqueue lock, without a lock: an invalid
\* request returns an error, valid clamps turn the static key on.
Recheck(c, p, a, policy) ==
    LET pol == IF policy = "keep" THEN task[p].policy ELSE policy
        ok == /\ a.prio < MAX_RT_PRIO
              /\ pol = "FIFO" <=> a.prio # 0
              /\ HasClamp(a) => uclamp_validate(task[p], a)
    IN  /\ caller' = [caller EXCEPT ![c] =
               IF ~ok THEN NotCalling
               ELSE [pc |-> "lock", task |-> p, attr |-> a, policy |-> pol,
                     old |-> IF policy = "keep" THEN pol ELSE None,
                     reset |-> IF policy = "keep" THEN task[p].reset_on_fork ELSE a.reset]]
        /\ used' = (used \/ (ok /\ HasClamp(a)))

Call(c, p, a) ==
    /\ c \in may.callers /\ caller[c].pc = "idle" /\ p \in Linked
    /\ Recheck(c, p, a, a.policy)
    /\ UNCHANGED <<may, task, touched, urq, uclamp_default, util_min_rt_default, sync,
                   pi_top_task>>

\* The legacy calls pass the nice value the task has, read without a lock;
\* sched_setparam() leaves the policy ("keep") as well.
_sched_setscheduler(c, p, a) ==
    Call(c, p, [a EXCEPT !.nice = PRIO_TO_NICE(task[p].static_prio)])

sched_setscheduler(c, p, a) ==
    /\ a.policy # "keep" /\ ~HasClamp(a) /\ ~a.keep
    /\ _sched_setscheduler(c, p, a)

sched_setparam(c, p, a) ==
    /\ a.policy = "keep" /\ ~HasClamp(a) /\ ~a.keep
    /\ _sched_setscheduler(c, p, a)

\* Calls from the kernel for threads of its own.
KernelAttr(policy, prio, nice) ==
    [policy |-> policy, prio |-> prio, nice |-> nice, reset |-> FALSE, keep |-> FALSE,
     clamp |-> [id \in ClampIds |-> NoClamp]]

sched_set_fifo(c, p) ==
    p \in may.kernel /\ _sched_setscheduler(c, p, KernelAttr("FIFO", MAX_RT_PRIO \div 2, 0))

sched_set_fifo_low(c, p) ==
    p \in may.kernel /\ _sched_setscheduler(c, p, KernelAttr("FIFO", 1, 0))

sched_set_normal(c, p, nice) ==
    p \in may.kernel /\ Call(c, p, KernelAttr("NORMAL", 0, nice))

sched_copy_attr(a) ==
    [a EXCEPT !.nice = IF @ > MAX_NICE THEN MAX_NICE ELSE IF @ < -MAX_NICE THEN -MAX_NICE ELSE @]

get_params(p, a) ==
    IF task[p].policy = "FIFO" THEN [a EXCEPT !.prio = task[p].rt_priority]
    ELSE [a EXCEPT !.nice = PRIO_TO_NICE(task[p].static_prio)]

\* sched_setattr(): its own nice value, or with SCHED_FLAG_KEEP_PARAMS what the
\* task has, read without a lock.
sched_setattr(c, p, attr) ==
    LET a == sched_copy_attr(attr)
    IN  Call(c, p, IF a.keep THEN get_params(p, a) ELSE a)

\* UINT_MAX is the user's -1.
uclamp_reset(a, id, req) == (~HasClamp(a) /\ ~req.user) \/ a.clamp[id] = UINT_MAX

__setscheduler_uclamp(t, a) ==
    [t EXCEPT !.req = [id \in ClampIds |->
        IF a.clamp[id] \notin {NoClamp, UINT_MAX} THEN [value |-> a.clamp[id], user |-> TRUE]
        ELSE IF ~uclamp_reset(a, id, t.req[id]) THEN t.req[id]
        ELSE [value |-> IF rt_prio(t.prio) /\ id = "MIN" THEN util_min_rt_default
                        ELSE uclamp_none(id),
              user |-> FALSE]]]

\* A policy of "keep" is resolved again here, with the lock held.
__setscheduler_params(t, a) ==
    LET new == [t EXCEPT !.policy = IF a.policy = "keep" THEN @ ELSE a.policy,
                         !.rt_priority = a.prio]
        set == IF new.policy = "NORMAL" THEN [new EXCEPT !.static_prio = NICE_TO_PRIO(a.nice)]
               ELSE new
    IN  [set EXCEPT !.normal_prio = normal_prio(set)]

__rt_effective_prio(donor, prio) ==
    IF donor # None /\ task[donor].prio < prio THEN task[donor].prio ELSE prio

Unchanged(t, k) ==
    /\ k.policy = t.policy
    /\ ~HasClamp(k.attr)
    /\ IF k.policy = "NORMAL" THEN k.attr.nice = PRIO_TO_NICE(t.static_prio)
       ELSE k.attr.prio = t.rt_priority

Never_Stale(t, k) == FALSE

\* The policy a SETPARAM call read without the lock is no longer the task's.
Stale(t, k) == k.old # None /\ k.old # t.policy

OwnPrio_Changed(p, k) ==
    LET t == [task[p] EXCEPT !.reset_on_fork = k.reset]
        newprio == __normal_prio(k.policy, k.attr.prio, k.attr.nice)
        set == IF k.attr.keep THEN t
               ELSE [__setscheduler_params(t, k.attr) EXCEPT !.prio = newprio]
    IN  __setscheduler_uclamp(set, k.attr)

Changed(p, k) ==
    LET t == [task[p] EXCEPT !.reset_on_fork = k.reset]
        newprio == __rt_effective_prio(pi_top_task[p],
                                       __normal_prio(k.policy, k.attr.prio, k.attr.nice))
        set == IF k.attr.keep THEN t
               ELSE [__setscheduler_params(t, k.attr) EXCEPT !.prio = newprio]
    IN  __setscheduler_uclamp(set, k.attr)

\* The part of __sched_setscheduler() under p->pi_lock and rq->lock.
SetLocked(c) ==
    LET k == caller[c]
        p == k.task
        t == task[p]
    IN  /\ k.pc = "lock"
        /\ \/ /\ Unchanged(t, k)
              /\ task' = [task EXCEPT ![p].reset_on_fork = k.reset]
              /\ caller' = [caller EXCEPT ![c] = NotCalling]
              /\ UNCHANGED <<touched, urq, used>>
           \/ /\ ~Unchanged(t, k) /\ Stale(t, k)
              /\ Recheck(c, p, k.attr, "keep")
              /\ UNCHANGED <<task, touched, urq>>
           \/ /\ ~Unchanged(t, k) /\ ~Stale(t, k)
              /\ Change(p, Changed(p, k))
              /\ touched' = [touched EXCEPT ![p] = @ \cup
                     (IF k.attr.keep THEN {} ELSE {"params"}) \cup
                     (IF HasClamp(k.attr) THEN {"clamps"} ELSE {}) \cup Excess(Changed(p, k))]
              /\ caller' = [caller EXCEPT ![c] = [pc |-> "adjust", task |-> p]]
              /\ UNCHANGED used
        /\ UNCHANGED <<may, uclamp_default, util_min_rt_default, sync, pi_top_task>>

-----------------------------------------------------------------------------
(* Priority inheritance, set_user_nice() and the sysctl.                   *)

Setprio(p, donor, prio) ==
    /\ pi_top_task' = [pi_top_task EXCEPT ![p] = donor]
    /\ IF prio = task[p].prio THEN UNCHANGED <<task, urq>>
       ELSE Change(p, [task[p] EXCEPT !.prio = prio])

rt_mutex_setprio(p, donor) ==
    /\ Setprio(p, donor, __rt_effective_prio(donor, task[p].normal_prio))
    /\ UNCHANGED <<may, used, uclamp_default, util_min_rt_default, sync>>

\* kernel/locking/rtmutex.c: q waits for a lock p holds; p releases it; the
\* last call of __sched_setscheduler().
rt_mutex_lock(q, p) ==
    /\ may.boost /\ {p, q} \subseteq Alive /\ p # q
    /\ pi_top_task[p] = None /\ pi_top_task[q] = None /\ ~Blocked(p) /\ ~Blocked(q)
    /\ task[q].queued
    /\ rt_mutex_setprio(p, q)
    /\ touched' = [touched EXCEPT ![p] = @ \cup {"boost"}]
    /\ UNCHANGED caller

rt_mutex_unlock(p) ==
    /\ pi_top_task[p] # None
    /\ rt_mutex_setprio(p, None)
    /\ UNCHANGED <<touched, caller>>

rt_mutex_adjust_pi(c) ==
    LET q == caller[c].task
    IN  /\ caller[c].pc = "adjust"
        /\ caller' = [caller EXCEPT ![c] = NotCalling]
        /\ IF Blocked(q) THEN rt_mutex_setprio(CHOOSE p \in Task : pi_top_task[p] = q, q)
           ELSE UNCHANGED <<may, task, clampVars, pi_top_task>>
        /\ UNCHANGED touched

set_user_nice(p, nice) ==
    LET t == [task[p] EXCEPT !.static_prio = NICE_TO_PRIO(nice)]
    IN  /\ p \in Linked /\ nice \in may.nice /\ t # task[p]
        /\ IF t.policy = "FIFO" THEN task' = [task EXCEPT ![p] = t] /\ UNCHANGED urq
           ELSE Change(p, [t EXCEPT !.normal_prio = normal_prio(t), !.prio = effective_prio(t)])
        /\ UNCHANGED <<may, touched, used, uclamp_default, util_min_rt_default, sync, caller,
                       pi_top_task>>

\* sysctl_sched_uclamp_handler(), under uclamp_mutex: a new default for all
\* tasks reaches each of them at its next enqueue.
sysctl_sched_uclamp_default(id, v) ==
    /\ sync.pc = "idle" /\ v # uclamp_default[id]
    /\ uclamp_default' = [uclamp_default EXCEPT ![id] = v]
    /\ uclamp_default'["MIN"] <= uclamp_default'["MAX"]
    /\ uclamp_default'["MAX"] <= SCHED_CAPACITY_SCALE
    /\ used' = TRUE
    /\ UNCHANGED <<may, task, touched, urq, util_min_rt_default, sync, caller, pi_top_task>>

\* A new default for real-time tasks is stored first, where everybody sees it,
\* then looked at: one out of range is undone ...
sysctl_sched_uclamp_handler(v) ==
    /\ sync.pc = "idle" /\ v \in may.sysctl /\ v # util_min_rt_default
    /\ util_min_rt_default' = v
    /\ sync' = [pc |-> "check", old |-> util_min_rt_default]
    /\ UNCHANGED <<may, task, touched, urq, used, uclamp_default, caller, pi_top_task>>

CheckDefault ==
    /\ sync.pc = "check"
    /\ IF util_min_rt_default > SCHED_CAPACITY_SCALE
       THEN util_min_rt_default' = sync.old /\ sync' = [pc |-> "idle"] /\ UNCHANGED used
       ELSE sync' = [pc |-> "lock"] /\ used' = TRUE /\ UNCHANGED util_min_rt_default
    /\ UNCHANGED <<may, task, touched, urq, uclamp_default, caller, pi_top_task>>

Alive_uclamp_sync_util_min_rt_default ==
    /\ sync.pc = "lock"
    /\ sync' = [pc |-> "loop", todo |-> Alive]
    /\ UNCHANGED <<may, task, touched, urq, used, uclamp_default, util_min_rt_default, caller,
                   pi_top_task>>

\* ... for another one tasklist_lock is taken and released: the loop to come visits
\* every task linked by now.
uclamp_sync_util_min_rt_default ==
    /\ sync.pc = "lock"
    /\ sync' = [pc |-> "loop", todo |-> Linked]
    /\ UNCHANGED <<may, task, touched, urq, used, uclamp_default, util_min_rt_default, caller,
                   pi_top_task>>

\* uclamp_update_util_min_rt_default() tests rt_task() before it locks.
TestRt(p) ==
    /\ sync.pc = "loop" /\ p \in sync.todo
    /\ sync' = IF rt_task(p) THEN [pc |-> "update", todo |-> sync.todo \ {p}, task |-> p]
               ELSE [sync EXCEPT !.todo = @ \ {p}]
    /\ UNCHANGED <<may, task, touched, urq, used, uclamp_default, util_min_rt_default, caller,
                   pi_top_task>>

UpdateRt ==
    /\ sync.pc = "update"
    /\ task' = [task EXCEPT ![sync.task] = WithRtDefault(@)]
    /\ sync' = [pc |-> "loop", todo |-> sync.todo]
    /\ UNCHANGED <<may, touched, urq, used, uclamp_default, util_min_rt_default, caller,
                   pi_top_task>>

SyncDone ==
    /\ sync.pc = "loop" /\ sync.todo = {}
    /\ sync' = [pc |-> "idle"]
    /\ UNCHANGED <<may, task, touched, urq, used, uclamp_default, util_min_rt_default, caller,
                   pi_top_task>>

-----------------------------------------------------------------------------

\* init_task, and a free task_struct.
FirstTask(life, queued) ==
    [life |-> life, policy |-> "NORMAL", static_prio |-> NICE_TO_PRIO(0), rt_priority |-> 0,
     normal_prio |-> NICE_TO_PRIO(0), prio |-> NICE_TO_PRIO(0), reset_on_fork |-> FALSE,
     queued |-> queued, active |-> FALSE,
     req |-> [id \in ClampIds |-> [value |-> uclamp_none(id), user |-> FALSE]],
     eff |-> [id \in ClampIds |-> uclamp_none(id)]]

Init ==
    /\ may \in Scenarios
    /\ task = [p \in Task |-> IF p = init_task THEN FirstTask("alive", TRUE)
                              ELSE FirstTask("none", FALSE)]
    /\ touched = [p \in Task |-> {}]
    /\ urq = init_uclamp_rq
    /\ used = FALSE
    /\ uclamp_default = [id \in ClampIds |-> SCHED_CAPACITY_SCALE]
    /\ util_min_rt_default = SCHED_CAPACITY_SCALE
    /\ sync = [pc |-> "idle"]
    /\ caller = [c \in Caller |-> NotCalling]
    /\ pi_top_task = [p \in Task |-> None]

ForkStep(p) ==
    \/ \E child \in Task : sched_fork(p, child)
    \/ link(p)
    \/ sched_post_fork(p)
    \/ wake_up_new_task(p)

SysctlStep ==
    \/ \E id \in ClampIds, v \in may.defaults : sysctl_sched_uclamp_default(id, v)
    \/ \E v \in may.sysctl : sysctl_sched_uclamp_handler(v)
    \/ CheckDefault
    \/ uclamp_sync_util_min_rt_default
    \/ \E p \in Task : TestRt(p)
    \/ UpdateRt
    \/ SyncDone

Next ==
    \/ \E p \in Task : Sleep(p) \/ Wake(p) \/ ForkStep(p) \/ rt_mutex_unlock(p)
    \/ \E c \in Caller, p \in Task : \E a \in may.attrs :
           sched_setscheduler(c, p, a) \/ sched_setparam(c, p, a) \/ sched_setattr(c, p, a)
    \/ \E c \in Caller, p \in Task :
           \/ sched_set_fifo(c, p) \/ sched_set_fifo_low(c, p)
           \/ \E nice \in may.nice : sched_set_normal(c, p, nice)
    \/ \E c \in Caller : SetLocked(c) \/ rt_mutex_adjust_pi(c)
    \/ \E q, p \in Task : rt_mutex_lock(q, p)
    \/ \E p \in Task, nice \in -MAX_NICE .. MAX_NICE : set_user_nice(p, nice)
    \/ SysctlStep

Spec == Init /\ [][Next]_vars

-----------------------------------------------------------------------------
(* Properties.                                                             *)

Active == {p \in Task : task[p].active}

\* The buckets count exactly the tasks that were charged to them, at the clamp
\* they were charged with, whatever happened to their request, to the defaults
\* and to the static key in between; each of them is queued, and the runqueue is
\* marked idle when there is none.  The runqueue's clamp is that of its top
\* bucket, at least that of every task (what the SCHED_WARN_ONs of
\* uclamp_rq_dec_id() are about), as long as no task was given a clamp out of
\* range: uclamp_validate() lets some through, and then bucket and value differ.
UClampExact ==
    /\ \A id \in ClampIds, b \in BucketIds : urq.bucket[id][b].tasks =
           Cardinality({p \in Active : uclamp_bucket_id(task[p].eff[id]) = b})
    /\ \A p \in Active : task[p].queued
    /\ urq.idle <=> Active = {}
    /\ (\A p \in Task : "excess" \notin touched[p]) =>
           \A id \in ClampIds :
               /\ \A p \in Active : task[p].eff[id] <= urq.value[id]
               /\ Active # {} => urq.value[id] = urq.bucket[id][Max(Occupied(urq, id))].value

\* Once sysctl_sched_uclamp_handler() is done every real-time task with no
\* clamp and no boost of its own has the current default, forked before,
\* during or after the loop (the comment in uclamp_sync_util_min_rt_default()),
\* unless it was forked or reset while a default out of range was stored that
\* the handler then took back: such a task keeps that value.
RtDefaultSynced ==
    sync.pc = "idle" =>
        \A p \in Task :
            (task[p].life \in {"posted", "alive"} /\ task[p].policy = "FIFO"
             /\ touched[p] \cap {"clamps", "boost"} = {} /\ ~task[p].req["MIN"].user)
            => \/ task[p].req["MIN"].value = util_min_rt_default
               \/ task[p].req["MIN"].value > SCHED_CAPACITY_SCALE

\* The fields a system call sets agree: a task has an rt_priority exactly when
\* its policy is real-time, even if sched_setparam() and sched_setscheduler()
\* race on it (the recheck of __sched_setscheduler()), and unless a waiter lends
\* it a priority it runs at the one its policy, rt_priority and nice value say:
\* a change made while the task was boosted is not lost.
ParamsAgree ==
    \A p \in Linked :
        /\ (task[p].policy = "FIFO") <=> (task[p].rt_priority # 0)
        /\ "params" \in touched[p] =>
               /\ task[p].normal_prio = normal_prio(task[p])
               /\ pi_top_task[p] = None => task[p].prio = task[p].normal_prio

\* The owner of a lock never runs below a real-time waiter, whoever's
\* parameters change, except between __sched_setscheduler()'s unlock and its
\* call of rt_mutex_adjust_pi() for that waiter.
BoostKept ==
    \A p \in Alive : pi_top_task[p] # None =>
        LET q == pi_top_task[p]
        IN  (~\E c \in Caller : caller[c].pc = "adjust" /\ caller[c].task = q) /\ rt_task(q)
            => task[p].prio <= task[q].prio

=============================================================================
