----------------------------- MODULE RunQueues -----------------------------
(***************************************************************************)
(* Tasks, runqueues and CPUs, kernel/sched/core.c: __schedule() against    *)
(* try_to_wake_up(), wake lists, set_cpus_allowed_ptr() with its pending   *)
(* completions and the CPU stopper, sched_setaffinity() against a cpuset,  *)
(* migrate_swap(), migrate_disable(), and CPU hotplug.                     *)
(*                                                                         *)
(* Locks.  p->pi_lock is held across steps only by a wake-up of p          *)
(* (waking[p] # "no"), rq->lock only by a CPU in the middle of             *)
(* __schedule() (prev[c] # None); every other locked section is one step   *)
(* that is enabled when the locks it takes are free.                       *)
(***************************************************************************)
EXTENDS Naturals, Sequences, FiniteSets

CONSTANTS
    Task,        \* ordinary tasks
    CPU,
    Setter,      \* callers of sched_setaffinity() and writers of cpusets
    Masks,       \* the masks they ask for
    Scenarios    \* what may happen in a behaviour, see Init

ASSUME RunQueuesAssumption ==
    /\ Task \cap CPU = {} /\ Task \cap Setter = {}
    /\ (Task \cup CPU) \cap {"none", "idle", "stop"} = {}
    /\ \A p \in Task : <<p>> \notin Task \cup Setter    \* the members of rcu
    /\ CPU # {} /\ Masks \subseteq (SUBSET CPU) \ {{}}

VARIABLES
    may,          \* the scenario
    state,        \* p->__state: "RUNNING", "SLEEP", "WAKING"
    on_rq,        \* p->on_rq: "no", "QUEUED", "MIGRATING"
    on_cpu,       \* p->on_cpu
    cpu,          \* task_cpu(p)
    cpus_mask,    \* p->cpus_mask
    pinned,       \* the CPU p->cpus_ptr is confined to, or None: cpus_mask
    disabled,     \* p->migration_disabled, the depth of the nested regions
    todo,         \* where the task is in its own code
    cond,         \* the CONDITION a sleeping task waits for
    waking,       \* where try_to_wake_up(p) is
    rq,           \* tasks in the queue of each CPU
    curr,         \* rq->curr: a task, Idle or Stop
    prev,         \* the task a CPU is switching from, or None
    wakelist,     \* tasks queued by __ttwu_queue_wakelist()
    works,        \* stopper works of each CPU
    flushed,      \* the stopper has flushed the wake list for its first work
    pending,      \* p->migration_pending: the Setter that installed it, or None
    pend,         \* struct set_affinity_pending of each Setter
    setter,       \* where each Setter is
    cpuset,       \* what cpuset_cpus_allowed(p) returns
    active, online,  \* cpu_active_mask, cpu_online_mask
    hotplug,      \* where the hot-unplug of each CPU is
    rcu           \* preempt-disabled sections synchronize_rcu() waits for

taskVars == <<state, on_rq, on_cpu, cpu, rq>>
maskVars == <<cpus_mask, pinned, disabled>>
cpuVars == <<curr, prev, wakelist, works, flushed>>
setVars == <<pending, pend, setter, cpuset>>
hotVars == <<active, online, hotplug, rcu>>
vars == <<may, taskVars, maskVars, todo, cond, waking, cpuVars, setVars, hotVars>>

None == "none"
Idle == "idle"
Stop == "stop"

NotSetting == [pc |-> "idle", task |-> None, mask |-> {}, check |-> FALSE, on |-> None,
               cpu |-> None]
NoPending == [task |-> None, dest |-> None, stop |-> FALSE, refs |-> 0, done |-> FALSE]

PiFree(p) == waking[p] = "no"
RqFree(c) == prev[c] = None
TaskRqFree(p) == RqFree(cpu[p]) /\ on_rq[p] # "MIGRATING"  \* __task_rq_lock()

is_migration_disabled(p) == disabled[p] > 0

cpus_ptr(p) == IF pinned[p] = None THEN cpus_mask[p] ELSE {pinned[p]}

\* Ordinary (not kernel) tasks only.
is_cpu_allowed(p, c) ==
    c \in cpus_ptr(p) /\ c \in IF is_migration_disabled(p) THEN online ELSE active

\* Whoever moves a task says so here; nothing moves it out of a queue.
set_task_cpu(p, c) == cpu' = [cpu EXCEPT ![p] = c]

\* rq_has_pinned_tasks(): rq->nr_pinned counts the tasks that called
\* migrate_disable() on c and not yet migrate_enable().
rq_has_pinned_tasks(c) == \E p \in Task : is_migration_disabled(p) /\ cpu[p] = c

-----------------------------------------------------------------------------
(* The task on a CPU: a wait loop                                          *)
(*   for (;;) { set_current_state(SLEEP); if (cond) break; schedule(); }   *)
(* and migrate-disabled regions.                                           *)

Runs(p, c) == curr[c] = p /\ RqFree(c)

\* preempt_disable() around the end of migrate_enable().
Preemptible(c) == \A p \in Task : curr[c] = p => todo[p] # "enable"

SetState(p) ==
    /\ \E c \in CPU : Runs(p, c)
    /\ todo[p] = "work" /\ p \in may.sleep
    /\ state' = [state EXCEPT ![p] = "SLEEP"]
    /\ todo' = [todo EXCEPT ![p] = "check"]
    /\ UNCHANGED <<may, on_rq, on_cpu, cpu, rq, maskVars, cond, waking, cpuVars,
                   setVars, hotVars>>

CheckCondition(p) ==
    /\ \E c \in CPU : Runs(p, c)
    /\ todo[p] = "check"
    /\ IF cond[p]
       THEN /\ state' = [state EXCEPT ![p] = "RUNNING"]
            /\ cond' = [cond EXCEPT ![p] = FALSE]
            /\ todo' = [todo EXCEPT ![p] = "work"]
       ELSE /\ todo' = [todo EXCEPT ![p] = "schedule"]
            /\ UNCHANGED <<state, cond>>
    /\ UNCHANGED <<may, on_rq, on_cpu, cpu, rq, maskVars, waking, cpuVars,
                   setVars, hotVars>>

\* may.nesting bounds the depth.
migrate_disable(p) ==
    /\ \E c \in CPU : Runs(p, c)
    /\ todo[p] = "work" /\ p \in may.disable /\ disabled[p] < may.nesting
    /\ disabled' = [disabled EXCEPT ![p] = @ + 1]
    /\ UNCHANGED <<may, taskVars, cpus_mask, pinned, todo, cond, waking, cpuVars,
                   setVars, hotVars>>

-----------------------------------------------------------------------------
(* __schedule().                                                           *)

\* The stop class, then any queued task, then idle.
pick_next_task(c, queue) ==
    IF works[c] # <<>> THEN {Stop} ELSE IF queue # {} THEN queue ELSE {Idle}

\* balance_push() on a CPU going down, run after every pick: an ordinary task
\* is sent away by the stopper, unless it must stay for now.
balance_push(c, p) ==
    IF hotplug[c] \in {"deactivated", "synced", "empty"} /\ p \in Task /\ ~is_migration_disabled(p)
    THEN Append(works[c], [fn |-> "push", task |-> p]) ELSE works[c]

StaleState_Deactivates(p) == todo[p] = "schedule"

\* p->__state is read again under rq->lock; a preempted task stays queued.
Deactivates(p) == todo[p] = "schedule" /\ state[p] # "RUNNING"

NotPinned_migrate_disable_switch(p, c) == pinned

migrate_disable_switch(p, c) ==
    IF is_migration_disabled(p) /\ pinned[p] = None THEN [pinned EXCEPT ![p] = c] ELSE pinned

prepare_task(next) == IF next \in Task THEN [on_cpu EXCEPT ![next] = TRUE] ELSE on_cpu
finish_task(p) == IF p \in Task THEN [on_cpu EXCEPT ![p] = FALSE] ELSE on_cpu

\* rq_lock() to prepare_task(): a task that asked to sleep is taken off the
\* queue, another one becomes rq->curr and on_cpu, and the one that leaves is
\* confined to its CPU if it may not migrate.
schedule(c) ==
    LET p == curr[c]
        sleeps == p \in Task /\ Deactivates(p)
        queue == IF sleeps THEN rq[c] \ {p} ELSE rq[c]
    IN  /\ c \in online /\ RqFree(c) /\ Preemptible(c)
        /\ todo' = IF p \in Task /\ todo[p] = "schedule"
                   THEN [todo EXCEPT ![p] = "again"] ELSE todo
        /\ rq' = [rq EXCEPT ![c] = queue]
        /\ on_rq' = IF sleeps THEN [on_rq EXCEPT ![p] = "no"] ELSE on_rq
        /\ \E next \in pick_next_task(c, queue) :
             /\ curr' = [curr EXCEPT ![c] = next]
             /\ prev' = [prev EXCEPT ![c] = IF next = p THEN None ELSE p]
             /\ on_cpu' = prepare_task(next)
             /\ pinned' = IF next # p /\ p \in Task THEN migrate_disable_switch(p, c) ELSE pinned
             /\ works' = IF next = p THEN [works EXCEPT ![c] = balance_push(c, p)] ELSE works
             /\ next # p \/ todo' # todo \/ works' # works
        /\ UNCHANGED <<may, state, cpu, cpus_mask, disabled, cond, waking, wakelist,
                       flushed, setVars, hotVars>>

\* finish_task_switch(): the old task may be taken by another CPU from now on;
\* rq->lock is released after the balance callbacks.
finish_task_switch(c) ==
    LET p == prev[c] IN
    /\ p # None
    /\ on_cpu' = finish_task(p)
    /\ prev' = [prev EXCEPT ![c] = None]
    /\ works' = [works EXCEPT ![c] = balance_push(c, curr[c])]
    /\ UNCHANGED <<may, state, on_rq, cpu, rq, maskVars, todo, cond, waking, curr,
                   wakelist, flushed, setVars, hotVars>>

\* Back from schedule(): round the wait loop.
Resume(p) ==
    /\ \E c \in CPU : Runs(p, c)
    /\ todo[p] = "again"
    /\ state' = [state EXCEPT ![p] = "SLEEP"]
    /\ todo' = [todo EXCEPT ![p] = "check"]
    /\ UNCHANGED <<may, on_rq, on_cpu, cpu, rq, maskVars, cond, waking, cpuVars,
                   setVars, hotVars>>

-----------------------------------------------------------------------------
(* try_to_wake_up(p).  It holds p->pi_lock from Match on and is one of the *)
(* preempt-disabled sections synchronize_rcu() waits for.                  *)

Unlock(p) ==
    /\ waking' = [waking EXCEPT ![p] = "no"]
    /\ rcu' = rcu \ {p}

\* CONDITION = 1, then the wake-up begins.
Wake(p) ==
    /\ p \in may.wake /\ PiFree(p)
    /\ cond' = [cond EXCEPT ![p] = TRUE]
    /\ waking' = [waking EXCEPT ![p] = "match"]
    /\ UNCHANGED <<may, taskVars, maskVars, todo, cpuVars, setVars, hotVars>>

\* An interrupt wakes the task it interrupted, p == current: without a lock.
WakeCurrent(p) ==
    /\ p \in may.wake /\ \E c \in CPU : Runs(p, c)
    /\ cond' = [cond EXCEPT ![p] = TRUE]
    /\ state' = [state EXCEPT ![p] = IF @ = "SLEEP" THEN "RUNNING" ELSE @]
    /\ UNCHANGED <<may, on_rq, on_cpu, cpu, rq, maskVars, todo, waking, cpuVars, setVars,
                   hotVars>>

ttwu_state_match(p) ==
    /\ waking[p] = "match"
    /\ IF state[p] = "SLEEP"
       THEN waking' = [waking EXCEPT ![p] = "on_rq"] /\ UNCHANGED rcu
       ELSE Unlock(p)
    /\ UNCHANGED <<may, taskVars, maskVars, todo, cond, cpuVars, setVars, active,
                   online, hotplug>>

\* p->on_rq is read without the lock; if set, __task_rq_lock() and look again.
\* A task that is no longer queued is marked TASK_WAKING.
ttwu_runnable(p) ==
    /\ waking[p] = "on_rq"
    /\ on_rq[p] = "no" \/ TaskRqFree(p)
    /\ IF on_rq[p] = "QUEUED"
       THEN state' = [state EXCEPT ![p] = "RUNNING"] /\ Unlock(p)
       ELSE /\ state' = [state EXCEPT ![p] = "WAKING"]
            /\ waking' = [waking EXCEPT ![p] = "on_cpu"]
            /\ UNCHANGED rcu
    /\ UNCHANGED <<may, on_rq, on_cpu, cpu, rq, maskVars, todo, cond, cpuVars,
                   setVars, active, online, hotplug>>

\* The rest of the condition is about speed: a shared cache, an idle CPU.
ttwu_queue_cond(p, c) == c \in active /\ c \in cpus_ptr(p)

ttwu_queue_wakelist(p, c) ==
    /\ ttwu_queue_cond(p, c)
    /\ wakelist' = [wakelist EXCEPT ![c] = @ \cup {p}]
    /\ Unlock(p)
    /\ UNCHANGED <<may, taskVars, maskVars, todo, cond, curr, prev, works, flushed,
                   setVars, active, online, hotplug>>

Elsewhere_WakeDescheduling(p) ==
    waking[p] = "on_cpu" /\ on_cpu[p] /\ \E c \in CPU : ttwu_queue_wakelist(p, c)

\* Still on its CPU, in the middle of __schedule(): leave it to that CPU.
WakeDescheduling(p) ==
    waking[p] = "on_cpu" /\ on_cpu[p] /\ ttwu_queue_wakelist(p, cpu[p])

\* select_fallback_rq(): an allowed CPU, or the mask is widened to the cpuset
\* (cpuset_cpus_allowed_fallback(), external, may decline), or to any CPU.
FallbackMasks(p) ==
    IF \E c \in CPU : is_cpu_allowed(p, c) THEN {cpus_mask[p]}
    ELSE {CPU} \cup {mask \in {cpuset[p]} : mask \cap active # {}}

\* A wider mask is no use to a task whose cpus_ptr is not its mask: BUG(), and
\* there is no step from there.
select_fallback_rq(p, mask) ==
    IF \E c \in CPU : is_cpu_allowed(p, c)
    THEN {c \in CPU : is_cpu_allowed(p, c)}
    ELSE IF pinned[p] = None THEN mask \cap active ELSE {}

NoWait_select_task_rq(p) ==
    /\ waking[p] = "on_cpu"
    /\ \E mask \in FallbackMasks(p) :
         /\ \E c \in select_fallback_rq(p, mask) : set_task_cpu(p, c)
         /\ cpus_mask' = [cpus_mask EXCEPT ![p] = mask]
    /\ waking' = [waking EXCEPT ![p] = "queue"]
    /\ UNCHANGED <<may, state, on_rq, on_cpu, rq, pinned, disabled, todo, cond,
                   cpuVars, setVars, hotVars>>

\* Off its CPU: choose one (whatever ->select_task_rq() says, the result is an
\* allowed CPU) and set_task_cpu().
select_task_rq(p) ==
    /\ waking[p] = "on_cpu" /\ ~on_cpu[p]
    /\ \E mask \in FallbackMasks(p) :
         /\ \E c \in select_fallback_rq(p, mask) : set_task_cpu(p, c)
         /\ cpus_mask' = [cpus_mask EXCEPT ![p] = mask]
    /\ waking' = [waking EXCEPT ![p] = "queue"]
    /\ UNCHANGED <<may, state, on_rq, on_cpu, rq, pinned, disabled, todo, cond,
                   cpuVars, setVars, hotVars>>

\* ttwu_do_activate() of a set of tasks.
Activate(c, P) ==
    /\ rq' = [rq EXCEPT ![c] = @ \cup P]
    /\ on_rq' = [p \in Task |-> IF p \in P THEN "QUEUED" ELSE on_rq[p]]
    /\ state' = [p \in Task |-> IF p \in P THEN "RUNNING" ELSE state[p]]
    /\ cpu' = [p \in Task |-> IF p \in P THEN c ELSE cpu[p]]

ttwu_queue(p) ==
    /\ waking[p] = "queue"
    /\ \/ ttwu_queue_wakelist(p, cpu[p])
       \/ /\ RqFree(cpu[p])
          /\ Activate(cpu[p], {p})
          /\ Unlock(p)
          /\ UNCHANGED <<may, on_cpu, maskVars, todo, cond, cpuVars, setVars,
                         active, online, hotplug>>

\* The IPI, when the CPU has interrupts enabled.
sched_ttwu_pending(c) ==
    /\ c \in online /\ RqFree(c) /\ wakelist[c] # {}
    /\ Activate(c, wakelist[c])
    /\ wakelist' = [wakelist EXCEPT ![c] = {}]
    /\ UNCHANGED <<may, on_cpu, maskVars, todo, cond, waking, curr, prev, works,
                   flushed, setVars, hotVars>>

-----------------------------------------------------------------------------
(* Migration of queued tasks.                                              *)

Copy_move_queued_task(p, dest) ==
    /\ set_task_cpu(p, dest)
    /\ rq' = [rq EXCEPT ![dest] = @ \cup {p}]

\* move_queued_task(): off one queue and onto the other.  p->pi_lock is held,
\* so nothing sees p between the two.
move_queued_task(p, dest) ==
    /\ set_task_cpu(p, dest)
    /\ rq' = [rq EXCEPT ![cpu[p]] = @ \ {p}, ![dest] = @ \cup {p}]

\* The load balancer (kernel/sched/fair.c) detaches a queued task that does not
\* run under one rq->lock and attaches it under the other, without p->pi_lock.
detach_task(p, dest) ==
    /\ may.balance /\ on_rq[p] = "QUEUED" /\ ~on_cpu[p] /\ RqFree(cpu[p])
    /\ dest # cpu[p] /\ dest \in cpus_ptr(p) \cap active
    /\ rq' = [rq EXCEPT ![cpu[p]] = @ \ {p}]
    /\ on_rq' = [on_rq EXCEPT ![p] = "MIGRATING"]
    /\ set_task_cpu(p, dest)
    /\ UNCHANGED <<may, state, on_cpu, maskVars, todo, cond, waking, cpuVars, setVars,
                   hotVars>>

attach_task(p) ==
    /\ on_rq[p] = "MIGRATING" /\ RqFree(cpu[p])
    /\ rq' = [rq EXCEPT ![cpu[p]] = @ \cup {p}]
    /\ on_rq' = [on_rq EXCEPT ![p] = "QUEUED"]
    /\ rcu' = rcu \ {<<p>>}
    /\ UNCHANGED <<may, state, on_cpu, cpu, maskVars, todo, cond, waking, cpuVars,
                   setVars, active, online, hotplug>>

-----------------------------------------------------------------------------
(* set_cpus_allowed_ptr().  A caller that has to wait does so on the       *)
(* completion in pend[s] of the caller s that installed it.                *)

Stopping_NewPending(p, dest) == [task |-> p, dest |-> dest, stop |-> TRUE, refs |-> 1, done |-> FALSE]

NewPending(p, dest) == [task |-> p, dest |-> dest, stop |-> FALSE, refs |-> 1, done |-> FALSE]

\* A stop work that runs migration_cpu_stop() with the pending of s.
MigrateWork(s) == [fn |-> "migrate", owner |-> s]

\* stop_one_cpu_nowait(): nothing is queued if the stopper of c is gone.
stop_one_cpu_nowait(c, work) ==
    IF c \in online THEN [works EXCEPT ![c] = Append(@, work)] ELSE works

\* __set_cpus_allowed_ptr_locked() refuses a mask without a valid CPU and does
\* nothing for the mask the task has.
ValidMask(p) == IF is_migration_disabled(p) THEN online ELSE active

\* affine_move_task() when the task may stay where it is: release the waiters
\* unless a stopper is on its way to do it.
Stay(p) ==
    IF pending[p] # None /\ ~pend[pending[p]].stop
    THEN /\ pending' = [pending EXCEPT ![p] = None]
         /\ pend' = [pend EXCEPT ![pending[p]].done = TRUE]
    ELSE UNCHANGED <<pending, pend>>

RunningOnly_PuntToStopper(p) == on_cpu[p]

\* is_migration_disabled() cannot be trusted here: leave it to the stopper.
PuntToStopper(p) == on_cpu[p] \/ state[p] = "WAKING"

\* affine_move_task() when it has to leave: install a pending or join the one
\* there, then leave a running or waking task to the stopper and move any other.
Leave(s, p, dest) ==
    LET o == IF pending[p] = None THEN s ELSE pending[p]
        new == IF o = s THEN NewPending(p, dest)
               ELSE [pend[o] EXCEPT !.refs = @ + 1, !.dest = dest]
        stopper == PuntToStopper(p)
        moves == ~stopper /\ ~is_migration_disabled(p)
        completes == moves /\ ~new.stop
    IN  /\ moves /\ on_rq[p] = "QUEUED" => RqFree(dest)
        /\ pending' = [pending EXCEPT ![p] = IF completes THEN None ELSE o]
        /\ pend' = [pend EXCEPT ![o] =
                      [new EXCEPT !.done = completes, !.stop = @ \/ stopper]]
        /\ setter' = [setter EXCEPT ![s].pc = IF stopper /\ ~new.stop THEN "stop" ELSE "wait",
                                    ![s].on = o, ![s].cpu = cpu[p]]
        /\ IF moves /\ on_rq[p] = "QUEUED" THEN move_queued_task(p, dest)
                                          ELSE UNCHANGED <<cpu, rq>>

\* The call has returned: sched_setaffinity() goes on to look at the cpuset.
Returned(s) ==
    IF setter[s].check THEN [setter[s] EXCEPT !.pc = "recheck", !.on = None, !.cpu = None]
    ELSE NotSetting

__do_set_cpus_allowed(p, mask) == cpus_mask' = [cpus_mask EXCEPT ![p] = mask]

\* Nothing to do for the mask the task has, -EINVAL without a valid CPU.  The
\* caller is never p itself: -EBUSY, which warns of a task that changes its own
\* mask inside a migrate-disabled region, is left out.
set_cpus_allowed_ptr(s) ==
    LET p == setter[s].task
        mask == setter[s].mask
        valid == mask \cap ValidMask(p)
    IN  /\ setter[s].pc = "call" /\ PiFree(p) /\ TaskRqFree(p)
        /\ \/ /\ mask = cpus_mask[p] \/ valid = {}
              /\ setter' = [setter EXCEPT ![s] =
                              IF mask = cpus_mask[p] THEN Returned(s) ELSE NotSetting]
              /\ UNCHANGED <<cpus_mask, pending, pend, cpu, rq>>
           \/ /\ mask # cpus_mask[p] /\ valid # {}
              /\ __do_set_cpus_allowed(p, mask)
              /\ IF cpu[p] \in mask
                 THEN /\ Stay(p)
                      /\ setter' = [setter EXCEPT ![s] = Returned(s)]
                      /\ UNCHANGED <<cpu, rq>>
                 ELSE \E dest \in valid : Leave(s, p, dest)
        /\ UNCHANGED <<may, state, on_rq, on_cpu, pinned, disabled, todo, cond, waking,
                       cpuVars, cpuset, hotVars>>

\* __sched_setaffinity() reads the cpuset before the call ...
sched_setaffinity(s, p, mask) ==
    /\ setter[s].pc = "idle" /\ p \in may.affine[s]
    /\ setter' = [setter EXCEPT ![s] = [@ EXCEPT !.pc = "call", !.task = p, !.check = TRUE,
                                               !.mask = mask \cap cpuset[p]]]
    /\ UNCHANGED <<may, taskVars, maskVars, todo, cond, waking, cpuVars, pending, pend,
                   cpuset, hotVars>>

NoCheck_Recheck(s) ==
    /\ setter[s].pc = "recheck"
    /\ setter' = [setter EXCEPT ![s] = NotSetting]
    /\ UNCHANGED <<may, taskVars, maskVars, todo, cond, waking, cpuVars, pending, pend,
                   cpuset, hotVars>>

\* ... and after it, and calls again if the cpuset has changed in between.
Recheck(s) ==
    LET p == setter[s].task IN
    /\ setter[s].pc = "recheck"
    /\ setter' = [setter EXCEPT ![s] =
                    IF @.mask \subseteq cpuset[p] THEN NotSetting
                    ELSE [@ EXCEPT !.pc = "call", !.mask = cpuset[p]]]
    /\ UNCHANGED <<may, taskVars, maskVars, todo, cond, waking, cpuVars, pending, pend,
                   cpuset, hotVars>>

\* kernel/cgroup/cpuset.c: a new mask for the cpuset, then one call per task.
update_cpumask(s, p, mask) ==
    /\ setter[s].pc = "idle" /\ p \in may.cpuset[s] /\ mask # cpuset[p]
    /\ cpuset' = [cpuset EXCEPT ![p] = mask]
    /\ setter' = [setter EXCEPT ![s] = [@ EXCEPT !.pc = "call", !.task = p, !.mask = mask]]
    /\ UNCHANGED <<may, taskVars, maskVars, todo, cond, waking, cpuVars, pending, pend,
                   hotVars>>

\* After the locks are dropped: queue the stop work on the CPU seen under them.
QueueStop(s) ==
    /\ setter[s].pc = "stop"
    /\ works' = stop_one_cpu_nowait(setter[s].cpu, MigrateWork(setter[s].on))
    /\ setter' = [setter EXCEPT ![s].pc = "wait"]
    /\ rcu' = rcu \ {s}
    /\ UNCHANGED <<may, taskVars, maskVars, todo, cond, waking, curr, prev, wakelist,
                   flushed, pending, pend, cpuset, active, online, hotplug>>

\* wait_for_completion(), and drop the reference; one who joined then returns.
wait_for_completion(s) ==
    LET o == setter[s].on IN
    /\ setter[s].pc = "wait" /\ pend[o].done
    /\ pend' = [pend EXCEPT ![o].refs = @ - 1]
    /\ setter' = [setter EXCEPT ![s] =
                    IF o = s THEN [@ EXCEPT !.pc = "drain"] ELSE Returned(s)]
    /\ UNCHANGED <<may, taskVars, maskVars, todo, cond, waking, cpuVars, pending,
                   cpuset, hotVars>>

Early_wait_var_event(s) ==
    /\ setter[s].pc = "drain"
    /\ setter' = [setter EXCEPT ![s] = Returned(s)]
    /\ pend' = [pend EXCEPT ![s] = NoPending]
    /\ UNCHANGED <<may, taskVars, maskVars, todo, cond, waking, cpuVars, pending,
                   cpuset, hotVars>>

\* wait_var_event(): the owner stays until nobody refers to its pending.
wait_var_event(s) ==
    /\ setter[s].pc = "drain" /\ pend[s].refs = 0
    /\ setter' = [setter EXCEPT ![s] = Returned(s)]
    /\ pend' = [pend EXCEPT ![s] = NoPending]
    /\ UNCHANGED <<may, taskVars, maskVars, todo, cond, waking, cpuVars, pending,
                   cpuset, hotVars>>

\* migrate_enable() of an inner region only counts.
NestedEnable(p) ==
    /\ \E c \in CPU : Runs(p, c)
    /\ todo[p] = "work" /\ disabled[p] > 1
    /\ disabled' = [disabled EXCEPT ![p] = @ - 1]
    /\ UNCHANGED <<may, taskVars, cpus_mask, pinned, todo, cond, waking, cpuVars,
                   setVars, hotVars>>

\* migrate_enable() of the outermost, first half: with preemption disabled p->cpus_ptr goes back
\* to cpus_mask, by __set_cpus_allowed_ptr(SCA_MIGRATE_ENABLE).  The call fails
\* when no CPU of the mask is online, and nobody looks at its result.
migrate_enable(p, c) ==
    /\ Runs(p, c) /\ todo[p] = "work" /\ disabled[p] = 1
    /\ pinned[p] # None => PiFree(p)
    /\ todo' = [todo EXCEPT ![p] = "enable"]
    /\ IF pinned[p] = None \/ cpus_mask[p] \cap online = {}
       THEN UNCHANGED <<pinned, pending, pend, works>>
       ELSE /\ pinned' = [pinned EXCEPT ![p] = None]
            /\ IF c \in cpus_mask[p]
               THEN Stay(p) /\ UNCHANGED works
               ELSE IF pending[p] = None \/ pend[pending[p]].stop
               THEN UNCHANGED <<pending, pend, works>>
               ELSE /\ pend' = [pend EXCEPT ![pending[p]].stop = TRUE]
                    /\ works' = stop_one_cpu_nowait(c, MigrateWork(pending[p]))
                    /\ UNCHANGED pending
    /\ UNCHANGED <<may, taskVars, cpus_mask, disabled, cond, waking, curr, prev,
                   wakelist, flushed, setter, cpuset, hotVars>>

\* Second half: p->migration_disabled = 0, rq->nr_pinned--, preempt_enable().
MigrationEnabled(p) ==
    /\ todo[p] = "enable"
    /\ todo' = [todo EXCEPT ![p] = "work"]
    /\ disabled' = [disabled EXCEPT ![p] = 0]
    /\ UNCHANGED <<may, taskVars, cpus_mask, pinned, cond, waking, cpuVars, setVars,
                   hotVars>>

-----------------------------------------------------------------------------
(* The stopper thread of a CPU.                                            *)

Stopper(c, fn) ==
    /\ curr[c] = Stop /\ RqFree(c) /\ works[c] # <<>> /\ Head(works[c]).fn = fn

\* migration_cpu_stop() begins by taking in the tasks of the wake list.
flush_smp_call_function(c) ==
    /\ Stopper(c, "migrate") /\ ~flushed[c]
    /\ flushed' = [flushed EXCEPT ![c] = TRUE]
    /\ Activate(c, wakelist[c])
    /\ wakelist' = [wakelist EXCEPT ![c] = {}]
    /\ UNCHANGED <<may, on_cpu, maskVars, todo, cond, waking, curr, prev, works, setVars,
                   hotVars>>

\* A task that cannot migrate keeps its pending until migrate_enable().
MustStay(p, c) == cpu[p] = c /\ is_migration_disabled(p)

\* migration_cpu_stop() under p->pi_lock and rq->lock.
migration_cpu_stop(c) ==
    LET s == Head(works[c]).owner
        p == pend[s].task
        here == cpu[p] = c
        stays == MustStay(p, c)
        chase == ~here /\ cpu[p] \notin cpus_ptr(p)
        completes == ~stays /\ ~chase
        migrates == /\ here /\ ~stays /\ c \notin cpus_mask[p]
                    /\ on_rq[p] = "QUEUED" /\ is_cpu_allowed(p, pend[s].dest)
        popped == [works EXCEPT ![c] = Tail(@)]
    IN  /\ Stopper(c, "migrate") /\ flushed[c] /\ PiFree(p)
        /\ migrates => RqFree(pend[s].dest)
        /\ flushed' = [flushed EXCEPT ![c] = FALSE]
        /\ pending' = IF completes THEN [pending EXCEPT ![p] = None] ELSE pending
        /\ pend' = [pend EXCEPT ![s].done = @ \/ completes, ![s].stop = chase]
        /\ works' = IF chase /\ cpu[p] \in online
                    THEN [popped EXCEPT ![cpu[p]] = Append(@, MigrateWork(s))] ELSE popped
        /\ IF migrates THEN move_queued_task(p, pend[s].dest) ELSE UNCHANGED <<cpu, rq>>
        /\ UNCHANGED <<may, state, on_rq, on_cpu, maskVars, todo, cond, waking, curr, prev,
                       wakelist, setter, cpuset, hotVars>>

\* NUMA balancing: p, on CPU c, asks to change places with q, and sleeps until
\* both stoppers are done.  The tests take no lock.
migrate_swap(p, q, c) ==
    LET work == [fn |-> "swap", src_task |-> p, dst_task |-> q, src_cpu |-> c, dst_cpu |-> cpu[q]]
    IN  /\ Runs(p, c) /\ todo[p] = "work" /\ p \in may.swap /\ p # q
        /\ c # cpu[q] /\ {c, cpu[q]} \subseteq active
        /\ cpu[q] \in cpus_ptr(p) /\ c \in cpus_ptr(q)
        /\ works' = [d \in CPU |-> IF d \in {c, cpu[q]} THEN Append(works[d], work) ELSE works[d]]
        /\ cond' = [cond EXCEPT ![p] = FALSE]
        /\ state' = [state EXCEPT ![p] = "SLEEP"]
        /\ todo' = [todo EXCEPT ![p] = "check"]
        /\ UNCHANGED <<may, on_rq, on_cpu, cpu, rq, maskVars, waking, curr, prev, wakelist,
                       flushed, setVars, hotVars>>

\* A task that sleeps only gets another p->wake_cpu, a hint.
__migrate_swap_task(queues, p, c) ==
    IF on_rq[p] = "QUEUED"
    THEN [queues EXCEPT ![cpu[p]] = @ \ {p}, ![c] = @ \cup {p}] ELSE queues

\* migrate_swap_stop(), while the stoppers of both CPUs are in stop_two_cpus(),
\* with all four locks; its completion wakes the caller.
migrate_swap_stop(c) ==
    LET work == Head(works[c])
        p == work.src_task
        q == work.dst_task
        d == work.dst_cpu
        swaps == /\ {c, d} \subseteq active
                 /\ cpu[q] = d /\ cpu[p] = c
                 /\ d \in cpus_ptr(p) /\ c \in cpus_ptr(q)
        moved == {t \in {p, q} : swaps /\ on_rq[t] = "QUEUED"}
    IN  /\ Stopper(c, "swap") /\ work.src_cpu = c
        /\ Stopper(d, "swap") /\ Head(works[d]) = work
        /\ PiFree(p) /\ PiFree(q)
        /\ works' = [works EXCEPT ![c] = Tail(@), ![d] = Tail(@)]
        /\ rq' = IF swaps THEN __migrate_swap_task(__migrate_swap_task(rq, p, d), q, c) ELSE rq
        /\ cpu' = [t \in Task |-> IF t \in moved THEN IF t = p THEN d ELSE c ELSE cpu[t]]
        /\ cond' = [cond EXCEPT ![p] = TRUE]
        /\ waking' = [waking EXCEPT ![p] = "match"]
        /\ UNCHANGED <<may, state, on_rq, on_cpu, maskVars, todo, curr, prev, wakelist, flushed,
                       setVars, hotVars>>

__balance_push_cpu_stop(c) ==
    LET p == Head(works[c]).task
        moves == cpu[p] = c /\ on_rq[p] = "QUEUED"
    IN  /\ Stopper(c, "push") /\ PiFree(p)
        /\ works' = [works EXCEPT ![c] = Tail(@)]
        /\ IF moves
           THEN \E mask \in FallbackMasks(p) :
                  /\ \E dest \in select_fallback_rq(p, mask) :
                       RqFree(dest) /\ move_queued_task(p, dest)
                  /\ cpus_mask' = [cpus_mask EXCEPT ![p] = mask]
           ELSE UNCHANGED <<cpu, rq, cpus_mask>>
        /\ UNCHANGED <<may, state, on_rq, on_cpu, pinned, disabled, todo, cond, waking,
                       curr, prev, wakelist, flushed, setVars, hotVars>>

-----------------------------------------------------------------------------
(* CPU hotplug, one operation at a time (cpu_hotplug_lock).                *)

\* set_cpu_active(false), balance_push_set(true), and synchronize_rcu() begins:
\* it waits for the preempt-disabled sections of this moment.
sched_cpu_deactivate(c) ==
    /\ c \in may.hotplug /\ hotplug[c] = "up" /\ RqFree(c)
    /\ active # {c} /\ \A d \in CPU : hotplug[d] \in {"up", "down"}
    /\ active' = active \ {c}
    /\ hotplug' = [hotplug EXCEPT ![c] = "deactivated"]
    /\ rcu' = {p \in Task : ~PiFree(p)} \cup {<<p>> : p \in {q \in Task : on_rq[q] = "MIGRATING"}}
              \cup {s \in Setter : setter[s].pc = "stop" /\ ~may.preempt}
    /\ UNCHANGED <<may, taskVars, maskVars, todo, cond, waking, cpuVars, setVars, online>>

NoWait_Synchronized(c) ==
    /\ hotplug[c] = "deactivated" /\ wakelist[c] = {} /\ RqFree(c)
    /\ hotplug' = [hotplug EXCEPT ![c] = "synced"] /\ UNCHANGED active
    /\ UNCHANGED <<may, taskVars, maskVars, todo, cond, waking, cpuVars, setVars, online,
                   rcu>>

\* synchronize_rcu() returns, IPIs sent before have been taken; then the cpusets
\* are rebuilt, and if that fails the CPU is made active again.
Synchronized(c) ==
    /\ hotplug[c] = "deactivated" /\ rcu = {} /\ wakelist[c] = {} /\ RqFree(c)
    /\ \/ hotplug' = [hotplug EXCEPT ![c] = "synced"] /\ UNCHANGED active
       \/ /\ may.refuse
          /\ hotplug' = [hotplug EXCEPT ![c] = "up"]
          /\ active' = active \cup {c}
    /\ UNCHANGED <<may, taskVars, maskVars, todo, cond, waking, cpuVars, setVars, online,
                   rcu>>

\* The hotplug thread is the only task left to run.
balance_hotplug_wait(c) ==
    /\ RqFree(c) /\ curr[c] = Idle
    /\ rq[c] = {} /\ works[c] = <<>> /\ ~rq_has_pinned_tasks(c)

\* The hotplug thread of c (not modelled as a task) finds itself alone:
\* rq->nr_running == 1 and no pinned tasks.
sched_cpu_wait_empty(c) ==
    /\ hotplug[c] = "synced" /\ balance_hotplug_wait(c)
    /\ hotplug' = [hotplug EXCEPT ![c] = "empty"]
    /\ UNCHANGED <<may, taskVars, maskVars, todo, cond, waking, cpuVars, setVars, active,
                   online, rcu>>

\* stop_machine(): every CPU is in its stopper with nothing left to do before it
\* and interrupts are off, so no locked section is under way.
sched_cpu_dying(c) ==
    /\ hotplug[c] = "empty"
    /\ \A d \in online : RqFree(d) /\ works[d] = <<>> /\ Preemptible(d)
    /\ \A p \in Task : PiFree(p)
    /\ may.preempt \/ \A s \in Setter : setter[s].pc # "stop"
    /\ hotplug' = [hotplug EXCEPT ![c] = "down"]
    /\ online' = online \ {c}
    /\ UNCHANGED <<may, taskVars, maskVars, todo, cond, waking, cpuVars, setVars, active,
                   rcu>>

sched_cpu_activate(c) ==
    /\ may.up /\ hotplug[c] = "down"
    /\ hotplug' = [hotplug EXCEPT ![c] = "up"]
    /\ online' = online \cup {c} /\ active' = active \cup {c}
    /\ UNCHANGED <<may, taskVars, maskVars, todo, cond, waking, cpuVars, setVars, rcu>>

-----------------------------------------------------------------------------

\* Every task is runnable and waits in the queue of its CPU.
Init ==
    /\ may \in Scenarios
    /\ state = [p \in Task |-> "RUNNING"]
    /\ on_rq = [p \in Task |-> "QUEUED"]
    /\ on_cpu = [p \in Task |-> FALSE]
    /\ cpu \in [Task -> CPU]
    /\ cpus_mask = [p \in Task |-> CPU]
    /\ pinned = [p \in Task |-> None]
    /\ disabled = [p \in Task |-> 0]
    /\ todo = [p \in Task |-> "work"]
    /\ cond = [p \in Task |-> FALSE]
    /\ waking = [p \in Task |-> "no"]
    /\ rq = [c \in CPU |-> {p \in Task : cpu[p] = c}]
    /\ curr = [c \in CPU |-> Idle]
    /\ prev = [c \in CPU |-> None]
    /\ wakelist = [c \in CPU |-> {}]
    /\ works = [c \in CPU |-> <<>>]
    /\ flushed = [c \in CPU |-> FALSE]
    /\ pending = [p \in Task |-> None]
    /\ pend = [s \in Setter |-> NoPending]
    /\ setter = [s \in Setter |-> NotSetting]
    /\ cpuset = [p \in Task |-> CPU]
    /\ active = CPU /\ online = CPU /\ rcu = {}
    /\ hotplug = [c \in CPU |-> "up"]

TaskStep(p) ==
    \/ SetState(p) \/ CheckCondition(p) \/ Resume(p)
    \/ \E q \in Task, c \in CPU : migrate_swap(p, q, c)
    \/ migrate_disable(p) \/ NestedEnable(p)
    \/ (\E c \in CPU : migrate_enable(p, c)) \/ MigrationEnabled(p)

try_to_wake_up(p) ==
    \/ Wake(p) \/ WakeCurrent(p) \/ ttwu_state_match(p) \/ ttwu_runnable(p)
    \/ WakeDescheduling(p) \/ select_task_rq(p) \/ ttwu_queue(p)

CpuStep(c) ==
    \/ schedule(c) \/ finish_task_switch(c) \/ sched_ttwu_pending(c)
    \/ flush_smp_call_function(c) \/ migration_cpu_stop(c) \/ migrate_swap_stop(c)
    \/ __balance_push_cpu_stop(c)

SetterStep(s) ==
    \/ \E p \in Task, mask \in Masks : sched_setaffinity(s, p, mask) \/ update_cpumask(s, p, mask)
    \/ set_cpus_allowed_ptr(s) \/ Recheck(s)
    \/ QueueStop(s) \/ wait_for_completion(s) \/ wait_var_event(s)

HotplugStep(c) ==
    \/ sched_cpu_deactivate(c) \/ Synchronized(c) \/ sched_cpu_wait_empty(c)
    \/ sched_cpu_dying(c) \/ sched_cpu_activate(c)

Next ==
    \/ \E p \in Task : TaskStep(p) \/ try_to_wake_up(p)
    \/ \E p \in Task : attach_task(p) \/ \E c \in CPU : detach_task(p, c)
    \/ \E c \in CPU : CpuStep(c) \/ HotplugStep(c)
    \/ \E s \in Setter : SetterStep(s)

Spec == Init /\ [][Next]_vars

-----------------------------------------------------------------------------
(* Properties.                                                             *)

\* A task is in a queue exactly when it is marked as queued, and then in the
\* queue of task_cpu(p) alone: enqueue and dequeue never go astray whichever of
\* schedule(), the wake-up, the stopper and the load balancer does them.
OneQueue ==
    \A t \in Task, c \in CPU : t \in rq[c] <=> on_rq[t] = "QUEUED" /\ cpu[t] = c

\* A task is never on two CPUs: p->on_cpu is set exactly while some CPU runs it
\* or still switches away from it, and that CPU is task_cpu(p).  This is what
\* the wait for !p->on_cpu in try_to_wake_up() is for.
OneCpu ==
    \A t \in Task :
        LET on == {c \in CPU : curr[c] = t \/ prev[c] = t}
        IN  on = IF on_cpu[t] THEN {cpu[t]} ELSE {}

\* No wake-up is lost: a task that was taken off its queue in the wait loop while
\* its condition is true has a wake-up under way (the ordering of
\* set_current_state() and p->on_rq against the condition and p->__state).
NoLostWakeup ==
    \A t \in Task : cond[t] /\ on_rq[t] = "no" =>
        waking[t] # "no" \/ t \in wakelist[cpu[t]]

\* The two WARN_ON_ONCE() of sched_ttwu_pending() never fire: when the CPU takes
\* the IPI no task of its wake list is still on a CPU or belongs to another one.
WakeListInOrder ==
    \A c \in CPU : RqFree(c) =>
        \A t \in wakelist[c] : ~on_cpu[t] /\ cpu[t] = c /\ on_rq[t] = "no" /\ state[t] = "WAKING"

\* migrate_enable() has not failed to give p->cpus_ptr back, see EnableResets.
Reset(t) == pinned[t] # None => is_migration_disabled(t)

\* Only one caller changes the mask of t, or t is always runnable and free to move.
Serial(t) ==
    \/ Cardinality({s \in Setter : t \in may.affine[s] \cup may.cpuset[s]}) <= 1
    \/ t \notin may.sleep \cup may.swap \cup may.disable

\* Once every call of set_cpus_allowed_ptr() for a task has returned, its mask is
\* within its cpuset, whatever order sched_setaffinity() and the change of the
\* cpuset came in, unless CPUs leave (select_fallback_rq() may ignore the cpuset).
\* And a runnable task that can migrate is on a CPU of its mask, or all are going
\* down: affine_move_task() "must block until the designated task is enqueued on an
\* allowed CPU".  The code keeps this only under three conditions.  Two callers at
\* once may leave a task that sleeps or disables migration where it is, and so may
\* the -EINVAL that migrate_enable() ignores; and a caller whose CPU is no longer
\* active when the stopper looks returns too, which shows if the CPU comes back.
AffinityHolds ==
    \A t \in Task : (\A s \in Setter : setter[s].task # t) =>
        /\ may.hotplug = {} => cpus_mask[t] \subseteq cpuset[t]
        /\ /\ Serial(t) /\ Reset(t) /\ ~may.up /\ ~may.refuse
           /\ on_rq[t] = "QUEUED" /\ ~is_migration_disabled(t)
           => cpu[t] \in cpus_mask[t] \/ cpus_mask[t] \cap active = {}

Queued(work, c) == \E i \in DOMAIN works[c] : works[c][i] = work

\* A caller that waits is never forgotten: the stop work of a pending request is
\* queued or about to be, or the task will come through migrate_enable().  A task
\* that came through it with the -EINVAL nobody looks at keeps its request for good,
\* and is excepted.
PendingServed ==
    \A t \in Task : pending[t] # None /\ Reset(t) =>
        IF pend[pending[t]].stop
        THEN \/ \E c \in online : Queued(MigrateWork(pending[t]), c)
             \/ \E s \in Setter : setter[s].pc = "stop" /\ setter[s].on = pending[t]
        ELSE is_migration_disabled(t) /\ pinned[t] # None

\* struct set_affinity_pending lives on the stack of its owner: the owner is
\* still in affine_move_task() while a stop work, p->migration_pending or a
\* second caller refers to it, and each stop work is queued at most once.
PendingOutlivesWorks ==
    \A s \in Setter :
        LET uses == {c \in CPU : Queued(MigrateWork(s), c)}
        IN  /\ \/ uses # {} \/ (\E t \in Task : pending[t] = s) \/ (\E r \in Setter : setter[r].on = s)
               => setter[s].pc # "idle" /\ setter[s].on = s
            /\ Cardinality(uses) <= 1
            /\ \A c \in uses : Cardinality({i \in DOMAIN works[c] : works[c][i] = MigrateWork(s)}) = 1
            /\ setter[s].pc = "drain" => ~pend[s].stop

\* "Either way, we really should have a @pending here": a task whose CPU left its
\* mask while it could not migrate finds the request when it reaches
\* migrate_enable().
EnableFindsPending ==
    \A t \in Task : is_migration_disabled(t) /\ cpu[t] \notin cpus_mask[t] => pending[t] # None

\* "Mustn't clear migration_disabled() until cpus_ptr points back at the regular
\* cpus_mask".  migrate_enable() goes on all the same when no CPU of the mask is
\* online, and what follows about CPUs that leave is for behaviours without that.
EnableResets == \A t \in Task : Reset(t)

\* "Dying CPU not properly vacated!" is never printed: from sched_cpu_wait_empty()
\* on no task is queued, pinned, running or on the wake list of the CPU.
Vacated ==
    \A c \in CPU : hotplug[c] \in {"empty", "down"} =>
        /\ rq[c] = {} /\ wakelist[c] = {} /\ ~rq_has_pinned_tasks(c)
        /\ curr[c] \notin Task /\ prev[c] \notin Task
        /\ \A t \in Task : cpu[t] = c => on_rq[t] = "no"

\* A task between migrate_disable() and migrate_enable() stays on its CPU, asleep
\* or not, whatever becomes of its mask and of the CPU; any other one is moved
\* only to an online CPU, and not while it is blocked or runs (the WARN_ON_ONCE()s
\* of set_task_cpu(), against a wake-up, a balancer, a stopper and hotplug at once).
\* Excepted is a task still confined to another CPU by an earlier region.
PinnedStays ==
    [][\A t \in Task :
         /\ disabled[t] > 0 /\ disabled'[t] > 0 /\ pinned[t] \in {None, cpu[t]}
              => cpu'[t] = cpu[t] /\ cpu[t] \in online'
         /\ cpu'[t] # cpu[t] => /\ cpu'[t] \in online /\ ~on_cpu[t]
                                /\ on_rq[t] # "no" \/ state[t] = "WAKING"]_vars

=============================================================================
