-------------------------- MODULE RunQueuesProofs --------------------------
(***************************************************************************)
(* For any tasks, CPUs, callers, masks and scenarios: a task is in one     *)
(* queue, on one CPU, and its entry in a wake list is in order; and no     *)
(* task is left on a CPU that has gone, nor moved while it is pinned.      *)
(***************************************************************************)
EXTENDS RunQueues, TLAPS

-----------------------------------------------------------------------------
(* The inductive invariant.                                                *)

(* The types of what the proof reads; works and requests do not matter.    *)
QueueTypes ==
  /\ state \in [Task -> {"RUNNING", "SLEEP", "WAKING"}]
  /\ on_rq \in [Task -> {"no", "QUEUED", "MIGRATING"}]
  /\ on_cpu \in [Task -> BOOLEAN]
  /\ cpu \in [Task -> CPU]
  /\ waking \in [Task -> {"no", "match", "on_rq", "on_cpu", "queue"}]
  /\ DOMAIN rq = CPU /\ DOMAIN curr = CPU /\ DOMAIN prev = CPU
  /\ wakelist \in [CPU -> SUBSET Task]
  /\ active \subseteq CPU /\ online \subseteq CPU

(* OneCpu, one CPU at a time; a CPU switches between two different tasks,  *)
(* and the task it runs is queued.                                         *)
CpuInv ==
  \A t \in Task, c \in CPU :
    /\ (curr[c] = t \/ prev[c] = t) <=> (on_cpu[t] /\ cpu[t] = c)
    /\ ~(curr[c] = t /\ prev[c] = t)
    /\ curr[c] = t => on_rq[t] = "QUEUED"

(* A wake-up past the test of p->on_rq, and a task on a wake list, concern *)
(* a task that is in no queue and that no other wake-up will touch.        *)
WakeInv ==
  \A t \in Task :
    /\ waking[t] \in {"on_cpu", "queue"} => on_rq[t] = "no" /\ state[t] = "WAKING"
    /\ \A c \in CPU : t \in wakelist[c] =>
         /\ on_rq[t] = "no" /\ state[t] = "WAKING" /\ cpu[t] = c
         /\ waking[t] \in {"no", "match"}

IInv == QueueTypes /\ OneQueue /\ CpuInv /\ WakeInv

USE RunQueuesAssumption DEF None, Idle, Stop, is_migration_disabled

-----------------------------------------------------------------------------
(* Steps by what they do to queues, CPUs and wake lists.                   *)

(* A step that leaves all of them alone.                                   *)
LEMMA Frame ==
  ASSUME IInv,
         UNCHANGED <<state, on_rq, on_cpu, cpu, rq, waking, curr, prev, wakelist, active, online>>
  PROVE  IInv'
BY DEF IInv, QueueTypes, OneQueue, CpuInv, WakeInv

(* A running task sets its own state.                                      *)
LEMMA OwnState ==
  ASSUME IInv, NEW p \in Task, NEW c \in CPU, curr[c] = p,
         NEW v \in {"RUNNING", "SLEEP"}, state' = [state EXCEPT ![p] = v],
         UNCHANGED <<on_rq, on_cpu, cpu, rq, waking, curr, prev, wakelist, active, online>>
  PROVE  IInv'
BY DEF IInv, QueueTypes, OneQueue, CpuInv, WakeInv

(* A wake-up begins, or ends before it touches the task.                   *)
LEMMA WakeBegins ==
  ASSUME IInv, NEW p, NEW v \in {"no", "match"}, waking' = [waking EXCEPT ![p] = v],
         UNCHANGED <<state, on_rq, on_cpu, cpu, rq, curr, prev, wakelist, active, online>>
  PROVE  IInv'
<1>1. QueueTypes'
  BY Zenon DEF IInv, QueueTypes
<1>2. OneQueue' /\ CpuInv'
  BY DEF IInv, QueueTypes, OneQueue, CpuInv
<1>3. WakeInv'
  BY DEF IInv, QueueTypes, WakeInv
<1> QED
  BY <1>1, <1>2, <1>3 DEF IInv

(* A queued task that is on no CPU goes to another queue.                  *)
LEMMA Moves ==
  ASSUME IInv, NEW p, NEW dest \in CPU,
         p \in Task => on_rq[p] = "QUEUED" /\ ~on_cpu[p],
         move_queued_task(p, dest),
         UNCHANGED <<state, on_rq, on_cpu, waking, curr, prev, wakelist, active, online>>
  PROVE  IInv'
<1>1. QueueTypes'
  BY Zenon DEF IInv, QueueTypes, move_queued_task, set_task_cpu
<1>2. OneQueue'
  BY DEF IInv, QueueTypes, OneQueue, move_queued_task, set_task_cpu
<1>3. CpuInv'
  BY DEF IInv, QueueTypes, CpuInv, move_queued_task, set_task_cpu
<1>4. WakeInv'
  BY DEF IInv, QueueTypes, WakeInv, move_queued_task, set_task_cpu
<1> QED
  BY <1>1, <1>2, <1>3, <1>4 DEF IInv

(* A CPU whose queue is not locked and that runs its stopper has no task.  *)
LEMMA StopperAlone ==
  ASSUME IInv, NEW p \in Task, NEW c \in CPU, cpu[p] = c, curr[c] = Stop, prev[c] = None
  PROVE  ~on_cpu[p]
BY DEF IInv, CpuInv

-----------------------------------------------------------------------------
(* The steps of a task and of those that wake it.                          *)

LEMMA TaskStepInv ==
  ASSUME IInv, NEW p \in Task, TaskStep(p)
  PROVE  IInv'
<1>1. CASE SetState(p)
  BY <1>1, OwnState, Zenon DEF SetState, Runs, maskVars, cpuVars, setVars, hotVars
<1>2. CASE CheckCondition(p)
  <2>1. CASE cond[p]
    BY <1>2, <2>1, OwnState DEF CheckCondition, Runs, maskVars, cpuVars, setVars, hotVars
  <2>2. CASE ~cond[p]
    BY <1>2, <2>2, Frame DEF CheckCondition, maskVars, cpuVars, setVars, hotVars
  <2> QED
    BY <2>1, <2>2
<1>3. CASE Resume(p)
  BY <1>3, OwnState, Zenon DEF Resume, Runs, maskVars, cpuVars, setVars, hotVars
<1>4. CASE \E q \in Task, c \in CPU : migrate_swap(p, q, c)
  BY <1>4, OwnState, Zenon DEF migrate_swap, Runs, maskVars, setVars, hotVars
<1>5. CASE migrate_disable(p) \/ NestedEnable(p)
  BY Zenon, <1>5, Frame DEF migrate_disable, NestedEnable, taskVars, cpuVars, hotVars
<1>6. CASE \E c \in CPU : migrate_enable(p, c)
  BY <1>6, Frame DEF migrate_enable, taskVars, hotVars
<1>7. CASE MigrationEnabled(p)
  BY <1>7, Frame DEF MigrationEnabled, taskVars, cpuVars, setVars, hotVars
<1> QED
  BY <1>1, <1>2, <1>3, <1>4, <1>5, <1>6, <1>7 DEF TaskStep

(* ttwu_queue_wakelist() on the CPU of the task: it becomes an entry of    *)
(* that wake list and the wake-up lets go of it.                           *)
LEMMA OnWakeList ==
  ASSUME IInv, NEW p \in Task, waking[p] \in {"on_cpu", "queue"},
         ttwu_queue_wakelist(p, cpu[p])
  PROVE  IInv'
<1> USE DEF ttwu_queue_wakelist, Unlock, taskVars, maskVars, setVars
<1>1. QueueTypes' /\ OneQueue' /\ CpuInv'
  BY DEF IInv, QueueTypes, OneQueue, CpuInv
<1>2. WakeInv'
  BY DEF IInv, QueueTypes, WakeInv
<1> QED
  BY <1>1, <1>2 DEF IInv

(* ttwu_do_activate() of tasks that are in no queue, all of CPU c.         *)
LEMMA Activates ==
  ASSUME IInv, NEW c \in CPU, NEW P, Activate(c, P),
         \A t \in Task : t \in P => on_rq[t] = "no" /\ cpu[t] = c /\ waking'[t] \in {"no", "match"},
         \A t \in Task : t \in P => \A d \in CPU : t \notin wakelist'[d],
         \A t \in Task : t \notin P => waking'[t] = waking[t],
         \A t \in Task, d \in CPU : t \in wakelist'[d] => t \in wakelist[d],
         waking' \in [Task -> {"no", "match", "on_rq", "on_cpu", "queue"}],
         wakelist' \in [CPU -> SUBSET Task],
         UNCHANGED <<on_cpu, curr, prev, active, online>>
  PROVE  IInv'
<1>1. QueueTypes'
  BY Zenon DEF IInv, QueueTypes, Activate
<1>2. OneQueue'
  BY DEF IInv, QueueTypes, OneQueue, Activate
<1>3. CpuInv'
  BY DEF IInv, QueueTypes, CpuInv, Activate
<1>4. WakeInv'
  BY DEF IInv, QueueTypes, WakeInv, Activate
<1> QED
  BY <1>1, <1>2, <1>3, <1>4 DEF IInv

LEMMA WakeUpInv ==
  ASSUME IInv, NEW p \in Task, try_to_wake_up(p)
  PROVE  IInv'
<1>1. CASE Wake(p)
  BY <1>1, WakeBegins, Zenon DEF Wake, taskVars, maskVars, cpuVars, setVars, hotVars
<1>2. CASE ttwu_state_match(p)
  <2>1. CASE state[p] = "SLEEP"
    <3> USE <1>2, <2>1 DEF ttwu_state_match, taskVars, maskVars, cpuVars, setVars
    <3>1. QueueTypes' /\ OneQueue' /\ CpuInv'
      BY DEF IInv, QueueTypes, OneQueue, CpuInv
    <3>2. WakeInv'
      BY DEF IInv, QueueTypes, WakeInv
    <3> QED
      BY <3>1, <3>2 DEF IInv
  <2>2. CASE state[p] # "SLEEP"
    BY <1>2, <2>2, WakeBegins DEF ttwu_state_match, Unlock, taskVars, maskVars, cpuVars, setVars
  <2> QED
    BY <2>1, <2>2
<1>3. CASE ttwu_runnable(p)
  <2> USE <1>3 DEF ttwu_runnable, Unlock, maskVars, cpuVars, setVars
  <2>1. QueueTypes' /\ OneQueue' /\ CpuInv'
    BY DEF IInv, QueueTypes, OneQueue, CpuInv
  <2>2. on_rq[p] # "MIGRATING"
    BY DEF TaskRqFree
  <2>3. WakeInv'
    BY <2>2 DEF IInv, QueueTypes, WakeInv
  <2> QED
    BY <2>1, <2>3 DEF IInv
<1>4. CASE WakeDescheduling(p)
  BY <1>4, OnWakeList DEF WakeDescheduling
<1>5. CASE select_task_rq(p)
  <2>1. PICK c \in CPU : cpu' = [cpu EXCEPT ![p] = c]
    BY <1>5, Zenon DEF select_task_rq, select_fallback_rq, set_task_cpu, IInv, QueueTypes
  <2> USE <1>5, <2>1 DEF select_task_rq, cpuVars, setVars, hotVars
  <2>2. on_rq[p] = "no" /\ state[p] = "WAKING"
    BY DEF IInv, WakeInv
  <2>3. QueueTypes' /\ OneQueue'
    BY <2>2 DEF IInv, QueueTypes, OneQueue
  <2>4. CpuInv'
    BY DEF IInv, QueueTypes, CpuInv
  <2>5. WakeInv'
    BY <2>2 DEF IInv, QueueTypes, WakeInv
  <2> QED
    BY <2>3, <2>4, <2>5 DEF IInv
<1>6. CASE ttwu_queue(p)
  <2>1. CASE ttwu_queue_wakelist(p, cpu[p])
    BY <1>6, <2>1, OnWakeList DEF ttwu_queue
  <2>2. CASE ~ttwu_queue_wakelist(p, cpu[p])
    <3>1. /\ Activate(cpu[p], {p}) /\ Unlock(p) /\ waking[p] = "queue"
          /\ UNCHANGED <<on_cpu, curr, prev, wakelist, active, online>>
      BY <1>6, <2>2 DEF ttwu_queue, cpuVars
    <3>2. waking' = [waking EXCEPT ![p] = "no"]
      BY <3>1 DEF Unlock
    <3>3. PICK c \in CPU : c = cpu[p]
      BY DEF IInv, QueueTypes
    <3>4. on_rq[p] = "no" /\ \A d \in CPU : p \notin wakelist[d]
      BY <3>1 DEF IInv, WakeInv
    <3>5. /\ waking' \in [Task -> {"no", "match", "on_rq", "on_cpu", "queue"}]
          /\ waking'[p] = "no" /\ \A t \in Task : t # p => waking'[t] = waking[t]
          /\ wakelist' \in [CPU -> SUBSET Task]
      BY <3>1, <3>2 DEF IInv, QueueTypes
    <3> QED
      BY <3>1, <3>3, <3>4, <3>5, Activates
  <2> QED
    BY <2>1, <2>2
<1>7. CASE WakeCurrent(p)
  <2>1. /\ \E c \in CPU : curr[c] = p
        /\ state' = [state EXCEPT ![p] = IF @ = "SLEEP" THEN "RUNNING" ELSE @]
        /\ UNCHANGED <<on_rq, on_cpu, cpu, rq, waking, curr, prev, wakelist, active, online>>
    BY Zenon, <1>7 DEF WakeCurrent, Runs, cpuVars, hotVars
  <2>2. CASE state[p] = "SLEEP"
    BY Zenon, <2>1, <2>2, OwnState
  <2>3. CASE state[p] # "SLEEP"
    <3>1. state' = state
      BY <2>1, <2>3 DEF IInv, QueueTypes
    <3> QED
      BY Zenon, <2>1, <3>1, Frame
  <2> QED
    BY Zenon, <2>2, <2>3
<1> QED
  BY Zenon, <1>1, <1>2, <1>3, <1>4, <1>5, <1>6, <1>7 DEF try_to_wake_up

(* The load balancer.                                                      *)
LEMMA BalanceInv ==
  ASSUME IInv, NEW p \in Task, attach_task(p) \/ \E c \in CPU : detach_task(p, c)
  PROVE  IInv'
<1>1. CASE attach_task(p)
  <2> USE <1>1 DEF attach_task, maskVars, cpuVars, setVars
  <2>1. QueueTypes' /\ OneQueue'
    BY DEF IInv, QueueTypes, OneQueue
  <2>2. CpuInv' /\ WakeInv'
    BY DEF IInv, QueueTypes, CpuInv, WakeInv
  <2> QED
    BY <2>1, <2>2 DEF IInv
<1>2. ASSUME NEW dest \in CPU, detach_task(p, dest)
      PROVE  IInv'
  <2> USE <1>2 DEF detach_task, set_task_cpu, maskVars, cpuVars, setVars, hotVars
  <2>1. QueueTypes' /\ OneQueue'
    BY DEF IInv, QueueTypes, OneQueue
  <2>2. CpuInv'
    BY DEF IInv, QueueTypes, CpuInv
  <2>3. WakeInv'
    BY DEF IInv, QueueTypes, WakeInv
  <2> QED
    BY Zenon, <2>1, <2>2, <2>3 DEF IInv
<1> QED
  BY <1>1, <1>2

-----------------------------------------------------------------------------
(* The steps of a CPU.                                                     *)

(* __schedule() up to the switch: the task it picks was on no CPU.         *)
LEMMA ScheduleInv ==
  ASSUME IInv, NEW c \in CPU, schedule(c)
  PROVE  IInv'
<1> DEFINE p == curr[c]
           sleeps == p \in Task /\ Deactivates(p)
           queue == IF sleeps THEN rq[c] \ {p} ELSE rq[c]
<1>1. prev[c] = None
  BY DEF schedule, RqFree
<1>2. PICK next \in pick_next_task(c, queue) :
        /\ curr' = [curr EXCEPT ![c] = next]
        /\ prev' = [prev EXCEPT ![c] = IF next = p THEN None ELSE p]
        /\ on_cpu' = prepare_task(next)
  BY Zenon DEF schedule
<1>3. /\ rq' = [rq EXCEPT ![c] = queue]
      /\ on_rq' = IF sleeps THEN [on_rq EXCEPT ![p] = "no"] ELSE on_rq
      /\ UNCHANGED <<state, cpu, waking, wakelist, active, online>>
  BY DEF schedule, hotVars
<1>4. next \in Task => next \in queue
  BY <1>2 DEF pick_next_task
<1>5. p \in Task => cpu[p] = c /\ on_cpu[p] /\ on_rq[p] = "QUEUED"
  BY DEF IInv, CpuInv
<1>6. next \in Task => on_rq[next] = "QUEUED" /\ cpu[next] = c /\ (next = p => ~sleeps)
  BY <1>4 DEF IInv, OneQueue
<1>7. next \in Task /\ next # p => ~on_cpu[next]
  BY <1>1, <1>6 DEF IInv, CpuInv
<1>8. next \in Task => on_cpu' = [on_cpu EXCEPT ![next] = TRUE]
  BY <1>2 DEF prepare_task
<1>9. next \notin Task => on_cpu' = on_cpu
  BY <1>2 DEF prepare_task
<1> HIDE DEF p, sleeps, queue
<1>10. QueueTypes'
  <2>1. on_cpu' \in [Task -> BOOLEAN]
    BY <1>8, <1>9, Zenon DEF IInv, QueueTypes
  <2> QED
    BY <2>1, <1>2, <1>3, Zenon DEF IInv, QueueTypes
<1>11. OneQueue'
  BY <1>3, <1>5 DEF IInv, QueueTypes, OneQueue, queue, sleeps
<1>12. CpuInv'
  <2> SUFFICES ASSUME NEW t \in Task, NEW d \in CPU
               PROVE  /\ (curr'[d] = t \/ prev'[d] = t) <=> (on_cpu'[t] /\ cpu'[t] = d)
                      /\ ~(curr'[d] = t /\ prev'[d] = t)
                      /\ curr'[d] = t => on_rq'[t] = "QUEUED"
    BY DEF CpuInv
  <2>1. CASE d = c
    <3>1. curr'[c] = next /\ prev'[c] = (IF next = p THEN None ELSE p)
      BY <1>2 DEF IInv, QueueTypes
    <3>2. (on_cpu[t] /\ cpu[t] = c) <=> t = p
      BY <1>1 DEF IInv, CpuInv, p
    <3>3. (on_cpu'[t] /\ cpu'[t] = c) <=> (t = p \/ t = next)
      BY <1>3, <1>6, <1>8, <1>9, <3>2 DEF IInv, QueueTypes
    <3>4. t = next => on_rq'[t] = "QUEUED"
      BY <1>3, <1>6 DEF IInv, QueueTypes
    <3> QED
      BY <2>1, <3>1, <3>3, <3>4
  <2>2. CASE d # c
    <3>1. curr'[d] = curr[d] /\ prev'[d] = prev[d]
      BY <1>2, <2>2 DEF IInv, QueueTypes
    <3>2. (on_cpu'[t] /\ cpu'[t] = d) <=> (on_cpu[t] /\ cpu[t] = d)
      BY <1>3, <1>6, <1>8, <1>9, <2>2 DEF IInv, QueueTypes
    <3>3. curr[d] = t => on_rq'[t] = "QUEUED"
      <4>1. curr[d] = t => t # p
        BY <1>5, <2>2 DEF IInv, CpuInv
      <4>2. curr[d] = t => on_rq[t] = "QUEUED"
        BY DEF IInv, CpuInv
      <4> QED
        BY <1>3, <4>1, <4>2 DEF IInv, QueueTypes
    <3> QED
      BY <3>1, <3>2, <3>3 DEF IInv, CpuInv
  <2> QED
    BY <2>1, <2>2
<1>13. WakeInv'
  BY <1>3 DEF IInv, QueueTypes, WakeInv
<1> QED
  BY <1>10, <1>11, <1>12, <1>13 DEF IInv

(* finish_task_switch(): from here on the old task is on no CPU.           *)
LEMMA FinishInv ==
  ASSUME IInv, NEW c \in CPU, finish_task_switch(c)
  PROVE  IInv'
<1> DEFINE p == prev[c]
<1>1. /\ p # None
      /\ prev' = [prev EXCEPT ![c] = None]
      /\ on_cpu' = finish_task(p)
      /\ UNCHANGED <<state, on_rq, cpu, rq, waking, curr, wakelist, active, online>>
  BY DEF finish_task_switch, setVars, hotVars
<1>2. p \in Task => on_cpu' = [on_cpu EXCEPT ![p] = FALSE] /\ cpu[p] = c /\ curr[c] # p
  BY <1>1 DEF finish_task, IInv, CpuInv
<1>3. p \notin Task => on_cpu' = on_cpu
  BY <1>1 DEF finish_task
<1> HIDE DEF p
<1>4. QueueTypes' /\ OneQueue' /\ WakeInv'
  BY <1>1, <1>2, <1>3, ZenonT(60) DEF IInv, QueueTypes, OneQueue, WakeInv
<1>5. CpuInv'
  BY <1>1, <1>2, <1>3 DEF IInv, QueueTypes, CpuInv, p
<1> QED
  BY <1>4, <1>5 DEF IInv

(* A CPU takes in its wake list.                                           *)
LEMMA TakesWakeList ==
  ASSUME IInv, NEW c \in CPU, Activate(c, wakelist[c]),
         wakelist' = [wakelist EXCEPT ![c] = {}],
         UNCHANGED <<on_cpu, waking, curr, prev, active, online>>
  PROVE  IInv'
<1>1. PICK P : P = wakelist[c]
  OBVIOUS
<1>2. \A t \in Task : t \in P =>
        /\ on_rq[t] = "no" /\ cpu[t] = c /\ waking'[t] \in {"no", "match"}
        /\ \A d \in CPU : t \notin wakelist'[d]
  BY <1>1 DEF IInv, QueueTypes, WakeInv
<1>3. /\ \A t \in Task, d \in CPU : t \in wakelist'[d] => t \in wakelist[d]
      /\ waking' \in [Task -> {"no", "match", "on_rq", "on_cpu", "queue"}]
      /\ wakelist' \in [CPU -> SUBSET Task]
  BY DEF IInv, QueueTypes
<1> QED
  BY <1>1, <1>2, <1>3, Activates

(* migrate_swap_stop(): what moves was queued and on no CPU.               *)
LEMMA SwapInv ==
  ASSUME IInv, NEW c \in CPU, migrate_swap_stop(c)
  PROVE  IInv'
<1>1. PICK p, q, d :
        /\ p = Head(works[c]).src_task /\ q = Head(works[c]).dst_task
        /\ d = Head(works[c]).dst_cpu
  BY ZenonT(60)
<1> DEFINE swaps == /\ {c, d} \subseteq active
                    /\ cpu[q] = d /\ cpu[p] = c
                    /\ d \in cpus_ptr(p) /\ c \in cpus_ptr(q)
           moved == {t \in {p, q} : swaps /\ on_rq[t] = "QUEUED"}
           half == __migrate_swap_task(rq, p, d)
<1>2. /\ curr[c] = Stop /\ prev[c] = None /\ curr[d] = Stop /\ prev[d] = None
      /\ rq' = IF swaps THEN __migrate_swap_task(half, q, c) ELSE rq
      /\ cpu' = [t \in Task |-> IF t \in moved THEN IF t = p THEN d ELSE c ELSE cpu[t]]
      /\ waking' = [waking EXCEPT ![p] = "match"] /\ waking[p] = "no"
      /\ UNCHANGED <<state, on_rq, on_cpu, curr, prev, wakelist, active, online>>
  BY <1>1 DEF migrate_swap_stop, Stopper, RqFree, PiFree, setVars, hotVars, maskVars
<1>3. CASE ~swaps
  <2>1. cpu' = cpu /\ rq' = rq
    BY <1>2, <1>3 DEF IInv, QueueTypes
  <2> QED
    BY <1>2, <2>1, WakeBegins, Zenon
<1>4. CASE swaps
  <2>1. d \in CPU /\ cpu[p] = c /\ cpu[q] = d
    BY <1>4 DEF IInv, QueueTypes
  <2>2. \A t \in Task : t = p \/ t = q => ~on_cpu[t]
    BY <1>2, <2>1 DEF IInv, CpuInv
  <2>3. \A t \in Task : cpu'[t] = IF t \in {p, q} /\ on_rq[t] = "QUEUED"
                                  THEN IF t = p THEN d ELSE c ELSE cpu[t]
    BY <1>2, <1>4
  <2> HIDE DEF moved, swaps
  <2>4. QueueTypes'
    <3>1. DOMAIN rq' = CPU
      BY <1>2, <1>4 DEF __migrate_swap_task, IInv, QueueTypes
    <3>2. cpu' \in [Task -> CPU]
      BY <1>2, <2>1 DEF IInv, QueueTypes
    <3> QED
      BY <1>2, <3>1, <3>2, Zenon DEF IInv, QueueTypes
  <2>5. OneQueue'
    <3> SUFFICES ASSUME NEW t \in Task, NEW e \in CPU
                 PROVE  t \in rq'[e] <=> on_rq[t] = "QUEUED" /\ cpu'[t] = e
      BY <1>2 DEF OneQueue
    <3>1. t \in rq[e] <=> on_rq[t] = "QUEUED" /\ cpu[t] = e
      BY DEF IInv, OneQueue
    <3>2. DOMAIN half = CPU
      BY DEF __migrate_swap_task, IInv, QueueTypes
    <3>3. t \in half[e] <=> IF t = p /\ on_rq[t] = "QUEUED" THEN e = d ELSE t \in rq[e]
      BY <2>1, <3>1 DEF __migrate_swap_task, IInv, QueueTypes
    <3> HIDE DEF half
    <3>4. t \in rq'[e] <=> IF t = q /\ on_rq[t] = "QUEUED" THEN e = c ELSE t \in half[e]
      <4>1. rq' = __migrate_swap_task(half, q, c)
        BY <1>2, <1>4
      <4>2. CASE on_rq[q] = "QUEUED"
        <5>1. rq' = [half EXCEPT ![d] = @ \ {q}, ![c] = @ \cup {q}]
          BY <4>1, <4>2, <2>1 DEF __migrate_swap_task
        <5>2. t = q => (t \in half[e] => e = d)
          BY <3>1, <3>3, <2>1
        <5> QED
          BY <5>1, <5>2, <3>2, <4>2, <2>1
      <4>3. CASE on_rq[q] # "QUEUED"
        BY <4>1, <4>3 DEF __migrate_swap_task
      <4> QED
        BY <4>2, <4>3
    <3>5. p = q => c = d
      BY <2>1
    <3> QED
      BY Zenon, <2>1, <2>3, <3>1, <3>3, <3>4, <3>5
  <2>6. CpuInv'
    BY <1>2, <2>2, <2>3 DEF IInv, QueueTypes, CpuInv
  <2>7. WakeInv'
    BY <1>2, <2>3 DEF IInv, QueueTypes, WakeInv
  <2> QED
    BY <2>4, <2>5, <2>6, <2>7 DEF IInv
<1> QED
  BY <1>3, <1>4

LEMMA CpuStepInv ==
  ASSUME IInv, NEW c \in CPU, CpuStep(c)
  PROVE  IInv'
<1>1. CASE schedule(c)
  BY <1>1, ScheduleInv
<1>2. CASE finish_task_switch(c)
  BY <1>2, FinishInv
<1>3. CASE sched_ttwu_pending(c)
  BY <1>3, TakesWakeList, Zenon DEF sched_ttwu_pending, hotVars
<1>4. CASE flush_smp_call_function(c)
  BY <1>4, TakesWakeList, Zenon DEF flush_smp_call_function, hotVars
<1>5. CASE migration_cpu_stop(c)
  <2>1. PICK p, dest : /\ p = pend[Head(works[c]).owner].task
                       /\ dest = pend[Head(works[c]).owner].dest
    BY Zenon
  <2>2. /\ curr[c] = Stop /\ prev[c] = None
        /\ UNCHANGED <<state, on_rq, on_cpu, waking, curr, prev, wakelist, active, online>>
        /\ \/ UNCHANGED <<cpu, rq>>
           \/ /\ cpu[p] = c /\ on_rq[p] = "QUEUED" /\ is_cpu_allowed(p, dest)
              /\ move_queued_task(p, dest)
    BY <1>5, <2>1, Zenon DEF migration_cpu_stop, Stopper, RqFree, hotVars
  <2>3. CASE UNCHANGED <<cpu, rq>>
    BY <2>2, <2>3, Frame
  <2>4. CASE ~UNCHANGED <<cpu, rq>>
    <3>1. dest \in CPU
      BY <2>2, <2>4 DEF is_cpu_allowed, IInv, QueueTypes
    <3>2. p \in Task => on_rq[p] = "QUEUED" /\ ~on_cpu[p]
      BY <2>2, <2>4, StopperAlone
    <3> QED
      BY Zenon, <2>2, <2>4, <3>1, <3>2, Moves
  <2> QED
    BY <2>3, <2>4
<1>6. CASE migrate_swap_stop(c)
  BY <1>6, SwapInv
<1>7. CASE __balance_push_cpu_stop(c)
  <2>1. PICK p : p = Head(works[c]).task
    OBVIOUS
  <2>2. /\ curr[c] = Stop /\ prev[c] = None
        /\ UNCHANGED <<state, on_rq, on_cpu, waking, curr, prev, wakelist, active, online>>
        /\ \/ UNCHANGED <<cpu, rq>>
           \/ /\ cpu[p] = c /\ on_rq[p] = "QUEUED"
              /\ \E mask : \E dest \in select_fallback_rq(p, mask) : move_queued_task(p, dest)
    BY <1>7, <2>1 DEF __balance_push_cpu_stop, Stopper, RqFree, hotVars
  <2>3. CASE UNCHANGED <<cpu, rq>>
    BY <2>2, <2>3, Frame
  <2>4. CASE ~UNCHANGED <<cpu, rq>>
    <3>1. PICK dest \in CPU : move_queued_task(p, dest)
      BY <2>2, <2>4 DEF select_fallback_rq, IInv, QueueTypes
    <3>2. p \in Task => on_rq[p] = "QUEUED" /\ ~on_cpu[p]
      BY <2>2, <2>4, StopperAlone
    <3> QED
      BY <2>2, <3>1, <3>2, Moves
  <2> QED
    BY <2>3, <2>4
<1> QED
  BY <1>1, <1>2, <1>3, <1>4, <1>5, <1>6, <1>7 DEF CpuStep

-----------------------------------------------------------------------------
(* The callers and CPU hotplug.                                            *)

LEMMA SetterStepInv ==
  ASSUME IInv, NEW s \in Setter, SetterStep(s)
  PROVE  IInv'
<1>1. CASE \E p \in Task, mask \in Masks : sched_setaffinity(s, p, mask)
  BY <1>1, Frame DEF sched_setaffinity, taskVars, cpuVars, hotVars
<1>2. CASE \E p \in Task, mask \in Masks : update_cpumask(s, p, mask)
  BY <1>2, Frame DEF update_cpumask, taskVars, cpuVars, hotVars
<1>3. CASE set_cpus_allowed_ptr(s)
  <2>1. PICK p : p = setter[s].task
    OBVIOUS
  <2>2. UNCHANGED <<state, on_rq, on_cpu, waking, curr, prev, wakelist, active, online>>
    BY <1>3 DEF set_cpus_allowed_ptr, cpuVars, hotVars
  <2>3. CASE UNCHANGED <<cpu, rq>>
    BY <2>2, <2>3, Frame
  <2>4. CASE ~UNCHANGED <<cpu, rq>>
    <3>1. PICK dest \in setter[s].mask \cap ValidMask(p) : Leave(s, p, dest)
      BY Zenon, <1>3, <2>1, <2>4 DEF set_cpus_allowed_ptr
    <3>2. ~on_cpu[p] /\ on_rq[p] = "QUEUED" /\ move_queued_task(p, dest)
      BY <2>4, <3>1 DEF Leave, PuntToStopper
    <3>3. dest \in CPU
      BY <3>1 DEF ValidMask, IInv, QueueTypes
    <3> QED
      BY Zenon, <2>2, <3>2, <3>3, Moves
  <2> QED
    BY <2>3, <2>4
<1>4. CASE Recheck(s)
  BY <1>4, Frame DEF Recheck, taskVars, cpuVars, hotVars
<1>5. CASE QueueStop(s)
  BY <1>5, Frame DEF QueueStop, taskVars
<1>6. CASE wait_for_completion(s)
  BY <1>6, Frame DEF wait_for_completion, taskVars, cpuVars, hotVars
<1>7. CASE wait_var_event(s)
  BY <1>7, Frame DEF wait_var_event, taskVars, cpuVars, hotVars
<1> QED
  BY <1>1, <1>2, <1>3, <1>4, <1>5, <1>6, <1>7 DEF SetterStep

LEMMA HotplugStepInv ==
  ASSUME IInv, NEW c \in CPU, HotplugStep(c)
  PROVE  IInv'
<1>1. /\ UNCHANGED <<state, on_rq, on_cpu, cpu, rq, waking, curr, prev, wakelist>>
      /\ active' \subseteq CPU /\ online' \subseteq CPU
  BY DEF HotplugStep, sched_cpu_deactivate, Synchronized, sched_cpu_wait_empty,
         sched_cpu_dying, sched_cpu_activate, taskVars, cpuVars, IInv, QueueTypes
<1> QED
  BY <1>1 DEF IInv, QueueTypes, OneQueue, CpuInv, WakeInv

-----------------------------------------------------------------------------
(* The theorems.                                                           *)

LEMMA InitInv == Init => IInv
BY DEF Init, IInv, QueueTypes, OneQueue, CpuInv, WakeInv

LEMMA NextInv == IInv /\ [Next]_vars => IInv'
<1> SUFFICES ASSUME IInv, [Next]_vars PROVE IInv'
  OBVIOUS
<1>1. CASE \E p \in Task : TaskStep(p) \/ try_to_wake_up(p)
  BY <1>1, TaskStepInv, WakeUpInv
<1>2. CASE \E p \in Task : attach_task(p) \/ \E c \in CPU : detach_task(p, c)
  BY <1>2, BalanceInv
<1>3. CASE \E c \in CPU : CpuStep(c) \/ HotplugStep(c)
  BY <1>3, CpuStepInv, HotplugStepInv
<1>4. CASE \E s \in Setter : SetterStep(s)
  BY <1>4, SetterStepInv
<1>5. CASE UNCHANGED vars
  BY <1>5, Frame DEF vars, taskVars, cpuVars, hotVars
<1> QED
  BY <1>1, <1>2, <1>3, <1>4, <1>5 DEF Next

(* The invariant holds in every state of the model.                        *)
THEOREM Inductive == Spec => []IInv
BY InitInv, NextInv, PTL DEF Spec

(* However __schedule(), try_to_wake_up(), the stopper, the balancer and   *)
(* the callers of sched_setaffinity() interleave, a task is in the queue   *)
(* of task_cpu(p) exactly when p->on_rq says it is queued, and in no other. *)
THEOREM OneQueueAlways == Spec => []OneQueue
<1>1. IInv => OneQueue
  BY DEF IInv
<1> QED
  BY <1>1, Inductive, PTL

(* p->on_cpu is set exactly while one CPU, task_cpu(p), runs the task or   *)
(* has not finished switching away from it.                                *)
THEOREM OneCpuAlways == Spec => []OneCpu
<1>1. IInv => OneCpu
  <2> SUFFICES ASSUME IInv, NEW t \in Task
               PROVE  {c \in CPU : curr[c] = t \/ prev[c] = t}
                        = IF on_cpu[t] THEN {cpu[t]} ELSE {}
    BY DEF OneCpu
  <2>1. \A c \in CPU : (curr[c] = t \/ prev[c] = t) <=> (on_cpu[t] /\ cpu[t] = c)
    BY DEF IInv, CpuInv
  <2>2. cpu[t] \in CPU
    BY DEF IInv, QueueTypes
  <2> QED
    BY <2>1, <2>2
<1> QED
  BY <1>1, Inductive, PTL

(* When a CPU can take the wake-up interrupt, each task of its wake list   *)
(* is off every CPU, in no queue and its own: sched_ttwu_pending() never   *)
(* warns and never queues a task twice.                                    *)
THEOREM WakeListAlwaysInOrder == Spec => []WakeListInOrder
<1>1. IInv => WakeListInOrder
  <2> SUFFICES ASSUME IInv, NEW c \in CPU, prev[c] = None, NEW t \in Task, t \in wakelist[c]
               PROVE  ~on_cpu[t] /\ cpu[t] = c /\ on_rq[t] = "no" /\ state[t] = "WAKING"
    BY DEF WakeListInOrder, RqFree, IInv, QueueTypes
  <2>1. cpu[t] = c /\ on_rq[t] = "no" /\ state[t] = "WAKING"
    BY DEF IInv, WakeInv
  <2> QED
    BY <2>1 DEF IInv, CpuInv
<1> QED
  BY <1>1, Inductive, PTL

-----------------------------------------------------------------------------
(* No wake-up is lost.                                                     *)

(* What a wake-up has to find.  A task about to sleep on a condition that  *)
(* has become true has a wake-up in front of it; a task off its queue      *)
(* sleeps, or is in the hands of a wake-up or of a wake list.              *)
SleepInv ==
  /\ DOMAIN todo = Task /\ cond \in [Task -> BOOLEAN]
  /\ \A t \in Task :
       /\ todo[t] = "schedule" /\ state[t] = "SLEEP" /\ cond[t] => waking[t] # "no"
       /\ on_rq[t] # "no" => state[t] # "WAKING"
       /\ on_rq[t] = "no" => state[t] # "RUNNING"
       /\ on_rq[t] = "no" /\ state[t] = "SLEEP" /\ cond[t] => waking[t] # "no"
       /\ on_rq[t] = "no" /\ state[t] = "WAKING" =>
            waking[t] \in {"on_cpu", "queue"} \/ t \in wakelist[cpu[t]]

LEMMA SleepFrame ==
  ASSUME IInv, SleepInv, UNCHANGED <<todo, cond, state, on_rq, cpu, waking, wakelist>>
  PROVE  SleepInv'
BY DEF SleepInv

LEMMA SleepTask ==
  ASSUME IInv, SleepInv, NEW p \in Task, TaskStep(p)
  PROVE  SleepInv'
<1>0. ASSUME NEW c \in CPU, Runs(p, c) PROVE on_rq[p] = "QUEUED"
  BY Zenon, <1>0 DEF Runs, IInv, CpuInv
<1>1. CASE SetState(p)
  BY <1>0, <1>1 DEF SetState, SleepInv, IInv, QueueTypes, maskVars, cpuVars, setVars, hotVars
<1>2. CASE CheckCondition(p)
  <2>1. /\ on_rq[p] = "QUEUED" /\ todo[p] = "check"
        /\ UNCHANGED <<on_rq, cpu, waking, wakelist>>
    BY <1>0, <1>2 DEF CheckCondition, cpuVars
  <2>2. CASE cond[p]
    <3>1. /\ state' = [state EXCEPT ![p] = "RUNNING"] /\ cond' = [cond EXCEPT ![p] = FALSE]
          /\ todo' = [todo EXCEPT ![p] = "work"]
      BY <1>2, <2>2 DEF CheckCondition
    <3> QED
      BY <2>1, <3>1 DEF SleepInv, IInv, QueueTypes
  <2>3. CASE ~cond[p]
    <3>1. todo' = [todo EXCEPT ![p] = "schedule"] /\ UNCHANGED <<state, cond>>
      BY <1>2, <2>3 DEF CheckCondition
    <3> QED
      BY <2>1, <2>3, <3>1 DEF SleepInv, IInv, QueueTypes
  <2> QED
    BY <2>2, <2>3
<1>3. CASE Resume(p)
  BY ZenonT(60), <1>0, <1>3 DEF Resume, SleepInv, IInv, QueueTypes, maskVars, cpuVars, setVars, hotVars
<1>4. CASE \E q \in Task, c \in CPU : migrate_swap(p, q, c)
  BY <1>0, <1>4 DEF migrate_swap, SleepInv, IInv, QueueTypes, maskVars, setVars, hotVars
<1>5. CASE migrate_disable(p) \/ NestedEnable(p)
  BY Zenon, <1>5, SleepFrame DEF migrate_disable, NestedEnable, taskVars, cpuVars
<1>6. CASE \E c \in CPU : migrate_enable(p, c)
  BY <1>6 DEF migrate_enable, SleepInv, taskVars, hotVars
<1>7. CASE MigrationEnabled(p)
  BY Zenon, <1>7 DEF MigrationEnabled, SleepInv, taskVars, cpuVars, setVars, hotVars
<1> QED
  BY <1>1, <1>2, <1>3, <1>4, <1>5, <1>6, <1>7 DEF TaskStep

(* An entry of the wake list replaces the wake-up.                         *)
LEMMA SleepOnWakeList ==
  ASSUME IInv, SleepInv, NEW p \in Task, waking[p] \in {"on_cpu", "queue"},
         ttwu_queue_wakelist(p, cpu[p])
  PROVE  SleepInv'
BY DEF ttwu_queue_wakelist, Unlock, taskVars, maskVars, setVars, IInv, QueueTypes, WakeInv, SleepInv

LEMMA SleepActivates ==
  ASSUME IInv, SleepInv, NEW c \in CPU, NEW P, Activate(c, P),
         \A t \in Task : t \notin P => waking'[t] = waking[t] /\ \A d \in CPU : t \in wakelist[d] => t \in wakelist'[d],
         UNCHANGED <<todo, cond>>
  PROVE  SleepInv'
BY DEF Activate, IInv, QueueTypes, SleepInv

LEMMA SleepWake ==
  ASSUME IInv, SleepInv, NEW p \in Task, try_to_wake_up(p)
  PROVE  SleepInv'
<1>1. CASE Wake(p)
  BY ZenonT(60), <1>1 DEF Wake, SleepInv, IInv, QueueTypes, PiFree, taskVars, maskVars, cpuVars, setVars, hotVars
<1>2. CASE ttwu_state_match(p)
  BY <1>2 DEF ttwu_state_match, Unlock, SleepInv, IInv, QueueTypes, taskVars, maskVars, cpuVars, setVars
<1>3. CASE ttwu_runnable(p)
  <2>1. on_rq[p] # "MIGRATING"
    BY <1>3 DEF ttwu_runnable, TaskRqFree
  <2> QED
    BY <1>3, <2>1 DEF ttwu_runnable, Unlock, SleepInv, IInv, QueueTypes, maskVars, cpuVars, setVars
<1>4. CASE WakeDescheduling(p)
  BY Zenon, <1>4, SleepOnWakeList DEF WakeDescheduling
<1>5. CASE select_task_rq(p)
  BY <1>5 DEF select_task_rq, set_task_cpu, SleepInv, IInv, QueueTypes, cpuVars, setVars, hotVars
<1>6. CASE ttwu_queue(p)
  <2>1. CASE ttwu_queue_wakelist(p, cpu[p])
    BY <1>6, <2>1, SleepOnWakeList DEF ttwu_queue
  <2>2. CASE ~ttwu_queue_wakelist(p, cpu[p])
    <3>1. Activate(cpu[p], {p}) /\ Unlock(p) /\ UNCHANGED <<todo, cond, wakelist>>
      BY <1>6, <2>2 DEF ttwu_queue, cpuVars
    <3>2. \A t \in Task : t # p => waking'[t] = waking[t]
      BY <3>1 DEF Unlock, IInv, QueueTypes
    <3>3. cpu[p] \in CPU
      BY DEF IInv, QueueTypes
    <3> QED
      BY <3>1, <3>2, <3>3, SleepActivates
  <2> QED
    BY <2>1, <2>2
<1>7. CASE WakeCurrent(p)
  <2>1. /\ cond' = [cond EXCEPT ![p] = TRUE]
        /\ state' = [state EXCEPT ![p] = IF @ = "SLEEP" THEN "RUNNING" ELSE @]
        /\ UNCHANGED <<todo, on_rq, cpu, waking, wakelist>>
    BY Zenon, <1>7 DEF WakeCurrent, cpuVars
  <2>2. on_rq[p] = "QUEUED"
    BY Zenon, <1>7 DEF WakeCurrent, Runs, IInv, CpuInv
  <2> QED
    BY <2>1, <2>2 DEF SleepInv, IInv, QueueTypes
<1> QED
  BY Zenon, <1>1, <1>2, <1>3, <1>4, <1>5, <1>6, <1>7 DEF try_to_wake_up

LEMMA SleepBalance ==
  ASSUME IInv, SleepInv, NEW p \in Task, attach_task(p) \/ \E c \in CPU : detach_task(p, c)
  PROVE  SleepInv'
BY DEF attach_task, detach_task, set_task_cpu, SleepInv, IInv, QueueTypes, maskVars, cpuVars, setVars, hotVars

LEMMA SleepSchedule ==
  ASSUME IInv, SleepInv, NEW c \in CPU, schedule(c)
  PROVE  SleepInv'
<1> DEFINE p == curr[c]
           sleeps == p \in Task /\ Deactivates(p)
<1>1. /\ on_rq' = IF sleeps THEN [on_rq EXCEPT ![p] = "no"] ELSE on_rq
      /\ todo' = IF p \in Task /\ todo[p] = "schedule" THEN [todo EXCEPT ![p] = "again"] ELSE todo
      /\ UNCHANGED <<cond, state, cpu, waking, wakelist>>
  BY DEF schedule
<1>2. sleeps => /\ on_rq[p] = "QUEUED" /\ state[p] = "SLEEP"
                /\ cond[p] => waking[p] # "no"
  BY DEF IInv, CpuInv, QueueTypes, SleepInv, Deactivates
<1> HIDE DEF p, sleeps
<1> QED
  BY <1>1, <1>2 DEF SleepInv, IInv, QueueTypes

LEMMA SleepCpu ==
  ASSUME IInv, SleepInv, NEW c \in CPU, CpuStep(c)
  PROVE  SleepInv'
<1>0. ASSUME Activate(c, wakelist[c]), wakelist' = [wakelist EXCEPT ![c] = {}],
             UNCHANGED <<todo, cond, waking>>
      PROVE  SleepInv'
  <2>1. PICK P : P = wakelist[c]
    BY Zenon
  <2>2. \A t \in Task : t \notin P => \A d \in CPU : t \in wakelist[d] => t \in wakelist'[d]
    BY <1>0, <2>1 DEF IInv, QueueTypes
  <2> QED
    BY <1>0, <2>1, <2>2, SleepActivates
<1>1. CASE schedule(c)
  BY <1>1, SleepSchedule
<1>2. CASE finish_task_switch(c)
  BY <1>2, SleepFrame DEF finish_task_switch
<1>3. CASE sched_ttwu_pending(c)
  BY <1>0, <1>3 DEF sched_ttwu_pending
<1>4. CASE flush_smp_call_function(c)
  BY <1>0, <1>4 DEF flush_smp_call_function
<1>5. CASE migration_cpu_stop(c)
  <2>1. PICK p, dest : /\ p = pend[Head(works[c]).owner].task
                       /\ dest = pend[Head(works[c]).owner].dest
    BY Zenon
  <2>2. /\ UNCHANGED <<todo, cond, state, on_rq, waking, wakelist>>
        /\ cpu' = cpu \/ (on_rq[p] = "QUEUED" /\ cpu' = [cpu EXCEPT ![p] = dest])
    BY <1>5, <2>1, Zenon DEF migration_cpu_stop, move_queued_task, set_task_cpu
  <2> QED
    BY <2>2 DEF SleepInv, IInv, QueueTypes
<1>6. CASE migrate_swap_stop(c)
  <2>1. PICK p : p = Head(works[c]).src_task
    BY Zenon
  <2>2. /\ UNCHANGED <<todo, state, on_rq, wakelist>>
        /\ \A t \in Task : cpu'[t] = cpu[t] \/ on_rq[t] = "QUEUED"
        /\ waking' = [waking EXCEPT ![p] = "match"] /\ waking[p] = "no"
        /\ cond' = [cond EXCEPT ![p] = TRUE]
    BY <1>6, <2>1 DEF migrate_swap_stop, PiFree
  <2> QED
    BY ZenonT(60), <2>2 DEF SleepInv, IInv, QueueTypes
<1>7. CASE __balance_push_cpu_stop(c)
  <2>1. PICK p : p = Head(works[c]).task
    BY Zenon
  <2>2. /\ UNCHANGED <<todo, cond, state, on_rq, waking, wakelist>>
        /\ cpu' = cpu \/ (on_rq[p] = "QUEUED" /\ \E dest : cpu' = [cpu EXCEPT ![p] = dest])
    BY <1>7, <2>1, Zenon DEF __balance_push_cpu_stop, move_queued_task, set_task_cpu
  <2> QED
    BY <2>2 DEF SleepInv, IInv, QueueTypes
<1> QED
  BY <1>1, <1>2, <1>3, <1>4, <1>5, <1>6, <1>7 DEF CpuStep

LEMMA SleepSetter ==
  ASSUME IInv, SleepInv, NEW s \in Setter, SetterStep(s)
  PROVE  SleepInv'
<1>1. UNCHANGED <<todo, cond, state, on_rq, waking, wakelist>>
  BY ZenonT(60) DEF SetterStep, sched_setaffinity, update_cpumask, set_cpus_allowed_ptr, Recheck,
         QueueStop, wait_for_completion, wait_var_event, taskVars, cpuVars
<1>2. PICK p : p = setter[s].task
  BY Zenon
<1>3. cpu' = cpu \/ (on_rq[p] = "QUEUED" /\ \E dest : cpu' = [cpu EXCEPT ![p] = dest])
  BY Zenon, <1>2 DEF SetterStep, sched_setaffinity, update_cpumask, set_cpus_allowed_ptr, Recheck, Leave,
         QueueStop, wait_for_completion, wait_var_event, taskVars, move_queued_task, set_task_cpu
<1> QED
  BY <1>1, <1>3 DEF SleepInv, IInv, QueueTypes

LEMMA SleepNext == IInv /\ SleepInv /\ [Next]_vars => SleepInv'
<1> SUFFICES ASSUME IInv, SleepInv, [Next]_vars PROVE SleepInv'
  OBVIOUS
<1>1. CASE \E p \in Task : TaskStep(p) \/ try_to_wake_up(p)
  BY <1>1, SleepTask, SleepWake
<1>2. CASE \E p \in Task : attach_task(p) \/ \E c \in CPU : detach_task(p, c)
  BY <1>2, SleepBalance
<1>3. CASE \E c \in CPU : CpuStep(c)
  BY Zenon, <1>3, SleepCpu
<1>4. CASE \E c \in CPU : HotplugStep(c)
  BY <1>4, SleepFrame DEF HotplugStep, sched_cpu_deactivate, Synchronized, sched_cpu_wait_empty,
         sched_cpu_dying, sched_cpu_activate, taskVars, cpuVars
<1>5. CASE \E s \in Setter : SetterStep(s)
  BY <1>5, SleepSetter
<1>6. CASE UNCHANGED vars
  BY <1>6, SleepFrame DEF vars, taskVars, cpuVars
<1> QED
  BY <1>1, <1>2, <1>3, <1>4, <1>5, <1>6 DEF Next

(* A task that sleeps although its condition has become true is being      *)
(* woken: neither the order of set_current_state() and the test in the     *)
(* wait loop, nor __schedule()'s second look at p->__state, nor a move to  *)
(* another queue loses the wake-up.                                        *)
THEOREM NoWakeupLost == Spec => []NoLostWakeup
<1>1. Init => SleepInv
  BY DEF Init, SleepInv
<1>2. IInv /\ SleepInv => NoLostWakeup
  BY DEF IInv, QueueTypes, SleepInv, NoLostWakeup
<1> QED
  BY <1>1, <1>2, SleepNext, Inductive, PTL DEF Spec

-----------------------------------------------------------------------------
(* CPUs that leave, and tasks that cannot migrate.                         *)

(* Which CPUs are active and online; one is always active.                 *)
HotInv ==
  /\ active # {}
  /\ hotplug \in [CPU -> {"up", "deactivated", "synced", "empty", "down"}]
  /\ \A c \in CPU : (c \in active <=> hotplug[c] = "up") /\ (c \in online <=> hotplug[c] # "down")

(* A task confined to a CPU is on it; one that cannot migrate and is not   *)
(* confined runs; the CPU of either is online.                             *)
PinInv ==
  /\ pinned \in [Task -> CPU \cup {None}] /\ disabled \in [Task -> Nat]
  /\ DOMAIN todo = Task
  /\ \A t \in Task :
       /\ pinned[t] # None => pinned[t] = cpu[t]
       /\ disabled[t] > 0 /\ pinned[t] = None => curr[cpu[t]] = t
       /\ disabled[t] > 0 => cpu[t] \in online
       /\ todo[t] = "enable" => curr[cpu[t]] = t

(* The CPU of t is active, or synchronize_rcu() still waits for the section *)
(* that chose it.                                                          *)
Chosen(t, section) ==
  cpu[t] \in active \/ (hotplug[cpu[t]] = "deactivated" /\ section \in rcu)

(* What is under way to a CPU that leaves.                                 *)
LeaveInv ==
  /\ \A t \in Task : /\ waking[t] = "queue" => disabled[t] > 0 \/ Chosen(t, t)
                     /\ on_rq[t] = "MIGRATING" => Chosen(t, <<t>>)
  /\ \A c \in CPU : hotplug[c] \in {"synced", "empty", "down"} => wakelist[c] = {}

(* The stopper pushes tasks only.                                          *)
WorkInv ==
  \E S : works \in [CPU -> Seq(S)] /\ \A w \in S : w.fn = "push" => w.task \in Task

HotplugInv == HotInv /\ PinInv /\ LeaveInv /\ Vacated /\ WorkInv

(* A task that goes to another CPU is free to, runs nowhere, is queued or  *)
(* being woken, and the CPU it goes to is active.                          *)
Moved ==
  \A t \in Task : cpu'[t] # cpu[t] =>
    /\ pinned[t] = None /\ ~on_cpu[t] /\ cpu'[t] \in active
    /\ on_rq[t] # "no" \/ state[t] = "WAKING"

HotStep == HotplugInv' /\ Moved

(* Works are appended and taken one at a time.                             *)
LEMMA WorkAppended ==
  ASSUME WorkInv, NEW c \in CPU, NEW w, w.fn = "push" => w.task \in Task,
         works' = [works EXCEPT ![c] = Append(@, w)]
  PROVE  WorkInv'
<1>1. PICK S : works \in [CPU -> Seq(S)] /\ \A v \in S : v.fn = "push" => v.task \in Task
  BY Zenon DEF WorkInv
<1> DEFINE T == S \cup {w}
<1>2. \A d \in CPU : works[d] \in Seq(T)
  BY <1>1
<1>3. Append(works[c], w) \in Seq(T)
  BY <1>2
<1> HIDE DEF T
<1>4. works' \in [CPU -> Seq(T)]
  BY <1>1, <1>2, <1>3
<1>5. \A v \in T : v.fn = "push" => v.task \in Task
  BY Zenon, <1>1 DEF T
<1> QED
  BY Zenon, <1>4, <1>5 DEF WorkInv

LEMMA WorkTaken ==
  ASSUME WorkInv, NEW c \in CPU, works[c] # <<>>
  PROVE  /\ works' = [works EXCEPT ![c] = Tail(@)] => WorkInv'
         /\ Head(works[c]).fn = "push" => Head(works[c]).task \in Task
<1>1. PICK S : works \in [CPU -> Seq(S)] /\ \A v \in S : v.fn = "push" => v.task \in Task
  BY Zenon DEF WorkInv
<1>2. works[c] \in Seq(S)
  BY <1>1
<1>3. Tail(works[c]) \in Seq(S) /\ Head(works[c]) \in S
  BY <1>2
<1>4. ASSUME works' = [works EXCEPT ![c] = Tail(@)] PROVE works' \in [CPU -> Seq(S)]
  BY Zenon, <1>1, <1>3, <1>4
<1> QED
  BY Zenon, <1>1, <1>3, <1>4 DEF WorkInv

(* A task that is on no CPU and not confined to one can migrate.           *)
LEMMA MayMigrate ==
  ASSUME IInv, PinInv, NEW t \in Task, pinned[t] = None, ~on_cpu[t]
  PROVE  ~(disabled[t] > 0) /\ todo[t] # "enable"
<1>1. cpu[t] \in CPU /\ curr[cpu[t]] # t
  BY DEF IInv, QueueTypes, CpuInv
<1> QED
  BY Zenon, <1>1 DEF PinInv

(* A step that moves tasks to active CPUs only, and puts on the queue of a *)
(* CPU that has left nothing.                                              *)
LEMMA Kept ==
  ASSUME IInv, HotplugInv, WorkInv',
         UNCHANGED <<pinned, disabled, curr, active, online, hotplug>>,
         cpu' \in [Task -> CPU], DOMAIN todo' = Task,
         \A t \in Task : todo'[t] = "enable" => todo[t] = "enable",
         Moved,
         \A t \in Task : waking'[t] = "queue" =>
             \/ waking[t] = "queue" /\ (t \in rcu => t \in rcu')
             \/ disabled[t] > 0 \/ cpu'[t] \in active,
         \A t \in Task : on_rq'[t] = "MIGRATING" =>
             \/ on_rq[t] = "MIGRATING" /\ (<<t>> \in rcu => <<t>> \in rcu')
             \/ cpu'[t] \in active,
         \A c \in CPU : c \notin active => wakelist'[c] \subseteq wakelist[c],
         \A c \in CPU : hotplug[c] \in {"empty", "down"} =>
             /\ rq'[c] \subseteq rq[c] /\ prev'[c] \in {prev[c], None}
             /\ \A t \in Task : cpu'[t] = c /\ cpu[t] = c => on_rq'[t] = on_rq[t] \/ on_rq'[t] = "no"
  PROVE  HotStep
<1>0. HotInv /\ PinInv /\ LeaveInv /\ Vacated /\ cpu \in [Task -> CPU] /\ cpu' \in [Task -> CPU]
  BY Zenon DEF HotplugInv, IInv, QueueTypes
<1>6. \A t \in Task : cpu'[t] # cpu[t] => pinned[t] = None /\ ~on_cpu[t] /\ cpu'[t] \in active
  BY Zenon DEF Moved
<1>1. HotInv'
  BY Zenon, <1>0 DEF HotInv
<1>2. \A t \in Task : cpu'[t] # cpu[t] => ~(disabled[t] > 0) /\ todo[t] # "enable"
  BY Zenon, <1>0, <1>6, MayMigrate
<1>3. PinInv'
  <2>1. ASSUME NEW t \in Task
        PROVE  /\ pinned[t] # None => pinned[t] = cpu'[t]
               /\ disabled[t] > 0 /\ pinned[t] = None => curr[cpu'[t]] = t
               /\ disabled[t] > 0 => cpu'[t] \in online
               /\ todo'[t] = "enable" => curr[cpu'[t]] = t
    <3>1. CASE cpu'[t] = cpu[t]
      BY Zenon, <1>0, <3>1 DEF PinInv
    <3>2. CASE cpu'[t] # cpu[t]
      BY Zenon, <1>2, <1>6, <3>2
    <3> QED
      BY Zenon, <3>1, <3>2
  <2> QED
    BY Zenon, <1>0, <2>1 DEF PinInv
<1>4. LeaveInv'
  <2>1. ASSUME NEW t \in Task
        PROVE  /\ waking'[t] = "queue" => disabled[t] > 0 \/ Chosen(t, t)'
               /\ on_rq'[t] = "MIGRATING" => Chosen(t, <<t>>)'
    <3>1. CASE cpu'[t] \in active
      BY Zenon, <3>1 DEF Chosen
    <3>2. CASE cpu'[t] \notin active
      BY ZenonT(60), <1>0, <1>6, <3>2 DEF Chosen, LeaveInv
    <3> QED
      BY Zenon, <3>1, <3>2
  <2>2. \A c \in CPU : hotplug[c] \in {"synced", "empty", "down"} => c \notin active
    BY Zenon, <1>0 DEF HotInv
  <2>3. \A c \in CPU : hotplug[c] \in {"synced", "empty", "down"} => wakelist'[c] = {}
    BY <1>0, <2>2 DEF LeaveInv
  <2> QED
    BY Zenon, <2>1, <2>3 DEF LeaveInv
<1>5. Vacated'
  <2> SUFFICES ASSUME NEW c \in CPU, hotplug[c] \in {"empty", "down"}
               PROVE  /\ rq'[c] = {} /\ wakelist'[c] = {} /\ ~rq_has_pinned_tasks(c)'
                      /\ curr[c] \notin Task /\ prev'[c] \notin Task
                      /\ \A t \in Task : cpu'[t] = c => on_rq'[t] = "no"
    BY Zenon DEF Vacated
  <2>1. c \notin active
    BY Zenon, <1>0 DEF HotInv
  <2>2. \A t \in Task : cpu'[t] = c => cpu[t] = c
    BY <1>6, <2>1
  <2>3. /\ rq[c] = {} /\ wakelist[c] = {} /\ ~rq_has_pinned_tasks(c)
        /\ curr[c] \notin Task /\ prev[c] \notin Task
        /\ \A t \in Task : cpu[t] = c => on_rq[t] = "no"
    BY Zenon, <1>0 DEF Vacated
  <2>4. rq'[c] = {} /\ wakelist'[c] = {}
    BY <2>1, <2>3
  <2>5. ~rq_has_pinned_tasks(c)'
    BY Zenon, <2>2, <2>3 DEF rq_has_pinned_tasks
  <2>6. curr[c] \notin Task /\ prev'[c] \notin Task
    BY <2>3
  <2>7. \A t \in Task : cpu'[t] = c => on_rq'[t] = "no"
    BY Zenon, <2>2, <2>3
  <2> QED
    BY Zenon, <2>4, <2>5, <2>6, <2>7
<1> QED
  BY Zenon, <1>1, <1>3, <1>4, <1>5 DEF HotplugInv, HotStep

(* A step that moves no task.                                              *)
LEMMA Quietly ==
  ASSUME IInv, HotplugInv, WorkInv',
         UNCHANGED <<pinned, disabled, curr, prev, active, online, hotplug, cpu, on_rq, rq>>,
         DOMAIN todo' = Task, \A t \in Task : todo'[t] = "enable" => todo[t] = "enable",
         \A t \in Task : waking'[t] = "queue" => waking[t] = "queue" /\ (t \in rcu => t \in rcu'),
         \A t \in Task : <<t>> \in rcu => <<t>> \in rcu',
         \A c \in CPU : c \notin active => wakelist'[c] \subseteq wakelist[c]
  PROVE  HotStep
<1>1. cpu' \in [Task -> CPU]
  BY Zenon DEF IInv, QueueTypes
<1>2. \A c \in CPU : /\ rq'[c] \subseteq rq[c] /\ prev'[c] \in {prev[c], None}
                     /\ \A t \in Task : on_rq'[t] = on_rq[t]
  BY Zenon
<1>3. Moved
  BY Zenon DEF Moved
<1> QED
  BY Zenon, <1>1, <1>2, <1>3, Kept

LEMMA WorkSame == ASSUME WorkInv, works' = works PROVE WorkInv'
  BY Zenon DEF WorkInv

(* stop_one_cpu_nowait() of anything but a push.                           *)
LEMMA WorkStop ==
  ASSUME WorkInv, NEW c, NEW w, w.fn # "push", online \subseteq CPU,
         works' = stop_one_cpu_nowait(c, w)
  PROVE  WorkInv'
<1>1. CASE c \in online
  BY Zenon, <1>1, WorkAppended DEF stop_one_cpu_nowait
<1>2. CASE c \notin online
  BY Zenon, <1>2, WorkSame DEF stop_one_cpu_nowait
<1> QED
  BY Zenon, <1>1, <1>2

(* The task's own steps.                                                   *)
LEMMA HotTask ==
  ASSUME IInv, HotplugInv, NEW p \in Task, TaskStep(p)
  PROVE  HotStep
<1>0. /\ HotInv /\ PinInv /\ LeaveInv /\ Vacated /\ WorkInv /\ DOMAIN todo = Task
      /\ cpu \in [Task -> CPU] /\ active \subseteq CPU /\ online \subseteq CPU
  BY Zenon DEF HotplugInv, PinInv, IInv, QueueTypes
<1>1. CASE SetState(p) \/ Resume(p) \/ CheckCondition(p)
  <2>1. /\ UNCHANGED <<pinned, disabled, curr, prev, active, online, hotplug, cpu, on_rq, rq>>
        /\ UNCHANGED <<waking, rcu, wakelist, works>>
        /\ \E v \in {"check", "schedule", "work"} : todo' = [todo EXCEPT ![p] = v]
    BY Zenon, <1>1 DEF SetState, Resume, CheckCondition, maskVars, cpuVars, setVars, hotVars
  <2>2. WorkInv' /\ DOMAIN todo' = Task /\ \A t \in Task : todo'[t] = "enable" => todo[t] = "enable"
    BY Zenon, <1>0, <2>1, WorkSame
  <2> QED
    BY Zenon, <2>1, <2>2, Quietly
<1>2. CASE \E q \in Task, c \in CPU : migrate_swap(p, q, c)
  <2>1. PICK q \in Task, c \in CPU : migrate_swap(p, q, c)
    BY Zenon, <1>2
  <2> DEFINE work == [fn |-> "swap", src_task |-> p, dst_task |-> q, src_cpu |-> c,
                      dst_cpu |-> cpu[q]]
  <2>2. /\ UNCHANGED <<pinned, disabled, curr, prev, active, online, hotplug, cpu, on_rq, rq>>
        /\ UNCHANGED <<waking, rcu, wakelist>> /\ todo' = [todo EXCEPT ![p] = "check"]
        /\ works' = [d \in CPU |-> IF d \in {c, cpu[q]} THEN Append(works[d], work) ELSE works[d]]
    BY Zenon, <2>1 DEF migrate_swap, maskVars, setVars, hotVars
  <2>3. PICK S : works \in [CPU -> Seq(S)] /\ \A v \in S : v.fn = "push" => v.task \in Task
    BY Zenon, <1>0 DEF WorkInv
  <2>4. work.fn = "swap"
    BY Zenon
  <2> HIDE DEF work
  <2> DEFINE T == S \cup {work}
  <2>5. \A d \in CPU : works[d] \in Seq(T) /\ Append(works[d], work) \in Seq(T)
    BY <2>3
  <2>6. \A v \in T : v.fn = "push" => v.task \in Task
    BY Zenon, <2>3, <2>4
  <2> HIDE DEF T
  <2>7. works' \in [CPU -> Seq(T)]
    BY Zenon, <2>2, <2>5
  <2>8. WorkInv'
    BY Zenon, <2>6, <2>7 DEF WorkInv
  <2>9. DOMAIN todo' = Task /\ \A t \in Task : todo'[t] = "enable" => todo[t] = "enable"
    BY Zenon, <1>0, <2>2
  <2> QED
    BY Zenon, <2>2, <2>8, <2>9, Quietly
<1>3. CASE migrate_disable(p) \/ NestedEnable(p)
  <2>1. PICK c \in CPU : Runs(p, c)
    BY Zenon, <1>3 DEF migrate_disable, NestedEnable
  <2>2. /\ UNCHANGED <<pinned, curr, prev, active, online, hotplug, cpu, on_rq, rq, todo>>
        /\ UNCHANGED <<waking, rcu, wakelist, works>>
    BY Zenon, <1>3 DEF migrate_disable, NestedEnable, taskVars, cpuVars, hotVars
  <2>3. disabled' \in [Task -> Nat] /\ \A t \in Task : t # p => disabled'[t] = disabled[t]
    BY <1>0, <1>3 DEF migrate_disable, NestedEnable, PinInv
  <2>4. cpu[p] = c /\ curr[c] = p /\ hotplug[c] \notin {"empty", "down"} /\ waking[p] # "queue"
    BY <1>0, <2>1 DEF Runs, IInv, CpuInv, WakeInv, Vacated
  <2>5. c \in online
    BY Zenon, <1>0, <2>4 DEF HotInv
  <2>6. PinInv'
    BY Zenon, <1>0, <2>2, <2>4, <2>5, <2>3 DEF PinInv
  <2>7. HotInv' /\ LeaveInv'
    BY Zenon, <1>0, <2>2, <2>4, <2>3 DEF HotInv, LeaveInv, Chosen
  <2>8. Vacated'
    BY ZenonT(60), <1>0, <2>2, <2>4, <2>3 DEF Vacated, rq_has_pinned_tasks
  <2> QED
    BY Zenon, <1>0, <2>2, <2>6, <2>7, <2>8, WorkSame DEF HotplugInv, HotStep, Moved
<1>4. CASE \E c \in CPU : migrate_enable(p, c)
  <2>1. PICK c \in CPU : migrate_enable(p, c)
    BY Zenon, <1>4
  <2>2. /\ curr[c] = p /\ todo' = [todo EXCEPT ![p] = "enable"]
        /\ UNCHANGED <<disabled, curr, prev, active, online, hotplug, cpu, on_rq, rq>>
        /\ UNCHANGED <<waking, rcu, wakelist>>
        /\ pinned' = pinned \/ pinned' = [pinned EXCEPT ![p] = None]
        /\ works' = works \/ \E s : works' = stop_one_cpu_nowait(c, MigrateWork(s))
    BY Zenon, <2>1 DEF migrate_enable, Runs, taskVars, hotVars
  <2>3. cpu[p] = c
    BY <2>2 DEF IInv, CpuInv
  <2>4. PinInv'
    BY ZenonT(60), <1>0, <2>2, <2>3 DEF PinInv
  <2>5. HotInv' /\ LeaveInv' /\ Vacated'
    <3>1. HotInv'
      BY Zenon, <1>0, <2>2 DEF HotInv
    <3>2. LeaveInv'
      BY Zenon, <1>0, <2>2 DEF LeaveInv, Chosen
    <3>3. Vacated'
      BY ZenonT(60), <1>0, <2>2 DEF Vacated, rq_has_pinned_tasks
    <3> QED
      BY Zenon, <3>1, <3>2, <3>3
  <2>6. \A s : MigrateWork(s).fn # "push"
    BY Zenon DEF MigrateWork
  <2>7. WorkInv'
    BY Zenon, <1>0, <2>2, <2>6, WorkSame, WorkStop
  <2> QED
    BY Zenon, <2>2, <2>4, <2>5, <2>7 DEF HotplugInv, HotStep, Moved
<1>5. CASE MigrationEnabled(p)
  <2>1. /\ todo[p] = "enable" /\ todo' = [todo EXCEPT ![p] = "work"]
        /\ UNCHANGED <<pinned, curr, prev, active, online, hotplug, cpu, on_rq, rq>>
        /\ UNCHANGED <<waking, rcu, wakelist, works>>
    BY Zenon, <1>5 DEF MigrationEnabled, taskVars, cpuVars, hotVars
  <2>2. /\ disabled' \in [Task -> Nat] /\ ~(disabled'[p] > 0)
        /\ \A t \in Task : t # p => disabled'[t] = disabled[t]
    BY <1>0, <1>5 DEF MigrationEnabled, PinInv
  <2>3. waking[p] # "queue"
    BY <1>0, <2>1 DEF PinInv, IInv, CpuInv, WakeInv
  <2>4. PinInv'
    BY Zenon, <1>0, <2>1, <2>2 DEF PinInv
  <2>5. HotInv' /\ LeaveInv'
    BY Zenon, <1>0, <2>1, <2>3, <2>2 DEF HotInv, LeaveInv, Chosen
  <2>6. Vacated'
    BY ZenonT(60), <1>0, <2>1, <2>2 DEF Vacated, rq_has_pinned_tasks
  <2> QED
    BY Zenon, <1>0, <2>1, <2>4, <2>5, <2>6, WorkSame DEF HotplugInv, HotStep, Moved
<1> QED
  BY Zenon, <1>1, <1>2, <1>3, <1>4, <1>5 DEF TaskStep

(* Unlock() ends the section of p alone.                                   *)
LEMMA UnlockSections ==
  ASSUME NEW p \in Task, rcu' = rcu \/ rcu' = rcu \ {p}
  PROVE  /\ \A t \in Task : t # p /\ t \in rcu => t \in rcu'
         /\ \A t \in Task : <<t>> \in rcu => <<t>> \in rcu'
<1>1. \A t \in Task : <<t>> # p
  BY RunQueuesAssumption
<1> QED
  BY Zenon, <1>1

(* Where select_fallback_rq() sends a task: one that is confined stays.    *)
LEMMA Fallback ==
  ASSUME IInv, HotInv, PinInv, EnableResets, NEW p \in Task, ~on_cpu[p],
         NEW mask, NEW dest \in select_fallback_rq(p, mask)
  PROVE  /\ dest \in CPU /\ dest \in online
         /\ dest # cpu[p] => pinned[p] = None
         /\ disabled[p] > 0 \/ dest \in active
<1>0. active \subseteq CPU /\ cpu[p] \in CPU /\ active \subseteq online
  BY Zenon DEF IInv, QueueTypes, HotInv
<1>1. CASE pinned[p] = None
  <2>1. ~(disabled[p] > 0)
    BY Zenon, <1>1, MayMigrate
  <2> QED
    BY Zenon, <1>0, <1>1, <2>1 DEF select_fallback_rq, is_cpu_allowed
<1>2. CASE pinned[p] # None
  <2>1. disabled[p] > 0 /\ pinned[p] = cpu[p] /\ cpu[p] \in online
    BY Zenon, <1>2 DEF EnableResets, Reset, PinInv
  <2>2. is_cpu_allowed(p, cpu[p]) /\ \A c \in CPU : is_cpu_allowed(p, c) => c = cpu[p]
    BY Zenon, <1>2, <2>1 DEF is_cpu_allowed, cpus_ptr
  <2>3. dest = cpu[p]
    BY Zenon, <1>0, <2>2 DEF select_fallback_rq
  <2> QED
    BY Zenon, <1>0, <2>1, <2>3
<1> QED
  BY Zenon, <1>1, <1>2

(* ttwu_queue_wakelist() chooses an active CPU only.                       *)
LEMMA HotWakeList ==
  ASSUME IInv, HotplugInv, NEW p \in Task, ttwu_queue_wakelist(p, cpu[p])
  PROVE  HotStep
<1>0. PinInv /\ WorkInv /\ waking \in [Task -> {"no", "match", "on_rq", "on_cpu", "queue"}]
      /\ wakelist \in [CPU -> SUBSET Task] /\ cpu[p] \in CPU
  BY Zenon DEF HotplugInv, IInv, QueueTypes
<1>1. /\ cpu[p] \in active /\ wakelist' = [wakelist EXCEPT ![cpu[p]] = @ \cup {p}]
      /\ waking' = [waking EXCEPT ![p] = "no"] /\ rcu' = rcu \ {p}
      /\ UNCHANGED <<pinned, disabled, curr, prev, active, online, hotplug, cpu, on_rq, rq>>
      /\ UNCHANGED <<todo, works>>
  BY Zenon DEF ttwu_queue_wakelist, ttwu_queue_cond, Unlock, taskVars, maskVars
<1>2. \A c \in CPU : c \notin active => wakelist'[c] \subseteq wakelist[c]
  BY Zenon, <1>0, <1>1
<1>3. \A t \in Task : waking'[t] = "queue" => waking[t] = "queue" /\ (t \in rcu => t \in rcu')
  BY Zenon, <1>0, <1>1
<1>4. WorkInv' /\ \A t \in Task : <<t>> \in rcu => <<t>> \in rcu'
  BY Zenon, <1>0, <1>1, WorkSame, UnlockSections
<1>5. DOMAIN todo' = Task /\ \A t \in Task : todo'[t] = "enable" => todo[t] = "enable"
  BY Zenon, <1>0, <1>1 DEF PinInv
<1> QED
  BY Zenon, <1>1, <1>2, <1>3, <1>4, <1>5, Quietly

(* Tasks P, all of CPU c, are put on its queue.                            *)
LEMMA HotActivate ==
  ASSUME IInv, HotplugInv, NEW c \in CPU, NEW P, Activate(c, P),
         \A t \in Task : t \in P => cpu[t] = c,
         hotplug[c] \in {"empty", "down"} => P = {},
         UNCHANGED <<pinned, disabled, curr, prev, active, online, hotplug, todo, works>>,
         \A d \in CPU : wakelist'[d] \subseteq wakelist[d],
         \A t \in Task : waking'[t] = "queue" => waking[t] = "queue" /\ (t \in rcu => t \in rcu'),
         \A t \in Task : <<t>> \in rcu => <<t>> \in rcu'
  PROVE  HotStep
<1>0. PinInv /\ WorkInv /\ cpu \in [Task -> CPU] /\ DOMAIN rq = CPU
  BY Zenon DEF HotplugInv, IInv, QueueTypes
<1>1. /\ \A t \in Task : cpu'[t] = cpu[t]
      /\ \A t \in Task : on_rq'[t] = IF t \in P THEN "QUEUED" ELSE on_rq[t]
      /\ \A d \in CPU : rq'[d] = IF d = c THEN rq[d] \cup P ELSE rq[d]
      /\ cpu' \in [Task -> CPU]
  BY Zenon, <1>0 DEF Activate
<1>2. Moved /\ \A t \in Task : on_rq'[t] = "MIGRATING" => on_rq[t] = "MIGRATING"
  BY Zenon, <1>1 DEF Moved
<1>3. ASSUME NEW d \in CPU, hotplug[d] \in {"empty", "down"}
      PROVE  /\ rq'[d] \subseteq rq[d] /\ prev'[d] \in {prev[d], None}
             /\ \A t \in Task : cpu'[t] = d /\ cpu[t] = d => on_rq'[t] = on_rq[t]
  <2>0. d = c => P = {}
    BY Zenon, <1>3
  <2>1. rq'[d] = IF d = c THEN rq[d] \cup P ELSE rq[d]
    BY Zenon, <1>1
  <2>3. rq'[d] \subseteq rq[d]
    BY ZenonT(60), <2>0, <2>1
  <2>2. \A t \in Task : cpu[t] = d => on_rq'[t] = on_rq[t]
    BY Zenon, <1>1, <2>0
  <2> QED
    BY Zenon, <2>2, <2>3
<1>4. WorkInv' /\ DOMAIN todo' = Task /\ \A t \in Task : todo'[t] = "enable" => todo[t] = "enable"
  BY Zenon, <1>0, WorkSame DEF PinInv
<1>5. \A t \in Task : waking'[t] = "queue" =>
        \/ waking[t] = "queue" /\ (t \in rcu => t \in rcu')
        \/ disabled[t] > 0 \/ cpu'[t] \in active
  BY Zenon
<1>6. \A t \in Task : on_rq'[t] = "MIGRATING" =>
        \/ on_rq[t] = "MIGRATING" /\ (<<t>> \in rcu => <<t>> \in rcu')
        \/ cpu'[t] \in active
  BY Zenon, <1>2
<1>7. \A d \in CPU : hotplug[d] \in {"empty", "down"} =>
        /\ rq'[d] \subseteq rq[d] /\ prev'[d] \in {prev[d], None}
        /\ \A t \in Task : cpu'[t] = d /\ cpu[t] = d => on_rq'[t] = on_rq[t] \/ on_rq'[t] = "no"
  BY Zenon, <1>3
<1> QED
  BY Zenon, <1>1, <1>2, <1>4, <1>5, <1>6, <1>7, Kept

(* try_to_wake_up().                                                       *)
LEMMA HotWake ==
  ASSUME IInv, HotplugInv, EnableResets, NEW p \in Task, try_to_wake_up(p)
  PROVE  HotStep
<1>0. /\ HotInv /\ PinInv /\ LeaveInv /\ Vacated /\ WorkInv /\ DOMAIN todo = Task
      /\ cpu \in [Task -> CPU] /\ wakelist \in [CPU -> SUBSET Task]
      /\ waking \in [Task -> {"no", "match", "on_rq", "on_cpu", "queue"}]
  BY Zenon DEF HotplugInv, PinInv, IInv, QueueTypes
<1>1. CASE Wake(p) \/ ttwu_state_match(p) \/ ttwu_runnable(p)
  <2>1. /\ UNCHANGED <<pinned, disabled, curr, prev, active, online, hotplug, cpu, on_rq, rq>>
        /\ UNCHANGED <<wakelist, works, todo>>
    BY Zenon, <1>1 DEF Wake, ttwu_state_match, ttwu_runnable, Unlock, taskVars, maskVars, cpuVars,
        hotVars
  <2>2. \/ rcu' = rcu /\ waking' = [waking EXCEPT ![p] = "match"]
        \/ rcu' = rcu /\ waking' = [waking EXCEPT ![p] = "on_rq"]
        \/ rcu' = rcu /\ waking' = [waking EXCEPT ![p] = "on_cpu"]
        \/ rcu' = rcu \ {p} /\ waking' = [waking EXCEPT ![p] = "no"]
    BY Zenon, <1>1 DEF Wake, ttwu_state_match, ttwu_runnable, Unlock, hotVars
  <2>3. /\ \A t \in Task : t # p /\ t \in rcu => t \in rcu'
        /\ \A t \in Task : <<t>> \in rcu => <<t>> \in rcu'
    BY Zenon, <2>2, UnlockSections
  <2>4. \A t \in Task : waking'[t] = "queue" => waking[t] = "queue" /\ (t \in rcu => t \in rcu')
    BY Zenon, <1>0, <2>2, <2>3
  <2>5. WorkInv' /\ DOMAIN todo' = Task /\ \A t \in Task : todo'[t] = "enable" => todo[t] = "enable"
    BY Zenon, <1>0, <2>1, WorkSame
  <2> QED
    BY Zenon, <2>1, <2>3, <2>4, <2>5, Quietly
<1>2. CASE WakeDescheduling(p) \/ (ttwu_queue(p) /\ ttwu_queue_wakelist(p, cpu[p]))
  BY Zenon, <1>2, HotWakeList DEF WakeDescheduling
<1>3. CASE select_task_rq(p)
  <2>1. PICK mask : \E dest \in select_fallback_rq(p, mask) : cpu' = [cpu EXCEPT ![p] = dest]
    BY Zenon, <1>3 DEF select_task_rq, set_task_cpu
  <2>2. PICK dest \in select_fallback_rq(p, mask) : cpu' = [cpu EXCEPT ![p] = dest]
    BY Zenon, <2>1
  <2>3. /\ waking[p] = "on_cpu" /\ ~on_cpu[p] /\ waking' = [waking EXCEPT ![p] = "queue"]
        /\ UNCHANGED <<pinned, disabled, curr, prev, active, online, hotplug, on_rq, rq>>
        /\ UNCHANGED <<wakelist, works, todo, rcu>>
    BY Zenon, <1>3 DEF select_task_rq, cpuVars, hotVars
  <2>4. /\ dest \in CPU /\ dest \in online
        /\ dest # cpu[p] => pinned[p] = None
        /\ disabled[p] > 0 \/ dest \in active
    BY Zenon, <1>0, <2>2, <2>3, Fallback
  <2>5. /\ cpu' \in [Task -> CPU]
        /\ Moved
    <3>1. pinned[p] = None => ~(disabled[p] > 0)
      BY Zenon, <1>0, <2>3, MayMigrate
    <3>2. state[p] = "WAKING"
      BY Zenon, <2>3 DEF IInv, WakeInv
    <3> QED
      BY Zenon, <1>0, <2>2, <2>3, <2>4, <3>1, <3>2 DEF Moved
  <2>6. \A t \in Task : waking'[t] = "queue" =>
          waking[t] = "queue" \/ disabled[t] > 0 \/ cpu'[t] \in active
    BY Zenon, <1>0, <2>2, <2>3, <2>4
  <2>7. WorkInv'
    BY Zenon, <1>0, <2>3, WorkSame
  <2>8. \A c \in CPU : /\ rq'[c] \subseteq rq[c] /\ prev'[c] \in {prev[c], None}
                       /\ wakelist'[c] \subseteq wakelist[c]
    BY Zenon, <2>3
  <2>9. \A t \in Task : on_rq'[t] = on_rq[t] /\ (todo'[t] = "enable" => todo[t] = "enable")
    BY Zenon, <2>3
  <2> QED
    BY Zenon, <1>0, <2>3, <2>5, <2>6, <2>7, <2>8, <2>9, Kept
<1>4. CASE ttwu_queue(p) /\ ~ttwu_queue_wakelist(p, cpu[p])
  <2>1. /\ waking[p] = "queue" /\ Activate(cpu[p], {p})
        /\ waking' = [waking EXCEPT ![p] = "no"] /\ rcu' = rcu \ {p}
        /\ UNCHANGED <<pinned, disabled, curr, prev, active, online, hotplug, todo, works>>
        /\ wakelist' = wakelist
    BY Zenon, <1>4 DEF ttwu_queue, Unlock, maskVars, cpuVars
  <2>2. \A t \in Task : waking'[t] = "queue" => waking[t] = "queue" /\ (t \in rcu => t \in rcu')
    BY Zenon, <1>0, <2>1
  <2>3. \A t \in Task : <<t>> \in rcu => <<t>> \in rcu'
    BY Zenon, <2>1, UnlockSections
  <2>4. cpu[p] \in CPU /\ hotplug[cpu[p]] \notin {"empty", "down"}
    <3>0. cpu[p] \in CPU
      BY Zenon, <1>0
    <3>1. disabled[p] > 0 => hotplug[cpu[p]] \notin {"empty", "down"}
      BY Zenon, <1>0, <3>0 DEF Vacated, rq_has_pinned_tasks
    <3>2. Chosen(p, p) => hotplug[cpu[p]] \notin {"empty", "down"}
      BY <1>0, <3>0 DEF Chosen, HotInv
    <3> QED
      BY Zenon, <1>0, <2>1, <3>0, <3>1, <3>2 DEF LeaveInv
  <2>5. \A t \in Task : t \in {p} => cpu[t] = cpu[p]
    BY Zenon
  <2>6. \A d \in CPU : wakelist'[d] \subseteq wakelist[d]
    BY Zenon, <2>1
  <2> QED
    BY Zenon, <2>1, <2>2, <2>3, <2>4, <2>5, <2>6, HotActivate
<1>5. CASE WakeCurrent(p)
  <2>1. /\ UNCHANGED <<pinned, disabled, curr, prev, active, online, hotplug, cpu, on_rq, rq>>
        /\ UNCHANGED <<waking, rcu, wakelist, works, todo>>
    BY Zenon, <1>5 DEF WakeCurrent, maskVars, cpuVars, hotVars
  <2>2. WorkInv'
    BY Zenon, <1>0, <2>1, WorkSame
  <2> QED
    BY Zenon, <1>0, <2>1, <2>2, Quietly
<1> QED
  BY Zenon, <1>1, <1>2, <1>3, <1>4, <1>5 DEF try_to_wake_up

(* The load balancer attaches where synchronize_rcu() waits for it.        *)
LEMMA HotBalance ==
  ASSUME IInv, HotplugInv, NEW p \in Task, attach_task(p) \/ \E c \in CPU : detach_task(p, c)
  PROVE  HotStep
<1>0. /\ HotInv /\ PinInv /\ LeaveInv /\ WorkInv /\ DOMAIN todo = Task
      /\ cpu \in [Task -> CPU] /\ DOMAIN rq = CPU /\ DOMAIN on_rq = Task
  BY Zenon DEF HotplugInv, PinInv, IInv, QueueTypes
<1>1. CASE attach_task(p)
  <2>1. /\ on_rq[p] = "MIGRATING" /\ rq' = [rq EXCEPT ![cpu[p]] = @ \cup {p}]
        /\ on_rq' = [on_rq EXCEPT ![p] = "QUEUED"] /\ rcu' = rcu \ {<<p>>}
        /\ UNCHANGED <<pinned, disabled, curr, prev, active, online, hotplug, cpu>>
        /\ UNCHANGED <<waking, wakelist, works, todo>>
    BY Zenon, <1>1 DEF attach_task, maskVars, cpuVars
  <2>2. cpu[p] \in CPU /\ hotplug[cpu[p]] \notin {"empty", "down"}
    <3>1. cpu[p] \in CPU /\ Chosen(p, <<p>>)
      BY Zenon, <1>0, <2>1 DEF LeaveInv
    <3> QED
      BY <1>0, <3>1 DEF Chosen, HotInv
  <2>3. \A d \in CPU : hotplug[d] \in {"empty", "down"} => rq'[d] \subseteq rq[d]
    BY Zenon, <1>0, <2>1, <2>2
  <2>4. ASSUME NEW t \in Task PROVE (t \in rcu => t \in rcu')
    <3>1. t # <<p>>
      BY RunQueuesAssumption
    <3> QED
      BY <1>0, <2>1, <3>1
  <2>5. ASSUME NEW t \in Task, on_rq'[t] = "MIGRATING"
        PROVE  on_rq[t] = "MIGRATING" /\ (<<t>> \in rcu => <<t>> \in rcu')
    <3>1. t # p
      BY Zenon, <1>0, <2>1, <2>5
    <3>2. <<t>> # <<p>>
      BY <3>1
    <3> QED
      BY Zenon, <1>0, <2>1, <2>5, <3>1, <3>2
  <2>6. \A d \in CPU : hotplug[d] \in {"empty", "down"} =>
          \A t \in Task : cpu'[t] = d /\ cpu[t] = d => on_rq'[t] = on_rq[t]
    BY Zenon, <1>0, <2>1, <2>2
  <2>7. Moved /\ WorkInv' /\ DOMAIN todo' = Task /\ cpu' \in [Task -> CPU]
    BY Zenon, <1>0, <2>1, WorkSame DEF Moved
  <2>8. \A d \in CPU : prev'[d] \in {prev[d], None} /\ wakelist'[d] \subseteq wakelist[d]
    BY Zenon, <2>1
  <2>9. \A t \in Task : /\ waking'[t] = "queue" => waking[t] = "queue"
                        /\ todo'[t] = "enable" => todo[t] = "enable"
    BY Zenon, <2>1
  <2>10. UNCHANGED <<pinned, disabled, curr, active, online, hotplug>>
    BY Zenon, <2>1
  <2>11. \A d \in CPU : hotplug[d] \in {"empty", "down"} =>
           /\ rq'[d] \subseteq rq[d] /\ prev'[d] \in {prev[d], None}
           /\ \A t \in Task : cpu'[t] = d /\ cpu[t] = d => on_rq'[t] = on_rq[t] \/ on_rq'[t] = "no"
    BY Zenon, <2>3, <2>6, <2>8
  <2> QED
    BY Zenon, <2>4, <2>5, <2>7, <2>8, <2>9, <2>10, <2>11, Kept
<1>2. ASSUME NEW dest \in CPU, detach_task(p, dest)
      PROVE  HotStep
  <2>1. /\ on_rq[p] = "QUEUED" /\ ~on_cpu[p] /\ dest # cpu[p] /\ dest \in cpus_ptr(p) \cap active
        /\ rq' = [rq EXCEPT ![cpu[p]] = @ \ {p}] /\ on_rq' = [on_rq EXCEPT ![p] = "MIGRATING"]
        /\ cpu' = [cpu EXCEPT ![p] = dest]
        /\ UNCHANGED <<pinned, disabled, curr, prev, active, online, hotplug>>
        /\ UNCHANGED <<waking, wakelist, works, todo, rcu>>
    BY Zenon, <1>2 DEF detach_task, set_task_cpu, maskVars, cpuVars, hotVars
  <2>2. pinned[p] = None /\ dest \in active
    BY Zenon, <1>0, <2>1 DEF PinInv, cpus_ptr
  <2>3. Moved /\ cpu' \in [Task -> CPU]
    <3>1. on_rq[p] # "no"
      BY Zenon, <2>1
    <3> QED
      BY Zenon, <1>0, <2>1, <2>2, <3>1 DEF Moved
  <2>4. \A t \in Task : on_rq'[t] = "MIGRATING" =>
          \/ on_rq[t] = "MIGRATING" /\ (<<t>> \in rcu => <<t>> \in rcu')
          \/ cpu'[t] \in active
    BY Zenon, <1>0, <2>1, <2>2
  <2>5. \A d \in CPU : rq'[d] \subseteq rq[d]
    BY <1>0, <2>1
  <2>6. \A d \in CPU, t \in Task : cpu'[t] = d /\ cpu[t] = d => on_rq'[t] = on_rq[t]
    BY Zenon, <1>0, <2>1
  <2>7. WorkInv' /\ DOMAIN todo' = Task
    BY Zenon, <1>0, <2>1, WorkSame
  <2>8. \A d \in CPU : prev'[d] \in {prev[d], None} /\ wakelist'[d] \subseteq wakelist[d]
    BY Zenon, <2>1
  <2>9. \A t \in Task : /\ waking'[t] = "queue" => waking[t] = "queue" /\ (t \in rcu => t \in rcu')
                        /\ todo'[t] = "enable" => todo[t] = "enable"
    BY Zenon, <2>1
  <2>10. UNCHANGED <<pinned, disabled, curr, active, online, hotplug>>
    BY Zenon, <2>1
  <2>11. \A d \in CPU : hotplug[d] \in {"empty", "down"} =>
           /\ rq'[d] \subseteq rq[d] /\ prev'[d] \in {prev[d], None}
           /\ \A t \in Task : cpu'[t] = d /\ cpu[t] = d => on_rq'[t] = on_rq[t] \/ on_rq'[t] = "no"
    BY Zenon, <2>5, <2>6, <2>8
  <2> QED
    BY Zenon, <2>3, <2>4, <2>7, <2>8, <2>9, <2>10, <2>11, Kept
<1> QED
  BY Zenon, <1>1, <1>2

(* move_queued_task() to an active CPU, or to the one the task is on.      *)
LEMMA HotMove ==
  ASSUME IInv, HotplugInv, WorkInv', NEW p, NEW dest \in CPU, move_queued_task(p, dest),
         dest \in active \/ (dest = cpu[p] /\ p \in rq[dest]),
         p \in Task => /\ ~on_cpu[p] /\ on_rq[p] = "QUEUED"
                       /\ dest \in active => pinned[p] = None \/ dest = cpu[p],
         UNCHANGED <<pinned, disabled, curr, prev, active, online, hotplug>>,
         UNCHANGED <<on_rq, waking, wakelist, todo, rcu>>
  PROVE  HotStep
<1>0. HotInv /\ Vacated /\ cpu \in [Task -> CPU] /\ DOMAIN rq = CPU /\ DOMAIN todo = Task
  BY Zenon DEF HotplugInv, PinInv, IInv, QueueTypes
<1>1. /\ cpu' = [cpu EXCEPT ![p] = dest]
      /\ rq' = [rq EXCEPT ![cpu[p]] = @ \ {p}, ![dest] = @ \cup {p}]
  BY Zenon DEF move_queued_task, set_task_cpu
<1>2. cpu' \in [Task -> CPU]
  BY Zenon, <1>0, <1>1
<1>3. Moved
  <2>1. \A t \in Task : cpu'[t] # cpu[t] => t = p /\ cpu'[t] = dest
    BY Zenon, <1>0, <1>1
  <2>2. p \in Task => on_rq[p] # "no"
    BY Zenon
  <2> QED
    BY Zenon, <2>1, <2>2 DEF Moved
<1>4. hotplug[dest] \notin {"empty", "down"}
  BY <1>0 DEF HotInv, Vacated
<1>5. \A d \in CPU : d # dest => rq'[d] \subseteq rq[d]
  BY <1>0, <1>1
<1>6. \A d \in CPU : hotplug[d] \in {"empty", "down"} => rq'[d] \subseteq rq[d]
  BY Zenon, <1>4, <1>5
<1>7. \A d \in CPU : prev'[d] \in {prev[d], None} /\ wakelist'[d] \subseteq wakelist[d]
  BY Zenon
<1>8. \A t \in Task : /\ waking'[t] = "queue" => waking[t] = "queue" /\ (t \in rcu => t \in rcu')
                      /\ todo'[t] = "enable" => todo[t] = "enable"
                      /\ on_rq'[t] = on_rq[t] /\ (<<t>> \in rcu => <<t>> \in rcu')
  BY Zenon
<1> QED
  BY Zenon, <1>0, <1>2, <1>3, <1>6, <1>7, <1>8, Kept

(* balance_push() queues work for a task only.                             *)
LEMMA WorkPush ==
  ASSUME WorkInv, NEW c \in CPU, NEW p, works' = [works EXCEPT ![c] = balance_push(c, p)]
  PROVE  WorkInv'
<1> DEFINE w == [fn |-> "push", task |-> p]
<1>1. CASE p \in Task /\ balance_push(c, p) = Append(works[c], w)
  <2>1. w.task = p
    BY Zenon
  <2> HIDE DEF w
  <2>2. works' = [works EXCEPT ![c] = Append(@, w)]
    BY <1>1
  <2> QED
    BY Zenon, <1>1, <2>1, <2>2, WorkAppended
<1>2. CASE balance_push(c, p) = works[c]
  <2>1. PICK S : works \in [CPU -> S]
    BY Zenon DEF WorkInv
  <2>2. works' = works
    BY <1>2, <2>1
  <2> QED
    BY Zenon, <2>2, WorkSame
<1> QED
  BY Zenon, <1>1, <1>2 DEF balance_push

(* __schedule(): a task that may not migrate is confined when it leaves    *)
(* its CPU, and a CPU that has left has none to pick.                      *)
LEMMA HotSchedule ==
  ASSUME IInv, HotplugInv, NEW c \in CPU, schedule(c)
  PROVE  HotStep
<1>0. /\ HotInv /\ PinInv /\ LeaveInv /\ Vacated /\ WorkInv /\ DOMAIN todo = Task
      /\ cpu \in [Task -> CPU] /\ DOMAIN rq = CPU /\ DOMAIN on_rq = Task
      /\ DOMAIN curr = CPU /\ DOMAIN prev = CPU /\ pinned \in [Task -> CPU \cup {None}]
  BY Zenon DEF HotplugInv, PinInv, IInv, QueueTypes
<1>1. PICK p, sleeps, queue :
        /\ p = curr[c] /\ sleeps = (p \in Task /\ Deactivates(p))
        /\ queue = IF sleeps THEN rq[c] \ {p} ELSE rq[c]
  BY Zenon
<1>2. PICK next \in pick_next_task(c, queue) :
        /\ curr' = [curr EXCEPT ![c] = next]
        /\ prev' = [prev EXCEPT ![c] = IF next = p THEN None ELSE p]
        /\ pinned' = IF next # p /\ p \in Task THEN migrate_disable_switch(p, c) ELSE pinned
        /\ works' = IF next = p THEN [works EXCEPT ![c] = balance_push(c, p)] ELSE works
  BY Zenon, <1>1 DEF schedule
<1>3. /\ Preemptible(c) /\ rq' = [rq EXCEPT ![c] = queue]
      /\ on_rq' = IF sleeps THEN [on_rq EXCEPT ![p] = "no"] ELSE on_rq
      /\ todo' = IF p \in Task /\ todo[p] = "schedule" THEN [todo EXCEPT ![p] = "again"] ELSE todo
      /\ UNCHANGED <<cpu, disabled, waking, wakelist, active, online, hotplug, rcu>>
  BY Zenon, <1>1 DEF schedule, hotVars
<1>4. WorkInv'
  BY ZenonT(60), <1>0, <1>2, WorkSame, WorkPush
<1>5. p \in Task => cpu[p] = c
  BY <1>1 DEF IInv, CpuInv
<1>6. DOMAIN todo' = Task /\ \A t \in Task : todo'[t] = "enable" => todo[t] = "enable"
  BY Zenon, <1>0, <1>3
<1>7. \A t \in Task : on_rq'[t] = on_rq[t] \/ on_rq'[t] = "no"
  BY Zenon, <1>0, <1>3
<1>8. HotInv' /\ LeaveInv'
  <2>1. HotInv'
    BY Zenon, <1>0, <1>3 DEF HotInv
  <2>2. \A t \in Task : on_rq'[t] = "MIGRATING" => on_rq[t] = "MIGRATING"
    BY Zenon, <1>7
  <2> QED
    BY Zenon, <1>0, <1>3, <2>1, <2>2 DEF LeaveInv, Chosen
<1>9. PinInv'
  <2>1. /\ pinned' \in [Task -> CPU \cup {None}]
        /\ \A t \in Task : pinned'[t] # pinned[t] => t = p /\ pinned'[t] = c
    BY Zenon, <1>0, <1>2 DEF migrate_disable_switch
  <2>2. ASSUME NEW t \in Task
        PROVE  /\ pinned'[t] # None => pinned'[t] = cpu[t]
               /\ disabled[t] > 0 /\ pinned'[t] = None => curr'[cpu[t]] = t
               /\ todo'[t] = "enable" => curr'[cpu[t]] = t
    <3>1. pinned'[t] # None => pinned'[t] = cpu[t]
      BY Zenon, <1>0, <1>5, <2>1 DEF PinInv
    <3>2. CASE curr[cpu[t]] = t /\ cpu[t] = c
      <4>1. t = p
        BY Zenon, <1>1, <3>2
      <4>2. next = p => curr'[c] = t
        BY Zenon, <1>0, <1>2, <4>1
      <4>3. ASSUME next # p, disabled[t] > 0 PROVE pinned'[t] # None
        <5>1. pinned' = IF pinned[p] = None THEN [pinned EXCEPT ![p] = c] ELSE pinned
          BY Zenon, <1>2, <4>1, <4>3 DEF migrate_disable_switch
        <5>2. c # None
          BY RunQueuesAssumption
        <5> QED
          BY Zenon, <1>0, <4>1, <5>1, <5>2
      <4>4. todo'[t] # "enable"
        BY Zenon, <1>1, <1>3, <1>6, <4>1 DEF Preemptible
      <4> QED
        BY Zenon, <3>1, <3>2, <4>2, <4>3, <4>4
    <3>3. CASE curr[cpu[t]] # t \/ cpu[t] # c
      <4>1. curr[cpu[t]] = t => curr'[cpu[t]] = t
        BY Zenon, <1>0, <1>2, <3>3
      <4>2. pinned'[t] = None => pinned[t] = None
        <5>1. c # None
          BY RunQueuesAssumption
        <5> QED
          BY Zenon, <2>1, <5>1
      <4> QED
        BY Zenon, <1>0, <1>6, <3>1, <4>1, <4>2 DEF PinInv
    <3> QED
      BY Zenon, <3>2, <3>3
  <2> QED
    BY Zenon, <1>0, <1>3, <1>6, <2>1, <2>2 DEF PinInv
<1>10. Vacated'
  <2>1. ASSUME hotplug[c] \in {"empty", "down"}
        PROVE  queue = {} /\ next \notin Task /\ p \notin Task
    <3>1. p \notin Task /\ rq[c] = {}
      BY Zenon, <1>0, <1>1, <2>1 DEF Vacated
    <3>2. queue = {}
      BY <1>1, <3>1
    <3>3. next \in {Stop, Idle}
      BY <1>2, <3>2 DEF pick_next_task
    <3> QED
      BY <3>1, <3>2, <3>3, RunQueuesAssumption
  <2>2. None \notin Task
    BY RunQueuesAssumption
  <2>3. ASSUME NEW d \in CPU, hotplug[d] \in {"empty", "down"}
        PROVE  /\ rq'[d] = {} /\ curr'[d] \notin Task /\ prev'[d] \notin Task
               /\ \A t \in Task : cpu[t] = d => on_rq'[t] = "no"
    <3>1. /\ rq[d] = {} /\ curr[d] \notin Task /\ prev[d] \notin Task
          /\ \A t \in Task : cpu[t] = d => on_rq[t] = "no"
      BY Zenon, <1>0, <2>3 DEF Vacated
    <3>2. rq'[d] = {}
      BY Zenon, <1>0, <1>3, <2>1, <2>3, <3>1
    <3>3. curr'[d] \notin Task /\ prev'[d] \notin Task
      BY Zenon, <1>0, <1>2, <2>1, <2>2, <2>3, <3>1
    <3> QED
      BY Zenon, <1>7, <3>1, <3>2, <3>3
  <2>4. \A d \in CPU : hotplug[d] \in {"empty", "down"} =>
          wakelist[d] = {} /\ ~rq_has_pinned_tasks(d)'
    BY Zenon, <1>0, <1>3 DEF Vacated, rq_has_pinned_tasks
  <2> QED
    BY Zenon, <1>3, <2>3, <2>4 DEF Vacated
<1> QED
  BY Zenon, <1>3, <1>4, <1>8, <1>9, <1>10 DEF HotplugInv, HotStep, Moved

(* migration_cpu_stop(): a task it moves can migrate.                      *)
LEMMA HotMigrate ==
  ASSUME IInv, HotplugInv, EnableResets, NEW c \in CPU, migration_cpu_stop(c)
  PROVE  HotStep
<1>0. WorkInv /\ DOMAIN todo = Task /\ active \subseteq CPU /\ online \subseteq CPU
  BY Zenon DEF HotplugInv, PinInv, IInv, QueueTypes
<1>1. PICK s, p, dest : /\ s = Head(works[c]).owner /\ p = pend[s].task
                        /\ dest = pend[s].dest
  BY Zenon
<1> DEFINE popped == [works EXCEPT ![c] = Tail(@)]
<1>2. /\ curr[c] = Stop /\ prev[c] = None /\ works[c] # <<>>
      /\ UNCHANGED <<pinned, disabled, curr, prev, active, online, hotplug>>
      /\ UNCHANGED <<on_rq, waking, wakelist, todo, rcu>>
      /\ \/ UNCHANGED <<cpu, rq>>
         \/ /\ cpu[p] = c /\ ~(disabled[p] > 0) /\ on_rq[p] = "QUEUED" /\ is_cpu_allowed(p, dest)
            /\ move_queued_task(p, dest)
  BY Zenon, <1>1 DEF migration_cpu_stop, MustStay, Stopper, RqFree, maskVars, hotVars
<1>3. \/ works' = popped
      \/ \E d \in online : works' = [popped EXCEPT ![d] = Append(@, MigrateWork(s))]
  BY Zenon, <1>1 DEF migration_cpu_stop
<1>4. WorkInv'
  <2>1. PICK S : works \in [CPU -> Seq(S)] /\ \A v \in S : v.fn = "push" => v.task \in Task
    BY Zenon, <1>0 DEF WorkInv
  <2> DEFINE T == S \cup {MigrateWork(s)}
  <2>2. \A v \in T : v.fn = "push" => v.task \in Task
    <3>1. MigrateWork(s).fn # "push"
      BY Zenon DEF MigrateWork
    <3> QED
      BY Zenon, <2>1, <3>1
  <2>3. \A d \in CPU : works[d] \in Seq(T)
    BY <2>1
  <2>4. Tail(works[c]) \in Seq(T)
    BY <1>2, <2>3
  <2>5. \A q \in Seq(T) : Append(q, MigrateWork(s)) \in Seq(T)
    OBVIOUS
  <2> HIDE DEF T
  <2>6. popped \in [CPU -> Seq(T)]
    BY Zenon, <2>1, <2>3, <2>4
  <2> HIDE DEF popped
  <2>7. works' \in [CPU -> Seq(T)]
    <3>1. \A d \in online : [popped EXCEPT ![d] = Append(@, MigrateWork(s))] \in [CPU -> Seq(T)]
      BY Zenon, <1>0, <2>5, <2>6
    <3>2. CASE works' = popped
      BY Zenon, <2>6, <3>2
    <3>3. ASSUME NEW d \in online, works' = [popped EXCEPT ![d] = Append(@, MigrateWork(s))]
          PROVE  works' \in [CPU -> Seq(T)]
      BY Zenon, <3>1, <3>3
    <3> QED
      BY Zenon, <1>3, <3>2, <3>3
  <2> QED
    BY Zenon, <2>2, <2>7 DEF WorkInv
<1>5. CASE UNCHANGED <<cpu, rq>>
  BY Zenon, <1>0, <1>2, <1>4, <1>5, Quietly
<1>6. CASE ~UNCHANGED <<cpu, rq>>
  <2>1. dest \in active /\ dest \in CPU
    BY Zenon, <1>0, <1>2, <1>6 DEF is_cpu_allowed
  <2>2. p \in Task => ~on_cpu[p] /\ on_rq[p] = "QUEUED" /\ pinned[p] = None
    BY Zenon, <1>2, <1>6, StopperAlone DEF EnableResets, Reset
  <2> QED
    BY Zenon, <1>2, <1>4, <1>6, <2>1, <2>2, HotMove
<1> QED
  BY Zenon, <1>5, <1>6

(* migrate_swap_stop(): a task confined to its CPU is not sent elsewhere.  *)
LEMMA HotSwap ==
  ASSUME IInv, HotplugInv, NEW c \in CPU, migrate_swap_stop(c)
  PROVE  HotStep
<1>0. /\ HotInv /\ PinInv /\ WorkInv /\ DOMAIN todo = Task /\ DOMAIN rq = CPU
      /\ cpu \in [Task -> CPU] /\ active \subseteq CPU
      /\ waking \in [Task -> {"no", "match", "on_rq", "on_cpu", "queue"}]
  BY Zenon DEF HotplugInv, PinInv, IInv, QueueTypes
<1>1. PICK p, q, d : /\ p = Head(works[c]).src_task /\ q = Head(works[c]).dst_task
                     /\ d = Head(works[c]).dst_cpu
  BY ZenonT(60)
<1> DEFINE swaps == /\ {c, d} \subseteq active
                    /\ cpu[q] = d /\ cpu[p] = c
                    /\ d \in cpus_ptr(p) /\ c \in cpus_ptr(q)
           moved == {t \in {p, q} : swaps /\ on_rq[t] = "QUEUED"}
           half == __migrate_swap_task(rq, p, d)
<1>2. /\ curr[c] = Stop /\ prev[c] = None /\ curr[d] = Stop /\ prev[d] = None
      /\ works[c] # <<>> /\ works[d] # <<>>
      /\ works' = [works EXCEPT ![c] = Tail(@), ![d] = Tail(@)]
      /\ rq' = IF swaps THEN __migrate_swap_task(half, q, c) ELSE rq
      /\ cpu' = [t \in Task |-> IF t \in moved THEN IF t = p THEN d ELSE c ELSE cpu[t]]
      /\ waking' = [waking EXCEPT ![p] = "match"]
      /\ UNCHANGED <<pinned, disabled, curr, prev, active, online, hotplug>>
      /\ UNCHANGED <<on_rq, wakelist, todo, rcu>>
  BY <1>1 DEF migrate_swap_stop, Stopper, RqFree, maskVars, hotVars
<1>3. \A t \in Task : cpu'[t] # cpu[t] =>
        /\ on_rq[t] = "QUEUED" /\ swaps
        /\ (t = p /\ cpu'[t] = d) \/ (t = q /\ cpu'[t] = c)
  BY Zenon, <1>2
<1>4. swaps => \A e \in CPU : e \notin {c, d} => rq'[e] \subseteq rq[e]
  <2> SUFFICES ASSUME swaps, NEW e \in CPU, e # c, e # d PROVE rq'[e] \subseteq rq[e]
    BY Zenon
  <2>1. DOMAIN half = CPU /\ half[e] \subseteq rq[e]
    BY <1>0 DEF __migrate_swap_task
  <2> HIDE DEF half
  <2>2. rq' = __migrate_swap_task(half, q, c)
    BY Zenon, <1>2
  <2>3. rq'[e] \subseteq half[e]
    BY <2>1, <2>2 DEF __migrate_swap_task
  <2> QED
    BY Zenon, <2>1, <2>3
<1> HIDE DEF half
<1>5. WorkInv'
  <2>1. PICK S : works \in [CPU -> Seq(S)] /\ \A v \in S : v.fn = "push" => v.task \in Task
    BY Zenon, <1>0 DEF WorkInv
  <2>2. Tail(works[c]) \in Seq(S)
    BY <1>2, <2>1
  <2>3. \A r \in Seq(S) : r # <<>> => Tail(r) \in Seq(S)
    OBVIOUS
  <2>4. works' \in [CPU -> Seq(S)]
    <3>1. CASE c = d
      BY Zenon, <1>2, <2>1, <2>2, <3>1
    <3>2. CASE c # d
      BY Zenon, <1>2, <2>1, <2>2, <2>3, <3>2
    <3> QED
      BY Zenon, <3>1, <3>2
  <2> QED
    BY Zenon, <2>1, <2>4 DEF WorkInv
<1>6. cpu' \in [Task -> CPU]
  BY Zenon, <1>0, <1>2
<1>7. Moved
  <2> SUFFICES ASSUME NEW t \in Task, cpu'[t] # cpu[t]
               PROVE  /\ pinned[t] = None /\ ~on_cpu[t] /\ cpu'[t] \in active
                      /\ on_rq[t] # "no"
    BY Zenon DEF Moved
  <2>1. /\ on_rq[t] = "QUEUED" /\ swaps
        /\ (t = p /\ cpu'[t] = d) \/ (t = q /\ cpu'[t] = c)
    BY Zenon, <1>3
  <2>2. c \in active /\ d \in active /\ d \in CPU
    BY Zenon, <1>0, <2>1
  <2>3. ~on_cpu[t]
    BY Zenon, <1>2, <2>1, <2>2, StopperAlone
  <2>4. pinned[t] = None
    BY Zenon, <1>0, <2>1 DEF PinInv, cpus_ptr
  <2> QED
    BY Zenon, <2>1, <2>2, <2>3, <2>4
<1>8. \A e \in CPU : hotplug[e] \in {"empty", "down"} => rq'[e] \subseteq rq[e]
  <2>1. CASE swaps
    <3>1. \A e \in CPU : hotplug[e] \in {"empty", "down"} => e \notin {c, d}
      BY <1>0, <2>1 DEF HotInv
    <3> QED
      BY Zenon, <1>4, <2>1, <3>1
  <2>2. CASE ~swaps
    BY Zenon, <1>2, <2>2
  <2> QED
    BY Zenon, <2>1, <2>2
<1> HIDE DEF swaps, moved
<1>9. \A e \in CPU : prev'[e] \in {prev[e], None} /\ wakelist'[e] \subseteq wakelist[e]
  BY Zenon, <1>2
<1>10. \A t \in Task : /\ waking'[t] = "queue" => waking[t] = "queue" /\ (t \in rcu => t \in rcu')
                       /\ todo'[t] = "enable" => todo[t] = "enable"
                       /\ on_rq'[t] = on_rq[t] /\ (<<t>> \in rcu => <<t>> \in rcu')
  BY Zenon, <1>0, <1>2
<1>11. UNCHANGED <<pinned, disabled, curr, active, online, hotplug>> /\ DOMAIN todo' = Task
  BY Zenon, <1>0, <1>2
<1> QED
  BY Zenon, <1>5, <1>6, <1>7, <1>8, <1>9, <1>10, <1>11, Kept

(* The steps of a CPU.                                                     *)
LEMMA HotCpu ==
  ASSUME IInv, HotplugInv, EnableResets, NEW c \in CPU, CpuStep(c)
  PROVE  HotStep
<1>0. /\ HotInv /\ PinInv /\ LeaveInv /\ WorkInv /\ DOMAIN todo = Task
      /\ cpu \in [Task -> CPU] /\ wakelist \in [CPU -> SUBSET Task] /\ DOMAIN prev = CPU
  BY Zenon DEF HotplugInv, PinInv, IInv, QueueTypes
<1>1. CASE finish_task_switch(c)
  <2>1. /\ prev' = [prev EXCEPT ![c] = None]
        /\ works' = [works EXCEPT ![c] = balance_push(c, curr[c])]
        /\ UNCHANGED <<pinned, disabled, curr, active, online, hotplug>>
        /\ UNCHANGED <<cpu, rq, on_rq, waking, wakelist, todo, rcu>>
    BY Zenon, <1>1 DEF finish_task_switch, maskVars, hotVars
  <2>2. WorkInv'
    <3>1. PICK p : p = curr[c]
      BY Zenon
    <3>2. works' = [works EXCEPT ![c] = balance_push(c, p)]
      BY Zenon, <2>1, <3>1 DEF balance_push
    <3> QED
      BY Zenon, <1>0, <3>2, WorkPush
  <2>3. Moved /\ cpu' \in [Task -> CPU] /\ DOMAIN todo' = Task
    BY Zenon, <1>0, <2>1 DEF Moved
  <2>4. \A d \in CPU : /\ prev'[d] \in {prev[d], None} /\ rq'[d] \subseteq rq[d]
                       /\ wakelist'[d] \subseteq wakelist[d]
    BY Zenon, <1>0, <2>1
  <2>5. \A t \in Task : /\ waking'[t] = "queue" => waking[t] = "queue" /\ (t \in rcu => t \in rcu')
                        /\ todo'[t] = "enable" => todo[t] = "enable"
                        /\ on_rq'[t] = on_rq[t] /\ (<<t>> \in rcu => <<t>> \in rcu')
    BY Zenon, <2>1
  <2>6. UNCHANGED <<pinned, disabled, curr, active, online, hotplug>>
    BY Zenon, <2>1
  <2> QED
    BY Zenon, <2>2, <2>3, <2>4, <2>5, <2>6, Kept
<1>2. CASE sched_ttwu_pending(c) \/ flush_smp_call_function(c)
  <2>1. /\ Activate(c, wakelist[c]) /\ wakelist' = [wakelist EXCEPT ![c] = {}]
        /\ UNCHANGED <<pinned, disabled, curr, prev, active, online, hotplug, todo, works>>
        /\ UNCHANGED <<waking, rcu>>
    BY Zenon, <1>2 DEF sched_ttwu_pending, flush_smp_call_function, maskVars, hotVars
  <2>2. \A t \in Task : t \in wakelist[c] => cpu[t] = c
    BY Zenon DEF IInv, WakeInv
  <2>3. hotplug[c] \in {"empty", "down"} => wakelist[c] = {}
    BY Zenon, <1>0 DEF LeaveInv
  <2>4. \A d \in CPU : wakelist'[d] \subseteq wakelist[d]
    BY <1>0, <2>1
  <2>5. \A t \in Task : /\ waking'[t] = "queue" => waking[t] = "queue" /\ (t \in rcu => t \in rcu')
                        /\ <<t>> \in rcu => <<t>> \in rcu'
    BY Zenon, <2>1
  <2> QED
    BY Zenon, <2>1, <2>2, <2>3, <2>4, <2>5, HotActivate
<1>3. CASE __balance_push_cpu_stop(c)
  <2>1. PICK p : p = Head(works[c]).task
    BY Zenon
  <2>2. /\ curr[c] = Stop /\ prev[c] = None /\ works[c] # <<>> /\ Head(works[c]).fn = "push"
        /\ works' = [works EXCEPT ![c] = Tail(@)]
        /\ UNCHANGED <<pinned, disabled, curr, prev, active, online, hotplug>>
        /\ UNCHANGED <<on_rq, waking, wakelist, todo, rcu>>
        /\ \/ UNCHANGED <<cpu, rq>>
           \/ /\ cpu[p] = c /\ on_rq[p] = "QUEUED"
              /\ \E mask : \E dest \in select_fallback_rq(p, mask) : move_queued_task(p, dest)
    BY Zenon, <1>3, <2>1 DEF __balance_push_cpu_stop, Stopper, RqFree, hotVars
  <2>3. WorkInv' /\ p \in Task
    BY Zenon, <1>0, <2>1, <2>2, WorkTaken
  <2>4. CASE UNCHANGED <<cpu, rq>>
    BY Zenon, <1>0, <2>2, <2>3, <2>4, Quietly
  <2>5. CASE ~UNCHANGED <<cpu, rq>>
    <3>0. PICK mask : \E dest \in select_fallback_rq(p, mask) : move_queued_task(p, dest)
      BY Zenon, <2>2, <2>5
    <3>1. PICK dest \in select_fallback_rq(p, mask) : move_queued_task(p, dest)
      BY Zenon, <3>0
    <3>2. cpu[p] = c /\ on_rq[p] = "QUEUED" /\ ~on_cpu[p] /\ p \in rq[c]
      <4>1. cpu[p] = c /\ on_rq[p] = "QUEUED"
        BY Zenon, <2>2, <2>5
      <4> QED
        BY Zenon, <2>2, <2>3, <4>1, StopperAlone DEF IInv, OneQueue
    <3>3. /\ dest \in CPU
          /\ dest # cpu[p] => pinned[p] = None
          /\ disabled[p] > 0 \/ dest \in active
      BY Zenon, <1>0, <2>3, <3>1, <3>2, Fallback
    <3>4. dest \in active \/ dest = cpu[p]
      BY Zenon, <1>0, <2>3, <3>2, <3>3, MayMigrate
    <3> QED
      BY Zenon, <2>2, <2>3, <3>1, <3>2, <3>3, <3>4, HotMove
  <2> QED
    BY Zenon, <2>4, <2>5
<1> QED
  BY Zenon, <1>1, <1>2, <1>3, HotSchedule, HotMigrate, HotSwap DEF CpuStep

(* The callers: what affine_move_task() moves itself can migrate.          *)
LEMMA HotSetter ==
  ASSUME IInv, HotplugInv, EnableResets, NEW s \in Setter, SetterStep(s)
  PROVE  HotStep
<1>0. /\ WorkInv /\ DOMAIN todo = Task /\ active \subseteq CPU /\ online \subseteq CPU
  BY Zenon DEF HotplugInv, PinInv, IInv, QueueTypes
<1>1. CASE set_cpus_allowed_ptr(s)
  <2>1. PICK p : p = setter[s].task
    BY Zenon
  <2>2. /\ UNCHANGED <<pinned, disabled, curr, prev, active, online, hotplug>>
        /\ UNCHANGED <<on_rq, waking, wakelist, todo, rcu, works>>
    BY Zenon, <1>1 DEF set_cpus_allowed_ptr, cpuVars, hotVars
  <2>3. WorkInv'
    BY Zenon, <1>0, <2>2, WorkSame
  <2>4. CASE UNCHANGED <<cpu, rq>>
    BY Zenon, <1>0, <2>2, <2>3, <2>4, Quietly
  <2>5. CASE ~UNCHANGED <<cpu, rq>>
    <3>1. PICK dest \in setter[s].mask \cap ValidMask(p) : Leave(s, p, dest)
      BY Zenon, <1>1, <2>1, <2>5 DEF set_cpus_allowed_ptr
    <3>2. /\ ~on_cpu[p] /\ ~(disabled[p] > 0) /\ on_rq[p] = "QUEUED" /\ move_queued_task(p, dest)
      BY Zenon, <2>5, <3>1 DEF Leave, PuntToStopper
    <3>3. dest \in active /\ dest \in CPU
      BY Zenon, <1>0, <3>1, <3>2 DEF ValidMask
    <3>4. p \in Task => pinned[p] = None
      BY Zenon, <3>2 DEF EnableResets, Reset
    <3> QED
      BY Zenon, <2>2, <2>3, <3>2, <3>3, <3>4, HotMove
  <2> QED
    BY Zenon, <2>4, <2>5
<1>2. CASE QueueStop(s)
  <2>1. /\ works' = stop_one_cpu_nowait(setter[s].cpu, MigrateWork(setter[s].on))
        /\ rcu' = rcu \ {s}
        /\ UNCHANGED <<pinned, disabled, curr, prev, active, online, hotplug, cpu, on_rq, rq>>
        /\ UNCHANGED <<waking, wakelist, todo>>
    BY Zenon, <1>2 DEF QueueStop, taskVars, maskVars
  <2>2. WorkInv'
    <3>1. PICK c, w : c = setter[s].cpu /\ w = MigrateWork(setter[s].on)
      BY Zenon
    <3>2. w.fn # "push"
      BY Zenon, <3>1 DEF MigrateWork
    <3>3. works' = stop_one_cpu_nowait(c, w) /\ WorkInv /\ online \subseteq CPU
      BY Zenon, <1>0, <2>1, <3>1
    <3> QED
      BY Zenon, <3>2, <3>3, WorkStop
  <2>3. \A t \in Task : t # s /\ <<t>> # s
    BY RunQueuesAssumption
  <2>4. \A t \in Task : (t \in rcu => t \in rcu') /\ (<<t>> \in rcu => <<t>> \in rcu')
    BY Zenon, <2>1, <2>3
  <2> QED
    BY Zenon, <1>0, <2>1, <2>2, <2>4, Quietly
<1>3. CASE \/ \E p \in Task, mask \in Masks : sched_setaffinity(s, p, mask) \/ update_cpumask(s, p, mask)
           \/ Recheck(s) \/ wait_for_completion(s) \/ wait_var_event(s)
  <2>1. /\ UNCHANGED <<pinned, disabled, curr, prev, active, online, hotplug, cpu, on_rq, rq>>
        /\ UNCHANGED <<waking, wakelist, todo, works, rcu>>
    BY Zenon, <1>3 DEF sched_setaffinity, update_cpumask, Recheck, wait_for_completion,
        wait_var_event, taskVars, maskVars, cpuVars, hotVars
  <2>2. WorkInv'
    BY Zenon, <1>0, <2>1, WorkSame
  <2> QED
    BY Zenon, <1>0, <2>1, <2>2, Quietly
<1> QED
  BY Zenon, <1>1, <1>2, <1>3 DEF SetterStep

(* CPU hotplug: synchronize_rcu() waits for those that chose the CPU while *)
(* it was active, and sched_cpu_wait_empty() for those that are on it.     *)
LEMMA HotHotplug ==
  ASSUME IInv, HotplugInv, NEW c \in CPU, HotplugStep(c)
  PROVE  HotStep
<1>0. /\ HotInv /\ PinInv /\ LeaveInv /\ Vacated /\ WorkInv /\ cpu \in [Task -> CPU]
      /\ hotplug \in [CPU -> {"up", "deactivated", "synced", "empty", "down"}]
  BY Zenon DEF HotplugInv, HotInv, IInv, QueueTypes
<1>1. /\ UNCHANGED <<pinned, disabled, curr, prev, cpu, on_rq, rq>>
      /\ UNCHANGED <<waking, wakelist, todo, works>>
  BY Zenon DEF HotplugStep, sched_cpu_deactivate, Synchronized, sched_cpu_wait_empty,
         sched_cpu_dying, sched_cpu_activate, taskVars, maskVars, cpuVars
<1>2. WorkInv' /\ Moved
  BY Zenon, <1>0, <1>1, WorkSame DEF Moved
<1>3. ASSUME NEW v \in {"up", "deactivated", "synced", "empty", "down"},
             hotplug' = [hotplug EXCEPT ![c] = v]
      PROVE  /\ hotplug' \in [CPU -> {"up", "deactivated", "synced", "empty", "down"}]
             /\ hotplug'[c] = v /\ \A d \in CPU : d # c => hotplug'[d] = hotplug[d]
  BY Zenon, <1>0, <1>3
<1>4. ASSUME online' = online \/ (online' = online \ {c} /\ ~rq_has_pinned_tasks(c))
             \/ online' = online \cup {c}
      PROVE  PinInv'
  BY Zenon, <1>0, <1>1, <1>4 DEF PinInv, rq_has_pinned_tasks
<1>5. ASSUME NEW v \in {"up", "deactivated", "synced"}, hotplug' = [hotplug EXCEPT ![c] = v]
      PROVE  Vacated'
  BY <1>0, <1>1, <1>3, <1>5 DEF Vacated, rq_has_pinned_tasks
<1>6. CASE sched_cpu_deactivate(c)
  <2>1. /\ \A d \in CPU : hotplug[d] \in {"up", "down"}
        /\ active # {c} /\ active' = active \ {c} /\ online' = online /\ hotplug[c] = "up"
        /\ hotplug' = [hotplug EXCEPT ![c] = "deactivated"]
        /\ \A t \in Task : waking[t] # "no" => t \in rcu'
        /\ \A t \in Task : on_rq[t] = "MIGRATING" => <<t>> \in rcu'
    BY Zenon, <1>6 DEF sched_cpu_deactivate, PiFree
  <2>2. HotInv'
    <3>1. active' # {}
      BY <1>0, <2>1 DEF HotInv
    <3> QED
      BY Zenon, <1>0, <1>3, <2>1, <3>1 DEF HotInv
  <2>3. ASSUME NEW t \in Task, NEW section, Chosen(t, section), section \in rcu'
        PROVE  Chosen(t, section)'
    <3>1. cpu[t] \in CPU /\ cpu[t] \in active
      BY ZenonT(60), <1>0, <2>1, <2>3 DEF Chosen
    <3> QED
      BY Zenon, <1>0, <1>1, <2>1, <2>3, <3>1 DEF Chosen
  <2>4. LeaveInv'
    BY Zenon, <1>0, <1>1, <1>3, <2>1, <2>3 DEF LeaveInv
  <2> QED
    BY Zenon, <1>2, <1>4, <1>5, <2>1, <2>2, <2>4 DEF HotplugInv, HotStep
<1>7. CASE Synchronized(c)
  <2>1. /\ hotplug[c] = "deactivated" /\ rcu = {} /\ wakelist[c] = {}
        /\ online' = online /\ rcu' = rcu
        /\ \/ hotplug' = [hotplug EXCEPT ![c] = "synced"] /\ active' = active
           \/ hotplug' = [hotplug EXCEPT ![c] = "up"] /\ active' = active \cup {c}
    BY Zenon, <1>7 DEF Synchronized
  <2>2. HotInv' /\ Vacated'
    BY <1>0, <1>3, <1>5, <2>1 DEF HotInv
  <2>3. \A t \in Task : \A section : Chosen(t, section) => Chosen(t, section)'
    <3>1. \A t \in Task : \A section : Chosen(t, section) => cpu[t] \in active
      BY Zenon, <2>1 DEF Chosen
    <3> QED
      BY Zenon, <1>1, <2>1, <3>1 DEF Chosen
  <2>4. \A d \in CPU : hotplug'[d] \in {"synced", "empty", "down"} => wakelist'[d] = {}
    BY Zenon, <1>0, <1>1, <1>3, <2>1 DEF LeaveInv
  <2> QED
    BY Zenon, <1>0, <1>1, <1>2, <1>4, <2>1, <2>2, <2>3, <2>4 DEF HotplugInv, HotStep, LeaveInv
<1>8. CASE sched_cpu_wait_empty(c)
  <2>1. /\ hotplug[c] = "synced" /\ balance_hotplug_wait(c)
        /\ hotplug' = [hotplug EXCEPT ![c] = "empty"] /\ active' = active
        /\ online' = online /\ rcu' = rcu
    BY Zenon, <1>8 DEF sched_cpu_wait_empty
  <2>2. HotInv' /\ LeaveInv'
    <3>1. HotInv'
      BY Zenon, <1>0, <1>3, <2>1 DEF HotInv
    <3>2. \A t \in Task : \A section : Chosen(t, section) => Chosen(t, section)'
      BY <1>0, <1>1, <1>3, <2>1 DEF Chosen
    <3> QED
      BY Zenon, <1>0, <1>1, <1>3, <2>1, <3>1, <3>2 DEF LeaveInv
  <2>3. /\ rq[c] = {} /\ wakelist[c] = {} /\ ~rq_has_pinned_tasks(c)
        /\ curr[c] \notin Task /\ prev[c] \notin Task
        /\ \A t \in Task : cpu[t] = c => on_rq[t] = "no"
    <3>1. rq[c] = {} /\ ~rq_has_pinned_tasks(c) /\ curr[c] = Idle /\ prev[c] = None
      BY Zenon, <2>1 DEF balance_hotplug_wait, RqFree
    <3>2. curr[c] \notin Task /\ prev[c] \notin Task
      BY <3>1, RunQueuesAssumption
    <3>3. wakelist[c] = {}
      BY Zenon, <1>0, <2>1 DEF LeaveInv
    <3>4. ASSUME NEW t \in Task, cpu[t] = c PROVE on_rq[t] = "no"
      <4>1. on_rq[t] \in {"no", "QUEUED", "MIGRATING"}
        BY Zenon DEF IInv, QueueTypes
      <4>2. on_rq[t] # "QUEUED"
        BY Zenon, <3>1, <3>4 DEF IInv, OneQueue
      <4>3. on_rq[t] # "MIGRATING"
        BY Zenon, <1>0, <2>1, <3>4 DEF LeaveInv, Chosen, HotInv
      <4> QED
        BY Zenon, <4>1, <4>2, <4>3
    <3> QED
      BY Zenon, <3>1, <3>2, <3>3, <3>4
  <2>4. Vacated'
    <3>1. \A d \in CPU : hotplug'[d] \in {"empty", "down"} =>
            d = c \/ hotplug[d] \in {"empty", "down"}
      BY Zenon, <1>3, <2>1
    <3> QED
      BY ZenonT(60), <1>0, <1>1, <2>3, <3>1 DEF Vacated, rq_has_pinned_tasks
  <2> QED
    BY Zenon, <1>2, <1>4, <2>1, <2>2, <2>4 DEF HotplugInv, HotStep
<1>9. CASE sched_cpu_dying(c)
  <2>1. /\ hotplug[c] = "empty" /\ hotplug' = [hotplug EXCEPT ![c] = "down"]
        /\ online' = online \ {c} /\ active' = active /\ rcu' = rcu
    BY Zenon, <1>9 DEF sched_cpu_dying
  <2>2. HotInv' /\ LeaveInv'
    <3>1. HotInv'
      BY Zenon, <1>0, <1>3, <2>1 DEF HotInv
    <3>2. \A t \in Task : \A section : Chosen(t, section) => Chosen(t, section)'
      BY <1>0, <1>1, <1>3, <2>1 DEF Chosen
    <3> QED
      BY Zenon, <1>0, <1>1, <1>3, <2>1, <3>1, <3>2 DEF LeaveInv
  <2>3. Vacated'
    <3>1. \A d \in CPU : hotplug'[d] \in {"empty", "down"} => hotplug[d] \in {"empty", "down"}
      BY Zenon, <1>3, <2>1
    <3> QED
      BY ZenonT(60), <1>0, <1>1, <3>1 DEF Vacated, rq_has_pinned_tasks
  <2>4. ~rq_has_pinned_tasks(c)
    BY Zenon, <1>0, <2>1 DEF Vacated
  <2> QED
    BY Zenon, <1>2, <1>4, <2>1, <2>2, <2>3, <2>4 DEF HotplugInv, HotStep
<1>10. CASE sched_cpu_activate(c)
  <2>1. /\ hotplug[c] = "down" /\ hotplug' = [hotplug EXCEPT ![c] = "up"]
        /\ online' = online \cup {c} /\ active' = active \cup {c} /\ rcu' = rcu
    BY Zenon, <1>10 DEF sched_cpu_activate
  <2>2. HotInv' /\ LeaveInv'
    <3>1. HotInv'
      BY Zenon, <1>0, <1>3, <2>1 DEF HotInv
    <3>2. \A t \in Task : \A section : Chosen(t, section) => Chosen(t, section)'
      BY Zenon, <1>0, <1>1, <1>3, <2>1 DEF Chosen
    <3> QED
      BY Zenon, <1>0, <1>1, <1>3, <2>1, <3>1, <3>2 DEF LeaveInv
  <2> QED
    BY Zenon, <1>2, <1>4, <1>5, <2>1, <2>2 DEF HotplugInv, HotStep
<1> QED
  BY Zenon, <1>6, <1>7, <1>8, <1>9, <1>10 DEF HotplugStep

LEMMA HotNext == IInv /\ HotplugInv /\ EnableResets /\ [Next]_vars => HotStep
<1> SUFFICES ASSUME IInv, HotplugInv, EnableResets, [Next]_vars PROVE HotStep
  BY Zenon
<1>1. CASE UNCHANGED vars
  <2>1. /\ UNCHANGED <<pinned, disabled, curr, prev, active, online, hotplug, cpu, on_rq, rq>>
        /\ UNCHANGED <<waking, wakelist, todo, works, rcu>>
    BY Zenon, <1>1 DEF vars, taskVars, maskVars, cpuVars, setVars, hotVars
  <2>2. WorkInv' /\ DOMAIN todo' = Task
    BY Zenon, <2>1, WorkSame DEF HotplugInv, PinInv
  <2> QED
    BY Zenon, <2>1, <2>2, Quietly
<1>2. CASE Next
  BY Zenon, <1>2, HotTask, HotWake, HotBalance, HotCpu, HotHotplug, HotSetter DEF Next
<1> QED
  BY Zenon, <1>1, <1>2

LEMMA HotInit == Init => HotplugInv
<1> SUFFICES ASSUME Init PROVE HotplugInv
  BY Zenon
<1>1. HotInv /\ Vacated /\ LeaveInv
  BY Zenon DEF Init, HotInv, Vacated, LeaveInv
<1>2. PinInv
  BY DEF Init, PinInv
<1>3. WorkInv
  <2>1. works \in [CPU -> Seq({})]
    BY DEF Init
  <2> QED
    BY Zenon, <2>1 DEF WorkInv
<1> QED
  BY Zenon, <1>1, <1>2, <1>3 DEF HotplugInv

(* While migrate_enable() always resets cpus_ptr, a CPU that has passed    *)
(* sched_cpu_wait_empty() stays empty: wake-ups, balancers, stoppers and   *)
(* callers that chose it earlier have been waited for or turn back.        *)
THEOREM CpusAlwaysVacated == Spec /\ []EnableResets => []Vacated
<1>1. HotplugInv => Vacated
  BY Zenon DEF HotplugInv
<1>2. IInv /\ HotplugInv /\ EnableResets /\ [Next]_vars => HotplugInv'
  BY Zenon, HotNext DEF HotStep
<1> QED
  BY Inductive, HotInit, <1>1, <1>2, PTL DEF Spec

(* Under the same condition set_task_cpu() never moves a task that called  *)
(* migrate_disable(), runs or sleeps, nor one to a CPU that is offline.    *)
THEOREM PinnedAlwaysStay == Spec /\ []EnableResets => PinnedStays
<1>1. ASSUME IInv, HotplugInv, HotplugInv', Moved, NEW t \in Task
      PROVE  /\ disabled[t] > 0 /\ disabled'[t] > 0 /\ pinned[t] \in {None, cpu[t]}
                  => cpu'[t] = cpu[t] /\ cpu[t] \in online'
             /\ cpu'[t] # cpu[t] => /\ cpu'[t] \in online /\ ~on_cpu[t]
                                    /\ on_rq[t] # "no" \/ state[t] = "WAKING"
  <2>1. /\ PinInv /\ PinInv' /\ HotInv /\ cpu[t] \in CPU /\ active \subseteq CPU
    BY Zenon, <1>1 DEF HotplugInv, IInv, QueueTypes
  <2>2. \A c \in active : c \in online
    BY <2>1 DEF HotInv
  <2>3. cpu'[t] # cpu[t] => ~(disabled[t] > 0)
    BY Zenon, <1>1, <2>1, MayMigrate DEF Moved
  <2>4. disabled'[t] > 0 => cpu'[t] \in online'
    BY Zenon, <2>1 DEF PinInv
  <2> QED
    BY Zenon, <1>1, <2>2, <2>3, <2>4 DEF Moved
<1>2. IInv /\ HotplugInv /\ EnableResets /\ [Next]_vars =>
        /\ HotplugInv'
        /\ [\A t \in Task :
              /\ disabled[t] > 0 /\ disabled'[t] > 0 /\ pinned[t] \in {None, cpu[t]}
                  => cpu'[t] = cpu[t] /\ cpu[t] \in online'
              /\ cpu'[t] # cpu[t] => /\ cpu'[t] \in online /\ ~on_cpu[t]
                                     /\ on_rq[t] # "no" \/ state[t] = "WAKING"]_vars
  BY Zenon, HotNext, <1>1 DEF HotStep
<1> QED
  BY Inductive, HotInit, <1>2, PTL DEF Spec, PinnedStays

(* Under the same condition select_fallback_rq() never comes to its BUG(): *)
(* a task it is asked about has an allowed CPU, or can be given one.       *)
THEOREM FallbackAlwaysFinds ==
  Spec /\ []EnableResets => [](\A t \in Task : \A mask \in FallbackMasks(t) : select_fallback_rq(t, mask) # {})
<1>1. ASSUME IInv, HotplugInv, EnableResets, NEW t \in Task, NEW mask \in FallbackMasks(t)
      PROVE  select_fallback_rq(t, mask) # {}
  <2>1. CASE \E c \in CPU : is_cpu_allowed(t, c)
    BY <2>1 DEF select_fallback_rq
  <2>2. CASE ~\E c \in CPU : is_cpu_allowed(t, c)
    <3>1. active \subseteq CPU /\ active # {} /\ PinInv
      BY Zenon, <1>1 DEF HotplugInv, HotInv, IInv, QueueTypes
    <3>2. pinned[t] = None
      <4>1. ASSUME pinned[t] # None PROVE is_cpu_allowed(t, pinned[t]) /\ pinned[t] \in CPU
        BY Zenon, <1>1, <3>1, <4>1 DEF EnableResets, Reset, PinInv, is_cpu_allowed, cpus_ptr
      <4> QED
        BY Zenon, <2>2, <4>1
    <3>3. mask \cap active # {}
      BY <1>1, <2>2, <3>1 DEF FallbackMasks
    <3> QED
      BY Zenon, <2>2, <3>2, <3>3 DEF select_fallback_rq
  <2> QED
    BY Zenon, <2>1, <2>2
<1>2. IInv /\ HotplugInv /\ EnableResets =>
        \A t \in Task : \A mask \in FallbackMasks(t) : select_fallback_rq(t, mask) # {}
  BY Zenon, <1>1
<1>3. IInv /\ HotplugInv /\ EnableResets /\ [Next]_vars => HotplugInv'
  BY Zenon, HotNext DEF HotStep
<1> QED
  BY Inductive, HotInit, <1>2, <1>3, PTL DEF Spec

=============================================================================
