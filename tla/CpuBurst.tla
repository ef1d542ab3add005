------------------------------ MODULE CpuBurst ------------------------------
(***************************************************************************)
(* The kernel half of assignment 3 (src/3/20193018_PLUS-1): sched_fork     *)
(* makes every new task SCHED_FIFO, __schedule measures CPU bursts,        *)
(* do_exit logs them for the tasks called "testp", and testp itself        *)
(* (assignment3p.c) forks its children one after the other and waits for   *)
(* each.  One CPU: the README asks for it, and testp pins its children to  *)
(* CPU 0.                                                                  *)
(*                                                                         *)
(* The task <<r, 0>> is the r-th run of testp, <<r, i>> its i-th child,    *)
(* <<0, 0>> the shell that starts the runs one after the other, <<0, j>>   *)
(* the other tasks of the CPU: the idle task, the stopper, and whatever    *)
(* runs while the real-time class is throttled.                            *)
(***************************************************************************)
EXTENDS Integers, Sequences, FiniteSets, Functions

CONSTANTS
  N,           \* children per run of testp, 21 in the source
  Runs,        \* bound: runs of testp
  Background,  \* number of other tasks
  MaxTime,     \* bound: the last reading of the clock
  ForkMayFail  \* whether fork() can fail

ASSUME CpuBurstAssumption ==
  /\ N \in Nat \ {0}
  /\ Runs \in Nat \ {0}
  /\ Background \in Nat \ {0}
  /\ MaxTime \in Nat
  /\ ForkMayFail \in BOOLEAN

Shell == <<0, 0>>
Others == {0} \X (1 .. Background)
Testp == (1 .. Runs) \X (0 .. N)
Tasks == {Shell} \cup Others \cup Testp
Measured == {Shell} \cup Testp
NoTask == <<0, -1>>

Policies == {"SCHED_NORMAL", "SCHED_FIFO"}

VARIABLES
  now,                \* ktime_get_real_ns()
  curr,               \* rq->curr
  queue,              \* the runnable tasks of the shell and of testp, in the
                      \* order in which they became runnable
  state,              \* task_struct::__state
  zombies,            \* the tasks in EXIT_ZOMBIE
  policy,             \* task_struct::policy
  cpu_burst,          \* task_struct::cpu_burst
  cpu_burst_start,    \* task_struct::cpu_burst_start
  next,               \* the local variable of __schedule on a task's kernel stack
  switching,          \* curr has yet to return from context_switch()
  pc,                 \* what a task does next
  forked,             \* the number of children of a task so far
  CHILD_PROCESS_COUNT, cpu_burst_total_tsk,   \* the statics of exit.c
  log                 \* the printk lines of do_exit, from the last TOTAL line on

burst == <<cpu_burst, cpu_burst_start>>
sched == <<curr, queue, state, next, switching>>
statics == <<CHILD_PROCESS_COUNT, cpu_burst_total_tsk, log>>
vars == <<now, burst, sched, statics, zombies, policy, pc, forked>>

parent(t) == IF t[2] = 0 THEN Shell ELSE <<t[1], 0>>
lastChild(t) == IF t = Shell THEN <<forked[t], 0>> ELSE <<t[1], forked[t]>>

(***************************************************************************)
(* The scheduling classes (kernel/sched/rt.c and fair.c, not in this       *)
(* repository): the first FIFO task of the queue runs, a normal one only   *)
(* when there is none, and in any order.                                   *)
(***************************************************************************)
fifoTasks(q) == {n \in DOMAIN q : policy[q[n]] = "SCHED_FIFO"}

pick_next_task(q) ==
  Others \cup IF fifoTasks(q) = {} THEN Range(q)
              ELSE {q[n] : n \in {n \in fifoTasks(q) : \A m \in fifoTasks(q) : n <= m}}

\* A task that blocks leaves the queue.
deactivate_task(q, t) ==
  LET n == CHOOSE n \in DOMAIN q : q[n] = t
  IN  SubSeq(q, 1, n - 1) \o SubSeq(q, n + 1, Len(q))

(***************************************************************************)
(* __schedule, from the point where prev is off the queue if it blocks.    *)
(* The burst of prev is taken only when prev stays runnable.  Then the     *)
(* stack is switched: what follows is executed by the new task, with ITS   *)
(* `next`, and not at all by a task that never called __schedule before,   *)
(* which starts in schedule_tail.  The fields of the other tasks are not   *)
(* kept, nor those of a dead task: nothing reads them.                     *)
(***************************************************************************)
burstOf(prev, prevState) ==
  CASE prevState = "TASK_RUNNING" -> now - cpu_burst_start[prev]
    [] prevState = "TASK_INTERRUPTIBLE" -> cpu_burst[prev]
    [] prevState = "TASK_DEAD" -> 0

schedule(prev, prevState, q) ==
  \E t \in pick_next_task(q) \ {prev} :
    /\ cpu_burst' = [u \in Measured |-> IF u = prev THEN burstOf(u, prevState)
                                                     ELSE cpu_burst[u]]
    /\ state' = [state EXCEPT ![prev] = prevState, ![t] = "TASK_RUNNING"]
    /\ queue' = q
    /\ curr' = t
    /\ next' = [next EXCEPT ![prev] = IF prevState = "TASK_DEAD" THEN NoTask ELSE t]
    /\ switching' = (next[t] # NoTask)

\* The task whose task_struct a pointer to t reaches.  A task that is dead and
\* reaped is freed, and the memory may belong to a task forked after it.
youngerThan(t) ==
  {u \in Testp : /\ state[u] \in {"TASK_RUNNING", "TASK_INTERRUPTIBLE"}
                 /\ u[1] > t[1] \/ (u[1] = t[1] /\ u[2] > t[2] /\ t[2] > 0)}
pointedTo(t) ==
  IF state[t] # "TASK_DEAD" THEN {t}
  ELSE {NoTask} \cup IF t \in zombies THEN {} ELSE youngerThan(t)

\* The line after context_switch().
StampNext ==
  /\ switching
  /\ \E p \in pointedTo(next[curr]) :
       cpu_burst_start' = IF p \in Measured
                            THEN [cpu_burst_start EXCEPT ![p] = now]
                            ELSE cpu_burst_start
  /\ switching' = FALSE
  /\ UNCHANGED <<now, cpu_burst, curr, queue, state, next, statics,
                 zombies, policy, pc, forked>>

Running(t, place) == curr = t /\ ~switching /\ pc[t] = place

\* A running task is preempted: by a higher class, or because the real-time
\* class is throttled.  It keeps its place in the queue.
Preempt ==
  /\ ~switching
  /\ curr \notin Others
  /\ schedule(curr, "TASK_RUNNING", queue)
  /\ UNCHANGED <<now, cpu_burst_start, statics, zombies, policy, pc, forked>>

\* One of the other tasks gives the CPU back, preempted or to sleep.
OthersSwitch ==
  /\ ~switching
  /\ curr \in Others
  /\ \E s \in {"TASK_RUNNING", "TASK_INTERRUPTIBLE"} :
       schedule(curr, s, queue)
  /\ UNCHANGED <<now, cpu_burst_start, statics, zombies, policy, pc, forked>>

Tick ==
  /\ now < MaxTime
  /\ now' = now + 1
  /\ UNCHANGED <<burst, sched, statics, zombies, policy, pc, forked>>

(***************************************************************************)
(* fork(): the task_struct is a copy of the parent's, sched_fork sets the  *)
(* policy, wake_up_new_task queues the child.                              *)
(***************************************************************************)
sched_forkInherits(t, child) ==
  /\ policy' = [policy EXCEPT ![child] = policy[t]]
  /\ cpu_burst' = [cpu_burst EXCEPT ![child] = cpu_burst[t]]
  /\ cpu_burst_start' = [cpu_burst_start EXCEPT ![child] = cpu_burst_start[t]]

sched_fork(t, child) ==
  /\ policy' = [policy EXCEPT ![child] = "SCHED_FIFO"]
  /\ cpu_burst' = [cpu_burst EXCEPT ![child] = cpu_burst[t]]
  /\ cpu_burst_start' = [cpu_burst_start EXCEPT ![child] = cpu_burst_start[t]]

wake_up_new_task(child) ==
  /\ state' = [state EXCEPT ![child] = "TASK_RUNNING"]
  /\ queue' = Append(queue, child)

fork(t) ==
  LET child == IF t = Shell THEN <<forked[t] + 1, 0>> ELSE <<t[1], forked[t] + 1>>
  IN  /\ sched_fork(t, child)
      /\ wake_up_new_task(child)
      /\ forked' = [forked EXCEPT ![t] = @ + 1]
      /\ pc' = [pc EXCEPT ![t] = "wait"]
      /\ UNCHANGED <<now, curr, next, switching, statics, zombies>>

ShellStarts ==
  /\ Running(Shell, "user")
  /\ forked[Shell] < Runs
  /\ fork(Shell)

\* testp's loop: fork, then waitpid; a failing fork ends the program.
ParentForks(t) ==
  /\ t[2] = 0
  /\ Running(t, "user")
  /\ forked[t] < N
  /\ fork(t)

ParentExits(t) ==
  /\ t[2] = 0
  /\ Running(t, "user")
  /\ forked[t] = N \/ ForkMayFail
  /\ pc' = [pc EXCEPT ![t] = "exit"]
  /\ UNCHANGED <<now, burst, sched, statics, zombies, policy, forked>>

\* A child works for any length of time, or fails to set its affinity, and exits.
ChildExits(t) ==
  /\ t[2] # 0
  /\ Running(t, "user")
  /\ pc' = [pc EXCEPT ![t] = "exit"]
  /\ UNCHANGED <<now, burst, sched, statics, zombies, policy, forked>>

\* waitpid() finds the zombie and releases it ...
Reap(t) ==
  /\ Running(t, "wait")
  /\ lastChild(t) \in zombies
  /\ zombies' = zombies \ {lastChild(t)}
  /\ pc' = [pc EXCEPT ![t] = "user"]
  /\ UNCHANGED <<now, burst, sched, statics, policy, forked>>

WaitSleepsRunning(t) ==
  /\ Running(t, "wait")
  /\ lastChild(t) \notin zombies
  /\ schedule(t, "TASK_RUNNING", queue)
  /\ UNCHANGED <<now, cpu_burst_start, statics, zombies, policy, pc, forked>>

\* ... or sleeps.
WaitSleeps(t) ==
  /\ Running(t, "wait")
  /\ lastChild(t) \notin zombies
  /\ schedule(t, "TASK_INTERRUPTIBLE", deactivate_task(queue, t))
  /\ UNCHANGED <<now, cpu_burst_start, statics, zombies, policy, pc, forked>>

(***************************************************************************)
(* do_exit of a task called testp.  The statics have no lock: counting and *)
(* adding are steps of their own.                                          *)
(***************************************************************************)
openLines == IF log # <<>> /\ log[Len(log)].kind = "total" THEN <<>> ELSE log

CountExitEarly(t) ==
  /\ Running(t, "exit")
  /\ CHILD_PROCESS_COUNT' = CHILD_PROCESS_COUNT + 1
  /\ pc' = [pc EXCEPT ![t] = IF CHILD_PROCESS_COUNT' >= N THEN "total" ELSE "row"]
  /\ UNCHANGED <<now, burst, sched, cpu_burst_total_tsk, log, zombies, policy, forked>>

CountExit(t) ==
  /\ Running(t, "exit")
  /\ CHILD_PROCESS_COUNT' = CHILD_PROCESS_COUNT + 1
  /\ pc' = [pc EXCEPT ![t] = IF CHILD_PROCESS_COUNT' > N THEN "total" ELSE "row"]
  /\ UNCHANGED <<now, burst, sched, cpu_burst_total_tsk, log, zombies, policy, forked>>

row(t) == [kind |-> "row", task |-> t, burst |-> cpu_burst[t],
           total |-> cpu_burst_total_tsk']

LogRowAssigns(t) ==
  /\ Running(t, "row")
  /\ cpu_burst_total_tsk' = cpu_burst[t]
  /\ log' = Append(openLines, row(t))
  /\ pc' = [pc EXCEPT ![t] = "notify"]
  /\ UNCHANGED <<now, burst, sched, CHILD_PROCESS_COUNT, zombies, policy, forked>>

LogRow(t) ==
  /\ Running(t, "row")
  /\ cpu_burst_total_tsk' = cpu_burst_total_tsk + cpu_burst[t]
  /\ log' = Append(openLines, row(t))
  /\ pc' = [pc EXCEPT ![t] = "notify"]
  /\ UNCHANGED <<now, burst, sched, CHILD_PROCESS_COUNT, zombies, policy, forked>>

totalLine(t) == [kind |-> "total", task |-> t, total |-> cpu_burst_total_tsk]

LogTotal(t) ==
  /\ Running(t, "total")
  /\ log' = Append(openLines, totalLine(t))
  /\ CHILD_PROCESS_COUNT' = 0
  /\ cpu_burst_total_tsk' = 0
  /\ pc' = [pc EXCEPT ![t] = "notify"]
  /\ UNCHANGED <<now, burst, sched, zombies, policy, forked>>

\* exit_notify: the task is a zombie and its parent is woken if it sleeps.
ExitNotify(t) ==
  /\ Running(t, "notify")
  /\ zombies' = zombies \cup {t}
  /\ pc' = [pc EXCEPT ![t] = "dead"]
  /\ IF state[parent(t)] = "TASK_INTERRUPTIBLE"
       THEN /\ state' = [state EXCEPT ![parent(t)] = "TASK_RUNNING"]
            /\ queue' = Append(queue, parent(t))
       ELSE UNCHANGED <<state, queue>>
  /\ UNCHANGED <<now, burst, curr, next, switching, statics, policy, forked>>

\* The last call of do_exit.
do_task_dead(t) ==
  /\ Running(t, "dead")
  /\ schedule(t, "TASK_DEAD", deactivate_task(queue, t))
  /\ cpu_burst_start' = [cpu_burst_start EXCEPT ![t] = 0]
  /\ UNCHANGED <<now, statics, zombies, policy, pc, forked>>

Init ==
  /\ now = 0
  /\ curr = Shell
  /\ queue = <<Shell>>
  /\ state = [t \in Tasks |-> IF t \in Testp THEN "TASK_NEW" ELSE "TASK_RUNNING"]
  /\ zombies = {}
  /\ policy \in {[t \in Tasks |-> p] : p \in Policies}
  /\ cpu_burst = [t \in Measured |-> 0]
  /\ cpu_burst_start = [t \in Measured |-> 0]
  /\ next \in {[t \in Tasks |-> IF t \in Testp THEN NoTask
                                ELSE IF t = Shell THEN o ELSE Shell] : o \in Others}
  /\ switching = FALSE
  /\ pc = [t \in Tasks |-> "user"]
  /\ forked = [t \in Tasks |-> 0]
  /\ CHILD_PROCESS_COUNT = 0
  /\ cpu_burst_total_tsk = 0
  /\ log = <<>>

TaskStep(t) ==
  \/ ParentForks(t) \/ ParentExits(t) \/ ChildExits(t)
  \/ CountExit(t) \/ LogRow(t) \/ LogTotal(t) \/ ExitNotify(t) \/ do_task_dead(t)

WaitStep(t) == Reap(t) \/ WaitSleeps(t)

Next ==
  \/ StampNext \/ Preempt \/ OthersSwitch \/ Tick \/ ShellStarts
  \/ \E t \in Testp : TaskStep(t)
  \/ \E t \in Testp \cup {Shell} : WaitStep(t)

Spec == Init /\ [][Next]_vars

(***************************************************************************)
(* The real-time class gets most of the CPU even when it is throttled, so  *)
(* a task at the head of the queue does make its steps, and the other      *)
(* tasks give the CPU back.  Nothing obliges the shell to start a run.     *)
(***************************************************************************)
Fairness ==
  /\ WF_vars(StampNext)
  /\ WF_vars(OthersSwitch)
  /\ SF_vars(\/ \E t \in Testp : TaskStep(t)
             \/ \E t \in Measured : WaitStep(t))

FairSpec == Spec /\ Fairness

-----------------------------------------------------------------------------
Rows == SelectSeq(log, LAMBDA l : l.kind = "row")
SumOfRows(n) == SumFunction([k \in 1 .. n |-> Rows[k].burst])

\* What do_exit logs adds up, whatever preempts the exiting tasks and whichever
\* runs end early: the running total of every row and the TOTAL line are the
\* sums of the bursts logged since the previous TOTAL line.
RowsAddUp ==
  /\ \A i \in 1 .. Len(Rows) : Rows[i].total = SumOfRows(i)
  /\ log # <<>> => log[Len(log)].total = SumOfRows(Len(Rows))
  /\ openLines # <<>> => cpu_burst_total_tsk = log[Len(log)].total

forkFailed ==
  \E r \in 1 .. Runs : forked[<<r, 0>>] < N /\ pc[<<r, 0>>] \notin {"user", "wait"}

\* As long as no fork() has failed, the exit that do_exit takes for the 22nd is
\* that of the parent, and the TOTAL line closes the rows of its own children,
\* in the order in which they were forked, run after run.
TotalClosesRun ==
  \/ forkFailed
  \/ \A i \in 1 .. Len(log) :
       LET r == log[1].task[1]
       IN  log[i].task = <<r, IF log[i].kind = "total" THEN 0 ELSE i>>
           /\ (log[i].kind = "total" <=> i = N + 1)

\* RT_FIFO as sched_fork implements it: while a task of testp can run, no other
\* task of the shell or of testp takes the CPU from it.
FifoRunsUntilItBlocks ==
  [][curr' # curr /\ curr \in Testp /\ curr' \in Measured
       => state'[curr] # "TASK_RUNNING"]_vars

\* A run of testp ends: the wake-ups of exit_notify reach every waitpid, and the
\* shell gets its prompt back, with or without failing forks.
RunEnds == pc[Shell] = "wait" ~> pc[Shell] = "user"
=============================================================================
