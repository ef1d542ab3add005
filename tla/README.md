# A TLA+ verification project for OS2023

The repository holds four operating-systems assignments: a process lister
(`src/1`), a calculator that calls three new system calls (`src/2`), a
scheduling experiment with a modified Linux 5.15 kernel (`src/3`) and a
page-replacement simulator (`src/4`). The models here are translated from that
source. TLC checks them on small instances; TLAPS proves the main safety
properties of every modelled part for every instance.

Run a check with `tlc -config X.cfg Module`, the proofs with `tlapm` on each
`...Proofs` module (between two and twenty minutes each). `PROJECT.json` lists
the runs with their modules and configurations, the source lines behind every
definition, the hazards, the findings and the theorems.

## 1. Inventory

| part | state | operations | interacts with | what makes it hard |
|---|---|---|---|---|
| queue of frames, `4/as4.c` 28-129 | a ring: items, front, rear | enqueue, dequeue, find, remove from the middle | the replacement functions | full against empty, wrap-around, shifting removal |
| simulator, `4/as4.c` 131-624, 806-879 | address array, page table, physical memory, queue, counters, output rows | one of four `replacePage` functions per address | queue | two tables updated separately in four copies of the code, a loop that restarts itself, sentinel values next to real distances |
| simulator input, `4/as4.c` 626-804 | menu choices, input file | ask, read, check the range, open the output | simulator | short or malformed input |
| experiment, `3/assignment3.c` | parent, 21 children, a pipe, clock readings | choose, fork, set policy, work, write, read, wait | scheduler | free interleaving, failing calls, end of file |
| burst measurement, changes to `core.c`, `exit.c`, `sched.h` | per task `cpu_burst`, `cpu_burst_start`; two statics | `sched_fork`, `__schedule`, `do_exit` | every task, `testp` | code after a context switch runs on another stack; unsynchronised statics |
| test program, `3/…/assignment3p.c` | parent, children in sequence | fork, work, exit, waitpid | burst measurement | failing fork shifts the count |
| kernel exit and wait, `exit.c` | exit states, parents, wait queues, group flags | `do_exit`, `exit_notify`, reparenting, `release_task`, `do_wait` | scheduler, signals, ptrace | who reaps, lost wake-ups, thread groups, orphaned process groups |
| run queues, `core.c` | task states, queues, wake lists, stopper works, affinity requests, CPU masks | switch, wake up, migrate, swap, set affinity, disable migration, take CPUs down and up | all of the above | locks dropped half-way, requests on a caller's stack, lockless tests |
| task parameters, `core.c` | policy, priorities, nice, clamps, clamp buckets | fork, `sched_setscheduler`, `set_user_nice`, priority inheritance, sysctl | run queues | values read before the lock, boosts, a list walk against fork |
| process lister, `1/newps.c` | one scan of `/proc` | read stat, read the terminal link | processes that come and go | check-then-use on pids |
| calculator and calls, `2/*.c` | an input line | classify, call, parse, invert | user and kernel copy | two parsers of one language |
| call table, prototypes, Makefile | none | none | | declarations only |

The properties each part should have: the queue is a bounded FIFO queue; the
simulator's tables describe one mapping, its rows and totals are true, and each
algorithm evicts the page its policy names; the experiment loses no result,
leaves no child and ends; the measurement logs each task's CPU time and its
totals add up; a zombie is reaped exactly once and no wake-up is lost; a task is
in one queue and on one CPU, where its mask lets it be, and every caller that
waits for a migration returns; policy, priority, class and clamps agree; a row of
the lister describes one process; the calculator answers exactly the inputs its
specification names.

## 2. Modules

| module | models | extends |
|---|---|---|
| `PageQueue` | the queue operations as operators on a queue value | |
| `PageQueueSpec` | the queue with a client that calls the operations in any order | `PageQueue` |
| `FifoQueue` | abstract: what a bounded queue promises | |
| `PageReplacement` | the simulator from the filled address array to the last row | `PageQueue` by INSTANCE |
| `PageReplacementProofs` | the theorems on tables, queue, rows and totals | `PageReplacement` |
| `PagePolicyProofs` | the theorem on who is evicted | `PageReplacementProofs` |
| `SchedulingExperiment` | `assignment3.c` | |
| `QueueAndExperimentProofs` | the theorems on the queue and on the experiment, which share nothing | `PageQueueSpec`, `SchedulingExperiment` |
| `CpuBurst` | the kernel changes and `assignment3p.c` | |
| `CpuBurstProofs` | the theorems on it | `CpuBurst` |
| `CpuBurstHistory` | `CpuBurst` with history variables for the time really used | `CpuBurst` |
| `ExitWait` | `exit.c`: exit, reparenting, release and wait | |
| `ChildTable` | abstract: what exit and wait promise for one task | |
| `ExitWaitProofs` | the theorems on `ExitWait`, the refinement of `ChildTable` included | `ExitWait` |
| `RunQueues` | `core.c`: switch, wake-up, affinity, migration, hotplug | |
| `RunQueuesProofs` | the theorems on `RunQueues` | `RunQueues` |
| `UClamp` | `core.c`: clamp values and run-queue buckets, as operators | |
| `SchedParams` | `core.c`: fork, policy, nice, inheritance, clamps | `UClamp` |
| `SchedParamsProofs` | the theorems on the fields of a task | `SchedParams` |
| `UClampProofs` | the theorem on the clamp buckets | `SchedParamsProofs` |
| `MC...` | instances for TLC | |

Some definitions (`dequeueNoReset`, `LogRowAssigns`, `WaitNoHang`, ...) are
deliberately wrong variants of the definition that follows them. No
specification uses them; each is there to show that a property fails when the
code has that mistake.

### Page queue and simulator

State is named after the C variables; arrays are functions on the C index
range and -1 is the C sentinel. An unwritten cell of the `malloc`ed array is
the value `Uninit`, outside every frame number.

One step of `PageReplacement` is one address: `replacePageOptimal`,
`replacePageFIFO`, `replacePageLRU` and the first half of `replacePageSC` are
one action each, with the search for a hit, the fill of a free frame, the
choice of the victim, the updates of both tables and the queue, the counters
and the row that `main` writes from the result. Only the loop of Second-Chance
that takes a frame, gives it a second chance and restarts with `j = -1` is
modelled turn by turn (`SCTakeVictim` inside the fault, then `SCGiveChance` or
`SCReplace`), because its termination is a question. C's division, which
rounds towards zero, is modelled as such: the address -1 of a short input file
has page 0 and offset -1. Row layout, colours and the output file's name are
left out.

### Scheduling experiment

Parent and children are processes with a program counter each. The pipe is a
sequence of results; `read` blocks while it is empty and a child has its write
end open, and at end of file leaves the variable alone. `fork` may
fail when `ForkMayFail` is set; without `Privileged`, `setpriority` to a
negative value and `sched_setscheduler` to a real-time policy are refused. The clock is counted in
ticks with `Second` ticks to the second, and the conversion through
`"%ld.%06ld"` and `strtod` is modelled by what it does to negative fields. The
scheduler is not part of this module: the interleaving is free, which includes
every order a policy can produce, so its properties hold under all four menu
entries. The matrix product is a step without data.

### CPU bursts

`CpuBurst` has one CPU (the README asks for one core, and `testp` pins its
children to CPU 0). Tasks are the shell, the runs of `testp` with their
children, and other tasks (idle, stopper, whatever runs while the real-time
class is throttled) that may take the CPU at any time. `schedule` is
`__schedule`: the burst of the task that leaves is taken if it stays runnable,
the stack-local `next` is stored per task, and `StampNext`, the statement after
`context_switch`, is a step of the task that got the CPU, with that task's
`next`. A new task starts in `schedule_tail` and has no such step. When `next`
points to a task that is dead and reaped, the memory may belong to nobody or to
a task forked later, and the stamp goes to any of these. `do_exit` is split
into counting, logging, `exit_notify` and `do_task_dead`, with preemption
possible between them. The scheduling classes themselves are not in the
repository (`rt.c`, `fair.c`): the first FIFO task in the queue runs, normal
tasks only without one and in any order. The log keeps the lines since the last
TOTAL line.

### Exit and wait

`ExitWait` is `exit.c` from the system calls inward. A task has a program
counter in the kernel; `tasklist_lock` is not a variable: a thread in the middle
of `do_wait`'s scan holds it for reading, and every step that takes it for
writing is enabled only without readers. `exit_notify` is one step, as it is one
critical section: new parents for children and tracees (`find_new_reaper`,
`reparent_leader`, `forget_original_parent`), SIGHUP and SIGCONT to process
groups it orphans, autoreaping, and the zombie state. Before it `do_exit` is two
steps: `exit_signals` marks the task PF_EXITING, and only then is `signal->live`
counted down, so the thread that finds itself the last of its group need not be
the last that was marked. `release_task` frees one
task a step and may find that the leader is now due. On the other side `do_wait`
adds itself to the wait queue, scans candidate by candidate
(`wait_consider_task`), and either claims a zombie with the `cmpxchg`, reports a
stop or a continue, sleeps, or returns. It waits for any child, for one pid or
for a process group (`eligible_pid`). A tree (`tree`) fixes who starts as
whose child, process groups, who waits with which flags, and which signals,
debuggers and stops may happen. Its `depth` is no field of the kernel: it only
states that the tree the behaviour starts from has no cycle.
`find_new_reaper`'s walk up the ancestors is written as the smallest set of
tasks closed under its loop step. Signals, job control and ptrace are other files:
they are external actions with the effects `exit.c` relies on.

`ChildTable` says what the two promise for one task: alive, then zombie or
claimed, claimed by one, freed by that one. `ImplementsTable` is the refinement,
for every task, with `life` read off `exit_state` and the hash table and
`collector` the one task that holds it for release.

### Run queues

`RunQueues` has several CPUs. The grain is the locked section: `p->pi_lock` is
held across steps only by a wake-up, `rq->lock` only by a CPU inside
`__schedule` between choosing `next` and `finish_task_switch`; any other
section is one step, enabled when its locks are free. A task's own code is the
canonical wait loop: set the state, check the condition, `schedule()`.
`try_to_wake_up` is six steps, with the ways out at `on_rq`, at the wake list of
the CPU that still runs the task, and after the wait for `on_cpu`; an interrupt
that wakes the task it interrupted takes one step without a lock
(`WakeCurrent`). Migrate-disabled regions nest (`disabled` is the depth,
`may.nesting` its bound). `select_fallback_rq` widens a mask without a usable CPU
to the cpuset, if `cpuset_cpus_allowed_fallback` (external) finds a CPU there, or
to all CPUs; from its `BUG()` there is no step. A caller
(`Setter`) goes through `sched_setaffinity` or a cpuset update,
`__set_cpus_allowed_ptr`, `affine_move_task` with its request on the stack, the
stop work, the completion and the wait for the last reference. It is another task
than the one whose mask it sets: the -EBUSY for a task that moves itself away
from inside its own region (`core.c` 2829-2834) is not modelled. Stopper works are
a queue for each CPU. Hotplug is deactivation, `synchronize_rcu`,
`sched_cpu_wait_empty`, dying and activation. The scenario (`may`) says which of
these happen together in a behaviour.

### Task parameters

`SchedParams` has the fields of `task_struct` that fork, `__sched_setscheduler`
and its callers, `set_user_nice`, `rt_mutex_setprio` and the clamps read and
write, on one run queue. Numbers are scaled down (priorities 0 to 2, clamps 0 to
4 in two buckets) and keep their order relations. A requested clamp is any
unsigned number: `uclamp_validate` looks at it as a signed `int`, whose successor
wraps, and the bit-field `uclamp_se.value` keeps it modulo `VALUE_RANGE` while the
bucket is that of the whole number (`clamp_value`, `uclamp_bucket_id`). `__sched_setscheduler` reads
the policy in one step and applies it under the lock in another, with the
recheck; the sysctl stores a new real-time default, checks it in a second step
and takes it back when it is out of range (`CheckDefault`), or walks the tasks one
at a time against `fork`, which links the child before `sched_post_fork`. `sched_fork` has the lines the repository added.
`UClamp` holds the bucket arithmetic as operators on a run queue value.

## 3. Runs

| run | configuration | shows |
|---|---|---|
| `page_queue` | ring of 4, four values | the ring implements `FifoQueue` (`RefinesFifo`) and hands out no unwritten cell (`LiveSlotsWritten`) |
| `page_replacement` | 4 algorithms, all strings of 7 over 4 pages up to a renaming of the pages, 3 frames, fair | `TypeOK`, `MappingInv`, `QueueInv`, `StatisticsAgree`, `RowsTranslate`, `RowsTellResidency`, `EvictsByPolicy`, `OptimalIsOptimal`, `Termination` |
| `short_input` | strings of 5 and shorter files | **violated**: `SimulatedAddressesInRange` |
| `experiment` | 3 children, 2 ticks a second, 2 ticks, any forks fail, fair | `ElapsedExact`, `ResultsConserved`, `NoChildLeft`, `Termination` |
| `experiment_average` | 2 children, forks may fail | **violated**: `AverageOfChildren` |
| `experiment_unprivileged` | 3 children, no privilege | **violated**: `WorkUnderPolicy` |
| `cpu_burst` | 2 runs of 2 children, forks may fail, fair | `RowsAddUp`, `TotalClosesRun`, `FifoRunsUntilItBlocks`, `RunEnds` |
| `cpu_burst_logged` | 1 child, history | **violated**: `LoggedIsCpuTime` |
| `exit_wait` | 12 trees of 3 to 5 tasks, one wait call a thread | `LeaderLast`, `ParentsAlive`, `AutoReaped`, `NoLostWakeup`, `TimesAddedOnce`, `EchildMeansNone`, `OrphansNotStopped`, `ImplementsTable` |
| `run_queues` | 2 CPUs, 2 tasks, 2 callers, 11 scenarios | `OneQueue`, `OneCpu`, `NoLostWakeup`, `WakeListInOrder`, `AffinityHolds`, `PendingServed`, `PendingOutlivesWorks`, `Vacated`, `PinnedStays` |
| `affinity_pending` | 2 callers, a task that disables migration | **violated**: `EnableFindsPending` |
| `sched_params` | 2 or 3 tasks, 2 callers, 6 scenarios | `UClampExact`, `RtDefaultSynced`, `ParamsAgree`, `BoostKept` |

What the kernel runs show, in words:

- `exit_wait`. A leader is freed last; nobody is left with a dead parent;
  sub-threads and children of parents that ignore SIGCHLD leave no zombie; no
  thread sleeps in `do_wait` beside a zombie it could take, and none sleeps
  with nothing to wait for (unless another thread of its group is a debugger:
  see the observations); times are added once when several threads wait; ECHILD is true; a
  process group of single-threaded processes orphaned by a death keeps no
  stopped job.
- `run_queues`. A task is in the queue of its CPU only and on one CPU only; no
  wake-up is lost; after all callers have returned the mask is inside the cpuset
  unless CPUs leave, and the task inside its mask under the conditions that
  `AffinityHolds` names (see the observations); a caller that waits is never
  forgotten, unless `migrate_enable` failed for its task, and never returns while
  its stack is referred to; a dead CPU is empty; a task that may not migrate does
  not.
- `sched_params`. Buckets count exactly the charged tasks, whatever clamps were
  asked for, and the run queue's clamp is its top bucket's as long as none was out
  of range; every real-time task
  gets the new default, forked before, during or after the walk; policy,
  `rt_priority`, nice and priority agree after racing calls and after a boost;
  the owner of a lock does not run below its waiter.

**Bounds.** Three frames are the least number with a front, a middle and a rear
in the ring, and the least for which the proofs go through; four pages are one
more than fit. Seven addresses are enough to fill memory, hit, evict
and turn the ring past its wrap. Addresses 0 and 1 share a page, so that a hit
at the end of a string changes an offset. The strings name pages in the order of
their first use: the simulator only compares page numbers with `=` and indexes with them, so a
renaming of the pages renames its runs. A ring of four lets removal shift on both sides of the
wrap. In the experiment three children are the three thirds of `CFS_NICE`; two
ticks cross a second boundary with and without borrow. In `CpuBurst` two
children and two runs are the least that show a boundary between runs; one tick
tells an inherited burst from a measured one.

The trees of `exit_wait` are the least that show their case: two threads against
two threads, a debugger of a process and of a sub-thread, a debugger of two
threads, two jobs of a process
group as siblings and as parent and child, a shell that waits for stops and
continues, a shell that waits for a job by its process group while another thread
waits for the job's leader by pid, a subreaper with a grandchild. One
wait call a thread (`MaxWait`) keeps the space small; the calls of several
threads overlap in every way, a second call of the same thread is not covered. In `run_queues` two CPUs are
needed for every race and two callers for joining a request; each scenario lets
a few mechanisms interleave without bound on how often, since the state space is
finite without counters; regions nest to a depth of two where a CPU leaves and
returns and a mask changes, and have one level elsewhere. In `sched_params`
`VALUE_RANGE` is 8, the power of two above the scale of 4 as 2048 is above 1024,
and `INT_MAX` 15 leaves room for a request that is too large, one that is negative
as an `int` and the one whose successor wraps. Two buckets tell a top bucket that empties from
one that does not, and three priorities a boost from a change of one's own.

**Fairness.** The simulator is one process: weak fairness of its step (of moving
on to the next address for Optimal, whose step always does). In the
experiment every process has weak fairness: a child neither blocks nor waits
for another, and the parent runs when the real-time children are done or
throttled. In `CpuBurst` the steps of the shell and of `testp`, taken together, have strong
fairness (the task that steps is the head of the one queue), because others can
preempt it again and again while throttling still leaves the real-time class 95
per cent of the CPU (`sysctl_sched_rt_runtime`, `core.c:372`); the other tasks give the CPU back under weak fairness. The
shell is never obliged to start a run, and the clock never to tick.

`ExitWait`, `RunQueues` and `SchedParams` are checked for safety only. Liveness
with the fairness each task and CPU would need is out of TLC's reach at these
sizes; `NoLostWakeup` and `PendingServed` are its safety counterparts, and
deadlock is checked in `run_queues` and `sched_params`.

**Deadlock** is not checked where the program ends (simulator, experiment) and in
`exit_wait`, where all tasks but init may be gone.

### Findings

1. A file with fewer than 5000 addresses is simulated with -1 for the rest
   (`as4.c:810`), although addresses out of range end the program.
2. After a failed `fork` the experiment adds a value that nobody sent
   (`assignment3.c:212`).
3. Refused `sched_setscheduler` and `setpriority` calls go unnoticed
   (`assignment3.c:147`); the report names a policy that was not applied.
4. The logged burst is not the accumulated CPU time (`core.c:6378`): it is
   assigned, only at preemption, and otherwise inherited from the parent; and
   its start is stamped on the wrong task (`core.c:6384`).
5. `migration_cpu_stop` can complete an affinity request while the task is
   outside its mask (`core.c:2368`): it tests `cpus_ptr`, which for a task
   switched out inside a migrate-disabled region is the CPU it is pinned to.
   `migrate_enable` then finds no request and warns (`core.c:2716`), although
   the comment above says there is one. The shortest behaviour needs two callers
   and a move by the load balancer between them. The caller has then returned
   with the task outside its mask, which is why `AffinityHolds` asks for `Serial`.

### Observations

Met while modelling and left without a run of their own.

- `removeFrameFromQueue` (`as4.c:124`) resets the queue when one element is
  left, not when it is empty as its comment says. The simulator removes only
  from full queues of at least eight and never meets it; `PageQueueSpec` removes
  from queues of three and more.
- `exit.c:695`: "If this is a threaded reparent there is no need to notify
  anyone anything has happened". A thread that sleeps in a `__WNOTHREAD` wait and
  inherits a zombie is not woken; `NoLostWakeup` leaves that flag out of its
  second half.
- When one thread of a debugger dies, `exit_ptrace` detaches what it traced. If
  that was all its siblings had to wait for, a sibling asleep in `do_wait` is
  not told, and sleeps until something else wakes it instead of returning
  ECHILD. `NoLostWakeup` asks for its first half only of a thread with no
  debugger among its siblings (`SoleTracer`).
- "affine_move_task() must block until the designated task is enqueued on an
  allowed CPU" is not kept in every case, and `AffinityHolds` names the exceptions.
  Two callers: when the second joins the first one's request while the task is in
  TASK_WAKING on a wake list, the stopper completes it and the task is then
  activated on the old CPU (`Serial`; likewise for a task that disables migration,
  finding 5). A destination that is no longer active when the stopper looks: it
  does not move the task and completes the request all the same, which shows when
  the CPU comes back. And the -EINVAL of the next item. The run has two callers
  with a task that disables migration; two callers with one that sleeps would
  double its size and is left out.
- On a preemptible kernel a CPU can go down between `task_rq_unlock` and
  `stop_one_cpu_nowait` (`core.c`, about 2304), and the stop work is lost. The
  scenarios set `preempt` to FALSE.
- When no CPU of the mask is online, `__set_cpus_allowed_ptr_locked` inside
  `migrate_enable` fails with -EINVAL, which is ignored (`core.c:2163`): the task
  leaves the region with `cpus_ptr` still pinned to one CPU, although the comment
  says that `migration_disabled` is cleared only after the reset. The scenario
  `HotRegions` reaches this. A request for the task is then left pending for good
  (`PendingServed` excepts it), a later region of the task may begin on another
  CPU than the pinned one and does not hold it there (`PinnedStays` excepts it),
  and if further CPUs leave, `select_fallback_rq` may be asked for a CPU it cannot
  find. The theorems on CPUs that leave exclude the -EINVAL by name
  (`EnableResets`), and one of them shows that the `BUG()` is then never reached.
- `exit_notify` compares process groups for the thread that dies last. When a
  thread other than the leader reaches `do_exit` last but the leader comes to
  `exit_notify` after it, a job that is stopped in between stays stopped in its
  orphaned group. `OrphansNotStopped` is about groups of single-threaded
  processes.
- The lines added to `sched_fork` come after the reset-on-fork handling and undo
  it, and leave `normal_prio` computed from the old policy; a later deboost can
  put a FIFO task into the fair class. `ParamsAgree` asks for the priorities
  only after a call has set them.
- `uclamp_validate` (`core.c:1790`) compares `util_min + 1` as a signed number to
  refuse all but -1 and the range; every other number that is negative as an `int`
  passes too, and is kept modulo the width of the bit-field in the bucket of the
  whole number. The clamp of the run queue need then not be that of its top bucket.
  `UClampExact` claims this part only while no such clamp was
  given; that buckets count their tasks holds regardless.
- The sysctl stores the real-time clamp default before it validates it. A task
  forked or reset before an invalid one is taken back keeps it; `RtDefaultSynced`
  excepts such a task. The walk tests `rt_task` without a lock and
  can set the default on a task that has just become NORMAL.
- A legacy `sched_setscheduler(SCHED_NORMAL)` racing `set_user_nice` writes back
  the nice value it read.
- A switch from NORMAL to FIFO with only the maximum clamp given keeps the
  minimum at 0.

## 4. Proofs

Every theorem below is checked by `tlapm` down to the last leaf and holds for
every value of the constants that the named assumptions allow. The invariants
were checked by TLC as invariants of a run before they were proved.

### Page queue

The first part of `QueueAndExperimentProofs`, for a ring of any size and any set of values:

| theorem | statement |
|---|---|
| `OnlyWrittenSlots` | `QueueSpec => []LiveSlotsWritten` |
| `RingIsFifo` | `QueueSpec => RefinesFifo`: the ring implements `FifoQueue` |

The client removes from the middle only in queues of at least three
(`ClientAssumption`), as the simulator does; with two, the reset of
`removeFrameFromQueue` would lose an element. The invariant is `Queue`: both ends
are on the ring or both are -1, and every slot between them holds a queued value.
`ContentsValue` turns the wrap-around (`% maxSize`) into a case split once, and
enqueue, dequeue and the shifting removal are then shown, position by position,
to append, to drop the head and to take one element out. `FifoQueue` says of
removal that the rest stays in order, as a relation on positions.

### Simulator

`PageReplacementProofs` and `PagePolicyProofs`, for every number of addresses,
pages and frames (at least three), every page size (at least two), every set of
input strings, short ones included, and any subset of the algorithms
(`SimulatorAssumption`):

| theorem | statement |
|---|---|
| `Invariance` | `Spec => []IInv` |
| `TypeCorrect` | `Spec => []TypeOK`: no array is indexed out of bounds, every row names a frame |
| `MappingCorrect` | `Spec => []MappingInv` |
| `QueueCorrect` | `Spec => []QueueInv` |
| `TranslationCorrect` | `Spec => []RowsTranslate` |
| `ResidencyCorrect` | `Spec => RowsTellResidency` |
| `StatisticsCorrect` | `Spec => []StatisticsAgree`: hits and faults count the rows |
| `PolicyCorrect` | `Spec => EvictsByPolicy`: each algorithm evicts the page its policy names |

None of these is inductive. That enqueue finds room, that the tie-break of
Optimal finds a candidate and that a hit finds its frame all depend on the
exact shape of the ring, so `IInv` adds:

- `QueueShape`. While memory fills, slot `s` holds frame `s` and nothing has
  left (`FillingShape`). Once it is full, FIFO and Second-Chance only turn the
  ring: slot `s` holds frame `s` for ever, and the frame Second-Chance has in
  hand is the one gap between rear and front (`TurningShape`). Optimal keeps
  front at 0 and rear at the last slot and permutes the items (`Permuted`),
  which is why comparing array positions compares ages.
- `LoopInv`. Inside the Second-Chance loop memory is full, the current page is
  not in it and a frame is in hand; outside none is.
- `InfosInv`. Page numbers are the quotients of their addresses.

Every action is one lemma (`HitStep`, `FillStep`, `FIFOReplaceStep`,
`OptimalReplaceStep`, ...) that gives the next state's `IInv` and the step of
`RowsTellResidency` together. The queue facts are lemmas about a queue value
(`EnqueueOnRing`, `TakeFront`, `GiveBack`, `OptimalRequeues`), used on the
primed state.

`EvictsByPolicy` speaks of the rows written so far: when a frame was last loaded
and last used. The tables do not record that, so `PagePolicyProofs` carries
`HistInv`, which ties tables and queue to the rows:

- `RowInv`. There is one row per address, and an occupied frame was loaded by one
  of them.
- `UseInv`. The last row of a frame is the last reference to the page in it; this
  is what lets LRU's search through the addresses stand for the frame's last use.
- `RingInv`. Going round the ring from the frame that is looked at next
  (`NextOut`), FIFO's frames come in the order of their loads, and
  Second-Chance's do as far as their pages have not been hit since
  (`Ordered`, `Fresh`).
- `BitInv`. A reference bit of 1 means a hit since the load. A page hit since the
  last fault has its bit, or lost it in the loop that is running, and then every
  frame queued behind it was passed over too.
- `PosInv`. Optimal's queue is in loading order, which decides its ties.

`HitHistory` and `LoadHistory` say how one more row changes the history
functions; each action keeps the five parts, and `FIFOPolicy`, `LRUPolicy`,
`SCPolicy` and `OptimalPolicy` read the policy off them.

### Scheduling experiment

The second part of `QueueAndExperimentProofs`, for any number of children, any
number of ticks to the second and whichever forks fail (`ExperimentAssumption`):

| theorem | statement |
|---|---|
| `ElapsedAlwaysExact` | `Spec => []ElapsedExact` |
| `NoChildEverLeft` | `Spec => []NoChildLeft` |

`ClockInv`: a child's first reading is in the past, so the second is not before
it; `ElapsedIsDifference` shows that then the subtraction by fields with its
borrow, the printing and the parsing give the difference. `WaitInv`: in the
second loop the number of reaped children is the loop variable until none is
left, so that as many turns as children are enough even when forks failed.

### CPU bursts

`CpuBurstProofs`, for any number of runs, children and other tasks
(`CpuBurstAssumption`):

| theorem | statement |
|---|---|
| `FifoAlwaysRunsOn` | `Spec => FifoRunsUntilItBlocks` |
| `TotalAlwaysClosesRun` | `Spec => []TotalClosesRun` |

`SchedInv`: whatever is queued has been forked, a task of `testp` that exists is
a FIFO task, and one that runs is the first of these in the queue. `LoopInv`: a
parent waits for each child, so only the last one forked can be alive. `LogInv`
follows a run through its stages (`Stage`): how far its last child is in
`do_exit`, and what `CHILD_PROCESS_COUNT` and the lines of the log are then, for
as long as no fork has failed.

### Run queues

`RunQueuesProofs` proves, for any sets of tasks, CPUs and callers, any masks and
any scenarios (`RunQueuesAssumption`: names are distinct, masks are non-empty
sets of CPUs, and there is a CPU), so also for the combinations the run leaves out:

| theorem | statement |
|---|---|
| `Inductive` | `Spec => []IInv` |
| `OneQueueAlways` | `Spec => []OneQueue` |
| `OneCpuAlways` | `Spec => []OneCpu` |
| `WakeListAlwaysInOrder` | `Spec => []WakeListInOrder` |
| `NoWakeupLost` | `Spec => []NoLostWakeup` |
| `CpusAlwaysVacated` | `Spec /\ []EnableResets => []Vacated` |
| `PinnedAlwaysStay` | `Spec /\ []EnableResets => PinnedStays` |
| `FallbackAlwaysFinds` | `Spec /\ []EnableResets => []` (`select_fallback_rq` has a CPU for every task and mask it may settle on) |

`OneQueue` and `OneCpu` depend on each other and on the wake-up protocol, so
`IInv` adds to the types (`QueueTypes`):

- `CpuInv`. A CPU that runs a task or switches from it is the task's CPU, it
  switches between different tasks, and the task it runs is queued. This is what
  makes `finish_task_switch` clear the right `on_cpu`.
- `WakeInv`. A wake-up past the test of `on_rq`, and a task on a wake list,
  concern a task in no queue in state WAKING, which no other wake-up touches.
  Without it activating the task could queue it twice.

`NoWakeupLost` adds `SleepInv`: a task about to sleep on a condition that has
become true has a wake-up in front of it, and a task off its queue is asleep or
in the hands of a wake-up or a wake list. Steps are grouped by what they do to
queues and CPUs (`Frame`, `OwnState`, `Moves`, `Activates`, `OnWakeList`), and
each action's lemma reduces to these. Affinity, requests and hotplug enter these
four only as what they leave alone.

The three theorems on CPUs that leave need `HotplugInv` on top. `HotInv` says which
CPUs are active and online at each stage of hotplug, and that one stays active. `PinInv`: a task pinned to a
CPU is on it, one that cannot migrate and is not yet pinned is running, and the
CPU of either is online. `LeaveInv`: a wake-up or a caller that has chosen a CPU
that is no longer active is inside the section `synchronize_rcu` still waits for,
so that after it nothing is under way to that CPU and its wake list is empty.
With it `sched_cpu_wait_empty`, which looks once, is enough. `EnableResets` is a
hypothesis because the code does not guarantee it (see the observations).

### Task parameters

`SchedParamsProofs` and `UClampProofs` prove, for any tasks, callers, priority ranges and
scenarios whose calls carry any unsigned clamps, refused or not, any priority, and
nice values in range
(`SchedParamsAssumption`, `ScenariosAssumption`):

| theorem | statement |
|---|---|
| `Inductive` | `Spec => []IInv` |
| `ParamsAlwaysAgree` | `Spec => []ParamsAgree` |
| `BoostAlwaysKept` | `Spec => []BoostKept` |
| `RtDefaultAlwaysSynced` | `Spec => []RtDefaultSynced` |
| `UClampAlwaysExact` | `Spec => []UClampExact` |

`IInv` carries the types and four facts. `FieldsInv` holds at every moment, also
before a call has set a task's parameters. `CallInv` says what a caller of
`__sched_setscheduler` carries from its checks to the lock, so that what it
applies after the recheck still agrees. `WaitersInv`: a waiter lends its
priority to one owner and is lent none, so no boost goes stale when the waiter
itself changes. `SyncInv`: while the sysctl walks the task list, every real-time
task without the new default is still in front of the walk; this is the argument
why a fork during the walk loses nothing. Before the walk it remembers the old
default, which a task may still have, and a task whose clamp is out of range is
one that took up a default the handler has withdrawn or will.

`UClampAlwaysExact` is for every finite set of tasks and any size and number of
buckets and width of the bit-field (`TaskFinite`, `UClampAssumption`). `Counted` says that buckets count the
cardinality of the set of tasks charged to them and, while no clamp is out of range, that a non-empty bucket's value bounds its
tasks and the run queue's value; `IncCounted` and `DecCounted` show that
`uclamp_rq_inc_id` and `uclamp_rq_dec_id` keep it, and every action reduces to
taking a task off the queue, changing it and putting it back (`RqChange`).

### Exit and wait

`ExitWaitProofs` proves, for any set of tasks, any grouping into threads and any
acyclic tree in which the threads of a group have one parent (`ExitAssumption`,
`TreesAssumption`):

| theorem | statement |
|---|---|
| `ExitWaitInductive` | `Spec => []IInv` |
| `LeaderAlwaysLast` | `Spec => []LeaderLast` |
| `ParentsAlwaysAlive` | `Spec => []ParentsAlive` |
| `UnwantedAlwaysReaped` | `Spec => []AutoReaped` |
| `TimesAlwaysAddedOnce` | `Spec => []TimesAddedOnce` |
| `ImplementsChildTable` | `Spec => ImplementsTable`: `exit.c` refines `ChildTable` for every task |
| `EchildAlwaysTrue` | `Spec => EchildMeansNone` |
| `OrphansNeverStopped` | `Spec => OrphansNotStopped` |

The properties lean on each other, so `IInv` holds them together with:

- `Control`. A task with an exit state is past `exit_notify`, what it has to
  release is with it, and a task out of the table is DEAD.
- `Owned`. Exactly the tasks in DEAD or TRACE that are still in the table are in
  someone's hands (on a list `dead`, or the target of a thread between the
  `cmpxchg` and `release_task`), and in one only. This is the refinement's
  `collector`.
- `Grouped`. A leader that is claimed, or that a waiter is about to claim, has
  no other thread left. This is why the test in `wait_consider_task`, made before
  the `cmpxchg`, is still true at it.
- `Family`. The threads of a group have one parent and every parent's group is
  nearer to init than its child's: `find_new_reaper` then never adopts into the
  dying task's own descendants (`ReaperFacts`).
- `Times`. Of the groups that may still pass times on, one at most holds those
  of a given task, and none while the task's own group is still one of them.

Most steps change nothing these speak of, or only a program counter (`Quiet`,
`Still`); claiming, reaping, releasing, attaching and `exit_notify` have a lemma
each.

`EchildAlwaysTrue` adds `ScanInv`: at every point of a scan, a candidate that is
eligible and not being released is still ahead of the scan or is the one it is
about to claim, as long as `notask` says that nothing was found. It is kept
because a scanning thread reads the task list under the lock and all that others
can do meanwhile is claim (`Reads`). `OrphansNeverStopped` adds `JobInv`: a
stopped process has a thread a signal can reach, and none of it is on its way
into `do_exit`; and a thread that did not count `signal->live` down to zero is not
the only one of its group. Then a group that `exit_notify` orphans is found through
`reparent_leader` or for the dying task itself, and what is stopped in it is
continued or killed.

### Only model-checked

- Liveness (`Termination` of the simulator and of the experiment, `RunEnds`): the
  prover does not handle fairness.
- `OptimalIsOptimal`: its reference definition is recursive.
- `ResultsConserved` and `RowsAddUp`: they add up times with folds, and
  what a fold computes needs an induction over data that the provers cannot do.
- `NoLostWakeup` of `ExitWait`: it was not attempted.
- `AffinityHolds`, `PendingServed` and `PendingOutlivesWorks`: they hold for the
  scenarios of the run only (see the observations and finding 5), so there is no
  theorem for every scenario.

## 5. Not modelled

- `syscall_64.tbl`, `syscalls.h`, `Makefile`: declarations without state.
- `src/1` and `src/2`: one reads `/proc` and prints, the other converts strings in
  one sequential program and three stateless calls. They have no state that
  outlives a call and nothing that a model would add to a test.
- The simulator's menus and input files (`as4.c` 626-804): input and output.
- Printed text, layout and colours; stdio buffering (a prompt buffered before
  `fork` is flushed by every child when stdout is a file).
- Wall clocks that step backwards: the clocks of the models are monotone.
- More than one CPU in `CpuBurst`, and two runs of `testp` at once: the statics
  of `do_exit` are then unsynchronised.
- In `ExitWait`: init never exits and has one thread; `de_thread` and
  `notify_count`; signal handlers that interrupt a wait; a stop takes a whole
  group at once; the parent-death signal is SIGKILL; `exit_mm` and mm ownership
  (about 389-548); what else `do_exit` releases; the sums of `__exit_signal`,
  of which only how often a task's time is added is kept.
- In `ExitWait` process groups and sessions stay as the tree has them (`setpgid`
  and `setsid` are other files).
- In `RunQueues`: a task that changes its own mask, `push_cpu_stop`, kernel threads, `user_cpus_ptr` (2889-3020),
  core scheduling, `wait_task_inactive`, `sched_exec`, the `wake_cpu` hint, mm
  handling in `context_switch`. The lockless tests of `migrate_swap` and its
  queueing are one step, and its completion is part of the stopper's step.
- In `SchedParams`: SCHED_DEADLINE, task groups, permission checks (7353-7411),
  the `nice` system call around `set_user_nice`, more than one waiter for a
  lock's owner. Reading the parameters and the first recheck are one step.
- The rest of `core.c`: cgroup files, debug output, tick and nohz, load
  statistics, boot, bandwidth control. It is configuration, statistics and
  output, or belongs to scheduling classes whose code is not in the repository.
