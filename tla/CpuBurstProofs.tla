--------------------------- MODULE CpuBurstProofs ---------------------------
(***************************************************************************)
(* For any number of children and of runs: a task of testp keeps the CPU   *)
(* until it blocks, and while no fork() fails the TOTAL line of do_exit    *)
(* closes the rows of one run.                                             *)
(***************************************************************************)
EXTENDS CpuBurst, TLAPS

(* The tasks that exist.                                                   *)
Exists(t, f) == t \in Testp /\ t[1] <= f[Shell] /\ t[2] <= f[<<t[1], 0>>]

Typed ==
  /\ policy \in [Tasks -> Policies]
  /\ forked \in [Tasks -> Nat]
  /\ DOMAIN state = Tasks
  /\ DOMAIN pc = Tasks
  /\ queue \in Seq(Measured)
  /\ curr \in Tasks

(* What runs or can run has been forked, and is a FIFO task if it belongs  *)
(* to testp; the running task is the first such task of the queue.         *)
QueueInv ==
  /\ \A r \in 1 .. Runs : r > forked[Shell] => forked[<<r, 0>>] = 0
  /\ \A n \in DOMAIN queue : queue[n] = Shell \/ Exists(queue[n], forked)
  /\ \A t \in Testp : Exists(t, forked) => policy[t] = "SCHED_FIFO"
  /\ curr \in Measured =>
       \E n \in DOMAIN queue :
         /\ queue[n] = curr
         /\ curr \in Testp => \A m \in 1 .. n - 1 : policy[queue[m]] # "SCHED_FIFO"

SchedInv == Typed /\ QueueInv

-----------------------------------------------------------------------------
(* Tasks and queues.                                                       *)

LEMMA TaskSets ==
  /\ Shell \notin Testp /\ Shell \notin Others /\ Shell \in Tasks /\ Shell \in Measured
  /\ Testp \cap Others = {} /\ Testp \subseteq Tasks /\ Testp \subseteq Measured
  /\ Others \subseteq Tasks /\ Measured \subseteq Tasks
  /\ \A t \in Measured : t = Shell \/ t \in Testp
<1>1. Testp \cap Others = {} /\ Shell \notin Testp /\ Shell \notin Others
  BY DEF Testp, Others, Shell
<1> QED
  BY Zenon, <1>1 DEF Tasks, Measured

(* The parent of a task of testp.                                          *)
LEMMA ParentOf ==
  ASSUME NEW t \in Testp
  PROVE  /\ <<t[1], 0>> \in Testp
         /\ parent(t) = Shell \/ parent(t) = <<t[1], 0>>
<1>1. PICK r \in 1 .. Runs, j \in 0 .. N : t = <<r, j>>
  BY DEF Testp
<1>2. 0 \in 0 .. N
  BY CpuBurstAssumption
<1>3. <<t[1], 0>> \in Testp
  BY <1>1, <1>2 DEF Testp
<1> QED
  BY Zenon, <1>3 DEF parent

(* Sequence d has only elements of q.                                      *)
From(d, q) == \A n \in DOMAIN d : \E m \in DOMAIN q : d[n] = q[m]

(* The queue without a task that is in it.                                 *)
LEMMA Deactivated ==
  ASSUME NEW q \in Seq(Measured), NEW t, \E n \in DOMAIN q : q[n] = t,
         NEW d, d = deactivate_task(q, t)
  PROVE  d \in Seq(Measured) /\ From(d, q)
<1>1. PICK k \in DOMAIN q : d = SubSeq(q, 1, k - 1) \o SubSeq(q, k + 1, Len(q))
  BY Zenon DEF deactivate_task
<1>2. k \in 1 .. Len(q) /\ DOMAIN q = 1 .. Len(q)
  OBVIOUS
<1> DEFINE a == SubSeq(q, 1, k - 1)
           b == SubSeq(q, k + 1, Len(q))
<1>3. a \in Seq(Measured) /\ Len(a) = k - 1 /\ \A n \in 1 .. k - 1 : a[n] = q[n]
  BY <1>2
<1>4. b \in Seq(Measured) /\ Len(b) = Len(q) - k /\ \A n \in 1 .. Len(q) - k : b[n] = q[k + n]
  BY SMTT(60), <1>2
<1>5. d = a \o b
  BY Zenon, <1>1
<1> HIDE DEF a, b
<1>6. a \in Seq(Measured) /\ b \in Seq(Measured) /\ Len(q) \in Nat
  BY <1>3, <1>4
<1>7. d \in Seq(Measured) /\ Len(d) = Len(q) - 1
  <2>1. a \o b \in Seq(Measured)
    BY <1>6
  <2>2. Len(a \o b) = Len(a) + Len(b)
    BY <1>6
  <2>3. k \in Nat /\ Len(a) + Len(b) = Len(q) - 1
    BY <1>3, <1>4, <1>6, <1>2
  <2> QED
    BY Zenon, <1>5, <2>1, <2>2, <2>3
<1>8. ASSUME NEW n \in 1 .. Len(d) PROVE \E m \in 1 .. Len(q) : d[n] = q[m]
  <2>1. n \in 1 .. Len(q) - 1
    BY Zenon, <1>7
  <2>2. d[n] = IF n <= Len(a) THEN a[n] ELSE b[n - Len(a)]
    <3>1. n \in 1 .. Len(a) + Len(b)
      BY SMTT(60), <1>3, <1>4, <1>6, <2>1
    <3>2. (a \o b)[n] = IF n <= Len(a) THEN a[n] ELSE b[n - Len(a)]
      BY <1>6, <3>1
    <3> QED
      BY Zenon, <1>5, <3>2
  <2>3. CASE n <= k - 1
    <3>1. n \in 1 .. k - 1 /\ n \in 1 .. Len(q)
      BY <1>6, <1>2, <2>1, <2>3
    <3> QED
      BY Zenon, <1>3, <2>2, <2>3, <3>1
  <2>4. CASE ~(n <= k - 1)
    <3>1. n - (k - 1) \in 1 .. Len(q) - k /\ k + (n - (k - 1)) \in 1 .. Len(q)
      BY <1>6, <1>2, <2>1, <2>4
    <3> QED
      BY Zenon, <1>3, <1>4, <2>2, <2>4, <3>1
  <2> QED
    BY Zenon, <2>3, <2>4
<1>9. DOMAIN d = 1 .. Len(d)
  BY <1>7
<1> QED
  BY Zenon, <1>2, <1>7, <1>8, <1>9 DEF From

LEMMA Appended ==
  ASSUME NEW q \in Seq(Measured), NEW t \in Measured, NEW d, d = Append(q, t)
  PROVE  /\ d \in Seq(Measured) /\ DOMAIN d = 1 .. Len(q) + 1 /\ DOMAIN q = 1 .. Len(q)
         /\ Len(q) \in Nat /\ \A n \in DOMAIN q : n \in DOMAIN d /\ d[n] = q[n]
         /\ d[Len(q) + 1] = t
         /\ \A n \in DOMAIN d : n \in DOMAIN q \/ n = Len(q) + 1
OBVIOUS

-----------------------------------------------------------------------------
(* The scheduler.                                                          *)

(* FifoRunsUntilItBlocks, for one step.                                    *)
FifoStep ==
  curr' # curr /\ curr \in Testp /\ curr' \in Measured => state'[curr] # "TASK_RUNNING"

(* A place of a sequence up to k is k or one before it.                    *)
LEMMA UpTo ==
  ASSUME NEW S, NEW q \in Seq(S), NEW n \in DOMAIN q, NEW k \in DOMAIN q, n <= k
  PROVE  n \in 1 .. k - 1 \/ n = k
  OBVIOUS

(* __schedule() with the queue as it is, or without the task that blocks.  *)
LEMMA Scheduled ==
  ASSUME SchedInv, NEW s \in {"TASK_RUNNING", "TASK_INTERRUPTIBLE", "TASK_DEAD"},
         NEW q \in Seq(Measured), \A n \in DOMAIN q : \E m \in DOMAIN queue : q[n] = queue[m],
         schedule(curr, s, q), s = "TASK_RUNNING" => q = queue \/ curr \in Others,
         UNCHANGED <<policy, forked>>, DOMAIN pc' = Tasks
  PROVE  SchedInv' /\ FifoStep
<1>0. Typed /\ QueueInv
  BY Zenon DEF SchedInv
<1>1. PICK t \in pick_next_task(q) :
        /\ t # curr /\ curr' = t /\ queue' = q
        /\ state' = [state EXCEPT ![curr] = s, ![t] = "TASK_RUNNING"]
  BY Zenon DEF schedule
<1>2. \A n \in DOMAIN q : q[n] = Shell \/ Exists(q[n], forked)
  BY Zenon, <1>0 DEF QueueInv
<1>3. \A n \in DOMAIN q : q[n] \in Measured
  OBVIOUS
<1>4. ASSUME t \notin Others
      PROVE  \E n \in DOMAIN q :
               /\ q[n] = t
               /\ t \in Testp => /\ policy[t] = "SCHED_FIFO"
                                 /\ \A m \in 1 .. n - 1 : policy[q[m]] # "SCHED_FIFO"
               /\ \A m \in fifoTasks(q) : n \in fifoTasks(q) /\ n <= m
  <2>1. CASE fifoTasks(q) = {}
    <3>1. PICK n \in DOMAIN q : q[n] = t
      BY Zenon, <1>1, <1>4, <2>1 DEF pick_next_task, Range
    <3>2. t \notin Testp
      BY Zenon, <1>0, <1>2, <2>1, <3>1, TaskSets DEF QueueInv, fifoTasks
    <3> QED
      BY Zenon, <2>1, <3>1, <3>2
  <2>2. CASE fifoTasks(q) # {}
    <3>1. PICK n \in fifoTasks(q) : t = q[n] /\ \A m \in fifoTasks(q) : n <= m
      BY Zenon, <1>1, <1>4, <2>2 DEF pick_next_task
    <3>2. n \in DOMAIN q /\ policy[t] = "SCHED_FIFO"
      BY Zenon, <3>1 DEF fifoTasks
    <3>3. ASSUME NEW m \in 1 .. n - 1 PROVE policy[q[m]] # "SCHED_FIFO"
      <4>1. m \in DOMAIN q /\ ~(n <= m)
        BY <3>2
      <4> QED
        BY Zenon, <3>1, <4>1 DEF fifoTasks
    <3> QED
      BY Zenon, <3>1, <3>2, <3>3
  <2> QED
    BY Zenon, <2>1, <2>2
<1>5. t \in Tasks
  BY Zenon, <1>3, <1>4, TaskSets
<1>6. Typed'
  BY Zenon, <1>0, <1>1, <1>5 DEF Typed
<1>7. QueueInv'
  <2>1. \A x : Exists(x, forked') <=> Exists(x, forked)
    BY Zenon DEF Exists
  <2>2. curr' \in Measured => t \notin Others
    BY Zenon, <1>1, TaskSets
  <2> QED
    BY Zenon, <1>0, <1>1, <1>2, <1>4, <2>1, <2>2 DEF QueueInv
<1>8. FifoStep
  <2> SUFFICES ASSUME curr \in Testp, t \in Measured PROVE state'[curr] # "TASK_RUNNING"
    BY Zenon, <1>1 DEF FifoStep
  <2>1. state'[curr] = s
    BY Zenon, <1>0, <1>1 DEF Typed
  <2>2. ASSUME s = "TASK_RUNNING" PROVE FALSE
    <3>1. q = queue /\ t \notin Others
      BY Zenon, <2>2, TaskSets
    <3>2. PICK k \in DOMAIN queue :
            queue[k] = curr /\ \A m \in 1 .. k - 1 : policy[queue[m]] # "SCHED_FIFO"
      BY Zenon, <1>0, TaskSets DEF QueueInv
    <3>3. k \in fifoTasks(q)
      BY Zenon, <1>0, <1>2, <3>1, <3>2, TaskSets DEF fifoTasks, QueueInv
    <3>4. PICK n \in DOMAIN q : q[n] = t /\ n \in fifoTasks(q) /\ n <= k
      BY Zenon, <1>4, <3>1, <3>3
    <3>5. n \in 1 .. k - 1 \/ n = k
      BY Zenon, <3>1, <3>4, UpTo
    <3> QED
      BY Zenon, <1>1, <3>1, <3>2, <3>4, <3>5 DEF fifoTasks
  <2> QED
    BY Zenon, <2>1, <2>2
<1> QED
  BY Zenon, <1>6, <1>7, <1>8 DEF SchedInv

(* A step that leaves the queue, the policies and the forks alone.         *)
LEMMA SchedSame ==
  ASSUME SchedInv, UNCHANGED <<queue, policy, forked, curr>>, DOMAIN state' = Tasks,
         DOMAIN pc' = Tasks
  PROVE  SchedInv' /\ FifoStep
BY Zenon DEF SchedInv, Typed, QueueInv, FifoStep

(* A task is appended to the queue.                                        *)
LEMMA Queued ==
  ASSUME SchedInv, NEW t \in Measured, queue' = Append(queue, t), curr' = curr,
         forked' \in [Tasks -> Nat], policy' \in [Tasks -> Policies],
         t = Shell \/ Exists(t, forked'),
         \A u \in Testp : Exists(u, forked) => Exists(u, forked'),
         \A u \in Testp : Exists(u, forked') => policy'[u] = "SCHED_FIFO",
         policy'[Shell] = policy[Shell],
         \A r \in 1 .. Runs : r > forked'[Shell] => forked'[<<r, 0>>] = 0,
         DOMAIN state' = Tasks, DOMAIN pc' = Tasks
  PROVE  SchedInv' /\ FifoStep
<1>0. Typed /\ QueueInv /\ queue \in Seq(Measured)
  BY Zenon DEF SchedInv, Typed
<1>1. /\ queue' \in Seq(Measured) /\ DOMAIN queue = 1 .. Len(queue)
      /\ Len(queue) \in Nat /\ \A n \in DOMAIN queue : n \in DOMAIN queue' /\ queue'[n] = queue[n]
      /\ queue'[Len(queue) + 1] = t
      /\ \A n \in DOMAIN queue' : n \in DOMAIN queue \/ n = Len(queue) + 1
  <2>1. PICK q, d : q = queue /\ d = queue' /\ d = Append(q, t) /\ q \in Seq(Measured)
    BY Zenon, <1>0
  <2>2. /\ d \in Seq(Measured) /\ DOMAIN q = 1 .. Len(q)
        /\ Len(q) \in Nat /\ \A n \in DOMAIN q : n \in DOMAIN d /\ d[n] = q[n]
        /\ d[Len(q) + 1] = t
        /\ \A n \in DOMAIN d : n \in DOMAIN q \/ n = Len(q) + 1
    BY ZenonT(60), <2>1, Appended
  <2> QED
    BY Zenon, <2>1, <2>2
<1>2. Typed'
  BY Zenon, <1>0, <1>1 DEF Typed
<1>3. \A n \in DOMAIN queue' : queue'[n] = Shell \/ Exists(queue'[n], forked')
  <2>1. ASSUME NEW x, x = Shell \/ Exists(x, forked) PROVE x = Shell \/ Exists(x, forked')
    BY Zenon, <2>1 DEF Exists
  <2> QED
    BY Zenon, <1>0, <1>1, <2>1 DEF QueueInv
<1>4. ASSUME NEW n \in DOMAIN queue, policy[queue[n]] # "SCHED_FIFO"
      PROVE  policy'[queue[n]] # "SCHED_FIFO"
  BY Zenon, <1>0, <1>4 DEF QueueInv, Exists
<1>5. curr' \in Measured =>
        \E n \in DOMAIN queue' :
          /\ queue'[n] = curr'
          /\ curr' \in Testp => \A m \in 1 .. n - 1 : policy'[queue'[m]] # "SCHED_FIFO"
  <2> SUFFICES ASSUME curr \in Measured
               PROVE  \E n \in DOMAIN queue' :
                        /\ queue'[n] = curr
                        /\ curr \in Testp => \A m \in 1 .. n - 1 : policy'[queue'[m]] # "SCHED_FIFO"
    BY Zenon
  <2>1. PICK n \in DOMAIN queue :
          /\ queue[n] = curr
          /\ curr \in Testp => \A m \in 1 .. n - 1 : policy[queue[m]] # "SCHED_FIFO"
    BY Zenon, <1>0 DEF QueueInv
  <2>2. \A m \in 1 .. n - 1 : m \in DOMAIN queue
    BY <1>1
  <2>3. ASSUME curr \in Testp, NEW m \in 1 .. n - 1 PROVE policy'[queue'[m]] # "SCHED_FIFO"
    <3>1. policy'[queue[m]] # "SCHED_FIFO"
      BY Zenon, <1>4, <2>1, <2>2, <2>3
    <3>2. queue'[m] = queue[m]
      BY Zenon, <1>1, <2>2
    <3> QED
      BY Zenon, <3>1, <3>2
  <2>4. n \in DOMAIN queue' /\ queue'[n] = curr
    BY Zenon, <1>1, <2>1
  <2> QED
    BY Zenon, <2>3, <2>4
<1>6. QueueInv'
  BY Zenon, <1>3, <1>5 DEF QueueInv
<1> QED
  BY Zenon, <1>2, <1>6 DEF SchedInv, FifoStep

(* fork(): the child exists from now on, and nothing else does.            *)
LEMMA ForkExists ==
  ASSUME Typed, NEW t, NEW child,
         \/ t = Shell /\ forked[t] < Runs /\ child = <<forked[t] + 1, 0>>
         \/ t \in Testp /\ t[2] = 0 /\ forked[t] < N /\ child = <<t[1], forked[t] + 1>>,
         forked' = [forked EXCEPT ![t] = @ + 1], Exists(t, forked) \/ t = Shell
  PROVE  /\ child \in Testp /\ Exists(child, forked') /\ forked' \in [Tasks -> Nat]
         /\ \A u \in Testp : Exists(u, forked) => Exists(u, forked')
<1>0. /\ t \in Tasks /\ forked \in [Tasks -> Nat] /\ Shell \in Tasks /\ forked[t] \in Nat
      /\ N \in Nat /\ Runs \in Nat
  BY TaskSets, CpuBurstAssumption DEF Typed
<1>1. forked' \in [Tasks -> Nat] /\ \A u \in Tasks : forked'[u] = IF u = t THEN forked[u] + 1 ELSE forked[u]
  BY <1>0
<1>2. ASSUME NEW u \in Testp, Exists(u, forked) PROVE Exists(u, forked')
  <2>1. <<u[1], 0>> \in Tasks
    BY Zenon, ParentOf, TaskSets
  <2>2. /\ u[1] <= forked[Shell] /\ u[2] <= forked[<<u[1], 0>>]
        /\ forked[Shell] \in Nat /\ forked[<<u[1], 0>>] \in Nat
    BY Zenon, <1>0, <1>2, <2>1 DEF Exists
  <2>3. u[1] \in Int /\ u[2] \in Int
    BY DEF Testp
  <2>4. u[1] <= forked'[Shell]
    BY <1>0, <1>1, <2>2, <2>3
  <2>5. u[2] <= forked'[<<u[1], 0>>]
    BY <1>1, <2>1, <2>2, <2>3
  <2> QED
    BY Zenon, <2>4, <2>5 DEF Exists
<1>3. CASE t = Shell /\ forked[t] < Runs /\ child = <<forked[t] + 1, 0>>
  <2>1. forked[t] + 1 \in 1 .. Runs /\ 0 \in 0 .. N
    BY <1>0, <1>3
  <2>2. child \in Testp /\ child[1] = forked[t] + 1 /\ child[2] = 0
    BY <1>3, <2>1 DEF Testp
  <2>3. <<child[1], 0>> \in Tasks
    BY Zenon, <2>2, ParentOf, TaskSets
  <2>4. child[1] <= forked'[Shell] /\ child[2] <= forked'[<<child[1], 0>>]
    BY <1>0, <1>1, <1>3, <2>2, <2>3
  <2> QED
    BY Zenon, <1>1, <1>2, <2>2, <2>4 DEF Exists
<1>4. CASE t \in Testp /\ t[2] = 0 /\ forked[t] < N /\ child = <<t[1], forked[t] + 1>>
  <2>1. PICK r \in 1 .. Runs : t = <<r, 0>> /\ t[1] = r
    BY <1>4 DEF Testp
  <2>2. forked[t] + 1 \in 0 .. N
    BY <1>0, <1>4
  <2>3. child \in Testp /\ child[1] = r /\ child[2] = forked[t] + 1 /\ <<child[1], 0>> = t
    BY <1>4, <2>1, <2>2 DEF Testp
  <2>4. t # Shell
    BY Zenon, <1>4, TaskSets
  <2>5. r <= forked[Shell]
    BY Zenon, <2>1, <2>4 DEF Exists
  <2>6. child[1] <= forked'[Shell] /\ child[2] <= forked'[<<child[1], 0>>]
    BY <1>0, <1>1, <2>3, <2>4, <2>5
  <2> QED
    BY Zenon, <1>1, <1>2, <2>3, <2>6 DEF Exists
<1> QED
  BY Zenon, <1>3, <1>4

(* The only tasks that come to exist are the forked ones.                  *)
LEMMA OnlyForked ==
  ASSUME Typed, NEW t, NEW child,
         \/ t = Shell /\ child = <<forked[t] + 1, 0>>
         \/ t \in Testp /\ t[2] = 0 /\ child = <<t[1], forked[t] + 1>>,
         forked' = [forked EXCEPT ![t] = @ + 1], Exists(t, forked) \/ t = Shell,
         \A r \in 1 .. Runs : r > forked[Shell] => forked[<<r, 0>>] = 0,
         NEW u \in Testp, Exists(u, forked')
  PROVE  Exists(u, forked) \/ u = child
<1>0. /\ t \in Tasks /\ forked \in [Tasks -> Nat] /\ Shell \in Tasks /\ forked[Shell] \in Nat
  BY TaskSets DEF Typed
<1>1. \A x \in Tasks : forked'[x] = IF x = t THEN forked[x] + 1 ELSE forked[x]
  BY <1>0
<1>2. PICK r \in 1 .. Runs, j \in 0 .. N : u = <<r, j>> /\ u[1] = r /\ u[2] = j
  BY DEF Testp
<1>3. PICK p \in Testp : p = <<r, 0>> /\ p \in Tasks /\ p # Shell /\ forked[p] \in Nat
  BY Zenon, <1>0, <1>2, ParentOf, TaskSets
<1>4. r <= forked'[Shell] /\ j <= forked'[p]
  BY Zenon, <1>2, <1>3 DEF Exists
<1>5. CASE t = Shell /\ child = <<forked[t] + 1, 0>>
  <2>1. forked'[Shell] = forked[Shell] + 1 /\ forked'[p] = forked[p]
    BY Zenon, <1>0, <1>1, <1>3, <1>5
  <2>2. CASE r <= forked[Shell]
    BY Zenon, <1>2, <1>3, <1>4, <2>1, <2>2 DEF Exists
  <2>3. CASE ~(r <= forked[Shell])
    <3>1. r = forked[Shell] + 1 /\ r > forked[Shell]
      BY <1>0, <1>4, <2>1, <2>3
    <3>2. forked[p] = 0
      BY Zenon, <1>3, <3>1
    <3>3. j = 0
      BY <1>4, <2>1, <3>2
    <3> QED
      BY Zenon, <1>2, <1>5, <3>1, <3>3
  <2> QED
    BY Zenon, <2>2, <2>3
<1>6. CASE t \in Testp /\ t[2] = 0 /\ child = <<t[1], forked[t] + 1>>
  <2>1. t # Shell /\ forked'[Shell] = forked[Shell]
    BY Zenon, <1>0, <1>1, <1>6, TaskSets
  <2>2. CASE p # t
    BY Zenon, <1>1, <1>2, <1>3, <1>4, <2>1, <2>2 DEF Exists
  <2>3. CASE p = t
    <3>1. j <= forked[p] \/ j = forked[p] + 1
      BY <1>1, <1>3, <1>4, <2>3
    <3>2. t[1] = r
      BY <1>3, <2>3
    <3> QED
      BY Zenon, <1>2, <1>3, <1>4, <1>6, <2>1, <2>3, <3>1, <3>2 DEF Exists
  <2> QED
    BY Zenon, <2>2, <2>3
<1> QED
  BY Zenon, <1>5, <1>6

(* The running task exists and is in the queue.                            *)
LEMMA CurrExists ==
  ASSUME SchedInv, curr \in Measured
  PROVE  (curr = Shell \/ Exists(curr, forked)) /\ \E n \in DOMAIN queue : queue[n] = curr
BY Zenon DEF SchedInv, QueueInv

LEMMA SchedFork ==
  ASSUME SchedInv, NEW t, curr = t, fork(t),
         \/ t = Shell /\ forked[t] < Runs
         \/ t \in Testp /\ t[2] = 0 /\ forked[t] < N
  PROVE  SchedInv' /\ FifoStep
<1>0. Typed /\ QueueInv /\ t \in Measured /\ policy \in [Tasks -> Policies] /\ DOMAIN state = Tasks
      /\ DOMAIN pc = Tasks
  BY Zenon, TaskSets DEF SchedInv, Typed
<1>1. Exists(t, forked) \/ t = Shell
  BY Zenon, <1>0, CurrExists
<1>2. PICK child : child = IF t = Shell THEN <<forked[t] + 1, 0>> ELSE <<t[1], forked[t] + 1>>
  BY Zenon
<1>3. /\ policy' = [policy EXCEPT ![child] = "SCHED_FIFO"]
      /\ state' = [state EXCEPT ![child] = "TASK_RUNNING"]
      /\ queue' = Append(queue, child)
      /\ forked' = [forked EXCEPT ![t] = @ + 1]
      /\ pc' = [pc EXCEPT ![t] = "wait"]
      /\ curr' = curr
  BY Zenon, <1>2 DEF fork, sched_fork, wake_up_new_task
<1>4. \/ t = Shell /\ forked[t] < Runs /\ child = <<forked[t] + 1, 0>>
      \/ t \in Testp /\ t[2] = 0 /\ forked[t] < N /\ child = <<t[1], forked[t] + 1>>
  BY Zenon, <1>2, TaskSets
<1>5. /\ child \in Testp /\ Exists(child, forked') /\ forked' \in [Tasks -> Nat]
      /\ \A u \in Testp : Exists(u, forked) => Exists(u, forked')
  BY Zenon, <1>0, <1>1, <1>3, <1>4, ForkExists
<1>6. \A u \in Testp : Exists(u, forked') => Exists(u, forked) \/ u = child
  BY Zenon, <1>0, <1>1, <1>3, <1>4, OnlyForked DEF QueueInv
<1>7. /\ policy' \in [Tasks -> Policies]
      /\ \A u \in Tasks : policy'[u] = IF u = child THEN "SCHED_FIFO" ELSE policy[u]
  BY Zenon, <1>0, <1>3 DEF Policies
<1>8. \A u \in Testp : Exists(u, forked') => policy'[u] = "SCHED_FIFO"
  BY Zenon, <1>0, <1>6, <1>7, TaskSets DEF QueueInv
<1>9. policy'[Shell] = policy[Shell]
  BY Zenon, <1>5, <1>7, TaskSets
<1>10. ASSUME NEW r \in 1 .. Runs, r > forked'[Shell] PROVE forked'[<<r, 0>>] = 0
  <2>1. /\ forked \in [Tasks -> Nat] /\ forked[Shell] \in Nat /\ t \in Tasks
        /\ \A x \in Tasks : forked'[x] = IF x = t THEN forked[x] + 1 ELSE forked[x]
    BY <1>0, <1>3, TaskSets DEF Typed
  <2>0. 0 \in 0 .. N
    BY CpuBurstAssumption
  <2>2. PICK p \in Testp : p = <<r, 0>> /\ p[1] = r
    <3>1. <<r, 0>> \in Testp
      BY <2>0 DEF Testp
    <3>2. <<r, 0>>[1] = r
      OBVIOUS
    <3> QED
      BY Zenon, <3>1, <3>2
  <2>3. r > forked[Shell]
    BY <1>10, <2>1, TaskSets
  <2>4. forked[p] = 0
    BY Zenon, <1>0, <2>2, <2>3 DEF QueueInv
  <2>5. p # t
    <3>1. ~(p[1] <= forked[Shell])
      BY <2>1, <2>2, <2>3
    <3> QED
      BY Zenon, <1>1, <3>1, TaskSets DEF Exists
  <2> QED
    BY Zenon, <2>1, <2>2, <2>4, <2>5, TaskSets
<1>11. DOMAIN state' = Tasks /\ DOMAIN pc' = Tasks /\ child \in Measured
  BY Zenon, <1>0, <1>3, <1>5, TaskSets
<1> QED
  BY Zenon, <1>3, <1>5, <1>7, <1>8, <1>9, <1>10, <1>11, Queued

(* A task blocks or dies.                                                  *)
LEMMA SchedBlock ==
  ASSUME SchedInv, NEW t \in Measured, curr = t, NEW s \in {"TASK_INTERRUPTIBLE", "TASK_DEAD"},
         schedule(t, s, deactivate_task(queue, t)), UNCHANGED <<policy, forked, pc>>
  PROVE  SchedInv' /\ FifoStep
<1>0. queue \in Seq(Measured) /\ DOMAIN pc' = Tasks /\ \E n \in DOMAIN queue : queue[n] = t
  BY Zenon, CurrExists DEF SchedInv, Typed
<1>1. PICK q : q = deactivate_task(queue, t)
  BY Zenon
<1>2. q \in Seq(Measured) /\ \A n \in DOMAIN q : \E m \in DOMAIN queue : q[n] = queue[m]
  <2>1. PICK k : k = queue /\ k \in Seq(Measured) /\ \E n \in DOMAIN k : k[n] = t
    BY Zenon, <1>0
  <2>2. q = deactivate_task(k, t)
    BY Zenon, <1>1, <2>1 DEF deactivate_task
  <2>3. q \in Seq(Measured) /\ From(q, k)
    BY Zenon, <2>1, <2>2, Deactivated
  <2> QED
    BY Zenon, <2>1, <2>3 DEF From
<1>3. schedule(curr, s, q)
  BY Zenon, <1>1
<1> QED
  BY Zenon, <1>0, <1>2, <1>3, Scheduled

LEMMA SchedNext ==
  ASSUME SchedInv, [Next]_vars
  PROVE  SchedInv' /\ FifoStep
<1>0. /\ Typed /\ queue \in Seq(Measured) /\ DOMAIN pc = Tasks /\ DOMAIN state = Tasks
      /\ policy \in [Tasks -> Policies] /\ forked \in [Tasks -> Nat] /\ QueueInv
  BY Zenon DEF SchedInv, Typed
<1>1. CASE UNCHANGED vars \/ StampNext \/ Tick
  <2>1. UNCHANGED <<queue, policy, forked, curr, state, pc>>
    BY Zenon, <1>1 DEF vars, sched, StampNext, Tick
  <2> QED
    BY Zenon, <1>0, <2>1, SchedSame
<1>2. CASE Preempt \/ OthersSwitch
  <2>1. PICK s \in {"TASK_RUNNING", "TASK_INTERRUPTIBLE"} :
          schedule(curr, s, queue) /\ UNCHANGED <<policy, forked, pc>>
    BY Zenon, <1>2 DEF Preempt, OthersSwitch
  <2>2. \A n \in DOMAIN queue : \E m \in DOMAIN queue : queue[n] = queue[m]
    BY Zenon
  <2> QED
    BY Zenon, <1>0, <2>1, <2>2, Scheduled
<1>3. CASE ShellStarts
  BY Zenon, <1>3, SchedFork DEF ShellStarts, Running
<1>4. ASSUME NEW t \in Testp, TaskStep(t) PROVE SchedInv' /\ FifoStep
  <2>0. curr = t /\ t \in Measured /\ t \in Tasks
    BY Zenon, <1>4, TaskSets DEF TaskStep, ParentForks, ParentExits, ChildExits, CountExit, LogRow,
       LogTotal, ExitNotify, do_task_dead, Running
  <2>1. CASE ParentForks(t)
    BY Zenon, <2>1, SchedFork DEF ParentForks, Running
  <2>2. CASE ParentExits(t) \/ ChildExits(t) \/ CountExit(t) \/ LogRow(t) \/ LogTotal(t)
    <3>1. UNCHANGED <<queue, policy, forked, curr, state>> /\ \E x : pc' = [pc EXCEPT ![t] = x]
      BY Zenon, <2>2 DEF ParentExits, ChildExits, CountExit, LogRow, LogTotal, sched
    <3> QED
      BY Zenon, <1>0, <3>1, SchedSame
  <2>3. CASE ExitNotify(t)
    <3>1. PICK p : p = parent(t)
      BY Zenon
    <3>2. /\ UNCHANGED <<policy, forked, curr>> /\ pc' = [pc EXCEPT ![t] = "dead"]
          /\ \/ /\ state' = [state EXCEPT ![p] = "TASK_RUNNING"]
                /\ queue' = Append(queue, p)
             \/ UNCHANGED <<state, queue>>
      BY Zenon, <2>3, <3>1 DEF ExitNotify
    <3>3. p \in Measured /\ (p = Shell \/ Exists(p, forked))
      <4>1. Exists(t, forked)
        BY Zenon, <2>0, CurrExists, TaskSets
      <4>2. PICK g \in Testp : g = <<t[1], 0>>
        BY Zenon, ParentOf
      <4>3. g[1] = t[1] /\ g[2] = 0 /\ <<g[1], 0>> = g
        BY <4>2
      <4>4. forked[g] \in Nat /\ 0 <= forked[g]
        BY <1>0, TaskSets
      <4>5. Exists(g, forked)
        BY Zenon, <4>1, <4>3, <4>4 DEF Exists
      <4> QED
        BY Zenon, <3>1, <4>2, <4>5, ParentOf, TaskSets
    <3>4. CASE UNCHANGED <<state, queue>>
      BY Zenon, <1>0, <3>2, <3>4, SchedSame
    <3>5. CASE state' = [state EXCEPT ![p] = "TASK_RUNNING"] /\ queue' = Append(queue, p)
      <4>1. DOMAIN state' = Tasks /\ DOMAIN pc' = Tasks
        BY Zenon, <1>0, <3>2, <3>5
      <4>2. \A u \in Testp : Exists(u, forked') => policy'[u] = "SCHED_FIFO"
        BY Zenon, <1>0, <3>2 DEF QueueInv
      <4>3. \A r \in 1 .. Runs : r > forked'[Shell] => forked'[<<r, 0>>] = 0
        BY Zenon, <1>0, <3>2 DEF QueueInv
      <4> QED
        BY Zenon, <1>0, <3>2, <3>3, <3>5, <4>1, <4>2, <4>3, Queued
    <3> QED
      BY Zenon, <3>2, <3>4, <3>5
  <2>4. CASE do_task_dead(t)
    BY Zenon, <2>0, <2>4, SchedBlock DEF do_task_dead
  <2> QED
    BY Zenon, <1>4, <2>1, <2>2, <2>3, <2>4 DEF TaskStep
<1>5. ASSUME NEW t \in Testp \cup {Shell}, WaitStep(t) PROVE SchedInv' /\ FifoStep
  <2>0. curr = t /\ t \in Measured
    BY Zenon, <1>5, TaskSets DEF WaitStep, Reap, WaitSleeps, Running
  <2>1. CASE Reap(t)
    <3>1. UNCHANGED <<queue, policy, forked, curr, state>> /\ \E x : pc' = [pc EXCEPT ![t] = x]
      BY Zenon, <2>1 DEF Reap, sched
    <3> QED
      BY Zenon, <1>0, <3>1, SchedSame
  <2>2. CASE WaitSleeps(t)
    BY Zenon, <2>0, <2>2, SchedBlock DEF WaitSleeps
  <2> QED
    BY Zenon, <1>5, <2>1, <2>2 DEF WaitStep
<1> QED
  BY Zenon, <1>1, <1>2, <1>3, <1>4, <1>5 DEF Next

LEMMA SchedInit == Init => SchedInv
<1> SUFFICES ASSUME Init PROVE SchedInv
  OBVIOUS
<1>1. Typed
  <2>1. queue \in Seq(Measured)
    BY TaskSets DEF Init
  <2>2. policy \in [Tasks -> Policies] /\ forked \in [Tasks -> Nat]
    BY DEF Init
  <2> QED
    BY Zenon, <2>1, <2>2, TaskSets DEF Init, Typed
<1>2. \A t \in Testp : ~Exists(t, forked)
  <2>1. forked[Shell] = 0
    BY Zenon, TaskSets DEF Init
  <2>2. \A t \in Testp : ~(t[1] <= 0)
    BY DEF Testp
  <2> QED
    BY Zenon, <2>1, <2>2 DEF Exists
<1>3. \A r \in 1 .. Runs : forked[<<r, 0>>] = 0
  <2>1. \A r \in 1 .. Runs : <<r, 0>> \in Testp
    BY CpuBurstAssumption DEF Testp
  <2> QED
    BY Zenon, <2>1, TaskSets DEF Init
<1>4. 1 \in DOMAIN queue /\ (\A n \in DOMAIN queue : queue[n] = Shell) /\ curr = Shell
  BY DEF Init
<1>5. QueueInv
  BY Zenon, <1>2, <1>3, <1>4, TaskSets DEF QueueInv
<1> QED
  BY Zenon, <1>1, <1>5 DEF SchedInv

(* For any number of runs and children: a task of testp, which sched_fork  *)
(* makes a FIFO task, loses the CPU to a task of the shell or of testp     *)
(* only when it blocks or exits.                                           *)
THEOREM FifoAlwaysRunsOn == Spec => FifoRunsUntilItBlocks
<1>1. SchedInv /\ [Next]_vars => SchedInv' /\ FifoStep
  BY Zenon, SchedNext
<1> QED
  BY <1>1, SchedInit, PTL DEF Spec, FifoRunsUntilItBlocks, FifoStep

-----------------------------------------------------------------------------
(* The runs and their log.                                                 *)

Places == {"user", "wait", "exit", "row", "total", "notify", "dead"}

(* The loops of the shell and of testp: a parent waits for each child, so  *)
(* only its last one can be alive.                                         *)
LoopInv ==
  /\ pc \in [Tasks -> Places]
  /\ CHILD_PROCESS_COUNT \in Nat /\ \E S : log \in Seq(S)
  /\ zombies \subseteq Testp /\ \A t \in zombies : pc[t] = "dead"
  /\ pc[Shell] \in {"user", "wait"} /\ forked[Shell] <= Runs
  /\ \A t \in Testp : (Exists(t, forked) \/ pc[t] = "user") /\ (t[2] # 0 => pc[t] # "wait")
  /\ \A r \in 1 .. Runs :
       /\ forked[<<r, 0>>] <= N
       /\ r < forked[Shell] \/ (r = forked[Shell] /\ pc[Shell] # "wait") => pc[<<r, 0>>] = "dead"
       /\ \A j \in 1 .. N :
            j < forked[<<r, 0>>] \/ (j = forked[<<r, 0>>] /\ pc[<<r, 0>>] # "wait")
              => pc[<<r, j>>] = "dead"

(* The log holds the rows of the first m children of run r, and the whole  *)
(* of run r.  Before the first row it still holds an earlier run.          *)
RowsOf(r, m, lines) ==
  \A i \in 1 .. m : lines[i].kind = "row" /\ lines[i].task = <<r, i>>

Closed(r, lines) ==
  /\ Len(lines) = N + 1 /\ RowsOf(r, N, lines)
  /\ lines[N + 1].kind = "total" /\ lines[N + 1].task = <<r, 0>>

Open(r, m, lines) ==
  IF m = 0 THEN lines = <<>> \/ \E x \in 1 .. Runs : Closed(x, lines)
  ELSE Len(lines) = m /\ RowsOf(r, m, lines)

(* How far run r is, with f children forked: its own exits are counted, in *)
(* order, and the log is as long as that.                                  *)
Stage(r, f) ==
  \/ /\ pc[<<r, 0>>] \in {"notify", "dead"}
     /\ CHILD_PROCESS_COUNT = 0 /\ Closed(r, log)
  \/ /\ pc[<<r, 0>>] = "total" /\ f = N
     /\ CHILD_PROCESS_COUNT = N + 1 /\ Open(r, N, log)
  \/ /\ pc[<<r, 0>>] \in {"user", "wait", "exit"} /\ f = 0
     /\ CHILD_PROCESS_COUNT = 0 /\ Open(r, 0, log)
  \/ /\ pc[<<r, 0>>] = "wait" /\ f > 0 /\ pc[<<r, f>>] \in {"user", "exit"}
     /\ CHILD_PROCESS_COUNT = f - 1 /\ Open(r, f - 1, log)
  \/ /\ pc[<<r, 0>>] = "wait" /\ f > 0 /\ pc[<<r, f>>] = "row"
     /\ CHILD_PROCESS_COUNT = f /\ Open(r, f - 1, log)
  \/ /\ pc[<<r, 0>>] \in {"user", "wait", "exit"} /\ f > 0 /\ pc[<<r, f>>] \in {"notify", "dead"}
     /\ CHILD_PROCESS_COUNT = f /\ Open(r, f, log)

LogInv ==
  \/ forkFailed
  \/ forked[Shell] = 0 /\ CHILD_PROCESS_COUNT = 0 /\ log = <<>>
  \/ \E r \in 1 .. Runs, f \in 0 .. N :
       r = forked[Shell] /\ f = forked[<<r, 0>>] /\ Stage(r, f)

IInv == SchedInv /\ LoopInv

(* The tasks of run r.                                                     *)
LEMMA RunTasks ==
  ASSUME NEW r \in 1 .. Runs
  PROVE  /\ <<r, 0>> \in Testp /\ <<r, 0>> \in Tasks /\ <<r, 0>> # Shell
         /\ <<r, 0>>[1] = r /\ <<r, 0>>[2] = 0
         /\ \A j \in 0 .. N : /\ <<r, j>> \in Testp /\ <<r, j>> \in Tasks
                               /\ <<r, j>>[1] = r /\ <<r, j>>[2] = j
         /\ \A j \in 1 .. N : <<r, j>> \in Tasks /\ <<r, j>> # <<r, 0>>
<1>1. 0 \in 0 .. N /\ \A j \in 1 .. N : j \in 0 .. N /\ j # 0
  BY CpuBurstAssumption
<1>2. \A j \in 0 .. N : <<r, j>> \in Testp /\ <<r, j>>[1] = r /\ <<r, j>>[2] = j
  BY DEF Testp
<1>3. \A j \in 0 .. N : <<r, j>> \in Tasks /\ <<r, j>> # Shell
  BY Zenon, <1>2, TaskSets
<1>4. \A j \in 1 .. N : <<r, j>> # <<r, 0>>
  BY Zenon, <1>1, <1>2
<1> QED
  BY Zenon, <1>1, <1>2, <1>3, <1>4

(* A task that is not dead is the last of its parent, which waits for it.  *)
LEMMA OnlyLast ==
  ASSUME IInv, NEW t \in Testp, curr = t, pc[t] # "dead"
  PROVE  \E r \in 1 .. Runs : \E f \in 0 .. N :
           /\ r = forked[Shell] /\ f = forked[<<r, 0>>] /\ pc[Shell] = "wait"
           /\ \/ t = <<r, 0>>
              \/ t = <<r, f>> /\ f \in 1 .. N /\ pc[<<r, 0>>] = "wait"
<1>0. /\ Typed /\ LoopInv /\ N \in Nat /\ forked \in [Tasks -> Nat]
      /\ forked[Shell] \in Nat /\ Exists(t, forked)
  BY TaskSets, CurrExists, CpuBurstAssumption DEF IInv, SchedInv, Typed
<1>1. PICK r \in 1 .. Runs, j \in 0 .. N : t = <<r, j>> /\ t[1] = r /\ t[2] = j
  BY DEF Testp
<1>2. PICK f \in 0 .. N : f = forked[<<r, 0>>]
  <2>1. forked[<<r, 0>>] \in Nat /\ forked[<<r, 0>>] <= N
    BY Zenon, <1>0, RunTasks DEF LoopInv
  <2> QED
    BY <1>0, <2>1
<1>3. r <= forked[Shell] /\ j <= f
  BY Zenon, <1>0, <1>1, <1>2 DEF Exists
<1>4. CASE j = 0
  <2>1. ~(r < forked[Shell]) /\ (r = forked[Shell] => pc[Shell] = "wait")
    BY Zenon, <1>0, <1>1, <1>4 DEF LoopInv
  <2>2. r = forked[Shell]
    BY <1>0, <1>3, <2>1
  <2> QED
    BY Zenon, <1>1, <1>2, <1>4, <2>1, <2>2
<1>5. CASE j # 0
  <2>1. j \in 1 .. N
    BY <1>5
  <2>2. ~(j < f) /\ (j = f => pc[<<r, 0>>] = "wait")
    BY Zenon, <1>0, <1>1, <1>2, <2>1 DEF LoopInv
  <2>3. j = f
    BY <1>3, <2>2
  <2>4. ~(r < forked[Shell]) /\ (r = forked[Shell] => pc[Shell] = "wait")
    BY Zenon, <1>0, <2>2, <2>3 DEF LoopInv
  <2>5. r = forked[Shell]
    BY <1>0, <1>3, <2>4
  <2> QED
    BY Zenon, <1>1, <1>2, <2>1, <2>2, <2>3, <2>4, <2>5
<1> QED
  BY Zenon, <1>4, <1>5

(* A step of a living task that forks nothing keeps the loops.             *)
LEMMA LoopKept ==
  ASSUME IInv, NEW t \in Measured, curr = t, pc[t] # "dead", NEW b \in Places,
         pc' = [pc EXCEPT ![t] = b], forked' = forked,
         b = "wait" => pc[t] = "wait", t = Shell => b \in {"user", "wait"},
         pc[t] = "wait" => b = "wait" \/ pc[lastChild(t)] = "dead",
         zombies' \subseteq zombies \cup {t}, t \in zombies' => t \in zombies \/ b = "dead",
         t = Shell => zombies' \subseteq zombies,
         CHILD_PROCESS_COUNT' \in Nat, \E S : log' \in Seq(S)
  PROVE  LoopInv'
<1>0. LoopInv /\ t \in Tasks /\ pc \in [Tasks -> Places] /\ (t = Shell \/ Exists(t, forked))
  BY Zenon, TaskSets, CurrExists DEF IInv, LoopInv
<1>1. pc' \in [Tasks -> Places] /\ \A u \in Tasks : pc'[u] = IF u = t THEN b ELSE pc[u]
  BY Zenon, <1>0
<1>2. \A u \in Tasks : pc[u] = "dead" => pc'[u] = "dead"
  BY Zenon, <1>1
<1>3. zombies' \subseteq Testp /\ \A u \in zombies' : pc'[u] = "dead"
  <2>1. zombies' \subseteq Testp
    BY Zenon, <1>0, TaskSets DEF LoopInv
  <2>2. ASSUME NEW u \in zombies' PROVE pc'[u] = "dead"
    <3>1. u \in Tasks
      BY Zenon, <2>1, TaskSets
    <3>2. CASE u \in zombies
      BY Zenon, <1>0, <1>2, <3>1, <3>2 DEF LoopInv
    <3>3. CASE u \notin zombies
      BY Zenon, <1>1, <3>1, <3>3
    <3> QED
      BY Zenon, <3>2, <3>3
  <2> QED
    BY Zenon, <2>1, <2>2
<1>4. pc'[Shell] \in {"user", "wait"} /\ forked'[Shell] <= Runs
  BY Zenon, <1>0, <1>1, TaskSets DEF LoopInv
<1>5. ASSUME NEW u \in Testp
      PROVE  (Exists(u, forked') \/ pc'[u] = "user") /\ (u[2] # 0 => pc'[u] # "wait")
  BY Zenon, <1>0, <1>1, TaskSets DEF LoopInv
<1>6. ASSUME NEW r \in 1 .. Runs
      PROVE  /\ forked'[<<r, 0>>] <= N
             /\ r < forked'[Shell] \/ (r = forked'[Shell] /\ pc'[Shell] # "wait") => pc'[<<r, 0>>] = "dead"
             /\ \A j \in 1 .. N :
                  j < forked'[<<r, 0>>] \/ (j = forked'[<<r, 0>>] /\ pc'[<<r, 0>>] # "wait")
                    => pc'[<<r, j>>] = "dead"
  <2>1. /\ forked[<<r, 0>>] <= N
        /\ r < forked[Shell] \/ (r = forked[Shell] /\ pc[Shell] # "wait") => pc[<<r, 0>>] = "dead"
        /\ \A j \in 1 .. N :
             j < forked[<<r, 0>>] \/ (j = forked[<<r, 0>>] /\ pc[<<r, 0>>] # "wait")
               => pc[<<r, j>>] = "dead"
    BY Zenon, <1>0 DEF LoopInv
  <2>2. r = forked[Shell] /\ pc[Shell] = "wait" /\ pc'[Shell] # "wait" => pc[<<r, 0>>] = "dead"
    <3> SUFFICES ASSUME r = forked[Shell], pc[Shell] = "wait", pc'[Shell] # "wait"
                 PROVE  pc[<<r, 0>>] = "dead"
      BY Zenon
    <3>1. t = Shell /\ b # "wait"
      BY Zenon, <1>1, TaskSets
    <3>2. lastChild(t) = <<r, 0>>
      BY Zenon, <3>1 DEF lastChild
    <3> QED
      BY Zenon, <3>1, <3>2
  <2>3. ASSUME NEW j \in 1 .. N, j = forked[<<r, 0>>], pc[<<r, 0>>] = "wait", pc'[<<r, 0>>] # "wait"
        PROVE  pc[<<r, j>>] = "dead"
    <3>1. t = <<r, 0>> /\ b # "wait"
      BY Zenon, <1>1, <2>3, RunTasks
    <3>2. t # Shell /\ t[1] = r
      BY Zenon, <3>1, RunTasks
    <3>3. lastChild(t) = <<r, j>>
      BY Zenon, <2>3, <3>1, <3>2 DEF lastChild
    <3> QED
      BY Zenon, <2>3, <3>1, <3>3
  <2>4. <<r, 0>> \in Tasks /\ \A j \in 1 .. N : <<r, j>> \in Tasks
    BY Zenon, RunTasks
  <2>5. r < forked'[Shell] \/ (r = forked'[Shell] /\ pc'[Shell] # "wait") => pc'[<<r, 0>>] = "dead"
    BY Zenon, <1>2, <2>1, <2>2, <2>4
  <2>6. ASSUME NEW j \in 1 .. N,
               j < forked'[<<r, 0>>] \/ (j = forked'[<<r, 0>>] /\ pc'[<<r, 0>>] # "wait")
        PROVE  pc'[<<r, j>>] = "dead"
    BY Zenon, <1>2, <2>1, <2>3, <2>4, <2>6
  <2> QED
    BY Zenon, <2>1, <2>5, <2>6
<1> QED
  BY Zenon, <1>1, <1>3, <1>4, <1>5, <1>6 DEF LoopInv

(* fork() of the shell or of a run.                                        *)
LEMMA LoopFork ==
  ASSUME IInv, NEW t, Running(t, "user"), fork(t),
         \/ t = Shell /\ forked[t] < Runs
         \/ t \in Testp /\ t[2] = 0 /\ forked[t] < N
  PROVE  LoopInv'
<1>0. /\ LoopInv /\ Typed /\ t \in Tasks /\ t \in Measured /\ curr = t /\ pc[t] = "user"
      /\ pc \in [Tasks -> Places] /\ forked \in [Tasks -> Nat]
  BY Zenon, TaskSets DEF IInv, LoopInv, SchedInv, Typed, Running
<1>1. t = Shell \/ Exists(t, forked)
  BY Zenon, <1>0, CurrExists DEF IInv
<1>2. /\ forked' = [forked EXCEPT ![t] = @ + 1] /\ pc' = [pc EXCEPT ![t] = "wait"]
      /\ UNCHANGED <<zombies, CHILD_PROCESS_COUNT, log>>
  BY Zenon DEF fork, statics
<1>3. /\ pc' \in [Tasks -> Places]
      /\ \A u \in Tasks : pc'[u] = IF u = t THEN "wait" ELSE pc[u]
      /\ \A u \in Tasks : forked'[u] = IF u = t THEN forked[u] + 1 ELSE forked[u]
  BY Zenon, <1>0, <1>2 DEF Places
<1>4. \A u \in Testp : Exists(u, forked) => Exists(u, forked')
  <2>1. PICK child : child = IF t = Shell THEN <<forked[t] + 1, 0>> ELSE <<t[1], forked[t] + 1>>
    BY Zenon
  <2>2. \/ t = Shell /\ forked[t] < Runs /\ child = <<forked[t] + 1, 0>>
        \/ t \in Testp /\ t[2] = 0 /\ forked[t] < N /\ child = <<t[1], forked[t] + 1>>
    BY Zenon, <2>1, TaskSets
  <2> QED
    BY Zenon, <1>0, <1>1, <1>2, <2>2, ForkExists
<1>5. \A u \in zombies : u \in Tasks /\ u # t /\ pc'[u] = "dead"
  BY Zenon, <1>0, <1>3, TaskSets DEF LoopInv
<1>6. forked[Shell] \in Nat /\ Runs \in Nat /\ N \in Nat
  BY <1>0, TaskSets, CpuBurstAssumption
<1>7. pc'[Shell] \in {"user", "wait"} /\ forked'[Shell] <= Runs
  <2>1. CASE t = Shell
    BY <1>0, <1>3, <1>6, <2>1, TaskSets
  <2>2. CASE t # Shell
    BY Zenon, <1>0, <1>3, <2>2, TaskSets DEF LoopInv
  <2> QED
    BY Zenon, <2>1, <2>2
<1>8. ASSUME NEW u \in Testp
      PROVE  (Exists(u, forked') \/ pc'[u] = "user") /\ (u[2] # 0 => pc'[u] # "wait")
  BY Zenon, <1>0, <1>1, <1>3, <1>4, TaskSets DEF LoopInv
<1>9. ASSUME NEW r \in 1 .. Runs
      PROVE  /\ forked'[<<r, 0>>] <= N
             /\ r < forked'[Shell] \/ (r = forked'[Shell] /\ pc'[Shell] # "wait") => pc'[<<r, 0>>] = "dead"
             /\ \A j \in 1 .. N :
                  j < forked'[<<r, 0>>] \/ (j = forked'[<<r, 0>>] /\ pc'[<<r, 0>>] # "wait")
                    => pc'[<<r, j>>] = "dead"
  <2>1. /\ forked[<<r, 0>>] <= N
        /\ r < forked[Shell] \/ (r = forked[Shell] /\ pc[Shell] # "wait") => pc[<<r, 0>>] = "dead"
        /\ \A j \in 1 .. N :
             j < forked[<<r, 0>>] \/ (j = forked[<<r, 0>>] /\ pc[<<r, 0>>] # "wait")
               => pc[<<r, j>>] = "dead"
    BY Zenon, <1>0 DEF LoopInv
  <2>2. PICK p \in Tasks : p = <<r, 0>> /\ p # Shell /\ forked[p] \in Nat
    BY Zenon, <1>0, RunTasks
  <2>3. \A j \in 1 .. N : <<r, j>> \in Tasks /\ (pc[<<r, j>>] = "dead" => pc'[<<r, j>>] = "dead")
    BY Zenon, <1>0, <1>3, RunTasks
  <2>4. pc[p] = "dead" => pc'[p] = "dead"
    BY Zenon, <1>0, <1>3
  <2>5. CASE t = Shell
    <3>1. /\ forked'[p] = forked[p] /\ pc'[p] = pc[p] /\ pc'[Shell] = "wait" /\ pc[Shell] = "user"
          /\ forked'[Shell] = forked[Shell] + 1
      BY Zenon, <1>0, <1>3, <2>2, <2>5
    <3>2. r < forked'[Shell] => r < forked[Shell] \/ r = forked[Shell]
      BY <1>6, <3>1
    <3>3. r < forked'[Shell] => pc[p] = "dead"
      BY Zenon, <2>1, <2>2, <3>1, <3>2
    <3> QED
      BY Zenon, <2>1, <2>2, <2>3, <3>1, <3>3
  <2>6. CASE t # Shell /\ p # t
    <3>1. forked'[p] = forked[p] /\ pc'[p] = pc[p] /\ pc'[Shell] = pc[Shell] /\ forked'[Shell] = forked[Shell]
      BY Zenon, <1>3, <2>2, <2>6, TaskSets
    <3> QED
      BY Zenon, <2>1, <2>2, <2>3, <3>1
  <2>7. CASE t # Shell /\ p = t
    <3>1. /\ forked'[p] = forked[p] + 1 /\ pc'[p] = "wait" /\ pc[p] = "user" /\ forked[p] < N
          /\ pc'[Shell] = pc[Shell] /\ forked'[Shell] = forked[Shell]
      BY Zenon, <1>0, <1>3, <2>2, <2>7, TaskSets
    <3>2. forked'[p] <= N
      BY <1>6, <2>2, <3>1
    <3>3. ASSUME NEW j \in 1 .. N, j < forked'[p] PROVE pc[<<r, j>>] = "dead"
      <4>1. j < forked[p] \/ j = forked[p]
        BY <2>2, <3>1, <3>3
      <4> QED
        BY Zenon, <2>1, <2>2, <3>1, <4>1
    <3> QED
      BY Zenon, <2>1, <2>2, <2>3, <3>1, <3>2, <3>3
  <2> QED
    BY Zenon, <2>5, <2>6, <2>7
<1>10. zombies' \subseteq Testp /\ CHILD_PROCESS_COUNT' \in Nat /\ \E S : log' \in Seq(S)
  BY Zenon, <1>0, <1>2 DEF LoopInv
<1> QED
  BY Zenon, <1>2, <1>3, <1>5, <1>7, <1>8, <1>9, <1>10 DEF LoopInv

(* A line x is appended to lines.                                          *)
Longer(l, lines, x) ==
  /\ Len(l) = Len(lines) + 1 /\ l[Len(lines) + 1] = x
  /\ \A i \in 1 .. Len(lines) : l[i] = lines[i]

LEMMA LineAdded ==
  ASSUME NEW S, NEW lines \in Seq(S), NEW x, NEW l, l = Append(lines, x)
  PROVE  (\E T : l \in Seq(T)) /\ Longer(l, lines, x)
<1>1. lines \in Seq(S \cup {x}) /\ x \in S \cup {x}
  OBVIOUS
<1>2. l \in Seq(S \cup {x})
  BY <1>1
<1>3. Longer(l, lines, x)
  BY <1>1 DEF Longer
<1> QED
  BY Zenon, <1>2, <1>3

LEMMA LogTyped ==
  ASSUME \E S : log \in Seq(S), NEW x, log' = Append(openLines, x)
  PROVE  \E T : log' \in Seq(T)
<1>1. PICK S : log \in Seq(S)
  OBVIOUS
<1>2. <<>> \in Seq(S)
  OBVIOUS
<1>3. PICK o \in Seq(S) : o = openLines
  BY Zenon, <1>1, <1>2 DEF openLines
<1>4. PICK l : l = Append(o, x)
  BY Zenon
<1>5. \E T : l \in Seq(T)
  BY Zenon, <1>4, LineAdded
<1> QED
  BY Zenon, <1>3, <1>4, <1>5

LEMMA LoopNext ==
  ASSUME IInv, [Next]_vars
  PROVE  LoopInv'
<1>0. /\ LoopInv /\ CHILD_PROCESS_COUNT \in Nat /\ \E S : log \in Seq(S)
  BY Zenon DEF IInv, LoopInv
<1>1. ASSUME UNCHANGED <<pc, forked, zombies, CHILD_PROCESS_COUNT, log>> PROVE LoopInv'
  BY Zenon, <1>0, <1>1 DEF LoopInv
<1>2. CASE UNCHANGED vars \/ StampNext \/ Tick \/ Preempt \/ OthersSwitch
  BY Zenon, <1>1, <1>2 DEF vars, statics, StampNext, Tick, Preempt, OthersSwitch
<1>3. CASE ShellStarts
  BY Zenon, <1>3, LoopFork DEF ShellStarts
<1>4. ASSUME NEW t \in Testp, TaskStep(t) PROVE LoopInv'
  <2>0. t \in Measured /\ t # Shell
    BY Zenon, TaskSets
  <2>1. CASE ParentForks(t)
    BY Zenon, <2>1, LoopFork DEF ParentForks
  <2>2. CASE ParentExits(t) \/ ChildExits(t) \/ CountExit(t) \/ LogRow(t) \/ LogTotal(t)
    <3>1. curr = t /\ pc[t] \notin {"wait", "dead"} /\ zombies' = zombies /\ forked' = forked
      BY Zenon, <2>2 DEF ParentExits, ChildExits, CountExit, LogRow, LogTotal, Running
    <3>2. PICK b \in Places \ {"wait"} : pc' = [pc EXCEPT ![t] = b]
      BY Zenon, <2>2 DEF ParentExits, ChildExits, CountExit, LogRow, LogTotal, Places
    <3>3. CHILD_PROCESS_COUNT' \in Nat
      <4>1. CHILD_PROCESS_COUNT + 1 \in Nat /\ 0 \in Nat
        BY <1>0
      <4> QED
        BY Zenon, <1>0, <2>2, <4>1 DEF ParentExits, ChildExits, CountExit, LogRow, LogTotal, statics
    <3>4. \E S : log' \in Seq(S)
      <4>1. log' = log \/ \E x : log' = Append(openLines, x)
        BY Zenon, <2>2 DEF ParentExits, ChildExits, CountExit, LogRow, LogTotal, statics
      <4> QED
        BY Zenon, <1>0, <4>1, LogTyped
    <3> QED
      BY Zenon, <2>0, <3>1, <3>2, <3>3, <3>4, LoopKept
  <2>3. CASE ExitNotify(t)
    <3>1. /\ curr = t /\ pc[t] = "notify" /\ zombies' = zombies \cup {t} /\ forked' = forked
          /\ pc' = [pc EXCEPT ![t] = "dead"] /\ UNCHANGED <<CHILD_PROCESS_COUNT, log>>
      BY Zenon, <2>3 DEF ExitNotify, Running, statics
    <3>2. "dead" \in Places
      BY Zenon DEF Places
    <3> QED
      BY Zenon, <1>0, <2>0, <3>1, <3>2, LoopKept
  <2>4. CASE do_task_dead(t)
    BY Zenon, <1>1, <2>4 DEF do_task_dead, statics
  <2> QED
    BY Zenon, <1>4, <2>1, <2>2, <2>3, <2>4 DEF TaskStep
<1>5. ASSUME NEW t \in Testp \cup {Shell}, WaitStep(t) PROVE LoopInv'
  <2>1. CASE Reap(t)
    <3>1. /\ curr = t /\ pc[t] = "wait" /\ zombies' \subseteq zombies /\ forked' = forked
          /\ pc' = [pc EXCEPT ![t] = "user"] /\ UNCHANGED <<CHILD_PROCESS_COUNT, log>>
          /\ lastChild(t) \in zombies
      BY Zenon, <2>1 DEF Reap, Running, statics
    <3>2. "user" \in Places /\ t \in Measured /\ pc[lastChild(t)] = "dead"
      BY Zenon, <1>0, <3>1, TaskSets DEF Places, LoopInv
    <3> QED
      BY Zenon, <1>0, <3>1, <3>2, LoopKept
  <2>2. CASE WaitSleeps(t)
    BY Zenon, <1>1, <2>2 DEF WaitSleeps, statics
  <2> QED
    BY Zenon, <1>5, <2>1, <2>2 DEF WaitStep
<1> QED
  BY Zenon, <1>2, <1>3, <1>4, <1>5 DEF Next

-----------------------------------------------------------------------------
(* The log.                                                                *)

(* A run whose fork() failed has left its loop for good.                   *)
LEMMA FailedStays ==
  ASSUME LoopInv, forkFailed, NEW t \in Tasks, NEW b, pc' = [pc EXCEPT ![t] = b],
         pc[t] \in {"user", "wait"} \/ b \notin {"user", "wait"},
         \A u \in Tasks : pc[u] = "user" \/ forked'[u] = forked[u]
  PROVE  forkFailed'
<1>1. PICK r \in 1 .. Runs : forked[<<r, 0>>] < N /\ pc[<<r, 0>>] \notin {"user", "wait"}
  BY Zenon DEF forkFailed
<1>2. <<r, 0>> \in Tasks /\ pc \in [Tasks -> Places]
  BY Zenon, RunTasks DEF LoopInv
<1>3. forked'[<<r, 0>>] < N /\ pc'[<<r, 0>>] \notin {"user", "wait"}
  BY Zenon, <1>1, <1>2
<1> QED
  BY Zenon, <1>3 DEF forkFailed

(* The stage of the run whose task makes a step.                           *)
LEMMA CurrentStage ==
  ASSUME IInv, LogInv, ~forkFailed, NEW t \in Testp, curr = t, pc[t] # "dead"
  PROVE  \E r \in 1 .. Runs : \E f \in 0 .. N :
           /\ r = forked[Shell] /\ f = forked[<<r, 0>>] /\ Stage(r, f)
           /\ \/ t = <<r, 0>>
              \/ t = <<r, f>> /\ f \in 1 .. N /\ pc[<<r, 0>>] = "wait"
<1>1. PICK r \in 1 .. Runs : \E f \in 0 .. N :
        /\ r = forked[Shell] /\ f = forked[<<r, 0>>]
        /\ \/ t = <<r, 0>>
           \/ t = <<r, f>> /\ f \in 1 .. N /\ pc[<<r, 0>>] = "wait"
  BY Zenon, OnlyLast
<1>2. forked[Shell] # 0
  BY <1>1
<1>3. \E f \in 0 .. N : f = forked[<<r, 0>>] /\ Stage(r, f)
  BY Zenon, <1>1, <1>2 DEF LogInv
<1> QED
  BY Zenon, <1>1, <1>3

(* What do_exit appends to: the rows of the run so far.                    *)
LEMMA LinesSoFar ==
  ASSUME \E S : log \in Seq(S), NEW r \in 1 .. Runs, NEW m \in 0 .. N, Open(r, m, log)
  PROVE  \E S : openLines \in Seq(S) /\ Len(openLines) = m /\ RowsOf(r, m, openLines)
<1>0. N \in Nat \ {0}
  BY CpuBurstAssumption
<1>1. PICK S : log \in Seq(S)
  OBVIOUS
<1>2. CASE m = 0
  <2>1. openLines = <<>>
    <3>1. CASE log = <<>>
      BY Zenon, <3>1 DEF openLines
    <3>2. ASSUME NEW x \in 1 .. Runs, Closed(x, log) PROVE openLines = <<>>
      <4>1. Len(log) = N + 1 /\ log[N + 1].kind = "total"
        BY Zenon, <3>2 DEF Closed
      <4>2. log # <<>>
        BY <1>0, <4>1
      <4> QED
        BY Zenon, <4>1, <4>2 DEF openLines
    <3> QED
      BY Zenon, <1>2, <3>1, <3>2 DEF Open
  <2>2. <<>> \in Seq(S) /\ Len(<<>>) = 0 /\ 1 .. 0 = {}
    OBVIOUS
  <2> QED
    BY Zenon, <1>2, <2>1, <2>2 DEF RowsOf
<1>3. CASE m # 0
  <2>1. Len(log) = m /\ RowsOf(r, m, log)
    BY Zenon, <1>3 DEF Open
  <2>2. m \in 1 .. m
    BY <1>3
  <2>3. log[m].kind # "total"
    <3>1. log[m].kind = "row"
      BY Zenon, <2>1, <2>2 DEF RowsOf
    <3> QED
      BY <3>1
  <2>4. openLines = log
    BY Zenon, <2>1, <2>3 DEF openLines
  <2> QED
    BY Zenon, <1>1, <2>1, <2>4 DEF RowsOf
<1> QED
  BY Zenon, <1>2, <1>3

LEMMA RowAdded ==
  ASSUME \E S : log \in Seq(S), NEW r \in 1 .. Runs, NEW f \in 1 .. N, Open(r, f - 1, log),
         NEW x, x.kind = "row", x.task = <<r, f>>, log' = Append(openLines, x)
  PROVE  Open(r, f, log)'
<1>0. f - 1 \in 0 .. N /\ f \in Nat /\ f # 0
  BY CpuBurstAssumption
<1>1. PICK S : openLines \in Seq(S) /\ Len(openLines) = f - 1 /\ RowsOf(r, f - 1, openLines)
  BY Zenon, <1>0, LinesSoFar
<1>2. PICK o \in Seq(S) : o = openLines
  BY Zenon, <1>1
<1>3. PICK l : l = log' /\ l = Append(o, x)
  BY Zenon, <1>2
<1>4. Longer(l, o, x)
  BY Zenon, <1>3, LineAdded
<1>5. Len(log') = f /\ log'[f] = x /\ \A i \in 1 .. f - 1 : log'[i] = o[i]
  <2>1. f - 1 + 1 = f
    BY <1>0
  <2> QED
    BY Zenon, <1>1, <1>2, <1>3, <1>4, <2>1 DEF Longer
<1>6. ASSUME NEW i \in 1 .. f PROVE log'[i].kind = "row" /\ log'[i].task = <<r, i>>
  <2>1. i \in 1 .. f - 1 \/ i = f
    BY <1>0
  <2>2. CASE i \in 1 .. f - 1
    <3>1. o[i].kind = "row" /\ o[i].task = <<r, i>>
      BY Zenon, <1>1, <1>2, <2>2 DEF RowsOf
    <3>2. log'[i] = o[i]
      BY Zenon, <1>5, <2>2
    <3> QED
      BY Zenon, <3>1, <3>2
  <2>3. CASE i = f
    BY Zenon, <1>5, <2>3
  <2> QED
    BY Zenon, <2>1, <2>2, <2>3
<1> QED
  BY Zenon, <1>0, <1>5, <1>6 DEF Open, RowsOf

LEMMA TotalAdded ==
  ASSUME \E S : log \in Seq(S), NEW r \in 1 .. Runs, Open(r, N, log),
         NEW x, x.kind = "total", x.task = <<r, 0>>, log' = Append(openLines, x)
  PROVE  Closed(r, log)'
<1>0. N \in 0 .. N
  BY CpuBurstAssumption
<1>1. PICK S : openLines \in Seq(S) /\ Len(openLines) = N /\ RowsOf(r, N, openLines)
  BY Zenon, <1>0, LinesSoFar
<1>2. PICK o \in Seq(S) : o = openLines
  BY Zenon, <1>1
<1>3. PICK l : l = log' /\ l = Append(o, x)
  BY Zenon, <1>2
<1>4. Longer(l, o, x)
  BY Zenon, <1>3, LineAdded
<1>5. Len(log') = N + 1 /\ log'[N + 1] = x /\ \A i \in 1 .. N : log'[i] = o[i]
  BY Zenon, <1>1, <1>2, <1>3, <1>4 DEF Longer
<1>6. ASSUME NEW i \in 1 .. N PROVE log'[i].kind = "row" /\ log'[i].task = <<r, i>>
  <2>1. o[i].kind = "row" /\ o[i].task = <<r, i>>
    BY Zenon, <1>1, <1>2 DEF RowsOf
  <2> QED
    BY Zenon, <1>5, <2>1
<1> QED
  BY Zenon, <1>5, <1>6 DEF Closed, RowsOf

(* A step of a run that forks nothing: its parts, and what stays.          *)
LEMMA StageKept ==
  ASSUME IInv, NEW r \in 1 .. Runs, NEW f \in 0 .. N, r = forked[Shell], f = forked[<<r, 0>>],
         forked' = forked, Stage(r, f)'
  PROVE  LogInv'
BY Zenon DEF LogInv

(* The parent of the current run, not counting its forks.                  *)
LEMMA LogOfParent ==
  ASSUME IInv, ~forkFailed, NEW r \in 1 .. Runs, NEW f \in 0 .. N,
         f = forked[<<r, 0>>], Stage(r, f), NEW t, t = <<r, 0>>, NEW b,
         pc' = [pc EXCEPT ![t] = b],
         \/ ParentExits(t) /\ b = "exit"
         \/ CountExit(t) /\ b = IF CHILD_PROCESS_COUNT' > N THEN "total" ELSE "row"
         \/ LogRow(t) /\ b = "notify"
         \/ LogTotal(t) /\ b = "notify"
         \/ ExitNotify(t) /\ b = "dead"
         \/ Reap(t) /\ b = "user"
  PROVE  Stage(r, f)'
<1>0. /\ LoopInv /\ pc \in [Tasks -> Places] /\ <<r, 0>> \in Tasks /\ t # Shell /\ t[1] = r
      /\ \A j \in 1 .. N : <<r, j>> \in Tasks /\ <<r, j>> # <<r, 0>>
  BY Zenon, RunTasks DEF IInv, LoopInv
<1>1. pc'[<<r, 0>>] = b /\ \A j \in 1 .. N : pc'[<<r, j>>] = pc[<<r, j>>]
  BY Zenon, <1>0
<1>2. f > 0 => f \in 1 .. N
  OBVIOUS
<1>3. f # N => pc[<<r, 0>>] \in {"user", "wait"}
  <2>1. f # N => f < N
    BY CpuBurstAssumption
  <2> QED
    BY Zenon, <2>1 DEF forkFailed
<1>4. N # 0 /\ N > 0 /\ N \in 1 .. N /\ N + 1 > N
  BY CpuBurstAssumption
<1>5. CASE ParentExits(t) /\ b = "exit"
  <2>1. pc[<<r, 0>>] = "user" /\ UNCHANGED <<CHILD_PROCESS_COUNT, log>>
    BY Zenon, <1>5 DEF ParentExits, Running, statics
  <2> QED
    BY Zenon, <1>1, <1>2, <1>5, <2>1 DEF Stage
<1>6. CASE CountExit(t) /\ b = IF CHILD_PROCESS_COUNT' > N THEN "total" ELSE "row"
  <2>1. pc[<<r, 0>>] = "exit" /\ CHILD_PROCESS_COUNT' = CHILD_PROCESS_COUNT + 1 /\ log' = log
    BY Zenon, <1>6 DEF CountExit, Running
  <2>2. f = N
    BY Zenon, <1>3, <2>1
  <2>3. CHILD_PROCESS_COUNT = N /\ Open(r, N, log)
    BY Zenon, <1>4, <2>1, <2>2 DEF Stage
  <2>4. CHILD_PROCESS_COUNT' = N + 1 /\ b = "total"
    BY Zenon, <1>4, <1>6, <2>1, <2>3
  <2> QED
    BY Zenon, <1>1, <2>1, <2>2, <2>3, <2>4 DEF Stage
<1>7. CASE LogRow(t)
  <2>1. pc[<<r, 0>>] = "row"
    BY Zenon, <1>7 DEF LogRow, Running
  <2> QED
    BY Zenon, <2>1 DEF Stage
<1>8. CASE LogTotal(t) /\ b = "notify"
  <2>1. pc[<<r, 0>>] = "total" /\ CHILD_PROCESS_COUNT' = 0 /\ log' = Append(openLines, totalLine(t))
    BY Zenon, <1>8 DEF LogTotal, Running
  <2>2. PICK x : x = totalLine(t)
    BY Zenon
  <2>3. x.kind = "total" /\ x.task = <<r, 0>>
    BY <2>2 DEF totalLine
  <2>4. Open(r, N, log) /\ \E S : log \in Seq(S)
    BY Zenon, <1>0, <2>1 DEF Stage, LoopInv
  <2>5. Closed(r, log)'
    BY Zenon, <2>1, <2>2, <2>3, <2>4, TotalAdded
  <2> QED
    BY Zenon, <1>1, <1>8, <2>1, <2>5 DEF Stage
<1>9. CASE ExitNotify(t) /\ b = "dead"
  <2>1. pc[<<r, 0>>] = "notify" /\ UNCHANGED <<CHILD_PROCESS_COUNT, log>>
    BY Zenon, <1>9 DEF ExitNotify, Running, statics
  <2> QED
    BY Zenon, <1>1, <1>9, <2>1 DEF Stage
<1>10. CASE Reap(t) /\ b = "user"
  <2>1. pc[<<r, 0>>] = "wait" /\ UNCHANGED <<CHILD_PROCESS_COUNT, log>> /\ lastChild(t) \in zombies
    BY Zenon, <1>10 DEF Reap, Running, statics
  <2>2. pc[<<r, f>>] = "dead"
    BY Zenon, <1>0, <2>1 DEF lastChild, LoopInv
  <2> QED
    BY Zenon, <1>1, <1>2, <1>10, <2>1, <2>2 DEF Stage
<1> QED
  BY Zenon, <1>5, <1>6, <1>7, <1>8, <1>9, <1>10

(* The last child of the current run.                                      *)
LEMMA LogOfChild ==
  ASSUME IInv, NEW r \in 1 .. Runs, NEW f \in 1 .. N, Stage(r, f),
         NEW t, t = <<r, f>>, pc[<<r, 0>>] = "wait", NEW b, pc' = [pc EXCEPT ![t] = b],
         \/ ChildExits(t) /\ b = "exit"
         \/ CountExit(t) /\ b = IF CHILD_PROCESS_COUNT' > N THEN "total" ELSE "row"
         \/ LogRow(t) /\ b = "notify"
         \/ LogTotal(t) /\ b = "notify"
         \/ ExitNotify(t) /\ b = "dead"
  PROVE  Stage(r, f)'
<1>0. /\ LoopInv /\ pc \in [Tasks -> Places] /\ <<r, 0>> \in Tasks
      /\ <<r, f>> \in Tasks /\ <<r, f>> # <<r, 0>>
  BY Zenon, RunTasks DEF IInv, LoopInv
<1>1. pc'[<<r, 0>>] = "wait" /\ pc'[<<r, f>>] = b
  BY Zenon, <1>0
<1>2. f > 0 /\ f # 0 /\ f \in Nat /\ f - 1 + 1 = f /\ ~(f > N)
  BY CpuBurstAssumption
<1>3. CASE ChildExits(t) /\ b = "exit"
  <2>1. pc[<<r, f>>] = "user" /\ UNCHANGED <<CHILD_PROCESS_COUNT, log>>
    BY Zenon, <1>3 DEF ChildExits, Running, statics
  <2> QED
    BY Zenon, <1>1, <1>2, <1>3, <2>1 DEF Stage
<1>4. CASE CountExit(t) /\ b = IF CHILD_PROCESS_COUNT' > N THEN "total" ELSE "row"
  <2>1. pc[<<r, f>>] = "exit" /\ CHILD_PROCESS_COUNT' = CHILD_PROCESS_COUNT + 1 /\ log' = log
    BY Zenon, <1>4 DEF CountExit, Running
  <2>2. CHILD_PROCESS_COUNT = f - 1 /\ Open(r, f - 1, log)
    BY Zenon, <1>2, <2>1 DEF Stage
  <2>3. CHILD_PROCESS_COUNT' = f /\ b = "row"
    BY Zenon, <1>2, <1>4, <2>1, <2>2
  <2> QED
    BY Zenon, <1>1, <1>2, <2>1, <2>2, <2>3 DEF Stage
<1>5. CASE LogRow(t) /\ b = "notify"
  <2>1. /\ pc[<<r, f>>] = "row" /\ CHILD_PROCESS_COUNT' = CHILD_PROCESS_COUNT
        /\ log' = Append(openLines, row(t))
    BY Zenon, <1>5 DEF LogRow, Running
  <2>2. PICK x : x = row(t)
    BY Zenon
  <2>3. x.kind = "row" /\ x.task = <<r, f>>
    BY <2>2 DEF row
  <2>4. CHILD_PROCESS_COUNT = f /\ Open(r, f - 1, log) /\ \E S : log \in Seq(S)
    BY Zenon, <1>0, <1>2, <2>1 DEF Stage, LoopInv
  <2>5. Open(r, f, log)'
    BY Zenon, <2>1, <2>2, <2>3, <2>4, RowAdded
  <2> QED
    BY Zenon, <1>1, <1>2, <1>5, <2>1, <2>4, <2>5 DEF Stage
<1>6. CASE LogTotal(t)
  <2>1. pc[<<r, f>>] = "total"
    BY Zenon, <1>6 DEF LogTotal, Running
  <2> QED
    BY Zenon, <1>2, <2>1 DEF Stage
<1>7. CASE ExitNotify(t) /\ b = "dead"
  <2>1. pc[<<r, f>>] = "notify" /\ UNCHANGED <<CHILD_PROCESS_COUNT, log>>
    BY Zenon, <1>7 DEF ExitNotify, Running, statics
  <2> QED
    BY Zenon, <1>1, <1>2, <1>7, <2>1 DEF Stage
<1> QED
  BY Zenon, <1>3, <1>4, <1>5, <1>6, <1>7

(* The shell starts the next run, after the log of the last is closed.     *)
LEMMA LogOfShell ==
  ASSUME IInv, LogInv, ~forkFailed, ShellStarts
  PROVE  LogInv'
<1>0. /\ LoopInv /\ SchedInv /\ pc \in [Tasks -> Places] /\ forked \in [Tasks -> Nat]
      /\ forked[Shell] \in Nat /\ forked[Shell] < Runs /\ pc[Shell] = "user"
      /\ Runs \in Nat
  BY TaskSets, CpuBurstAssumption DEF IInv, LoopInv, SchedInv, Typed, ShellStarts, Running
<1>1. /\ forked' = [forked EXCEPT ![Shell] = @ + 1] /\ pc' = [pc EXCEPT ![Shell] = "wait"]
      /\ UNCHANGED <<CHILD_PROCESS_COUNT, log>>
  BY Zenon DEF ShellStarts, fork, statics
<1>2. PICK r \in 1 .. Runs : r = forked[Shell] + 1
  <2>1. forked[Shell] + 1 \in 1 .. Runs
    BY <1>0
  <2> QED
    BY Zenon, <2>1
<1>3. forked'[Shell] = r /\ forked'[<<r, 0>>] = forked[<<r, 0>>] /\ pc'[<<r, 0>>] = pc[<<r, 0>>]
  BY ZenonT(60), <1>0, <1>1, <1>2, RunTasks, TaskSets
<1>4. forked[<<r, 0>>] = 0
  <2>1. r > forked[Shell]
    BY <1>0, <1>2
  <2> QED
    BY Zenon, <1>0, <2>1 DEF SchedInv, QueueInv
<1>5. pc[<<r, 0>>] = "user"
  <2>1. ~(r <= forked[Shell])
    BY <1>0, <1>2
  <2>2. ~Exists(<<r, 0>>, forked)
    BY Zenon, <2>1, RunTasks DEF Exists
  <2> QED
    BY Zenon, <1>0, <2>2, RunTasks DEF LoopInv
<1>6. CHILD_PROCESS_COUNT = 0 /\ (log = <<>> \/ \E x \in 1 .. Runs : Closed(x, log))
  <2>1. ASSUME NEW x \in 1 .. Runs, NEW f \in 0 .. N, x = forked[Shell], Stage(x, f)
        PROVE  CHILD_PROCESS_COUNT = 0 /\ Closed(x, log)
    <3>1. pc[Shell] # "wait"
      BY <1>0
    <3>2. pc[<<x, 0>>] = "dead"
      BY Zenon, <1>0, <2>1, <3>1 DEF LoopInv
    <3> QED
      BY Zenon, <2>1, <3>2 DEF Stage
  <2> QED
    BY Zenon, <2>1 DEF LogInv
<1>7. 0 \in 0 .. N
  BY CpuBurstAssumption
<1>8. Stage(r, 0)'
  BY Zenon, <1>1, <1>3, <1>5, <1>6 DEF Stage, Open
<1> QED
  BY Zenon, <1>3, <1>4, <1>7, <1>8 DEF LogInv

(* The current run forks its next child, after the row of the last.        *)
LEMMA LogOfFork ==
  ASSUME IInv, LogInv, ~forkFailed, NEW t \in Testp, ParentForks(t)
  PROVE  LogInv'
<1>0. /\ LoopInv /\ SchedInv /\ pc \in [Tasks -> Places] /\ forked \in [Tasks -> Nat]
      /\ curr = t /\ t[2] = 0 /\ forked[t] < N /\ pc[t] = "user" /\ t \in Tasks /\ t # Shell
  BY Zenon, TaskSets DEF IInv, LoopInv, SchedInv, Typed, ParentForks, Running
<1>1. /\ forked' = [forked EXCEPT ![t] = @ + 1] /\ pc' = [pc EXCEPT ![t] = "wait"]
      /\ UNCHANGED <<CHILD_PROCESS_COUNT, log>>
  BY Zenon DEF ParentForks, fork, statics
<1>2. pc[t] # "dead"
  BY <1>0
<1>3. PICK r \in 1 .. Runs : \E f \in 0 .. N :
           /\ r = forked[Shell] /\ f = forked[<<r, 0>>] /\ Stage(r, f)
           /\ \/ t = <<r, 0>>
              \/ t = <<r, f>> /\ f \in 1 .. N /\ pc[<<r, 0>>] = "wait"
  BY Zenon, <1>0, <1>2, CurrentStage
<1>4. PICK f \in 0 .. N :
           /\ r = forked[Shell] /\ f = forked[<<r, 0>>] /\ Stage(r, f)
           /\ \/ t = <<r, 0>>
              \/ t = <<r, f>> /\ f \in 1 .. N /\ pc[<<r, 0>>] = "wait"
  BY Zenon, <1>3
<1>5. t = <<r, 0>>
  <2>1. f \in 1 .. N => f # 0
    OBVIOUS
  <2>2. <<r, f>>[2] = f
    BY Zenon, RunTasks
  <2> QED
    BY Zenon, <1>0, <1>4, <2>1, <2>2
<1>6. PICK g \in 1 .. N : g = f + 1 /\ g - 1 = f /\ g > 0
  <2>1. f < N /\ N \in Nat
    BY Zenon, <1>0, <1>4, <1>5, CpuBurstAssumption
  <2>2. f + 1 \in 1 .. N /\ (f + 1) - 1 = f /\ f + 1 > 0
    BY <2>1
  <2> QED
    BY Zenon, <2>2
<1>7. g \in 0 .. N /\ ~(g <= f)
  BY <1>6
<1>8. forked'[Shell] = r /\ forked'[<<r, 0>>] = g
  BY Zenon, <1>0, <1>1, <1>4, <1>5, <1>6, TaskSets
<1>9. pc'[<<r, 0>>] = "wait" /\ pc'[<<r, g>>] = "user"
  <2>1. <<r, g>> \in Testp /\ <<r, g>> \in Tasks /\ <<r, g>> # t /\ <<r, g>>[1] = r /\ <<r, g>>[2] = g
    BY Zenon, <1>5, <1>7, RunTasks
  <2>2. ~Exists(<<r, g>>, forked)
    BY Zenon, <1>4, <1>7, <2>1 DEF Exists
  <2>3. pc[<<r, g>>] = "user"
    BY Zenon, <1>0, <2>1, <2>2 DEF LoopInv
  <2> QED
    BY Zenon, <1>0, <1>1, <1>5, <2>1, <2>3
<1>10. CHILD_PROCESS_COUNT = f /\ Open(r, f, log)
  BY Zenon, <1>0, <1>4, <1>5 DEF Stage
<1>11. Stage(r, g)'
  BY Zenon, <1>1, <1>6, <1>9, <1>10 DEF Stage, Open
<1> QED
  BY Zenon, <1>7, <1>8, <1>11 DEF LogInv

(* What a task of testp does between the forks.                            *)
LEMMA LogOfTask ==
  ASSUME IInv, LogInv, ~forkFailed, NEW t \in Testp, NEW b, pc' = [pc EXCEPT ![t] = b],
         \/ ParentExits(t) /\ b = "exit"
         \/ ChildExits(t) /\ b = "exit"
         \/ CountExit(t) /\ b = IF CHILD_PROCESS_COUNT' > N THEN "total" ELSE "row"
         \/ LogRow(t) /\ b = "notify"
         \/ LogTotal(t) /\ b = "notify"
         \/ ExitNotify(t) /\ b = "dead"
         \/ Reap(t) /\ b = "user"
  PROVE  LogInv'
<1>0. curr = t /\ pc[t] # "dead" /\ forked' = forked /\ LoopInv
  BY Zenon DEF ParentExits, ChildExits, CountExit, LogRow, LogTotal, ExitNotify, Reap, Running, IInv
<1>1. PICK r \in 1 .. Runs : \E f \in 0 .. N :
           /\ r = forked[Shell] /\ f = forked[<<r, 0>>] /\ Stage(r, f)
           /\ \/ t = <<r, 0>>
              \/ t = <<r, f>> /\ f \in 1 .. N /\ pc[<<r, 0>>] = "wait"
  BY Zenon, <1>0, CurrentStage
<1>2. PICK f \in 0 .. N :
           /\ r = forked[Shell] /\ f = forked[<<r, 0>>] /\ Stage(r, f)
           /\ \/ t = <<r, 0>>
              \/ t = <<r, f>> /\ f \in 1 .. N /\ pc[<<r, 0>>] = "wait"
  BY Zenon, <1>1
<1>3. Stage(r, f)'
  <2>1. CASE t = <<r, 0>>
    <3>1. t[2] = 0
      BY Zenon, <2>1, RunTasks
    <3>2. ~ChildExits(t)
      BY Zenon, <3>1 DEF ChildExits
    <3> QED
      BY Zenon, <1>2, <2>1, <3>2, LogOfParent
  <2>2. CASE t = <<r, f>> /\ f \in 1 .. N /\ pc[<<r, 0>>] = "wait"
    <3>0. f # 0
      BY <2>2
    <3>1. t[2] # 0
      BY Zenon, <2>2, <3>0, RunTasks
    <3>2. ~ParentExits(t)
      BY Zenon, <3>1 DEF ParentExits
    <3>3. ~Reap(t)
      BY Zenon, <1>0, <3>1 DEF Reap, Running, LoopInv
    <3> QED
      BY Zenon, <1>2, <2>2, <3>2, <3>3, LogOfChild
  <2> QED
    BY Zenon, <1>2, <2>1, <2>2
<1> QED
  BY Zenon, <1>0, <1>2, <1>3, StageKept

LEMMA StageSame ==
  ASSUME NEW r, NEW f, Stage(r, f), UNCHANGED <<CHILD_PROCESS_COUNT, log>>,
         pc'[<<r, 0>>] = pc[<<r, 0>>], pc'[<<r, f>>] = pc[<<r, f>>]
  PROVE  Stage(r, f)'
BY Zenon DEF Stage

LEMMA LogNext ==
  ASSUME IInv, LogInv, [Next]_vars
  PROVE  LogInv'
<1>0. LoopInv /\ pc \in [Tasks -> Places] /\ forked \in [Tasks -> Nat]
  BY Zenon DEF IInv, LoopInv, SchedInv, Typed
<1>1. ASSUME UNCHANGED <<pc, forked, CHILD_PROCESS_COUNT, log>> PROVE LogInv'
  <2>1. forkFailed => forkFailed'
    BY Zenon, <1>1 DEF forkFailed
  <2>2. ASSUME NEW r \in 1 .. Runs, NEW f \in 0 .. N, Stage(r, f) PROVE Stage(r, f)'
    BY Zenon, <1>1, <2>2, StageSame
  <2> QED
    BY Zenon, <1>1, <2>1, <2>2 DEF LogInv
<1>2. CASE UNCHANGED vars \/ StampNext \/ Tick \/ Preempt \/ OthersSwitch
  BY Zenon, <1>1, <1>2 DEF vars, statics, StampNext, Tick, Preempt, OthersSwitch
<1>3. ASSUME NEW t, (ShellStarts /\ t = Shell) \/ (t \in Testp /\ ParentForks(t)) PROVE LogInv'
  <2>1. CASE forkFailed
    <3>1. /\ t \in Tasks /\ pc[t] = "user" /\ forked' = [forked EXCEPT ![t] = @ + 1]
          /\ pc' = [pc EXCEPT ![t] = "wait"]
      BY Zenon, <1>3, TaskSets DEF ShellStarts, ParentForks, Running, fork
    <3>2. \A u \in Tasks : pc[u] = "user" \/ forked'[u] = forked[u]
      BY Zenon, <1>0, <3>1
    <3>3. forkFailed'
      BY Zenon, <1>0, <2>1, <3>1, <3>2, FailedStays
    <3> QED
      BY Zenon, <3>3 DEF LogInv
  <2>2. CASE ~forkFailed
    BY Zenon, <1>3, <2>2, LogOfShell, LogOfFork
  <2> QED
    BY Zenon, <2>1, <2>2
<1>4. ASSUME NEW t \in Testp, NEW b, pc' = [pc EXCEPT ![t] = b],
         \/ ParentExits(t) /\ b = "exit"
         \/ ChildExits(t) /\ b = "exit"
         \/ CountExit(t) /\ b = IF CHILD_PROCESS_COUNT' > N THEN "total" ELSE "row"
         \/ LogRow(t) /\ b = "notify"
         \/ LogTotal(t) /\ b = "notify"
         \/ ExitNotify(t) /\ b = "dead"
         \/ Reap(t) /\ b = "user"
      PROVE  LogInv'
  <2>1. CASE forkFailed
    <3>1. t \in Tasks /\ forked' = forked
      BY Zenon, <1>4, TaskSets DEF ParentExits, ChildExits, CountExit, LogRow, LogTotal, ExitNotify, Reap
    <3>2. pc[t] \in {"user", "wait"} \/ b \notin {"user", "wait"}
      BY Zenon, <1>4 DEF Reap, Running
    <3>3. forkFailed'
      BY Zenon, <1>0, <1>4, <2>1, <3>1, <3>2, FailedStays
    <3> QED
      BY Zenon, <3>3 DEF LogInv
  <2>2. CASE ~forkFailed
    BY Zenon, <1>4, <2>2, LogOfTask
  <2> QED
    BY Zenon, <2>1, <2>2
<1>5. ASSUME NEW t \in Testp, TaskStep(t) PROVE LogInv'
  <2>1. CASE do_task_dead(t)
    BY Zenon, <1>1, <2>1 DEF do_task_dead, statics
  <2>2. CASE ParentForks(t)
    BY Zenon, <1>3, <2>2
  <2>3. CASE ParentExits(t) \/ ChildExits(t)
    <3>1. pc' = [pc EXCEPT ![t] = "exit"]
      BY Zenon, <2>3 DEF ParentExits, ChildExits
    <3> QED
      BY Zenon, <1>4, <2>3, <3>1
  <2>4. CASE CountExit(t)
    <3>1. PICK b : b = IF CHILD_PROCESS_COUNT' > N THEN "total" ELSE "row"
      BY Zenon
    <3>2. pc' = [pc EXCEPT ![t] = b]
      BY Zenon, <2>4, <3>1 DEF CountExit
    <3> QED
      BY Zenon, <1>4, <2>4, <3>1, <3>2
  <2>5. CASE LogRow(t) \/ LogTotal(t)
    <3>1. pc' = [pc EXCEPT ![t] = "notify"]
      BY Zenon, <2>5 DEF LogRow, LogTotal
    <3> QED
      BY Zenon, <1>4, <2>5, <3>1
  <2>6. CASE ExitNotify(t)
    <3>1. pc' = [pc EXCEPT ![t] = "dead"]
      BY Zenon, <2>6 DEF ExitNotify
    <3> QED
      BY Zenon, <1>4, <2>6, <3>1
  <2> QED
    BY Zenon, <1>5, <2>1, <2>2, <2>3, <2>4, <2>5, <2>6 DEF TaskStep
<1>6. ASSUME NEW t \in Testp \cup {Shell}, WaitStep(t) PROVE LogInv'
  <2>1. CASE WaitSleeps(t)
    BY Zenon, <1>1, <2>1 DEF WaitSleeps, statics
  <2>2. CASE Reap(t) /\ t \in Testp
    <3>1. pc' = [pc EXCEPT ![t] = "user"]
      BY Zenon, <2>2 DEF Reap
    <3> QED
      BY Zenon, <1>4, <2>2, <3>1
  <2>3. CASE Reap(t) /\ t = Shell
    <3>1. pc' = [pc EXCEPT ![Shell] = "user"] /\ UNCHANGED <<forked, CHILD_PROCESS_COUNT, log>>
      BY Zenon, <2>3 DEF Reap, statics
    <3>2. \A u \in Testp : pc'[u] = pc[u]
      BY Zenon, <1>0, <3>1, TaskSets
    <3>3. \A r \in 1 .. Runs, j \in 0 .. N : pc'[<<r, j>>] = pc[<<r, j>>]
      BY Zenon, <3>2, RunTasks
    <3>4. \A r \in 1 .. Runs : pc'[<<r, 0>>] = pc[<<r, 0>>]
      BY Zenon, <3>2, RunTasks
    <3>5. forkFailed => forkFailed'
      BY Zenon, <3>1, <3>4 DEF forkFailed
    <3>6. \A r \in 1 .. Runs, f \in 0 .. N : Stage(r, f) => Stage(r, f)'
      BY Zenon, <3>1, <3>3, <3>4, StageSame
    <3> QED
      BY Zenon, <3>1, <3>5, <3>6 DEF LogInv
  <2> QED
    BY Zenon, <1>6, <2>1, <2>2, <2>3 DEF WaitStep
<1>7. CASE ShellStarts
  BY Zenon, <1>3, <1>7
<1> QED
  BY Zenon, <1>2, <1>5, <1>6, <1>7 DEF Next

LEMMA LogInit == Init => LoopInv /\ LogInv
<1> SUFFICES ASSUME Init PROVE LoopInv /\ LogInv
  OBVIOUS
<1>1. /\ pc = [t \in Tasks |-> "user"] /\ forked = [t \in Tasks |-> 0] /\ zombies = {}
      /\ CHILD_PROCESS_COUNT = 0 /\ log = <<>>
  BY Zenon DEF Init
<1>2. CHILD_PROCESS_COUNT \in Nat /\ (\E S : log \in Seq(S)) /\ 0 <= N /\ 0 <= Runs
  <2>1. log \in Seq({})
    BY <1>1
  <2>2. CHILD_PROCESS_COUNT \in Nat /\ 0 <= N /\ 0 <= Runs
    BY <1>1, CpuBurstAssumption
  <2> QED
    BY Zenon, <2>1, <2>2
<1>3. \A i \in 1 .. Runs \cup 1 .. N : ~(i < 0) /\ i # 0
  OBVIOUS
<1>4. pc \in [Tasks -> Places]
  BY Zenon, <1>1 DEF Places
<1>5. pc[Shell] = "user" /\ forked[Shell] = 0 /\ \A t \in Testp : pc[t] = "user" /\ forked[t] = 0
  BY Zenon, <1>1, TaskSets
<1>6. ASSUME NEW r \in 1 .. Runs
      PROVE  forked[<<r, 0>>] = 0 /\ ~(r < forked[Shell]) /\ r # forked[Shell]
             /\ \A j \in 1 .. N : ~(j < forked[<<r, 0>>]) /\ j # forked[<<r, 0>>]
  BY Zenon, <1>3, <1>5, RunTasks
<1>7. LoopInv
  BY Zenon, <1>1, <1>2, <1>4, <1>5, <1>6 DEF LoopInv
<1> QED
  BY Zenon, <1>1, <1>5, <1>7 DEF LogInv

(* A log of rows of one run, closed or not, is what TotalClosesRun asks.   *)
LEMMA LogClosesRun ==
  ASSUME LogInv
  PROVE  TotalClosesRun
<1> DEFINE Good(l) == \A i \in 1 .. Len(l) :
             /\ l[i].task = <<l[1].task[1], IF l[i].kind = "total" THEN 0 ELSE i>>
             /\ l[i].kind = "total" <=> i = N + 1
<1>0. N \in Nat \ {0}
  BY CpuBurstAssumption
<1>1. Good(<<>>)
  OBVIOUS
<1>2. ASSUME NEW l, NEW r \in 1 .. Runs, NEW m \in 1 .. N, Len(l) = m, RowsOf(r, m, l)
      PROVE  Good(l)
  <2>1. 1 \in 1 .. m /\ <<r, 1>>[1] = r
    BY <1>2
  <2>2. l[1].task[1] = r
    BY Zenon, <1>2, <2>1 DEF RowsOf
  <2>3. \A i \in 1 .. m : i # N + 1
    BY <1>0
  <2> QED
    BY Zenon, <1>2, <2>2, <2>3 DEF RowsOf
<1>3. ASSUME NEW l, NEW r \in 1 .. Runs, Closed(r, l) PROVE Good(l)
  <2>1. 1 \in 1 .. N /\ <<r, 1>>[1] = r
    BY <1>0
  <2>2. l[1].task[1] = r
    BY Zenon, <1>3, <2>1 DEF RowsOf, Closed
  <2>3. \A i \in 1 .. N : i # N + 1
    BY <1>0
  <2>4. \A i \in 1 .. N + 1 : i \in 1 .. N \/ i = N + 1
    BY <1>0
  <2> QED
    BY Zenon, <1>3, <2>2, <2>3, <2>4 DEF RowsOf, Closed
<1> HIDE DEF Good
<1>4. ASSUME NEW l, NEW r \in 1 .. Runs, NEW m \in 0 .. N, Open(r, m, l) PROVE Good(l)
  <2>1. CASE m = 0
    BY Zenon, <1>1, <1>3, <1>4, <2>1 DEF Open
  <2>2. CASE m # 0
    <3>1. m \in 1 .. N
      BY <2>2
    <3> QED
      BY Zenon, <1>2, <1>4, <2>2, <3>1 DEF Open
  <2> QED
    BY Zenon, <2>1, <2>2
<1>5. ASSUME NEW r \in 1 .. Runs, NEW f \in 0 .. N, Stage(r, f) PROVE Good(log)
  <2>1. (f > 0 => f - 1 \in 0 .. N) /\ 0 \in 0 .. N /\ N \in 0 .. N
    BY <1>0
  <2> QED
    BY Zenon, <1>3, <1>4, <1>5, <2>1 DEF Stage
<1>6. forkFailed \/ Good(log)
  BY Zenon, <1>1, <1>5 DEF LogInv
<1> QED
  BY Zenon, <1>6 DEF TotalClosesRun, Good

(* For any number of runs and of children, however the tasks are           *)
(* preempted: while no fork() has failed, the exit that do_exit counts as  *)
(* the last is the parent's, and its TOTAL line closes the rows of the     *)
(* parent's own children, in the order of their forks.                     *)
THEOREM TotalAlwaysClosesRun == Spec => []TotalClosesRun
<1>1. Init => IInv /\ LogInv
  BY Zenon, SchedInit, LogInit DEF IInv
<1>2. IInv /\ LogInv /\ [Next]_vars => IInv' /\ LogInv'
  <2> SUFFICES ASSUME IInv, LogInv, [Next]_vars PROVE IInv' /\ LogInv'
    BY Zenon
  <2>1. SchedInv'
    BY Zenon, SchedNext DEF IInv
  <2>2. LoopInv' /\ LogInv'
    BY Zenon, LoopNext, LogNext
  <2> QED
    BY Zenon, <2>1, <2>2 DEF IInv
<1> QED
  BY <1>1, <1>2, LogClosesRun, PTL DEF Spec
=============================================================================
