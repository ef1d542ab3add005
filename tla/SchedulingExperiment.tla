------------------------ MODULE SchedulingExperiment ------------------------
(***************************************************************************)
(* src/3/assignment3.c: a process chooses a scheduling policy, forks N     *)
(* children that work under it, sums the elapsed times they write to a     *)
(* pipe and waits for them.  The steps of the processes interleave freely, *)
(* which includes every order that any policy produces on one CPU.         *)
(*                                                                         *)
(* Times are counted in ticks; a second has Second of them (10^6           *)
(* microseconds in the source).                                            *)
(***************************************************************************)
EXTENDS Integers, Sequences, FiniteSets, Functions

CONSTANTS
  N,              \* number of children, 21 in the source
  Second,         \* ticks per second
  MaxTime,        \* bound: the last tick of the wall clock
  ForkMayFail,    \* whether fork() can fail
  Privileged      \* whether the caller may use the real-time policies

ASSUME ExperimentAssumption ==
  /\ N \in Nat \ {0}
  /\ Second \in Nat \ {0}
  /\ MaxTime \in Nat
  /\ ForkMayFail \in BOOLEAN
  /\ Privileged \in BOOLEAN

Children == 0 .. N - 1
Menu == {"1", "2", "3", "4"}
RealTime == {"SCHED_FIFO", "SCHED_RR"}

VARIABLES
  now,          \* gettimeofday()
  pc,           \* where the parent is
  choice,       \* the menu entry
  i,            \* the loop index of main
  child,        \* where each child is
  scheduler,    \* the policy each child runs under
  nice,         \* the nice value of each child
  start,        \* when each child took its start time
  end,          \* when each child took its end time
  elapsed,      \* the double each child writes
  pipe,         \* the pipe's contents: the children's doubles
  elapsed_time, \* the parent's local variable
  total         \* total_elapsed_time

vars == <<now, pc, choice, i, child, scheduler, nice, start, end, elapsed, pipe,
          elapsed_time, total>>
parentVars == <<pc, choice, i, elapsed_time, total>>
childVars == <<scheduler, nice, start, end, elapsed>>

policy ==
  CASE choice \in {"1", "2"} -> "SCHED_OTHER"
    [] choice = "3" -> "SCHED_FIFO"
    [] choice = "4" -> "SCHED_RR"

\* CFS_NICE gives a third of the children each of three nice values.
niceOf(k) ==
  IF choice # "2" THEN 0
  ELSE IF k < N \div 3 THEN -20
  ELSE IF k < 2 * (N \div 3) THEN 0
  ELSE 19

(***************************************************************************)
(* The elapsed time: the seconds and microseconds are subtracted one by    *)
(* one with a borrow, printed as "%ld.%06ld" and read back with strtod.  A *)
(* negative second field makes the whole number negative, and a negative   *)
(* microsecond field ends the number at the point.                         *)
(***************************************************************************)
tv_sec(t) == t \div Second
tv_usec(t) == t % Second

strtod(seconds, useconds) ==
  IF useconds < 0 THEN seconds * Second
  ELSE IF seconds < 0 THEN seconds * Second - useconds
  ELSE seconds * Second + useconds

ElapsedNoBorrow(s, e) == strtod(tv_sec(e) - tv_sec(s), tv_usec(e) - tv_usec(s))

Elapsed(s, e) ==
  LET seconds == tv_sec(e) - tv_sec(s)
      useconds == tv_usec(e) - tv_usec(s)
  IN  IF useconds < 0 THEN strtod(seconds - 1, useconds + Second)
      ELSE strtod(seconds, useconds)

Tick ==
  /\ now < MaxTime
  /\ now' = now + 1
  /\ UNCHANGED <<parentVars, child, childVars, pipe>>

(***************************************************************************)
(* main up to the forks: pipe(), sched_setaffinity(), the menu and, for    *)
(* RT_RR, the time slice written to /proc.  Any of them can end the        *)
(* program.                                                                *)
(***************************************************************************)
Prepare(c) ==
  /\ pc = "start"
  /\ c = "4" => Privileged
  /\ choice' = c
  /\ pc' = "fork"
  /\ UNCHANGED <<now, i, child, childVars, pipe, elapsed_time, total>>

GiveUp ==
  /\ pc = "start"
  /\ pc' = "failed"
  /\ UNCHANGED <<now, choice, i, child, childVars, pipe, elapsed_time, total>>

\* fork() in the first loop; the parent does not look at its result.
Fork ==
  /\ pc = "fork"
  /\ \E place \in {"start"} \cup IF ForkMayFail THEN {"none"} ELSE {} :
       child' = [child EXCEPT ![i] = place]
  /\ i' = (i + 1) % N
  /\ pc' = IF i + 1 = N THEN "read" ELSE "fork"
  /\ UNCHANGED <<now, choice, childVars, pipe, elapsed_time, total>>

\* A child: the start time ...
TakeStart(k) ==
  /\ child[k] = "start"
  /\ start' = [start EXCEPT ![k] = now]
  /\ child' = [child EXCEPT ![k] = "setscheduler"]
  /\ UNCHANGED <<now, parentVars, scheduler, nice, end, elapsed, pipe>>

\* ... setpriority() and sched_setscheduler(), whose results are not looked at ...
SetScheduler(k) ==
  /\ child[k] = "setscheduler"
  /\ nice' = IF niceOf(k) < 0 /\ ~Privileged THEN nice
             ELSE [nice EXCEPT ![k] = niceOf(k)]
  /\ scheduler' = IF policy \in RealTime /\ ~Privileged THEN scheduler
                  ELSE [scheduler EXCEPT ![k] = policy]
  /\ child' = [child EXCEPT ![k] = "work"]
  /\ UNCHANGED <<now, parentVars, start, end, elapsed, pipe>>

\* ... the work and the end time, with the row that is printed ...
TakeEnd(k) ==
  /\ child[k] = "work"
  /\ end' = [end EXCEPT ![k] = now]
  /\ elapsed' = [elapsed EXCEPT ![k] = Elapsed(start[k], now)]
  /\ child' = [child EXCEPT ![k] = "write"]
  /\ UNCHANGED <<now, parentVars, scheduler, nice, start, pipe>>

\* ... the write, which is atomic for a double, and the end.
WriteResult(k) ==
  /\ child[k] = "write"
  /\ pipe' = Append(pipe, elapsed[k])
  /\ child' = [child EXCEPT ![k] = "exit"]
  /\ UNCHANGED <<now, parentVars, childVars>>

Exit(k) ==
  /\ child[k] = "exit"
  /\ child' = [child EXCEPT ![k] = "zombie"]
  /\ UNCHANGED <<now, parentVars, childVars, pipe>>

(***************************************************************************)
(* The parent has closed its write end: read() blocks while the pipe is    *)
(* empty and a child still has the write end open, and returns 0 without   *)
(* touching elapsed_time when none has.                                    *)
(***************************************************************************)
writersAndParent == Children

writers == {k \in Children : child[k] \in {"start", "setscheduler", "work", "write", "exit"}}

ReadForgetsSum ==
  /\ pc = "read"
  /\ pipe # <<>> \/ writers = {}
  /\ elapsed_time' = IF pipe # <<>> THEN Head(pipe) ELSE elapsed_time
  /\ pipe' = IF pipe # <<>> THEN Tail(pipe) ELSE pipe
  /\ total' = elapsed_time'
  /\ pc' = "wait"
  /\ UNCHANGED <<now, choice, i, child, childVars>>

Read ==
  /\ pc = "read"
  /\ pipe # <<>> \/ writers = {}
  /\ elapsed_time' = IF pipe # <<>> THEN Head(pipe) ELSE elapsed_time
  /\ pipe' = IF pipe # <<>> THEN Tail(pipe) ELSE pipe
  /\ total' = total + elapsed_time'
  /\ pc' = "wait"
  /\ UNCHANGED <<now, choice, i, child, childVars>>

\* wait() takes any zombie, blocks while there are only living children and
\* returns at once when there are no children.
unreaped == {k \in Children : child[k] \notin {"none", "reaped"}}

WaitNoHang ==
  /\ pc = "wait"
  /\ child' \in {child} \cup {[child EXCEPT ![k] = "reaped"] : k \in {k \in Children : child[k] = "zombie"}}
  /\ i' = i + 1
  /\ pc' = IF i + 1 = N THEN "done" ELSE "read"
  /\ UNCHANGED <<now, choice, childVars, pipe, elapsed_time, total>>

Wait ==
  /\ pc = "wait"
  /\ IF unreaped = {} THEN UNCHANGED child
     ELSE \E k \in Children : child[k] = "zombie" /\ child' = [child EXCEPT ![k] = "reaped"]
  /\ i' = i + 1
  /\ pc' = IF i + 1 = N THEN "done" ELSE "read"
  /\ UNCHANGED <<now, choice, childVars, pipe, elapsed_time, total>>

\* Nothing has been read yet when the parent first uses elapsed_time, which has
\* no initial value; the bound on it is the range of the other times.
Init ==
  /\ now = 0
  /\ pc = "start"
  /\ choice = "1"
  /\ i = 0
  /\ child = [k \in Children |-> "none"]
  /\ scheduler = [k \in Children |-> "SCHED_OTHER"]
  /\ nice = [k \in Children |-> 0]
  /\ start = [k \in Children |-> 0]
  /\ end = [k \in Children |-> 0]
  /\ elapsed = [k \in Children |-> 0]
  /\ pipe = <<>>
  /\ elapsed_time \in 0 .. 1
  /\ total = 0

ChildStep(k) == TakeStart(k) \/ SetScheduler(k) \/ TakeEnd(k) \/ WriteResult(k) \/ Exit(k)
ParentStep == (\E c \in Menu : Prepare(c)) \/ GiveUp \/ Fork \/ Read \/ Wait

Next == Tick \/ ParentStep \/ \E k \in Children : ChildStep(k)

Spec == Init /\ [][Next]_vars
FairSpec == Spec /\ WF_vars(ParentStep) /\ \A k \in Children : WF_vars(ChildStep(k))

-----------------------------------------------------------------------------
written == {k \in Children : child[k] \in {"exit", "zombie", "reaped"}}
worked == written \cup {k \in Children : child[k] = "write"}

\* The borrow, the printing and the parsing of a child's elapsed time together
\* give the time between its two clock readings, across any number of seconds.
ElapsedExact == \A k \in worked : elapsed[k] = end[k] - start[k]

\* The number of reads so far: one for each turn of the parent's second loop.
reads == IF pc = "wait" THEN i + 1 ELSE IF pc \in {"read", "done"} THEN i ELSE 0
created == {k \in Children : child[k] # "none"}

\* As long as the parent has not read more often than it has children, no result
\* is lost, read twice or added twice between the children's writes and the
\* parent's sum, in whatever order they run and whichever forks failed: the sum
\* and the pipe hold what has been written.
ResultsConserved ==
  reads <= Cardinality(created) =>
    total + SumFunction(pipe) = SumFunctionOnSet(elapsed, written)

\* When the parent reports, every child it created has been waited for: none
\* runs on and none stays a zombie, also when some fork() failed.
NoChildLeft == pc = "done" => \A k \in Children : child[k] \in {"none", "reaped"}

\* The parent gets through its reads and waits, also when some fork() failed and
\* fewer results than reads arrive.
Termination == <>(pc \in {"done", "failed"})

\* What is averaged is the sum of the children's elapsed times (comment in main:
\* "각각의 자식 프로세스의 경과시간들을 누적합 진행").
AverageOfChildren == pc = "done" => total = SumFunctionOnSet(elapsed, written)

\* A child works under the policy that was chosen (README.md, assignment 3:
\* "해당 스케줄링 정책을 적용받는 프로세스 21개를 생성").
WorkUnderPolicy ==
  \A k \in Children :
    child[k] = "work" => scheduler[k] = policy /\ nice[k] = niceOf(k)
=============================================================================
