--------------------------- MODULE ExitWaitProofs ---------------------------
(***************************************************************************)
(* Proofs about ExitWait, for every set of tasks, grouping into threads,   *)
(* and initial process tree: the order in which a group is released, that  *)
(* parents are alive, that nothing unwanted stays a zombie, that times are *)
(* added once, and that every task goes through the life of ChildTable.    *)
(***************************************************************************)
EXTENDS ExitWait, TLAPS

PC == {"user", "tstop", "doexit", "live", "exit", "exit_last", "release", "dead",
       "wait", "lock", "scan", "claim", "events", "sched", "reap"}

\* Inside do_exit(), before exit_notify(); past exit_signals().
Exiting == {"doexit", "live", "exit", "exit_last"}
Marked == {"live", "exit", "exit_last"}
USE DEF Exiting, Marked

Typed ==
    /\ tree \in Trees
    /\ pc \in [Task -> PC]
    /\ exit_state \in [Task -> {"0", "ZOMBIE", "DEAD", "TRACE"}]
    /\ hashed \subseteq tree.tasks
    /\ real_parent \in [Task -> Task] /\ parent \in [Task -> Task]
    /\ dead \in [Task -> SUBSET Task]
    /\ todo \in [Task -> SUBSET (BOOLEAN \X Task)]
    /\ target \in [Task -> (BOOLEAN \X Task) \cup {None}]
    /\ cutime \in [Task -> [Task -> Nat]]

\* Where a task is when it dies, and what it has to release there.
Control ==
    /\ init_task \notin exiting
    /\ pc[init_task] \notin Exiting
    /\ \A t \in Task :
        /\ exit_state[t] # "0" => t \in exiting /\ pc[t] \in {"release", "dead"}
        /\ pc[t] \in Marked => t \in exiting
        /\ dead[t] # {} => pc[t] = "release"
        /\ pc[t] \in {"claim", "reap"} => target[t] \in BOOLEAN \X Task
    /\ \A p \in Task : exit_state[p] \in {"ZOMBIE", "TRACE"} => p \in hashed
    /\ \A p \in tree.tasks \ hashed : exit_state[p] = "DEAD"

\* Exactly the claimed tasks have an owner, and one only.
Owned ==
    /\ \A p \in Task : \A s, t \in Owners(p) : s = t
    /\ \A p \in Task : Owners(p) # {} => p \in hashed /\ exit_state[p] \in {"DEAD", "TRACE"}
    /\ \A p \in hashed : exit_state[p] \in {"DEAD", "TRACE"} => Owners(p) # {}
    /\ \A t \in Task : \A p \in dead[t] : exit_state[p] = "DEAD"
    /\ \A p \in Task : exit_state[p] = "TRACE" => p \in Leaders

\* A leader that is claimed, or about to be, is alone.
Grouped ==
    /\ \A p \in hashed : leader[p] \in hashed
    /\ \A p \in Leaders : exit_state[p] \in {"DEAD", "TRACE"} => Threads(p) \subseteq {p}
    /\ \A t \in Task : pc[t] = "claim" /\ target[t][2] \in Leaders
                       => Threads(target[t][2]) \subseteq {target[t][2]}

\* The threads of a group have one parent, and the tree has no cycle.
Family ==
    /\ real_parent[init_task] = init_task
    /\ \A p \in hashed : real_parent[p] = real_parent[leader[p]]
    /\ \A p \in hashed : leader[p] # init_task
                         => tree.depth[leader[real_parent[p]]] < tree.depth[leader[p]]

\* The times of g have been passed on.
Done(g) == exit_state[g] = "DEAD" /\ \A t \in Task : ~(pc[t] = "reap" /\ target[t][2] = g)

\* Among the groups that may still pass times on, at most one has those of u,
\* and none while u's own group is one of them.
Times ==
    /\ \A u \in Task : \A g \in Task : cutime[g][u] \in {0, 1}
    /\ \A u \in Task : \A g, h \in Leaders :
            ~Done(g) /\ ~Done(h) /\ cutime[g][u] = 1 /\ cutime[h][u] = 1 => g = h
    /\ \A u \in Task : \A g \in Leaders :
            ~Done(leader[u]) /\ ~Done(g) => cutime[g][u] = 0

\* The inductive invariant.
IInv == Typed /\ Control /\ Owned /\ Grouped /\ Family /\ ParentsAlive /\ AutoReaped /\ Times

-----------------------------------------------------------------------------
(* Facts about the constants.                                              *)

\* Every task has its leader in Task, and a leader is its own.
LEMMA LeaderFacts ==
    /\ Leaders \subseteq Task
    /\ \A t \in Task : leader[t] \in Leaders /\ leader[leader[t]] = leader[t]
    /\ init_task \in Leaders
  BY Zenon, ExitAssumption DEF Leaders

\* What an initial tree looks like (copy_process()).
LEMMA TreeFacts ==
    ASSUME Typed
    PROVE  /\ init_task \in tree.tasks /\ tree.tasks \subseteq Task
           /\ \A p \in tree.tasks : leader[p] \in tree.tasks
           /\ tree.depth \in [Task -> Nat] /\ tree.depth[init_task] = 0
  BY Zenon, TreesAssumption DEF Typed

\* A task that is not dying is in the table, and init is.
LEMMA AliveFacts ==
    ASSUME Typed, Control
    PROVE  /\ \A t \in tree.tasks : exit_state[t] = "0" => t \in hashed
           /\ \A t \in Task : t \notin exiting => exit_state[t] = "0"
           /\ init_task \in hashed /\ exit_state[init_task] = "0"
  BY Zenon, TreeFacts, ExitAssumption DEF Typed, Control

\* The initial states satisfy the inductive invariant.
LEMMA InitInv == Init => IInv
<1> SUFFICES ASSUME Init PROVE IInv
  BY Zenon
<1>1. Typed
  BY Zenon, ExitAssumption, TreesAssumption DEF Init, Typed, PC
<1>2. Control
  BY Zenon, ExitAssumption, TreesAssumption DEF Init, Control
<1>3. Owned
  BY Zenon, TreesAssumption DEF Init, Owned, Owners
<1>4. Grouped
  BY Zenon, ExitAssumption, TreesAssumption DEF Init, Grouped, Leaders
<1>5. Family
  BY Zenon, ExitAssumption, TreesAssumption DEF Init, Family
<1>6. ParentsAlive
  BY ZenonT(60), TreesAssumption DEF Init, ParentsAlive
<1>7. AutoReaped
  BY Zenon, TreesAssumption DEF Init, AutoReaped
<1>8. Times
  <2>1. \A g, u \in Task : cutime[g][u] = 0
    BY Zenon DEF Init
  <2>2. QED
    BY <2>1, LeaderFacts DEF Times
<1> QED
  BY Zenon, <1>1, <1>2, <1>3, <1>4, <1>5, <1>6, <1>7, <1>8 DEF IInv

-----------------------------------------------------------------------------
(* Steps that move one task without a change of the tables of tasks.       *)

\* exit_state, the tables and the duties stay; t moves, and not to or from the
\* points where it owns a dead task.
Quiet(t) ==
    /\ UNCHANGED <<tree, exit_state, hashed, real_parent, cloned, dead, cutime>>
    /\ exiting' = exiting \/ (pc[t] = "doexit" /\ exiting' = exiting \cup {t})
    /\ \A s \in Task \ {t} : pc'[s] = pc[s] /\ target'[s] = target[s]
    /\ {pc[t], pc'[t]} \cap {"reap"} = {} /\ pc'[t] # "release"
    /\ pc[t] = "dead" => pc'[t] = "dead"
    /\ pc[t] = "release" => dead[t] = {} /\ (t \in exiting => pc'[t] = "dead")
    /\ pc'[t] \in Marked => t \in exiting'
    /\ pc'[t] \in Exiting =>
           t # init_task \/ pc[t] \in Exiting
    /\ pc'[t] = "claim" =>
           /\ target'[t] \in BOOLEAN \X Task
           /\ target'[t][2] \in Leaders => Threads(target'[t][2]) \subseteq {target'[t][2]}

\* Such a step keeps what depends on the tables only.
LEMMA QuietInv ==
    ASSUME NEW t \in Task, IInv, Quiet(t)
    PROVE  /\ Control' /\ Owned' /\ Grouped' /\ Family' /\ Times'
           /\ \A p \in Task : Owners(p)' = Owners(p)
<1>0. Typed /\ Control /\ Owned /\ Grouped /\ Family /\ Times
  BY Zenon DEF IInv
<1>1. Control'
  <2>1. /\ init_task \notin exiting'
        /\ pc'[init_task] \notin Exiting
    BY Zenon, <1>0, ExitAssumption DEF Control, Quiet
  <2>2. ASSUME NEW s \in Task
        PROVE  /\ exit_state'[s] # "0" => s \in exiting' /\ pc'[s] \in {"release", "dead"}
               /\ pc'[s] \in Marked => s \in exiting'
               /\ dead'[s] # {} => pc'[s] = "release"
               /\ pc'[s] \in {"claim", "reap"} => target'[s] \in BOOLEAN \X Task
    <3>1. CASE s = t
      BY Zenon, <1>0, <3>1 DEF Control, Quiet
    <3>2. CASE s # t
      BY ZenonT(60), <1>0, <3>2 DEF Control, Quiet
    <3>3. QED
      BY Zenon, <3>1, <3>2
  <2>3. QED
    BY Zenon, <1>0, <2>1, <2>2 DEF Control, Quiet
<1>2. \A s \in Task : /\ (pc'[s] = "reap") = (pc[s] = "reap")
                      /\ pc[s] = "reap" => target'[s] = target[s]
  BY Zenon DEF Quiet
<1>3. \A p \in Task : Owners(p)' = Owners(p)
  BY Zenon, <1>2 DEF Owners, Quiet
<1>4. Owned'
  <2>1. hashed \subseteq Task
    BY Zenon, <1>0, TreeFacts DEF Typed
  <2>2. QED
    BY <1>0, <1>3, <2>1 DEF Owned, Quiet
<1>5. Grouped'
  <2>1. \A p : Threads(p)' = Threads(p)
    BY Zenon DEF Threads, Quiet
  <2>2. ASSUME NEW s \in Task, pc'[s] = "claim", target'[s][2] \in Leaders
        PROVE  Threads(target'[s][2]) \subseteq {target'[s][2]}
    <3>1. CASE s = t
      BY Zenon, <2>2, <3>1 DEF Quiet
    <3>2. CASE s # t
      BY Zenon, <1>0, <2>2, <3>2 DEF Grouped, Quiet
    <3>3. QED
      BY Zenon, <3>1, <3>2
  <2>3. QED
    BY Zenon, <1>0, <2>1, <2>2 DEF Grouped, Quiet
<1>6. Family'
  BY Zenon, <1>0 DEF Family, Quiet
<1>7. Times'
  <2>1. \A g \in Task : Done(g)' = Done(g)
    BY <1>2 DEF Done, Quiet
  <2>2. QED
    BY Zenon, <1>0, <2>1, LeaderFacts DEF Times, Quiet
<1> QED
  BY Zenon, <1>1, <1>3, <1>4, <1>5, <1>6, <1>7

\* Leaving do_wait() is such a step, from any point but "reap" and "dead".
LEMMA ReturnQuiet ==
    ASSUME NEW t \in Task, Typed, Return(t), pc[t] \notin {"reap", "dead"},
           pc[t] = "release" => dead[t] = {} /\ t \notin exiting,
           UNCHANGED <<tree, exit_state, hashed, exiting, linkVars, dead, histVars>>
    PROVE  Typed' /\ Quiet(t)
<1>1. Typed'
  BY Zenon DEF Typed, PC, Return, linkVars, histVars
<1>2. Quiet(t)
  BY Zenon DEF Typed, Quiet, Return, linkVars, histVars
<1> QED
  BY Zenon, <1>1, <1>2

\* Nothing found: return, or sleep.
LEMMA NothingFoundQuiet ==
    ASSUME NEW t \in Task, NEW none, Typed, NothingFound(t, none), pc[t] \in {"wait", "scan"},
           UNCHANGED <<tree, exit_state, hashed, exiting, linkVars, dead, histVars>>
    PROVE  Typed' /\ Quiet(t)
<1>1. CASE Return(t)
  BY Zenon, <1>1, ReturnQuiet
<1>2. CASE pc' = [pc EXCEPT ![t] = "sched"] /\ UNCHANGED <<state, waitVars>>
  <2>1. Typed'
    BY Zenon, <1>2 DEF Typed, PC, waitVars, linkVars, histVars
  <2>2. Quiet(t)
    BY Zenon, <1>2 DEF Typed, Quiet, waitVars, linkVars, histVars
  <2>3. QED
    BY Zenon, <2>1, <2>2
<1> QED
  BY Zenon, <1>1, <1>2 DEF NothingFound


\* The way of a task into do_exit() and out of release_task(), trace
\* stops and wake-ups.
LEMMA UserQuiet ==
    ASSUME NEW t \in Task, Typed, Control,
           \/ ExitThread(t) \/ do_group_exit(t) \/ exit_signals(t) \/ do_exit(t) \/ do_task_dead(t)
           \/ TraceStop(t) \/ Awake(t)
    PROVE  Typed' /\ Quiet(t) /\ UNCHANGED <<parent, traced>>
<1> USE DEF waitVars, linkVars, histVars, groupVars
<1>1. CASE ExitThread(t)
  <2>1. Typed'
    BY Zenon, <1>1 DEF Typed, PC, ExitThread, Running
  <2>2. Quiet(t) /\ UNCHANGED <<parent, traced>>
    BY Zenon, <1>1 DEF Typed, Control, Quiet, ExitThread, Running
  <2>3. QED
    BY Zenon, <2>1, <2>2
<1>2. CASE do_group_exit(t)
  <2>1. Typed'
    BY Zenon, <1>2 DEF Typed, PC, do_group_exit, Running
  <2>2. Quiet(t) /\ UNCHANGED <<parent, traced>>
    BY Zenon, <1>2 DEF Typed, Control, Quiet, do_group_exit, Running
  <2>3. QED
    BY Zenon, <2>1, <2>2
<1>3. CASE exit_signals(t)
  <2>1. Typed'
    BY Zenon, <1>3 DEF Typed, PC, exit_signals
  <2>2. Quiet(t) /\ UNCHANGED <<parent, traced>>
    BY Zenon, <1>3 DEF Typed, Control, Quiet, exit_signals
  <2>3. QED
    BY Zenon, <2>1, <2>2
<1>3a. CASE do_exit(t)
  <2>1. Typed'
    BY Zenon, <1>3a DEF Typed, PC, do_exit
  <2>2. Quiet(t) /\ UNCHANGED <<parent, traced>>
    BY Zenon, <1>3a DEF Typed, Control, Quiet, do_exit
  <2>3. QED
    BY Zenon, <2>1, <2>2
<1>4. CASE do_task_dead(t)
  <2>1. Typed'
    BY Zenon, <1>4 DEF Typed, PC, do_task_dead
  <2>2. Quiet(t) /\ UNCHANGED <<parent, traced>>
    BY Zenon, <1>4 DEF Typed, Control, Quiet, do_task_dead
  <2>3. QED
    BY Zenon, <2>1, <2>2
<1>5. CASE TraceStop(t)
  <2>1. Typed'
    BY Zenon, <1>5 DEF Typed, PC, TraceStop, Running
  <2>2. Quiet(t) /\ UNCHANGED <<parent, traced>>
    BY Zenon, <1>5 DEF Typed, Control, Quiet, TraceStop, Running
  <2>3. QED
    BY Zenon, <2>1, <2>2
<1>6. CASE Awake(t)
  <2>1. Typed'
    BY Zenon, <1>6 DEF Typed, PC, Awake
  <2>2. Quiet(t) /\ UNCHANGED <<parent, traced>>
    BY Zenon, <1>6 DEF Typed, Control, Quiet, Awake
  <2>3. QED
    BY Zenon, <2>1, <2>2
<1> QED
  BY Zenon, <1>1, <1>2, <1>3, <1>3a, <1>4, <1>5, <1>6

\* The steps of do_wait() up to the cmpxchg.
LEMMA WaitQuiet ==
    ASSUME NEW t \in Task, Typed, Control,
           \/ \E o : WaitCall(t, o)
           \/ Repeat(t) \/ LockScan(t) \/ wait_consider_task(t) \/ EndScan(t)
           \/ Collected(t) \/ Events(t)
    PROVE  Typed' /\ Quiet(t) /\ UNCHANGED <<parent, traced>>
<1> USE DEF waitVars, linkVars, histVars, groupVars
<1>1. ASSUME NEW o, WaitCall(t, o) PROVE Typed' /\ Quiet(t) /\ UNCHANGED <<parent, traced>>
  <2>1. Typed'
    BY Zenon, <1>1 DEF Typed, PC, WaitCall
  <2>2. Quiet(t) /\ UNCHANGED <<parent, traced>>
    BY Zenon, <1>1 DEF Typed, Control, Quiet, WaitCall, Running
  <2>3. QED
    BY Zenon, <2>1, <2>2
<1>2. CASE Repeat(t)
  <2>1. CASE NothingFound(t, TRUE)
    BY Zenon, <1>2, <2>1, NothingFoundQuiet DEF Repeat
  <2>2. CASE /\ pc' = [pc EXCEPT ![t] = "lock"]
             /\ state' = [state EXCEPT ![t] = "INTERRUPTIBLE"]
             /\ UNCHANGED waitVars
    <3>1. Typed'
      BY Zenon, <1>2, <2>2 DEF Typed, PC, Repeat
    <3>2. Quiet(t) /\ UNCHANGED <<parent, traced>>
      BY Zenon, <1>2, <2>2 DEF Typed, Control, Quiet, Repeat
    <3>3. QED
      BY Zenon, <3>1, <3>2
  <2>3. QED
    BY Zenon, <1>2, <2>1, <2>2 DEF Repeat
<1>3. CASE LockScan(t)
  <2>1. Candidates(t) \subseteq BOOLEAN \X Task
    BY Zenon, TreeFacts DEF Candidates, Typed
  <2>2. Typed'
    BY Zenon, <1>3, <2>1 DEF Typed, PC, LockScan
  <2>3. Quiet(t) /\ UNCHANGED <<parent, traced>>
    BY Zenon, <1>3 DEF Typed, Control, Quiet, LockScan
  <2>4. QED
    BY Zenon, <2>2, <2>3
<1>4. CASE EndScan(t)
  BY Zenon, <1>4, NothingFoundQuiet DEF EndScan
<1>5. CASE Collected(t)
  BY Zenon, <1>5, ReturnQuiet DEF Collected
<1>6. CASE Events(t)
  <2>1. CASE Return(t)
    BY Zenon, <1>6, <2>1, ReturnQuiet DEF Events
  <2>2. CASE pc' = [pc EXCEPT ![t] = "scan"] /\ UNCHANGED <<state, waitVars>>
    <3>1. Typed'
      BY Zenon, <1>6, <2>2 DEF Typed, PC, Events
    <3>2. Quiet(t) /\ UNCHANGED <<parent, traced>>
      BY Zenon, <1>6, <2>2 DEF Typed, Control, Quiet, Events
    <3>3. QED
      BY Zenon, <3>1, <3>2
  <2>3. QED
    BY Zenon, <1>6, <2>1, <2>2 DEF Events
<1>7. CASE wait_consider_task(t)
  <2>1. PICK c \in todo[t] :
            /\ todo' = [todo EXCEPT ![t] = @ \ {c}]
            /\ \E k \in {"scan", "claim", "events"} :
                  /\ pc' = [pc EXCEPT ![t] = k]
                  /\ k = "claim" => ~delay_group_leader(c[2])
            /\ \E b \in BOOLEAN : target' = [target EXCEPT ![t] = <<b, c[2]>>]
    BY Zenon, <1>7 DEF wait_consider_task
  <2>2. PICK k \in {"scan", "claim", "events"} :
            /\ pc' = [pc EXCEPT ![t] = k]
            /\ k = "claim" => ~delay_group_leader(c[2])
    BY Zenon, <2>1
  <2>3. PICK b \in BOOLEAN : target' = [target EXCEPT ![t] = <<b, c[2]>>]
    BY Zenon, <2>1
  <2>4. c[2] \in Task
    BY DEF Typed
  <2>5. UNCHANGED <<tree, exit_state, hashed, exiting, linkVars, dead, histVars>>
        /\ pc[t] = "scan"
    BY Zenon, <1>7 DEF wait_consider_task
  <2>6. Typed'
    BY Zenon, <2>1, <2>2, <2>3, <2>4, <2>5 DEF Typed, PC
  <2>7. c[2] \in Leaders /\ k = "claim" => Threads(c[2]) \subseteq {c[2]}
    BY Zenon, <2>2 DEF delay_group_leader, thread_group_empty
  <2>8. Quiet(t) /\ UNCHANGED <<parent, traced>>
    BY Zenon, <2>2, <2>3, <2>4, <2>5, <2>7 DEF Typed, Quiet
  <2>9. QED
    BY Zenon, <2>6, <2>8
<1> QED
  BY Zenon, <1>1, <1>2, <1>3, <1>4, <1>5, <1>6, <1>7

\* ParentsAlive and AutoReaped depend on the tables of tasks only.
LEMMA Untouched ==
    ASSUME UNCHANGED <<hashed, exit_state, real_parent, cloned, tree, parent, traced>>,
           ParentsAlive, AutoReaped
    PROVE  ParentsAlive' /\ AutoReaped'
  BY Zenon DEF ParentsAlive, AutoReaped, thread_group_empty, Threads

\* ptrace attach, resume and detach.
LEMMA TraceInv ==
    ASSUME NEW t \in tree.tasks, IInv, TraceResume(t) \/ \E p \in Task : Attach(t, p)
    PROVE  /\ Typed' /\ Control' /\ Owned' /\ Grouped' /\ Family' /\ Times'
           /\ ParentsAlive' /\ AutoReaped'
           /\ UNCHANGED <<hashed, exit_state>>
           /\ \A p \in Task : Owners(p)' = Owners(p)
<1>0. /\ Typed /\ Control /\ Owned /\ Grouped /\ Family /\ Times /\ ParentsAlive /\ AutoReaped
      /\ t \in Task
  BY Zenon, TreeFacts DEF IInv
<1> USE DEF waitVars, linkVars, histVars, groupVars
<1>1. CASE TraceResume(t)
  <2>1. Typed'
    BY ZenonT(60), <1>0, <1>1 DEF Typed, PC, TraceResume
  <2>2. Quiet(t)
    BY ZenonT(60), <1>0, <1>1 DEF Typed, Control, Quiet, TraceResume
  <2>3. \A p \in Task : p # t => parent'[p] = parent[p] /\ (p \in traced' <=> p \in traced)
    BY Zenon, <1>0, <1>1 DEF Typed, TraceResume
  <2>4. /\ UNCHANGED <<tree, hashed, exit_state, real_parent, cloned>>
        /\ exit_state[t] = "0"
        /\ (parent'[t] = parent[t] /\ (t \in traced' <=> t \in traced)) \/ parent'[t] = real_parent[t]
    BY ZenonT(60), <1>0, <1>1 DEF Typed, Control, TraceResume
  <2>5. hashed \subseteq Task
    BY Zenon, <1>0, TreeFacts DEF Typed
  <2>6. ParentsAlive'
    BY <1>0, <2>3, <2>4, <2>5 DEF ParentsAlive
  <2>7. AutoReaped'
    BY Zenon, <1>0, <2>3, <2>4, <2>5 DEF AutoReaped, thread_group_empty, Threads
  <2>8. QED
    BY Zenon, <1>0, <2>1, <2>2, <2>4, <2>6, <2>7, QuietInv
<1>2. ASSUME NEW p \in Task, Attach(t, p)
      PROVE  /\ Typed' /\ Quiet(t) /\ ParentsAlive' /\ AutoReaped'
             /\ UNCHANGED <<hashed, exit_state>>
  <2>1. Typed'
    BY Zenon, <1>0, <1>2 DEF Typed, PC, Attach
  <2>2. Quiet(t)
    BY ZenonT(60), <1>0, <1>2 DEF Typed, Control, Quiet, Attach, Running
  <2>3. t \in hashed /\ exit_state[t] = "0"
    BY Zenon, <1>0, <1>2, AliveFacts DEF Typed, Control, Attach, Running
  <2>4. hashed \subseteq Task
    BY Zenon, <1>0, TreeFacts DEF Typed
  <2>5. ParentsAlive'
    <3>1. /\ \A q \in Task : q # p => parent'[q] = parent[q] /\ (q \in traced' <=> q \in traced)
          /\ parent'[p] = t /\ p \in traced'
          /\ UNCHANGED <<hashed, exit_state, real_parent>>
      <4>1. /\ traced' = traced \cup {p} /\ parent' = [parent EXCEPT ![p] = t]
            /\ UNCHANGED <<hashed, exit_state, real_parent>>
        BY ZenonT(60), <1>2 DEF Attach
      <4>2. QED
        BY Zenon, <1>0, <4>1 DEF Typed
    <3>2. QED
      BY <1>0, <2>3, <2>4, <3>1 DEF ParentsAlive
  <2>6. AutoReaped'
    BY Zenon, <1>0, <1>2 DEF AutoReaped, thread_group_empty, Threads, Attach
  <2>7. QED
    BY Zenon, <1>2, <2>1, <2>2, <2>5, <2>6 DEF Attach
<1> QED
  BY Zenon, <1>0, <1>1, <1>2, QuietInv

\* A step that moves nobody (job control, a fatal signal, a stutter).
Still == UNCHANGED <<tree, pc, exit_state, hashed, exiting, real_parent, parent, traced,
                     cloned, dead, todo, target, cutime>>

LEMMA StillInv ==
    ASSUME IInv, Still
    PROVE  IInv' /\ \A p \in Task : Owners(p)' = Owners(p)
<1>0. Typed /\ Control /\ Owned /\ Grouped /\ Family /\ Times /\ ParentsAlive /\ AutoReaped
  BY Zenon DEF IInv
<1>1. Typed' /\ Control'
  BY Zenon, <1>0 DEF Typed, Control, Still
<1>2. \A p : Owners(p)' = Owners(p)
  BY Zenon DEF Owners, Still
<1>3. Owned'
  BY Zenon, <1>0, <1>2 DEF Owned, Still
<1>4. Grouped' /\ Family'
  BY Zenon, <1>0 DEF Grouped, Threads, Family, Still
<1>5. ParentsAlive' /\ AutoReaped'
  BY Zenon, <1>0, Untouched DEF Still
<1>6. Times'
  BY <1>0 DEF Times, Done, Still
<1> QED
  BY Zenon, <1>1, <1>2, <1>3, <1>4, <1>5, <1>6 DEF IInv

-----------------------------------------------------------------------------
(* The steps of the abstract table.                                        *)

\* What a step may do to the life of p: nothing, or one move of ChildTable.
LifeStep(p) ==
    \/ lifeOf(p)' = lifeOf(p) /\ Owners(p)' = Owners(p)
    \/ lifeOf(p) = "alive" /\ lifeOf(p)' \in {"zombie", "claimed"}
    \/ lifeOf(p) = "zombie" /\ lifeOf(p)' = "claimed"
    \/ lifeOf(p) = "claimed" /\ lifeOf(p)' \in {"zombie", "gone"}

\* A life that no step of the tables touches.
LEMMA SameLife ==
    ASSUME NEW p \in Task, Owners(p)' = Owners(p), (p \in hashed') = (p \in hashed),
           exit_state'[p] = exit_state[p]
    PROVE  LifeStep(p)
  BY Zenon DEF LifeStep, lifeOf

\* A quiet step that leaves the tracers alone keeps the whole invariant.
LEMMA QuietStep ==
    ASSUME NEW t \in Task, IInv, Typed', Quiet(t), UNCHANGED <<parent, traced>>
    PROVE  IInv' /\ \A p \in Task : LifeStep(p)
<1>1. ParentsAlive' /\ AutoReaped'
  BY Zenon, Untouched DEF IInv, Quiet
<1>2. UNCHANGED <<hashed, exit_state>>
  BY Zenon DEF Quiet
<1> QED
  BY Zenon, <1>1, <1>2, QuietInv, SameLife DEF IInv

\* wait_task_zombie() under the read lock: the one that wins the cmpxchg owns
\* the zombie.
LEMMA ClaimInv ==
    ASSUME NEW t \in Task, IInv, Claim(t)
    PROVE  IInv' /\ \A p \in Task : LifeStep(p)
<1> DEFINE p == target[t][2]
<1>0. Typed /\ Control /\ Owned /\ Grouped /\ Family /\ Times /\ ParentsAlive /\ AutoReaped
  BY Zenon DEF IInv
<1>1. CASE Return(t) /\ UNCHANGED exit_state
  BY Zenon, <1>0, <1>1, ReturnQuiet, QuietStep DEF Claim, linkVars
<1>2. CASE /\ pc' = [pc EXCEPT ![t] = "scan"]
           /\ UNCHANGED exit_state
           /\ UNCHANGED <<state, waitVars>>
  <2>1. Typed'
    BY Zenon, <1>0, <1>2 DEF Typed, PC, Claim, waitVars, linkVars, histVars
  <2>2. Quiet(t) /\ UNCHANGED <<parent, traced>>
    BY Zenon, <1>0, <1>2 DEF Typed, Quiet, Claim, waitVars, linkVars, histVars
  <2>3. QED
    BY Zenon, <2>1, <2>2, QuietStep
<1>3. CASE \E x \in {"TRACE", "DEAD"} :
              /\ Wins(p)
              /\ exit_state' = [exit_state EXCEPT ![p] = x]
              /\ x = "TRACE" => p \in Leaders
              /\ pc' = [pc EXCEPT ![t] = "reap"]
              /\ UNCHANGED waitVars
  <2>1. PICK x \in {"TRACE", "DEAD"} :
              /\ Wins(p)
              /\ exit_state' = [exit_state EXCEPT ![p] = x]
              /\ x = "TRACE" => p \in Leaders
              /\ pc' = [pc EXCEPT ![t] = "reap"]
              /\ UNCHANGED waitVars
    BY ZenonT(60), <1>3
  <2>2. /\ p \in Task /\ p \in hashed /\ exit_state[p] = "ZOMBIE" /\ p # t /\ pc[t] = "claim"
        /\ exit_state[t] = "0" /\ dead[t] = {}
    BY Zenon, <1>0, <2>1 DEF Typed, Control, Claim, Wins
  <2>3. UNCHANGED <<tree, hashed, exiting, real_parent, parent, traced, cloned, dead,
                    todo, target, cutime>>
    BY Zenon, <2>1 DEF Claim, waitVars, linkVars, histVars
  <2>4. /\ exit_state'[p] = x
        /\ \A q \in Task : q # p => exit_state'[q] = exit_state[q]
        /\ pc'[t] = "reap"
        /\ \A s \in Task : s # t => pc'[s] = pc[s]
    BY Zenon, <1>0, <2>1, <2>2 DEF Typed
  <2>5. Typed'
    BY ZenonT(60), <1>0, <2>1, <2>3 DEF Typed, PC
  <2>6. Control'
    <3>1. ASSUME NEW s \in Task
          PROVE  /\ exit_state'[s] # "0" => s \in exiting' /\ pc'[s] \in {"release", "dead"}
                 /\ pc'[s] \in Marked => s \in exiting'
                 /\ dead'[s] # {} => pc'[s] = "release"
                 /\ pc'[s] \in {"claim", "reap"} => target'[s] \in BOOLEAN \X Task
      BY ZenonT(60), <1>0, <2>2, <2>3, <2>4 DEF Control
    <3>2. QED
      BY SMTT(60), <1>0, <2>2, <2>3, <2>4, <3>1, ExitAssumption, TreeFacts DEF Control
  <2>7. /\ Owners(p) = {} /\ Owners(p)' = {t}
        /\ \A q \in Task : q # p => Owners(q)' = Owners(q)
    <3>1. Owners(p) = {}
      BY Zenon, <1>0, <2>2 DEF Owned
    <3>2. Owners(p)' = {t}
      BY ZenonT(60), <2>2, <2>3, <2>4, <3>1 DEF Owners
    <3>3. \A q \in Task : q # p => Owners(q)' = Owners(q)
      BY Zenon, <2>2, <2>3, <2>4 DEF Owners
    <3>4. QED
      BY Zenon, <3>1, <3>2, <3>3
  <2>8. hashed \subseteq Task
    BY Zenon, <1>0, TreeFacts DEF Typed
  <2>9. Owned'
    BY <1>0, <2>1, <2>2, <2>3, <2>4, <2>7, <2>8 DEF Owned
  <2>10. Grouped'
    <3>1. \A q : Threads(q)' = Threads(q)
      BY Zenon, <2>3 DEF Threads
    <3>2. \A q \in Leaders : exit_state'[q] \in {"DEAD", "TRACE"} => Threads(q) \subseteq {q}
      BY ZenonT(60), <1>0, <2>2, <2>4, LeaderFacts DEF Grouped
    <3>3. \A s \in Task : pc'[s] = "claim" /\ target'[s][2] \in Leaders
                          => Threads(target'[s][2]) \subseteq {target'[s][2]}
      BY Zenon, <1>0, <2>3, <2>4 DEF Grouped
    <3>4. QED
      BY Zenon, <1>0, <2>3, <3>1, <3>2, <3>3 DEF Grouped
  <2>11. Family'
    BY ZenonT(60), <1>0, <2>3 DEF Family
  <2>12. ParentsAlive'
    BY <1>0, <2>2, <2>3, <2>4, <2>8 DEF Typed, ParentsAlive
  <2>13. AutoReaped'
    BY ZenonT(60), <1>0, <2>1, <2>3, <2>4, <2>8 DEF AutoReaped, thread_group_empty, Threads
  <2>14. Times'
    <3>1. \A g \in Task : Done(g)' = Done(g)
      BY ZenonT(60), <2>2, <2>3, <2>4 DEF Done
    <3>2. QED
      BY Zenon, <1>0, <2>3, <3>1, LeaderFacts DEF Times
  <2>15. ASSUME NEW q \in Task PROVE LifeStep(q)
    <3>1. CASE q = p
      BY Zenon, <2>2, <2>3, <2>4, <3>1 DEF LifeStep, lifeOf
    <3>2. CASE q # p
      BY Zenon, <2>3, <2>4, <2>7, <3>2, SameLife
    <3>3. QED
      BY Zenon, <3>1, <3>2
  <2>16. QED
    BY Zenon, <2>5, <2>6, <2>9, <2>10, <2>11, <2>12, <2>13, <2>14, <2>15 DEF IInv
<1> QED
  BY Zenon, <1>1, <1>2, <1>3 DEF Claim

\* wait_task_zombie() after the unlock: the winner adds the times and is to
\* release the task, or hands a zombie it traced on to the real parent.
LEMMA ReapInv ==
    ASSUME NEW t \in tree.tasks, IInv, Reap(t)
    PROVE  IInv' /\ \A p \in Task : LifeStep(p)
<1> DEFINE p == target[t][2]
           y == exit_state'[p]
           added(u) == cutime[leader[t]][u] + cutime[p][u]
                       + (IF leader[u] = p /\ u \in tree.tasks THEN 1 ELSE 0)
<1>0. /\ Typed /\ Control /\ Owned /\ Grouped /\ Family /\ Times /\ ParentsAlive /\ AutoReaped
      /\ t \in Task
  BY Zenon, TreeFacts DEF IInv
<1>1. /\ p \in Task /\ pc[t] = "reap" /\ exit_state[t] = "0" /\ dead[t] = {} /\ t \in hashed
  BY Zenon, <1>0, AliveFacts DEF Typed, Control, Reap
<1>2. /\ p \in hashed /\ exit_state[p] \in {"DEAD", "TRACE"} /\ p # t
      /\ Owners(p) = {t}
  <2>1. t \in Owners(p)
    BY Zenon, <1>0, <1>1 DEF Owners
  <2>2. QED
    BY <1>0, <1>1, <2>1 DEF Owned
<1>3. /\ UNCHANGED <<tree, hashed, exiting, real_parent, cloned, todo, target>>
      /\ pc' = [pc EXCEPT ![t] = "release"]
  BY Zenon DEF Reap, waitVars
<1>4. /\ pc'[t] = "release"
      /\ \A s \in Task : s # t => pc'[s] = pc[s]
  BY Zenon, <1>0, <1>3 DEF Typed
<1>5. /\ exit_state' \in [Task -> {"0", "ZOMBIE", "DEAD", "TRACE"}]
      /\ \A q \in Task : q # p => exit_state'[q] = exit_state[q]
      /\ y \in {"ZOMBIE", "DEAD"}
      /\ y = "ZOMBIE" => /\ exit_state[p] = "TRACE" /\ p \notin traced'
                         /\ ~autoreaps(p, real_parent[p])
  BY Zenon, <1>0, <1>1, <1>2 DEF Typed, Reap
<1>6. dead'[t] = IF y = "ZOMBIE" THEN {} ELSE {p}
  <2>1. CASE exit_state[p] = "TRACE"
    BY ZenonT(60), <1>0, <1>1, <2>1 DEF Typed, Reap
  <2>2. CASE exit_state[p] = "DEAD"
    BY Zenon, <1>0, <1>1, <2>2 DEF Typed, Reap
  <2>3. QED
    BY Zenon, <1>2, <2>1, <2>2
<1>7. /\ dead' \in [Task -> SUBSET Task]
      /\ \A s \in Task : s # t => dead'[s] = dead[s]
  <2>1. PICK D \in SUBSET Task : dead' = [dead EXCEPT ![t] = D]
    BY ZenonT(60), <1>1 DEF Reap
  <2>2. QED
    BY Zenon, <1>0, <2>1 DEF Typed
<1>8. /\ parent' \in [Task -> Task]
      /\ \A q \in Task : q # p => parent'[q] = parent[q] /\ (q \in traced' <=> q \in traced)
      /\ \/ parent'[p] = parent[p] /\ (p \in traced' <=> p \in traced)
         \/ parent'[p] = real_parent[p]
  BY ZenonT(60), <1>0, <1>1 DEF Typed, Reap
<1>9. hashed \subseteq Task /\ leader[t] \in Leaders /\ leader[t] \in Task /\ t \in Threads(leader[t])
  BY Zenon, <1>0, <1>1, TreeFacts, LeaderFacts DEF Typed, Threads, SameGroup
<1>10. \/ cutime' = cutime
       \/ /\ p \in Leaders /\ exit_state[p] = "DEAD"
          /\ cutime' = [cutime EXCEPT ![leader[t]] = [u \in Task |-> added(u)]]
  BY Zenon, <1>0, <1>2, <1>9 DEF Typed, Reap
<1>11. Typed'
  <2>1. cutime' \in [Task -> [Task -> Nat]]
    <3>1. \A u \in Task : added(u) \in Nat
      BY <1>0, <1>1, <1>9 DEF Typed
    <3>2. [u \in Task |-> added(u)] \in [Task -> Nat]
      BY Zenon, <3>1
    <3>3. CASE cutime' = cutime
      BY Zenon, <1>0, <3>3 DEF Typed
    <3>4. CASE cutime' = [cutime EXCEPT ![leader[t]] = [u \in Task |-> added(u)]]
      <4> HIDE DEF added
      <4> QED
        BY Zenon, <1>0, <3>2, <3>4 DEF Typed
    <3>5. QED
      BY Zenon, <1>10, <3>3, <3>4
  <2>2. QED
    BY ZenonT(60), <1>0, <1>3, <1>5, <1>7, <1>8, <2>1 DEF Typed, PC
<1>12. Control'
  <2>1. ASSUME NEW s \in Task
        PROVE  /\ exit_state'[s] # "0" => s \in exiting' /\ pc'[s] \in {"release", "dead"}
               /\ pc'[s] \in Marked => s \in exiting'
               /\ dead'[s] # {} => pc'[s] = "release"
               /\ pc'[s] \in {"claim", "reap"} => target'[s] \in BOOLEAN \X Task
    <3>1. /\ exit_state'[s] # "0" => exit_state[s] # "0" /\ s # t
          /\ dead'[s] # {} => s = t \/ dead[s] # {}
      BY Zenon, <1>1, <1>2, <1>5, <1>7
    <3>2. CASE s = t
      BY Zenon, <1>4, <3>1, <3>2
    <3>3. CASE s # t
      BY Zenon, <1>0, <1>3, <1>4, <3>1, <3>3 DEF Control
    <3>4. QED
      BY Zenon, <3>2, <3>3
  <2>2. \A q \in Task : exit_state'[q] \in {"ZOMBIE", "TRACE"} => q \in hashed'
    BY ZenonT(60), <1>0, <1>2, <1>3, <1>5 DEF Control
  <2>3. \A q \in tree.tasks \ hashed : exit_state'[q] = "DEAD"
    BY ZenonT(60), <1>0, <1>2, <1>5, TreeFacts DEF Control
  <2>4. init_task \notin exiting /\ pc'[init_task] \notin Exiting
    BY Zenon, <1>0, <1>4, ExitAssumption DEF Control
  <2>5. QED
    BY Zenon, <1>3, <2>1, <2>2, <2>3, <2>4 DEF Control
<1>13. /\ Owners(p)' = IF y = "ZOMBIE" THEN {} ELSE {t}
       /\ \A q \in Task : q # p => Owners(q)' = Owners(q)
  <2>1. \A s \in Task : s # t => (s \in Owners(p)' <=> s \in Owners(p))
    BY Zenon, <1>3, <1>4, <1>7 DEF Owners
  <2>2. t \in Owners(p)' <=> y # "ZOMBIE"
    BY Zenon, <1>0, <1>3, <1>4, <1>6 DEF Owners
  <2>3. Owners(p)' \subseteq Task
    BY Zenon DEF Owners
  <2>4. \A q \in Task : q # p => Owners(q)' = Owners(q)
    BY ZenonT(60), <1>1, <1>3, <1>4, <1>6, <1>7 DEF Owners
  <2>5. QED
    BY Zenon, <1>0, <1>2, <2>1, <2>2, <2>3, <2>4
<1>14. Owned'
  <2>1. \A s \in Task : \A q \in dead'[s] : exit_state'[q] = "DEAD"
    <3>1. \A s \in Task : s # t => p \notin dead[s]
      BY Zenon, <1>2 DEF Owners
    <3>2. ASSUME NEW s \in Task, NEW q \in dead'[s] PROVE exit_state'[q] = "DEAD"
      <4>1. CASE s = t
        BY Zenon, <1>5, <1>6, <4>1
      <4>2. CASE s # t
        <5>1. q \in dead[s] /\ q \in Task /\ q # p
          BY Zenon, <1>0, <1>7, <3>1, <4>2 DEF Typed
        <5>2. QED
          BY ZenonT(60), <1>0, <1>5, <5>1 DEF Owned
      <4>3. QED
        BY Zenon, <4>1, <4>2
    <3>3. QED
      BY Zenon, <3>2
  <2>2. ASSUME NEW q \in Task, q # p
        PROVE  /\ \A r, s \in Owners(q)' : r = s
               /\ Owners(q)' # {} => q \in hashed /\ exit_state'[q] \in {"DEAD", "TRACE"}
               /\ q \in hashed /\ exit_state'[q] \in {"DEAD", "TRACE"} => Owners(q)' # {}
               /\ exit_state'[q] = "TRACE" => q \in Leaders
    BY SMTT(60), <1>0, <1>5, <1>13, <2>2 DEF Owned
  <2>3. ASSUME NEW q \in Task, q = p
        PROVE  /\ \A r, s \in Owners(q)' : r = s
               /\ Owners(q)' # {} => q \in hashed /\ exit_state'[q] \in {"DEAD", "TRACE"}
               /\ exit_state'[q] \in {"DEAD", "TRACE"} => Owners(q)' # {}
               /\ exit_state'[q] # "TRACE"
    <3>1. Owners(q)' = IF y = "ZOMBIE" THEN {} ELSE {t}
      BY Zenon, <1>3, <1>13, <2>3
    <3>2. QED
      BY ZenonT(60), <1>2, <1>5, <2>3, <3>1
  <2>4. QED
    BY Zenon, <1>3, <1>9, <2>1, <2>2, <2>3 DEF Owned
<1>15. Grouped'
  <2>1. \A q : Threads(q)' = Threads(q)
    BY Zenon, <1>3 DEF Threads
  <2>2. \A q \in Leaders : exit_state'[q] \in {"DEAD", "TRACE"} => Threads(q) \subseteq {q}
    BY Zenon, <1>0, <1>2, <1>5, LeaderFacts DEF Grouped
  <2>3. \A s \in Task : pc'[s] = "claim" /\ target'[s][2] \in Leaders
                        => Threads(target'[s][2]) \subseteq {target'[s][2]}
    BY Zenon, <1>0, <1>3, <1>4 DEF Grouped
  <2>4. QED
    BY Zenon, <1>0, <1>3, <2>1, <2>2, <2>3 DEF Grouped
<1>16. Family'
  BY Zenon, <1>0, <1>3 DEF Family
<1>17. ParentsAlive'
  <2>1. ASSUME NEW q \in hashed
        PROVE  /\ real_parent[q] \in hashed /\ exit_state'[real_parent[q]] = "0"
               /\ parent[q] \in hashed /\ exit_state'[parent[q]] = "0"
    <3>1. /\ real_parent[q] \in hashed /\ exit_state[real_parent[q]] = "0"
          /\ parent[q] \in hashed /\ exit_state[parent[q]] = "0"
      BY Zenon, <1>0 DEF ParentsAlive
    <3>2. QED
      BY Zenon, <1>2, <1>5, <1>9, <3>1
  <2>2. \A q \in hashed : q \notin traced => parent[q] = real_parent[q]
    BY Zenon, <1>0 DEF ParentsAlive
  <2>3. QED
    BY SMTT(60), <1>3, <1>8, <1>9, <2>1, <2>2 DEF ParentsAlive
<1>18. AutoReaped'
  <2>1. \A q : thread_group_empty(q)' = thread_group_empty(q)
    BY Zenon, <1>3 DEF thread_group_empty, Threads
  <2>2. QED
    BY ZenonT(60), <1>0, <1>2, <1>3, <1>5, <1>8, <1>9, <2>1 DEF AutoReaped, Owned, autoreaps
<1>19. Times'
  <2>1. /\ \A g \in Task : ~Done(g)' => ~Done(g)
        /\ ~Done(p)
        /\ \A g \in Task : g = p /\ exit_state[p] = "DEAD" => Done(g)'
    <3>1. ~Done(p)
      BY Zenon, <1>0, <1>1 DEF Done
    <3>2. \A g \in Task : g # p => (Done(g) => Done(g)')
      BY Zenon, <1>3, <1>4, <1>5 DEF Done
    <3>3. \A g \in Task : g = p /\ exit_state[p] = "DEAD" => Done(g)'
      <4>1. \A s \in Task : s # t => ~(pc[s] = "reap" /\ target[s][2] = p)
        BY Zenon, <1>2 DEF Owners
      <4>2. exit_state[p] = "DEAD" => exit_state'[p] = "DEAD"
        BY Zenon, <1>5
      <4>3. QED
        BY Zenon, <1>3, <1>4, <4>1, <4>2 DEF Done
    <3>4. QED
      BY Zenon, <1>1, <3>1, <3>2, <3>3
  <2>2. CASE cutime' = cutime
    BY Zenon, <1>0, <2>1, <2>2, LeaderFacts DEF Times
  <2>3. CASE /\ p \in Leaders /\ exit_state[p] = "DEAD"
             /\ cutime' = [cutime EXCEPT ![leader[t]] = [u \in Task |-> added(u)]]
    <3>1. ~Done(leader[t]) /\ leader[t] # p
      <4>1. exit_state[leader[t]] # "DEAD"
        BY Zenon, <1>0, <1>1, <1>9 DEF Grouped
      <4>2. QED
        BY Zenon, <2>3, <4>1 DEF Done
    <3>2. /\ \A u \in Task : cutime'[leader[t]][u] = added(u)
          /\ \A g \in Task : g # leader[t] => cutime'[g] = cutime[g]
      <4> HIDE DEF added
      <4> QED
        BY Zenon, <1>0, <1>9, <2>3 DEF Typed
    <3>3. ASSUME NEW u \in Task
          PROVE  /\ added(u) \in {0, 1}
                 /\ added(u) = 1 => \/ cutime[leader[t]][u] = 1
                                    \/ cutime[p][u] = 1
                                    \/ leader[u] = p
                 /\ leader[u] = p => \A g \in Leaders : ~Done(g) => cutime[g][u] = 0
      <4>1. /\ cutime[leader[t]][u] \in {0, 1} /\ cutime[p][u] \in {0, 1}
            /\ ~(cutime[leader[t]][u] = 1 /\ cutime[p][u] = 1)
        BY Zenon, <1>0, <1>1, <1>9, <2>1, <2>3, <3>1 DEF Times
      <4>2. leader[u] = p => \A g \in Leaders : ~Done(g) => cutime[g][u] = 0
        BY ZenonT(60), <1>0, <2>1 DEF Times
      <4>3. leader[u] = p => cutime[leader[t]][u] = 0 /\ cutime[p][u] = 0
        BY Zenon, <1>9, <2>1, <2>3, <3>1, <4>2
      <4>4. QED
        BY SMTT(60), <4>1, <4>2, <4>3
    <3>4. \A u \in Task : \A g \in Task : cutime'[g][u] \in {0, 1}
      <4> SUFFICES ASSUME NEW u \in Task, NEW g \in Task PROVE cutime'[g][u] \in {0, 1}
        BY Zenon
      <4> HIDE DEF added
      <4>1. CASE g = leader[t]
        BY Zenon, <3>2, <3>3, <4>1
      <4>2. CASE g # leader[t]
        BY Zenon, <1>0, <3>2, <4>2 DEF Times
      <4>3. QED
        BY Zenon, <4>1, <4>2
    <3>5. ASSUME NEW u \in Task, NEW g \in Leaders, g # leader[t], ~Done(g)', cutime[g][u] = 1
          PROVE  added(u) # 1
      <4>1. g \in Task /\ ~Done(g) /\ g # p
        BY Zenon, <2>1, <2>3, <3>5, LeaderFacts
      <4>2. cutime[leader[t]][u] # 1 /\ cutime[p][u] # 1
        BY Zenon, <1>0, <1>9, <2>1, <2>3, <3>1, <3>5, <4>1 DEF Times
      <4>3. leader[u] # p
        BY <3>3, <3>5, <4>1
      <4>4. QED
        BY Zenon, <3>3, <4>2, <4>3
    <3>6. ASSUME NEW u \in Task, NEW g \in Leaders, NEW h \in Leaders, ~Done(g)', ~Done(h)',
                 cutime'[g][u] = 1, cutime'[h][u] = 1
          PROVE  g = h
      <4> HIDE DEF added
      <4>1. CASE g = leader[t] \/ h = leader[t]
        <5>1. ASSUME NEW x \in Leaders, x # leader[t], ~Done(x)', cutime'[x][u] = 1,
                     cutime'[leader[t]][u] = 1
              PROVE  FALSE
          BY ZenonT(60), <3>2, <3>5, <5>1, LeaderFacts
        <5>2. QED
          BY Zenon, <3>6, <4>1, <5>1
      <4>2. CASE g # leader[t] /\ h # leader[t]
        BY <1>0, <2>1, <3>2, <3>6, <4>2, LeaderFacts DEF Times
      <4>3. QED
        BY Zenon, <4>1, <4>2
    <3>7. ASSUME NEW u \in Task, NEW g \in Leaders, ~Done(leader[u])', ~Done(g)'
          PROVE  cutime'[g][u] = 0
      <4>1. g \in Task /\ ~Done(g) /\ leader[u] \in Task /\ ~Done(leader[u]) /\ leader[u] # p
        BY Zenon, <2>1, <2>3, <3>7, LeaderFacts
      <4>2. \A h \in Leaders : ~Done(h) => cutime[h][u] = 0
        BY Zenon, <1>0, <4>1 DEF Times
      <4>3. added(u) = 0
        <5>1. cutime[leader[t]][u] = 0 /\ cutime[p][u] = 0
          BY Zenon, <1>9, <2>1, <2>3, <3>1, <4>2
        <5>2. QED
          BY SMTT(60), <4>1, <5>1
      <4>4. QED
        <5> HIDE DEF added
        <5> QED
          BY Zenon, <3>2, <4>1, <4>2, <4>3
    <3>8. QED
      BY Zenon, <3>4, <3>6, <3>7 DEF Times
  <2>4. QED
    BY Zenon, <1>10, <2>2, <2>3
<1>20. ASSUME NEW q \in Task PROVE LifeStep(q)
  <2>1. CASE q # p
    BY Zenon, <1>3, <1>5, <1>13, <2>1, SameLife
  <2>2. CASE q = p /\ y = "ZOMBIE"
    BY Zenon, <1>2, <1>3, <2>2 DEF LifeStep, lifeOf
  <2>3. CASE q = p /\ y = "DEAD"
    BY Zenon, <1>2, <1>3, <1>13, <2>3 DEF LifeStep, lifeOf
  <2>4. QED
    BY Zenon, <1>5, <2>1, <2>2, <2>3
<1> QED
  BY Zenon, <1>11, <1>12, <1>14, <1>15, <1>16, <1>17, <1>18, <1>19, <1>20 DEF IInv

\* release_task(): the owner frees the task, and may become the owner of its
\* leader.
LEMMA ReleaseInv ==
    ASSUME NEW t \in Task, IInv, release_task(t)
    PROVE  IInv' /\ \A q \in Task : LifeStep(q)
<1>0. Typed /\ Control /\ Owned /\ Grouped /\ Family /\ Times /\ ParentsAlive /\ AutoReaped
  BY Zenon DEF IInv
<1>1. PICK p \in dead[t] :
         LET l == leader[p]
             last == /\ l # p
                     /\ Threads(p) \ {p} = {l}
                     /\ exit_state[l] = "ZOMBIE"
             zap == last /\ l \notin traced /\ autoreaps(l, parent[l])
         IN  /\ hashed' = hashed \ {p}
             /\ traced' = traced \ {p}
             /\ parent' = [parent EXCEPT ![p] = real_parent[p]]
             /\ exit_state' = IF zap THEN [exit_state EXCEPT ![l] = "DEAD"] ELSE exit_state
             /\ dead' = [dead EXCEPT ![t] = (@ \ {p}) \cup (IF zap THEN {l} ELSE {})]
  BY Zenon DEF release_task, __unhash_process
<1> DEFINE l == leader[p]
           zap == /\ l # p /\ Threads(p) \ {p} = {l} /\ exit_state[l] = "ZOMBIE"
                  /\ l \notin traced /\ autoreaps(l, parent[l])
<1>2. /\ p \in Task /\ l \in Task /\ l \in Leaders /\ exit_state[p] = "DEAD"
      /\ p \in hashed /\ Owners(p) = {t}
      /\ hashed \subseteq Task
  <2>1. p \in Task /\ t \in Owners(p) /\ exit_state[p] = "DEAD"
    BY Zenon, <1>0 DEF Typed, Owned, Owners
  <2>2. p \in hashed /\ \A s \in Owners(p) : s = t
    BY Zenon, <1>0, <2>1 DEF Owned
  <2>3. l \in Task /\ l \in Leaders /\ hashed \subseteq Task
    BY Zenon, <1>0, <2>1, LeaderFacts, TreeFacts DEF Typed
  <2>4. QED
    BY Zenon, <2>1, <2>2, <2>3
<1>3. /\ UNCHANGED <<tree, pc, exiting, real_parent, cloned, todo, target, cutime>>
      /\ pc[t] = "release"
      /\ \A s \in Task : pc[s] # "claim"
  BY Zenon DEF release_task, waitVars, histVars, WriteLock, Reading
<1>4. /\ hashed' = hashed \ {p}
      /\ traced' = traced \ {p}
      /\ parent' = [parent EXCEPT ![p] = real_parent[p]]
      /\ \A q \in Task : q # p => parent'[q] = parent[q]
  BY Zenon, <1>0, <1>1 DEF Typed
<1>5. /\ exit_state' \in [Task -> {"0", "ZOMBIE", "DEAD", "TRACE"}]
      /\ \A q \in Task : ~(zap /\ q = l) => exit_state'[q] = exit_state[q]
      /\ zap => exit_state'[l] = "DEAD"
  BY ZenonT(60), <1>0, <1>1, <1>2 DEF Typed
<1>6. /\ dead' \in [Task -> SUBSET Task]
      /\ \A s \in Task : s # t => dead'[s] = dead[s]
      /\ dead'[t] = (dead[t] \ {p}) \cup (IF zap THEN {l} ELSE {})
  <2>1. dead' = [dead EXCEPT ![t] = (dead[t] \ {p}) \cup (IF zap THEN {l} ELSE {})]
    BY Zenon, <1>1
  <2>2. (dead[t] \ {p}) \cup (IF zap THEN {l} ELSE {}) \in SUBSET Task
    BY Zenon, <1>0, <1>2 DEF Typed
  <2> HIDE DEF zap
  <2>3. QED
    BY Zenon, <1>0, <2>1, <2>2 DEF Typed
<1>7. zap => l # p /\ exit_state[l] = "ZOMBIE" /\ l \in hashed /\ l \notin traced
             /\ Threads(p) \ {p} = {l} /\ Owners(l) = {}
  BY Zenon, <1>0, <1>2 DEF Control, Owned
<1>8. Typed'
  BY Zenon, <1>0, <1>2, <1>3, <1>4, <1>5, <1>6 DEF Typed
<1>9. AutoReaped'
  <2>1. ASSUME NEW q \in hashed', exit_state'[q] = "ZOMBIE", q \notin traced'
        PROVE  /\ q \in Leaders
               /\ thread_group_empty(q)' /\ q \notin cloned
                  => leader[real_parent[q]] \notin tree.ignoring
    <3>1. q \in hashed /\ q # p /\ q \in Task /\ exit_state[q] = "ZOMBIE" /\ q \notin traced
      BY Zenon, <1>2, <1>4, <1>5, <2>1
    <3>2. /\ q \in Leaders /\ parent[q] = real_parent[q]
          /\ thread_group_empty(q) /\ q \notin cloned
             => leader[real_parent[q]] \notin tree.ignoring
      BY Zenon, <1>0, <3>1 DEF AutoReaped, ParentsAlive
    <3>3. CASE leader[p] # q
      BY Zenon, <1>4, <3>2, <3>3 DEF thread_group_empty, Threads, SameGroup, Leaders
    <3>4. CASE leader[p] = q
      <4>1. ~zap
        BY Zenon, <1>5, <2>1, <3>4
      <4>2. Threads(q)' = {q} => Threads(p) \ {p} = {q}
        BY Zenon, <1>2, <1>4, <3>1, <3>2, <3>4 DEF Threads, SameGroup, Leaders
      <4>3. QED
        BY Zenon, <3>1, <3>2, <3>4, <4>1, <4>2 DEF thread_group_empty, autoreaps
    <3>5. QED
      BY Zenon, <3>3, <3>4
  <2>2. QED
    BY Zenon, <1>3, <2>1 DEF AutoReaped
<1> HIDE DEF zap
<1>10. Control'
  <2>1. ASSUME NEW s \in Task
        PROVE  /\ exit_state'[s] # "0" => s \in exiting' /\ pc'[s] \in {"release", "dead"}
               /\ pc'[s] \in Marked => s \in exiting'
               /\ dead'[s] # {} => pc'[s] = "release"
               /\ pc'[s] \in {"claim", "reap"} => target'[s] \in BOOLEAN \X Task
    BY ZenonT(60), <1>0, <1>3, <1>5, <1>6, <1>7 DEF Control
  <2>2. \A q \in Task : exit_state'[q] \in {"ZOMBIE", "TRACE"} => q \in hashed'
    BY ZenonT(60), <1>0, <1>2, <1>4, <1>5, <1>7 DEF Control
  <2>3. \A q \in tree.tasks \ hashed' : exit_state'[q] = "DEAD"
    <3>1. ASSUME NEW q \in tree.tasks, q \notin hashed' PROVE exit_state'[q] = "DEAD"
      <4>1. q \in Task /\ exit_state[q] = "DEAD"
        BY Zenon, <1>0, <1>2, <1>4, <3>1, TreeFacts DEF Control
      <4>2. QED
        BY Zenon, <1>5, <4>1
    <3>2. QED
      BY Zenon, <3>1
  <2>4. QED
    BY ZenonT(60), <1>0, <1>3, <2>1, <2>2, <2>3 DEF Control
<1>11. /\ Owners(p)' = {}
       /\ zap => Owners(l)' = {t}
       /\ \A q \in Task : q # p /\ ~(zap /\ q = l) => Owners(q)' = Owners(q)
  <2>1. Owners(p)' = {}
    BY Zenon, <1>2, <1>3, <1>6, <1>7 DEF Owners
  <2>2. zap => Owners(l)' = {t}
    <3>1. ASSUME zap PROVE \A s \in Task : s \in Owners(l)' <=> s = t
      <4>1. \A s \in Task : l \notin dead[s] /\ ~(pc[s] = "reap" /\ target[s][2] = l)
        BY Zenon, <1>7, <3>1 DEF Owners
      <4>2. QED
        BY Zenon, <1>3, <1>6, <3>1, <4>1 DEF Owners
    <3>2. Owners(l)' \subseteq Task
      BY Zenon DEF Owners
    <3>3. QED
      BY Zenon, <3>1, <3>2
  <2>3. \A q \in Task : q # p /\ ~(zap /\ q = l) => Owners(q)' = Owners(q)
    BY Zenon, <1>3, <1>6 DEF Owners
  <2>4. QED
    BY Zenon, <2>1, <2>2, <2>3
<1>12. Owned'
  <2>1. \A s \in Task : \A q \in dead'[s] : exit_state'[q] = "DEAD"
    <3>1. ASSUME NEW s \in Task, NEW q \in dead'[s] PROVE exit_state'[q] = "DEAD"
      <4>1. q \in Task
        BY Zenon, <1>6
      <4>2. (zap /\ q = l) \/ q \in dead[s]
        BY Zenon, <1>6
      <4>3. QED
        BY Zenon, <1>0, <1>5, <4>1, <4>2 DEF Owned
    <3>2. QED
      BY Zenon, <3>1
  <2>2. \A q \in Task : \A r, s \in Owners(q)' : r = s
    BY <1>0, <1>11 DEF Owned
  <2>3. \A q \in Task : Owners(q)' # {} => q \in hashed' /\ exit_state'[q] \in {"DEAD", "TRACE"}
    BY ZenonT(60), <1>0, <1>4, <1>5, <1>7, <1>11 DEF Owned
  <2>4. \A q \in hashed' : exit_state'[q] \in {"DEAD", "TRACE"} => Owners(q)' # {}
    BY SMTT(60), <1>0, <1>2, <1>4, <1>5, <1>11 DEF Owned
  <2>5. \A q \in Task : exit_state'[q] = "TRACE" => q \in Leaders
    BY Zenon, <1>0, <1>2, <1>5 DEF Owned
  <2>6. QED
    BY Zenon, <2>1, <2>2, <2>3, <2>4, <2>5 DEF Owned
<1>13. Grouped'
  <2>1. \A q : Threads(q)' = Threads(q) \ {p}
    BY Zenon, <1>4 DEF Threads
  <2>2. ASSUME NEW q \in hashed' PROVE leader[q] \in hashed'
    <3>1. q \in hashed /\ q # p /\ q \in Task /\ leader[q] \in hashed
      BY Zenon, <1>0, <1>2, <1>4 DEF Grouped
    <3>2. leader[q] # p
      BY Zenon, <1>0, <1>2, <3>1, LeaderFacts DEF Grouped, Threads, SameGroup, Leaders
    <3>3. QED
      BY Zenon, <1>4, <3>1, <3>2
  <2>3. zap => Threads(l) \ {p} \subseteq {l}
    <3>1. Threads(l) = Threads(p)
      BY Zenon, <1>2, LeaderFacts DEF Threads, SameGroup
    <3>2. QED
      BY Zenon, <1>7, <3>1
  <2>4. \A q \in Leaders : exit_state'[q] \in {"DEAD", "TRACE"} => Threads(q) \ {p} \subseteq {q}
    BY Zenon, <1>0, <1>5, <2>3, LeaderFacts DEF Grouped
  <2>5. QED
    BY ZenonT(60), <1>3, <2>1, <2>2, <2>4 DEF Grouped
<1>14. Family'
  BY Zenon, <1>0, <1>3, <1>4 DEF Family
<1>15. ParentsAlive'
  <2>1. ASSUME NEW q \in hashed'
        PROVE  /\ real_parent[q] \in hashed' /\ exit_state'[real_parent[q]] = "0"
               /\ parent[q] \in hashed' /\ exit_state'[parent[q]] = "0"
               /\ q \notin traced' => parent[q] = real_parent[q]
               /\ q # p /\ q \in Task
    <3>1. q \in hashed /\ q # p /\ q \in Task
      BY Zenon, <1>2, <1>4
    <3>2. /\ real_parent[q] \in hashed /\ exit_state[real_parent[q]] = "0"
          /\ parent[q] \in hashed /\ exit_state[parent[q]] = "0"
          /\ q \notin traced => parent[q] = real_parent[q]
      BY Zenon, <1>0, <3>1 DEF ParentsAlive
    <3>3. QED
      BY Zenon, <1>2, <1>4, <1>5, <1>7, <3>1, <3>2
  <2>2. QED
    BY <1>3, <1>4, <2>1 DEF ParentsAlive
<1>16. Times'
  <2>1. \A g \in Task : ~Done(g)' => ~Done(g)
    BY Zenon, <1>3, <1>5 DEF Done
  <2>2. QED
    BY Zenon, <1>0, <1>3, <2>1, LeaderFacts DEF Times
<1>17. ASSUME NEW q \in Task PROVE LifeStep(q)
  <2>1. CASE q = p
    BY Zenon, <1>2, <1>4, <2>1 DEF LifeStep, lifeOf
  <2>2. CASE zap /\ q = l
    BY Zenon, <1>4, <1>5, <1>7, <2>2 DEF LifeStep, lifeOf
  <2>3. CASE q # p /\ ~(zap /\ q = l)
    BY <1>4, <1>5, <1>11, <2>3, SameLife
  <2>4. QED
    BY Zenon, <2>1, <2>2, <2>3
<1> QED
  BY Zenon, <1>8, <1>9, <1>10, <1>12, <1>13, <1>14, <1>15, <1>16, <1>17 DEF IInv

\* find_new_reaper(): a task of the table that is not exiting, and no deeper in
\* the tree than the one that dies.
LEMMA ReaperFacts ==
    ASSUME NEW t \in hashed, Typed, Control, Grouped, Family, ParentsAlive,
           t \in exiting, NEW reaper \in find_new_reaper(t)
    PROVE  /\ reaper \in hashed /\ reaper \notin exiting
           /\ tree.depth[leader[reaper]] <= tree.depth[leader[t]]
<1> DEFINE depth(r) == tree.depth[leader[r]]
           passed(r) == r # init_task /\ (leader[r] \notin tree.subreaper
                                          \/ find_alive_thread(r) = {})
           closed(S) == /\ real_parent[t] \in S
                        /\ \A r \in S : passed(r) => real_parent[r] \in S
           visited == {r \in hashed : \A S \in SUBSET hashed : closed(S) => r \in S}
           ends == {r \in visited : ~passed(r)}
           D == {r \in hashed : depth(r) < depth(t)}
<1>1. hashed \subseteq Task /\ init_task \in hashed /\ init_task \notin exiting
  BY Zenon, TreeFacts, AliveFacts DEF Typed, Control
<1>2. \A r \in Task : depth(r) \in Nat
  BY Zenon, TreeFacts, ExitAssumption
<1>3. CASE find_alive_thread(t) # {}
  <2>1. reaper \in find_alive_thread(t)
    BY Zenon, <1>3 DEF find_new_reaper
  <2>2. reaper \in hashed /\ reaper \notin exiting /\ leader[reaper] = leader[t]
    BY Zenon, <2>1 DEF find_alive_thread, Threads, SameGroup
  <2>3. QED
    BY SMTT(60), <1>1, <1>2, <2>2
<1>4. CASE find_alive_thread(t) = {}
  <2>1. leader[t] # init_task
    BY Zenon, <1>1, <1>4, ExitAssumption DEF find_alive_thread, Threads, SameGroup
  <2>2. real_parent[t] \in D /\ 0 < depth(t)
    BY <1>1, <1>2, <2>1 DEF Family, ParentsAlive
  <2>3. ASSUME NEW r \in D PROVE real_parent[r] \in D
    <3>1. r \in hashed /\ real_parent[r] \in hashed /\ depth(r) < depth(t)
      BY Zenon DEF ParentsAlive
    <3>2. CASE leader[r] = init_task
      <4>1. real_parent[r] = init_task
        BY Zenon, <3>1, <3>2 DEF Family
      <4>2. depth(init_task) = 0
        BY Zenon, TreeFacts, ExitAssumption
      <4>3. QED
        BY Zenon, <2>2, <3>1, <4>1, <4>2
    <3>3. CASE leader[r] # init_task
      BY <1>1, <1>2, <3>1, <3>3 DEF Family
    <3>4. QED
      BY Zenon, <3>2, <3>3
  <2>4. closed(D) /\ D \in SUBSET hashed
    BY Zenon, <1>1, <2>2, <2>3
  <2>5. visited \subseteq D
    <3> HIDE DEF D, closed
    <3> QED
      BY Zenon, <2>4
  <2>6. reaper \in UNION {IF r = init_task THEN {r} ELSE find_alive_thread(r) : r \in ends}
    BY Zenon, <1>4 DEF find_new_reaper
  <2>7. PICK r \in D : reaper \in IF r = init_task THEN {r} ELSE find_alive_thread(r)
    BY Zenon, <2>5, <2>6
  <2>8. reaper \in hashed /\ reaper \notin exiting /\ leader[reaper] = leader[r]
    BY Zenon, <1>1, <2>7 DEF find_alive_thread, Threads, SameGroup
  <2>9. QED
    BY <1>1, <1>2, <2>7, <2>8
<1> QED
  BY Zenon, <1>3, <1>4

\* exit_notify(): the dying task leaves its children and tracees to others, and
\* owns those of them, and itself, that nobody is to wait for.
LEMMA NotifyInv ==
    ASSUME NEW t \in tree.tasks, IInv, exit_notify(t)
    PROVE  IInv' /\ \A q \in Task : LifeStep(q)
<1> DEFINE tracees == {p \in hashed \cap traced : parent[p] = t}
           kids == {p \in Leaders \cap hashed : real_parent[p] = t}
           adopted == {p \in hashed : leader[p] \in kids}
           trc == traced \ tracees
           rp(r) == [p \in Task |-> IF p \in adopted THEN r ELSE real_parent[p]]
           par(r) == [p \in Task |-> IF p \in tracees \/ p \in adopted \ trc
                                     THEN rp(r)[p] ELSE parent[p]]
           gone == untracedDead(t, tracees)
           away(r) == IF SameGroup(r, t) THEN {} ELSE
                      {p \in kids \ gone : exit_state[p] # "DEAD"}
           told(r) == {p \in away(r) \ trc :
                          exit_state[p] = "ZOMBIE" /\ thread_group_empty(p)}
           reaped(r) == IF leader[r] \in tree.ignoring THEN told(r) ELSE {}
           all(r) == gone \cup reaped(r) \cup (IF autoreap(t, trc) THEN {t} ELSE {})
<1>0. /\ Typed /\ Control /\ Owned /\ Grouped /\ Family /\ Times /\ ParentsAlive /\ AutoReaped
      /\ t \in Task /\ hashed \subseteq Task
  BY Zenon, TreeFacts DEF IInv, Typed
<1>1. /\ pc[t] \in {"exit", "exit_last"} /\ WriteLock
      /\ UNCHANGED <<tree, exit_code, hashed, exiting, waitVars, histVars>>
  BY Zenon DEF exit_notify
<1>2. PICK reaper \in find_new_reaper(t) :
        /\ real_parent' = rp(reaper)
        /\ parent' = par(reaper)
        /\ traced' = trc
        /\ cloned' = cloned \ away(reaper)
        /\ exit_state' = [p \in Task |-> IF p \in all(reaper) THEN "DEAD"
                                         ELSE IF p = t THEN "ZOMBIE"
                                         ELSE exit_state[p]]
        /\ dead' = [dead EXCEPT ![t] = all(reaper)]
        /\ pc' = [p \in Task |-> IF p = t THEN "release"
                                 ELSE IF p \in tracees /\ pc[p] = "tstop"
                                 THEN "user" ELSE pc[p]]
  BY Zenon DEF exit_notify
<1>3. /\ t \in hashed /\ t \in exiting /\ exit_state[t] = "0" /\ dead[t] = {} /\ t # init_task
      /\ UNCHANGED <<todo, target, cutime>>
      /\ \A s \in Task : pc[s] # "claim"
  BY Zenon, <1>0, <1>1, AliveFacts DEF Control, waitVars, histVars, WriteLock, Reading
<1>4. /\ reaper \in hashed /\ reaper \notin exiting
      /\ tree.depth[leader[reaper]] <= tree.depth[leader[t]]
  BY ZenonT(60), <1>0, <1>3, ReaperFacts
<1>5. reaper \in Task /\ reaper # t /\ exit_state[reaper] = "0"
  BY Zenon, <1>0, <1>3, <1>4, AliveFacts
<1>6. ASSUME NEW q \in all(reaper)
      PROVE  /\ q \in hashed /\ (q = t \/ exit_state[q] = "ZOMBIE")
             /\ q \in Leaders => Threads(q) = {q}
  <2>1. CASE q \in gone
    BY Zenon, <2>1 DEF untracedDead, thread_group_empty
  <2>2. CASE q \in reaped(reaper)
    BY Zenon, <2>2 DEF thread_group_empty
  <2>3. CASE q = t /\ autoreap(t, trc)
    BY ZenonT(60), <1>3, <2>3 DEF autoreap, thread_group_empty
  <2>4. QED
    BY Zenon, <2>1, <2>2, <2>3
<1>7. /\ exit_state' \in [Task -> {"0", "ZOMBIE", "DEAD", "TRACE"}]
      /\ \A q \in Task : exit_state'[q] = IF q \in all(reaper) THEN "DEAD"
                                          ELSE IF q = t THEN "ZOMBIE"
                                          ELSE exit_state[q]
  <2> HIDE DEF all
  <2> QED
    BY Zenon, <1>0, <1>2 DEF Typed
<1>8. /\ pc' \in [Task -> PC] /\ pc'[t] = "release"
      /\ \A s \in Task : s # t => pc'[s] = pc[s] \/ (pc[s] = "tstop" /\ pc'[s] = "user")
  BY ZenonT(60), <1>0, <1>2 DEF Typed, PC
<1>9. /\ dead' \in [Task -> SUBSET Task] /\ dead'[t] = all(reaper)
      /\ \A s \in Task : s # t => dead'[s] = dead[s]
  <2>1. all(reaper) \in SUBSET Task
    BY Zenon, <1>0, <1>6
  <2> HIDE DEF all
  <2>2. QED
    BY Zenon, <1>0, <1>2, <2>1 DEF Typed
<1>10. \A q \in Task : real_parent'[q] = IF q \in adopted THEN reaper ELSE real_parent[q]
  BY Zenon, <1>2
<1>11. \A q \in Task : parent'[q] = IF q \in tracees \/ q \in adopted \ trc
                                    THEN real_parent'[q] ELSE parent[q]
  <2> HIDE DEF adopted, tracees, trc, rp
  <2> QED
    BY Zenon, <1>2
<1>12. /\ real_parent' \in [Task -> Task] /\ parent' \in [Task -> Task]
       /\ traced' = trc /\ cloned' = cloned \ away(reaper)
  <2>1. rp(reaper) \in [Task -> Task]
    BY Zenon, <1>0, <1>5 DEF Typed
  <2> HIDE DEF adopted, tracees, trc, rp
  <2>2. par(reaper) \in [Task -> Task]
    BY Zenon, <1>0, <2>1 DEF Typed
  <2>3. QED
    BY Zenon, <1>2, <2>1, <2>2
<1>13. \A q \in hashed : /\ q \in adopted <=> leader[q] \in adopted
                         /\ q \in adopted <=> real_parent[q] = t
                         /\ leader[q] \in hashed /\ leader[q] \in Leaders
  BY ZenonT(60), <1>0, LeaderFacts DEF Grouped, Family
<1>14. /\ t \notin adopted /\ t \notin kids
       /\ init_task \notin adopted /\ \A q \in adopted : leader[q] # init_task
  <2>1. real_parent[t] # t
    <3>1. CASE leader[t] = init_task
      BY Zenon, <1>0, <1>3, <3>1 DEF Family
    <3>2. CASE leader[t] # init_task
      <4>1. tree.depth[leader[real_parent[t]]] < tree.depth[leader[t]]
        BY ZenonT(60), <1>0, <1>3, <3>2 DEF Family
      <4>2. tree.depth[leader[t]] \in Nat
        BY Zenon, <1>0, TreeFacts, LeaderFacts
      <4>3. QED
        BY SMTT(60), <4>1, <4>2
    <3>3. QED
      BY Zenon, <3>1, <3>2
  <2>2. real_parent[init_task] # t
    BY Zenon, <1>0, <1>3 DEF Family
  <2>3. QED
    BY Zenon, <1>0, <1>3, <2>1, <2>2, <1>13, ExitAssumption
<1>15. Typed'
  BY Zenon, <1>0, <1>1, <1>3, <1>7, <1>8, <1>9, <1>12 DEF Typed
<1>16. Family'
  <2>1. real_parent'[init_task] = init_task
    BY Zenon, <1>0, <1>10, <1>14, ExitAssumption DEF Family
  <2>2. ASSUME NEW q \in hashed
        PROVE  /\ real_parent'[q] = real_parent'[leader[q]]
               /\ leader[q] # init_task
                  => tree.depth[leader[real_parent'[q]]] < tree.depth[leader[q]]
    <3>1. /\ q \in Task /\ leader[q] \in Task
          /\ real_parent[q] = real_parent[leader[q]]
          /\ leader[q] # init_task => tree.depth[leader[real_parent[q]]] < tree.depth[leader[q]]
      BY Zenon, <1>0, LeaderFacts DEF Family
    <3>2. CASE q \in adopted
      <4>1. real_parent'[q] = reaper /\ real_parent'[leader[q]] = reaper /\ real_parent[q] = t
        BY Zenon, <1>10, <1>13, <3>1, <3>2
      <4>2. /\ tree.depth[leader[t]] \in Nat /\ tree.depth[leader[q]] \in Nat
            /\ tree.depth[leader[reaper]] \in Nat
        BY Zenon, <1>0, <1>5, <3>1, TreeFacts, LeaderFacts
      <4> HIDE DEF adopted
      <4>3. QED
        BY <1>4, <3>1, <4>1, <4>2
    <3>3. CASE q \notin adopted
      <4> HIDE DEF adopted
      <4> QED
        BY Zenon, <1>10, <1>13, <3>1, <3>3
    <3>4. QED
      BY ZenonT(60), <3>2, <3>3
  <2>3. QED
    BY Zenon, <1>1, <2>1, <2>2 DEF Family
<1>17. ParentsAlive'
  <2>1. \A r \in hashed : r # t /\ exit_state[r] = "0" => exit_state'[r] = "0"
    <3> HIDE DEF all
    <3> QED
      BY Zenon, <1>0, <1>6, <1>7
  <2>2. ASSUME NEW q \in hashed
        PROVE  /\ real_parent'[q] \in hashed /\ exit_state'[real_parent'[q]] = "0"
               /\ parent'[q] \in hashed /\ exit_state'[parent'[q]] = "0"
               /\ q \notin trc => parent'[q] = real_parent'[q]
    <3>1. /\ q \in Task
          /\ real_parent[q] \in hashed /\ exit_state[real_parent[q]] = "0"
          /\ parent[q] \in hashed /\ exit_state[parent[q]] = "0"
          /\ q \notin traced => parent[q] = real_parent[q]
      BY Zenon, <1>0 DEF ParentsAlive
    <3>2. q \in adopted <=> real_parent[q] = t
      BY Zenon, <1>13
    <3>3. q \in tracees <=> q \in traced /\ parent[q] = t
      BY Zenon
    <3>4. q \in trc <=> q \in traced /\ q \notin tracees
      BY Zenon
    <3> HIDE DEF adopted, tracees, trc
    <3>5. real_parent'[q] \in hashed /\ exit_state'[real_parent'[q]] = "0"
      BY Zenon, <1>4, <1>5, <1>10, <2>1, <3>1, <3>2
    <3>6. parent'[q] \in hashed /\ exit_state'[parent'[q]] = "0"
      BY Zenon, <1>11, <2>1, <3>1, <3>2, <3>3, <3>4, <3>5
    <3>7. q \notin trc => parent'[q] = real_parent'[q]
      BY Zenon, <1>10, <1>11, <3>1, <3>2, <3>3, <3>4
    <3>8. QED
      BY Zenon, <3>5, <3>6, <3>7
  <2>3. QED
    BY Zenon, <1>1, <1>12, <2>2 DEF ParentsAlive
<1>18. AutoReaped'
  <2>1. \A q : thread_group_empty(q)' = thread_group_empty(q)
    BY Zenon, <1>1 DEF thread_group_empty, Threads
  <2>2. ASSUME NEW q \in hashed, exit_state'[q] = "ZOMBIE", q \notin trc
        PROVE  /\ q \in Leaders
               /\ thread_group_empty(q) /\ q \notin cloned'
                  => leader[real_parent'[q]] \notin tree.ignoring
    <3>1. q \in Task /\ q \notin all(reaper) /\ (q = t \/ exit_state[q] = "ZOMBIE")
      <4> HIDE DEF all, trc
      <4> QED
        BY Zenon, <1>0, <1>7, <2>2
    <3>2. CASE q = t
      <4>1. ~autoreap(t, trc)
        BY Zenon, <3>1, <3>2
      <4>2. t \notin away(reaper)
        BY Zenon, <1>14
      <4> HIDE DEF all, trc, adopted, away
      <4>3. real_parent'[t] = real_parent[t] /\ (t \notin cloned' => t \notin cloned)
        BY Zenon, <1>0, <1>10, <1>12, <1>14, <4>2
      <4>4. QED
        BY Zenon, <2>2, <3>2, <4>1, <4>3 DEF autoreap, autoreaps
    <3>3. CASE q # t /\ q \notin adopted
      <4>1. exit_state[q] = "ZOMBIE" /\ real_parent'[q] = real_parent[q]
        BY Zenon, <1>10, <3>1, <3>3
      <4>2. q \notin kids
        BY Zenon, <3>3 DEF Leaders
      <4>3. q \notin cloned' => q \notin cloned
        BY Zenon, <1>12, <4>2
      <4>4. CASE q \notin traced
        BY ZenonT(60), <1>0, <4>1, <4>3, <4>4 DEF AutoReaped
      <4>5. CASE q \in traced
        <5>1. q \in tracees /\ q \notin untracedDead(t, tracees)
          BY Zenon, <2>2, <3>1, <4>5
        <5>2. QED
          BY Zenon, <4>1, <4>3, <5>1 DEF untracedDead, autoreaps
      <4>6. QED
        BY Zenon, <4>4, <4>5
    <3>4. CASE q # t /\ q \in adopted
      <4>1. exit_state[q] = "ZOMBIE" /\ real_parent'[q] = reaper /\ real_parent[q] = t
        BY Zenon, <1>10, <1>13, <3>1, <3>4
      <4>2. q \notin traced \/ q \in tracees
        BY Zenon, <2>2
      <4>3. q \notin gone /\ q \notin reaped(reaper)
        BY Zenon, <3>1
      <4>4. q \in Leaders
        <5>1. CASE q \notin traced
          BY Zenon, <1>0, <4>1, <5>1 DEF AutoReaped
        <5>2. CASE q \in tracees
          BY Zenon, <4>1, <4>3, <5>2 DEF untracedDead
        <5>3. QED
          BY Zenon, <4>2, <5>1, <5>2
      <4>5. q \in kids
        BY Zenon, <4>1, <4>4
      <4>6. CASE SameGroup(reaper, t)
        <5>1. leader[reaper] = leader[t] /\ cloned' = cloned
          BY Zenon, <1>12, <4>6 DEF SameGroup
        <5>2. CASE q \notin traced
          BY Zenon, <1>0, <4>1, <4>4, <5>1, <5>2 DEF AutoReaped
        <5>3. CASE q \in tracees
          BY Zenon, <4>1, <4>3, <4>4, <5>1, <5>3 DEF untracedDead, SameGroup
        <5>4. QED
          BY Zenon, <4>2, <5>2, <5>3
      <4>7. CASE ~SameGroup(reaper, t)
        <5>1. q \in away(reaper)
          BY Zenon, <4>1, <4>3, <4>5, <4>7
        <5>2. thread_group_empty(q) => q \in told(reaper)
          BY Zenon, <2>2, <4>1, <5>1
        <5>3. thread_group_empty(q) => leader[reaper] \notin tree.ignoring
          BY ZenonT(60), <4>3, <5>2
        <5>4. QED
          BY Zenon, <4>1, <4>4, <5>3
      <4>8. QED
        BY Zenon, <4>6, <4>7
    <3>5. QED
      BY Zenon, <3>2, <3>3, <3>4
  <2>3. QED
    BY Zenon, <1>1, <1>12, <2>1, <2>2 DEF AutoReaped
<1> HIDE DEF all, tracees, kids, adopted, trc, rp, par, gone, away, told, reaped
<1>19. /\ \A q \in all(reaper) : q \in Task /\ Owners(q) = {} /\ Owners(q)' = {t}
       /\ \A q \in Task : q \notin all(reaper) => Owners(q)' = Owners(q)
  <2>1. \A q \in all(reaper) : q \in Task /\ Owners(q) = {}
    BY Zenon, <1>0, <1>3, <1>6 DEF Owned
  <2>2. ASSUME NEW q \in Task, NEW s \in Task, s # t
        PROVE  s \in Owners(q)' <=> s \in Owners(q)
    BY Zenon, <1>3, <1>8, <1>9, <2>2 DEF Owners
  <2>3. \A q \in Task : t \in Owners(q)' <=> q \in all(reaper)
    BY Zenon, <1>0, <1>8, <1>9 DEF Owners
  <2>4. \A q \in Task : t \notin Owners(q)
    BY Zenon, <1>1, <1>3 DEF Owners
  <2>5. \A q : Owners(q) \subseteq Task /\ Owners(q)' \subseteq Task
    BY Zenon DEF Owners
  <2>6. ASSUME NEW q \in all(reaper) PROVE Owners(q)' = {t}
    BY Zenon, <1>0, <2>1, <2>2, <2>3, <2>5
  <2>7. ASSUME NEW q \in Task, q \notin all(reaper) PROVE Owners(q)' = Owners(q)
    <3>1. \A s \in Task : s \in Owners(q)' <=> s \in Owners(q)
      BY Zenon, <2>2, <2>3, <2>4, <2>7
    <3>2. QED
      BY Zenon, <2>5, <3>1
  <2>8. QED
    BY Zenon, <2>1, <2>6, <2>7
<1>20. Control'
  <2>1. ASSUME NEW s \in Task
        PROVE  /\ exit_state'[s] # "0" => s \in exiting' /\ pc'[s] \in {"release", "dead"}
               /\ pc'[s] \in Marked => s \in exiting'
               /\ dead'[s] # {} => pc'[s] = "release"
               /\ pc'[s] \in {"claim", "reap"} => target'[s] \in BOOLEAN \X Task
    <3>1. CASE s = t
      BY Zenon, <1>1, <1>3, <1>8, <3>1
    <3>2. CASE s # t
      <4>1. exit_state'[s] # "0" => exit_state[s] # "0"
        BY Zenon, <1>6, <1>7, <3>2
      <4>2. dead'[s] = dead[s] /\ target'[s] = target[s] /\ exiting' = exiting
        BY Zenon, <1>1, <1>3, <1>9, <3>2
      <4>3. pc'[s] = pc[s] \/ (pc[s] = "tstop" /\ pc'[s] = "user")
        BY Zenon, <1>8, <3>2
      <4>4. QED
        BY Zenon, <1>0, <4>1, <4>2, <4>3 DEF Control
    <3>3. QED
      BY Zenon, <3>1, <3>2
  <2>2. \A q \in Task : exit_state'[q] \in {"ZOMBIE", "TRACE"} => q \in hashed'
    BY ZenonT(60), <1>0, <1>1, <1>3, <1>7 DEF Control
  <2>3. \A q \in tree.tasks \ hashed : exit_state'[q] = "DEAD"
    BY Zenon, <1>0, <1>3, <1>7, TreeFacts DEF Control
  <2>4. pc'[init_task] \notin Exiting /\ init_task \notin exiting'
    BY Zenon, <1>0, <1>1, <1>3, <1>8, ExitAssumption DEF Control
  <2>5. QED
    BY Zenon, <1>1, <2>1, <2>2, <2>3, <2>4 DEF Control
<1>21. Owned'
  <2>1. \A s \in Task : \A q \in dead'[s] : exit_state'[q] = "DEAD"
    <3>1. ASSUME NEW s \in Task, NEW q \in dead'[s] PROVE exit_state'[q] = "DEAD"
      <4>1. q \in Task
        BY Zenon, <1>9
      <4>2. CASE s = t
        BY Zenon, <1>7, <1>9, <4>1, <4>2
      <4>3. CASE s # t
        <5>1. exit_state[q] = "DEAD" /\ q # t
          BY Zenon, <1>0, <1>3, <1>9, <4>3 DEF Owned
        <5>2. QED
          BY Zenon, <1>7, <4>1, <5>1
      <4>4. QED
        BY Zenon, <4>2, <4>3
    <3>2. QED
      BY Zenon, <3>1
  <2>2. ASSUME NEW q \in Task PROVE \A r, s \in Owners(q)' : r = s
    <3>1. CASE q \in all(reaper)
      BY Zenon, <1>19, <3>1
    <3>2. CASE q \notin all(reaper)
      BY SMTT(60), <1>0, <1>19, <3>2 DEF Owned
    <3>3. QED
      BY Zenon, <3>1, <3>2
  <2>3. ASSUME NEW q \in Task, Owners(q)' # {}
        PROVE  q \in hashed /\ exit_state'[q] \in {"DEAD", "TRACE"}
    <3>1. CASE q \in all(reaper)
      BY Zenon, <1>6, <1>7, <3>1
    <3>2. CASE q \notin all(reaper)
      BY Zenon, <1>0, <1>3, <1>7, <1>19, <2>3, <3>2 DEF Owned
    <3>3. QED
      BY Zenon, <3>1, <3>2
  <2>4. ASSUME NEW q \in hashed, exit_state'[q] \in {"DEAD", "TRACE"} PROVE Owners(q)' # {}
    <3>1. CASE q \in all(reaper)
      BY Zenon, <1>19, <3>1
    <3>2. CASE q \notin all(reaper)
      BY ZenonT(60), <1>0, <1>7, <1>19, <2>4, <3>2 DEF Owned
    <3>3. QED
      BY ZenonT(60), <3>1, <3>2
  <2>5. \A q \in Task : exit_state'[q] = "TRACE" => q \in Leaders
    BY Zenon, <1>0, <1>7 DEF Owned
  <2>6. QED
    BY Zenon, <1>1, <2>1, <2>2, <2>3, <2>4, <2>5 DEF Owned
<1>22. Grouped'
  <2>1. \A q : Threads(q)' = Threads(q)
    BY ZenonT(60), <1>1 DEF Threads
  <2>2. \A q \in Leaders : exit_state'[q] \in {"DEAD", "TRACE"} => Threads(q) \subseteq {q}
    BY ZenonT(60), <1>0, <1>6, <1>7, LeaderFacts DEF Grouped
  <2>3. \A s \in Task : pc'[s] # "claim"
    BY Zenon, <1>3, <1>8
  <2>4. QED
    BY Zenon, <1>0, <1>1, <2>1, <2>2, <2>3 DEF Grouped
<1>23. Times'
  <2>1. \A g \in Task : ~Done(g)' => ~Done(g)
    BY ZenonT(60), <1>3, <1>7, <1>8 DEF Done
  <2>2. QED
    BY Zenon, <1>0, <1>3, <2>1, LeaderFacts DEF Times
<1>24. ASSUME NEW q \in Task PROVE LifeStep(q)
  <2>1. CASE q = t
    BY Zenon, <1>1, <1>3, <1>7, <2>1 DEF LifeStep, lifeOf
  <2>2. CASE q # t /\ q \in all(reaper)
    BY Zenon, <1>1, <1>6, <1>7, <2>2 DEF LifeStep, lifeOf
  <2>3. CASE q # t /\ q \notin all(reaper)
    BY Zenon, <1>1, <1>7, <1>19, <2>3, SameLife
  <2>4. QED
    BY Zenon, <2>1, <2>2, <2>3
<1> QED
  BY ZenonT(60), <1>15, <1>16, <1>17, <1>18, <1>20, <1>21, <1>22, <1>23, <1>24 DEF IInv

-----------------------------------------------------------------------------
(* The theorems.                                                           *)

\* Every step keeps the invariant and moves every task along the life of
\* ChildTable.
LEMMA NextInv == ASSUME IInv, [Next]_vars PROVE IInv' /\ \A p \in Task : LifeStep(p)
<1>0. Typed /\ Control
  BY Zenon DEF IInv
<1>1. ASSUME Still PROVE IInv' /\ \A p \in Task : LifeStep(p)
  BY Zenon, <1>1, StillInv, SameLife DEF Still
<1>2. ASSUME NEW t \in tree.tasks, KernelStep(t)
      PROVE  IInv' /\ \A p \in Task : LifeStep(p)
  <2>0. t \in Task
    BY Zenon, <1>0, TreeFacts
  <2>1. CASE exit_signals(t) \/ do_exit(t) \/ do_task_dead(t) \/ Awake(t)
    BY Zenon, <1>0, <2>0, <2>1, UserQuiet, QuietStep
  <2>2. CASE \/ Repeat(t) \/ LockScan(t) \/ wait_consider_task(t) \/ EndScan(t)
             \/ Collected(t) \/ Events(t)
    BY Zenon, <1>0, <2>0, <2>2, WaitQuiet, QuietStep
  <2>3. CASE exit_notify(t)
    BY Zenon, <2>3, NotifyInv
  <2>4. CASE release_task(t)
    BY Zenon, <2>0, <2>4, ReleaseInv
  <2>5. CASE Claim(t)
    BY Zenon, <2>0, <2>5, ClaimInv
  <2>6. CASE Reap(t)
    BY Zenon, <2>6, ReapInv
  <2>7. QED
    BY Zenon, <1>2, <2>1, <2>2, <2>3, <2>4, <2>5, <2>6 DEF KernelStep
<1>3. ASSUME NEW t \in tree.tasks, UserStep(t)
      PROVE  IInv' /\ \A p \in Task : LifeStep(p)
  <2>0. t \in Task
    BY Zenon, <1>0, TreeFacts
  <2>1. CASE ExitThread(t) \/ do_group_exit(t) \/ TraceStop(t)
    BY Zenon, <1>0, <2>0, <2>1, UserQuiet, QuietStep
  <2>2. CASE \E o \in tree.waits[t] : kernel_wait4(t, o) \/ kernel_waitid(t, o)
    BY Zenon, <1>0, <2>0, <2>2, WaitQuiet, QuietStep DEF kernel_wait4, kernel_waitid
  <2>3. CASE JobControl(t) \/ Kill(t)
    BY Zenon, <1>1, <2>3 DEF JobControl, Kill, Still, linkVars, waitVars, histVars
  <2>4. CASE TraceResume(t) \/ \E p \in Task : Attach(t, p)
    BY ZenonT(60), <2>4, TraceInv, SameLife DEF IInv
  <2>5. QED
    BY Zenon, <1>3, <2>1, <2>2, <2>3, <2>4 DEF UserStep
<1>4. CASE UNCHANGED vars
  BY Zenon, <1>1, <1>4 DEF vars, Still, linkVars, waitVars, histVars
<1> QED
  BY Zenon, <1>2, <1>3, <1>4 DEF Next

\* The inductive invariant holds in every reachable state.
THEOREM ExitWaitInductive == Spec => []IInv
<1>1. IInv /\ [Next]_vars => IInv'
  BY Zenon, NextInv
<1> QED
  BY <1>1, InitInv, PTL DEF Spec

\* A leader is released after every other thread of its group, however the
\* releases by dying threads, waiters and debuggers interleave.
THEOREM LeaderAlwaysLast == Spec => []LeaderLast
<1>1. IInv => LeaderLast
  <2> SUFFICES ASSUME IInv, NEW p \in tree.tasks \cap Leaders, NEW t \in Threads(p)
               PROVE  p \in hashed
    BY Zenon DEF LeaderLast
  <2>1. t \in hashed /\ leader[t] = p
    BY Zenon DEF Threads, SameGroup, Leaders
  <2>2. QED
    BY Zenon, <2>1 DEF IInv, Grouped
<1> QED
  BY <1>1, ExitWaitInductive, PTL

\* The parent and the tracer of every task in the table are alive and in the
\* table: find_new_reaper() never leaves a child to a task that is exiting.
THEOREM ParentsAlwaysAlive == Spec => []ParentsAlive
<1>1. IInv => ParentsAlive
  BY Zenon DEF IInv
<1> QED
  BY <1>1, ExitWaitInductive, PTL

\* What nobody is to wait for does not stay a zombie: exit_notify(),
\* release_task(), exit_ptrace() and wait_task_zombie() together leave none.
THEOREM UnwantedAlwaysReaped == Spec => []AutoReaped
<1>1. IInv => AutoReaped
  BY Zenon DEF IInv
<1> QED
  BY <1>1, ExitWaitInductive, PTL

\* wait_task_zombie() adds the times of a task to those of a waiting group at
\* most once, at every level of the tree.
THEOREM TimesAlwaysAddedOnce == Spec => []TimesAddedOnce
<1>1. IInv => TimesAddedOnce
  BY DEF IInv, Times, TimesAddedOnce
<1> QED
  BY <1>1, ExitWaitInductive, PTL

\* Exactly the claimed tasks have a collector, as the mapping reads it.
CollectorKnown ==
    \A p \in Task : /\ lifeOf(p) = "claimed" => ownerOf(p) \in Task
                    /\ lifeOf(p) # "claimed" => ownerOf(p) = None

\* It is the one member of Owners(p).
LEMMA CollectorFacts == IInv => CollectorKnown
<1> SUFFICES ASSUME IInv, NEW p \in Task
             PROVE  /\ lifeOf(p) = "claimed" => ownerOf(p) \in Task
                    /\ lifeOf(p) # "claimed" => ownerOf(p) = None
  BY Zenon DEF CollectorKnown
<1>0. Typed /\ Owned
  BY Zenon DEF IInv
<1>1. lifeOf(p) = "claimed" <=> Owners(p) # {}
  BY Zenon, <1>0 DEF Typed, Owned, lifeOf
<1>2. Owners(p) # {} => \E t \in Task : Owners(p) = {t}
  <2> SUFFICES ASSUME NEW t \in Owners(p) PROVE t \in Task /\ Owners(p) = {t}
    BY Zenon
  <2>1. t \in Task
    BY Zenon DEF Owners
  <2>2. QED
    BY <1>0, <2>1 DEF Owned
<1>3. Owners(p) # {} => ownerOf(p) \in Task
  BY Zenon, <1>2 DEF ownerOf
<1>4. Owners(p) = {} => ownerOf(p) = None
  BY Zenon DEF ownerOf
<1> QED
  BY Zenon, <1>1, <1>3, <1>4

\* exit.c implements ChildTable for every task.
THEOREM ImplementsChildTable == Spec => ImplementsTable
<1>1. ASSUME Init PROVE \A p \in Task : Table(p)!Init
  <2>1. ASSUME NEW p \in Task PROVE lifeOf(p) \in {"alive", "gone"}
    BY Zenon, <1>1 DEF Init, lifeOf
  <2>2. QED
    BY Zenon, <1>1, <2>1, InitInv, CollectorFacts DEF CollectorKnown, Table!Init
<1>2. ASSUME IInv, [Next]_vars
      PROVE  \A p \in Task : [Table(p)!Next]_<<lifeOf(p), ownerOf(p)>>
  <2> SUFFICES ASSUME NEW p \in Task
               PROVE  Table(p)!Next \/ UNCHANGED <<lifeOf(p), ownerOf(p)>>
    BY Zenon
  <2>1. LifeStep(p) /\ IInv'
    BY Zenon, <1>2, NextInv
  <2>2. CASE lifeOf(p)' = lifeOf(p) /\ Owners(p)' = Owners(p)
    BY Zenon, <2>2 DEF ownerOf
  <2>3. /\ lifeOf(p)' = "claimed" => ownerOf(p)' \in Task
        /\ lifeOf(p)' # "claimed" => ownerOf(p)' = None
    <3>1. CollectorKnown'
      BY <2>1, CollectorFacts, PTL
    <3>2. QED
      BY Zenon, <3>1 DEF CollectorKnown
  <2>4. CASE ~(lifeOf(p)' = lifeOf(p) /\ Owners(p)' = Owners(p))
    BY Zenon, <2>1, <2>3, <2>4 DEF LifeStep, Table!Next, Table!Die, Table!Claim, Table!HandOn, Table!Free
  <2>5. QED
    BY Zenon, <2>2, <2>4
<1>3. (\A p \in Task : Table(p)!Init)
      /\ [][\A p \in Task : [Table(p)!Next]_<<lifeOf(p), ownerOf(p)>>]_vars
      => ImplementsTable
  BY Zenon DEF ImplementsTable
<1> QED
  BY <1>1, <1>2, <1>3, ExitWaitInductive, PTL DEF Spec

-----------------------------------------------------------------------------
(* -ECHILD is true.                                                        *)

Held(t) == pc[t] \in {"scan", "claim", "events"}

\* Without -ECHILD cleared, a child that a scan for zombies has passed is being
\* released by someone, or is the one it is about to claim.
Scanned(t) ==
    /\ pc[t] = "claim" => exit_state[target[t][2]] # "0"
    /\ Held(t) /\ notask[t] /\ "WEXITED" \in wo[t].flags =>
           \A c \in Candidates(t) :
               eligible_child(wo[t], c[1], c[2]) =>
                   \/ exit_state[c[2]] \in {"DEAD", "TRACE"}
                   \/ c \in todo[t]
                   \/ pc[t] = "claim" /\ c[2] = target[t][2]

ScanTyped == DOMAIN wo = Task /\ DOMAIN notask = Task
ScanInv == ScanTyped /\ \A t \in Task : Scanned(t)

\* What others may do while t reads the task list: claim.
Reads(t) ==
    /\ UNCHANGED <<tree, hashed, real_parent, parent, traced, cloned>>
    /\ pc'[t] = pc[t] /\ wo'[t] = wo[t] /\ todo'[t] = todo[t]
    /\ target'[t] = target[t] /\ notask'[t] = notask[t]
    /\ \A p \in Task : \/ exit_state'[p] = exit_state[p]
                       \/ exit_state[p] = "ZOMBIE" /\ exit_state'[p] \in {"DEAD", "TRACE"}

\* The scan stays sound over such a step.
LEMMA ReadsScanned ==
    ASSUME NEW t \in Task, Typed, Control, Scanned(t), Reads(t)
    PROVE  Scanned(t)'
<1>1. Candidates(t)' = Candidates(t)
  BY Zenon DEF Reads, Candidates, eligible_pid, pgrp
<1>2. \A c : eligible_child(wo[t], c[1], c[2])' <=> eligible_child(wo[t], c[1], c[2])
  BY Zenon DEF Reads, eligible_child, eligible_pid, pgrp
<1>3. \A c \in Candidates(t) : c[2] \in Task
  BY TreeFacts DEF Candidates, Typed
<1>4. pc'[t] = "claim" => exit_state'[target'[t][2]] # "0"
  <2>1. pc[t] = "claim" => target[t][2] \in Task
    BY DEF Control
  <2>2. QED
    BY Zenon, <2>1 DEF Scanned, Reads
<1>5. ASSUME Held(t)', notask'[t], "WEXITED" \in wo'[t].flags, NEW c \in Candidates(t),
             eligible_child(wo[t], c[1], c[2])
      PROVE  \/ exit_state'[c[2]] \in {"DEAD", "TRACE"}
             \/ c \in todo'[t]
             \/ pc'[t] = "claim" /\ c[2] = target'[t][2]
  <2>1. \/ exit_state[c[2]] \in {"DEAD", "TRACE"}
        \/ c \in todo[t]
        \/ pc[t] = "claim" /\ c[2] = target[t][2]
    BY Zenon, <1>5 DEF Scanned, Reads, Held
  <2>2. exit_state[c[2]] \in {"DEAD", "TRACE"} => exit_state'[c[2]] \in {"DEAD", "TRACE"}
    BY Zenon, <1>3 DEF Reads
  <2>3. QED
    BY Zenon, <2>1, <2>2 DEF Reads
<1> QED
  BY Zenon, <1>1, <1>2, <1>4, <1>5 DEF Scanned

\* A step of s leaves the call of another task t alone.
LEMMA OthersCall ==
    ASSUME NEW s \in Task, NEW t \in Task, s # t, Typed, ScanTyped, KernelStep(s) \/ UserStep(s)
    PROVE  /\ wo'[t] = wo[t] /\ todo'[t] = todo[t] /\ notask'[t] = notask[t]
           /\ target'[t] = target[t]
           /\ pc'[t] = pc[t] \/ pc'[t] = "user"
<1> USE DEF waitVars, Typed, ScanTyped
<1>1. CASE Return(s)
  BY Zenon, <1>1 DEF Return
<1>2. CASE UNCHANGED waitVars /\ \E x : pc' = [pc EXCEPT ![s] = x]
  BY Zenon, <1>2
<1>3. CASE UNCHANGED waitVars /\ pc' = pc
  BY Zenon, <1>3
<1>4. ASSUME NEW none, NothingFound(s, none)
      PROVE  Return(s) \/ (UNCHANGED waitVars /\ \E x : pc' = [pc EXCEPT ![s] = x])
  BY Zenon, <1>4 DEF NothingFound
<1>5. CASE \/ ExitThread(s) \/ do_group_exit(s) \/ exit_signals(s) \/ do_exit(s) \/ do_task_dead(s)
           \/ TraceStop(s) \/ Awake(s) \/ Reap(s) \/ TraceResume(s)
  <2>1. UNCHANGED waitVars /\ \E x : pc' = [pc EXCEPT ![s] = x]
    BY Zenon, <1>5 DEF ExitThread, do_group_exit, exit_signals, do_exit, do_task_dead, TraceStop, Awake, Reap,
        TraceResume
  <2>2. QED
    BY Zenon, <1>2, <2>1
<1>6. CASE JobControl(s) \/ Kill(s) \/ release_task(s) \/ \E p \in Task : Attach(s, p)
  <2>1. UNCHANGED waitVars /\ pc' = pc
    BY Zenon, <1>6 DEF JobControl, Kill, release_task, Attach
  <2>2. QED
    BY Zenon, <1>3, <2>1
<1>7. CASE \E o : WaitCall(s, o)
  BY Zenon, <1>7 DEF WaitCall
<1>8. CASE Repeat(s) \/ EndScan(s)
  <2>1. Return(s) \/ (UNCHANGED waitVars /\ \E x : pc' = [pc EXCEPT ![s] = x])
    BY Zenon, <1>4, <1>8 DEF Repeat, EndScan
  <2>2. QED
    BY Zenon, <1>1, <1>2, <2>1
<1>9. CASE LockScan(s)
  BY Zenon, <1>9 DEF LockScan
<1>10. CASE wait_consider_task(s)
  <2>1. /\ UNCHANGED wo
        /\ \E x : pc' = [pc EXCEPT ![s] = x]
        /\ \E x : todo' = [todo EXCEPT ![s] = x]
        /\ \E x : target' = [target EXCEPT ![s] = x]
        /\ \E x : notask' = [notask EXCEPT ![s] = x]
    BY ZenonT(60), <1>10 DEF wait_consider_task
  <2>2. QED
    BY ZenonT(60), <2>1
<1>11. CASE Claim(s) \/ Collected(s) \/ Events(s)
  <2>1. Return(s) \/ (UNCHANGED waitVars /\ \E x : pc' = [pc EXCEPT ![s] = x])
    BY Zenon, <1>11 DEF Claim, Collected, Events
  <2>2. QED
    BY Zenon, <1>1, <1>2, <2>1
<1>12. CASE exit_notify(s)
  <2> DEFINE D == {p \in hashed \cap traced : parent[p] = s}
  <2>1. UNCHANGED waitVars
    BY Zenon, <1>12 DEF exit_notify
  <2>2. pc' = [p \in Task |-> IF p = s THEN "release"
                              ELSE IF p \in D /\ pc[p] = "tstop"
                              THEN "user" ELSE pc[p]]
    BY ZenonT(60), <1>12 DEF exit_notify
  <2> HIDE DEF D
  <2>3. QED
    BY Zenon, <2>1, <2>2
<1> QED
  BY Zenon, <1>5, <1>6, <1>7, <1>8, <1>9, <1>10, <1>11, <1>12
  DEF KernelStep, UserStep, kernel_wait4, kernel_waitid

\* The calls are those of the tasks.
LEMMA CallsTyped ==
    ASSUME NEW s \in Task, ScanTyped, KernelStep(s) \/ UserStep(s)
    PROVE  ScanTyped'
<1> USE DEF waitVars, ScanTyped
<1>1. CASE UNCHANGED <<wo, notask>> \/ Return(s)
  BY Zenon, <1>1 DEF Return
<1>2. CASE \/ ExitThread(s) \/ do_group_exit(s) \/ exit_signals(s) \/ do_exit(s) \/ do_task_dead(s)
           \/ TraceStop(s) \/ Awake(s) \/ Reap(s) \/ TraceResume(s)
           \/ JobControl(s) \/ Kill(s) \/ release_task(s) \/ \E p \in Task : Attach(s, p)
           \/ exit_notify(s)
  <2>1. UNCHANGED <<wo, notask>>
    BY Zenon, <1>2 DEF ExitThread, do_group_exit, exit_signals, do_exit, do_task_dead, TraceStop, Awake, Reap,
        TraceResume, JobControl, Kill, release_task, Attach, exit_notify
  <2>2. QED
    BY Zenon, <1>1, <2>1
<1>3. CASE Repeat(s) \/ EndScan(s) \/ Claim(s) \/ Collected(s) \/ Events(s)
  <2>1. UNCHANGED <<wo, notask>> \/ Return(s)
    BY Zenon, <1>3 DEF Repeat, EndScan, NothingFound, Claim, Collected, Events
  <2>2. QED
    BY Zenon, <1>1, <2>1
<1>4. CASE (\E o : WaitCall(s, o)) \/ LockScan(s)
  BY Zenon, <1>4 DEF WaitCall, LockScan
<1>5. CASE wait_consider_task(s)
  <2>1. UNCHANGED wo /\ \E x : notask' = [notask EXCEPT ![s] = x]
    BY Zenon, <1>5 DEF wait_consider_task
  <2>2. QED
    BY Zenon, <2>1
<1> QED
  BY Zenon, <1>2, <1>3, <1>4, <1>5 DEF KernelStep, UserStep, kernel_wait4, kernel_waitid

\* While t holds tasklist_lock for reading nobody takes it for writing.
LEMMA OthersRead ==
    ASSUME NEW s \in Task, NEW t \in Task, s # t, IInv, ScanTyped, Held(t),
           KernelStep(s) \/ UserStep(s), pc'[t] = pc[t]
    PROVE  Reads(t)
<1>0. Typed /\ Control
  BY Zenon DEF IInv
<1>1. ~WriteLock
  BY Zenon DEF WriteLock, Reading, Held
<1>2. /\ wo'[t] = wo[t] /\ todo'[t] = todo[t] /\ notask'[t] = notask[t]
      /\ target'[t] = target[t]
  BY Zenon, <1>0, OthersCall
<1>3. CASE UNCHANGED <<tree, hashed, real_parent, parent, traced, cloned, exit_state>>
  BY Zenon, <1>2, <1>3 DEF Reads
<1>4. CASE \/ ExitThread(s) \/ do_group_exit(s) \/ exit_signals(s) \/ do_exit(s) \/ do_task_dead(s)
           \/ TraceStop(s) \/ Awake(s)
  <2>1. UNCHANGED <<tree, hashed, real_parent, parent, traced, cloned, exit_state>>
    BY Zenon, <1>0, <1>4, UserQuiet DEF Quiet
  <2>2. QED
    BY Zenon, <1>3, <2>1
<1>5. CASE \/ \E o : WaitCall(s, o)
           \/ Repeat(s) \/ LockScan(s) \/ wait_consider_task(s) \/ EndScan(s)
           \/ Collected(s) \/ Events(s)
  <2>1. UNCHANGED <<tree, hashed, real_parent, parent, traced, cloned, exit_state>>
    BY Zenon, <1>0, <1>5, WaitQuiet DEF Quiet
  <2>2. QED
    BY Zenon, <1>3, <2>1
<1>6. CASE JobControl(s) \/ Kill(s)
  BY Zenon, <1>3, <1>6 DEF JobControl, Kill, linkVars
<1>7. CASE Claim(s)
  <2>1. UNCHANGED <<tree, hashed, real_parent, parent, traced, cloned>>
    BY Zenon, <1>7 DEF Claim, linkVars
  <2>2. \A p \in Task : \/ exit_state'[p] = exit_state[p]
                        \/ exit_state[p] = "ZOMBIE" /\ exit_state'[p] \in {"DEAD", "TRACE"}
    BY Zenon, <1>0, <1>7 DEF Claim, Wins, Typed
  <2>3. QED
    BY Zenon, <1>2, <2>1, <2>2 DEF Reads
<1>8. CASE Reap(s)
  BY Zenon, <1>1, <1>3, <1>8 DEF Reap
<1>9. CASE \/ exit_notify(s) \/ release_task(s) \/ TraceResume(s)
           \/ \E p \in Task : Attach(s, p)
  BY Zenon, <1>1, <1>9 DEF exit_notify, release_task, TraceResume, Attach
<1> QED
  BY Zenon, <1>4, <1>5, <1>6, <1>7, <1>8, <1>9 DEF KernelStep, UserStep, kernel_wait4, kernel_waitid

\* Where t's own steps lead: on with the scan, or out of it.
LEMMA OwnScan ==
    ASSUME NEW t \in Task, IInv, ScanInv, KernelStep(t) \/ UserStep(t)
    PROVE  Scanned(t)'
<1>0. Typed /\ Control /\ ScanTyped /\ Scanned(t)
  BY Zenon DEF IInv, ScanInv
<1> USE DEF waitVars, linkVars
<1>1. CASE ~Held(t)'
  BY Zenon, <1>1 DEF Held, Scanned
<1>2. CASE JobControl(t) \/ Kill(t)
  <2>1. Reads(t)
    BY Zenon, <1>2 DEF JobControl, Kill, Reads
  <2>2. QED
    BY Zenon, <1>0, <2>1, ReadsScanned
<1>3. CASE Return(t)
  BY Zenon, <1>0, <1>1, <1>3 DEF Return, Held, Typed
<1>4. CASE \/ ExitThread(t) \/ do_group_exit(t) \/ exit_signals(t) \/ do_exit(t) \/ do_task_dead(t)
           \/ TraceStop(t) \/ TraceResume(t) \/ Awake(t) \/ \E o : WaitCall(t, o) \/ Reap(t)
  <2>1. \E x : pc' = [pc EXCEPT ![t] = x] /\ x \notin {"scan", "claim", "events"}
    BY ZenonT(60), <1>4 DEF ExitThread, do_group_exit, exit_signals, do_exit, do_task_dead, TraceStop, TraceResume,
        Awake, WaitCall, Reap
  <2>2. QED
    BY Zenon, <1>0, <1>1, <2>1 DEF Held, Typed
<1>5. CASE exit_notify(t)
  <2>1. pc'[t] = "release"
    BY ZenonT(60), <1>5 DEF exit_notify
  <2>2. QED
    BY Zenon, <1>1, <2>1 DEF Held
<1>6. CASE release_task(t) \/ \E p \in Task : Attach(t, p)
  BY Zenon, <1>1, <1>6 DEF release_task, Attach, Running, Held
<1>7. CASE Repeat(t) \/ EndScan(t) \/ Collected(t)
  <2>1. \/ Return(t)
        \/ pc' = [pc EXCEPT ![t] = "lock"]
        \/ pc' = [pc EXCEPT ![t] = "sched"]
    BY Zenon, <1>7 DEF Repeat, EndScan, Collected, NothingFound
  <2>2. QED
    BY Zenon, <1>0, <1>1, <1>3, <2>1 DEF Held, Typed
<1>8. CASE LockScan(t)
  <2>1. /\ todo'[t] = Candidates(t) /\ pc'[t] = "scan"
        /\ UNCHANGED <<tree, hashed, linkVars, wo>>
    BY Zenon, <1>0, <1>8 DEF LockScan, Typed
  <2>2. Candidates(t)' = Candidates(t)
    BY Zenon, <2>1 DEF Candidates, eligible_pid, pgrp
  <2>3. QED
    BY Zenon, <2>1, <2>2 DEF Scanned
<1>9. CASE wait_consider_task(t)
  <2> DEFINE ptrace(c) == c[1] \/ (c[2] \in traced /\ ~ptrace_reparented(c[2]))
             es(c) == exit_state[c[2]]
             skip(c) == es(c) = "DEAD" \/ ~eligible_child(wo[t], c[1], c[2]) \/ es(c) = "TRACE"
             slay(c) == /\ es(c) = "ZOMBIE" /\ ~delay_group_leader(c[2])
                        /\ ptrace(c) \/ c[2] \notin traced
             hope(c) == es(c) # "DEAD" /\ ~slay(c) /\ Hope(t, c, ptrace(c))
  <2>1. PICK c \in todo[t] :
          /\ todo' = [todo EXCEPT ![t] = @ \ {c}]
          /\ pc' = [pc EXCEPT ![t] = IF skip(c) \/ (slay(c) /\ "WEXITED" \notin wo[t].flags)
                                     THEN "scan"
                                     ELSE IF slay(c) THEN "claim" ELSE "events"]
          /\ target' = [target EXCEPT ![t] = <<ptrace(c), c[2]>>]
          /\ notask' = [notask EXCEPT ![t] = @ /\ ~hope(c)]
    BY ZenonT(60), <1>9 DEF wait_consider_task
  <2>2. pc[t] = "scan" /\ UNCHANGED <<tree, exit_state, hashed, linkVars, wo>>
    BY ZenonT(60), <1>9 DEF wait_consider_task
  <2>3. Candidates(t)' = Candidates(t)
    BY Zenon, <2>2 DEF Candidates, eligible_pid, pgrp
  <2>4. \A d : eligible_child(wo[t], d[1], d[2])' <=> eligible_child(wo[t], d[1], d[2])
    BY Zenon, <2>2 DEF eligible_child, eligible_pid, pgrp
  <2>5. /\ todo'[t] = todo[t] \ {c} /\ target'[t] = <<ptrace(c), c[2]>>
        /\ notask'[t] <=> notask[t] /\ ~hope(c)
        /\ pc'[t] = IF skip(c) \/ (slay(c) /\ "WEXITED" \notin wo[t].flags)
                    THEN "scan"
                    ELSE IF slay(c) THEN "claim" ELSE "events"
    <3> HIDE DEF ptrace, skip, slay, hope
    <3> QED
      BY Zenon, <1>0, <2>1 DEF Typed, ScanTyped
  <2>6. target'[t][2] = c[2]
    BY <2>5
  <2>7. pc'[t] = "claim" => exit_state'[target'[t][2]] # "0"
    BY Zenon, <2>2, <2>5, <2>6
  <2>8. ASSUME notask'[t], "WEXITED" \in wo[t].flags, NEW d \in Candidates(t),
               eligible_child(wo[t], d[1], d[2]), es(d) \notin {"DEAD", "TRACE"}
        PROVE  d \in todo'[t] \/ (pc'[t] = "claim" /\ d[2] = target'[t][2])
    <3>1. d \in todo[t]
      BY Zenon, <1>0, <2>2, <2>5, <2>8 DEF Scanned, Held
    <3>2. CASE d # c
      BY Zenon, <2>5, <3>1, <3>2
    <3>3. CASE d = c
      <4>1. slay(c) \/ Hope(t, c, ptrace(c))
        BY Zenon, <2>8, <3>3 DEF Hope
      <4>2. slay(c) /\ ~skip(c)
        BY Zenon, <2>5, <2>8, <3>3, <4>1
      <4> HIDE DEF ptrace, skip, slay, hope
      <4>3. QED
        BY Zenon, <2>5, <2>6, <2>8, <3>3, <4>2
    <3>4. QED
      BY Zenon, <3>2, <3>3
  <2> HIDE DEF ptrace, skip, slay, hope
  <2>9. QED
    BY Zenon, <2>2, <2>3, <2>4, <2>7, <2>8 DEF Scanned
<1>10. CASE Claim(t)
  <2>1. Return(t) \/ pc' = [pc EXCEPT ![t] = "reap"]
        \/ /\ pc[t] = "claim" /\ exit_state[target[t][2]] # "ZOMBIE"
           /\ pc' = [pc EXCEPT ![t] = "scan"]
           /\ UNCHANGED <<tree, exit_state, waitVars, hashed, linkVars>>
    BY Zenon, <1>10 DEF Claim, Wins
  <2>2. CASE pc' = [pc EXCEPT ![t] = "reap"]
    BY Zenon, <1>0, <1>1, <2>2 DEF Held, Typed
  <2>3. CASE /\ pc[t] = "claim" /\ exit_state[target[t][2]] # "ZOMBIE"
             /\ pc' = [pc EXCEPT ![t] = "scan"]
             /\ UNCHANGED <<tree, exit_state, waitVars, hashed, linkVars>>
    <3>1. pc'[t] = "scan"
      BY Zenon, <1>0, <2>3 DEF Typed
    <3>2. exit_state[target[t][2]] \in {"DEAD", "TRACE"}
      <4>1. target[t][2] \in Task /\ exit_state[target[t][2]] # "0"
        BY <1>0, <2>3 DEF Control, Scanned
      <4>2. QED
        BY Zenon, <1>0, <2>3, <4>1 DEF Typed
    <3>3. Candidates(t)' = Candidates(t)
      BY Zenon, <2>3 DEF Candidates, eligible_pid, pgrp
    <3>4. \A d : eligible_child(wo[t], d[1], d[2])' <=> eligible_child(wo[t], d[1], d[2])
      BY Zenon, <2>3 DEF eligible_child, eligible_pid, pgrp
    <3>5. QED
      BY Zenon, <1>0, <2>3, <3>1, <3>2, <3>3, <3>4 DEF Scanned, Held
  <2>4. QED
    BY Zenon, <1>3, <2>1, <2>2, <2>3
<1>11. CASE Events(t)
  <2>1. \/ Return(t)
        \/ pc' = [pc EXCEPT ![t] = "scan"] /\ UNCHANGED waitVars
    BY Zenon, <1>11 DEF Events
  <2>2. pc[t] = "events" /\ UNCHANGED <<tree, exit_state, hashed, linkVars>>
    BY Zenon, <1>11 DEF Events
  <2>3. CASE pc' = [pc EXCEPT ![t] = "scan"] /\ UNCHANGED waitVars
    <3>1. pc'[t] = "scan"
      BY Zenon, <1>0, <2>3 DEF Typed
    <3>2. Candidates(t)' = Candidates(t)
      BY Zenon, <2>2, <2>3 DEF Candidates, eligible_pid, pgrp
    <3>3. \A d : eligible_child(wo[t], d[1], d[2])' <=> eligible_child(wo[t], d[1], d[2])
      BY Zenon, <2>2, <2>3 DEF eligible_child, eligible_pid, pgrp
    <3>4. QED
      BY Zenon, <1>0, <2>2, <2>3, <3>1, <3>2, <3>3 DEF Scanned, Held
  <2>4. QED
    BY Zenon, <1>3, <2>1, <2>3
<1> QED
  BY Zenon, <1>2, <1>4, <1>5, <1>6, <1>7, <1>8, <1>9, <1>10, <1>11
  DEF KernelStep, UserStep, kernel_wait4, kernel_waitid

\* Every step keeps the scans sound.
LEMMA ScanStep == ASSUME IInv, ScanInv, [Next]_vars PROVE ScanInv'
<1>0. Typed /\ Control /\ ScanTyped
  BY Zenon DEF IInv, ScanInv
<1>1. CASE UNCHANGED vars
  <2>1. ASSUME NEW t \in Task PROVE Scanned(t)'
    BY Zenon, <1>0, <1>1, ReadsScanned DEF ScanInv, Reads, vars, waitVars, linkVars
  <2>2. QED
    BY Zenon, <1>0, <1>1, <2>1 DEF ScanInv, ScanTyped, vars, waitVars
<1>2. ASSUME NEW s \in tree.tasks, KernelStep(s) \/ UserStep(s)
      PROVE  ScanInv'
  <2>0. s \in Task
    BY Zenon, <1>0, TreeFacts
  <2>1. ASSUME NEW t \in Task PROVE Scanned(t)'
    <3>1. CASE t = s
      BY Zenon, <1>2, <3>1, OwnScan
    <3>2. CASE t # s /\ ~Held(t)'
      BY Zenon, <3>2 DEF Scanned, Held
    <3>3. CASE t # s /\ Held(t)'
      <4>1. pc'[t] = pc[t]
        BY Zenon, <1>0, <1>2, <2>0, <3>3, OthersCall DEF Held
      <4>2. Held(t)
        BY Zenon, <3>3, <4>1 DEF Held
      <4>3. Reads(t)
        BY Zenon, <1>0, <1>2, <2>0, <3>3, <4>1, <4>2, OthersRead
      <4>4. QED
        BY Zenon, <1>0, <4>3, ReadsScanned DEF ScanInv
    <3>4. QED
      BY Zenon, <3>1, <3>2, <3>3
  <2>2. ScanTyped'
    BY Zenon, <1>0, <1>2, <2>0, CallsTyped
  <2>3. QED
    BY Zenon, <2>1, <2>2 DEF ScanInv
<1> QED
  BY Zenon, <1>1, <1>2 DEF Next

\* do_wait() answers -ECHILD after a scan for zombies only when every eligible
\* child and tracee it might wait for is already being released, however many
\* other threads claim zombies during the scan.
THEOREM EchildAlwaysTrue == Spec => EchildMeansNone
<1> DEFINE Echild ==
      \A t \in Task :
          EndScan(t) /\ notask[t] /\ pc'[t] = "user"
          => \A c \in Candidates(t) :
                 eligible_child(wo[t], c[1], c[2]) /\ "WEXITED" \in wo[t].flags
                 => exit_state[c[2]] \in {"DEAD", "TRACE"}
<1>1. Init => ScanInv
  BY ZenonT(60) DEF Init, ScanInv, ScanTyped, Scanned, Held
<1>2. ScanInv => Echild
  BY Zenon DEF ScanInv, Scanned, Held, EndScan
<1>3. IInv /\ ScanInv /\ [Next]_vars => ScanInv'
  BY Zenon, ScanStep
<1>4. Spec => []ScanInv
  BY <1>1, <1>3, ExitWaitInductive, PTL DEF Spec
<1>5. ScanInv /\ [Next]_vars => [Echild]_vars
  BY Zenon, <1>2
<1>6. Spec => [][Echild]_vars
  BY <1>4, <1>5, PTL DEF Spec
<1> QED
  BY <1>6 DEF EchildMeansNone

-----------------------------------------------------------------------------
(* Orphaned process groups.                                                *)

SignalFlags == {"", "STOPPED", "CONTINUED", "GROUP_EXIT"}

\* A stopped process has a thread that a signal can reach, since none of it is
\* on its way into do_exit(); a thread that was not the last of its group to
\* come there is not the only one.
JobInv ==
    /\ flags \in [Task -> SignalFlags] /\ killed \subseteq Task
    /\ \A t \in killed : flags[leader[t]] = "GROUP_EXIT"
    /\ \A g \in Leaders : flags[g] = "STOPPED" =>
           /\ \A t \in Threads(g) : pc[t] # "doexit"
           /\ find_alive_thread(g) # {}
    /\ \A t \in Task :
           /\ pc[t] = "exit" => \E u \in tree.tasks : u # t /\ SameGroup(u, t)
           /\ pc[t] \in Exiting => t \in tree.tasks

\* No step but job control stops a process; none takes a group exit back, and
\* a live thread stays in the table.
JobMoves ==
    /\ tree' = tree /\ flags' \in [Task -> SignalFlags] /\ killed' \subseteq Task
    /\ \A g \in Task : /\ flags[g] = "GROUP_EXIT" => flags'[g] = "GROUP_EXIT"
                       /\ flags'[g] = "STOPPED" => flags[g] = "STOPPED"
    /\ \A t \in killed' : t \in killed \/ flags'[leader[t]] = "GROUP_EXIT"
    /\ hashed' \subseteq hashed /\ hashed \ hashed' \subseteq exiting /\ exiting' = exiting
    /\ \A t \in Task :
           /\ pc'[t] \in Marked => pc'[t] = pc[t]
           /\ pc'[t] = "doexit" => \/ pc[t] = "doexit"
                                   \/ t \in tree.tasks /\ flags'[leader[t]] # "STOPPED"

LEMMA JobMovesInv ==
    ASSUME Typed, JobInv, JobMoves
    PROVE  JobInv'
<1>0. hashed \subseteq Task
  BY Zenon, TreeFacts DEF Typed
<1>1. \A t \in killed' : flags'[leader[t]] = "GROUP_EXIT"
  BY Zenon, LeaderFacts DEF JobInv, JobMoves
<1>2. ASSUME NEW g \in Leaders, flags'[g] = "STOPPED"
      PROVE  /\ \A t \in Threads(g)' : pc'[t] # "doexit"
             /\ find_alive_thread(g)' # {}
  <2>1. g \in Task /\ flags[g] = "STOPPED" /\ leader[g] = g
    BY Zenon, <1>2, LeaderFacts DEF JobMoves, Leaders
  <2>2. Threads(g)' \subseteq Threads(g)
    BY Zenon DEF Threads, JobMoves
  <2>3. find_alive_thread(g) \subseteq find_alive_thread(g)'
    BY Zenon DEF find_alive_thread, Threads, JobMoves
  <2>4. \A t \in Threads(g) : t \in Task /\ leader[t] = g
    BY Zenon, <1>0, <2>1 DEF Threads, SameGroup
  <2>5. \A t \in Threads(g) : pc'[t] # "doexit"
    BY Zenon, <1>2, <2>1, <2>4 DEF JobInv, JobMoves
  <2>6. QED
    BY Zenon, <1>2, <2>1, <2>2, <2>3, <2>5 DEF JobInv
<1>3. ASSUME NEW t \in Task
      PROVE  /\ pc'[t] = "exit" => \E u \in tree.tasks : u # t /\ SameGroup(u, t)
             /\ pc'[t] \in Exiting => t \in tree.tasks
  BY Zenon DEF JobInv, JobMoves
<1> QED
  BY Zenon, <1>1, <1>2, <1>3 DEF JobInv, JobMoves

\* A step that neither signals nor exits.
LEMMA JobStill ==
    ASSUME JobInv, UNCHANGED <<tree, flags, killed, hashed, exiting>>,
           \A t \in Task : pc'[t] \in Exiting => pc'[t] = pc[t]
    PROVE  JobMoves
  BY Zenon DEF JobInv, JobMoves

\* Fatal signals and SIGCONT.
LEMMA SignalledMoves ==
    ASSUME NEW G, NEW K, Typed, JobInv, Signalled(G, K)
    PROVE  /\ flags' \in [Task -> SignalFlags] /\ killed' \subseteq Task
           /\ \A g \in Task : /\ flags[g] = "GROUP_EXIT" => flags'[g] = "GROUP_EXIT"
                              /\ flags'[g] = "STOPPED" => flags[g] = "STOPPED"
           /\ \A t \in killed' : t \in killed \/ flags'[leader[t]] = "GROUP_EXIT"
<1> DEFINE dying == Fatal((G \ tree.handlesHup) \cup K)
           resumed == {g \in G \cap tree.handlesHup : flags[g] = "STOPPED"}
<1>1. /\ flags' = [g \in Task |-> IF g \in dying THEN "GROUP_EXIT"
                                  ELSE IF g \in resumed THEN "CONTINUED"
                                  ELSE flags[g]]
      /\ killed' = killed \cup Victims(dying)
  BY Zenon DEF Signalled
<1>2. \A g \in resumed : flags[g] = "STOPPED"
  BY Zenon
<1>3. \A t \in Victims(dying) : t \in Task /\ leader[t] \in Task /\ leader[t] \in dying
  <2> HIDE DEF dying
  <2> QED
    BY Zenon, TreeFacts, LeaderFacts DEF Victims, Fatal, Typed
<1> HIDE DEF dying, resumed
<1>4. flags' \in [Task -> SignalFlags]
  BY Zenon, <1>1 DEF JobInv, SignalFlags
<1>5. \A g \in Task : /\ flags[g] = "GROUP_EXIT" => flags'[g] = "GROUP_EXIT"
                      /\ flags'[g] = "STOPPED" => flags[g] = "STOPPED"
                      /\ g \in dying => flags'[g] = "GROUP_EXIT"
  BY Zenon, <1>1, <1>2
<1> QED
  BY Zenon, <1>1, <1>3, <1>4, <1>5 DEF JobInv

\* A thread enters do_exit() from a process that is not stopped.
LEMMA ExitMoves ==
    ASSUME NEW t \in tree.tasks, t \in Task, Typed, JobInv, ExitThread(t) \/ do_group_exit(t)
    PROVE  JobMoves
<1> DEFINE g == leader[t]
<1>0. g \in Task /\ hashed \subseteq Task
  BY Zenon, TreeFacts, LeaderFacts DEF Typed
<1>1. /\ pc' = [pc EXCEPT ![t] = "doexit"] /\ UNCHANGED <<tree, hashed, exiting>>
      /\ flags[g] # "STOPPED"
  <2>1. CASE ExitThread(t)
    BY Zenon, <2>1 DEF ExitThread, Running
  <2>2. CASE do_group_exit(t)
    BY Zenon, <2>2 DEF do_group_exit, Running, JobInv
  <2>3. QED
    BY Zenon, <2>1, <2>2
<1>2. \/ UNCHANGED <<flags, killed>>
      \/ /\ flags' = [flags EXCEPT ![g] = "GROUP_EXIT"]
         /\ killed' = killed \cup (Threads(t) \ ({t} \cup exiting))
  BY Zenon DEF ExitThread, do_group_exit, groupVars
<1>3. \A u \in Threads(t) : u \in Task /\ leader[u] = g
  BY Zenon, <1>0 DEF Threads, SameGroup
<1>4. /\ flags' \in [Task -> SignalFlags] /\ killed' \subseteq Task
      /\ \A h \in Task : /\ flags[h] = "GROUP_EXIT" => flags'[h] = "GROUP_EXIT"
                         /\ flags'[h] = "STOPPED" => flags[h] = "STOPPED"
      /\ \A u \in killed' : u \in killed \/ flags'[leader[u]] = "GROUP_EXIT"
  <2> HIDE DEF g
  <2>1. CASE UNCHANGED <<flags, killed>>
    BY Zenon, <2>1 DEF JobInv
  <2>2. CASE /\ flags' = [flags EXCEPT ![g] = "GROUP_EXIT"]
             /\ killed' = killed \cup (Threads(t) \ ({t} \cup exiting))
    <3>1. flags' \in [Task -> SignalFlags]
      BY Zenon, <1>0, <2>2 DEF JobInv, SignalFlags
    <3>2. QED
      BY ZenonT(60), <1>0, <1>3, <2>2, <3>1 DEF JobInv
  <2>3. QED
    BY Zenon, <1>2, <2>1, <2>2
<1>5. \A u \in Task :
          /\ pc'[u] \in Marked => pc'[u] = pc[u]
          /\ pc'[u] = "doexit" => \/ pc[u] = "doexit"
                                  \/ u \in tree.tasks /\ flags'[leader[u]] # "STOPPED"
  BY Zenon, <1>0, <1>1, <1>4 DEF Typed
<1> QED
  BY Zenon, <1>1, <1>4, <1>5 DEF JobMoves

\* exit_signals(): one thread less that can be reached, of a process that is
\* not stopped.
LEMMA SignalsJobs ==
    ASSUME NEW t \in tree.tasks, t \in Task, Typed, JobInv, exit_signals(t)
    PROVE  JobInv'
<1>0. hashed \subseteq Task
  BY Zenon, TreeFacts DEF Typed
<1>1. /\ pc[t] = "doexit" /\ UNCHANGED <<tree, hashed, flags>>
      /\ exiting' = exiting \cup {t} /\ killed' \subseteq killed
      /\ pc' = [pc EXCEPT ![t] = "live"]
  BY Zenon DEF exit_signals, linkVars
<1>2. ASSUME NEW g \in Leaders, flags[g] = "STOPPED"
      PROVE  /\ \A u \in Threads(g) : pc'[u] # "doexit"
             /\ find_alive_thread(g)' # {}
  <2>1. t \notin Threads(g)
    BY Zenon, <1>1, <1>2 DEF JobInv
  <2>2. Threads(g)' = Threads(g)
    BY Zenon, <1>1 DEF Threads
  <2>3. find_alive_thread(g)' = find_alive_thread(g)
    BY Zenon, <1>1, <2>1, <2>2 DEF find_alive_thread
  <2>4. \A u \in Threads(g) : u \in Task
    BY Zenon, <1>0 DEF Threads
  <2>5. QED
    BY Zenon, <1>1, <1>2, <2>1, <2>3, <2>4 DEF JobInv, Typed
<1>3. \A g : Threads(g)' = Threads(g)
  BY Zenon, <1>1 DEF Threads
<1>4. \A u \in Task : /\ pc'[u] = "exit" => pc[u] = "exit"
                      /\ pc'[u] \in Exiting => pc[u] \in Exiting
  BY Zenon, <1>1 DEF Typed
<1> QED
  BY Zenon, <1>1, <1>2, <1>3, <1>4 DEF JobInv

\* do_exit(): a thread that is not the last to come is not the only one.
LEMMA DoExitJobs ==
    ASSUME NEW t \in tree.tasks, t \in Task, Typed, Control, JobInv, do_exit(t)
    PROVE  JobInv'
<1>0. hashed \subseteq Task /\ hashed \subseteq tree.tasks
  BY Zenon, TreeFacts DEF Typed
<1>1. pc[t] = "live" /\ UNCHANGED <<tree, hashed, exiting, flags, killed>>
  BY Zenon DEF do_exit, groupVars
<1>2. \/ pc' = [pc EXCEPT ![t] = "exit_last"]
      \/ pc' = [pc EXCEPT ![t] = "exit"] /\ live(t) # {t}
  BY Zenon DEF do_exit
<1>3. t \in live(t)
  <2>1. exit_state[t] = "0"
    BY Zenon, <1>1 DEF Control
  <2>2. t \in hashed
    BY Zenon, <2>1 DEF Control
  <2>3. QED
    BY Zenon, <1>1, <2>2 DEF live, Threads, SameGroup
<1>4. \A g : Threads(g)' = Threads(g) /\ find_alive_thread(g)' = find_alive_thread(g)
  BY Zenon, <1>1 DEF Threads, find_alive_thread
<1>5. \A u \in Task : pc'[u] = "doexit" => pc[u] = "doexit"
  BY Zenon, <1>2 DEF Typed
<1>6. ASSUME NEW u \in Task
      PROVE  /\ pc'[u] = "exit" => \E v \in tree.tasks : v # u /\ SameGroup(v, u)
             /\ pc'[u] \in Exiting => u \in tree.tasks
  <2>1. CASE u = t
    <3>1. pc'[t] = "exit" => \E v \in live(t) : v # t
      <4>1. pc'[t] = "exit" => live(t) # {t}
        BY Zenon, <1>2 DEF Typed
      <4>2. live(t) # {t} => \E v \in live(t) : v # t
        BY <1>3
      <4>3. QED
        BY Zenon, <4>1, <4>2
    <3>2. QED
      BY Zenon, <1>0, <2>1, <3>1 DEF live, Threads
  <2>2. CASE u # t
    <3>1. pc'[u] = pc[u]
      BY ZenonT(60), <1>2, <2>2 DEF Typed
    <3>2. QED
      BY Zenon, <3>1 DEF JobInv
  <2>3. QED
    BY Zenon, <2>1, <2>2
<1>7. \A g : \A u \in Threads(g) : u \in Task
  BY Zenon, <1>0 DEF Threads
<1> QED
  BY Zenon, <1>1, <1>4, <1>5, <1>6, <1>7 DEF JobInv

\* Job control stops only a process with a live thread and none exiting.
LEMMA StopJobs ==
    ASSUME NEW g \in Task, Typed, JobInv, JobControl(g)
    PROVE  JobInv'
<1>1. /\ UNCHANGED <<tree, pc, hashed, exiting, killed>>
      /\ find_alive_thread(g) # {} /\ \A t \in Threads(g) : pc[t] # "doexit"
      /\ flags[g] # "GROUP_EXIT"
      /\ \/ flags' = [flags EXCEPT ![g] = "STOPPED"]
         \/ flags' = [flags EXCEPT ![g] = "CONTINUED"]
  BY Zenon DEF JobControl
<1>2. flags' \in [Task -> SignalFlags] /\ \A h \in Task : h # g => flags'[h] = flags[h]
  BY Zenon, <1>1 DEF JobInv, SignalFlags
<1>3. \A t \in killed : flags'[leader[t]] = "GROUP_EXIT"
  BY Zenon, <1>1, <1>2, LeaderFacts DEF JobInv
<1>4. \A h : Threads(h)' = Threads(h) /\ find_alive_thread(h)' = find_alive_thread(h)
  BY Zenon, <1>1 DEF Threads, find_alive_thread
<1>5. ASSUME NEW h \in Leaders, flags'[h] = "STOPPED"
      PROVE  (\A t \in Threads(h) : pc[t] # "doexit") /\ find_alive_thread(h) # {}
  BY Zenon, <1>1, <1>2, <1>5, LeaderFacts DEF JobInv
<1> QED
  BY Zenon, <1>1, <1>2, <1>3, <1>4, <1>5 DEF JobInv

\* Every step keeps the facts about signals.
LEMMA JobStep == ASSUME IInv, JobInv, [Next]_vars PROVE JobInv'
<1>0. Typed /\ Control /\ Owned
  BY Zenon DEF IInv
<1> USE DEF groupVars, waitVars, linkVars
<1>1. CASE UNCHANGED vars
  BY Zenon, <1>0, <1>1, JobStill, JobMovesInv DEF vars
<1>2. ASSUME NEW t \in tree.tasks, KernelStep(t) \/ UserStep(t) PROVE JobInv'
  <2>0. t \in Task
    BY Zenon, <1>0, TreeFacts
  <2>1. CASE ExitThread(t) \/ do_group_exit(t)
    BY Zenon, <1>0, <2>0, <2>1, ExitMoves, JobMovesInv
  <2>2. CASE exit_signals(t) \/ do_exit(t)
    BY Zenon, <1>0, <2>0, <2>2, SignalsJobs, DoExitJobs
  <2>3. CASE JobControl(t)
    BY Zenon, <1>0, <2>0, <2>3, StopJobs
  <2>4. CASE Kill(t)
    <3>1. Signalled({}, {t}) /\ UNCHANGED <<tree, pc, hashed, exiting>>
      BY Zenon, <2>4 DEF Kill
    <3>2. JobMoves
      BY Zenon, <1>0, <3>1, SignalledMoves DEF JobMoves
    <3>3. QED
      BY Zenon, <1>0, <3>2, JobMovesInv
  <2>5. CASE exit_notify(t)
    <3>1. /\ \E G, K : Signalled(G, K)
          /\ UNCHANGED <<tree, hashed, exiting>>
      BY ZenonT(60), <2>5 DEF exit_notify
    <3>2. \E D : pc' = [p \in Task |-> IF p = t THEN "release"
                                     ELSE IF p \in D /\ pc[p] = "tstop"
                                     THEN "user" ELSE pc[p]]
      BY ZenonT(60), <2>5 DEF exit_notify
    <3>3. \A u \in Task : pc'[u] \in Exiting => pc'[u] = pc[u]
      BY Zenon, <3>2
    <3>4. JobMoves
      BY Zenon, <1>0, <3>1, <3>3, SignalledMoves DEF JobMoves
    <3>5. QED
      BY Zenon, <1>0, <3>4, JobMovesInv
  <2>6. CASE release_task(t)
    <3>1. PICK p \in dead[t] : hashed' = hashed \ {p}
      BY Zenon, <2>6 DEF release_task, __unhash_process
    <3>2. UNCHANGED <<tree, pc, flags, killed, exiting>>
      BY Zenon, <2>6 DEF release_task
    <3>3. p \in exiting
      BY Zenon, <1>0, <2>0, <3>1 DEF Typed, Control, Owned
    <3>4. JobMoves
      BY Zenon, <3>1, <3>2, <3>3 DEF JobMoves, JobInv
    <3>5. QED
      BY Zenon, <1>0, <3>4, JobMovesInv
  <2>7. CASE Events(t)
    <3>1. UNCHANGED <<tree, hashed, exiting, killed>>
      BY Zenon, <2>7 DEF Events
    <3>2. \/ flags' = flags
          \/ \E g : flags[g] = "CONTINUED" /\ flags' = [flags EXCEPT ![g] = ""]
      BY Zenon, <2>7 DEF Events
    <3>3. /\ flags' \in [Task -> SignalFlags]
          /\ \A g \in Task : /\ flags[g] = "GROUP_EXIT" => flags'[g] = "GROUP_EXIT"
                             /\ flags'[g] = "STOPPED" => flags[g] = "STOPPED"
      BY Zenon, <3>2 DEF JobInv, SignalFlags
    <3>4. pc' = [pc EXCEPT ![t] = "user"] \/ pc' = [pc EXCEPT ![t] = "scan"]
      BY Zenon, <2>7 DEF Events, Return
    <3>5. \A u \in Task : pc'[u] \in Exiting => pc'[u] = pc[u]
      BY Zenon, <1>0, <3>4 DEF Exiting, Typed
    <3>6. JobMoves
      BY Zenon, <3>1, <3>3, <3>5 DEF JobMoves, JobInv
    <3>7. QED
      BY Zenon, <1>0, <3>6, JobMovesInv
  <2>8. CASE \/ do_task_dead(t) \/ Awake(t) \/ Reap(t) \/ TraceStop(t) \/ TraceResume(t)
             \/ (\E p \in Task : Attach(t, p)) \/ (\E o : WaitCall(t, o))
             \/ LockScan(t) \/ wait_consider_task(t)
    <3>1. UNCHANGED <<tree, flags, killed, hashed, exiting>>
      BY Zenon, <2>8 DEF do_task_dead, Awake, Reap, TraceStop, TraceResume, Attach, WaitCall,
          LockScan, wait_consider_task
    <3>2. pc' = pc \/ \E x : pc' = [pc EXCEPT ![t] = x] /\ x \notin Exiting
      <4>1. CASE wait_consider_task(t)
        <5>1. \E b, c : pc' = [pc EXCEPT ![t] = IF b THEN "scan" ELSE IF c THEN "claim"
                                               ELSE "events"]
          BY ZenonT(60), <4>1 DEF wait_consider_task
        <5>2. QED
          BY Zenon, <5>1
      <4>2. CASE ~wait_consider_task(t)
        BY ZenonT(60), <2>8, <4>2 DEF do_task_dead, Awake, Reap, TraceStop, TraceResume, Attach,
            WaitCall, LockScan
      <4>3. QED
        BY Zenon, <4>1, <4>2
    <3>3. \A u \in Task : pc'[u] \in Exiting => pc'[u] = pc[u]
      BY Zenon, <1>0, <3>2 DEF Typed
    <3>4. QED
      BY Zenon, <1>0, <3>1, <3>3, JobStill, JobMovesInv
  <2>9. CASE Repeat(t) \/ EndScan(t) \/ Claim(t) \/ Collected(t)
    <3>1. UNCHANGED <<tree, flags, killed, hashed, exiting>>
      BY Zenon, <2>9 DEF Repeat, EndScan, Claim, Collected
    <3>2. Return(t) \/ \E x \in {"lock", "sched", "reap", "scan"} : pc' = [pc EXCEPT ![t] = x]
      BY ZenonT(60), <2>9 DEF Repeat, EndScan, Claim, Collected, NothingFound
    <3>3. \A u \in Task : pc'[u] \in Exiting => pc'[u] = pc[u]
      BY Zenon, <1>0, <3>2 DEF Typed, Return
    <3>4. QED
      BY Zenon, <1>0, <3>1, <3>3, JobStill, JobMovesInv
  <2>10. QED
    BY Zenon, <1>2, <2>1, <2>2, <2>3, <2>4, <2>5, <2>6, <2>7, <2>8, <2>9
    DEF KernelStep, UserStep, kernel_wait4, kernel_waitid
<1> QED
  BY Zenon, <1>1, <1>2 DEF Next

\* The process w still links its group pg to the session.
Connects(w, pg, rp, es) ==
    /\ w \in Leaders \cap hashed /\ pgrp(w) = pg
    /\ ~(es[w] # "0" /\ thread_group_empty(w))
    /\ leader[rp[w]] # init_task
    /\ pgrp(rp[w]) # pg /\ session(rp[w]) = session(w)

\* A death that breaks the last link of a process group to its session sends
\* SIGHUP and SIGCONT to a group with a stopped job.
LEMMA NotifyOrphans ==
    ASSUME NEW t \in Task, IInv, JobInv, exit_notify(t), NEW pg,
           SingleThreaded(pg), ~Orphaned(pg), Orphaned(pg)'
    PROVE  ~has_stopped_jobs(pg)'
<1> DEFINE tracees == {p \in hashed \cap traced : parent[p] = t}
           kids == {p \in Leaders \cap hashed : real_parent[p] = t}
           adopted == {p \in hashed : leader[p] \in kids}
           trc == traced \ tracees
           rp(r) == [p \in Task |-> IF p \in adopted THEN r ELSE real_parent[p]]
           gone == untracedDead(t, tracees)
           away(r) == IF SameGroup(r, t) THEN {} ELSE
                      {p \in kids \ gone : exit_state[p] # "DEAD"}
           told(r) == {p \in away(r) \ trc :
                          exit_state[p] = "ZOMBIE" /\ thread_group_empty(p)}
           reaped(r) == IF leader[r] \in tree.ignoring THEN told(r) ELSE {}
           all(r) == gone \cup reaped(r) \cup (IF autoreap(t, trc) THEN {t} ELSE {})
           hup(r) == {tsk \in away(r) : orphans(tsk, t, None, rp(r), exit_state)}
                     \cup {g \in {leader[t]} : /\ pc[t] = "exit_last"
                                               /\ orphans(g, rp(r)[g], g, rp(r), exit_state)}
           hanged(r) == {g \in Leaders \cap hashed : \E h \in hup(r) : pgrp(g) = pgrp(h)}
           pdeath == {leader[p] : p \in adopted \cap tree.pdeath}
<1> SUFFICES ASSUME has_stopped_jobs(pg)' PROVE FALSE
  BY Zenon
<1>0. Typed /\ Control /\ Family /\ hashed \subseteq Task
  BY Zenon, TreeFacts DEF IInv, Typed
<1>1. /\ pc[t] \in {"exit", "exit_last"}
      /\ UNCHANGED <<tree, hashed, exiting>>
  BY Zenon DEF exit_notify
<1>2. PICK reaper \in find_new_reaper(t) :
        /\ real_parent' = rp(reaper)
        /\ exit_state' = [p \in Task |-> IF p \in all(reaper) THEN "DEAD"
                                         ELSE IF p = t THEN "ZOMBIE"
                                         ELSE exit_state[p]]
        /\ Signalled(hanged(reaper), pdeath)
  BY Zenon DEF exit_notify
<1>3. t \in tree.tasks /\ t \in hashed /\ exit_state[t] = "0" /\ t # init_task
  BY Zenon, <1>0, <1>1, AliveFacts DEF Control, JobInv
<1>4. real_parent[t] # t
  <2>1. CASE leader[t] = init_task
    BY Zenon, <1>0, <1>3, <2>1 DEF Family
  <2>2. CASE leader[t] # init_task
    <3>1. /\ tree.depth[leader[real_parent[t]]] < tree.depth[leader[t]]
          /\ tree.depth[leader[t]] \in Nat
      BY Zenon, <1>0, <1>3, <2>2, TreeFacts, LeaderFacts DEF Family
    <3>2. QED
      BY <3>1, SMT
  <2>3. QED
    BY Zenon, <2>1, <2>2
<1>5. \A p \in Task : exit_state[p] = "0" /\ p # t => exit_state'[p] = "0"
  <2>1. \A p \in all(reaper) : p = t \/ exit_state[p] = "ZOMBIE"
    BY Zenon DEF untracedDead
  <2> HIDE DEF all
  <2>2. QED
    BY Zenon, <1>2, <2>1
<1>6. \A p : pgrp(p)' = pgrp(p) /\ session(p)' = session(p)
             /\ thread_group_empty(p)' = thread_group_empty(p)
  BY Zenon, <1>1 DEF pgrp, session, thread_group_empty, Threads
<1>7. PICK j \in Leaders \cap hashed : pgrp(j) = pg /\ flags'[j] = "STOPPED"
  BY Zenon, <1>1, <1>6 DEF has_stopped_jobs
<1>8. j \in Task /\ flags[j] = "STOPPED" /\ find_alive_thread(j) # {}
  BY Zenon, <1>0, <1>2, <1>7, SignalledMoves, LeaderFacts DEF JobInv
<1>9. has_stopped_jobs(pg)
  BY Zenon, <1>7, <1>8 DEF has_stopped_jobs
<1>10. PICK w : Connects(w, pg, real_parent, exit_state)
  BY Zenon DEF Orphaned, will_become_orphaned_pgrp, Connects
<1>11. \A v : ~Connects(v, pg, rp(reaper), exit_state')
  <2>1. \A v \in Leaders \cap hashed :
           pgrp(v) = pg =>
               \/ v = None
               \/ exit_state'[v] # "0" /\ thread_group_empty(v)
               \/ leader[rp(reaper)[v]] = init_task
               \/ ~(pgrp(rp(reaper)[v]) # pg /\ session(rp(reaper)[v]) = session(v))
    <3> HIDE DEF rp
    <3> QED
      BY Zenon, <1>1, <1>2, <1>6 DEF Orphaned, will_become_orphaned_pgrp
  <2>2. \A v \in Task : v # None
    BY Zenon, ExitAssumption
  <2> HIDE DEF rp
  <2>3. QED
    BY Zenon, <1>0, <2>1, <2>2 DEF Connects
<1>12. w \in Task /\ w \in Leaders /\ w \in hashed /\ pgrp(w) = pg /\ leader[w] = w
  BY Zenon, <1>0, <1>10 DEF Connects, Leaders
<1>13. \A v \in Leaders \cap hashed : pgrp(v) = pg => thread_group_empty(v)
  BY Zenon, <1>0 DEF SingleThreaded, thread_group_empty, Threads, SameGroup, Leaders, pgrp, Typed
<1>14. exit_state[w] = "0"
  BY Zenon, <1>10, <1>12, <1>13 DEF Connects
<1>15. \E h \in hup(reaper) : pgrp(h) = pg
  <2>1. CASE real_parent[w] = t
    <3>1. w \in kids /\ w \in adopted /\ w # t /\ rp(reaper)[w] = reaper
      BY Zenon, <1>4, <1>12, <2>1
    <3>2. pgrp(t) # pg /\ session(t) = session(w) /\ leader[t] # init_task
      BY Zenon, <1>10, <2>1 DEF Connects
    <3>3. ~SameGroup(reaper, t)
      <4> SUFFICES ASSUME SameGroup(reaper, t) PROVE FALSE
        BY Zenon
      <4>1. pgrp(reaper) = pgrp(t) /\ session(reaper) = session(t) /\ leader[reaper] # init_task
        BY Zenon, <3>2 DEF SameGroup, pgrp, session
      <4>2. exit_state'[w] = "0"
        BY Zenon, <1>5, <1>12, <1>14, <3>1
      <4> HIDE DEF rp
      <4>3. Connects(w, pg, rp(reaper), exit_state')
        BY Zenon, <1>12, <3>1, <3>2, <4>1, <4>2 DEF Connects
      <4>4. QED
        BY Zenon, <1>11, <4>3
    <3>4. w \in away(reaper)
      BY Zenon, <1>14, <3>1, <3>3 DEF untracedDead
    <3> HIDE DEF rp
    <3>5. will_become_orphaned_pgrp(pg, None, rp(reaper), exit_state)
      <4>1. \A v \in Leaders \cap hashed :
               pgrp(v) = pg /\ ~Connects(v, pg, rp(reaper), exit_state')
               => ~Connects(v, pg, rp(reaper), exit_state)
        BY Zenon, <1>0, <1>5, <1>13, <3>2 DEF Connects
      <4>2. QED
        BY Zenon, <1>11, <4>1 DEF will_become_orphaned_pgrp, Connects
    <3>6. orphans(w, t, None, rp(reaper), exit_state)
      BY Zenon, <1>9, <1>12, <3>2, <3>5 DEF orphans
    <3>7. QED
      BY Zenon, <1>12, <3>4, <3>6
  <2>2. CASE real_parent[w] # t
    <3>1. rp(reaper)[w] = real_parent[w]
      BY Zenon, <1>12, <2>2
    <3> HIDE DEF rp
    <3>2. w = t
      <4> SUFFICES ASSUME w # t PROVE FALSE
        BY Zenon
      <4>1. exit_state'[w] = "0"
        BY Zenon, <1>5, <1>12, <1>14
      <4>2. Connects(w, pg, rp(reaper), exit_state')
        <5>1. /\ leader[rp(reaper)[w]] = leader[real_parent[w]]
              /\ pgrp(rp(reaper)[w]) = pgrp(real_parent[w])
              /\ session(rp(reaper)[w]) = session(real_parent[w])
          BY Zenon, <3>1
        <5>2. QED
          BY Zenon, <1>10, <1>12, <4>1, <5>1 DEF Connects
      <4>3. QED
        BY Zenon, <1>11, <4>2
    <3>3. pc[t] = "exit_last"
      <4> SUFFICES ASSUME pc[t] = "exit" PROVE FALSE
        BY Zenon, <1>1
      <4>1. PICK u \in tree.tasks : u # t /\ SameGroup(u, t)
        BY Zenon DEF JobInv
      <4>2. pgrp(u) = pg
        BY Zenon, <1>12, <3>2, <4>1 DEF pgrp, SameGroup
      <4>3. QED
        BY Zenon, <1>12, <3>2, <4>1, <4>2 DEF SingleThreaded, SameGroup, Leaders
    <3>4. will_become_orphaned_pgrp(pg, t, rp(reaper), exit_state)
      <4>1. \A v \in Leaders \cap hashed :
               pgrp(v) = pg /\ v # t /\ ~Connects(v, pg, rp(reaper), exit_state')
               => ~Connects(v, pg, rp(reaper), exit_state)
        BY Zenon, <1>0, <1>5, <1>13 DEF Connects
      <4>2. QED
        BY Zenon, <1>11, <4>1 DEF will_become_orphaned_pgrp, Connects
    <3>5. orphans(leader[t], rp(reaper)[leader[t]], leader[t], rp(reaper), exit_state)
      BY Zenon, <1>9, <1>10, <1>12, <3>1, <3>2, <3>4 DEF orphans, Connects
    <3>6. QED
      BY Zenon, <1>12, <3>2, <3>3, <3>5
  <2>3. QED
    BY Zenon, <2>1, <2>2
<1>16. j \in hanged(reaper)
  <2> HIDE DEF hup
  <2> QED
    BY Zenon, <1>7, <1>15
<1> HIDE DEF hanged, pdeath
<1>17. flags'[j] # "STOPPED"
  BY Zenon, <1>2, <1>8, <1>16 DEF Signalled, Fatal
<1> QED
  BY Zenon, <1>7, <1>17

\* A process group of single-threaded processes that a death leaves orphaned
\* keeps no stopped job: exit_notify() finds it, through reparent_leader() or
\* for the dying task itself, and continues or kills what is stopped
\* (kill_orphaned_pgrp()).
THEOREM OrphansNeverStopped == Spec => OrphansNotStopped
<1> DEFINE Signals ==
      \A pg \in {pgrp(p) : p \in Leaders} :
          (SingleThreaded(pg) /\ ~Orphaned(pg) /\ Orphaned(pg)' /\ \E t \in Task : exit_notify(t))
          => ~has_stopped_jobs(pg)'
<1>1. Init => JobInv
  <2> SUFFICES ASSUME Init PROVE JobInv
    BY Zenon
  <2>1. flags \in [Task -> SignalFlags] /\ killed = {}
    BY Zenon DEF Init, SignalFlags
  <2>2. \A t \in Task : flags[t] # "STOPPED" /\ pc[t] \notin Exiting
    BY Zenon DEF Init
  <2>3. QED
    BY Zenon, <2>1, <2>2, LeaderFacts DEF JobInv
<1>2. IInv /\ JobInv /\ [Next]_vars => JobInv'
  BY Zenon, JobStep
<1>3. Spec => [](IInv /\ JobInv)
  BY <1>1, <1>2, ExitWaitInductive, PTL DEF Spec
<1>4. IInv /\ JobInv /\ [Next]_vars => [Signals]_vars
  BY Zenon, NotifyOrphans
<1>5. Spec => [][Signals]_vars
  BY <1>3, <1>4, PTL DEF Spec
<1> QED
  BY <1>5, PTL DEF OrphansNotStopped

=============================================================================
