------------------------------ MODULE ExitWait ------------------------------
(***************************************************************************)
(* The death of a task and its collection, kernel/exit.c: do_exit and      *)
(* do_group_exit, exit_notify (re-parenting, orphaned process groups,      *)
(* self-reaping), release_task, and the wait4/waitid side, do_wait, with   *)
(* its wait queue, its scan under the read-locked tasklist_lock and the    *)
(* cmpxchg by which one of several waiting threads claims a zombie.        *)
(*                                                                         *)
(* tasklist_lock: a waiting thread at "scan", "claim" or "events" holds it *)
(* for reading, so several may; a step that takes it for writing is one    *)
(* atomic action enabled when there is no reader.  What ptrace.c and       *)
(* signal.c do is modelled from the way exit.c uses it.                    *)
(***************************************************************************)
EXTENDS Naturals

CONSTANTS
    Task,         \* all tasks (threads)
    init_task,    \* the child reaper of the pid namespace; never exits
    leader,       \* [Task -> Task]: p->group_leader
    Trees,        \* initial process trees: records, see Init
    MaxWait       \* bound: calls of wait per thread

None == "none"

ASSUME ExitAssumption ==
    /\ init_task \in Task /\ None \notin Task
    /\ leader \in [Task -> Task]
    /\ \A t \in Task : leader[leader[t]] = leader[t]
    /\ leader[init_task] = init_task
    /\ MaxWait \in Nat

\* Initial trees: no orphan and no cycle, and the threads of a group have one
\* parent, as copy_process() leaves them.
ASSUME TreesAssumption ==
    \A T \in Trees :
        /\ init_task \in T.tasks /\ T.tasks \subseteq Task /\ T.parent \in [Task -> Task]
        /\ \A p \in T.tasks : /\ {leader[p], T.parent[p]} \subseteq T.tasks
                              /\ T.parent[p] = T.parent[leader[p]]
        /\ T.parent[init_task] = init_task
        /\ T.depth \in [Task -> Nat] /\ T.depth[init_task] = 0
        /\ \A p \in T.tasks : leader[p] # init_task
                                => T.depth[leader[T.parent[p]]] < T.depth[leader[p]]

VARIABLES
    tree,         \* the initial tree: what stays constant in a behaviour
    pc,           \* control point of each task
    state,        \* p->__state
    exit_state,   \* p->exit_state
    exit_code,    \* p->exit_code: the task whose call chose it, or 0
    hashed,       \* tasks not yet through __unhash_process
    exiting,      \* tasks with PF_EXITING
    real_parent, parent,
    traced,       \* tasks with p->ptrace
    cloned,       \* tasks whose exit_signal is not SIGCHLD
    flags,        \* signal->flags of each leader
    group_exit_code,
    killed,       \* tasks with a fatal signal pending
    dead,         \* tasks this task has still to release_task(), in order
    wo,           \* struct wait_opts of a waiting thread
    todo,         \* children and tracees its scan has not considered
    target,       \* the child considered, claimed or reported
    notask,       \* wo->notask_error is -ECHILD
    cutime,       \* [leader -> [task -> how often its time was added]]
    waits         \* calls of wait made

waitVars == <<wo, todo, target, notask>>
histVars == <<cutime, waits>>
groupVars == <<flags, group_exit_code, killed>>
linkVars == <<real_parent, parent, traced, cloned>>
vars == <<tree, pc, state, exit_state, exit_code, hashed, exiting, linkVars,
          groupVars, dead, waitVars, histVars>>

Leaders == {t \in Task : leader[t] = t}
SameGroup(a, b) == leader[a] = leader[b]          \* same_thread_group()

\* The process groups and sessions of the tree are those of the leaders.
pgrp(t) == tree.pgrp[leader[t]]
session(t) == tree.session[leader[t]]

-----------------------------------------------------------------------------
(* Thread groups and relations.                                            *)

Threads(p) == {t \in hashed : SameGroup(t, p)}    \* for_each_thread()
thread_group_empty(p) == Threads(p) = {p}

Never_delay_group_leader(p) == FALSE
delay_group_leader(p) == p \in Leaders /\ ~thread_group_empty(p)
ptrace_reparented(p) == ~SameGroup(real_parent[p], parent[p])

Any_find_alive_thread(p) == Threads(p) \ {p}
find_alive_thread(p) == Threads(p) \ exiting

Reading == {t \in Task : pc[t] \in {"scan", "claim", "events"}}
WriteLock == Reading = {}

-----------------------------------------------------------------------------
(* Waking the parent.  Waiting: on signal->wait_chldexit.                  *)

Waiting == {t \in Task : pc[t] \in {"wait", "lock", "scan", "claim", "events",
                                    "sched"}}

\* o.type: any child (MAX), one task (PID), a process group (PGID).
eligible_pid(o, p) ==
    \/ o.type = "MAX"
    \/ o.type = "PID" /\ o.pid = p
    \/ o.type = "PGID" /\ o.pid = pgrp(p)

eligible_child(o, ptrace, p) ==
    /\ eligible_pid(o, p)
    /\ \/ ptrace
       \/ "WALL" \in o.flags
       \/ (p \in cloned) = ("WCLONE" \in o.flags)

Thread_Woken(p, q) == {w \in Waiting : w = q /\ eligible_pid(wo[w], p)}

\* __wake_up_parent() on p's parent q: the threads child_wait_callback() wakes.
Woken(p, q) ==
    {w \in Waiting : /\ SameGroup(w, q)
                     /\ eligible_pid(wo[w], p)
                     /\ "WNOTHREAD" \in wo[w].flags => w = q}

WakeAll(W) == [t \in Task |-> IF t \in W THEN "RUNNING" ELSE state[t]]

\* do_notify_parent(): whether the parent q of the untraced p, told by
\* SIGCHLD, wants no zombie.
autoreaps(p, q) == p \notin cloned /\ leader[q] \in tree.ignoring

-----------------------------------------------------------------------------
(* do_group_exit() and do_exit() up to exit_notify().                      *)

Running(t) == pc[t] = "user" /\ t \notin killed /\ flags[leader[t]] # "STOPPED"

\* sys_exit: only this thread.
ExitThread(t) ==
    /\ Running(t) /\ t # init_task
    /\ pc' = [pc EXCEPT ![t] = "doexit"]
    /\ exit_code' = [exit_code EXCEPT ![t] = t]
    /\ UNCHANGED <<tree, state, exit_state, hashed, exiting, linkVars, groupVars,
                   dead, waitVars, histVars>>

\* do_group_exit(): called by exit_group and, with a fatal signal pending, on
\* the way to user mode.  The first caller decides the code and kills the rest.
do_group_exit(t) ==
    LET g == leader[t]
        first == flags[g] # "GROUP_EXIT" /\ Threads(t) # {t}
    IN  /\ t # init_task
        /\ Running(t) \/ (t \in killed /\ pc[t] \in {"user", "tstop"})
        /\ pc' = [pc EXCEPT ![t] = "doexit"]
        /\ exit_code' = [exit_code EXCEPT ![t] =
                             IF flags[g] = "GROUP_EXIT" THEN group_exit_code[g] ELSE t]
        /\ flags' = IF first THEN [flags EXCEPT ![g] = "GROUP_EXIT"] ELSE flags
        /\ group_exit_code' = IF first THEN [group_exit_code EXCEPT ![g] = t]
                                       ELSE group_exit_code
        /\ killed' = IF first THEN killed \cup (Threads(t) \ ({t} \cup exiting))
                              ELSE killed
        /\ state' = IF first THEN WakeAll(Threads(t)) ELSE state
        /\ UNCHANGED <<tree, exit_state, hashed, exiting, linkVars, dead,
                       waitVars, histVars>>

\* do_exit() calls exit_signals(): PF_EXITING, no alive thread any more.
exit_signals(t) ==
    /\ pc[t] = "doexit"
    /\ pc' = [pc EXCEPT ![t] = "live"]
    /\ exiting' = exiting \cup {t}
    /\ killed' = killed \ {t}
    /\ UNCHANGED <<tree, state, exit_state, exit_code, hashed, linkVars, flags,
                   group_exit_code, dead, waitVars, histVars>>

\* signal->live: the threads that have not decremented it.
live(t) == {u \in Threads(t) : u \notin exiting \/ pc[u] = "live"}

\* do_exit() after exit_signals(): atomic_dec_and_test(&signal->live) tells
\* whether the task is the last of its group (group_dead).
do_exit(t) ==
    /\ pc[t] = "live"
    /\ pc' = [pc EXCEPT ![t] = IF live(t) # {t} THEN "exit" ELSE "exit_last"]
    /\ UNCHANGED <<tree, state, exit_state, exit_code, hashed, exiting, linkVars,
                   groupVars, dead, waitVars, histVars>>

-----------------------------------------------------------------------------
(* exit_notify().                                                          *)

\* The candidates: another thread of father's group, else of the nearest
\* ancestor that is a child_subreaper, else init.  (Which thread is the order
\* of the thread list.)  The loop visits the smallest set closed under "go on",
\* and ends at the one task of it where it does not.
find_new_reaper(father) ==
    LET passed(r) == r # init_task /\ (leader[r] \notin tree.subreaper
                                       \/ find_alive_thread(r) = {})
        closed(S) == /\ real_parent[father] \in S
                     /\ \A r \in S : passed(r) => real_parent[r] \in S
        visited == {r \in hashed : \A S \in SUBSET hashed : closed(S) => r \in S}
        ends == {r \in visited : ~passed(r)}
    IN  IF find_alive_thread(father) # {} THEN find_alive_thread(father)
        ELSE UNION {IF r = init_task THEN {r} ELSE find_alive_thread(r) : r \in ends}

has_stopped_jobs(pg) ==
    \E p \in Leaders \cap hashed : pgrp(p) = pg /\ flags[p] = "STOPPED"

\* With the parents rp and exit states es of the moment.
will_become_orphaned_pgrp(pg, ignored, rp, es) ==
    \A p \in Leaders \cap hashed :
        pgrp(p) = pg =>
            \/ p = ignored
            \/ es[p] # "0" /\ thread_group_empty(p)
            \/ leader[rp[p]] = init_task                \* is_global_init()
            \/ ~(pgrp(rp[p]) # pg /\ session(rp[p]) = session(p))

Itself_orphans(tsk, q, ignored, rp, es) ==
    /\ pgrp(q) # pgrp(tsk)
    /\ session(q) = session(tsk)
    /\ will_become_orphaned_pgrp(pgrp(tsk), None, rp, es)
    /\ has_stopped_jobs(pgrp(tsk))

\* kill_orphaned_pgrp(tsk, parent) sends SIGHUP and SIGCONT to tsk's group.
orphans(tsk, q, ignored, rp, es) ==
    /\ pgrp(q) # pgrp(tsk)
    /\ session(q) = session(tsk)
    /\ will_become_orphaned_pgrp(pgrp(tsk), ignored, rp, es)
    /\ has_stopped_jobs(pgrp(tsk))

\* A fatal signal to the processes G: complete_signal() marks the group exit
\* and kills every thread.
Fatal(G) == {g \in G : flags[g] # "GROUP_EXIT" /\ find_alive_thread(g) # {}}
Victims(G) == {t \in hashed \ exiting : leader[t] \in Fatal(G)}

\* SIGHUP, then SIGCONT, to the processes G, and SIGKILL to K: those without a
\* handler die, the others continue.
Signalled(G, K) ==
    LET dying == Fatal((G \ tree.handlesHup) \cup K)
        resumed == {g \in G \cap tree.handlesHup : flags[g] = "STOPPED"}
    IN  /\ flags' = [g \in Task |-> IF g \in dying THEN "GROUP_EXIT"
                                    ELSE IF g \in resumed THEN "CONTINUED"
                                    ELSE flags[g]]
        /\ group_exit_code' = [g \in Task |-> IF g \in dying THEN "SIG"
                                              ELSE IF g \in resumed THEN None
                                              ELSE group_exit_code[g]]
        /\ killed' = killed \cup Victims(dying)

\* exit_ptrace(): the zombies among the tracees that are to be released.
untracedDead(t, tracees) ==
    {p \in tracees :
        /\ exit_state[p] = "ZOMBIE"
        /\ p \in Leaders => /\ thread_group_empty(p)
                            /\ \/ autoreaps(p, real_parent[p])
                               \/ /\ SameGroup(real_parent[p], t)
                                  /\ leader[t] \in tree.ignoring}

Parent_autoreap(t, trc) ==
    t \notin trc /\ thread_group_empty(t) /\ autoreaps(t, real_parent[t])

\* Whether t, untraced now unless in trc, releases itself: a leader asks the
\* parent, another thread needs nobody.
autoreap(t, trc) ==
    /\ t \notin trc
    /\ t \in Leaders => thread_group_empty(t) /\ autoreaps(t, real_parent[t])

\* The whole write-locked section: untrace, adopt the children out, tell the
\* parents, signal newly orphaned process groups, become a zombie.
exit_notify(t) ==
    /\ pc[t] \in {"exit", "exit_last"}
    /\ WriteLock
    /\ \E reaper \in find_new_reaper(t) :
         LET tracees == {p \in hashed \cap traced : parent[p] = t}
             kids == {p \in Leaders \cap hashed : real_parent[p] = t}
             adopted == {p \in hashed : leader[p] \in kids}
             trc == traced \ tracees
             rp == [p \in Task |-> IF p \in adopted THEN reaper ELSE real_parent[p]]
             par == [p \in Task |-> IF p \in tracees \/ p \in adopted \ trc
                                    THEN rp[p] ELSE parent[p]]
             gone == untracedDead(t, tracees)
             away == IF SameGroup(reaper, t) THEN {} ELSE
                     {p \in kids \ gone : exit_state[p] # "DEAD"}
             told == {p \in away \ trc :
                         exit_state[p] = "ZOMBIE" /\ thread_group_empty(p)}
             reaped == IF leader[reaper] \in tree.ignoring THEN told ELSE {}
             selfTold == t \in trc \/ (t \in Leaders /\ thread_group_empty(t))
             all == gone \cup reaped \cup (IF autoreap(t, trc) THEN {t} ELSE {})
             handed == {p \in tracees \ gone : /\ p \in Leaders
                                               /\ exit_state[p] = "ZOMBIE"
                                               /\ thread_group_empty(p)
                                               /\ ~SameGroup(real_parent[p], t)}
             hup == {tsk \in away : orphans(tsk, t, None, rp, exit_state)}
                    \cup {g \in {leader[t]} : /\ pc[t] = "exit_last"
                                              /\ orphans(g, rp[g], g, rp, exit_state)}
             hanged == {g \in Leaders \cap hashed : \E h \in hup : pgrp(g) = pgrp(h)}
             pdeath == {leader[p] : p \in adopted \cap tree.pdeath}
         IN  /\ real_parent' = rp
             /\ parent' = par
             /\ traced' = trc
             /\ cloned' = cloned \ away
             /\ exit_state' = [p \in Task |-> IF p \in all THEN "DEAD"
                                              ELSE IF p = t THEN "ZOMBIE"
                                              ELSE exit_state[p]]
             /\ Signalled(hanged, pdeath)
             /\ state' = WakeAll(UNION {Woken(p, real_parent[p]) : p \in gone \cup handed}
                                 \cup UNION {Woken(p, reaper) : p \in told}
                                 \cup (IF selfTold THEN Woken(t, par[t]) ELSE {})
                                 \cup UNION {Woken(p, par[p]) : p \in hanged}
                                 \cup Victims((hanged \ tree.handlesHup) \cup pdeath))
             /\ dead' = [dead EXCEPT ![t] = all]
             /\ pc' = [p \in Task |-> IF p = t THEN "release"
                                      ELSE IF p \in tracees /\ pc[p] = "tstop"
                                      THEN "user" ELSE pc[p]]
    /\ UNCHANGED <<tree, exit_code, hashed, exiting, waitVars, histVars>>

-----------------------------------------------------------------------------
(* release_task().                                                         *)

Not_unhash_process(p) == hashed' = hashed

__unhash_process(p) == hashed' = hashed \ {p}

\* One round of release_task() by t for p: p is untraced and unhashed; when it
\* was the last sub-thread and the leader is already a zombie the leader's
\* parent is told now, and if it wants no zombie t releases the leader too.
\* A releasing task leaves "release" when nothing is left: a dying one for
\* do_task_dead(), a waiting one for its caller.
release_task(t) ==
    /\ pc[t] = "release"
    /\ WriteLock
    /\ \E p \in dead[t] :
         LET l == leader[p]
             last == /\ l # p
                     /\ Threads(p) \ {p} = {l}
                     /\ exit_state[l] = "ZOMBIE"
             zap == last /\ l \notin traced /\ autoreaps(l, parent[l])
         IN  /\ __unhash_process(p)
             /\ traced' = traced \ {p}
             /\ parent' = [parent EXCEPT ![p] = real_parent[p]]
             /\ exit_state' = IF zap THEN [exit_state EXCEPT ![l] = "DEAD"] ELSE exit_state
             /\ dead' = [dead EXCEPT ![t] = (@ \ {p}) \cup (IF zap THEN {l} ELSE {})]
             /\ state' = IF last THEN WakeAll(Woken(l, parent[l])) ELSE state
    /\ UNCHANGED <<tree, pc, exit_code, exiting, real_parent, cloned, groupVars,
                   waitVars, histVars>>

\* do_exit() after exit_notify(): do_task_dead().
do_task_dead(t) ==
    /\ pc[t] = "release" /\ dead[t] = {} /\ t \in exiting
    /\ pc' = [pc EXCEPT ![t] = "dead"]
    /\ UNCHANGED <<tree, state, exit_state, exit_code, hashed, exiting, linkVars,
                   groupVars, dead, waitVars, histVars>>

-----------------------------------------------------------------------------
(* do_wait().                                                              *)

\* Both calls end in do_wait(), which joins the wait queue of the group.
WaitCall(t, o) ==
    /\ Running(t) /\ waits[t] < MaxWait
    /\ pc' = [pc EXCEPT ![t] = "wait"]
    /\ wo' = [wo EXCEPT ![t] = o]
    /\ waits' = [waits EXCEPT ![t] = @ + 1]
    /\ UNCHANGED <<tree, state, exit_state, exit_code, hashed, exiting, linkVars,
                   groupVars, dead, todo, target, notask, cutime>>

kernel_wait4(t, o) ==
    "WEXITED" \in o.flags /\ "WNOWAIT" \notin o.flags /\ WaitCall(t, o)

kernel_waitid(t, o) ==
    o.flags \cap {"WEXITED", "WUNTRACED", "WCONTINUED"} # {} /\ WaitCall(t, o)

\* Leaves do_wait(): TASK_RUNNING, off the wait queue.
Return(t) ==
    /\ pc' = [pc EXCEPT ![t] = "user"]
    /\ state' = [state EXCEPT ![t] = "RUNNING"]
    /\ wo' = [wo EXCEPT ![t] = None]
    /\ todo' = [todo EXCEPT ![t] = {}]
    /\ target' = [target EXCEPT ![t] = None]
    /\ notask' = [notask EXCEPT ![t] = TRUE]

\* What is left when nothing was found: -ECHILD, 0 for WNOHANG, -ERESTARTSYS
\* with a signal pending, else schedule().
NothingFound(t, none) ==
    \/ /\ none \/ "WNOHANG" \in wo[t].flags \/ t \in killed
       /\ Return(t)
    \/ /\ ~none /\ "WNOHANG" \notin wo[t].flags /\ t \notin killed
       /\ pc' = [pc EXCEPT ![t] = "sched"]
       /\ UNCHANGED <<state, waitVars>>

\* A process group has the leaders in it (attach_pid()).
pid_has_task(pid, type) ==
    IF type = "PID" THEN pid \in hashed
    ELSE \E p \in Leaders \cap hashed : pgrp(p) = pid

\* repeat: a pid or group without a task is -ECHILD; otherwise
\* TASK_INTERRUPTIBLE, before any child is looked at.
Repeat(t) ==
    /\ pc[t] = "wait"
    /\ IF wo[t].type # "MAX" /\ ~pid_has_task(wo[t].pid, wo[t].type)
       THEN NothingFound(t, TRUE)
       ELSE /\ pc' = [pc EXCEPT ![t] = "lock"]
            /\ state' = [state EXCEPT ![t] = "INTERRUPTIBLE"]
            /\ UNCHANGED waitVars
    /\ UNCHANGED <<tree, exit_state, exit_code, hashed, exiting, linkVars,
                   groupVars, dead, histVars>>

\* The children (ptrace = FALSE) and tracees (TRUE) the scan will look at: of
\* the caller's whole group, or of the caller alone with __WNOTHREAD.
Candidates(t) ==
    LET mine(q) == IF "WNOTHREAD" \in wo[t].flags THEN q = t ELSE SameGroup(q, t)
    IN  {c \in BOOLEAN \X hashed :
            /\ eligible_pid(wo[t], c[2])
            /\ IF c[1] THEN c[2] \in traced /\ mine(parent[c[2]])
                       ELSE c[2] \in Leaders /\ mine(real_parent[c[2]])}

\* read_lock(&tasklist_lock): the lists cannot change before it is released.
LockScan(t) ==
    /\ pc[t] = "lock"
    /\ pc' = [pc EXCEPT ![t] = "scan"]
    /\ todo' = [todo EXCEPT ![t] = Candidates(t)]
    /\ notask' = [notask EXCEPT ![t] = TRUE]
    /\ UNCHANGED <<tree, state, exit_state, exit_code, hashed, exiting, linkVars,
                   groupVars, dead, wo, target, histVars>>

Tracer_Hope(t, c, ptrace) ==
    /\ eligible_child(wo[t], c[1], c[2])
    /\ exit_state[c[2]] = "ZOMBIE" => ptrace /\ wo[t].flags \cap {"WCONTINUED", "WEXITED"} # {}
    /\ exit_state[c[2]] # "TRACE" \/ ~c[1]

\* A child that wait_consider_task() does not collect and that may still report
\* something clears -ECHILD: for the tracer a zombie only if asked for.
Hope(t, c, ptrace) ==
    /\ eligible_child(wo[t], c[1], c[2])
    /\ exit_state[c[2]] = "ZOMBIE" /\ ptrace =>
           wo[t].flags \cap {"WCONTINUED", "WEXITED"} # {}
    /\ exit_state[c[2]] # "TRACE" \/ ~c[1]

\* wait_consider_task() up to the point where it acts: a zombie to claim, or
\* stopped and continued state to look at, or nothing.
wait_consider_task(t) ==
    /\ pc[t] = "scan"
    /\ \E c \in todo[t] :
         LET p == c[2]
             es == exit_state[p]
             ptrace == c[1] \/ (p \in traced /\ ~ptrace_reparented(p))
             skip == es = "DEAD" \/ ~eligible_child(wo[t], c[1], p) \/ es = "TRACE"
             slay == /\ es = "ZOMBIE"
                     /\ ~delay_group_leader(p)
                     /\ ptrace \/ p \notin traced
             hope == es # "DEAD" /\ ~slay /\ Hope(t, c, ptrace)
         IN  /\ todo' = [todo EXCEPT ![t] = @ \ {c}]
             /\ pc' = [pc EXCEPT ![t] = IF skip \/ (slay /\ "WEXITED" \notin wo[t].flags)
                                        THEN "scan"
                                        ELSE IF slay THEN "claim" ELSE "events"]
             /\ target' = [target EXCEPT ![t] = <<ptrace, p>>]
             /\ notask' = [notask EXCEPT ![t] = @ /\ ~hope]
    /\ UNCHANGED <<tree, state, exit_state, exit_code, hashed, exiting, linkVars,
                   groupVars, dead, wo, histVars>>

\* The scan has seen every child.
EndScan(t) ==
    /\ pc[t] = "scan" /\ todo[t] = {}
    /\ NothingFound(t, notask[t])
    /\ UNCHANGED <<tree, exit_state, exit_code, hashed, exiting, linkVars,
                   groupVars, dead, histVars>>

\* schedule() returns once the state is TASK_RUNNING or a signal is pending.
Awake(t) ==
    /\ pc[t] = "sched"
    /\ state[t] = "RUNNING" \/ t \in killed
    /\ pc' = [pc EXCEPT ![t] = "wait"]
    /\ UNCHANGED <<tree, state, exit_state, exit_code, hashed, exiting, linkVars,
                   groupVars, dead, waitVars, histVars>>

Always_Wins(p) == TRUE

\* cmpxchg(&p->exit_state, EXIT_ZOMBIE, state) succeeds.
Wins(p) == exit_state[p] = "ZOMBIE"

\* wait_task_zombie() under the read lock: with WNOWAIT only a look; else the
\* cmpxchg on exit_state, which one thread wins.
Claim(t) ==
    LET p == target[t][2] IN
    /\ pc[t] = "claim"
    /\ \/ /\ "WNOWAIT" \in wo[t].flags
          /\ Return(t)
          /\ UNCHANGED exit_state
       \/ /\ "WNOWAIT" \notin wo[t].flags
          /\ IF Wins(p)
             THEN /\ exit_state' = [exit_state EXCEPT ![p] =
                         IF ptrace_reparented(p) /\ p \in Leaders
                         THEN "TRACE" ELSE "DEAD"]
                  /\ pc' = [pc EXCEPT ![t] = "reap"]
             ELSE /\ pc' = [pc EXCEPT ![t] = "scan"]
                  /\ UNCHANGED exit_state
          /\ UNCHANGED <<state, waitVars>>
    /\ UNCHANGED <<tree, exit_code, hashed, exiting, linkVars, groupVars, dead,
                   histVars>>

\* wait_task_zombie() after the unlock, for the thread that won: the times of
\* the group, and of the children it had reaped, go to the parent's group.
\* EXIT_TRACE: under the write lock the tracer lets go and the real parent is
\* told; it gets the zombie unless it wants none.
Reap(t) ==
    LET p == target[t][2]
        toParent == exit_state[p] = "TRACE"
        keep == toParent /\ ~autoreaps(p, real_parent[p])
    IN  /\ pc[t] = "reap"
        /\ toParent => WriteLock
        /\ cutime' = IF toParent \/ p \notin Leaders THEN cutime ELSE
               [cutime EXCEPT ![leader[t]] = [u \in Task |->
                    @[u] + cutime[p][u] + (IF leader[u] = p /\ u \in tree.tasks
                                           THEN 1 ELSE 0)]]
        /\ exit_state' = IF toParent THEN [exit_state EXCEPT ![p] =
                                               IF keep THEN "ZOMBIE" ELSE "DEAD"]
                                     ELSE exit_state
        /\ traced' = IF toParent THEN traced \ {p} ELSE traced
        /\ parent' = IF toParent THEN [parent EXCEPT ![p] = real_parent[p]] ELSE parent
        /\ state' = IF toParent THEN WakeAll(Woken(p, real_parent[p])) ELSE state
        /\ dead' = [dead EXCEPT ![t] = IF keep THEN {} ELSE {p}]
        /\ pc' = [pc EXCEPT ![t] = "release"]
        /\ UNCHANGED <<tree, exit_code, hashed, exiting, real_parent, cloned,
                       groupVars, waitVars, waits>>

\* do_wait() returns the pid of the child it collected.
Collected(t) ==
    /\ pc[t] = "release" /\ dead[t] = {} /\ t \notin exiting
    /\ Return(t)
    /\ UNCHANGED <<tree, exit_state, exit_code, hashed, exiting, linkVars,
                   groupVars, dead, histVars>>

\* wait_task_stopped() and wait_task_continued(), each under the siglock of the
\* child: a stop is reported once, a continue is reported once.
Events(t) ==
    LET p == target[t][2]
        g == leader[p]
        ptrace == target[t][1]
        take == "WNOWAIT" \notin wo[t].flags
        trap == ptrace /\ pc[p] = "tstop" /\ exit_code[p] # None
        stop == /\ ~ptrace /\ "WUNTRACED" \in wo[t].flags
                /\ flags[g] = "STOPPED" /\ group_exit_code[g] # None
        cont == "WCONTINUED" \in wo[t].flags /\ flags[g] = "CONTINUED"
    IN  /\ pc[t] = "events"
        /\ exit_code' = IF trap /\ take THEN [exit_code EXCEPT ![p] = None] ELSE exit_code
        /\ group_exit_code' = IF stop /\ take
                              THEN [group_exit_code EXCEPT ![g] = None]
                              ELSE group_exit_code
        /\ flags' = IF cont /\ ~trap /\ ~stop /\ take
                    THEN [flags EXCEPT ![g] = ""] ELSE flags
        /\ IF trap \/ stop \/ cont
           THEN Return(t)
           ELSE /\ pc' = [pc EXCEPT ![t] = "scan"]
                /\ UNCHANGED <<state, waitVars>>
        /\ UNCHANGED <<tree, exit_state, hashed, exiting, linkVars, killed, dead,
                       histVars>>

-----------------------------------------------------------------------------
(* What signal.c and ptrace.c do to the state exit.c works on (external).  *)

\* Job control stops and continues a process, and tells its parent.
JobControl(g) ==
    /\ tree.jobctl
    /\ g \in (Leaders \cap hashed) \ {init_task}
    /\ find_alive_thread(g) # {}
    /\ \A t \in Threads(g) : pc[t] # "doexit"
    /\ \/ /\ flags[g] \in {"", "CONTINUED"}
          /\ flags' = [flags EXCEPT ![g] = "STOPPED"]
          /\ group_exit_code' = [group_exit_code EXCEPT ![g] = "STOP"]
       \/ /\ flags[g] = "STOPPED"
          /\ flags' = [flags EXCEPT ![g] = "CONTINUED"]
          /\ group_exit_code' = [group_exit_code EXCEPT ![g] = None]
    /\ state' = WakeAll(Woken(g, parent[g]))
    /\ UNCHANGED <<tree, pc, exit_state, exit_code, hashed, exiting, linkVars,
                   killed, dead, waitVars, histVars>>

\* A fatal signal.
Kill(g) ==
    /\ tree.jobctl
    /\ g \in Fatal(Leaders \ {init_task})
    /\ Signalled({}, {g})
    /\ state' = WakeAll(Victims({g}))
    /\ UNCHANGED <<tree, pc, exit_state, exit_code, hashed, exiting, linkVars,
                   dead, waitVars, histVars>>

Attach(d, p) ==
    /\ <<d, p>> \in tree.attach /\ Running(d) /\ WriteLock
    /\ p \in hashed \ (traced \cup {init_task})
    /\ exit_state[p] = "0" /\ ~SameGroup(d, p)
    /\ traced' = traced \cup {p}
    /\ parent' = [parent EXCEPT ![p] = d]
    /\ UNCHANGED <<tree, pc, state, exit_state, exit_code, hashed, exiting,
                   real_parent, cloned, groupVars, dead, waitVars, histVars>>

TraceStop(p) ==
    /\ p \in traced /\ Running(p)
    /\ pc' = [pc EXCEPT ![p] = "tstop"]
    /\ exit_code' = [exit_code EXCEPT ![p] = "TRAP"]
    /\ state' = WakeAll(Woken(p, parent[p]))
    /\ UNCHANGED <<tree, exit_state, hashed, exiting, linkVars, groupVars, dead,
                   waitVars, histVars>>

\* PTRACE_CONT, or PTRACE_DETACH.
TraceResume(p) ==
    /\ pc[p] = "tstop" /\ p \in traced /\ Running(parent[p]) /\ WriteLock
    /\ pc' = [pc EXCEPT ![p] = "user"]
    /\ \/ UNCHANGED <<traced, parent>>
       \/ /\ traced' = traced \ {p}
          /\ parent' = [parent EXCEPT ![p] = real_parent[p]]
    /\ UNCHANGED <<tree, state, exit_state, exit_code, hashed, exiting,
                   real_parent, cloned, groupVars, dead, waitVars, histVars>>

-----------------------------------------------------------------------------

Init ==
    /\ tree \in Trees
    /\ pc = [t \in Task |-> "user"]
    /\ state = [t \in Task |-> "RUNNING"]
    /\ exit_state = [t \in Task |-> "0"]
    /\ exit_code = [t \in Task |-> None]
    /\ hashed = tree.tasks
    /\ exiting = {}
    /\ real_parent = tree.parent
    /\ parent = tree.parent
    /\ traced = {}
    /\ cloned = tree.cloned
    /\ flags = [t \in Task |-> ""]
    /\ group_exit_code = [t \in Task |-> None]
    /\ killed = {}
    /\ dead = [t \in Task |-> {}]
    /\ wo = [t \in Task |-> None]
    /\ todo = [t \in Task |-> {}]
    /\ target = [t \in Task |-> None]
    /\ notask = [t \in Task |-> TRUE]
    /\ cutime = [g \in Task |-> [t \in Task |-> 0]]
    /\ waits = [t \in Task |-> 0]

\* Steps the kernel takes for a task once user code has called it.
KernelStep(t) ==
    \/ exit_signals(t)
    \/ do_exit(t)
    \/ exit_notify(t)
    \/ release_task(t)
    \/ do_task_dead(t)
    \/ Repeat(t)
    \/ LockScan(t)
    \/ wait_consider_task(t)
    \/ EndScan(t)
    \/ Awake(t)
    \/ Claim(t)
    \/ Reap(t)
    \/ Collected(t)
    \/ Events(t)

UserStep(t) ==
    \/ ExitThread(t)
    \/ do_group_exit(t)
    \/ \E o \in tree.waits[t] : kernel_wait4(t, o) \/ kernel_waitid(t, o)
    \/ JobControl(t)
    \/ Kill(t)
    \/ \E p \in Task : Attach(t, p)
    \/ TraceStop(t)
    \/ TraceResume(t)

Next == \E t \in tree.tasks : KernelStep(t) \/ UserStep(t)

Spec == Init /\ [][Next]_vars

-----------------------------------------------------------------------------
(* Properties.                                                             *)

Owners(p) == {t \in Task : p \in dead[t] \/ (pc[t] = "reap" /\ target[t][2] = p)}

\* A group leader is released after all other threads of its group
\* (delay_group_leader(), release_task()'s hand-over to the leader).
LeaderLast ==
    \A p \in tree.tasks \cap Leaders :
        p \notin hashed => Threads(p) = {}

\* The parent and the tracer of a task in the table are tasks in the table that
\* have not been through exit_notify(), and one task unless it is traced (the
\* BUG_ON in forget_original_parent()): nobody is left to a parent that is gone.
ParentsAlive ==
    \A p \in hashed :
        /\ {real_parent[p], parent[p]} \subseteq hashed
        /\ exit_state[real_parent[p]] = "0" /\ exit_state[parent[p]] = "0"
        /\ p \notin traced => parent[p] = real_parent[p]

\* Nobody waits for these, and they do not stay zombies: a sub-thread without a
\* debugger, and an untraced child, with no thread left, of a parent that
\* ignores SIGCHLD, in whatever order threads, debugger and parent go.
AutoReaped ==
    \A p \in hashed :
        exit_state[p] = "ZOMBIE" /\ p \notin traced =>
            /\ p \in Leaders
            /\ thread_group_empty(p) /\ p \notin cloned
               => leader[real_parent[p]] \notin tree.ignoring

Asleep(w) == pc[w] = "sched" /\ state[w] = "INTERRUPTIBLE" /\ w \notin killed

\* What wait_task_zombie() would take for w.
Reapable(w, c) ==
    LET p == c[2] IN
    /\ "WEXITED" \in wo[w].flags
    /\ eligible_child(wo[w], c[1], p)
    /\ exit_state[p] = "ZOMBIE" /\ ~delay_group_leader(p)
    /\ c[1] \/ p \notin traced \/ ~ptrace_reparented(p)

\* No other thread of w's group is a debugger.
SoleTracer(w) == \A a \in tree.attach : SameGroup(a[1], w) => a[1] = w

\* A thread sleeps in do_wait() only while there is something to wait for and
\* no zombie it could reap: the wake-up is not lost between the scan and
\* schedule(), nor when children and tracees change hands.  (The first half
\* unless another thread traces: when that one dies exit_ptrace() detaches its
\* tracees and tells nobody in its group.  The second half for waits of the whole
\* group: after "a threaded reparent" a sleeping __WNOTHREAD waiter is not told of
\* the zombies it inherits.)
NoLostWakeup ==
    \A w \in Task : Asleep(w) =>
        /\ SoleTracer(w) => \E c \in Candidates(w) : exit_state[c[2]] # "DEAD"
        /\ "WNOTHREAD" \notin wo[w].flags => ~\E c \in Candidates(w) : Reapable(w, c)

\* The times of every task are added to the times of a waiting group at most
\* once, with several threads of it waiting.
TimesAddedOnce == \A g \in Task : \A t \in Task : cutime[g][t] <= 1

\* -ECHILD is returned only when every eligible child and tracee is already
\* being released.
EchildMeansNone ==
    [][\A t \in Task :
           EndScan(t) /\ notask[t] /\ pc'[t] = "user"
           => \A c \in Candidates(t) :
                  eligible_child(wo[t], c[1], c[2]) /\ "WEXITED" \in wo[t].flags
                  => exit_state[c[2]] \in {"DEAD", "TRACE"}]_vars

Orphaned(pg) == will_become_orphaned_pgrp(pg, None, real_parent, exit_state)

SingleThreaded(pg) == \A p \in tree.tasks : pgrp(p) = pg => p \in Leaders

\* A process group that a death leaves orphaned keeps no stopped job
\* (POSIX 3.2.2.2, kill_orphaned_pgrp()).  Of processes with one thread: with
\* several, the last to reach do_exit() signals the group, and when the leader
\* comes to exit_notify() after it a job stopped in between stays stopped.
OrphansNotStopped ==
    [][\A pg \in {pgrp(p) : p \in Leaders} :
           (SingleThreaded(pg) /\ ~Orphaned(pg) /\ Orphaned(pg)' /\ \E t \in Task : exit_notify(t))
           => ~has_stopped_jobs(pg)']_vars

lifeOf(p) ==
    IF p \notin hashed THEN "gone"
    ELSE CASE exit_state[p] = "0" -> "alive"
           [] exit_state[p] = "ZOMBIE" -> "zombie"
           [] OTHER -> "claimed"

\* The one task that is to release p.
ownerOf(p) ==
    LET O == Owners(p) IN IF \E t \in O : O = {t} THEN CHOOSE t \in O : TRUE ELSE None

Table(p) == INSTANCE ChildTable WITH life <- lifeOf(p), collector <- ownerOf(p)

\* exit.c implements the life of a child as its parent knows it: whatever the
\* interleaving of dying threads, waiting threads and debuggers, a zombie is
\* claimed by exactly one task, no other takes it from there, it is freed once,
\* and nothing dead is left in the table with nobody to release it.
ImplementsTable ==
    /\ \A p \in Task : Table(p)!Init
    /\ [][\A p \in Task : [Table(p)!Next]_<<lifeOf(p), ownerOf(p)>>]_vars

=============================================================================
