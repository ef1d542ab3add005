----------------------------- MODULE MCExitWait -----------------------------
(***************************************************************************)
(* Instances of ExitWait.                                                  *)
(***************************************************************************)
EXTENDS ExitWait

Tasks == {"init", "p1", "p2", "c1", "c2", "d"}

leaderOf == [t \in Tasks |-> CASE t \in {"p1", "p2"} -> "p1"
                               [] t \in {"c1", "c2"} -> "c1"
                               [] OTHER -> t]

parentOf == [t \in Tasks |-> IF t \in {"c1", "c2"} THEN "p1" ELSE "init"]

depthOf == [t \in Tasks |-> CASE t = "init" -> 0
                              [] t \in {"p1", "p2"} -> 1
                              [] t \in {"c1", "c2"} -> 2
                              [] OTHER -> 3]

AnyChild(f) == [type |-> "MAX", pid |-> None, flags |-> {"WEXITED"} \cup f]

\* A tree of the tasks T in which W wait for any child.
Tree(T, W) ==
    [tasks |-> T, parent |-> parentOf, depth |-> depthOf,
     pgrp |-> [t \in Tasks |-> t], session |-> [t \in Tasks |-> "s"],
     waits |-> [t \in Tasks |-> IF t \in W THEN {AnyChild({})} ELSE {}],
     ignoring |-> {}, subreaper |-> {}, handlesHup |-> {}, pdeath |-> {},
     cloned |-> {}, attach |-> {}, jobctl |-> FALSE]

\* Two threads wait for one child.
WaitingPair == Tree({"init", "p1", "p2", "c1"}, {"p1", "p2"})

\* The same while the two threads of their child, and they, exit.
ThreadTree == Tree({"init", "p1", "p2", "c1", "c2"}, {"p1", "p2"})

\* The parent, and init after it, ignore SIGCHLD.
IgnoringTree == [Tree({"init", "p1", "c1", "c2"}, {"p1"}) EXCEPT
                     !.ignoring = {"p1", "init"}]

\* A debugger beside the parent, both waiting.
TracedTree == [Tree({"init", "p1", "c1", "d"}, {"p1", "d"}) EXCEPT
                   !.attach = {<<"d", "c1">>, <<"d", "p1">>}]

\* The debugger of a sub-thread.
TracedThreads == [Tree({"init", "p1", "c1", "c2", "d"}, {"d"}) EXCEPT
                      !.attach = {<<"d", "c2">>}]

\* A debugger of two threads, of which one attaches and the other waits.
TracingThreads == [Tree({"init", "p1", "p2", "d"}, {"p2"}) EXCEPT
                       !.attach = {<<"p1", "d">>}]

\* Job control: two jobs of one process group, one of them with a handler.
JobTree == [Tree({"init", "p1", "c1", "d"}, {}) EXCEPT
                !.parent["d"] = "p1",
                !.pgrp["d"] = "c1", !.handlesHup = {"d"}, !.jobctl = TRUE]

\* The same with one job the child of the other, which links it to the session.
NestedJobs == [JobTree EXCEPT !.parent["d"] = "c1"]

\* The shell waits for its job to exit, stop or continue.
WaitedJob == [Tree({"init", "p1", "c1"}, {}) EXCEPT
                  !.jobctl = TRUE,
                  !.waits["p1"] = {AnyChild({"WUNTRACED", "WCONTINUED"})}]

\* Grandchildren, a subreaper, a clone child, a parent-death signal.
DeepTree == [Tree({"init", "p1", "c1", "d"}, {"p1"}) EXCEPT
                 !.parent["d"] = "c1", !.subreaper = {"p1"}, !.pdeath = {"d"},
                 !.cloned = {"c1"},
                 !.waits["p1"] = {AnyChild({"WALL", "WNOHANG"}), AnyChild({"WNOWAIT"}),
                                  [type |-> "PID", pid |-> "d", flags |-> {"WEXITED"}]}]

\* A thread waits for its own children only.
NoThreadTree == [Tree({"init", "p1", "p2", "c1", "d"}, {}) EXCEPT
                     !.parent["d"] = "p2",
                     !.waits["p2"] = {AnyChild({"WNOTHREAD"})}]

\* A shell waits for a job by its process group, whose leader may be collected
\* before the other process of it.
GroupWait == [Tree({"init", "p1", "p2", "c1", "d"}, {}) EXCEPT
                  !.parent["d"] = "p1", !.pgrp["d"] = "c1",
                  !.waits["p1"] = {[type |-> "PGID", pid |-> "c1", flags |-> {"WEXITED"}]},
                  !.waits["p2"] = {[type |-> "PID", pid |-> "c1", flags |-> {"WEXITED"}]}]

MCTrees == {WaitingPair, ThreadTree, NoThreadTree, IgnoringTree, TracedTree, TracedThreads,
            TracingThreads, JobTree, NestedJobs, WaitedJob, GroupWait,
            DeepTree}
=============================================================================
