--------------------------- MODULE MCSchedParams ---------------------------
(***************************************************************************)
(* Two or three tasks and two callers.  Real-time priorities 0 .. 2, nice  *)
(* -1 .. 1, clamps 0 .. 4 in two buckets, kept in three bits of an unsigned  *)
(* number of five: 24, a negative int, is in the last bucket with value 0. *)
(* Each scenario lets one group of operations interleave.                  *)
(***************************************************************************)
EXTENDS SchedParams

Attr(policy, prio, nice, reset) == [KernelAttr(policy, prio, nice) EXCEPT !.reset = reset]

Clamp(a, min, max) == [a EXCEPT !.clamp = [id \in ClampIds |-> IF id = "MIN" THEN min ELSE max]]

Keep == [Attr("keep", 0, 0, FALSE) EXCEPT !.keep = TRUE]

Quiet == [fork |-> {"child"}, sleep |-> {}, attrs |-> {}, nice |-> {}, boost |-> FALSE,
          sysctl |-> {}, defaults |-> {}, callers |-> {1}, kernel |-> {}]

Calls ==
    [Quiet EXCEPT !.attrs = {Attr("NORMAL", 0, 0, FALSE), Attr("FIFO", 1, 0, TRUE),
                             Attr("keep", 0, 0, FALSE), Attr("keep", 2, 0, FALSE)},
                  !.nice = {-1, 0}, !.callers = {1, 2}]

Boosts ==
    [Quiet EXCEPT !.attrs = {Attr("NORMAL", 0, 0, FALSE), Attr("FIFO", 2, 0, FALSE)},
                  !.nice = {1}, !.callers = {1, 2}, !.boost = TRUE, !.kernel = {"child"}]

Clamps ==
    [Quiet EXCEPT !.attrs = {Clamp(Attr("NORMAL", 0, 5, FALSE), 1, 3), Clamp(Keep, UINT_MAX, 1),
                             Attr("FIFO", 1, 0, FALSE)},
                  !.sleep = {"child"}, !.defaults = {1}]

Sysctl ==
    [Quiet EXCEPT !.sysctl = {1, 3, 24},
                  !.attrs = {Attr("NORMAL", 0, 0, FALSE), Attr("FIFO", 1, 0, FALSE)}]

Forks == [Quiet EXCEPT !.fork = {"child", "grandchild"}, !.sysctl = {1, 24},
                       !.attrs = {Attr("NORMAL", 0, 0, FALSE)}]

\* Clamps and defaults out of range, refused or not.
Excessive ==
    [Quiet EXCEPT !.attrs = {Clamp(Keep, 24, NoClamp), Clamp(Keep, NoClamp, 15), Clamp(Keep, 5, 3),
                             Clamp(Keep, 1, 2)},
                  !.sleep = {"child"}, !.sysctl = {24}, !.defaults = {2, 9}]

MCScenarios == {Calls, Boosts, Clamps, Sysctl, Forks, Excessive}

=============================================================================
