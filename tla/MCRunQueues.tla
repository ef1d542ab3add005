---------------------------- MODULE MCRunQueues ----------------------------
EXTENDS RunQueues

CONSTANTS t1, t2, c0, c1, s1, s2

MCTask == {t1, t2}
MCCPU == {c0, c1}
MCSetter == {s1, s2}
MCMasks == (SUBSET MCCPU) \ {{}}

Quiet == [sleep |-> {}, wake |-> {}, disable |-> {}, affine |-> [s \in MCSetter |-> {}],
          cpuset |-> [s \in MCSetter |-> {}], swap |-> {}, balance |-> FALSE, hotplug |-> {}, preempt |-> FALSE, refuse |-> FALSE, up |-> FALSE,
          nesting |-> 1]

\* Two tasks that sleep and are woken, moved about by the load balancer.
Wakeups == [Quiet EXCEPT !.sleep = {t1, t2}, !.wake = {t1, t2}, !.balance = TRUE]

OneCaller == [s \in MCSetter |-> IF s = s1 THEN {t1} ELSE {}]

\* A caller changes the mask of a task that sleeps and cannot always move.
Affinity == [Quiet EXCEPT !.sleep = {t1}, !.wake = {t1}, !.disable = {t1},
                          !.affine = OneCaller, !.balance = TRUE]

\* Two callers at once change the mask of a task that is always runnable.
TwoCallers == [Quiet EXCEPT !.balance = TRUE, !.affine = [s \in MCSetter |-> {t1}]]

\* One caller sets the mask while the other changes the cpuset.
Cpusets == [Quiet EXCEPT !.affine = OneCaller,
                         !.cpuset = [s \in MCSetter |-> IF s = s2 THEN {t1} ELSE {}]]

\* A task asks to swap with one whose mask changes and that cannot always move.
Swaps == [Quiet EXCEPT !.swap = {t1}, !.disable = {t2}, !.balance = TRUE,
                       !.affine = [s \in MCSetter |-> IF s = s1 THEN {t2} ELSE {}]]

\* The same while a CPU leaves.
HotSwaps == [Quiet EXCEPT !.swap = {t1}, !.hotplug = {c1}, !.refuse = TRUE]

\* A CPU leaves and returns, or the attempt is given up, under sleeping tasks.
Hotplug == [Quiet EXCEPT !.sleep = {t1}, !.wake = {t1}, !.disable = {t1}, !.hotplug = {c1},
                         !.balance = TRUE, !.refuse = TRUE, !.up = TRUE]

\* A CPU leaves while the mask of a task changes that sleeps and cannot always move.
HotAffinity == [Quiet EXCEPT !.sleep = {t1}, !.wake = {t1}, !.disable = {t1},
                             !.hotplug = {c1}, !.affine = OneCaller]

\* A CPU leaves and returns while the mask of a task changes that is at times in
\* one region or in two nested ones: migrate_enable() may fail.
HotRegions == [Quiet EXCEPT !.disable = {t1}, !.affine = OneCaller, !.hotplug = {c1}, !.up = TRUE,
                            !.nesting = 2]

\* A CPU leaves and returns while the mask and the cpuset of a task change.
HotCpusets == [Cpusets EXCEPT !.hotplug = {c1}, !.up = TRUE]

\* Two callers, and a task that is moved and then disables migration.
TwoAndRegions == [TwoCallers EXCEPT !.disable = {t1}]

MCScenarios == {Wakeups, Affinity, TwoCallers, TwoAndRegions, Cpusets, HotCpusets, Swaps,
                HotSwaps, Hotplug, HotAffinity, HotRegions}

PendingScenarios == {TwoAndRegions}
=============================================================================
