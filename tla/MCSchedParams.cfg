CONSTANTS
    SCHED_CAPACITY_SCALE = 4
    UCLAMP_BUCKET_DELTA = 2
    UCLAMP_BUCKETS = 2
    VALUE_RANGE = 8
    INT_MAX = 15
    Task = {"init", "child", "grandchild"}
    init_task = "init"
    Caller = {1, 2}
    MAX_RT_PRIO = 3
    MAX_NICE = 1
    ForkPrio = 1
    ForkRtPriority = 2
    Scenarios <- MCScenarios
SPECIFICATION Spec
INVARIANT UClampExact
INVARIANT RtDefaultSynced
INVARIANT ParamsAgree
INVARIANT BoostKept
