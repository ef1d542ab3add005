SPECIFICATION Spec
CONSTANTS
    Task <- Tasks
    init_task = "init"
    leader <- leaderOf
    Trees <- MCTrees
    MaxWait = 1
INVARIANT LeaderLast
INVARIANT ParentsAlive
INVARIANT AutoReaped
INVARIANT NoLostWakeup
INVARIANT TimesAddedOnce
PROPERTY EchildMeansNone
PROPERTY OrphansNotStopped
PROPERTY ImplementsTable
CHECK_DEADLOCK FALSE
