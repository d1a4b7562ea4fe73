SPECIFICATION FairSpec
CONSTANTS
    Worker = {w1, w2}
    Task = {t1, t2, t3}
    Stopper = {x1, x2}
    Nil = Nil
INVARIANTS
    RunOnce
    JoinedMeansDrained
PROPERTIES
    AcceptedTasksRun
    ShutdownReturns
CHECK_DEADLOCK FALSE
