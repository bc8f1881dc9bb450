SPECIFICATION Spec
CONSTANTS
    t1 = t1
    t2 = t2
    t3 = t3
    Calls <- MCCalls
    Task = {t1, t2, t3}
    NoTask = NoTask
    Kinds = {"mutex", "latch", "block"}
    MaySignal = {t1}
INVARIANTS
    TypeOK
    MutualExclusion
    NoLostWakeup
PROPERTY
    SleepersWake
