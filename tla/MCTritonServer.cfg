\* Two serves and a stop, one after the other or at once.
CONSTANTS
    s1 = s1
    s2 = s2
    t1 = t1
    Serve = {s1, s2}
    Stop = {t1}
    Absent = Absent
    MaxPolls = 2
SPECIFICATION Spec
INVARIANT FailedWaitLeavesNothing
PROPERTIES NeverTouchesOthers CommandsEnd
CHECK_DEADLOCK FALSE
