\* Three workers, one warmup and two timed requests each, two batch sizes.
CONSTANTS
    NumWorkers = 3
    Warmup = 1
    Iters = 2
    MaxFailures = 2
    Points = 2
    Recycle = 1
    MaxStray = 1
    Absent = Absent
SPECIFICATION SweepSpec
INVARIANTS ClockStartsBetweenPhases MeasuredIsComplete UnnotedTimesAreOurs
PROPERTIES ThreadsEnd SweepEnds
CHECK_DEADLOCK FALSE
