CONSTANTS
    f1 = f1  f2 = f2  s1 = s1  s2 = s2  None = None
    NCpus = 3
    Frame = {f1, f2}
    Home <- SplitHome
    Softirq = {s1, s2}
    MaxIoc = 1
    Exits = TRUE
SPECIFICATION FairSpec
INVARIANTS OnePlace NoSleepOnWork NoBug NothingLeft
PROPERTIES EveryFrameCompletes StopEnds
CHECK_DEADLOCK FALSE
