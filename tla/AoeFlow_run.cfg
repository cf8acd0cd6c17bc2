CONSTANTS
    f1 = f1  f2 = f2
    Frame = {f1, f2}
    BufCnt = {1, 5}
    AoeMaxout = 4
    AvgScale = 2
    DevScale = 1
    AvgInit = 3
    DevInit = 1
    Word = 64
    MaxRtt = 2
    Rtt = 2
SPECIFICATION FairSpec
INVARIANTS RttBounded WindowFits GrowsInTime
PROPERTIES RtoAdapts
