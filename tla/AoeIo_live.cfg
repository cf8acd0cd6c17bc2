CONSTANTS
    t1 = t1  t2 = t2  f1 = f1  f2 = f2  f3 = f3  f4 = f4
    r1 = r1  r2 = r2  b1 = b1  b2 = b2  b3 = b3
    None = None
    Tgt = {t1, t2}
    Frame = {f1, f2, f3}
    TgtOf <- TrioTgtOf
    Req = {r1}
    Bio = {b1, b2}
    RqOf <- TwoRqOf
    Size <- TwoSize
    NFrames = 1
    NIf = 1
    MaxTaint = 2
    MinBufs = 1
    MaxReval = 0
SPECIFICATION FairSpec
PROPERTY EveryRequestEnds
