CONSTANTS
    m1 = m1  m2 = m2  n1 = n1  n2 = n2  n3 = n3  f1 = f1  f2 = f2
    None = None
    Mac = {m1, m2}
    Nd = {n1, n2, n3}
    Mtu <- SomeMtu
    Rsp <- SomeRsp
    Frame = {f1, f2}
    AoeMaxout = 1
    NAoeIfs = 2
    MaxLost = 1
SYMMETRY FrameSymmetry
SPECIFICATION Spec
INVARIANTS IfsSound PathsFit LostExact
