CONSTANTS
    m1 = m1  m2 = m2  w1 = w1  w2 = w2  r1 = r1  r2 = r2
    None = None
    NMsg = 3
    Msg = {m1, m2}
    MsgLen <- TwoLen
    Writer = {w1, w2}
    Reader = {r1, r2}
    Cnt <- WideCnt
    MaxUp = 2
SPECIFICATION FairSpec
INVARIANTS NoLostWakeup
PROPERTIES IsFifo SleeperServed
