CONSTANTS
    e1 = e1  e2 = e2
    Eth = {e1, e2}
    Target = {1, 2, 3}
    NSect = 2
    PingEth = e1
    PingTarget = 3
    Setup <- SomeSetup
SPECIFICATION Spec
INVARIANTS ListRight OwnAnswers DriverDeaf
CHECK_DEADLOCK FALSE
