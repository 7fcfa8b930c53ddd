SPECIFICATION FairSpec
CONSTANTS
    Callers = {g1, g2}
    Nil = Nil
PROPERTY ShutdownReturns
CHECK_DEADLOCK FALSE
