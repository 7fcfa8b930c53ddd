SPECIFICATION FairSpec
CONSTANTS
    Callers = {g1, g2, g3}
    Nil = Nil
INVARIANTS TypeOK OneLoop ClosedMeansStopped
PROPERTIES StartedMeansAlive ServesAgain CallsReturnAfterCancel IsServer
CHECK_DEADLOCK FALSE
