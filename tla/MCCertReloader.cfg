SPECIFICATION FairSpec
CONSTANTS
    Handshakes = {g1, g2, g3}
    Interval = 2
    MaxGen = 2
    Broken = Broken
    Nil = Nil
    Error = Error
INVARIANTS TypeOK PicksUpWhenDue
PROPERTIES NeverRefused NeverOlder PicksUpRotation
