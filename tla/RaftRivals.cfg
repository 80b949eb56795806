SPECIFICATION Spec
CONSTANTS
    n1 = n1
    n2 = n2
    n3 = n3
    None = None
    Server <- Two
    Links <- TwoLinks
    Unreliable = FALSE
    MaxElections <- BothOnce
    MaxStarts = 3
    MaxRounds <- TwiceAndOnce
CHECK_DEADLOCK FALSE
INVARIANTS
    PanicsOnlyIfMisled
PROPERTIES
    LeaderAppendOnly
