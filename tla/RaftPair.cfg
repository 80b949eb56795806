SPECIFICATION Spec
CONSTANTS
    n1 = n1
    n2 = n2
    n3 = n3
    None = None
    Server <- Two
    Links <- TwoLinks
    Unreliable = TRUE
    MaxElections <- FirstTwice
    MaxStarts = 2
    MaxRounds <- EachThrice
CHECK_DEADLOCK FALSE
INVARIANTS
    TypeOK
    StateMachineSafety
    FollowersArePrefixes
    ElectionQuorum
