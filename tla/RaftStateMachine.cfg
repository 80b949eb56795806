SPECIFICATION Spec
CONSTANTS
    n1 = n1
    n2 = n2
    n3 = n3
    None = None
    Server <- Three
    Links <- Apart
    Unreliable = FALSE
    MaxElections <- BothOnce
    MaxStarts = 2
    MaxRounds <- EachOnce
SYMMETRY Rivals
CHECK_DEADLOCK FALSE
INVARIANTS
    StateMachineSafety
