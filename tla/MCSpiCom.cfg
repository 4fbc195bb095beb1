SPECIFICATION Spec
CONSTANTS
    Batches <- All
    MaxBroken = 2
    MaxLost = 1
INVARIANTS
    
    AnswersMatch
    SendsCounted
CHECK_DEADLOCK FALSE
