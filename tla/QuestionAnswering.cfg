\* Each part of question answering in turn, on an instance of its own.
SPECIFICATION Spec
CONSTANTS
    Nobody = Nobody
    Worker = {w1, w2, w3}
    MaxAttempts = 3
    MaxStarts = 4
    Message = {m1, m2, m3}
    HistoryLimit = 1
    RetentionLimit = 2
    MaxTurns = 6
    Keep = 2
    MaxSubQueries = 2
    Calls <- SomeCalls
    MaxFound = 1
    Limit = 11
    Group = {g1, g2}
    Score = {1, 2}
    MaxTokens = 2
    MaxResults = 3
    Available = 3
    MinSentence = 1
    MaxRounds = 2
SYMMETRY Symmetry
INVARIANTS
    SetupComplete
    SomeoneFinishes
    HistoryShown
    OwnTurn
    CallsPaired
    EvidenceNamed
    NeverRaised
    ContextFits
\* Turns are used up and answers given: the system may stop.
CHECK_DEADLOCK FALSE
