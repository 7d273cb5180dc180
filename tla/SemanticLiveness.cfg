\* Every batch is completed.
SPECIFICATION FairSpec
CONSTANTS
    None = None
    Doc = {d1}
    Entity = {e1}
    Worker = {w1}
    Requester = {q1}
    MaxRequests = 2
    MaxEdits = 0
PROPERTIES
    BatchesComplete
\* The requests are used up and the tasks have ended: the system may stop.
CHECK_DEADLOCK FALSE
