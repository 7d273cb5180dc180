\* An enrichment that reads before an assertion appears and finishes after it.
SPECIFICATION Spec
CONSTANTS
    None = None
    Doc = {d1}
    Entity = {e1}
    Worker = {w1, w2}
    Requester = {q1}
    MaxRequests = 3
    MaxEdits = 0
INVARIANTS
    EvidenceKept
CHECK_DEADLOCK FALSE
