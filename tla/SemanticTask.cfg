\* A document and an Entity document, two workers and two requests that overlap.
SPECIFICATION Spec
CONSTANTS
    None = None
    Doc = {d1}
    Entity = {e1}
    Worker = {w1, w2}
    Requester = {q1, q2}
    MaxRequests = 2
    MaxEdits = 1
SYMMETRY Symmetry
INVARIANTS
    OneActivePerFile
PROPERTIES
    TerminalFinal
    EditsKept
    KeepsPromise
\* The requests are used up and the tasks have ended: the system may stop.
CHECK_DEADLOCK FALSE
