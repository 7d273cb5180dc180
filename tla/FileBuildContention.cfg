\* One file that a Build Runner, an Entity worker, three requests and a mutation contend for.
SPECIFICATION Spec
CONSTANTS
    s1 = s1
    s2 = s2
    c1 = c1
    p1 = p1
    p2 = p2
    None = None
    File = {f1}
    Checksum = {a, b}
    Profile = {p1}
    MaxRequests = 3
    Slot = {s1}
    Caller = {c1}
    Mutator = {m1}
    ProfileOf <- OneProfile
SYMMETRY Symmetry
INVARIANTS
    OneActivePerFile
    IndexCurrent
    ExclusiveRebuild
    IInv
PROPERTIES
    TerminalFinal
    PublishedByNewest
\* The requests are used up and the files deleted: the system may stop.
CHECK_DEADLOCK FALSE
