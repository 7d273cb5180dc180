\* Two overlapping batches of two files.
SPECIFICATION Spec
CONSTANTS
    s1 = s1
    s2 = s2
    c1 = c1
    p1 = p1
    p2 = p2
    None = None
    File = {f1, f2}
    Checksum = {a}
    Profile = {p1}
    MaxRequests = 2
    Slot = {s1}
    Caller = {c1}
    Mutator = {m1}
    ProfileOf <- OneProfile
INVARIANTS
    BatchAccounting
PROPERTIES
    KeepsPromise
\* The requests are used up and the files deleted: the system may stop.
CHECK_DEADLOCK FALSE
