\* Each part of the knowledge base in turn, on an instance of its own.
SPECIFICATION Spec
CONSTANTS
    None = None
    Directory = {d1, d2}
    TreeFile = {e1, e2}
    Name = {n1, n2}
    n1 = n1
    n2 = n2
    Like <- Wildcard
    Checksum = {s1}
    Uploader = {u1, u2}
    Mutator = {m1, m2}
    MaxDepth = 2
    MaxTransactions = 3
    Root = Root
    File = {f1, f2}
    RefPath = {p1, p2, p3}
    MaxWrites = 4
    MaxMoves = 1
    Archive <- Members
    Refers <- RefersTo
    Old = {"a", "b", "bad"}
    Outside = "out"
    Limit = 2
    Property = {q1, q2}
    Tag = {t1, t2}
    Writer = {w1, w2}
    MaxNesting = 1
    MaxLeaves = 2
    Leaf <- Leaves
    Plain <- Plains
    A = A
    B = B
    Instance = {i1, i2}
    Config <- Configs
    LegacyTask = {l1}
    MaxStarts = 3
    MaxAttempts = 2
    MaxScript = 5
    Task = {k1, k2}
    Concurrency = 2
    Line <- Lines
    SoftLimit = 6
    HardLimit = 9
    MaxLines = 4
    SoftText = 2
    HardText = 3
    MaxText = 6
    Surface = {v1, v2}
    Worker = {o1, o2}
    MaxEntities = 3
    MaxDeletions = 1
    Content = {c1, c2}
    MaxBegun = 4
    Job = {j1, j2, j3}
    Batch = {b1, b2}
    BatchOf <- Batches
    Block <- AnyLine
    MaxChars = 1024
    Coalesce = 300
    Frame = 210
    HeadingTag = 41
    ContentTag = 56
    Margin = 64
    MaxDocument = 4
    Fragment <- Overlapping
    Target = 3
    MaxTotal = 6
    MaxFragments = 3
    MaxFragment = 3
    MaxPerDoc = 2
    MinTopic = 2
    MaxFound = 4
    j1 = j1
    j2 = j2
    j3 = j3
    b1 = b1
    b2 = b2
SYMMETRY Symmetry
INVARIANTS
    TreeSound
    ReferencesFollow
    ImportLinked
    SearchAnswers
    SchemaReady
    ScriptsWhole
    PoolPublished
    ChunksFaithful
    WindowsCutWell
    NamesAgree
    NothingRevived
    ProgressShown
    DocumentShown
    EvidenceChosen
PROPERTIES
    NoDuplicate
    WritersSerial
\* Every part ends what it was given to do: the system may stop.
CHECK_DEADLOCK FALSE
