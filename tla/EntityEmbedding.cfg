SPECIFICATION Spec
CONSTANTS
    Surface = {s1, s2}
    Worker = {w1, w2}
    MaxEntities = 3
    MaxDeletions = 1
    None = None
INVARIANT EmbeddingCurrent
