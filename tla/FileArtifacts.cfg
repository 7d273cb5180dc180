\* Two builds and two updates of one file.
SPECIFICATION Spec
CONSTANTS
    None = None
    Content = {a, b}
    Builder = {b1, b2}
    Updater = {u1, u2}
SYMMETRY Symmetry
INVARIANTS
    MarkdownOfChunks
    OriginalRestored
\* Builders have stopped and updates are lost: the system may stop.
CHECK_DEADLOCK FALSE
