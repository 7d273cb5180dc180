\* The Markdown of a build against the deletion another build still owes.
SPECIFICATION Spec
CONSTANTS
    None = None
    Content = {a, b}
    Builder = {b1, b2}
    Updater = {u1}
SYMMETRY Symmetry
INVARIANTS
    MarkdownPresent
\* Builders have stopped and updates are lost: the system may stop.
CHECK_DEADLOCK FALSE
