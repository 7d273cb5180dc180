SPECIFICATION Spec
CONSTANTS
    Content = {a, b}
    MaxBegun = 4
    None = None
INVARIANT StatusesAgree
