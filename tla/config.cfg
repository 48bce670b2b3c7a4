SPECIFICATION Spec
CONSTANTS
    Shells = {s1, s2}
    Models = {qwen, other}
    Preinstalled = {other}
    Values = {fresh, changed}
    Default = fresh
    Sizes = {auto, fit}
    AutoSize = auto
    Recommended <- MCRecommended
    fresh = fresh
    changed = changed
    auto = auto
    fit = fit
    qwen = qwen
    other = other
    None = None
    Empty = Empty
    Garbage = Garbage
    MaxCommands = 3
INVARIANTS
    TypeOK
    WholeOrNoticed
    NeverUnasked
    EnabledIsInstalled
PROPERTY
    ImplementsSettings
\* No command may be given past the bound.
CHECK_DEADLOCK FALSE
