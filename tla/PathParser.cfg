SPECIFICATION Spec
CONSTANTS
    None = None
    MaxPath = 6
    Chars = {"@", "quote", "escape", "(", ")", "<", ">", ":", "space", "control", "x"}
INVARIANTS
    TypeOK
    NothingStale
    PartsOfPaths
