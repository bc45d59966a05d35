SPECIFICATION Spec
CONSTANTS
    Size = 6
    MaxLine = 5
    Bytes = {"CR", "LF", "NUL", "x"}
INVARIANTS
    TypeOK
PROPERTIES
    ImplementsLines
