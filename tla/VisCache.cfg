SPECIFICATION Spec
CONSTANTS
    Sizes = {128, 256, 512, 1024}
    Limit = 4
    MaxNodes = 8
INVARIANTS NoBadAccess ListIsAChain
PROPERTY TablesAreKept
