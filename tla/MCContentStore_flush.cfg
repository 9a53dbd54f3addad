SPECIFICATION Spec
CONSTANTS
    r1 = r1
    r2 = r2
    big = big
    part = part
    a = a
    b = b
    c = c
    Trees <- MCTrees
    Contents <- MCContents
    Closure <- MCClosure
    Pieces <- MCPieces
    MaxDeferred = 1
    MaxBases = 1
    FanIn = 2
    Readers = {a, b, c}
    MaxHandles = 2
    MaxReserved = 3
    Stores <- MCReusingStores
INVARIANT FlushIsDurable
SYMMETRY Symmetry
\* The bounds run out.
CHECK_DEADLOCK FALSE
