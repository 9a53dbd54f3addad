\* A capture, or two restores one after the other, of every small workspace;
\* once another program changes a path, a file cannot be read or changed, the
\* lock is lost, or the process dies.
SPECIFICATION Spec
CONSTANTS
    Root = "root"
    Paths <- MCPaths
    Above <- MCAbove
    Order <- MCOrder
    TempIn <- MCTempIn
    Ignored = {"d/i"}
    Contents = {"c1", "c2"}
    Links = {"l"}
    Scenarios <- MCScenarios
INVARIANTS
    ReportsAreTrue
    QuietRestoresSucceed
PROPERTIES
    NothingUnseenIsLost
CHECK_DEADLOCK FALSE
