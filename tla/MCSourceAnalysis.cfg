\* All trees of three nodes, two symbols to a page.
SPECIFICATION Spec
CONSTANTS
    Names <- SortedNames
    Repositories <- AnyRepository
    PageSize = 2
INVARIANTS
    TypeOK
    OneModulePerFile
    RowsMatchVectors
    EdgesAreCalls
\* An attempt is over when it is done.
CHECK_DEADLOCK FALSE
