\* A module that calls a function of another one, pages of 100 as in execute_values.
SPECIFICATION Spec
CONSTANTS
    Names <- SortedNames
    Repositories <- CallingModules
    PageSize = 100
INVARIANTS
    CrossModuleCallsFound
\* An attempt is over when it is done.
CHECK_DEADLOCK FALSE
