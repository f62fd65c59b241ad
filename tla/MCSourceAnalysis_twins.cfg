\* One file with two methods of one name, pages of 100 as in execute_values.
SPECIFICATION Spec
CONSTANTS
    Names <- SortedNames
    Repositories <- Twins
    PageSize = 100
INVARIANTS
    EachSymbolStored
CHECK_DEADLOCK FALSE
