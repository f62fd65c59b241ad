\* Two deliveries, two pool processes, one retry, no fault.
SPECIFICATION Spec
CONSTANTS
    f1 = f1
    f2 = f2
    f3 = f3
    absent = absent
    v1 = v1
    v2 = v2
    link = link
    Event = {e1, e2}
    Process = {p1, p2}
    File = {f1, f2, f3}
    Tree <- Commits
    Absent = absent
    Links = {link}
    Indexable = {f1, f2, f3}
    Empty = {}
    HasCollection = FALSE
    MaxRetries = 1
    MaxFaults = 0
PROPERTIES
    AcceptedIsIndexed
CHECK_DEADLOCK FALSE
