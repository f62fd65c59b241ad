\* Two syncs, two processes, one edit of each ticket, one crash, one retry.
SPECIFICATION Spec
CONSTANTS
    t1 = t1
    t2 = t2
    s1 = s1
    s2 = s2
    Job = {s1, s2}
    Ticket = {t1, t2}
    Labelled = {t2}
    Versions <- VersionsOf
    Doc <- Docs
    PageSize = 2
    BatchSize = 1
    Processes = 2
    MaxRetries = 1
    MaxCrashes = 1
INVARIANTS
    TypeOK
    VectorsHaveRows
    ReportedIsStored
    AloneMirrorsJira
PROPERTIES
    KeepsLifecycle
CONSTRAINT FewFaults
SYMMETRY AnySync
\* The syncs are over.
CHECK_DEADLOCK FALSE
