\* One job with the retries of the code and a repeated delivery; nothing is lost.
SPECIFICATION FairSpec
CONSTANTS
    NoJob = NoJob
    Job = {j1}
    Worker = {w1, w2}
    Request = {r1}
    MaxRetries = 3
    MaxRedeliveries = 1
    Faults <- NoLoss
INVARIANTS
    TypeOK
    StatusSettles
PROPERTY PollingEnds
\* The system stops when every job is over and the page is left.
CHECK_DEADLOCK FALSE
