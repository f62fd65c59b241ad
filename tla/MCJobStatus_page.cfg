\* Two jobs, every loss, two polls in flight.
SPECIFICATION Spec
CONSTANTS
    NoJob = NoJob
    Job = {j1, j2}
    Worker = {w1}
    Request = {r1, r2}
    MaxRetries = 1
    MaxRedeliveries = 0
    Faults <- EveryLoss
SYMMETRY PageSymmetry
INVARIANTS
    FailedIsFinal
    OneTimer
\* The system stops when every job is over and the page is left.
CHECK_DEADLOCK FALSE
