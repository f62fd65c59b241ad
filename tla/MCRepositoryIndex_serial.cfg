\* One worker process and the retries of the code: jobs run one after another.
\* Both files are in one module, so its vectors go out in one batch or in two.
SPECIFICATION FairSpec
CONSTANTS
    p1 = p1
    p2 = p2
    f1 = f1
    f2 = f2
    Project = {p1}
    NoProject = NoProject
    Repo = {p1}
    Collection = {p1}
    Module = {m1}
    File = {f1, f2}
    Version <- TwoVersions
    Task = {t1}
    Worker = {w1}
    NoJob = NoJob
    RepoOf <- OwnSlug
    CollectionOf <- SharedCollection
    ModuleOf <- OneModule
    Content <- ContentShrink
    TaskProject <- AllForP1
    MaxRetries = 3
    MaxRedeliveries = 1
INVARIANTS
    CompleteIndex
    ExactIndex
    NoDanglingEdges
PROPERTY JobsSettle
