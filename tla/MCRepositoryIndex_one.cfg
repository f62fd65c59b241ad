\* One project, two jobs, two worker processes, a second commit that drops a module.
SPECIFICATION Spec
CONSTANTS
    p1 = p1
    p2 = p2
    f1 = f1
    f2 = f2
    Project = {p1}
    NoProject = NoProject
    Repo = {p1}
    Collection = {p1}
    Module = {f1, f2}
    File = {f1, f2}
    Version <- TwoVersions
    Task = {t1, t2}
    Worker = {w1, w2}
    NoJob = NoJob
    RepoOf <- OwnSlug
    CollectionOf <- SharedCollection
    ModuleOf <- FileModules
    Content <- ContentShrink
    TaskProject <- AllForP1
    MaxRetries = 0
    MaxRedeliveries = 1
SYMMETRY ProcessSymmetry
INVARIANTS
    TypeOK
    CompleteIndex
    IndexInv
    ExactIndex
    NoDanglingEdges
    RowsNeedProject
    CleanDelete
