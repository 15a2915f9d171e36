SPECIFICATION Spec
CONSTANTS
    ProcCount = 5
    RootCount = 2
    Parent <- ForkParent
    JoinTag <- ForkTag
    Program <- ForkProgram
    Regs = {"a"}
    NbTargets = {}
    Delayed <- ForkDelayed
    Driver <- NoDriver
    Events = {}
    ServiceStores <- NoStores
    ServiceReturns = {1}
    Budgets = {2}
    HasDumpvars = TRUE
    ExecReadyMode = FALSE
    MaxDnba = 0
    Horizon = 2
    MaxBurst = 1
INVARIANTS TypeOK WaitsMatchStates JoinAccounting HoldersComeBack FinishedMeansStuck
