SPECIFICATION ExecSpec
CONSTANTS
    ProcCount = 3
    RootCount = 2
    Parent <- OneBranch
    JoinTag <- OneTag
    Program <- ForkAndWait
    Regs = {}
    NbTargets = {}
    Delayed <- NoDelayed
    Driver <- NoDriver
    Events = {}
    ServiceStores <- NoStores
    ServiceReturns = {1}
    Budgets = {1}
    HasDumpvars = TRUE
    ExecReadyMode = TRUE
    MaxDnba = 0
    Horizon = 2
    MaxBurst = 1
    SchedBatch = TRUE
    ProcSteps = 2
PROPERTY DeltaComesLast
