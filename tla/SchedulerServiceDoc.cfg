SPECIFICATION Spec
CONSTANTS
    ProcCount = 2
    RootCount = 2
    Parent <- NoFork
    JoinTag <- NoTag
    Program <- ServiceProgram
    Regs = {}
    NbTargets = {}
    Delayed <- NoDelayed
    Driver <- NoDriver
    Events = {}
    ServiceStores <- NoStores
    ServiceReturns = {1}
    Budgets = {1}
    HasDumpvars = TRUE
    ExecReadyMode = FALSE
    MaxDnba = 0
    Horizon = 2
    MaxBurst = 1
INVARIANT BlockedUntilServed
