SPECIFICATION ExecSpec
CONSTANTS
    ProcCount = 3
    RootCount = 1
    Parent <- TwoBranches
    JoinTag <- TwoTags
    Program <- EndTogether
    Regs = {}
    NbTargets = {}
    Delayed <- NoDelayed
    Driver <- NoDriver
    Events = {}
    ServiceStores <- NoStores
    ServiceReturns = {1}
    Budgets = {1}
    HasDumpvars = TRUE
    ExecReadyMode = TRUE
    MaxDnba = 0
    Horizon = 2
    MaxBurst = 1
    SchedBatch = TRUE
    ProcSteps = 2
INVARIANT JoinersHaveBranches
