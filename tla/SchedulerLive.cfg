SPECIFICATION FairSpec
CONSTANTS
    ProcCount = 2
    RootCount = 2
    Parent <- NoFork
    JoinTag <- NoTag
    Program <- LiveProgram
    Regs = {"a", "q"}
    NbTargets = {"q"}
    Delayed <- NoDelayed
    Driver <- NetOfQ
    Events = {"e"}
    ServiceStores <- StoreA
    ServiceReturns = {1}
    Budgets = {2}
    HasDumpvars = TRUE
    ExecReadyMode = FALSE
    MaxDnba = 0
    Horizon = 2
    MaxBurst = 1
PROPERTIES SleepersWake ServicesReturn ReadyProcessesRun
