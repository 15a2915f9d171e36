SPECIFICATION FairExecSpec
CONSTANTS
    ProcCount = 2
    RootCount = 2
    Parent <- NoFork
    JoinTag <- NoTag
    Program <- WatchProgram
    Regs = {"q"}
    NbTargets = {"q"}
    Delayed <- WatchDelayed
    Driver <- NetOfQ
    Events = {"e"}
    ServiceStores <- NoStores
    ServiceReturns = {1}
    Budgets = {1}
    HasDumpvars = TRUE
    ExecReadyMode = TRUE
    MaxDnba = 2
    Horizon = 2
    MaxBurst = 1
    SchedBatch = FALSE
    ProcSteps = 1
INVARIANTS FinishedMeansStuck
PROPERTIES TimeLeavesNothingBehind ReadyProcessesRun
