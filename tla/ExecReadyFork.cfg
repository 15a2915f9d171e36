SPECIFICATION ExecSpec
CONSTANTS
    ProcCount = 4
    RootCount = 2
    Parent <- PairParent
    JoinTag <- PairTag
    Program <- PairProgram
    Regs = {}
    NbTargets = {}
    Delayed <- NoDelayed
    Driver <- NoDriver
    Events = {"e"}
    ServiceStores <- NoStores
    ServiceReturns = {1}
    Budgets = {1}
    HasDumpvars = TRUE
    ExecReadyMode = TRUE
    MaxDnba = 0
    Horizon = 2
    MaxBurst = 1
    SchedBatch = TRUE
    ProcSteps = 2
INVARIANTS ExecTypeOK WaitsMatchStates
PROPERTIES ReadyAllRun JoinNeverEarly ActiveExhausted
