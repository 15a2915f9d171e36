SPECIFICATION Spec
CONSTANTS
    ProcCount = 2
    RootCount = 2
    Parent <- NoFork
    JoinTag <- NoTag
    Program <- DataProgram
    Regs = {"a", "q"}
    NbTargets = {"q"}
    Delayed <- DataDelayed
    Driver <- NetOfQ
    Events = {}
    ServiceStores <- NoStores
    ServiceReturns = {1}
    Budgets = {1, 3}
    HasDumpvars = TRUE
    ExecReadyMode = FALSE
    MaxDnba = 2
    Horizon = 4
    MaxBurst = 2
INVARIANTS NoOversleep DnbaSlotsDense
PROPERTIES TimeLeavesNothingBehind NbaIsolation
