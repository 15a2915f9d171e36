SPECIFICATION Spec
CONSTANTS
    UnrollLimit = 2
    MaxCount = 2
    Admit = {}
    Programs <- MCPrograms
    Admitted <- MCAdmitted
INVARIANTS
    ExecutesTheSource
    NoSilentLoop
    NoRepeatLeft
