SPECIFICATION Spec
CONSTANTS
    UnrollLimit = 2
    MaxCount = 2
    Admit = {"repeat_left"}
    Programs <- MCPrograms
    Admitted <- MCAdmitted
INVARIANT CountOnEntry
