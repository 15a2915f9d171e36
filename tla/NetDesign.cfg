SPECIFICATION Spec
CONSTANTS
    UnsizedWidth = 32
    Programs <- MCPrograms
CHECK_DEADLOCK FALSE
INVARIANTS LegalIsAccepted FlatNetsAreTheNets SettledNetsFollow
