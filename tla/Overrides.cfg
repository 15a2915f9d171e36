SPECIFICATION Spec
CONSTANTS
    Operands <- MCOperands
    Regs <- MCRegs
    Wires <- MCWires
    Driver <- MCDriver
    Forces <- MCForces
    Assigns <- MCAssigns
    Releases <- MCReleases
    Deassigns <- MCDeassigns
    None = None
    Values = {0, 1}
    StrayReleases = FALSE
    a = a
    b = b
    p = p
    q = q
    w = w
INVARIANT OverridesTypeOK
PROPERTY ImplementsLayers
