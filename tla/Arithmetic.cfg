CONSTANTS
    WordBits = 3
    FsWidths <- MCFsWidths
    LimbBits = 2
    FractionBits = 3
    ExponentBits = 4
    IntegerBits = 6
    WideWidths <- MCWideWidths
    RealExps <- MCRealExps
    Scales <- MCScales
SPECIFICATION Spec
INVARIANTS BitsExact NumbersExact WideExact RealRounded RealConverted
