---------------------------- MODULE MCArithmetic ----------------------------
EXTENDS Arithmetic

MCFsWidths == {1, 2, 3}
MCWideWidths == {3, 4, 5, 6}
MCRealExps == {0, 1, 2, 7, 8, 14, 15}
MCScales == {-3, -1, 1, 5}
=============================================================================
