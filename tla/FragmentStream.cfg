SPECIFICATION StreamSpec
CONSTANTS
    PduIds = {1, 2}
    MaxFragmentSize = 2
    HardMaxPdu = 6
    MaxReassembly = 5
    MaxFragments = 3
INVARIANTS
    CountersMatchPieces
    HandedOverWhole
CHECK_DEADLOCK FALSE
