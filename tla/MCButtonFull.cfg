CONSTANTS
    BtnNum = 2
    CacheSize = 8
    ValueNum = 3
    StickNum = 4
    BtStopCauses = {}
SPECIFICATION ButtonSpec
INVARIANT
    CacheHasRoom
