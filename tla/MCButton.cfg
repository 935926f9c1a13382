CONSTANTS
    BtnNum = 2
    CacheSize = 3
    ValueNum = 3
    StickNum = 1
    BtStopCauses = {"dfu"}
SPECIFICATION ButtonSpec
INVARIANTS
    ButtonTypeOK
    SpacedRepeats
    LevelTracked
    SignalCoversPush
