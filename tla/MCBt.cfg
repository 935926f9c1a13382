CONSTANTS
    QueueMax = 3
    Intervals <- MCIntervals
    AdvHandle = 0
    MaxResets = 1
SPECIFICATION BtSpec
INVARIANTS
    BtTypeOK
    QueueTellsOneStory
    ViewLagsByQueue
    AssertsHold
    BondingFlagAgrees
    TimingFollowsBonds
    BondedHasKeys
    SubscriptionIsCurrent
PROPERTIES
    KeepsPresence
CHECK_DEADLOCK FALSE
