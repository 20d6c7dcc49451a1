SPECIFICATION FairSpec
CONSTANTS
    r1 = r1
    c1 = c1
    c2 = c2
    Readers <- OneReader
    Slots <- TwoSlots
    NoSlot = NoSlot
    Capacity = 2
    MaxEvents = 4
    MaxBreaks = 2
INVARIANTS ChannelsAreClosedOnce ReplayMeetsChannel
PROPERTIES ImplementsFeed
CHECK_DEADLOCK FALSE
