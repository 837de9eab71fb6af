SPECIFICATION LFairSpec
CONSTANTS
    Slots <- TwoSlots
    MaxEvents = 3
    MaxFailures = 2
INVARIANTS
    LifecycleTypeOK
    OnePool
    SleepStrandsNothing
    SomebodyMovesIt
PROPERTY
    WorkIsServed
