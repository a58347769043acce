\* Double buffering between display_task and hub75_task.
SPECIFICATION FairSpec
\* A panic of hub75_task halts the core and ends both tasks.
CHECK_DEADLOCK FALSE
CONSTANTS
    fb0 = fb0
    fb1 = fb1
    None = None
    Torn = Torn
    Frames = 8
INVARIANTS
    OneOwner
    NoTearing
PROPERTIES
    InOrder
    HandsOver
    EveryFrameScanned
    KeepsRefreshing
