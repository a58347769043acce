\* Two buttons that chatter, a task that is late, saves that fail, resets.
SPECIFICATION Spec
CONSTANTS
    Settling = 2
    Debounce = 2
    LongPress = 2
    Latency = 1
    Rest = 6
    None = None
    MaxPresses = 3
INVARIANTS
    ActsOnce
    PressActs
    SavedUnlessFailed
PROPERTIES
    LengthDecides
