\* Frames of 0 to 2 bytes, one that is too large and one whose length does not
\* fit in a usize and comes out as 1; payloads up to the end of their header.
CONSTANTS
    MaxFrame = 2
    Byte = 3
    Word = 16
    Lengths = {0, 1, 2, 3, 17}
    MaxParts = 3
    Bad = Bad
    BufLen = 2
    MaxInput = 2
    MaxSize = 3
    MaxGzip = 14
    MaxField = 1
    Missing = Missing
    MaxLocations = 2
SPECIFICATION FeedSpec
INVARIANT FeedTypeOK
INVARIANT InStep
INVARIANT OneMessage
INVARIANT StopsOnlyOnFault
INVARIANT HeaderInside
INVARIANT OwnFieldsOnly
INVARIANT WholeText
PROPERTY InflateEnds
\* The feed task panics on a fault of the network.
CHECK_DEADLOCK FALSE
