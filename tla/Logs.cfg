CONSTANTS
    SGR_LEAK_MAX_SWALLOW = 2
    ChannelCapacity = 1
    LOG_BUFFER_CAPACITY = 3
    Heights = {0, 2}
    LINES_PER_NOTCH = 3
    LongestReport = 1
    MaxLines = 3
    MaxTraces = 1
SPECIFICATION Spec
INVARIANT NoGapInAStream
PROPERTY PinnedViewStays
INVARIANT FilterTellsApart
PROPERTY LoopComesBack
CHECK_DEADLOCK FALSE
