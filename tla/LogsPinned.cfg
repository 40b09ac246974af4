CONSTANTS
    SGR_LEAK_MAX_SWALLOW = 2
    ChannelCapacity = 1
    LOG_BUFFER_CAPACITY = 2
    Heights = {1}
    LINES_PER_NOTCH = 3
    LongestReport = 1
    MaxLines = 3
    MaxTraces = 1
SPECIFICATION Spec
PROPERTY PinnedViewIsUndisturbed
CHECK_DEADLOCK FALSE
