SPECIFICATION Spec
CONSTANTS
    Capacity = 2
    BackoffInitial = 1
    BackoffMax = 3
    Ignored = {2}
    MaxEvents = 6
INVARIANT TypeOK
PROPERTY FeedImplemented
PROPERTY Reconnects
PROPERTY Delivers
PROPERTY EndsWithTheApp
