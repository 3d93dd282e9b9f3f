SPECIFICATION GuestSpec
CONSTANTS
    Wire = {1, 2}
    Internal = {3}
    Calls <- NestedCalls
    Capacity = 1
    Pipe = 1
    Streams = {1, 2}
    MaxStreams = 1
    Buffer = 1
    MaxEvents = 2
INVARIANTS CleanEndIsComplete EndFollowsStop
PROPERTY RequestsSettle
CHECK_DEADLOCK FALSE
