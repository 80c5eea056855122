SPECIFICATION Spec
CONSTANTS
    buffer_size = 4
    MaxCall = 5
    Byte = {"a", "b"}
    Stale = "a"
INVARIANT TypeOK
PROPERTY ImplementsQueue
