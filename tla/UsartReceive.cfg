SPECIFICATION FairSpec
CONSTANTS
    buffer_size = 4
    MaxBytes = 13
    Lengths = {1}
INVARIANT InOrder
INVARIANT NothingLost
PROPERTY DropsOnlyWhenFull
PROPERTY EveryByteIsRead
