\* mouseup reads inert[inertIdx - 1] after the ring buffer wrapped.
CONSTANTS
    ChildIdx <- MCChildIdx
    SelDepth = 2
    MaxOffset = 1
    RingSize = 3
    MaxSteps = 2
    MaxLevels = 2
SPECIFICATION Spec
CONSTANT MaxDepth = 2
CONSTANT MaxEvents = 5
INVARIANT ReleaseNeverThrows
\* The page may idle: once the bounded input has been used and every
\* animation has ended, no handler has anything left to do.
CHECK_DEADLOCK FALSE
