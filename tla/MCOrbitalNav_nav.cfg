\* Cache coherence, no crash in the transitions and every animation ending
\* once the user stops, over every behaviour of four input events.
CONSTANTS
    ChildIdx <- MCChildIdx
    SelDepth = 2
    MaxOffset = 1
    RingSize = 3
    MaxSteps = 2
    MaxLevels = 2
SPECIFICATION Spec
CONSTANT MaxDepth = 2
CONSTANT MaxEvents = 4
INVARIANT TypeOK
INVARIANT CachedCanvasMatchesCenter
INVARIANT TransitionsNeverThrow
PROPERTY Quiescence
\* The page may idle: once the bounded input has been used and every
\* animation has ended, no handler has anything left to do.
CHECK_DEADLOCK FALSE
