\* A tap during a glide starts a second dInert loop beside the first.
CONSTANTS
    MaxOffset = 2
    RingSize = 3
    MaxSteps = 2
SPECIFICATION Spec
CONSTANT MaxEvents = 6
INVARIANT OneGlide
\* The page may idle once the bounded input is used and the glide ended.
CHECK_DEADLOCK FALSE
