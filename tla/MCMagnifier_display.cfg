\* A release before the frame of the last pan move leaves the old image.
CONSTANTS
    MaxOffset = 2
    RingSize = 3
    MaxSteps = 2
SPECIFICATION Spec
CONSTANT MaxEvents = 4
INVARIANT DisplayMatchesCenter
\* The page may idle once the bounded input is used and the glide ended.
CHECK_DEADLOCK FALSE
