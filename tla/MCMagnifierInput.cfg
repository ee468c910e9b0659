\* Driven by the mouse and by touches, the Magnifier implements the gesture
\* protocol and every glide ends; the touch listeners keep their list to
\* the fingers on the screen, and all handler calls implement PointerInput.
CONSTANTS
    f1 = f1
    f2 = f2
    Fingers <- MCFingers
    MaxOffset = 2
    RingSize = 3
    MaxSteps = 2
    MaxEvents = 5
SPECIFICATION Spec
INVARIANT TypeOK
INVARIANT TrackedIsDown
PROPERTY PointerSpec
PROPERTY GestureSpec
PROPERTY Quiescence
\* The page may idle once the bounded input is used and the glide ended.
CHECK_DEADLOCK FALSE
