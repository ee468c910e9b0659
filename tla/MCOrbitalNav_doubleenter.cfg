\* A press during drag inertia leaves aInert running into a drill-in; its
\* stop clears animating mid-transition and a second drill-in starts, so
\* the level stack is entered twice.  One child per node and no pan offset
\* keep the seven events within reach; neither is needed for the route.
CONSTANTS
    ChildIdx <- MCOneChild
    SelDepth = 2
    MaxOffset = 0
    RingSize = 3
    MaxSteps = 2
    MaxLevels = 2
SPECIFICATION Spec
CONSTANT MaxDepth = 2
CONSTANT MaxEvents = 7
PROPERTY LevelSpec
\* The page may idle: once the bounded input has been used and every
\* animation has ended, no handler has anything left to do.
CHECK_DEADLOCK FALSE
