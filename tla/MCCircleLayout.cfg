\* getCircle and getNeighbor converge on the tangent radius and angle, for
\* parent radii 1 .. 4 at the code's precision 2^-16; render's ring walks
\* draw the circles at least minRadius large on every ring of 7 circles
\* with radii 0 .. 6, also after a drag.
CONSTANTS
    PrecisionBits = 16
    LengthBits = 18
    AngleBits = 16
    MaxRadius = 4
    Ring = 3
    MaxRad = 6
    MinRadius = 5
    CursorIndex = 5
    None = None
SPECIFICATION Spec
INVARIANT TypeOK
INVARIANT SearchConverges
INVARIANT RingRendersVisible
INVARIANT CursorFollowsDrag
\* A loop stops once its condition fails.
CHECK_DEADLOCK FALSE
