\* Halving a uniformly coloured opaque bitmap must keep its colour.
CONSTANTS
    Dims <- PixelDims
    Background <- Opaque1
    Specials = {}
SPECIFICATION Spec
INVARIANT UniformColourPreserved
CHECK_DEADLOCK FALSE
