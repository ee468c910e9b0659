\* renderFishEye's stores against the render map entries they read.
CONSTANTS
    Dims <- PixelDims
    Background <- Opaque1
    Specials = {}
    Width = 4
    Height = 3
    SuperSampling = 1
SPECIFICATION Spec
INVARIANT WrittenAtOwnPosition
CHECK_DEADLOCK FALSE
