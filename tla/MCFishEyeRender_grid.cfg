\* The level grid of crispBitmapXY and crispBitmap, the opacity rule through
\* every level, and renderFishEye's blend of every level's samples.
CONSTANTS
    Dims <- PixelDims
    Background <- Opaque1
    Specials <- PixelSpecials
    Sources <- GridSources
    Width = 4
    Height = 3
    SuperSampling = 1
SPECIFICATION Spec
INVARIANT TypeOK
INVARIANT LevelGridMatchesLadder
INVARIANT OpacityFollowsFootprint
INVARIANT RenderMatchesReference
\* crispBitmapXY runs once per construction and crispBitmap once per cache:
\* after both the builder has nothing left to do.
CHECK_DEADLOCK FALSE
