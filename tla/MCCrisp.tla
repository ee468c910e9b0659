------------------------------ MODULE MCCrisp ------------------------------
(* Instances of the pyramid builder for TLC.                               *)
EXTENDS Crisp

\* An opaque colour whose red and blue differ, so a channel swap shows.
Opaque1 == Word(10, 20, 30, 255)
Opaque2 == Word(200, 100, 50, 255)
SemiTransparent == Word(10, 20, 30, 128)

\* Every width and height 1..36: ladders of one to four levels, and both
\* sides of the 8 / 9, 16 / 17 and 32 / 33 boundaries of the loop guards.
LadderDims == (1 .. 36) \X (1 .. 36)

\* Small bitmaps whose sides give two or three levels per axis, odd sides
\* exercising the clamp of the last sample.
PixelDims == {<<9, 9>>, <<10, 9>>, <<17, 5>>, <<5, 18>>}

PixelSpecials == {Zero, SemiTransparent, Opaque2}
=============================================================================
