--------------------------- MODULE MCMagnifierInput ---------------------------
(* The Magnifier with mouse and touch input, for TLC: two fingers.        *)
EXTENDS MagnifierInput

CONSTANTS f1, f2

MCFingers == {f1, f2}
====
