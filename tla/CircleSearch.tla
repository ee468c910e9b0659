----------------------------- MODULE CircleSearch -----------------------------
(***************************************************************************)
(* The two bisection searches of fractalOvals' render: getCircle finds    *)
(* the radius ra of the circle tangent to the parent (x1, y1, r1) along   *)
(* the ray at angle alpha, and getNeighbor the angle of the next circle   *)
(* of the ring, tangent to the previous one c1.  Each pass of their       *)
(* do-while loops is one step.                                            *)
(*                                                                         *)
(* The geometry is abstracted to the test each loop makes, which is       *)
(* monotone along the search: getCircle's |ra - r1| <= d holds exactly    *)
(* from the tangent radius `root` on, and getNeighbor's c1.r + c2.r >= d  *)
(* holds exactly on c1's side of the tangent angle `root`.  xa, ya follow *)
(* ra along the ray and are left out.  Lengths are integers in units of   *)
(* 2^-LengthBits and angles in units of 2pi / 2^AngleBits: every value    *)
(* the loops compute is then exact, and an integer root stands for every  *)
(* real root between the same two grid points.                            *)
(***************************************************************************)
EXTENDS Integers

CONSTANTS
    PrecisionBits,  \* pixelPrecision = 2^-PrecisionBits (16 in the code)
    LengthBits,     \* lengths in units of 2^-LengthBits
    AngleBits,      \* angles in units of 2pi / 2^AngleBits
    MaxRadius       \* the parent radii r1 are 1 .. MaxRadius

Scale == 2 ^ LengthBits
Precision == 2 ^ (LengthBits - PrecisionBits)
Turn == 2 ^ AngleBits
Radii == 1 .. MaxRadius

\* getNeighbor's da = acos ((2 r1 - pixelPrecision) / (2 r1)), in angle
\* units for AngleBits = 16, rounded down: |dalpha| > da is the same test
\* on the integers
DA == <<40, 28, 23, 20, 18, 16, 15, 14>>

AbsVal(x) == IF x < 0 THEN -x ELSE x

\* the tangent radii tried: around every eighth of a unit, ties included
CircleRoots(r) ==
    {k * (Scale \div 8) + o : k \in 0 .. 16 * r, o \in {-1, 0, 1}} \cap 0 .. 2 * r * Scale

\* the angles c1 may have, and the tangent angles tried on the searched side
C1Alphas == {k * (Turn \div 16) : k \in {1, 3, 8, 13, 15}}
AngleRoots(dir, a) ==
    {k * (Turn \div 64) + o : k \in 0 .. 64, o \in {-1, 0, 1}}
      \cap (IF dir = "+" THEN 1 .. a - 1 ELSE a + 1 .. Turn - 1)

VARIABLES
    search,   \* "circle" (getCircle), "+" or "-" (getNeighbor's direction)
    r1,       \* the parent radius
    c1,       \* getNeighbor: the angle of the previous circle
    root,     \* where the loop's test turns
    pos,      \* ra, or alpha
    step,     \* dr, or dalpha
    tested,   \* getNeighbor: the angle of the last getCircle (c2), -1 before
    done      \* the loop condition has failed

vars == <<search, r1, c1, root, pos, step, tested, done>>

\* Variant: the search starts from ra = 0, without the first ra += dr.
CircleCallFromZero ==
    \E r \in Radii : \E t \in CircleRoots(r) :
        /\ search = "circle" /\ r1 = r /\ c1 = 0 /\ root = t
        /\ pos = 0 /\ step = r * Scale

\* getCircle: ra = 0, rb = 2 r1, dr = (rb - ra) / 2, ra += dr
CircleCall ==
    \E r \in Radii : \E t \in CircleRoots(r) :
        /\ search = "circle" /\ r1 = r /\ c1 = 0 /\ root = t
        /\ pos = r * Scale /\ step = r * Scale

\* Variant: the "-" search steps with a positive dalpha.
NeighborCallPositive ==
    \E r \in Radii, dir \in {"+", "-"}, a \in C1Alphas :
      \E s \in AngleRoots(dir, a) :
        /\ search = dir /\ r1 = r /\ c1 = a /\ root = s
        /\ IF dir = "+"
           THEN pos = a \div 2 /\ step = a \div 2
           ELSE pos = (Turn + a) \div 2 /\ step = Turn - (Turn + a) \div 2

\* getNeighbor: "+" searches (0, c1.alpha) from its middle, "-" searches
\* (c1.alpha, 2pi) with a negative step
NeighborCall ==
    \E r \in Radii, dir \in {"+", "-"}, a \in C1Alphas :
      \E s \in AngleRoots(dir, a) :
        /\ search = dir /\ r1 = r /\ c1 = a /\ root = s
        /\ IF dir = "+"
           THEN pos = a \div 2 /\ step = a \div 2
           ELSE pos = (Turn + a) \div 2 /\ step = -(Turn - (Turn + a) \div 2)

Init ==
    /\ CircleCall \/ NeighborCall
    /\ tested = -1 /\ done = FALSE

\* getCircle, one pass: halve the steps, then move ra down when the circle
\* reaches the parent's rim and up when it does not; loop while dr > pp
CirclePass ==
    /\ search = "circle" /\ ~done
    /\ LET dr == step \div 2 IN
         /\ step' = dr
         /\ pos' = IF pos >= root THEN pos - dr ELSE pos + dr
         /\ done' = (dr <= Precision)
    /\ UNCHANGED <<search, r1, c1, root, tested>>

\* c2 = getCircle (alpha, ...) overlaps c1
Overlaps(alpha) == IF search = "+" THEN alpha >= root ELSE alpha <= root

\* getNeighbor, one pass: c2 is the circle at alpha; halve dalpha, then
\* step away from c1 when c2 overlaps it and towards it otherwise; loop
\* while |dalpha| > da.  The loop returns c2.
NeighborPass ==
    /\ search \in {"+", "-"} /\ ~done
    /\ tested' = pos
    /\ LET d == step \div 2 IN
         /\ step' = d
         /\ pos' = IF Overlaps(pos) THEN pos - d ELSE pos + d
         /\ done' = (AbsVal(d) <= DA[r1])
    /\ UNCHANGED <<search, r1, c1, root>>

Next == CirclePass \/ NeighborPass

\* A loop, once called, runs to its end.
Spec == Init /\ [][Next]_vars /\ WF_vars(Next)

-----------------------------------------------------------------------------
TypeOK ==
    /\ search \in {"circle", "+", "-"} /\ r1 \in Radii
    /\ search = "circle" => pos \in 0 .. 2 * r1 * Scale /\ step \in 1 .. r1 * Scale
    /\ search # "circle" => pos \in 0 .. Turn /\ AbsVal(step) \in 1 .. Turn
    /\ tested \in -1 .. Turn /\ done \in BOOLEAN

(* Spec 4.4: getCircle converges to the tangent radius within            *)
(* pixelPrecision, and getNeighbor on the tangent angle within the step   *)
(* size it stops at.  The circle getNeighbor returns is the one at the    *)
(* last angle it tested, before the last move, so it lies within twice    *)
(* da of the tangent angle.                                               *)
SearchConverges ==
    done =>
      IF search = "circle" THEN AbsVal(pos - root) <= Precision
      ELSE AbsVal(tested - root) <= 2 * DA[r1]
====
