---------------------------- MODULE MCCircleLayout ----------------------------
(***************************************************************************)
(* The loops of fractalOvals' render that lay out a ring, for TLC: the    *)
(* bisection searches of getCircle and getNeighbor (CircleSearch) and     *)
(* the two ring walks over getNeighbor's results (RingWalk).  A behaviour *)
(* runs one of them, chosen by `loop`; the other's variables hold None.   *)
(* The walks take each neighbour as found, which the searches check.      *)
(***************************************************************************)
EXTENDS Integers

CONSTANTS PrecisionBits, LengthBits, AngleBits, MaxRadius,
          Ring, MaxRad, MinRadius, CursorIndex, None

VARIABLES search, r1, c1, root, pos, step, tested, done,
          mode, rad, hit, phase, o, cursorIndex, wc1, oldr, ci, mi, rendered, idx, loop

searchVars == <<search, r1, c1, root, pos, step, tested, done>>
walkVars == <<mode, rad, hit, phase, o, cursorIndex, wc1, oldr, ci, mi,
             rendered, idx>>
vars == <<searchVars, walkVars, loop>>

S == INSTANCE CircleSearch
W == INSTANCE RingWalk WITH c1 <- wc1

Unused(v) == \A i \in DOMAIN v : v[i] = None

NoSearch ==
    /\ search = None /\ r1 = None /\ c1 = None /\ root = None
    /\ pos = None /\ step = None /\ tested = None /\ done = None
NoWalk ==
    /\ mode = None /\ rad = None /\ hit = None /\ phase = None /\ o = None
    /\ cursorIndex = None /\ wc1 = None /\ oldr = None /\ ci = None
    /\ mi = None /\ rendered = None /\ idx = None

Init ==
    \/ loop = "search" /\ S!Init /\ NoWalk
    \/ loop = "walk" /\ W!Init /\ NoSearch

Next ==
    \/ loop = "search" /\ S!Next /\ UNCHANGED <<walkVars, loop>>
    \/ loop = "walk" /\ W!Next /\ UNCHANGED <<searchVars, loop>>

Spec == Init /\ [][Next]_vars /\ WF_vars(Next)

-----------------------------------------------------------------------------
TypeOK ==
    IF loop = "search" THEN S!TypeOK /\ Unused(walkVars)
    ELSE loop = "walk" /\ W!TypeOK /\ Unused(searchVars)

(* The search properties of CircleSearch: getCircle within               *)
(* pixelPrecision of the tangent radius, getNeighbor within twice da of   *)
(* the tangent angle.                                                     *)
SearchConverges == loop = "search" => S!SearchConverges

(* The ring walks of render draw exactly the ring's circles at least      *)
(* minRadius large, each with its own data index.                         *)
RingRendersVisible == loop = "walk" => W!RingRendersVisible

(* After a drag, calcCursor puts the cursor on the ring's largest circle  *)
(* and the next render draws the dragged child with its own data index    *)
(* where it was dragged to.                                               *)
CursorFollowsDrag == loop = "walk" => W!CursorFollowsDrag
====
