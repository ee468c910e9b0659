------------------------------ MODULE RingWalk ------------------------------
(***************************************************************************)
(* The ring walks of fractalOvals' render: after drawing the small circle *)
(* (x0, y0, r0), render lays out its children on the ring around it.  It *)
(* takes c0 = getCircle at the cursor's angle, then walks the ring with   *)
(* getNeighbor, first in the "+" direction and then in the "-" one, from  *)
(* c0 each time.  Each walk renders the circles at least minRadius large  *)
(* and stops at the first smaller one that is not larger than the one     *)
(* before it.  The child whose render returned a pass (the mouse or the   *)
(* selection is in it) becomes idx.  A drag of a child calls the ring's  *)
(* calcCursor with the child's new angle: from that child (data index     *)
(* idx) it climbs the ring towards the larger circles and makes the       *)
(* largest one the cursor, whose index and angle the next render starts   *)
(* from.                                                                  *)
(*                                                                         *)
(* Geometry is abstracted to the ring's radius profile: circle k of the   *)
(* ring is the k-th neighbour of c0 ("+" for k > 0, "-" for k < 0) and    *)
(* rad[k] its radius times squashX * squashY.  Around a ring the circles  *)
(* grow towards the side opposite the tangent point and shrink to nothing *)
(* towards it, so a profile rises strictly to a peak (two equal circles   *)
(* may straddle it) and falls strictly after; past the Ring circles kept  *)
(* the radii are 0.                                                       *)
(***************************************************************************)
EXTENDS Integers, FiniteSetsExt

CONSTANTS
    Ring,         \* circles 1 .. Ring on each side of c0 are modelled
    MaxRad,       \* radii are 0 .. MaxRad, 0 standing for below one unit
    MinRadius,    \* render's minRadius
    CursorIndex,  \* cursor.index at a render, the dragged child's idx at a drag
    None          \* no child returned a pass

Offsets == -Ring .. Ring

\* the radius profiles of the ring, c0 at offset 0: strictly rising from
\* -Ring to a peak p, and strictly falling from p + 1 on
Below(A, v) == Cardinality({w \in A : w < v})
Above(A, v) == Cardinality({w \in A : w > v})
Profiles ==
    UNION {{[k \in Offsets |->
               IF k <= p THEN CHOOSE v \in up : Below(up, v) = k + Ring
               ELSE CHOOSE v \in down : Above(down, v) = k - p - 1]
            : up \in kSubset(p + Ring + 1, 0 .. MaxRad),
              down \in kSubset(Ring - p, 0 .. MaxRad)}
          : p \in Offsets}

VARIABLES
    mode,         \* "render", or "drag": calcCursor, then the next render
    rad,          \* the ring's radius profile
    hit,          \* the offset of the child whose render returns a pass, or None
    phase,        \* "calc", "climb+" or "climb-" in calcCursor; "c0", then
                  \* "+" and "-" for render's two while loops, then "done"
    o,            \* the offset of c0, the circle at cursor.angle
    cursorIndex,  \* cursor.index
    c1,           \* the offset of the circle c1 (calcCursor's m2)
    oldr,         \* oldr
    ci,           \* ci, the data index passed to the child's render
    mi,           \* calcCursor's mi
    rendered,     \* the <<ci, offset>> pairs of the children rendered
    idx           \* idx (ret is set exactly when idx is)

vars == <<mode, rad, hit, phase, o, cursorIndex, c1, oldr, ci, mi, rendered, idx>>

Radius(k) == IF k \in Offsets THEN rad[k] ELSE 0

\* the values of ang > Math.PI for the dragged child at offset 0: the
\* circle at angle pi is the ring's largest, on the side the ring grows
AbovePi ==
    IF rad[1] >= rad[0] THEN {TRUE}
    ELSE IF rad[-1] >= rad[0] THEN {FALSE} ELSE {TRUE, FALSE}

Init ==
    /\ rad \in Profiles
    /\ \/ mode = "render" /\ phase = "c0" /\ hit \in Offsets \cup {None}
       \/ mode = "drag" /\ phase = "calc" /\ hit = None
    /\ o = 0 /\ cursorIndex = CursorIndex /\ c1 = 0 /\ oldr = 0
    /\ ci = CursorIndex /\ mi = CursorIndex /\ rendered = {} /\ idx = None

\* Variant: the climb goes "-" when ang > Math.PI and "+" otherwise.
CalcStartSwapped ==
    /\ phase = "calc"
    /\ \E above \in AbovePi : phase' = IF above THEN "climb-" ELSE "climb+"
    /\ c1' = 0 /\ mi' = CursorIndex
    /\ UNCHANGED <<mode, rad, hit, o, cursorIndex, oldr, ci, rendered, idx>>

\* calcCursor (ang): mi = idx, m2 = getCircle (ang), the dragged child;
\* the neighbours are taken "+" if ang > Math.PI and "-" otherwise
CalcStart ==
    /\ phase = "calc"
    /\ \E above \in AbovePi : phase' = IF above THEN "climb+" ELSE "climb-"
    /\ c1' = 0 /\ mi' = CursorIndex
    /\ UNCHANGED <<mode, rad, hit, o, cursorIndex, oldr, ci, rendered, idx>>

\* calcCursor, one pass of its do-while: m1 = m2, m2 = getNeighbor (m1),
\* mi moves one on; while m1.r <= m2.r.  At the end cursor.index is the
\* index of m1 and cursor.angle its angle, and the next render starts
\* from there.
Climb(dir) ==
    /\ phase = IF dir = "+" THEN "climb+" ELSE "climb-"
    /\ LET step == IF dir = "+" THEN 1 ELSE -1 IN
         IF Radius(c1) <= Radius(c1 + step)
         THEN c1' = c1 + step /\ mi' = mi + step
              /\ UNCHANGED <<phase, o, cursorIndex>>
         ELSE /\ phase' = "c0" /\ o' = c1 /\ cursorIndex' = mi
              /\ UNCHANGED <<c1, mi>>
    /\ UNCHANGED <<mode, rad, hit, oldr, ci, rendered, idx>>

\* render (..., ci, ...) of circle k: drawn, and a pass taken as ret unless
\* an earlier child gave one
RenderChild(k, i) ==
    /\ rendered' = rendered \cup {<<i, k>>}
    /\ idx' = IF idx = None /\ hit = k THEN i ELSE idx

\* c0 = getCircle at cursor.angle: rendered if large enough, then the "+"
\* walk starts at getNeighbor (c0, "+") with oldr = c0.r
C0 ==
    /\ phase = "c0"
    /\ IF Radius(o) >= MinRadius THEN RenderChild(o, cursorIndex)
       ELSE UNCHANGED <<rendered, idx>>
    /\ phase' = "+" /\ c1' = o + 1 /\ oldr' = Radius(o) /\ ci' = cursorIndex
    /\ UNCHANGED <<mode, rad, hit, o, cursorIndex, mi>>

\* the walk goes on from c1
Advance(step, i) == c1' = c1 + step /\ oldr' = Radius(c1) /\ ci' = i

\* break: the "+" walk is followed by the "-" walk, from c0 again with
\* ci = cursor.index; the "-" walk ends the ring
EndWalk(next) ==
    /\ phase' = next /\ c1' = o - 1 /\ oldr' = Radius(o) /\ ci' = cursorIndex
    /\ UNCHANGED <<rendered, idx>>

\* Variant: a circle below minRadius ends the walk even while the ring
\* still grows.
WalkNoDelta(dir, next) ==
    /\ phase = dir
    /\ LET step == IF dir = "+" THEN 1 ELSE -1 IN
         IF Radius(c1) >= MinRadius
         THEN RenderChild(c1, ci + step) /\ Advance(step, ci + step) /\ UNCHANGED phase
         ELSE EndWalk(next)
    /\ UNCHANGED <<mode, rad, hit, o, cursorIndex, mi>>

\* One pass of a while (true) loop: delta = c1.r > oldr, ci moves one
\* child on, c1 is rendered if large enough; otherwise a circle that does
\* not grow (!delta) ends the walk.
Walk(dir, next) ==
    /\ phase = dir
    /\ LET step == IF dir = "+" THEN 1 ELSE -1
           i == ci + step
       IN IF Radius(c1) >= MinRadius
          THEN RenderChild(c1, i) /\ Advance(step, i) /\ UNCHANGED phase
          ELSE IF Radius(c1) <= oldr THEN EndWalk(next)
          ELSE Advance(step, i) /\ UNCHANGED <<phase, rendered, idx>>
    /\ UNCHANGED <<mode, rad, hit, o, cursorIndex, mi>>

Next ==
    \/ CalcStart \/ Climb("+") \/ Climb("-")
    \/ C0 \/ Walk("+", "-") \/ Walk("-", "done")

\* render is synchronous: once started, the walks run to their end.
Spec == Init /\ [][Next]_vars /\ WF_vars(Next)

-----------------------------------------------------------------------------
Indices == CursorIndex - 2 * (Ring + 1) .. CursorIndex + 2 * (Ring + 1)

TypeOK ==
    /\ mode \in {"render", "drag"}
    /\ rad \in [Offsets -> 0 .. MaxRad] /\ hit \in Offsets \cup {None}
    /\ phase \in {"calc", "climb+", "climb-", "c0", "+", "-", "done"}
    /\ o \in Offsets /\ c1 \in -(Ring + 1) .. Ring + 1
    /\ oldr \in 0 .. MaxRad
    /\ {cursorIndex, ci, mi} \subseteq Indices
    /\ rendered \subseteq Indices \X Offsets
    /\ idx \in Indices \cup {None}

Visible == {k \in Offsets : rad[k] >= MinRadius}

(* Spec 4.4: render draws every child circle of the ring at least         *)
(* minRadius large, each once, with the data index cursor.index plus its  *)
(* place from c0, and no other: the walks' stop rule (a small circle ends *)
(* a walk only when it does not grow) must not cut off the large circles  *)
(* beyond a small c0 or a small first neighbour.                          *)
RingRendersVisible ==
    phase = "done" => rendered = {<<cursorIndex + k - o, k>> : k \in Visible}

(* After a drag, calcCursor makes the ring's largest circle the cursor,   *)
(* and the next render draws the dragged child, data index idx, at the    *)
(* place it was dragged to: the climb's direction (ang > Math.PI) and its *)
(* index arithmetic (mi - 1, mi + 1) agree with the walks' ci.            *)
CursorFollowsDrag ==
    mode = "drag" /\ phase = "done" =>
      /\ \A k \in Offsets : rad[k] <= rad[o]
      /\ 0 \in Visible => <<CursorIndex, 0>> \in rendered
====
