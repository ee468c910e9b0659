------------------------------ MODULE Magnifier ------------------------------
(***************************************************************************)
(* The Magnifier component of orbital.js: a single fish-eye lens panned by *)
(* the mouse, with pan inertia (dInert), the requestAnimationFrame redraws *)
(* its handlers queue, and resize.  drawCircle keeps one canvas, `cache`:  *)
(* while panning it renders the lens at the current centre and keeps that *)
(* canvas as the cache; otherwise it shows the cache as it is.  cacheAt is *)
(* the centre that canvas was rendered at.  One axis of the centre is kept. *)
(*                                                                         *)
(* Scheduling is the browser's, as in OrbitalNav: callbacks registered     *)
(* before a frame run in it, in order, with no input event between them.   *)
(***************************************************************************)
EXTENDS Integers, Sequences, FiniteSets

CONSTANTS
    MaxOffset,  \* setCenter clamps the centre to -MaxOffset .. MaxOffset
    RingSize,   \* length of the inertPan ring buffer (20 in the code)
    MaxSteps,   \* frames dInert may run before its di falls to 0
    MaxEvents   \* input events (press, move, release, resize) in a behaviour

Offsets == -MaxOffset .. MaxOffset
\* setCenter: clamp to half the scaled bitmap and floor
Clamp(x) == IF x > MaxOffset THEN MaxOffset ELSE IF x < -MaxOffset THEN -MaxOffset ELSE x

Cb(kind, steps, v) == [k |-> kind, steps |-> steps, v |-> v]

VARIABLES
    held, events, running,
    mouseDown, panning, animating,
    center, oldCenter, cachedCnv,
    isCache, cacheAt,              \* the lens canvas and the centre it shows
    pressFar,                      \* dragX / dragY outside the circle dInert tests
    panLen, panIdx, panSamples,    \* inertPan.length, inertIdxPan, last centres
    raf

vars == <<held, events, running, mouseDown, panning, animating, center,
          oldCenter, cachedCnv, isCache, cacheAt, pressFar, panLen, panIdx,
          panSamples, raf>>

St == [mouseDown |-> mouseDown, panning |-> panning, animating |-> animating,
       center |-> center, oldCenter |-> oldCenter, cachedCnv |-> cachedCnv,
       isCache |-> isCache, cacheAt |-> cacheAt, pressFar |-> pressFar,
       panLen |-> panLen, panIdx |-> panIdx, panSamples |-> panSamples, raf |-> raf]

Apply(s) ==
    /\ mouseDown' = s.mouseDown /\ panning' = s.panning /\ animating' = s.animating
    /\ center' = s.center /\ oldCenter' = s.oldCenter /\ cachedCnv' = s.cachedCnv
    /\ isCache' = s.isCache /\ cacheAt' = s.cacheAt /\ pressFar' = s.pressFar
    /\ panLen' = s.panLen /\ panIdx' = s.panIdx /\ panSamples' = s.panSamples
    /\ raf' = s.raf

Enqueue(s, cb) == [s EXCEPT !.raf = Append(@, cb)]

\* redraw -> drawCircle: render the shared canvas at centre 0 if there is
\* none, and while panning render at the centre and keep it as the cache
Redraw(s) ==
    LET s1 == IF s.isCache THEN s ELSE [s EXCEPT !.isCache = TRUE, !.cacheAt = 0]
    IN  IF s1.panning THEN [s1 EXCEPT !.cacheAt = s1.center] ELSE s1

\* mousedown (button 1); far: the press point is outside the circle the
\* dInert abort test uses
MouseDown(s, far) ==
    [s EXCEPT !.animating = FALSE, !.mouseDown = TRUE,
              !.oldCenter = s.center, !.pressFar = far]

(***************************************************************************)
(* mousemove.  pos is the pointer relative to the lens: "inner" passes     *)
(* both the commit test (distance < rr) and mousemovePan's stricter one    *)
(* (ceil (distance) < floor (rr)), "edge" only the first, "outside" none.  *)
(***************************************************************************)
Zones == {"inner", "edge", "outside"}

RingLen(len, idx) == IF idx + 1 > len THEN idx + 1 ELSE len
\* Variant: the index is not wrapped at the end of the buffer.
RingNextNoWrap(idx) == idx + 1
RingNext(idx) == IF idx + 1 = RingSize THEN 0 ELSE idx + 1

MoveCommit(s, moved, pos) ==
    IF ~s.panning /\ s.mouseDown /\ moved /\ ~s.animating /\ pos # "outside"
    THEN [s EXCEPT !.panning = TRUE, !.oldCenter = s.center,
                   !.panLen = 0, !.panIdx = 0, !.panSamples = <<>>]
    ELSE s

\* mousemovePan and the inertPan sample of the centre
MovePan(s, pos, delta) ==
    IF ~s.animating /\ s.panning THEN
      LET s1 == Enqueue(IF pos = "inner"
                        THEN [s EXCEPT !.center = Clamp(s.oldCenter + delta),
                                       !.cachedCnv = FALSE]
                        ELSE [s EXCEPT !.center = 0, !.cachedCnv = TRUE],
                        Cb("panDraw", 0, 0))
          smp == Append(s1.panSamples, s1.center)
      IN  [s1 EXCEPT !.panSamples = IF Len(smp) > 3 THEN Tail(smp) ELSE smp,
                     !.panLen = RingLen(s1.panLen, s1.panIdx),
                     !.panIdx = RingNext(s1.panIdx)]
    ELSE s

MouseMove(s, moved, pos, delta) ==
    Enqueue(MovePan(MoveCommit(s, moved, pos), pos, delta), Cb("hover", 0, 0))

(***************************************************************************)
(* dInert, one frame.  v is the sign of the averaged velocity (0: dd = 0, *)
(* so di drops below 0 at once), go whether di is still positive, d the   *)
(* step setCenter makes after flooring.                                   *)
(***************************************************************************)
\* Variant: the end of the glide clears panning but leaves animating set.
GlideStopKeepAnimating(s) ==
    Redraw([s EXCEPT !.panning = FALSE, !.cachedCnv = FALSE])

GlideStop(s) ==
    Redraw([s EXCEPT !.panning = FALSE, !.animating = FALSE, !.cachedCnv = FALSE])

DInertStep(s, v, steps, go, d) ==
    IF s.animating THEN
      IF go /\ steps < MaxSteps /\ v # 0 THEN
        LET s1 == [s EXCEPT !.center = Clamp(s.center + d)]
        IN  IF s1.center # s.center
            THEN Enqueue(Redraw(s1), Cb("dInert", steps + 1, v))
            ELSE GlideStop(s1)
      ELSE GlideStop(s)
    ELSE IF s.mouseDown /\ s.pressFar
      THEN [s EXCEPT !.panning = FALSE, !.animating = FALSE, !.cachedCnv = FALSE]
      ELSE s

Sign(x) == IF x > 0 THEN 1 ELSE IF x < 0 THEN -1 ELSE 0
\* the signs avgX may take from the last (up to) three samples
VelSigns(smp) ==
    IF Len(smp) < 2 THEN {0}
    ELSE LET n == Len(smp)
             dx1 == smp[n] - smp[n - 1]
             dx2 == IF n = 3 THEN smp[2] - smp[1] ELSE 0
         IN  {0, Sign(dx1)} \cup
             (IF n < 3 THEN {}
              ELSE IF dx1 = 0 THEN {Sign(dx2)}
              ELSE IF Sign(dx1) = Sign(dx2) \/ dx2 = 0 THEN {Sign(dx1)}
              ELSE {-1, 0, 1})

\* Variant: a release that starts no glide forgets to clear panning.
MouseUpKeepPanning(s, coherent, v, go, d) ==
    LET s0 == [s EXCEPT !.mouseDown = FALSE]
    IN
    IF s0.animating THEN s0
    ELSE IF s0.panning /\ s0.panLen > 1 THEN
      LET s1 == IF coherent THEN DInertStep([s0 EXCEPT !.animating = TRUE], v, 0, go, d)
                ELSE s0
      IN  IF s1.animating THEN s1
          ELSE Redraw([s1 EXCEPT !.panning = FALSE, !.cachedCnv = FALSE])
    ELSE Redraw(s0)

\* mouseup; coherent: the last sample is recent and avgt < 250
MouseUp(s, coherent, v, go, d) ==
    LET s0 == [s EXCEPT !.mouseDown = FALSE]
    IN
    IF s0.animating THEN s0
    ELSE IF s0.panning /\ s0.panLen > 1 THEN
      LET s1 == IF coherent THEN DInertStep([s0 EXCEPT !.animating = TRUE], v, 0, go, d)
                ELSE s0
      IN  IF s1.animating THEN s1
          ELSE Redraw([s1 EXCEPT !.panning = FALSE, !.cachedCnv = FALSE])
    ELSE Redraw([s0 EXCEPT !.panning = FALSE])

\* the redraw queued by every mousemove
Hover(s) == IF ~s.mouseDown /\ ~s.animating /\ ~s.panning THEN Redraw(s) ELSE s

-----------------------------------------------------------------------------
\* After construction the page's resize has drawn the lens once.
Init ==
    /\ held = FALSE /\ events = 0 /\ running = <<>>
    /\ mouseDown = FALSE /\ panning = FALSE /\ animating = FALSE
    /\ center = 0 /\ oldCenter = 0 /\ cachedCnv = TRUE
    /\ isCache = TRUE /\ cacheAt = 0 /\ pressFar = FALSE
    /\ panLen = 0 /\ panIdx = 0 /\ panSamples = <<>>
    /\ raf = <<>>

Input == running = <<>> /\ events < MaxEvents /\ events' = events + 1

Press ==
    /\ Input /\ ~held /\ held' = TRUE
    /\ \E far \in BOOLEAN : Apply(MouseDown(St, far))
    /\ UNCHANGED running

Move ==
    /\ Input
    /\ \E moved \in BOOLEAN, pos \in Zones, delta \in -1 .. 1 :
         Apply(MouseMove(St, moved, pos, delta))
    /\ UNCHANGED <<held, running>>

Release ==
    /\ Input /\ held /\ held' = FALSE
    /\ \E coherent, go \in BOOLEAN, v \in VelSigns(panSamples), d \in {0, 1} :
         Apply(MouseUp(St, coherent, v, go, v * d))
    /\ UNCHANGED running

\* resize: invalidateCache () drops the canvas; redraw () renders it again
Resize ==
    /\ Input
    /\ Apply(Redraw([St EXCEPT !.isCache = FALSE]))
    /\ UNCHANGED <<held, running>>

Frame ==
    /\ running = <<>> /\ raf # <<>>
    /\ running' = raf /\ raf' = <<>>
    /\ UNCHANGED <<held, events, mouseDown, panning, animating, center, oldCenter,
                   cachedCnv, isCache, cacheAt, pressFar, panLen, panIdx, panSamples>>

Callback ==
    /\ running # <<>>
    /\ running' = Tail(running)
    /\ LET cb == Head(running) IN
       \/ cb.k = "panDraw" /\ Apply(Redraw(St))
       \/ cb.k = "hover" /\ Apply(Hover(St))
       \/ cb.k = "dInert" /\ \E go \in BOOLEAN, d \in {0, cb.v} :
                               Apply(DInertStep(St, cb.v, cb.steps, go, d))
    /\ UNCHANGED <<held, events>>

Next == Press \/ Move \/ Release \/ Resize \/ Frame \/ Callback

\* The browser runs every frame and every registered callback; the user
\* owes nothing.
Spec == Init /\ [][Next]_vars /\ WF_vars(Frame) /\ WF_vars(Callback)

-----------------------------------------------------------------------------
\* The variables keep their types.
TypeOK ==
    /\ {held, mouseDown, panning, animating, cachedCnv, isCache, pressFar} \subseteq BOOLEAN
    /\ center \in Offsets /\ oldCenter \in Offsets /\ cacheAt \in Offsets
    /\ panLen \in 0 .. RingSize /\ panIdx \in 0 .. RingSize - 1
    /\ panSamples \in Seq(Offsets) /\ Len(panSamples) <= 3
    /\ raf \in Seq([k : {"panDraw", "hover", "dInert"}, steps : 0 .. MaxSteps, v : -1 .. 1])

(* Spec 4.5: a pointer-down aborts in-flight animation, and clearing the   *)
(* flag is the only cancellation.  At most one dInert loop is ever queued: *)
(* a press during a glide followed by a release must not start a second   *)
(* loop while the first one's next frame is still pending.                 *)
OneGlide ==
    LET q == raf \o running
    IN  Cardinality({i \in DOMAIN q : q[i].k = "dInert"}) <= 1

(* Once nothing is queued, the lens shows the current centre: the canvas   *)
(* drawCircle shows was rendered at centerX.  Ending a pan (mouseup, the   *)
(* last dInert frame) sets cachedCnv = false to ask for a fresh render,    *)
(* and resize renders the lens again.                                      *)
DisplayMatchesCenter == raf = <<>> /\ running = <<>> => cacheAt = center

(* Once the user stops, the glide ends and no callback stays queued.       *)
Quiescence == <>[](~animating /\ raf = <<>> /\ running = <<>>)

(* The gesture protocol of spec 4.5 (module LensGesture): the mode is read *)
(* off the flags the handlers keep, the button is mouseDown.               *)
GestureMode == IF animating THEN "glide" ELSE IF panning THEN "pan" ELSE "idle"

Gesture == INSTANCE LensGesture WITH mode <- GestureMode, held <- mouseDown

(* Magnifier implements LensGesture.                                       *)
GestureSpec == Gesture!Spec
====
