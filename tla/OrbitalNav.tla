----------------------------- MODULE OrbitalNav -----------------------------
(***************************************************************************)
(* The navigation state machine of the Orbital component (orbital.js):     *)
(* the mouse handlers mousedown / mousemove / mouseup, the closures they   *)
(* hand to requestAnimationFrame (hover redraw, pan redraw, drag re-select, *)
(* the inertia loops aInert and dInert, the level transitions aEnlarge and *)
(* aEnsmall, the synthetic mousemove / mouseup that end a transition), the *)
(* resize handler, and the per-node canvas cache that drawCircle keeps.    *)
(*                                                                         *)
(* Geometry is abstracted: where a handler asks where the pointer is, the  *)
(* model lets the environment choose among the zones the code tells apart. *)
(* A node of the cursor tree is its path of child ordinals from the root;  *)
(* a select chain is the node of its deepest pass and its depth `rec` in   *)
(* the chain.  One axis of the pan offset is kept.                         *)
(*                                                                         *)
(* Browser scheduling: every callback registered before a frame runs in    *)
(* that frame, in registration order, and no input event is dispatched    *)
(* between them; callbacks registered during a frame run in the next one.  *)
(***************************************************************************)
EXTENDS Integers, Sequences, FiniteSets

CONSTANTS
    ChildIdx,   \* child ordinals a node of the cursor tree may have
    MaxDepth,   \* deepest cursor the model lets a drill-in reach
    SelDepth,   \* deepest pass below the cursor a hit test may return
    MaxOffset,  \* setCenter clamps the pan offset to -MaxOffset .. MaxOffset
    RingSize,   \* length of the inert / inertPan ring buffers (20 in the code)
    MaxSteps,   \* frames an animation loop may run before it must end
    MaxEvents,  \* input events (press, move, release, resize) in a behaviour
    MaxLevels   \* level transitions started in a behaviour

Offsets == -MaxOffset .. MaxOffset
Clamp(x) == IF x > MaxOffset THEN MaxOffset ELSE IF x < -MaxOffset THEN -MaxOffset ELSE x

Paths(k) == UNION {[1 .. j -> ChildIdx] : j \in 0 .. k}
Nodes == Paths(MaxDepth + SelDepth)
Suffixes == Paths(SelDepth)
Root == <<>>
FakeParent == <<-2>>          \* {index: 0, children: [cursor]} above the root
Parent(n) == IF n = Root THEN FakeParent ELSE SubSeq(n, 1, Len(n) - 1)
Prefixes(n) == {SubSeq(n, 1, k) : k \in 0 .. Len(n)}
Below(n, m) == Len(m) >= Len(n) /\ SubSeq(m, 1, Len(n)) = n   \* m in n's subtree
Desc(n) == {m \in Nodes : Below(n, m) /\ m # n}

NoPre == <<-1>>                         \* a hit test that found no circle
NoSel == [node |-> NoPre, rec |-> 0]    \* select === undefined
Data == {"root", "sub", "undef"}        \* the data passed to render

\* cachedCnv: true (use the shared cache), false (re-render), or a canvas
Shared == [k |-> "shared", at |-> 0]
Stale == [k |-> "stale", at |-> 0]
Canvas(c) == [k |-> "canvas", at |-> c]

\* a requestAnimationFrame callback and what its closure captured
Cb(kind, n, steps, v) == [k |-> kind, node |-> n, steps |-> steps, v |-> v]
Loops == {"aInert", "dInert", "aEnlarge", "aEnsmall"}

VARIABLES
    held,           \* the physical button (environment)
    events,         \* input events so far
    running,        \* callbacks of the frame being run
    mouseDown, dragging, panning,
    animating,      \* "no" (false), "inert" (true) or "level"
    cursor, exists, center, cache, index,
    path, data,
    select,         \* [node, rec] of the deepest pass of the select chain
    preSelect,      \* suffix below the cursor found by the last hit test
    levelIsSel,     \* level === select
    gettingIsSel,   \* gettingLevel === select
    preIsLevel,     \* level === the deepest pass of preSelect
    selIsPre,       \* select === the deepest pass of preSelect
    oldCenter, pressInPrimary,
    inertLen, inertIdx,          \* inert.length, inertIdx
    panLen, panIdx, panSamples,  \* inertPan.length, inertIdxPan, last centers
    raf,            \* callbacks registered for the next frame
    thrown,         \* the sites where a handler or callback threw a TypeError
    levels          \* level transitions started

vars == <<held, events, running, mouseDown, dragging, panning, animating,
          cursor, exists, center, cache, index, path, data, select, preSelect,
          levelIsSel, gettingIsSel, preIsLevel, selIsPre, oldCenter,
          pressInPrimary, inertLen, inertIdx, panLen, panIdx, panSamples,
          raf, thrown, levels>>

(***************************************************************************)
(* The handlers run to completion, so each is written as a function of the *)
(* page state St; a step applies the final state with Apply.               *)
(***************************************************************************)
St == [mouseDown |-> mouseDown, dragging |-> dragging, panning |-> panning,
       animating |-> animating, cursor |-> cursor, exists |-> exists,
       center |-> center, cache |-> cache, index |-> index, path |-> path,
       data |-> data, select |-> select, preSelect |-> preSelect,
       levelIsSel |-> levelIsSel, gettingIsSel |-> gettingIsSel,
       preIsLevel |-> preIsLevel, selIsPre |-> selIsPre,
       oldCenter |-> oldCenter, pressInPrimary |-> pressInPrimary,
       inertLen |-> inertLen, inertIdx |-> inertIdx, panLen |-> panLen,
       panIdx |-> panIdx, panSamples |-> panSamples, raf |-> raf,
       thrown |-> thrown, levels |-> levels]

Apply(s) ==
    /\ mouseDown' = s.mouseDown /\ dragging' = s.dragging
    /\ panning' = s.panning /\ animating' = s.animating
    /\ cursor' = s.cursor /\ exists' = s.exists /\ center' = s.center
    /\ cache' = s.cache /\ index' = s.index /\ path' = s.path
    /\ data' = s.data /\ select' = s.select /\ preSelect' = s.preSelect
    /\ levelIsSel' = s.levelIsSel /\ gettingIsSel' = s.gettingIsSel
    /\ preIsLevel' = s.preIsLevel /\ selIsPre' = s.selIsPre
    /\ oldCenter' = s.oldCenter /\ pressInPrimary' = s.pressInPrimary
    /\ inertLen' = s.inertLen /\ inertIdx' = s.inertIdx
    /\ panLen' = s.panLen /\ panIdx' = s.panIdx /\ panSamples' = s.panSamples
    /\ raf' = s.raf /\ thrown' = s.thrown /\ levels' = s.levels

Enqueue(s, cb) == [s EXCEPT !.raf = Append(@, cb)]

\* a TypeError ends the handler or callback at this point
Throw(s, site) == [s EXCEPT !.thrown = @ \cup {site}]

(***************************************************************************)
(* render / drawCircle: the pass of the render's cursor is drawn unless    *)
(* the hint is "1+", the passes below it (the visible ones, D) unless the  *)
(* hint is "1".  A drawn node whose cachedCnv is false is rendered at its  *)
(* centre and the canvas kept, except the top pass while panning, which is *)
(* rendered into a temporary canvas.  cachedCnv === true shows the shared  *)
(* cache and a kept canvas is shown as it is.                              *)
(***************************************************************************)
\* Variant: the top pass keeps its canvas also while panning (no temporary
\* canvas for level === 1 && panning).
DrawKeepWhilePanning(s, top, hint, D) ==
    [s EXCEPT !.cache =
       [n \in Nodes |->
          IF /\ n \in s.exists
             /\ s.cache[n] = Stale
             /\ \/ n = top /\ hint # "1+"
                \/ n \in D /\ n \in Desc(top) /\ hint # "1"
          THEN Canvas(s.center[n]) ELSE s.cache[n]]]

Draw(s, top, hint, D) ==
    [s EXCEPT !.cache =
       [n \in Nodes |->
          IF /\ n \in s.exists
             /\ s.cache[n] = Stale
             /\ \/ n = top /\ hint # "1+" /\ ~s.panning
                \/ n \in D /\ n \in Desc(top) /\ hint # "1"
          THEN Canvas(s.center[n]) ELSE s.cache[n]]]

\* setupSelect (range): select becomes the deepest pass of the chain and the
\* cursor nodes along it are created (centre 0, cachedCnv true, index 0).
SetupSelect(s, sel, fromPre) ==
    [s EXCEPT !.select = sel,
              !.exists = IF sel = NoSel THEN @ ELSE @ \cup
                           {p \in Prefixes(sel.node) : Len(p) > Len(s.cursor)},
              !.levelIsSel = sel # NoSel /\ fromPre /\ s.preIsLevel,
              !.gettingIsSel = FALSE,
              !.selIsPre = fromPre]

\* setupSelect (preSelect): the chain found at the press, walked again from
\* the current cursor.
SetupFromPre(s) ==
    IF s.preSelect = NoPre THEN SetupSelect(s, NoSel, TRUE)
    ELSE SetupSelect(s, [node |-> s.cursor \o s.preSelect,
                         rec |-> Len(s.preSelect) + 1], TRUE)

\* preSelect = redraw ({x, y}): a full redraw that also hit-tests the pointer
HitTest(s, hit, D) ==
    [Draw(s, s.cursor, "all", D) EXCEPT !.preSelect = hit,
                                        !.preIsLevel = FALSE,
                                        !.selIsPre = FALSE]

(***************************************************************************)
(* mousedown (button 1).  hit is the chain under the pointer, inPrim       *)
(* whether the press is inside the primary circle (then the hit is the top *)
(* pass itself).                                                           *)
(***************************************************************************)
MouseDown(s, hit, inPrim, D) ==
    LET s1 == IF s.animating = "no" THEN HitTest(s, hit, D)
              ELSE IF s.animating = "inert" THEN [s EXCEPT !.animating = "no"]
              ELSE s
        s2 == [s1 EXCEPT !.mouseDown = TRUE, !.pressInPrimary = inPrim,
                         !.oldCenter = s1.center[s1.cursor]]
    IN  IF ~inPrim /\ s2.panning
        THEN [s2 EXCEPT !.panning = FALSE, !.cache[s2.cursor] = Stale]
        ELSE s2

(***************************************************************************)
(* The two inertia closures, one frame each.  go is whether di is still    *)
(* positive (it depends on wall-clock time); both end after MaxSteps.      *)
(***************************************************************************)
\* Variant: the last frame of aInert redraws but leaves animating set.
AInertStepNoStop(s, c, steps, go, newIdx, hit, D) ==
    IF s.animating # "no" THEN
      IF go /\ steps < MaxSteps THEN
        IF s.inertIdx = 0 THEN Throw(s, "aInertSample")
        ELSE LET s1 == [s EXCEPT !.index[c] = newIdx]
             IN  IF s1.select = NoSel THEN Throw(s1, "aInertSelect")
                 ELSE Enqueue(Draw(s1, s1.cursor, "1+", D),
                              Cb("aInert", c, steps + 1, 0))
      ELSE Draw(s, s.cursor, "all", D)
    ELSE IF s.mouseDown
      THEN HitTest([s EXCEPT !.animating = "no"], hit, D)
      ELSE s

\* aInert: c is the node of select.parent captured at the release.
AInertStep(s, c, steps, go, newIdx, hit, D) ==
    IF s.animating # "no" THEN
      IF go /\ steps < MaxSteps THEN
        \* c.setAngle (..., inert[inertIdx - 1].percentRawAngle)
        IF s.inertIdx = 0 THEN Throw(s, "aInertSample")
        ELSE LET s1 == [s EXCEPT !.index[c] = newIdx]  \* calcCursor
             IN  IF s1.select = NoSel THEN Throw(s1, "aInertSelect")
                 ELSE Enqueue(Draw(s1, s1.cursor, "1+", D),
                              Cb("aInert", c, steps + 1, 0))
      ELSE Draw([s EXCEPT !.animating = "no"], s.cursor, "all", D)
    ELSE IF s.mouseDown
      THEN HitTest([s EXCEPT !.animating = "no"], hit, D)
      ELSE s

PanStop(s, D) ==
    Draw([s EXCEPT !.panning = FALSE, !.animating = "no",
                   !.cache[s.cursor] = Stale], s.cursor, "all", D)

\* dInert (select): n is the node of the captured select, v the sign of the
\* averaged velocity; setCenter moves n from the *cursor's* centre and the
\* loop goes on only while the cursor's centre changes.
DInertStep(s, n, v, steps, go, d, hit, D) ==
    IF s.animating # "no" THEN
      IF go /\ steps < MaxSteps /\ v # 0 THEN
        LET s1 == [s EXCEPT !.center[n] = Clamp(s.center[s.cursor] + d)]
        IN  IF s1.center[s1.cursor] # s.center[s.cursor]
            THEN Enqueue(Draw(s1, s1.cursor, "1", D), Cb("dInert", n, steps + 1, v))
            ELSE PanStop(s1, D)
      ELSE PanStop(s, D)
    ELSE IF s.mouseDown /\ ~s.pressInPrimary
      THEN HitTest([s EXCEPT !.panning = FALSE, !.animating = "no",
                             !.cache[s.cursor] = Stale], hit, D)
      ELSE s

(***************************************************************************)
(* mousemove.  pos is where the pointer is relative to the select chain:   *)
(*   "primary": inside the primary circle of the top pass,                 *)
(*   "inner":   inside the primary circle of a deeper pass of the chain,   *)
(*   "ring":    on the ring of select.parent (mouseDistance < maxR),       *)
(*   "beyond":  outside it (mouseDistance > maxR).                         *)
(***************************************************************************)
Zones == {"primary", "inner", "ring", "beyond"}

\* a push into a ring buffer of RingSize: buf[idx] = ...; idx++; wrap at RingSize
RingLen(len, idx) == IF idx + 1 > len THEN idx + 1 ELSE len
\* Variant: the index is not wrapped at the end of the buffer.
RingNextNoWrap(idx) == idx + 1
RingNext(idx) == IF idx + 1 = RingSize THEN 0 ELSE idx + 1

MoveCommit(s, moved, pos) ==
    IF ~s.panning /\ ~s.dragging /\ s.mouseDown /\ moved THEN
      LET s1 == SetupFromPre(s)
      IN  IF s1.animating = "no" /\ s1.select # NoSel /\ pos = "primary"
          THEN [s1 EXCEPT !.panning = TRUE,
                          !.oldCenter = s1.center[s1.select.node],
                          !.panLen = 0, !.panIdx = 0, !.panSamples = <<>>]
          ELSE [s1 EXCEPT !.dragging = TRUE, !.inertLen = 0, !.inertIdx = 0]
    ELSE s

\* select.parent.setAngle: calcCursor picks the child now at the tangent
\* point, a sample is pushed and the chain is re-derived next frame.
Rotate(s, newIdx) ==
    LET sel == s.select
    IN  Enqueue([s EXCEPT !.index[Parent(sel.node)] = newIdx,
                          !.inertLen = RingLen(s.inertLen, s.inertIdx),
                          !.inertIdx = RingNext(s.inertIdx)],
                Cb("dragSelect", sel.node, 0, 0))

\* cc.index = cp.index1 for every pass above select in its chain
ChainIndexed(s) ==
    LET n == s.select.node
        top == Len(n) - s.select.rec + 1
    IN  [s EXCEPT !.index = [m \in Nodes |->
           IF Len(m) >= top /\ Len(m) < Len(n) /\ m = SubSeq(n, 1, Len(m))
           THEN n[Len(m) + 1] ELSE @[m]]]

\* animating = "level"; aEnlarge () -- its first frame renders and re-arms
StartEnlarge(s, D) ==
    LET s1 == [ChainIndexed(s) EXCEPT !.animating = "level", !.levels = @ + 1]
    IN  Enqueue(Draw(s1, s1.cursor, "all", D),
                Cb("aEnlarge", s1.cursor \o <<s1.index[s1.cursor]>>, 0, 0))

\* panning = false; animating = "level"; the cursor goes back to the shared
\* cache at centre 0; aEnsmall () renders from cursor.parent
StartEnsmall(s, D) ==
    LET s1 == [ChainIndexed(s) EXCEPT !.panning = FALSE, !.animating = "level",
                                      !.levels = @ + 1,
                                      !.cache[s.cursor] = Shared,
                                      !.center[s.cursor] = 0]
    IN  Enqueue(Draw(s1, Parent(s1.cursor), "all", D), Cb("aEnsmall", s1.cursor, 0, 0))

\* Variant: a press on the primary circle counts as the parent's also when
\* select is the cursor itself (no select.rec >= 2 test).
MoveSelectFromSelect(s, pos, newIdx, D) ==
    IF (s.dragging \/ s.panning) /\ s.select # NoSel THEN
      LET sel == s.select
          onParent == \/ pos = "primary"
                      \/ pos = "inner" /\ sel.rec >= 3
          beyond == ~onParent /\ (pos = "beyond" \/ (sel.rec = 1 /\ pos # "primary"))
          inRing == ~onParent /\ ~beyond
          s1 == [s EXCEPT !.gettingIsSel = TRUE]
          s2 == IF s1.animating = "no" /\ s1.dragging /\ sel.rec >= 2 /\ inRing
                THEN Rotate(s1, newIdx) ELSE s1
          free == s2.animating = "no" /\ ~s2.levelIsSel /\ s2.levels < MaxLevels
      IN  IF free /\ onParent /\ Len(s2.cursor) < MaxDepth THEN StartEnlarge(s2, D)
          ELSE IF free /\ beyond /\ Len(s2.path) > 0 THEN StartEnsmall(s2, D)
          ELSE s2
    ELSE s

MoveSelect(s, pos, newIdx, D) ==
    IF (s.dragging \/ s.panning) /\ s.select # NoSel THEN
      LET sel == s.select
          onParent == \/ pos = "primary" /\ sel.rec >= 2
                      \/ pos = "inner" /\ sel.rec >= 3
          beyond == ~onParent /\ (pos = "beyond" \/ (sel.rec = 1 /\ pos # "primary"))
          inRing == ~onParent /\ ~beyond
          s1 == [s EXCEPT !.gettingIsSel = TRUE]
          s2 == IF s1.animating = "no" /\ s1.dragging /\ sel.rec >= 2 /\ inRing
                THEN Rotate(s1, newIdx) ELSE s1
          free == s2.animating = "no" /\ ~s2.levelIsSel /\ s2.levels < MaxLevels
      IN  IF free /\ onParent /\ Len(s2.cursor) < MaxDepth THEN StartEnlarge(s2, D)
          ELSE IF free /\ beyond /\ Len(s2.path) > 0 THEN StartEnsmall(s2, D)
          ELSE s2
    ELSE s

\* mousemovePan, then the inertPan sample of the cursor's centre
MovePan(s, pos, delta) ==
    IF s.animating = "no" /\ s.panning THEN
      LET n == s.select.node
          s1 == IF s.select = NoSel THEN s
                ELSE IF pos = "primary"
                THEN Enqueue([s EXCEPT !.center[n] = Clamp(s.oldCenter + delta),
                                       !.cache[n] = Stale], Cb("panDraw", n, 0, 0))
                ELSE Enqueue([s EXCEPT !.center[n] = 0, !.cache[n] = Shared],
                             Cb("panDraw", n, 0, 0))
          smp == Append(s1.panSamples, s1.center[s1.cursor])
      IN  [s1 EXCEPT !.panSamples = IF Len(smp) > 3 THEN Tail(smp) ELSE smp,
                     !.panLen = RingLen(s1.panLen, s1.panIdx),
                     !.panIdx = RingNext(s1.panIdx)]
    ELSE s

MouseMove(s, moved, pos, newIdx, delta, D) ==
    Enqueue(MovePan(MoveSelect(MoveCommit(s, moved, pos), pos, newIdx, D), pos, delta),
            Cb("hover", s.cursor, 0, 0))

(***************************************************************************)
(* mouseup.  coherent: the last samples are recent enough for the          *)
(* averaging to run; v: the sign of the averaged pan velocity.             *)
(***************************************************************************)
Sign(x) == IF x > 0 THEN 1 ELSE IF x < 0 THEN -1 ELSE 0
VelSigns(smp) ==
    IF Len(smp) < 2 THEN {0}
    ELSE LET n == Len(smp)
             dx1 == smp[n] - smp[n - 1]
             dx2 == IF n = 3 THEN smp[2] - smp[1] ELSE 0
         IN  {0, Sign(dx1)} \cup
             (IF n < 3 THEN {}
              ELSE IF dx1 = 0 THEN {Sign(dx2)}
              ELSE IF Sign(dx1) = Sign(dx2) \/ dx2 = 0 THEN {Sign(dx1)}
              ELSE {-1, 0, 1})

MouseUp(s, go, coherent, v, d, newIdx, hit, D) ==
    LET s0 == [s EXCEPT !.mouseDown = FALSE,
                        !.dragging = IF s.animating = "level" THEN FALSE ELSE @]
    IN
    IF s0.animating # "no" THEN s0
    ELSE IF s0.dragging /\ s0.inertLen > 1 THEN
      LET s1 == [s0 EXCEPT !.dragging = FALSE]
      IN  \* inert[inertIdx - 1].angle and select.parent.getCircle
          IF s1.inertIdx = 0 \/ s1.select = NoSel \/ s1.select.rec = 1
          THEN Throw(s1, "mouseupInert")
          ELSE LET s2 == AInertStep([s1 EXCEPT !.animating = "inert"],
                                    Parent(s1.select.node), 0, go, newIdx, hit, D)
               IN  IF s2.animating = "no" THEN Draw(s2, s2.cursor, "all", D) ELSE s2
    ELSE IF s0.panning /\ s0.panLen > 1 THEN
      LET s2 == IF coherent
                THEN DInertStep([s0 EXCEPT !.animating = "inert"], s0.select.node,
                                v, 0, go, d, hit, D)
                ELSE s0
      IN  IF s2.animating = "no" THEN PanStop(s2, D) ELSE s2
    ELSE Draw([s0 EXCEPT !.dragging = FALSE, !.panning = FALSE], s0.cursor, "all", D)

(***************************************************************************)
(* The level transitions.  Each frame renders and re-arms until i reaches  *)
(* 1 (go), then the last frame moves the cursor.  atCur is whether that    *)
(* last render found select.cursor.  A drill-in ends with the child it     *)
(* zoomed into filling the view, so a selected node below the old cursor   *)
(* is always found; a drill-out ends with the old cursor as the largest    *)
(* circle of the parent's ring, and only a node deeper than it may fall    *)
(* under minRadius and be missed.                                          *)
(***************************************************************************)
\* level = gettingLevel; inertIdx = 0; inert = []
LevelDone(s) ==
    [s EXCEPT !.levelIsSel = s.gettingIsSel,
              !.preIsLevel = s.gettingIsSel /\ s.selIsPre,
              !.inertLen = 0, !.inertIdx = 0, !.animating = "no"]

FinishEnlarge(s, D) ==
    LET old == s.cursor
        child == old \o <<s.index[old]>>
        sel == s.select
        s1 == [LevelDone(s) EXCEPT !.exists = @ \cup {child}, !.cursor = child,
                                   !.path = Append(@, s.data), !.data = "sub",
                                   !.panning = FALSE]
    IN  IF Below(old, sel.node) /\ s1.dragging THEN
          \* setupSelect (atCur.child) walks the rest of the chain from the new
          \* cursor; redraw (null, "1", select.cursor); rAF mousemove
          IF Len(sel.node) = Len(old) THEN Throw(SetupSelect(s1, NoSel, FALSE), "enlargeEnd")
          ELSE Enqueue(Draw(SetupSelect(s1,
                              [node |-> child \o SubSeq(sel.node, Len(old) + 2, Len(sel.node)),
                               rec |-> Len(sel.node) - Len(old)], FALSE),
                            child, "1", D),
                       Cb("move", child, 0, 0))
        ELSE Enqueue(Draw(s1, child, "1", D), Cb("up", child, 0, 0))

FinishEnsmall(s, atCur, D) ==
    LET up == Parent(s.cursor)
        sel == s.select
        s1 == [LevelDone(s) EXCEPT !.cursor = up,
                  !.data = IF s.path = <<>> THEN "undef" ELSE s.path[Len(s.path)],
                  !.path = IF @ = <<>> THEN @ ELSE SubSeq(@, 1, Len(@) - 1)]
        found == Below(up, sel.node) /\ (atCur \/ sel.node = s.cursor)
    IN  IF found /\ s1.dragging THEN
          Enqueue(Draw(SetupSelect(s1, [node |-> sel.node,
                                        rec |-> Len(sel.node) - Len(up) + 1], FALSE),
                       up, "1", D),
                  Cb("move", up, 0, 0))
        ELSE Enqueue(Draw(s1, up, "1", D), Cb("up", up, 0, 0))

\* aEnlarge: reads select.parent.cursor, renders from the cursor
EnlargeFrame(s, cb, go, D) ==
    IF s.select = NoSel \/ s.select.rec = 1 THEN Throw(s, "aEnlarge")
    ELSE LET s1 == Draw(s, s.cursor, "all", D)
         IN  IF go /\ cb.steps < MaxSteps
             THEN Enqueue(s1, Cb("aEnlarge", cb.node, cb.steps + 1, 0))
             ELSE FinishEnlarge(s1, D)

\* aEnsmall: reads select.cursor.parent, renders from cursor.parent and
\* passes cursor.parent.parent.index
EnsmallFrame(s, cb, go, atCur, D) ==
    IF s.select = NoSel \/ s.cursor = Root THEN Throw(s, "aEnsmall")
    ELSE LET s1 == Draw(s, Parent(s.cursor), "all", D)
         IN  IF go /\ cb.steps < MaxSteps
             THEN Enqueue(s1, Cb("aEnsmall", cb.node, cb.steps + 1, 0))
             ELSE FinishEnsmall(s1, atCur, D)

\* the hover redraw queued by every mousemove
Hover(s, D) ==
    IF ~s.mouseDown /\ s.animating = "no" /\ ~s.dragging /\ ~s.panning
    THEN Draw(s, s.cursor, "all", D) ELSE s

\* if (!panning) setupSelect (render (..., cursor, sel.cursor, "1+")): the
\* dragged circle is on screen, so it is found whenever it is below the cursor
DragSelect(s, n, D) ==
    IF s.panning THEN s
    ELSE LET s1 == Draw(s, s.cursor, "1+", D)
         IN  IF Below(s.cursor, n)
             THEN SetupSelect(s1, [node |-> n, rec |-> Len(n) - Len(s.cursor) + 1], FALSE)
             ELSE SetupSelect(s1, NoSel, FALSE)

-----------------------------------------------------------------------------
Hits == {NoPre} \cup Suffixes
Deltas == -1 .. 1
StaleNodes == {n \in exists : cache[n] = Stale}

Init ==
    /\ held = FALSE /\ events = 0 /\ running = <<>>
    /\ mouseDown = FALSE /\ dragging = FALSE /\ panning = FALSE
    /\ animating = "no"
    /\ cursor = Root /\ exists = {Root}
    /\ center = [n \in Nodes |-> 0] /\ cache = [n \in Nodes |-> Shared]
    /\ index = [n \in Nodes |-> CHOOSE i \in ChildIdx : TRUE]
    /\ path = <<>> /\ data = "root"
    /\ select = NoSel /\ preSelect = NoPre
    /\ levelIsSel = FALSE /\ gettingIsSel = FALSE
    /\ preIsLevel = FALSE /\ selIsPre = FALSE
    /\ oldCenter = 0 /\ pressInPrimary = FALSE
    /\ inertLen = 0 /\ inertIdx = 0
    /\ panLen = 0 /\ panIdx = 0 /\ panSamples = <<>>
    /\ raf = <<>> /\ thrown = {} /\ levels = 0

Input == running = <<>> /\ events < MaxEvents /\ events' = events + 1

Press ==
    /\ Input /\ ~held /\ held' = TRUE
    /\ \E hit \in Hits, inPrim \in BOOLEAN, D \in SUBSET StaleNodes :
         /\ inPrim <=> hit = <<>>
         /\ Apply(MouseDown(St, hit, inPrim, D))
    /\ UNCHANGED running

\* a (real or synthetic) mousemove: pointer zone, the child calcCursor picks,
\* the pan displacement the fish-eye map gives, the visible passes
MoveWith(s) ==
    \E moved \in BOOLEAN, pos \in Zones, newIdx \in ChildIdx, delta \in Deltas,
      D \in SUBSET StaleNodes :
        Apply(MouseMove(s, moved, pos, newIdx, delta, D))

\* a (real or synthetic) mouseup
UpWith(s) ==
    \E go, coherent \in BOOLEAN, v \in VelSigns(panSamples), d \in {0, 1},
      newIdx \in ChildIdx, hit \in Hits, D \in SUBSET StaleNodes :
        Apply(MouseUp(s, go, coherent, v, v * d, newIdx, hit, D))

Move ==
    /\ Input
    /\ MoveWith(St)
    /\ UNCHANGED <<held, running>>

Release ==
    /\ Input /\ held /\ held' = FALSE
    /\ UpWith(St)
    /\ UNCHANGED running

\* resize: invalidateCache () sends every node back to the shared cache;
\* the redraw () that follows shows the shared cache everywhere
Resize ==
    /\ Input
    /\ cache' = [n \in Nodes |-> Shared]
    /\ UNCHANGED <<held, running, mouseDown, dragging, panning, animating, cursor,
                   exists, center, index, path, data, select, preSelect,
                   levelIsSel, gettingIsSel, preIsLevel, selIsPre, oldCenter,
                   pressInPrimary, inertLen, inertIdx, panLen, panIdx, panSamples,
                   raf, thrown, levels>>

\* the browser starts a frame with the callbacks registered so far
Frame ==
    /\ running = <<>> /\ raf # <<>>
    /\ running' = raf /\ raf' = <<>>
    /\ UNCHANGED <<held, events, mouseDown, dragging, panning, animating, cursor,
                   exists, center, cache, index, path, data, select, preSelect,
                   levelIsSel, gettingIsSel, preIsLevel, selIsPre, oldCenter,
                   pressInPrimary, inertLen, inertIdx, panLen, panIdx, panSamples,
                   thrown, levels>>

\* the first callback of the running frame
RunCallback(kind, Body(_)) ==
    /\ running # <<>> /\ Head(running).k = kind
    /\ running' = Tail(running)
    /\ Body(Head(running))
    /\ UNCHANGED <<held, events>>

HoverCb(cb) == \E D \in SUBSET StaleNodes : Apply(Hover(St, D))
PanDrawCb(cb) == \E D \in SUBSET StaleNodes : Apply(Draw(St, cursor, "1", D))
DragSelectCb(cb) == \E D \in SUBSET StaleNodes : Apply(DragSelect(St, cb.node, D))
AInertCb(cb) ==
    \E go \in BOOLEAN, newIdx \in ChildIdx, hit \in Hits, D \in SUBSET StaleNodes :
        Apply(AInertStep(St, cb.node, cb.steps, go, newIdx, hit, D))
DInertCb(cb) ==
    \E go \in BOOLEAN, d \in {0, cb.v}, hit \in Hits, D \in SUBSET StaleNodes :
        Apply(DInertStep(St, cb.node, cb.v, cb.steps, go, d, hit, D))
EnlargeCb(cb) ==
    \E go \in BOOLEAN, D \in SUBSET StaleNodes : Apply(EnlargeFrame(St, cb, go, D))
EnsmallCb(cb) ==
    \E go, atCur \in BOOLEAN, D \in SUBSET StaleNodes :
        Apply(EnsmallFrame(St, cb, go, atCur, D))
MoveCb(cb) == MoveWith(St)
UpCb(cb) == UpWith(St)

Callback ==
    \/ RunCallback("hover", HoverCb)
    \/ RunCallback("panDraw", PanDrawCb)
    \/ RunCallback("dragSelect", DragSelectCb)
    \/ RunCallback("aInert", AInertCb)
    \/ RunCallback("dInert", DInertCb)
    \/ RunCallback("aEnlarge", EnlargeCb)
    \/ RunCallback("aEnsmall", EnsmallCb)
    \/ RunCallback("move", MoveCb)
    \/ RunCallback("up", UpCb)

Next == Press \/ Move \/ Release \/ Resize \/ Frame \/ Callback

\* The browser runs every frame and every callback once the page is idle of
\* input; the user is under no obligation to act.
Fairness == WF_vars(Frame) /\ WF_vars(Callback)

Spec == Init /\ [][Next]_vars /\ Fairness

-----------------------------------------------------------------------------
CacheStates == {Shared, Stale} \cup {Canvas(c) : c \in Offsets}
Kinds == {"hover", "panDraw", "dragSelect", "move", "up"} \cup Loops
Callbacks == [k : Kinds, node : Nodes, steps : 0 .. MaxSteps, v : -1 .. 1]
Sites == {"mouseupInert", "aInertSample", "aInertSelect", "aEnlarge",
          "enlargeEnd", "aEnsmall"}

\* The variables keep their types.
TypeOK ==
    /\ held \in BOOLEAN /\ mouseDown \in BOOLEAN
    /\ dragging \in BOOLEAN /\ panning \in BOOLEAN
    /\ animating \in {"no", "inert", "level"}
    /\ cursor \in Nodes \cup {FakeParent} /\ exists \subseteq Nodes
    /\ center \in [Nodes -> Offsets] /\ cache \in [Nodes -> CacheStates]
    /\ index \in [Nodes -> ChildIdx]
    /\ path \in Seq(Data) /\ data \in Data
    /\ select \in {NoSel} \cup [node : Nodes, rec : Nat]
    /\ preSelect \in Hits
    /\ inertLen \in 0 .. RingSize /\ inertIdx \in 0 .. RingSize - 1
    /\ panLen \in 0 .. RingSize /\ panIdx \in 0 .. RingSize - 1
    /\ panSamples \in Seq(Offsets) /\ Len(panSamples) <= 3
    /\ raf \in Seq(Callbacks) /\ running \in Seq(Callbacks)
    /\ thrown \subseteq Sites

(***************************************************************************)
(* Cache coherence (spec 6): a node whose canvas drawCircle kept is shown  *)
(* at the centre it was rendered at, so every handler that moves a centre  *)
(* (mousemovePan, dInert's setCenter, the pan end, aEnsmall's reset) must  *)
(* set cachedCnv to false or true before the next render reaches it.       *)
(***************************************************************************)
CachedCanvasMatchesCenter ==
    \A n \in exists : cache[n].k = "canvas" => cache[n].at = center[n]

(* The level transitions and the drag re-select never throw: aEnlarge and  *)
(* aEnsmall read select.parent / cursor.parent, the end of a drill-in      *)
(* reads atCur.child, and aInert's redraw reads select.cursor; a TypeError *)
(* there would leave animating = "level" set for good.                     *)
TransitionsNeverThrow ==
    thrown \cap {"aInertSelect", "aEnlarge", "enlargeEnd", "aEnsmall"} = {}

(* Once the user stops, every animation ends: the inertia loops decay,    *)
(* each transition reaches i = 1 and clears animating, and no callback    *)
(* keeps re-arming requestAnimationFrame.                                  *)
Quiescence == <>[](animating = "no" /\ raf = <<>> /\ running = <<>>)

(* mouseup after a drag reads inert[inertIdx - 1] (spec 4.5: the angular   *)
(* samples are a bounded ring buffer); releasing must never throw, also    *)
(* when inertIdx has just wrapped to 0.                                    *)
ReleaseNeverThrows == "mouseupInert" \notin thrown

(* Panning translates the focal circle (spec 4.5): while a pan is in      *)
(* progress and no animation runs, the node mousemovePan moves is the      *)
(* cursor itself.                                                          *)
PanTargetIsCursor == panning /\ animating = "no" => select.node = cursor

(* What the page shows is what the node holds: a node drawn from the       *)
(* shared cache (cachedCnv === true, rendered at centre 0) has centre 0;   *)
(* resize's invalidateCache must not hide a pan offset.                    *)
DisplayMatchesCenter == \A n \in exists : cache[n] = Shared => center[n] = 0

(* The drill-in / drill-out protocol of spec 4.5 (module LevelStack): a   *)
(* transition is in progress while its aEnlarge or aEnsmall closure is     *)
(* queued, and the cursor, data stack and data are the code's own.  Spec   *)
(* 4.5 and the !animating test at line 1536 say only one transition runs   *)
(* at a time and each one lands before the next starts.                    *)
TransitionPhase ==
    LET q == raf \o running
        queued(k) == \E i \in DOMAIN q : q[i].k = k
    IN  IF queued("aEnlarge") THEN "entering"
        ELSE IF queued("aEnsmall") THEN "leaving" ELSE "still"

Levels == INSTANCE LevelStack WITH phase <- TransitionPhase

(* OrbitalNav implements LevelStack: mousemove, aEnlarge, aEnsmall and    *)
(* the synthetic events that end them only ever announce, animate and     *)
(* land one drill-in or drill-out at a time, pushing and popping path in  *)
(* step with the cursor.                                                  *)
LevelSpec == Levels!Spec
====
