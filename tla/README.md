# TLA+ models of Jazz's orbital viewer

`src/server/config/www/orbital.js` is a browser page script with these parts:

- **Crisp** (lines 148-507) builds the image pyramids. `crispX` and `crispY` halve one axis. `interpolate` blends two samples. `crispBitmapXY` builds the anisotropic grid `images[x][y]`. `crispBitmap` builds the diagonal ladder cached per circle.
- **FishEye** (510-778) builds the warp field and renders the distorted view.
- **fractalOvals** (780-1138) lays out the tangent circles. Its `render` draws and hit-tests them.
- **Orbital** (1140-2212) is the navigation state machine. It has the mouse handlers, the closures registered with `requestAnimationFrame` (rAF), `resize`, and the per-node canvas cache kept by `drawCircle`.
- **Magnifier** (2214-2789) is a simpler single-level viewer.
- **Touch input** (`setupTouchEvents`, 2111-2198 in Orbital and the same code at 2688-2775 in Magnifier) turns touches into calls of the pointer handlers.

Everything runs on the browser's single thread. The handlers run to completion. Animations advance one rAF callback per frame and stop when a global flag (`animating`, `panning`, `dragging`) is cleared. So the concurrency is the interleaving of input events, rAF callbacks and the frames between them.

## Modules

| module | models | source |
|---|---|---|
| `Crisp` | `interpolate`, `crispX`, `crispY`, `crispBitmapXY`, `crispBitmap` | 148-335, 365-431, drawCircle 1222-1236, construction 2203 |
| `MCCrisp` | bitmap sizes and colours for TLC | |
| `FishEyeRender` | `renderFishEye`: the two loops pairing output indices with render map entries, and the per-pixel blend over a level of the `Crisp` grid | 721-761 |
| `MCFishEyeRender` | the pyramid and the renderer together for TLC | |
| `OrbitalNav` | mousedown, mousemove (commit, select, transitions, pan), mouseup (drag and pan inertia), aInert, dInert, aEnlarge, aEnsmall, the hover / pan / drag-select redraws, the synthetic mousemove / mouseup that end a transition, resize, setupSelect, and the cache decisions of drawCircle | 1174-1334, 1366-2000, 2042-2085 |
| `MCOrbitalNav` | child ordinals for TLC | |
| `LevelStack` | the abstract drill-in / drill-out protocol that `OrbitalNav` implements | spec 4.5 |
| `Magnifier` | mousedown, mousemove (commit, mousemovePan, the pan sample), mouseup (velocity sample and pan inertia), dInert, the hover and pan redraws, resize, and the canvas kept by drawCircle | 2245-2332, 2364-2584, 2625-2686 |
| `MCMagnifier` | the Magnifier for TLC | |
| `LensGesture` | the abstract idle / pan / glide protocol that `Magnifier` implements | spec 4.5 |
| `Touch` | `setupTouchEvents`: `ongoingTouches`, the touchstart / touchmove / touchcancel / touchend listeners and the pointer calls they make | 2111-2198 |
| `PointerInput` | what mousedown / mousemove / mouseup expect of their caller, which `Touch` implements | 2408-2470 |
| `MagnifierInput` | the Magnifier with both input paths: its mouse listeners and its copy of the touch listeners, calling the `Magnifier` handlers | 2673-2686, 2688-2778 |
| `MCMagnifierInput` | two fingers as model values | |
| `CircleSearch` | the bisection loops of fractalOvals' `getCircle` and `getNeighbor` | 781, 789-855 |
| `RingWalk` | `render`'s ring layout (`c0` and the two `while (true)` walks over `getNeighbor`) and the pass's `calcCursor` | 936-1001, 1097-1124 |
| `MCCircleLayout` | runs `CircleSearch` or `RingWalk`, one per behaviour, for the `circle_search` run | |

### Crisp

A Uint32 sample is kept as its four bytes, because TLC integers are 32-bit. The byte extractions `p << 24 >>> 24` and so on are `Byte0`..`Alpha`. `interpolate` is `Interpolate`. It writes the bytes back in the positions the shifts give, and `Blend` truncates as `<<` does. `crispX` and `crispY` are functions from the output index to the combined sample. The `Read` past the end of a typed array yields 0.

The loops of `crispBitmapXY` and `crispBitmap` are the `RECURSIVE` operators `YLevels`, `XLevels` and `DiagLevels`. The state machine has two steps:
- `BuildXY` is the construction `cnvScaled = Crisp.crispBitmapXY(content1)`.
- `BuildDiag` is the per-circle `Crisp.crispBitmap` of `drawCircle`. Its ladder is the push-then-test loop of lines 283-295 written as a recursion, so no property restates it. What could go wrong there (hazard 291) would show in the level that FishEye picks from it, and that selection is not modelled.

### FishEyeRender

`FishEyeRender` extends `Crisp`: it reads the grid `images` that `BuildXY` leaves. `renderFishEye` runs to completion inside `drawCircle`, so it is modelled by operators and not by steps, like `crispBitmapXY`.
- `Loop` and `RenderStores` are the two `for` loops, written as a `RECURSIVE` operator. They give the set of stores `dataBuff[i]` with the render map entry whose coordinates each store uses.
- `RenderPixel` is the body of the inner loop for a drawn entry in bounds. It finds `iim0` and `iim1`, then makes the nested `interpolate` calls (`RenderInterpolate`). A read past the end of the typed array gives 0.
- Sample coordinates are kept in quarter pixels. The code's float weights represent those exactly, and `<<` truncates the blended channel as `\div` does.
- The warp field and the render map are not modelled. Which entries are drawn, and at which coordinates, is left open. `RenderMatchesReference` checks every level of the grid at each quarter position of its first and last cells.
- Each `interpolate` swaps the bytes at bits 0..7 and 16..23. The render applies it twice, so the swaps cancel. The red/blue swap of the halved levels (run `crisp_colour`) therefore reaches the screen unchanged.


**State.** The state is the set of the script's globals that control behaviour. The cursor tree is abstracted:
- A node is its path of child ordinals from the root, and `exists` holds the nodes created so far.
- `center` keeps one axis of `centerX/centerY`.
- `cache` holds a node's `cachedCnv`:
  - `Shared` is `true`, meaning the shared centre-0 canvas.
  - `Stale` is `false`.
  - `Canvas(c)` is a kept canvas rendered at centre `c`.
- `index` is the child the ring shows at the tangent point. It stands for `angle`/`index`.
- The select chain is abstracted to the node and depth of its deepest pass.
- The identity comparisons of the code are boolean variables. `level !== gettingLevel` is `levelIsSel` and `gettingIsSel`. Walking `preSelect` again is `preIsLevel` and `selIsPre`.
- `inertLen`/`inertIdx` and `panLen`/`panIdx` are the ring buffers. `panSamples` keeps the last three pan centres for the velocity sign.

**Handlers.** Each handler is a function from a state record to a state record, applied in one step. Its parts are composed in code order, so a trailing redraw is part of the step.

A `TypeError` the code would throw ends the handler. `Throw` records the site in `thrown` and drops the rest of the handler. A throw at the same spot in the browser likewise leaves the earlier assignments in place and aborts the rest.

Geometry is the environment's choice, over the outcomes the code tells apart:
- the pointer zone relative to the select chain (`Zones`: primary circle, a deeper primary, the parent's ring, beyond it);
- the hit-test result;
- the child `calcCursor` picks;
- the pan displacement;
- whether a decaying loop goes on (`go`), which depends on the wall clock;
- which stale passes a redraw reaches (`D`).

A drill-in ends with the child filling the view, so its selected node is always found. A drill-out may miss a node deeper than the old cursor.

**Scheduling.** `Frame` moves the callbacks registered so far (`raf`) into the running frame (`running`). `Callback` runs the head of `running`. Input events (`Press`, `Move`, `Release`, `Resize`) happen only between frames. A move that happens before a synthetic one models real events overtaking it.

### Magnifier

The Magnifier has one lens, no cursor tree and a single canvas. `drawCircle` renders the lens at the current centre and keeps that canvas only while `panning`; otherwise it shows the kept canvas. `isCache`/`cacheAt` are that canvas and the centre it was rendered at. The `cachedCnv` flag is written by the handlers but never read by `drawCircle`. It is kept in the state so that the model says so.

The handlers are functions on a state record, as in `OrbitalNav`:
- `MouseDown` aborts a glide by clearing `animating` only.
- `MouseMove` is the commit test, `mousemovePan` and the `inertPan` sample.
- `MouseUp` is the velocity sample and the first `dInert` step.
- `DInertStep` is one frame of `dInert`. It includes the abort branch for a press during the glide. That branch tests Orbital's circle geometry, and `pressFar` chooses its outcome.

The pointer is in one of three `Zones`:
- `inner` passes both distance tests;
- `edge` passes the commit test (`dist < rr`) but not `mousemovePan`'s (`ceil(dist) < floor(rr)`), which snaps the centre back to 0;
- `outside` passes neither.

`VelSigns` gives the signs the averaged velocity can take from the last three pan samples.

### Touch

Each touch listener loops over `evt.changedTouches`. `Touch` makes one pass of a loop one step (`StartPass`, `MovePass`, `LiftPass`). No event is delivered before the loop ends (`todo` is empty), because a listener runs to completion.
- The browser's side is `down`, the fingers on the screen. `FingersDown`, `FingersMove` and `FingersLift` deliver an event whose changed touches are any non-empty set of fingers, in any order (`SetToSeqs`).
- `ongoing` is `ongoingTouches`. A copy is its identifier; the coordinates are abstracted. `IndexById` is `ongoingTouchIndexById` through `SelectInSeq`, whose 0 stands for the code's -1. `splice` is `RemoveAt`.
- A touch that lands on an empty list is pushed and pressed. Any other landing touch is ignored.
- touchcancel and touchend run the same loop body (`LiftPass`). touchcancel only skips `preventDefault`.
- `mouseDown` and `call` are what the forwarded calls do to the pointer handlers. The copy has `which = 1`, so mousedown sets `mouseDown` and mouseup clears it. `call` is the handler the last step called, `"none"` when it called none.

### MagnifierInput

`MagnifierInput` composes `Magnifier` and `Touch` by `INSTANCE`. They share the variables the code shares: `mouseDown`, and the input budget `events`.
- The mouse listeners (`MouseDown`, `MouseMove`, `MouseUp`) are `Magnifier`'s `Press`, `Move` and `Release`, and record the call made.
- A touch event (`TouchEvent`) is `Touch`'s delivery. It happens between frames.
- A touch pass (`TouchPass`) is a `Touch` pass together with the `Magnifier` handler it calls (`RunHandler`), in one step, with the handler's geometry choices.
- rAF callbacks run only once the running listener's loop has ended.
- One device is used at a time. The mouse acts only while no finger is down, and touches arrive only while the mouse button is up (see Not modelled).

### CircleSearch

`getCircle` and `getNeighbor` are loops inside `render`. `CircleSearch` makes each pass of their `do ... while` one step. `Init` is the call, with every input on a grid, and `Spec` has weak fairness because a loop, once called, runs to its end.
- The geometry is reduced to the test each loop makes. `getCircle` asks whether the trial circle reaches the parent's rim (`|ra - r1| <= d`). That holds exactly from the tangent radius `root` on. `getNeighbor` asks whether the trial circle overlaps the previous one. That holds exactly on the previous circle's side of the tangent angle. `xa` and `ya` move with `ra` along the ray and are left out.
- Lengths are integers in units of 2^-18 and angles in units of 2pi / 2^16. Every value the loops compute is then exact. The roots tried are every eighth of a unit, and the grid points one unit either side. A real root between two grid points behaves like one of them.
- `da` is a table (`DA`). It is the code's `acos` for radii 1..8, rounded down to angle units, which leaves the integer test `|dalpha| > da` unchanged.
- The searches take 16 + ceil(log2 r1) passes for a parent radius r1, so 16 for r1 = 1 and about 25 for the radii the page draws. Spec 8 says "within 17 bisection iterations", which holds only for r1 <= 2. The precision promised, 2^-16, is met.
- `getNeighbor` returns `c2`, the circle at the last angle it tested. The last pass then moves the angle once more. The returned angle is therefore within twice `da` of the tangent angle, not within `da`. At the page's radii, twice `da` is about 5 * 10^-4 radians. On a circle 100 pixels out that is a gap or overlap of a twentieth of a pixel, far above the 2^-15 that spec 8's tangency invariant allows. That distance is geometry, which the model leaves out.

### RingWalk

After the small circle, `render` lays out its children on the ring (936-1001). It takes `c0 = getCircle` at the cursor's angle, then walks with `getNeighbor` in the "+" direction and then in the "-" direction, from `c0` each time.
- A walk renders every circle with `r * squashX * squashY >= minRadius`. It stops at the first smaller circle that is not larger than the one before it (`delta`).
- `ci` is the data index given to the child's render. It is `cursor.index` for `c0`, and it moves by one before each render.
- `idx` is the first drawn child whose render returned a pass.
- The geometry is reduced to the ring's radius profile `rad`. Circle k is the k-th neighbour of `c0`, on the "+" side for k > 0 and the "-" side for k < 0.
- Around a ring, circles grow towards the side opposite the tangent point and shrink to nothing towards it. So a profile rises strictly to a peak and falls strictly after it. Past the `Ring` circles modelled on each side, radii are 0. A radius of 0 stands for anything below one unit.
- `hit` is the one child whose subtree holds the pointer or the selection. The children of a ring do not overlap, so there is at most one.
- A behaviour in mode "drag" starts with `calcCursor (ang)`, which a drag calls through `setAngle` (1494, 1865). The dragged child, data index `idx`, sits at offset 0 at its new angle.
  - `ang > Math.PI` picks the side from which the ring grows. When the dragged child is the largest circle, both answers are explored.
  - The `do ... while (m1.r <= m2.r)` climbs one circle at a time and stops one past the largest circle. It then sets `cursor.index = mi - 1` (or `mi + 1`) and `cursor.angle` to `m1`.
  - The next `render` then starts from there, with `c0` at offset `o`.
- `Spec` has weak fairness because `render` and `calcCursor` are synchronous.

`MCCircleLayout` composes `CircleSearch` and `RingWalk` for one run. `loop` picks the module each behaviour runs, and the other module's variables hold `None`. The walks take each neighbour as `getNeighbor` returns it. How close that is to the true neighbour is `CircleSearch`'s question.

### Refinements

The abstract modules state what a component promises, and each detailed module is checked against one as a `PROPERTY`:

- `LensGesture` has a mode (idle, pan, glide), the held button and the pan offset. A press turns a glide into a held pan. The offset changes only while panning or gliding, and a release that starts no glide leaves it where it is. A glide always comes to rest. `Magnifier` maps its flags to the mode (`GestureMode`) and `mouseDown` to the held button: `Gesture == INSTANCE LensGesture WITH mode <- GestureMode, held <- mouseDown`.
- `LevelStack` has a phase (still, entering, leaving), the cursor path, the data stack and the current data. A drill-in appends a child and pushes the data, and a drill-out removes the last step and pops it. One transition runs at a time, a drill-out needs a non-empty stack, and every transition lands. `OrbitalNav` maps its phase from whether an `aEnlarge` or `aEnsmall` closure is registered (`TransitionPhase`). Cursor, path and data map to themselves. The code does not implement it. Run `nav_double_enter` shows a second drill-in that starts while the first is still animating, within seven events. Over four events, the `nav` bound, the refinement holds, and only because the bound is too small. So `LevelSpec` is checked only where it fails.
- `PointerInput` has the button the handlers believe is down (`pressed`) and the last handler called. Press and release alternate, and a drag needs the button held. It is what `Magnifier` and `OrbitalNav` assume when their `Press` needs the button up. `Touch` maps `pressed` to the `mouseDown` its calls set: `Pointer == INSTANCE PointerInput WITH pressed <- mouseDown`.

## Runs

| run | cfg | expect | shows |
|---|---|---|---|
| pyramid_render | MCFishEyeRender_grid.cfg | pass | level sizes and counts of the `crispBitmapXY` grid for every side 1..36; a sample is opaque exactly when its source footprint is; `renderFishEye`'s blend is the channel-by-channel bilinear one on every level, non-square ones included |
| render_row_shift | MCFishEyeRender_rowshift.cfg | violation | `renderFishEye` writes each pixel `superSampling` rows above the render map entry it reads, so the fish-eye is drawn shifted up |
| crisp_colour | MCCrisp_colour.cfg | violation | halving a uniform colour swaps red and blue |
| nav | MCOrbitalNav_nav.cfg | pass | kept canvases match centres (`CachedCanvasMatchesCenter`); no transition end throws, also when input overtakes the synthetic mousemove or mouseup (`TransitionsNeverThrow`); every animation ends once the user stops (`Quiescence`) |
| nav_ringwrap | MCOrbitalNav_ringwrap.cfg | violation | mouseup reads `inert[-1]` after the ring wraps |
| nav_double_enter | MCOrbitalNav_doubleenter.cfg | violation | `OrbitalNav` does not implement `LevelStack` (`LevelSpec`). A press during inertia does not end aInert, which runs beside the aEnlarge of the next gesture. Its stop clears `animating` while the drill-in still animates, and the next move starts a second `aEnlarge` from the old cursor. The first one then lands while the second is in flight. |
| nav_stray_pan | MCOrbitalNav_straypan.cfg | violation | after a drag-into-centre drill-in, the next move pans a child of the cursor |
| nav_resize_pan | MCOrbitalNav_resizepan.cfg | violation | resize shows a panned node from the unpanned shared cache |
| circle_search | MCCircleLayout.cfg | pass | `getCircle` ends within `pixelPrecision` of the tangent radius and `getNeighbor` within twice `da` of the tangent angle (`SearchConverges`). The ring walks draw exactly the circles at or above `minRadius`, each with data index `cursor.index + k` (`RingRendersVisible`). After a drag, `calcCursor` makes the ring's largest circle the cursor, and the next render draws the dragged child with its own index where it was dragged to (`CursorFollowsDrag`). |
| mag_input | MCMagnifierInput.cfg | pass | driven by mouse and touch, `Magnifier` implements `LensGesture` and every glide ends; `ongoingTouches` keeps only fingers on the screen; every handler call implements `PointerInput` (presses and releases alternate, a touch moves the pointer only while it is held) |
| mag_display | MCMagnifier_display.cfg | violation | a release before the pan frame leaves the lens showing an older centre |
| mag_double_glide | MCMagnifier_doubleglide.cfg | violation | a press and release during a glide start a second dInert loop beside the first |

Each violation is a finding in `PROJECT.json`, with the source line and the trace's story.

**Bounds.**
- `ChildIdx = {0, 1}`, `MaxDepth = 2` and `SelDepth = 2`. A drill-in, a drill-out and chains of two passes are all reachable.
- `RingSize = 3` replaces the code's 20. The wrap of the ring buffer is then reachable within five events, and the code treats the two sizes alike.
- `MaxOffset = 1`. It gives a centre that moves and clamps.
- `MaxSteps = 2` frames per loop. A loop both re-arms and ends.
- `MaxLevels = 2` transitions.
- The `nav` run uses four input events: enough for a drill-in followed by a drill-out, the ring wrap and a transition racing a pan. The violation runs use five to seven.
- `nav_double_enter` needs seven events: a press and two drag moves, the release, a press, a drill-in move and, once the orphan loop has stopped, a second move. It takes `ChildIdx = {0}` and `MaxOffset = 0`: the route needs neither a second child nor a pan offset, and TLC then finds it in about 80 s instead of 8 minutes.
- In `Magnifier`, `MaxOffset = 2`. With 1, a second glide could never move the clamped centre, so the double glide would stay invisible. `RingSize = 3` and `MaxSteps = 2` as above. The pass run `mag_input` uses five mouse or touch events; the display violation needs four.
- Five events pass too for `nav`, but take about four minutes. Each of its safety mutants is caught with four.
- `circle_search`'s walks take rings of 3 circles on each side of `c0`, radii 0..6 and `minRadius` 5. That is all 2,269 such profiles. A render is explored with every hit, and a drag from each profile. A profile must rise strictly, so on the "+" side a circle below 5 followed by a larger one exists only if `minRadius` exceeds `Ring + 1`. That case is the one the `delta` test is for: a small `c0`, or a small first neighbour, on the growing side of the ring.
- `circle_search`'s searches take parent radii 1..4, which gives 16 to 18 passes, at the code's precision 2^-16. The previous circle sits at 1, 3, 8, 13 or 15 sixteenths of a turn, and the searches go both ways. The radius changes only how many passes run and where `da` stops the angle search.
- `mag_input` has two fingers. They are enough for a second finger that lands beside the tracked one and must be ignored, for the tracked one lifting first, and for a finger landing again once the list is empty. Changed touches come as any set, in any order. No symmetry is used, because the run checks liveness. Six events take about five minutes.
- In Crisp, the sides 1..36 cover the guard boundaries 8/9, 16/17 and 32/33. They are uniform sources. The pixel sizes (9x9, 10x9, 17x5, 5x18) are odd and even sides with up to three levels, non-square ones included, each with one special pixel at every position. `pyramid_render` takes the union of the two (`GridSources`).
- `renderFishEye`'s loops are checked on a 4 x 3 output with `superSampling = 1`, as in Orbital and Magnifier. One row is enough to show the shift.

**Fairness.** Weak fairness is assumed on `Frame` and `Callback` only, in both `OrbitalNav` and `Magnifier`. The browser runs every registered rAF callback. The user owes nothing, so input carries no fairness. In `MagnifierInput`, `TouchPass` is weakly fair as well: a listener, once called, runs its loop to the end. `CHECK_DEADLOCK FALSE` is set because the page legitimately idles once input is used up and the animations have ended.

**Mutants.** Each property of a passing run has a mutant in `PROJECT.json`. It is a variant operator defined next to the original, for example a ring index that does not wrap, or an `aInert` that never clears `animating`. TLC finds the property violated under that mutant.

## Not modelled

- **FishEye's warp field** (`initFishEye`, `prepareFishEyeMap`). It is floating-point trigonometry over pixel arrays. In the navigation model it appears only as the pan displacement. In `FishEyeRender` it is the open choice of drawn entries and coordinates. The hazards at lines 673 (a Y level clamped by the X count) and 698 (a render map reused for every size) live there and are listed without a property.
- **Circle geometry** (the positions `getCircle` and `getNeighbor` compute, `minRadius`, the hit test). In the navigation model it is abstracted to zones and hit results. `CircleSearch` keeps the two loops and their tests, not the trigonometry behind the tests. `RingWalk` keeps the walks' control and indices over radius profiles, not the positions.
- **The second pan axis.**
- **Animation interpolation of angles.**
- **A mouse and a touch screen used at once.** The mouse listeners (2096-2108 and 2673-2686) call the same handlers as the touch listeners. A mouse press or release in the middle of a touch gesture would break the press / release alternation. `MagnifierInput` uses one device at a time. touchstart and touchend call `preventDefault`, so the browser sends no compatibility mouse events for a touch. Only a second physical device mixes them.
- **Orbital's touch listeners with Orbital's handlers.** `Touch` models Orbital's copy (2111-2198) on its own. `OrbitalNav` takes the handler calls as its input, as `Magnifier` does without `MagnifierInput`. Composing the two the way `MagnifierInput` does would go past what TLC explores in the time a run has.
- **Magnifier's second axis and lens geometry.** They are abstracted as in Orbital.
- **DOM and grid generators.**
- **Crisp's unused variants** (`crispBitmap3`, `crispBitmapXY3`, `crispX0/Y0`, `crispX2/Y2`). They are dead code: nothing exports or calls them.
- **Crisp's `log` table.** It is the constant `ceil(log(i) / log(2))`. It is exact at every power of two below 65535, so no float rounding moves a level. Only FishEye's level selection reads it, and that is left out with the warp field.
- **The pass's `getMetrics`, `getAngMin` and `getAngMax`** (1023-1069). Nothing calls them. `getAngMin` and `getAngMax` would read `data.index` on the `null` data that `render` passes to every child.

## Plan for later work

- FishEye's level selection (`Crisp.log`, the `bmpscale` clamps of `drawCircle` and `prepareFishEyeMap`) as integer operators checked against a reference over bounded inputs.
- `OrbitalNav`'s pan as a second instance of `LensGesture`. The cursor's offset `center[cursor]` changes at every level transition, with no gesture. So this needs an abstract pan spec that also knows about transitions.
