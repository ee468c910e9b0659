---------------------------- MODULE MagnifierInput ----------------------------
(***************************************************************************)
(* The Magnifier with both of its input paths: setupMouseEvents calls     *)
(* mousedown / mousemove / mouseup for each mouse event, and              *)
(* setupTouchEvents (module Touch) calls the same handlers from its touch *)
(* listeners.  Both paths share the handlers' state, mouseDown included,  *)
(* and the input budget.  A touch pass that calls a handler runs that     *)
(* handler (module Magnifier) in the same step.  One device is used at a *)
(* time: the mouse only while no finger is down, a touch only while the  *)
(* mouse button is up.                                                    *)
(***************************************************************************)
EXTENDS Integers, Sequences

CONSTANTS MaxOffset, RingSize, MaxSteps, MaxEvents, Fingers

VARIABLES
    held, events, running, mouseDown, panning, animating, center, oldCenter,
    cachedCnv, isCache, cacheAt, pressFar, panLen, panIdx, panSamples, raf,
    down, ongoing, kind, todo,   \* the touch listeners (module Touch)
    call                         \* the pointer handler the last step called

M == INSTANCE Magnifier
T == INSTANCE Touch WITH MaxTouchEvents <- MaxEvents

lensVars == <<panning, animating, center, oldCenter, cachedCnv, isCache,
              cacheAt, pressFar, panLen, panIdx, panSamples, raf>>
touchVars == <<down, ongoing, kind, todo>>
vars == <<M!vars, touchVars, call>>

Init == M!Init /\ T!Init

\* a mouse listener, while no touch is in progress
MouseEvent(handler) ==
    /\ down = {} /\ todo = <<>>
    /\ handler
    /\ UNCHANGED touchVars

MouseDown == MouseEvent(M!Press) /\ call' = "down"
MouseMove == MouseEvent(M!Move) /\ call' = IF held THEN "move" ELSE "hover"
MouseUp == MouseEvent(M!Release) /\ call' = "up"

Resize == todo = <<>> /\ M!Resize /\ UNCHANGED <<touchVars, call>>

\* the browser delivers a touch event between frames, the mouse button up
TouchEvent ==
    /\ ~held /\ running = <<>>
    /\ T!FingersDown \/ T!FingersMove \/ T!FingersLift
    /\ UNCHANGED <<held, running, lensVars>>

\* the handler a touch pass calls, with the Magnifier's choices of geometry
RunHandler ==
    CASE call' = "down" -> \E far \in BOOLEAN : M!Apply(M!MouseDown(M!St, far))
      [] call' = "move" -> \E moved \in BOOLEAN, pos \in M!Zones, delta \in -1 .. 1 :
                              M!Apply(M!MouseMove(M!St, moved, pos, delta))
      [] call' = "up"   -> \E coherent, go \in BOOLEAN, v \in M!VelSigns(panSamples),
                              d \in {0, 1} :
                              M!Apply(M!MouseUp(M!St, coherent, v, go, v * d))
      [] OTHER          -> UNCHANGED lensVars

\* one pass of a touch listener's loop, and the handler it calls
TouchPass ==
    /\ T!TouchStart \/ T!TouchMove \/ T!TouchCancel \/ T!TouchEnd
    /\ RunHandler
    /\ UNCHANGED <<held, running>>

\* rAF callbacks run only once the running listener has returned
Frame == todo = <<>> /\ M!Frame /\ UNCHANGED <<touchVars, call>>
Callback == todo = <<>> /\ M!Callback /\ UNCHANGED <<touchVars, call>>

Next ==
    \/ MouseDown \/ MouseMove \/ MouseUp \/ Resize
    \/ TouchEvent \/ TouchPass
    \/ Frame \/ Callback

\* As in Magnifier, the browser runs every frame and callback; a touch
\* listener, once called, runs its loop to the end.
Spec == Init /\ [][Next]_vars /\ WF_vars(TouchPass) /\ WF_vars(Frame) /\ WF_vars(Callback)

-----------------------------------------------------------------------------
TypeOK == M!TypeOK /\ T!TypeOK

(* Touch's TrackedIsDown, with the handlers running and the mouse in use. *)
TrackedIsDown == T!TrackedIsDown

(* Every call of mousedown / mousemove / mouseup, from the mouse          *)
(* listeners or the touch listeners, implements PointerInput: presses and *)
(* releases alternate in the handlers' mouseDown, and a touch moves the   *)
(* pointer only while it is held.                                         *)
PointerSpec == T!PointerSpec

(* Magnifier implements LensGesture whichever device drives it.           *)
GestureSpec == M!GestureSpec

(* Once the user stops, every glide ends and no callback stays queued.    *)
Quiescence == M!Quiescence
====
