-------------------------------- MODULE Touch --------------------------------
(***************************************************************************)
(* setupTouchEvents of orbital.js: the touch listeners that turn touches  *)
(* into calls of the pointer handlers.  ongoingTouches keeps copies of    *)
(* the tracked touches (a copy is its identifier here; the coordinates    *)
(* and which = 1 are abstracted), and only a touch that lands on an empty *)
(* list is tracked.  Each listener loops over evt.changedTouches; one     *)
(* pass of the loop is one step, and no event is delivered before the     *)
(* loop ends, since a listener runs to completion.  mouseDown is the flag *)
(* the forwarded mousedown and mouseup set; `call` is the handler the last *)
(* step called, "none" when it called none.                                *)
(***************************************************************************)
EXTENDS Integers, SequencesExt

CONSTANTS
    Fingers,          \* touch identifiers
    MaxTouchEvents    \* touch events the browser delivers in a behaviour

Kinds == {"start", "move", "cancel", "end"}

VARIABLES
    down,       \* the fingers on the screen
    ongoing,    \* ongoingTouches
    kind,       \* the listener running, or the last one that ran
    todo,       \* the changed touches its loop has yet to visit
    mouseDown,  \* the pointer handlers' mouseDown
    call,       \* the pointer handler the last step called
    events

vars == <<down, ongoing, kind, todo, mouseDown, call, events>>

\* ongoingTouchIndexById: the 1-based position of the copy, 0 for the code's -1
IndexById(id) == SelectInSeq(ongoing, LAMBDA t : t = id)

\* a call of mousedown (which = 1), mousemove or mouseup
Forward(c) ==
    /\ call' = c
    /\ mouseDown' = CASE c = "down" -> TRUE [] c = "up" -> FALSE [] OTHER -> mouseDown

NoCall == UNCHANGED mouseDown /\ call' = "none"

Init ==
    /\ down = {} /\ ongoing = <<>> /\ kind = "start" /\ todo = <<>>
    /\ mouseDown = FALSE /\ call = "none" /\ events = 0

\* The browser delivers a touch event whose changedTouches are `changed`,
\* in any order.
Deliver(k, changed) ==
    /\ todo = <<>> /\ events < MaxTouchEvents
    /\ changed # {}
    /\ events' = events + 1 /\ kind' = k
    /\ todo' \in SetToSeqs(changed)
    /\ call' = "none"
    /\ UNCHANGED <<ongoing, mouseDown>>

FingersDown == \E c \in SUBSET (Fingers \ down) : Deliver("start", c) /\ down' = down \cup c

FingersMove == \E c \in SUBSET down : Deliver("move", c) /\ UNCHANGED down

FingersLift == \E c \in SUBSET down, k \in {"cancel", "end"} :
                  Deliver(k, c) /\ down' = down \ c

\* Variant: every touch that lands is tracked.
StartPassAnyLength ==
    LET o == Append(ongoing, Head(todo))
    IN  /\ ongoing' = o
        /\ IF SelectInSeq(o, LAMBDA t : t = Head(todo)) > 0 THEN Forward("down") ELSE NoCall

\* touchstart, one pass: a touch landing on an empty list is copied and
\* pressed; any other is ignored
StartPass ==
    IF Len(ongoing) = 0
    THEN LET o == Append(ongoing, Head(todo))
         IN  /\ ongoing' = o
             /\ IF SelectInSeq(o, LAMBDA t : t = Head(todo)) > 0
                THEN Forward("down") ELSE NoCall
    ELSE UNCHANGED ongoing /\ NoCall

\* touchmove, one pass: a tracked touch moves the pointer
MovePass ==
    /\ IF IndexById(Head(todo)) > 0 THEN Forward("move") ELSE NoCall
    /\ UNCHANGED ongoing

\* Variant: the copy stays in ongoingTouches after the release.
LiftPassNoSplice ==
    /\ IF IndexById(Head(todo)) > 0 THEN Forward("up") ELSE NoCall
    /\ UNCHANGED ongoing

\* touchend, one pass: a tracked touch releases the pointer and its copy
\* is removed
LiftPass ==
    LET idx == IndexById(Head(todo))
    IN  IF idx > 0
        THEN Forward("up") /\ ongoing' = RemoveAt(ongoing, idx)
        ELSE NoCall /\ UNCHANGED ongoing

Pass(k, body) ==
    /\ kind = k /\ todo # <<>>
    /\ body
    /\ todo' = Tail(todo)
    /\ UNCHANGED <<down, kind, events>>

TouchStart == Pass("start", StartPass)
TouchMove == Pass("move", MovePass)
\* touchcancel runs the same loop as touchend (without preventDefault)
TouchCancel == Pass("cancel", LiftPass)
TouchEnd == Pass("end", LiftPass)

Next ==
    \/ FingersDown \/ FingersMove \/ FingersLift
    \/ TouchStart \/ TouchMove \/ TouchCancel \/ TouchEnd

Spec == Init /\ [][Next]_vars

-----------------------------------------------------------------------------
TypeOK ==
    /\ down \subseteq Fingers
    /\ ongoing \in Seq(Fingers) /\ Len(ongoing) <= Cardinality(Fingers)
    /\ kind \in Kinds /\ todo \in Seq(Fingers)
    /\ mouseDown \in BOOLEAN /\ call \in {"none", "down", "move", "up", "hover"}
    /\ events \in 0 .. MaxTouchEvents

(* Between events, every touch ongoingTouches still tracks is on the      *)
(* screen: touchend and touchcancel remove the copy of each lifted touch, *)
(* whatever order the changed touches come in and however many fingers   *)
(* are down.  A stale copy would keep the pointer held for a finger that  *)
(* is gone.                                                               *)
TrackedIsDown == todo = <<>> => ToSet(ongoing) \subseteq down

(* The calls the touch listeners make implement PointerInput: mousedown   *)
(* and mouseup alternate and a touch moves the pointer only while it is    *)
(* held, however several fingers land, move and lift.                     *)
Pointer == INSTANCE PointerInput WITH pressed <- mouseDown

PointerSpec == Pointer!Spec
====
