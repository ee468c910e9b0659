---------------------------- MODULE PointerInput ----------------------------
(***************************************************************************)
(* What the pointer handlers of Orbital and Magnifier (mousedown,         *)
(* mousemove, mouseup) expect of their caller: one button, pressed and    *)
(* released in turn; a move with the button held is a drag, one without *)
(* it a hover.  `call` is the handler the last step called ("none" when   *)
(* it called none); the handlers keep the button in their mouseDown flag. *)
(***************************************************************************)
VARIABLES
    pressed,   \* the button the handlers have been told is down
    call       \* "none", "down", "move", "hover" or "up"

vars == <<pressed, call>>

Init == pressed = FALSE /\ call = "none"

Press == ~pressed /\ pressed' = TRUE /\ call' = "down"

Drag == pressed /\ call' = "move" /\ UNCHANGED pressed

Hover == ~pressed /\ call' = "hover" /\ UNCHANGED pressed

Release == pressed /\ pressed' = FALSE /\ call' = "up"

\* a step that calls no handler
Idle == call' = "none" /\ UNCHANGED pressed

Next == Press \/ Drag \/ Hover \/ Release \/ Idle

Spec == Init /\ [][Next]_vars
====
