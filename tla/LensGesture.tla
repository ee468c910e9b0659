----------------------------- MODULE LensGesture -----------------------------
(***************************************************************************)
(* What a pan gesture on a lens promises (spec 4.5, "States"): the lens is *)
(* idle, being panned by a held pointer, or gliding by inertia after the  *)
(* release.  A press aborts a glide and leaves the pointer holding the    *)
(* lens; the pan offset moves only while the lens is panned or gliding,   *)
(* and a release that starts no glide leaves it where it is.  A glide     *)
(* always comes to rest.                                                  *)
(***************************************************************************)
EXTENDS Integers

CONSTANT Offsets   \* the pan offsets the lens may take

VARIABLES
    mode,     \* "idle", "pan" or "glide"
    held,     \* the pointer button is down
    center    \* the pan offset

vars == <<mode, held, center>>

Init == mode = "idle" /\ held = FALSE /\ center = 0

\* pointer-down: an in-flight glide is aborted and the lens is held
Press ==
    /\ ~held /\ held'
    /\ mode' = IF mode = "glide" THEN "pan" ELSE mode
    /\ UNCHANGED center

\* the pointer moves past the threshold inside the focal circle; the same
\* move already drags the offset
Grab == held /\ mode = "idle" /\ mode' = "pan" /\ center' \in Offsets /\ UNCHANGED held

\* the held pointer drags the offset
Drag == held /\ mode = "pan" /\ center' \in Offsets /\ UNCHANGED <<mode, held>>

\* a held lens is let go without a release (the press fell outside)
Drop == held /\ mode = "pan" /\ mode' = "idle" /\ UNCHANGED <<held, center>>

\* pointer-up: a panned lens either starts gliding or stays put
Release ==
    /\ held /\ ~held'
    /\ \/ mode = "pan" /\ mode' = "glide" /\ center' \in Offsets
       \/ mode' = "idle" /\ center' = center

Glide == mode = "glide" /\ center' \in Offsets /\ UNCHANGED <<mode, held>>

Rest == mode = "glide" /\ mode' = "idle" /\ UNCHANGED <<held, center>>

Next == Press \/ Grab \/ Drag \/ Drop \/ Release \/ Glide \/ Rest

Spec == Init /\ [][Next]_vars /\ WF_vars(Rest)
====
