----------------------------- MODULE LevelStack -----------------------------
(***************************************************************************)
(* What the level transitions promise (spec 4.5, "Drill transitions"): a  *)
(* drill-in descends the cursor to a child and pushes the data shown so   *)
(* far onto a stack; a drill-out climbs to the parent and pops it back.   *)
(* A transition is announced, animates for a while and then lands; only   *)
(* one runs at a time, a drill-out only while the stack is not empty, and *)
(* a started transition always lands.                                     *)
(***************************************************************************)
EXTENDS Naturals, Sequences

CONSTANTS
    ChildIdx,   \* child ordinals
    Data        \* the data contexts a level may show

VARIABLES
    phase,      \* "still", "entering" or "leaving"
    cursor,     \* the current node, as its path of child ordinals
    path,       \* the stack of data contexts above the cursor
    data        \* the data context the cursor shows

vars == <<phase, cursor, path, data>>

Init == phase = "still" /\ cursor = <<>> /\ path = <<>> /\ data \in Data

Begin ==
    /\ phase = "still"
    /\ \/ phase' = "entering"
       \/ phase' = "leaving" /\ path # <<>>
    /\ UNCHANGED <<cursor, path, data>>

Enter ==
    /\ phase = "entering" /\ phase' = "still"
    /\ \E i \in ChildIdx : cursor' = Append(cursor, i)
    /\ path' = Append(path, data)
    /\ data' \in Data

Leave ==
    /\ phase = "leaving" /\ phase' = "still"
    /\ cursor' = SubSeq(cursor, 1, Len(cursor) - 1)
    /\ path' = SubSeq(path, 1, Len(path) - 1)
    /\ data' = path[Len(path)]

Next == Begin \/ Enter \/ Leave

Spec == Init /\ [][Next]_vars /\ WF_vars(Enter \/ Leave)
====
