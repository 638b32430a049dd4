------------------------------- MODULE ConfStore -------------------------------
(***************************************************************************)
(* What the configuration promises the modules that keep their settings in *)
(* it: a set of named items that outlives the process.  An item is changed *)
(* at once and for all.  While the items are not safe, which is until a    *)
(* change is on disk, the death of the process loses all of them; at any   *)
(* other time it loses none.  There is never a mixture of old and new.     *)
(***************************************************************************)
CONSTANTS
    Keys,      \* names of items
    Values,    \* what an item may be
    NoItem,    \* there is no item of that name
    FirstDoc   \* the items that the server is shipped with

VARIABLES
    items,     \* the item of each name
    safe,      \* the items survive a death of the process
    alive      \* the process runs

vars == <<items, safe, alive>>

Empty == [k \in Keys |-> NoItem]

Init == items = FirstDoc /\ safe = TRUE /\ alive = TRUE

Set(k, v) ==
    /\ alive
    /\ items' = [items EXCEPT ![k] = v]
    /\ safe' = FALSE
    /\ UNCHANGED alive

Settle ==
    /\ alive
    /\ safe' = TRUE
    /\ UNCHANGED <<items, alive>>

Die ==
    /\ alive
    /\ alive' = FALSE
    /\ items' = IF safe THEN items ELSE Empty
    /\ UNCHANGED safe

Start ==
    /\ ~alive
    /\ alive' = TRUE
    /\ UNCHANGED <<items, safe>>

Next ==
    \/ \E k \in Keys, v \in Values : Set(k, v)
    \/ Settle
    \/ Die
    \/ Start

Spec == Init /\ [][Next]_vars
=============================================================================
