------------------------------ MODULE HandleList ------------------------------
(***************************************************************************)
(* What Modules/HandleManage promises its users: a list of handles that    *)
(* can be extended at both ends, from which the first occurrence of a      *)
(* handle can be deleted, and whose elements a loop visits one after the   *)
(* other while nobody changes the list.                                    *)
(***************************************************************************)
EXTENDS Integers, Sequences, SequencesExt

CONSTANTS
    Handles,    \* the pointers users put into a list
    Values,     \* the values a search asks for
    Member,     \* Member[h]: the member of *h that a search compares
    NULL,       \* no handle
    MaxCount    \* bound: length of a list

KEY_TRUE == 0
KEY_FALSE == -1

VARIABLES
    list,       \* the handles, first one first
    left,       \* what a running loop has still to visit
    looping,    \* a loop is running
    ret         \* the last call that returned, and what it returned

listVars == <<list, left, looping, ret>>

Init ==
    /\ list = <<>>
    /\ left = <<>>
    /\ looping = FALSE
    /\ ret = <<"InitHead", KEY_TRUE>>

AddLast(h) ==
    /\ ~looping
    /\ Len(list) < MaxCount
    /\ list' = Append(list, h)
    /\ ret' = <<"AddHandle", KEY_TRUE>>
    /\ UNCHANGED <<left, looping>>

AddFirst(h) ==
    /\ ~looping
    /\ Len(list) < MaxCount
    /\ list' = <<h>> \o list
    /\ ret' = <<"AddHandle1", KEY_TRUE>>
    /\ UNCHANGED <<left, looping>>

\* RemoveFirst removes the first occurrence of a value, if there is one.
Delete(h) ==
    /\ ~looping
    /\ list' = RemoveFirst(list, h)
    /\ ret' = <<"DelHandle",
                IF h \in ToSet(list) THEN KEY_TRUE ELSE KEY_FALSE>>
    /\ UNCHANGED <<left, looping>>

\* A loop does not keep others from looking at an empty list.
First ==
    /\ looping => list = <<>>
    /\ ret' = <<"GetNextHandle", IF list = <<>> THEN NULL ELSE Head(list)>>
    /\ UNCHANGED <<list, left, looping>>

Count ==
    /\ ~looping
    /\ ret' = <<"GetUsrCount", Len(list)>>
    /\ UNCHANGED <<list, left, looping>>

Search(v) ==
    /\ ~looping
    /\ LET found == SelectInSeq(list, LAMBDA h : Member[h] = v)
       IN  ret' = <<"GetHandleBy",
                    IF found = 0 THEN NULL ELSE list[found]>>
    /\ UNCHANGED <<list, left, looping>>

LoopBegins ==
    /\ ~looping
    /\ looping' = TRUE
    /\ left' = list
    /\ UNCHANGED <<list, ret>>

\* The loop's function is called with the next handle.
LoopVisits ==
    /\ left # <<>>
    /\ left' = Tail(left)
    /\ ret' = <<"LoopDoFunc", Head(left)>>
    /\ UNCHANGED <<list, looping>>

LoopEnds ==
    /\ looping
    /\ left = <<>>
    /\ looping' = FALSE
    /\ ret' = <<"PostLoop", KEY_TRUE>>
    /\ UNCHANGED <<list, left>>

Next ==
    \/ \E h \in Handles : AddLast(h) \/ AddFirst(h) \/ Delete(h)
    \/ First
    \/ Count
    \/ \E v \in Values : Search(v)
    \/ LoopBegins
    \/ LoopVisits
    \/ LoopEnds

Spec == Init /\ [][Next]_listVars
=============================================================================
