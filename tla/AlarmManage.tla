------------------------------ MODULE AlarmManage ------------------------------
(***************************************************************************)
(* Modules/AlarmManage/alarmmanage.c: alarms wait in a list of bounded     *)
(* length; one thread takes the first of them, calls every registered      *)
(* handle with it, and only then removes it from the list.                 *)
(*                                                                         *)
(* AlarmMsgInput, AlarmMsgOut and AlarmMsgDel each run under pushmutex and *)
(* are one action.  Between them the thread holds only a pointer to the    *)
(* alarm, so the heap is modelled: malloc gives any block that is free,    *)
(* also the one that was freed last.  The callbacks run under the mutex of *)
(* the list of handles, one step each.  The two lists are used through     *)
(* HandleManage, which implements sequences (HandleList).                  *)
(***************************************************************************)
EXTENDS Integers, Sequences, FiniteSets, SequencesExt

CONSTANTS
    Blocks,           \* the heap blocks an AlarmInfo_T can live in
    NULL,
    Handles,          \* the AlarmHandle_T of the users
    Deaf,             \* the handles whose AlarmFun is NULL
    MAX_PUSHMSG_NUM,
    MaxAlarms,        \* bound: alarms pushed in a behaviour
    MaxRegistered     \* bound: length of the list of handles

(***************************************************************************)
(* The list can hold MAX_PUSHMSG_NUM + 1 alarms, since it is "msgnum >     *)
(* MAX_PUSHMSG_NUM" that makes room for a new one.                         *)
(***************************************************************************)
ASSUME AlarmAssumption ==
    /\ MAX_PUSHMSG_NUM \in Nat
    /\ MaxAlarms \in Nat
    /\ MaxRegistered \in Nat
    /\ Deaf \subseteq Handles
    /\ NULL \notin Blocks \cup Handles
    /\ IsFiniteSet(Blocks)
    /\ Cardinality(Blocks) > MAX_PUSHMSG_NUM

VARIABLES
    heap,         \* the alarm in a block, 0 when the block is free
    headlist,     \* AlarmList.headlist: blocks, oldest first
    msgnum,       \* AlarmList.msgnum
    alarmCB,      \* s_AlarmInnerHandle.listHead_AlarmCB
    pPushAlarm,   \* the handles whose pPushAlarm is set
    g_innerExit,  \* TRUE: the thread goes on
    pc,           \* what AlarmManageProc does next
    alarminfo,    \* the pointer AlarmManageProc works with
    todo,         \* the handles the running HandleManagePostLoop has left
    pushed,       \* history: alarms pushed so far, numbered from 1
    taken,        \* history: the alarm AlarmMsgOut returned
    evicted,      \* history: alarms AlarmMsgInput threw away
    seen,         \* history: alarms some AlarmFun was called with
    unheard       \* history: alarms posted to no AlarmFun at all

heapVars == <<heap, headlist, msgnum>>
procVars == <<pc, alarminfo, todo>>
vars == <<heap, headlist, msgnum, alarmCB, pPushAlarm, g_innerExit, pc,
          alarminfo, todo, pushed, taken, evicted, seen, unheard>>

Alarms == 1 .. MaxAlarms

TypeOK ==
    /\ heap \in [Blocks -> Alarms \cup {0}]
    /\ headlist \in Seq(Blocks)
    /\ msgnum \in 0 .. MAX_PUSHMSG_NUM + 1
    /\ alarmCB \in Seq(Handles)
    /\ pPushAlarm \subseteq Handles
    /\ g_innerExit \in BOOLEAN
    /\ pc \in {"none", "out", "lock", "post", "del"}
    /\ alarminfo \in Blocks \cup {NULL}
    /\ todo \in Seq(Handles)
    /\ pushed \in 0 .. MaxAlarms
    /\ taken \in Alarms \cup {0}
    /\ evicted \subseteq Alarms
    /\ seen \subseteq Alarms
    /\ unheard \subseteq Alarms

Init ==
    /\ heap = [b \in Blocks |-> 0]
    /\ headlist = <<>>
    /\ msgnum = 0
    /\ alarmCB = <<>>
    /\ pPushAlarm = {}
    /\ g_innerExit = FALSE
    /\ pc = "none"
    /\ alarminfo = NULL
    /\ todo = <<>>
    /\ pushed = 0
    /\ taken = 0
    /\ evicted = {}
    /\ seen = {}
    /\ unheard = {}
-----------------------------------------------------------------------------
(***************************************************************************)
(* Pushing an alarm.                                                       *)
(***************************************************************************)
Full == msgnum > MAX_PUSHMSG_NUM

\* msgnum is decremented for the alarm thrown away, incremented for the new.
MsgnumAfterInput == (IF Full THEN msgnum - 1 ELSE msgnum) + 1

\* The list without the oldest alarm, if there is no room for a new one.
Kept == IF Full THEN Tail(headlist) ELSE headlist

\* Mutant: the alarm thrown away is not freed.
Mut_FreedHeap == heap

FreedHeap == IF Full THEN [heap EXCEPT ![Head(headlist)] = 0] ELSE heap

\* Mutant: the new alarm is put in front of the others.
Mut_AlarmMsgInput ==
    /\ pushed < MaxAlarms
    /\ pushed' = pushed + 1
    /\ evicted' = evicted \cup (IF Full THEN {heap[Head(headlist)]} ELSE {})
    /\ \E b \in {c \in Blocks : FreedHeap[c] = 0} :
        /\ heap' = [FreedHeap EXCEPT ![b] = pushed']
        /\ headlist' = <<b>> \o Kept
    /\ msgnum' = MsgnumAfterInput
    /\ UNCHANGED <<procVars, alarmCB, pPushAlarm, g_innerExit, taken, seen,
                   unheard>>

(***************************************************************************)
(* AlarmMsgInput, which users reach through pPushAlarm.  They keep copies  *)
(* of that pointer, so it is called whether or not a handle is registered. *)
(***************************************************************************)
AlarmMsgInput ==
    /\ pushed < MaxAlarms
    /\ pushed' = pushed + 1
    /\ evicted' = evicted \cup (IF Full THEN {heap[Head(headlist)]} ELSE {})
    /\ \E b \in {c \in Blocks : FreedHeap[c] = 0} :
        /\ heap' = [FreedHeap EXCEPT ![b] = pushed']
        /\ headlist' = Append(Kept, b)
    /\ msgnum' = MsgnumAfterInput
    /\ UNCHANGED <<procVars, alarmCB, pPushAlarm, g_innerExit, taken, seen,
                   unheard>>
-----------------------------------------------------------------------------
(***************************************************************************)
(* AlarmManageProc.                                                        *)
(***************************************************************************)

\* Mutant: the alarm is removed and freed before it is posted.
Mut_AlarmMsgOut ==
    /\ pc = "out"
    /\ g_innerExit
    /\ headlist # <<>>
    /\ alarminfo' = Head(headlist)
    /\ taken' = heap[Head(headlist)]
    /\ pc' = "lock"
    /\ headlist' = Tail(headlist)
    /\ heap' = [heap EXCEPT ![Head(headlist)] = 0]
    /\ msgnum' = msgnum - 1
    /\ UNCHANGED <<alarmCB, pPushAlarm, g_innerExit, todo, pushed, evicted,
                   seen, unheard>>

\* "for(;g_innerExit;)" and AlarmMsgOut, which leaves the alarm in the list.
\* While the list is empty the thread sleeps.
AlarmMsgOut ==
    /\ pc = "out"
    /\ g_innerExit
    /\ headlist # <<>>
    /\ alarminfo' = Head(headlist)
    /\ taken' = heap[Head(headlist)]
    /\ pc' = "lock"
    /\ UNCHANGED <<heapVars, alarmCB, pPushAlarm, g_innerExit, todo, pushed,
                   evicted, seen, unheard>>

\* HandleManagePostLoop takes the mutex of the list of handles.
PostLoopBegins ==
    /\ pc = "lock"
    /\ pc' = "post"
    /\ todo' = alarmCB
    /\ unheard' = IF ToSet(alarmCB) \subseteq Deaf THEN unheard \cup {taken}
                  ELSE unheard
    /\ UNCHANGED <<heapVars, alarmCB, pPushAlarm, g_innerExit, alarminfo,
                   pushed, taken, evicted, seen>>

(***************************************************************************)
(* AlarmPushLoopDoFunc for the next handle of the list: its AlarmFun, if   *)
(* it has one, reads what is in the block now; in a freed block the old    *)
(* alarm may or may not be left.                                           *)
(***************************************************************************)
AlarmPushLoopDoFunc ==
    /\ pc = "post"
    /\ todo # <<>>
    /\ todo' = Tail(todo)
    /\ \/ /\ Head(todo) \in Deaf
          /\ UNCHANGED seen
       \/ /\ Head(todo) \notin Deaf
          /\ heap[alarminfo] # 0
          /\ seen' = seen \cup {heap[alarminfo]}
       \/ /\ Head(todo) \notin Deaf
          /\ heap[alarminfo] = 0
          /\ seen' \in {seen, seen \cup {taken}}
    /\ UNCHANGED <<heapVars, alarmCB, pPushAlarm, g_innerExit, pc, alarminfo,
                   pushed, taken, evicted, unheard>>

\* Mutant: the alarm is deleted only when the loop reports an error.
Mut_PostLoopReturns ==
    /\ pc = "post"
    /\ todo = <<>>
    /\ pc' = "out"
    /\ UNCHANGED <<heapVars, alarmCB, pPushAlarm, g_innerExit, alarminfo, todo,
                   pushed, taken, evicted, seen, unheard>>

PostLoopReturns ==
    /\ pc = "post"
    /\ todo = <<>>
    /\ pc' = "del"
    /\ UNCHANGED <<heapVars, alarmCB, pPushAlarm, g_innerExit, alarminfo, todo,
                   pushed, taken, evicted, seen, unheard>>

(***************************************************************************)
(* AlarmMsgDel: whatever stands in the list under this pointer is removed  *)
(* and freed; when nothing does, the failure is only logged.               *)
(***************************************************************************)
AlarmMsgDel ==
    /\ pc = "del"
    /\ pc' = "out"
    /\ alarminfo' = NULL
    /\ \/ /\ alarminfo \in ToSet(headlist)
          /\ headlist' = RemoveFirst(headlist, alarminfo)
          /\ heap' = [heap EXCEPT ![alarminfo] = 0]
          /\ msgnum' = msgnum - 1
       \/ /\ alarminfo \notin ToSet(headlist)
          /\ UNCHANGED heapVars
    /\ UNCHANGED <<alarmCB, pPushAlarm, g_innerExit, todo, pushed, taken, evicted, seen, unheard>>

ProcExits ==
    /\ pc = "out"
    /\ ~g_innerExit
    /\ pc' = "none"
    /\ UNCHANGED <<heapVars, alarmCB, pPushAlarm, g_innerExit, alarminfo, todo,
                   pushed, taken, evicted, seen, unheard>>
-----------------------------------------------------------------------------
(***************************************************************************)
(* Registration.  It waits for a running HandleManagePostLoop.             *)
(***************************************************************************)
LoopRunning == pc = "post"

Registered(h) ==
    /\ ~LoopRunning
    /\ Len(alarmCB) < MaxRegistered
    /\ pPushAlarm' = pPushAlarm \cup {h}
    /\ alarmCB' = Append(alarmCB, h)

Unregistered(h) ==
    /\ ~LoopRunning
    /\ pPushAlarm' = pPushAlarm \ {h}
    /\ alarmCB' = RemoveFirst(alarmCB, h)

AlarmRegistHandle(h) ==
    /\ Registered(h)
    /\ UNCHANGED <<heapVars, procVars, g_innerExit, pushed, taken, evicted, seen, unheard>>

\* The handle is only marked when it is not in the list.
AlarmUnRegistHandle(h) ==
    /\ Unregistered(h)
    /\ UNCHANGED <<heapVars, procVars, g_innerExit, pushed, taken, evicted, seen, unheard>>

(***************************************************************************)
(* AlarmInit starts the thread or, when pthread_create fails, takes back   *)
(* only the flag.  It is called once the thread of an earlier AlarmInit    *)
(* has come to its end; the code calls it once, from AdpHandleInit.        *)
(***************************************************************************)
AlarmInit(h) ==
    /\ pc = "none"
    /\ Registered(h)
    /\ \E created \in BOOLEAN :
        /\ g_innerExit' = created
        /\ pc' = IF created THEN "out" ELSE "none"
    /\ UNCHANGED <<heapVars, alarminfo, todo, pushed, taken, evicted, seen, unheard>>

\* The thread sees the flag when it is back at the head of its loop.
AlarmUnInit(h) ==
    /\ g_innerExit
    /\ g_innerExit' = FALSE
    /\ Unregistered(h)
    /\ UNCHANGED <<heapVars, procVars, pushed, taken, evicted, seen, unheard>>
-----------------------------------------------------------------------------
Proc ==
    \/ AlarmMsgOut
    \/ PostLoopBegins
    \/ AlarmPushLoopDoFunc
    \/ PostLoopReturns
    \/ AlarmMsgDel
    \/ ProcExits

Next ==
    \/ AlarmMsgInput
    \/ Proc
    \/ \E h \in Handles : \/ AlarmRegistHandle(h)
                          \/ AlarmUnRegistHandle(h)
                          \/ AlarmInit(h)
                          \/ AlarmUnInit(h)

Spec == Init /\ [][Next]_vars

\* The thread is scheduled: a polling loop without any wait for others but
\* the mutexes, each of which is given back.
FairSpec == Spec /\ WF_vars(Proc)
-----------------------------------------------------------------------------
(***************************************************************************)
(* The list and the heap agree whatever AlarmMsgInput and AlarmMsgDel do   *)
(* to the same alarm: each alarm waits in a block of its own, no block is  *)
(* freed while it is in the list or left behind when it is not, and msgnum *)
(* counts the list, so that the list does not outgrow its limit.           *)
(***************************************************************************)
HeapConsistent ==
    /\ TypeOK
    /\ IsInjective(headlist)
    /\ ToSet(headlist) = {b \in Blocks : heap[b] # 0}
    /\ msgnum = Len(headlist)

(***************************************************************************)
(* The alarms wait in the order in which they were pushed.                 *)
(***************************************************************************)
InOrder ==
    \A i, j \in 1 .. Len(headlist) : i < j => heap[headlist[i]] < heap[headlist[j]]

(***************************************************************************)
(* The alarms that are gone and were never shown to an AlarmFun, although  *)
(* there was one when they were posted.                                    *)
(***************************************************************************)
Lost ==
    {a \in 1 .. pushed : /\ a \notin seen \cup unheard
                         /\ \A b \in Blocks : heap[b] # a}

(***************************************************************************)
(* Every alarm that waits while AlarmManageProc runs leaves the list: the  *)
(* thread neither gets stuck on an alarm it cannot delete nor is kept from *)
(* it by new ones.                                                         *)
(***************************************************************************)
AlarmsLeave ==
    \A a \in Alarms :
        (\E b \in Blocks : heap[b] = a) /\ g_innerExit
            ~> (\A b \in Blocks : heap[b] # a) \/ ~g_innerExit
(***************************************************************************)
(* The block AlarmManageProc hands to the callbacks and then deletes holds *)
(* the alarm it took, unless AlarmMsgInput threw that very alarm away: the *)
(* thread has nobody else to fear.  (When it did, the callbacks read freed *)
(* memory or another alarm.)  Nothing gets lost before an alarm is thrown  *)
(* away for want of room; one thrown away while it is being posted can     *)
(* cost one more, since AlarmMsgDel with a pointer whose block was reused  *)
(* removes an alarm nobody has seen, but not two.                          *)
(***************************************************************************)
OnlyEvictionDisturbs ==
    /\ pc \in {"lock", "post", "del"} => heap[alarminfo] = taken \/ taken \in evicted
    /\ Cardinality(Lost \ evicted) <= Cardinality(evicted)
=============================================================================
