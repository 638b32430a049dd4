----------------------------- MODULE HandleManage -----------------------------
(***************************************************************************)
(* Modules/HandleManage/handlemanage.c: the doubly linked list, with a     *)
(* mutex in its head, in which every other module keeps its users, its     *)
(* devices, its messages and its callbacks.                                *)
(*                                                                         *)
(* The list is modelled node by node.  A call runs between MUTEX_LOCK and  *)
(* MUTEX_UNLOCK of head->selfMutex and is one action, with two exceptions: *)
(* HandleManagePostLoop calls back its user with the mutex held, one node  *)
(* after the other, and HandleManageGetNextHandle looks at head->next      *)
(* before it takes the mutex.  malloc gives any node that is not in use;   *)
(* the code does not expect it to fail.  Calls with a NULL head or handle  *)
(* return at once and are left out.                                        *)
(***************************************************************************)
EXTENDS Integers, Sequences, FiniteSets

CONSTANTS
    Nodes,      \* the HandleManage_T blocks malloc can give
    head,       \* the head of the list, a HandleManage_T of its user
    NULL,
    Handles,    \* the pointers users put into the list
    Values,     \* the values a search asks for
    Member,     \* Member[h]: the member of *h that a search compares
    Threads     \* the callers

\* Nobody runs as the thread NULL, and memory is finite.
ASSUME HandleAssumption ==
    /\ IsFiniteSet(Nodes)
    /\ head \notin Nodes
    /\ NULL \notin Nodes \cup {head} \cup Handles \cup Threads
    /\ Member \in [Handles -> Values]

KEY_TRUE == 0
KEY_FALSE == -1

VARIABLES
    next,       \* node->next
    pre,        \* node->pre
    handle,     \* node->handle
    allocated,  \* the nodes between malloc and free
    selfMutex,  \* the thread that keeps head->selfMutex from step to step
    cur,        \* the node a running HandleManagePostLoop has reached
    checked,    \* the threads that saw head->next # NULL without the mutex
    ret         \* the last call that returned, and what it returned

vars == <<next, pre, handle, allocated, selfMutex, cur, checked, ret>>

Cells == Nodes \cup {head}

TypeOK ==
    /\ next \in [Cells -> Nodes \cup {NULL}]
    /\ pre \in [Cells -> Cells \cup {NULL}]
    /\ handle \in [Cells -> Handles \cup {NULL}]
    /\ allocated \subseteq Nodes
    /\ selfMutex \in Threads \cup {NULL}
    /\ cur \in Nodes \cup {NULL}
    /\ checked \subseteq Threads

\* HandleManageInitHead; what blocks not yet allocated hold does not matter.
Init ==
    /\ next = [c \in Cells |-> NULL]
    /\ pre = [c \in Cells |-> NULL]
    /\ handle = [c \in Cells |-> NULL]
    /\ allocated = {}
    /\ selfMutex = NULL
    /\ cur = NULL
    /\ checked = {}
    /\ ret = <<"InitHead", KEY_TRUE>>
-----------------------------------------------------------------------------
(***************************************************************************)
(* The loops "for(cur = head->next; cur != NULL; cur = cur->next)".        *)
(***************************************************************************)

\* The cell such a loop has reached after n steps.
Walk ==
    LET w[n \in 0 .. Cardinality(Nodes)] ==
            IF n = 0 THEN next[head]
            ELSE IF w[n - 1] = NULL THEN NULL ELSE next[w[n - 1]]
    IN  w

\* How many nodes it visits.
Length == Cardinality({n \in DOMAIN Walk : Walk[n] # NULL})

\* The nodes in the order in which it visits them.
Order == [i \in 1 .. Length |-> Walk[i - 1]]

\* Where "for(cur = head; cur->next != NULL; cur = cur->next);" stops.
LastCell == IF Length = 0 THEN head ELSE Order[Length]

\* Mutant: the search does not stop at the first match.
Mut_FirstNode(wanted) ==
    LET found == {i \in 1 .. Length : handle[Order[i]] \in wanted}
    IN  IF found = {} THEN NULL
        ELSE Order[CHOOSE i \in found : \A j \in found : j <= i]

\* The first node that holds a wanted handle, NULL if there is none.
FirstNode(wanted) ==
    LET found == {i \in 1 .. Length : handle[Order[i]] \in wanted}
    IN  IF found = {} THEN NULL
        ELSE Order[CHOOSE i \in found : \A j \in found : i <= j]
-----------------------------------------------------------------------------
Unlocked == selfMutex = NULL

HandleManageAddHandle(h) ==
    /\ Unlocked
    /\ \E n \in Nodes \ allocated :
        /\ next' = [next EXCEPT ![LastCell] = n, ![n] = NULL]
        /\ pre' = [pre EXCEPT ![n] = LastCell]
        /\ handle' = [handle EXCEPT ![n] = h]
        /\ allocated' = allocated \cup {n}
    /\ ret' = <<"AddHandle", KEY_TRUE>>
    /\ UNCHANGED <<selfMutex, cur, checked>>

\* Mutant: the old first node goes on pointing back to the head.
Mut_HandleManageAddHandle1(h) ==
    /\ Unlocked
    /\ \E n \in Nodes \ allocated :
        /\ next' = [next EXCEPT ![head] = n, ![n] = next[head]]
        /\ pre' = [pre EXCEPT ![n] = head]
        /\ handle' = [handle EXCEPT ![n] = h]
        /\ allocated' = allocated \cup {n}
    /\ ret' = <<"AddHandle1", KEY_TRUE>>
    /\ UNCHANGED <<selfMutex, cur, checked>>

HandleManageAddHandle1(h) ==
    /\ Unlocked
    /\ \E n \in Nodes \ allocated :
        /\ next' = [next EXCEPT ![head] = n, ![n] = next[head]]
        /\ pre' = [c \in Cells |-> CASE c = n -> head
                                     [] c # n /\ c = next[head] -> n
                                     [] OTHER -> pre[c]]
        /\ handle' = [handle EXCEPT ![n] = h]
        /\ allocated' = allocated \cup {n}
    /\ ret' = <<"AddHandle1", KEY_TRUE>>
    /\ UNCHANGED <<selfMutex, cur, checked>>

(***************************************************************************)
(* The first node with this handle is unlinked and freed.  free leaves its *)
(* content in place, as far as anybody may still look at it.               *)
(***************************************************************************)
Unlink(n) ==
    /\ next' = [next EXCEPT ![pre[n]] = next[n], ![n] = NULL]
    /\ pre' = [c \in Cells |-> CASE c = n -> NULL
                                 [] c # n /\ c = next[n] -> pre[n]
                                 [] OTHER -> pre[c]]
    /\ allocated' = allocated \ {n}

HandleManageDelHandle(h) ==
    /\ Unlocked
    /\ LET n == FirstNode({h})
       IN  \/ /\ n # NULL
              /\ Unlink(n)
              /\ ret' = <<"DelHandle", KEY_TRUE>>
           \/ /\ n = NULL
              /\ ret' = <<"DelHandle", KEY_FALSE>>
              /\ UNCHANGED <<next, pre, allocated>>
    /\ UNCHANGED <<handle, selfMutex, cur, checked>>

(***************************************************************************)
(* HandleManageGetNextHandle: the test without the mutex, and the rest of  *)
(* the call of a thread whose test found a node.                           *)
(***************************************************************************)
GetNextHandleChecks(t) ==
    /\ t \notin checked
    /\ selfMutex # t
    /\ \/ /\ next[head] = NULL
          /\ ret' = <<"GetNextHandle", NULL>>
          /\ UNCHANGED checked
       \/ /\ next[head] # NULL
          /\ checked' = checked \cup {t}
          /\ UNCHANGED ret
    /\ UNCHANGED <<next, pre, handle, allocated, selfMutex, cur>>

HandleManageGetNextHandle(t) ==
    /\ Unlocked
    /\ t \in checked
    /\ checked' = checked \ {t}
    /\ ret' = <<"GetNextHandle",
                IF next[head] = NULL THEN NULL ELSE handle[next[head]]>>
    /\ UNCHANGED <<next, pre, handle, allocated, selfMutex, cur>>

\* The loop counts the steps from the head until there is no next node.
HandleManageGetUsrCount ==
    /\ Unlocked
    /\ ret' = <<"GetUsrCount", Length>>
    /\ UNCHANGED <<next, pre, handle, allocated, selfMutex, cur, checked>>

\* The macros HandleManageGetHandleByInt and HandleManageGetHandleByStr.
HandleManageGetHandleBy(v) ==
    /\ Unlocked
    /\ LET n == FirstNode({h \in Handles : Member[h] = v})
       IN  ret' = <<"GetHandleBy", IF n = NULL THEN NULL ELSE handle[n]>>
    /\ UNCHANGED <<next, pre, handle, allocated, selfMutex, cur, checked>>

(***************************************************************************)
(* HandleManagePostLoop: the mutex is taken, the function is called for    *)
(* one node after the other, the mutex is given back.                      *)
(***************************************************************************)
PostLoopBegins(t) ==
    /\ Unlocked
    /\ t \notin checked
    /\ selfMutex' = t
    /\ cur' = next[head]
    /\ UNCHANGED <<next, pre, handle, allocated, checked, ret>>

PostLoopCalls(t) ==
    /\ selfMutex = t
    /\ cur # NULL
    /\ ret' = <<"LoopDoFunc", handle[cur]>>
    /\ cur' = next[cur]
    /\ UNCHANGED <<next, pre, handle, allocated, selfMutex, checked>>

\* Mutant: the mutex is not given back.
Mut_PostLoopEnds(t) ==
    /\ selfMutex = t
    /\ cur = NULL
    /\ ret' = <<"PostLoop", KEY_TRUE>>
    /\ UNCHANGED <<next, pre, handle, allocated, selfMutex, cur, checked>>

PostLoopEnds(t) ==
    /\ selfMutex = t
    /\ cur = NULL
    /\ selfMutex' = NULL
    /\ ret' = <<"PostLoop", KEY_TRUE>>
    /\ UNCHANGED <<next, pre, handle, allocated, cur, checked>>
-----------------------------------------------------------------------------
Next ==
    \/ \E h \in Handles : \/ HandleManageAddHandle(h)
                          \/ HandleManageAddHandle1(h)
                          \/ HandleManageDelHandle(h)
    \/ HandleManageGetUsrCount
    \/ \E v \in Values : HandleManageGetHandleBy(v)
    \/ \E t \in Threads : \/ GetNextHandleChecks(t)
                          \/ HandleManageGetNextHandle(t)
                          \/ PostLoopBegins(t)
                          \/ PostLoopCalls(t)
                          \/ PostLoopEnds(t)

Spec == Init /\ [][Next]_vars

\* A thread that has begun a loop goes on with it.
FairSpec ==
    Spec /\ \A t \in Threads : WF_vars(PostLoopCalls(t) \/ PostLoopEnds(t))
-----------------------------------------------------------------------------
(***************************************************************************)
(* The nodes in use are exactly the ones a walk along next meets, the walk *)
(* ends, and pre leads back from each of them to the cell before it: after *)
(* any sequence of insertions at both ends and deletions at any place no   *)
(* node is lost, freed twice or reached after its free.  A running         *)
(* HandleManagePostLoop stands on a node that is in the list.              *)
(***************************************************************************)
WellLinked ==
    /\ TypeOK
    /\ Length = Cardinality(allocated)
    /\ {Order[i] : i \in 1 .. Length} = allocated
    /\ next[LastCell] = NULL
    /\ \A i \in 1 .. Length :
        pre[Order[i]] = IF i = 1 THEN head ELSE Order[i - 1]
    /\ selfMutex # NULL /\ cur # NULL => \E i \in 1 .. Length : Order[i] = cur

(***************************************************************************)
(* The list of nodes behaves like the sequence of handles that callers     *)
(* think of: HandleManage implements HandleList.                           *)
(***************************************************************************)
Abstraction == INSTANCE HandleList WITH
    list <- [i \in 1 .. Length |-> handle[Order[i]]],
    left <- IF cur = NULL THEN <<>>
            ELSE LET at == CHOOSE i \in 1 .. Length : Order[i] = cur
                 IN  [i \in 1 .. Length - at + 1 |-> handle[Order[at + i - 1]]],
    looping <- selfMutex # NULL,
    MaxCount <- Cardinality(Nodes)

ImplementsHandleList == Abstraction!Spec

(***************************************************************************)
(* A HandleManagePostLoop whose function returns comes to its end and      *)
(* gives the mutex back: the chain it follows does not close on itself.    *)
(***************************************************************************)
LoopsEnd == selfMutex # NULL ~> selfMutex = NULL
=============================================================================
