------------------------------ MODULE AdpSession ------------------------------
(***************************************************************************)
(* Sessions of clients: Adp/adpapi.c and App/JsonAPI/jsonswitch.c.         *)
(*                                                                         *)
(* A login allocates a handle, registers it with Adp under a new id and    *)
(* puts it into the list of JsonAPI; a request names the id, JsonSwitch    *)
(* looks the handle up and runs the request with it; a logout undoes the   *)
(* registration, takes the handle off the list and frees it.  The thread   *)
(* of the HTTP server and the one of the MQTT client do this at the same   *)
(* time.  Each list has a mutex that is held during one walk of it; only   *)
(* parts of login and logout are under g_JsonApi.selfMutex, requests are   *)
(* not.                                                                    *)
(*                                                                         *)
(* The process is undefined from the first use of freed memory or of NULL  *)
(* on; it goes no further in the model.  A login that is refused leaves    *)
(* nothing behind and is not an action.                                    *)
(***************************************************************************)
EXTENDS Integers, Sequences, SequencesExt

CONSTANTS
    Threads,    \* threads that call JsonSwitch
    Levels,     \* levels of users
    InnerLevel, \* the level of INNER_USER_NAME
    ID_MAX,     \* ids count from 0 to ID_MAX - 1 (10000)
    MaxLogins,  \* bound: logins
    MaxCalls    \* bound: requests and logouts

NULL == 0

ASSUME AdpAssumption ==
    /\ NULL \notin Threads
    /\ Levels \subseteq 1 .. 4 /\ InnerLevel \in Levels
    /\ ID_MAX \in Nat \ {0, 1}
    /\ MaxLogins \in Nat /\ MaxCalls \in Nat

\* innerHandle is static memory of JsonAPI; the others are allocated by logins.
innerHandle == 1
Handles == innerHandle .. innerHandle + MaxLogins

\* (userLevel << 16) | n as a pair.
UsrID(level, n) == <<level, n>>
NoUsrID == UsrID(0, 0)
UsrIDs == (Levels \cup {0}) \X (0 .. ID_MAX - 1)

\* The variables of JsonSwitch and what it calls.  handle: the handle; who: the
\* session whose client sent the request; level: of the user who logs in; n: the
\* counter as it was read; id: the id that the registration is looked up with;
\* usr: the registration that was found.
NoLocal == [handle |-> NULL, who |-> NULL, level |-> 0, n |-> 0, id |-> NoUsrID,
            usr |-> NULL]

VARIABLES
    usrID,      \* the static variable of MakeUsrID
    registHead, \* AdpGetListUsrRegistHead(): registrations, by their handles
    listHead,   \* g_JsonApi.listHead: the handles of sessions
    handleID,   \* usrID of each handle
    allocated,  \* handles that are allocated
    selfMutex,  \* the thread that holds g_JsonApi.selfMutex
    pc,         \* what a thread does next
    local,      \* the variables of a thread
    granted,    \* the id that the client of a session was given
    logins,     \* logins so far
    calls,      \* requests and logouts so far
    fault,      \* the handle whose memory, or registration, was used when gone
    overlapped, \* history: handles that a logout and another call had at once
    shared,     \* history: a registration was added with an id that another, or a
                \* request under way, had
    raced,      \* history: two logins were in MakeUsrID at the same time
    wrapped     \* history: the counter has started again at 0

memory == <<usrID, registHead, listHead, handleID, allocated, selfMutex>>
histVars == <<overlapped, shared, raced, wrapped>>
vars == <<memory, pc, local, granted, logins, calls, fault, histVars>>

Labels == {"idle", "load", "store", "regist", "list",      \* login
           "fun", "find", "use",                           \* request
           "unregist", "del", "free"}                      \* logout

TypeOK ==
    /\ usrID \in 0 .. ID_MAX - 1
    /\ ToSet(registHead) \cup ToSet(listHead) \cup allocated \subseteq Handles
    /\ handleID \in [Handles -> UsrIDs] /\ granted \in [Handles -> UsrIDs]
    /\ selfMutex \in Threads \cup {NULL}
    /\ \A t \in Threads : selfMutex = t <=> pc[t] = "del"
    /\ pc \in [Threads -> Labels]
    /\ logins \in 0 .. MaxLogins /\ calls \in 0 .. MaxCalls
    /\ fault \in Handles \cup {NULL}
    /\ overlapped \subseteq Handles
    /\ {shared, raced, wrapped} \subseteq BOOLEAN

\* JsonApiInit has registered its own handle.
Init ==
    /\ usrID = 1
    /\ registHead = <<innerHandle>>
    /\ listHead = << >>
    /\ handleID = [h \in Handles |-> IF h = innerHandle THEN UsrID(InnerLevel, 1)
                                     ELSE NoUsrID]
    /\ allocated = {innerHandle}
    /\ selfMutex = NULL
    /\ pc = [t \in Threads |-> "idle"]
    /\ local = [t \in Threads |-> NoLocal]
    /\ granted = [h \in Handles |-> NoUsrID]
    /\ logins = 0
    /\ calls = 0
    /\ fault = NULL
    /\ overlapped = {}
    /\ shared = FALSE
    /\ raced = FALSE
    /\ wrapped = FALSE
-----------------------------------------------------------------------------
\* A bug: only the level of an id is compared.
Mut_GetHandleByInt(list, id) ==
    LET found == {k \in DOMAIN list : handleID[list[k]][1] = id[1]}
    IN  IF found = {} THEN NULL ELSE list[CHOOSE k \in found : \A m \in found : k \leq m]

\* HandleManageGetHandleByInt: the first element of a list that has the id.
GetHandleByInt(list, id) ==
    LET found == {k \in DOMAIN list : handleID[list[k]] = id}
    IN  IF found = {} THEN NULL ELSE list[CHOOSE k \in found : \A m \in found : k \leq m]

\* The freed handles that the walk reads before it is at its end.
FreedOnWalk(list, id) ==
    {list[k] : k \in {m \in DOMAIN list :
        /\ list[m] \notin allocated
        /\ \A j \in 1 .. m - 1 : handleID[list[j]] # id}}

Fault(h) ==
    /\ fault' = h
    /\ UNCHANGED <<memory, pc, local, granted, logins, calls, histVars>>

Goto(t, label) == pc' = [pc EXCEPT ![t] = label]

InMakeUsrID(t) == pc[t] \in {"load", "store", "regist"}
Calling(h) == {t \in Threads : pc[t] \in {"fun", "find", "use", "unregist", "del", "free"}
                               /\ local[t].handle = h}

\* JsonSwitch and FunLogin: the handle is allocated, the user may log in.
FunLogin(t, level) ==
    /\ pc[t] = "idle"
    /\ logins < MaxLogins
    /\ logins' = logins + 1
    /\ allocated' = allocated \cup {innerHandle + logins'}
    /\ local' = [local EXCEPT ![t] = [NoLocal EXCEPT !.handle = innerHandle + logins',
                                                     !.level = level]]
    /\ Goto(t, "load")
    /\ raced' = (raced \/ \E u \in Threads : InMakeUsrID(u))
    /\ UNCHANGED <<usrID, registHead, listHead, handleID, selfMutex, granted, calls,
                   fault, overlapped, shared, wrapped>>

(***************************************************************************)
(* MakeUsrID has no mutex: the counter is read, written, and read again.   *)
(* The number ID_MAX, which the counter is for a moment before % is taken, *)
(* counts as 0.                                                            *)
(***************************************************************************)
ReadCounter(t) ==
    /\ pc[t] = "load"
    /\ local' = [local EXCEPT ![t].n = usrID]
    /\ Goto(t, "store")
    /\ UNCHANGED <<memory, granted, logins, calls, fault, histVars>>

\* The search for a handle that has the new number as its whole id finds none,
\* since the level is a part of each id; it reads all handles on its way.
WriteCounter(t) ==
    LET n == (local[t].n + 1) % ID_MAX
    IN  /\ pc[t] = "store"
        /\ \/ /\ FreedOnWalk(registHead, UsrID(0, n)) = {}
              /\ usrID' = n
              /\ wrapped' = (wrapped \/ n = 0)
              /\ Goto(t, "regist")
              /\ UNCHANGED <<registHead, listHead, handleID, allocated, selfMutex, local,
                             granted, logins, calls, fault, overlapped, shared, raced>>
           \/ \E h \in FreedOnWalk(registHead, UsrID(0, n)) : Fault(h)

\* AdpRegistHandle: the handle gets the id and the registration is added.
AdpRegistHandle(t) ==
    LET id == UsrID(local[t].level, usrID)
    IN  /\ pc[t] = "regist"
        /\ handleID' = [handleID EXCEPT ![local[t].handle] = id]
        /\ registHead' = Append(registHead, local[t].handle)
        /\ shared' = (\/ shared
                      \/ \E h \in ToSet(registHead) : handleID[h] = id
                      \/ \E u \in Threads : pc[u] = "find" /\ local[u].id = id)
        /\ Goto(t, "list")
        /\ UNCHANGED <<usrID, listHead, allocated, selfMutex, local, granted, logins,
                       calls, fault, overlapped, raced, wrapped>>

\* FunLogin: the handle is put into the list, and the client is told the id.
AddToList(t) ==
    LET h == local[t].handle
    IN  /\ pc[t] = "list"
        /\ selfMutex = NULL
        /\ listHead' = Append(listHead, h)
        /\ granted' = [granted EXCEPT ![h] = handleID[h]]
        /\ local' = [local EXCEPT ![t] = NoLocal]
        /\ Goto(t, "idle")
        /\ UNCHANGED <<usrID, registHead, handleID, allocated, selfMutex, logins, calls,
                       fault, histVars>>
-----------------------------------------------------------------------------
(***************************************************************************)
(* JsonSwitch: the handle is looked up by the id that the client of the    *)
(* session who sends, or by 0 for a request without an id.  A request that *)
(* finds none is refused.  next: what is run with the handle.              *)
(***************************************************************************)
JsonSwitch(t, who, next) ==
    LET id == IF who = NULL THEN NoUsrID ELSE granted[who]
        h == GetHandleByInt(listHead, id)
    IN  /\ pc[t] = "idle"
        /\ who # NULL => id # NoUsrID
        /\ h # NULL
        /\ calls < MaxCalls
        /\ calls' = calls + 1
        /\ local' = [local EXCEPT ![t] = [NoLocal EXCEPT !.handle = h, !.who = who]]
        /\ Goto(t, next)
        /\ overlapped' =
             IF \E u \in Calling(h) : next = "unregist"
                                      \/ pc[u] \in {"unregist", "del", "free"}
             THEN overlapped \cup {h} ELSE overlapped
        /\ UNCHANGED <<memory, granted, logins, fault, shared, raced, wrapped>>

Return(t) ==
    /\ Goto(t, "idle")
    /\ local' = [local EXCEPT ![t] = NoLocal]

\* A request that does not ask who the user is calls a module and returns; one
\* with a handle that was just reset gets KEY_FALSE; the others pass the id on.
Fun(t) ==
    LET h == local[t].handle
    IN  /\ pc[t] = "fun"
        /\ \/ h \notin allocated /\ Fault(h)
           \/ /\ h \in allocated
              /\ Return(t)
              /\ UNCHANGED <<memory, granted, logins, calls, fault, histVars>>
           \/ /\ h \in allocated /\ handleID[h] # NoUsrID
              /\ local' = [local EXCEPT ![t].id = handleID[h]]
              /\ Goto(t, "find")
              /\ UNCHANGED <<memory, granted, logins, calls, fault, histVars>>

\* GetUsrRegistInfo: nobody looks whether the registration was found.
GetUsrRegistInfo(t) ==
    LET usr == GetHandleByInt(registHead, local[t].id)
    IN  /\ pc[t] = "find"
        /\ \/ \E g \in FreedOnWalk(registHead, local[t].id) : Fault(g)
           \/ usr = NULL /\ Fault(local[t].handle)
           \/ /\ FreedOnWalk(registHead, local[t].id) = {} /\ usr # NULL
              /\ local' = [local EXCEPT ![t].usr = usr]
              /\ Goto(t, "use")
              /\ UNCHANGED <<memory, granted, logins, calls, fault, histVars>>

\* ModifyPassword and its like use the registration; a logout may have freed it.
UseRegistInfo(t) ==
    /\ pc[t] = "use"
    /\ \/ local[t].usr \notin ToSet(registHead) /\ Fault(local[t].usr)
       \/ /\ local[t].usr \in ToSet(registHead)
          /\ Return(t)
          /\ UNCHANGED <<memory, granted, logins, calls, fault, histVars>>
-----------------------------------------------------------------------------
\* A bug: the registration stays in the list of Adp.
Mut_AdpUnRegistHandle(t) ==
    LET h == local[t].handle
    IN  /\ pc[t] = "unregist"
        /\ selfMutex = NULL
        /\ h \in allocated
        /\ selfMutex' = t
        /\ handleID' = [handleID EXCEPT ![h] = NoUsrID]
        /\ Goto(t, "del")
        /\ UNCHANGED <<usrID, registHead, listHead, allocated, local, granted, logins,
                       calls, fault, histVars>>

\* FunLoginOut takes the mutex; AdpUnRegistHandle removes the registration that
\* has the id of the handle and resets the handle.
AdpUnRegistHandle(t) ==
    LET h == local[t].handle
        usr == GetHandleByInt(registHead, handleID[h])
    IN  /\ pc[t] = "unregist"
        /\ selfMutex = NULL
        /\ \/ h \notin allocated /\ Fault(h)
           \/ \E g \in FreedOnWalk(registHead, handleID[h]) : Fault(g)
           \/ /\ h \in allocated /\ FreedOnWalk(registHead, handleID[h]) = {}
              /\ selfMutex' = t
              /\ IF usr = NULL
                 THEN UNCHANGED <<registHead, handleID>>
                 ELSE /\ registHead' = RemoveFirst(registHead, usr)
                      /\ handleID' = [handleID EXCEPT ![h] = NoUsrID]
              /\ Goto(t, "del")
              /\ UNCHANGED <<usrID, listHead, allocated, local, granted, logins, calls,
                             fault, histVars>>

\* A bug: the handle is freed and stays in the list.
Mut_KeepInList(t) ==
    /\ pc[t] = "del"
    /\ selfMutex' = NULL
    /\ Goto(t, "free")
    /\ UNCHANGED <<usrID, registHead, listHead, handleID, allocated, local, granted, logins,
                   calls, fault, histVars>>

\* FunLoginOut: the handle is taken off the list and the mutex released.
DelHandle(t) ==
    LET h == local[t].handle
    IN  /\ pc[t] = "del"
        /\ selfMutex' = NULL
        /\ IF h \in ToSet(listHead)
           THEN /\ listHead' = RemoveFirst(listHead, h)
                /\ Goto(t, "free") /\ UNCHANGED local
           ELSE Return(t) /\ UNCHANGED listHead
        /\ UNCHANGED <<usrID, registHead, handleID, allocated, granted, logins, calls,
                       fault, histVars>>

\* FunLoginOut: MyFree(handle).
FreeHandle(t) ==
    LET h == local[t].handle
    IN  /\ pc[t] = "free"
        /\ allocated' = allocated \ {h}
        /\ Return(t)
        /\ UNCHANGED <<usrID, registHead, listHead, handleID, selfMutex, granted, logins,
                       calls, fault, histVars>>

Next ==
    /\ fault = NULL
    /\ \E t \in Threads :
        \/ \E level \in Levels : FunLogin(t, level)
        \/ ReadCounter(t) \/ WriteCounter(t) \/ AdpRegistHandle(t) \/ AddToList(t)
        \/ \E who \in Handles \cup {NULL}, next \in {"fun", "unregist"} :
               JsonSwitch(t, who, next)
        \/ Fun(t) \/ GetUsrRegistInfo(t) \/ UseRegistInfo(t)
        \/ AdpUnRegistHandle(t) \/ DelHandle(t) \/ FreeHandle(t)

Spec == Init /\ [][Next]_vars
-----------------------------------------------------------------------------
(***************************************************************************)
(* Freed memory, or a registration that is not there, is used only of a    *)
(* session that was logged out while another thread was running a call     *)
(* with its handle, or after two sessions, or a new session and a request  *)
(* of an old one, had the same id.  They have only after two logins were   *)
(* in MakeUsrID at once, or after the counter has started again: the       *)
(* search for an id that is in use, which is to prevent the latter, never  *)
(* finds any.                                                              *)
(***************************************************************************)
FaultsOnlyOnOverlap ==
    /\ fault # NULL => fault \in overlapped \/ shared
    /\ shared => raced \/ wrapped

(***************************************************************************)
(* A request runs with the handle of the session whose client sent it and  *)
(* with the registration of that handle; a request without an id never     *)
(* runs with a session that nobody is logging out.                         *)
(***************************************************************************)
RunsAsOwner ==
    \A t \in Threads :
        /\ pc[t] \in {"fun", "find", "use", "unregist"} =>
               \/ local[t].who = local[t].handle
               \/ local[t].who = NULL /\ local[t].handle \in overlapped
               \/ raced \/ wrapped
        /\ pc[t] = "use" => local[t].usr = local[t].handle \/ shared

(***************************************************************************)
(* No handle is in the list of JsonAPI, which all requests walk, after it  *)
(* was freed.  As long as ids differ the same holds of registrations, and  *)
(* each session in the list is registered until its logout has reset it.   *)
(***************************************************************************)
RegisteredIsAllocated ==
    /\ TypeOK
    /\ ToSet(listHead) \subseteq allocated
    /\ ~shared =>
        /\ ToSet(registHead) \subseteq allocated
        /\ \A h \in ToSet(listHead) : h \in ToSet(registHead) \/ handleID[h] = NoUsrID
=============================================================================
