------------------------------ MODULE DvrListConf ------------------------------
(***************************************************************************)
(* Modules/HkSdkManage/hklistconf.c: the list of DVRs and the two levels   *)
(* of alarms, kept in the configuration.  A call takes a copy of the item, *)
(* changes the copy and stores it, and holds no mutex from one to the      *)
(* other.  HksdkDeviceAdd, HksdkDeviceListSet and HksdkDeviceDel of        *)
(* hkManage.c make the calls: the main thread at the start, for a DVR      *)
(* whose address is part of the program, and the servers' threads later.   *)
(*                                                                         *)
(* Before these three call, they look the DVR up in lists that hold the    *)
(* addresses of variables of a function that has returned, so the lookup   *)
(* may find the DVR or not: a request reaches the configuration or does    *)
(* nothing.                                                                *)
(***************************************************************************)
EXTENDS ConfigManage, Naturals, Sequences, FiniteSets, SequencesExt

CONSTANTS
    Dvrs,            \* serial numbers of DVRs
    HomeDvr,         \* the DVR that HksdkApiInit adds at each start
    Params,          \* what else is kept of a DVR
    HomeParam,       \* what HksdkApiInit gives for HomeDvr
    Levels,          \* levels of alarms (smoke and high temperature)
    FirstLevel,      \* the levels of HkDeviceAlarmConfigDefault
    Main,            \* the main thread
    NET_DVR_MAX_LEN, \* DVRs that the array of a call has room for
    MaxCalls,        \* bound: requests
    MaxDeaths        \* bound: deaths of the process

D_CONFDVRLIST_STR == "ConfDvrList"
D_CONFDEVVICEALARMLEAVE_STR == "ConfDeviceAlarmLeave"

DvrItems == {D_CONFDVRLIST_STR, D_CONFDEVVICEALARMLEAVE_STR}
Entries == [serial : Dvrs, param : Params]
NoParam == NoItem

Serials(list) == {list[n].serial : n \in DOMAIN list}
Index(list, d) == CHOOSE n \in DOMAIN list : list[n].serial = d

\* More DVRs than the array has room for would be written past its end.  Each
\* DVR is in the list that is shipped at most once; no levels are shipped.
ASSUME DvrAssumption ==
    /\ DvrItems \subseteq Keys
    /\ HomeDvr \in Dvrs /\ HomeParam \in Params /\ NoParam \notin Params
    /\ IsFiniteSet(Dvrs) /\ Cardinality(Dvrs) \leq NET_DVR_MAX_LEN
    /\ D_CONFDEVVICEALARMLEAVE_STR \notin Dvrs
    /\ FirstLevel \in Levels /\ Levels \subseteq Values
    /\ \A n \in 0 .. Cardinality(Dvrs) : [1 .. n -> Entries] \subseteq Values
    /\ NoItem \notin Values
    /\ Main \in Threads
    /\ NET_DVR_MAX_LEN \in Nat /\ MaxCalls \in Nat /\ MaxDeaths \in Nat
    /\ FirstDoc[D_CONFDVRLIST_STR] \in Seq(Entries)
    /\ \A m, n \in DOMAIN FirstDoc[D_CONFDVRLIST_STR] :
           FirstDoc[D_CONFDVRLIST_STR][m].serial = FirstDoc[D_CONFDVRLIST_STR][n].serial => m = n
    /\ FirstDoc[D_CONFDEVVICEALARMLEAVE_STR] = NoItem

\* What a call says: the new parameters of a DVR, the new levels, or nothing.
Say(x, p) == [y \in {x} |-> p]
Nothing == [y \in {} |-> NoItem]
Updated(s, said) == [y \in DOMAIN s |-> IF y \in DOMAIN said THEN said[y] ELSE s[y]]

\* The call a thread is in: the item it is about, the value it will store, and
\* what it says when it returns.
NoCall == [key |-> NoItem, value |-> NoItem, said |-> Nothing]

VARIABLES
    pc,       \* what a thread does next
    call,     \* the call that a thread is in
    calls,    \* requests so far
    deaths,   \* deaths of the process so far
    says,     \* history: what the calls that returned say of DVRs and levels
    mishap,   \* history: the items two calls were changing at the same time, or
              \*          that a call left alone since its array held a stale DVR
    lost      \* history: the process died while the file was broken

histVars == <<says, mishap, lost>>
vars == <<confVars, pc, call, calls, deaths, histVars>>

List == root[D_CONFDVRLIST_STR]
Topics == Dvrs \cup {D_CONFDEVVICEALARMLEAVE_STR}

TypeOK ==
    /\ ConfTypeOK
    /\ pc \in [Threads -> {"idle", "boot", "set", "write"}]
    /\ \A t \in Threads : pc[t] = "write" <=> confMutex = t
    /\ \A t \in Threads : pc[t] \in {"set", "write"} => call[t].value \in Values \cup {NoItem}
    /\ ~up => pc = [t \in Threads |-> "idle"]
    /\ says \in [Topics -> Params \cup Levels \cup {NoItem}]
    /\ mishap \subseteq Keys
    /\ lost \in BOOLEAN

\* The file that is shipped has a list of DVRs and no levels of alarms.
Init ==
    /\ ConfInit
    /\ pc = [[t \in Threads |-> "idle"] EXCEPT ![Main] = "boot"]
    /\ call = [t \in Threads |-> NoCall]
    /\ calls = 0
    /\ deaths = 0
    /\ says = [d \in Topics |-> LET list == FirstDoc[D_CONFDVRLIST_STR]
                                IN  IF d \in Serials(list)
                                    THEN list[Index(list, d)].param ELSE NoItem]
    /\ mishap = {}
    /\ lost = FALSE
-----------------------------------------------------------------------------
\* Threads that are changing the item k.
Changing(k) == {t \in Threads : pc[t] \in {"set", "write"} /\ call[t].key = k}

\* The end of the process, of whatever cause.
Death ==
    /\ deaths < MaxDeaths
    /\ deaths' = deaths + 1
    /\ pc' = [t \in Threads |-> "idle"]
    /\ call' = [t \in Threads |-> NoCall]
    /\ IF file = Broken
       THEN says' = [d \in Topics |-> NoItem] /\ lost' = TRUE
       ELSE UNCHANGED <<says, lost>>
    /\ UNCHANGED mishap

\* A thread has a changed copy of item k.  stale: its array held a DVR that is
\* not in the list.  said: what the call will say when it returns.
Changed(t, k, v, stale, said) ==
    /\ pc' = [pc EXCEPT ![t] = "set"]
    /\ call' = [call EXCEPT ![t] = [key |-> k, value |-> v, said |-> said]]
    /\ mishap' = IF stale \/ Changing(k) # {} THEN mishap \cup {k} ELSE mishap
    /\ UNCHANGED <<confVars, deaths, says, lost>>

\* A bug: the list is not searched before the DVR is added to it.
Mut_HkDvrListConfigAdd(t, d, p) ==
    /\ MayLock
    /\ \/ List = NoItem /\ Dies /\ Death
       \/ /\ List # NoItem
          /\ Len(List) < NET_DVR_MAX_LEN
          /\ Changed(t, D_CONFDVRLIST_STR, Append(List, [serial |-> d, param |-> p]),
                     FALSE, Say(d, p))

\* A bug: a list that is not there is taken for an empty one.
Mut_AddToNoList(t, d, p) ==
    LET list == IF List = NoItem THEN << >> ELSE List
    IN  /\ MayLock
        /\ d \notin Serials(list)
        /\ Changed(t, D_CONFDVRLIST_STR, Append(list, [serial |-> d, param |-> p]),
                   FALSE, Say(d, p))

(***************************************************************************)
(* HkDvrListConfigAdd: the DVR's entry is replaced or, when none is found, *)
(* appended.  The search runs over all of an array of which only the first *)
(* places were filled; behind them lies what an earlier call left on the   *)
(* stack, maybe an entry of this DVR.  There is nothing at that place to   *)
(* replace, and the list is stored as it was.  A list that is not there is *)
(* dereferenced, which ends the process.                                   *)
(***************************************************************************)
HkDvrListConfigAdd(t, d, p) ==
    LET entry == [serial |-> d, param |-> p]
    IN  /\ MayLock
        /\ \/ List = NoItem /\ Dies /\ Death
           \/ /\ List # NoItem
              /\ IF d \in Serials(List)
                 THEN Changed(t, D_CONFDVRLIST_STR,
                              ReplaceAt(List, Index(List, d), entry), FALSE, Say(d, p))
                 ELSE \/ Changed(t, D_CONFDVRLIST_STR, Append(List, entry), FALSE, Say(d, p))
                      \/ /\ Len(List) < NET_DVR_MAX_LEN
                         /\ Changed(t, D_CONFDVRLIST_STR, List, TRUE, Say(d, p))

\* A bug: the search stops at the first entry, whatever it is.
Mut_HkDvrListConfigSet(t, d, p) ==
    /\ MayLock
    /\ List # NoItem /\ List # << >>
    /\ Changed(t, D_CONFDVRLIST_STR, ReplaceAt(List, 1, [serial |-> d, param |-> p]),
               FALSE, Say(d, p))

\* HkDvrListConfigSet: an entry that is not found is not replaced.
HkDvrListConfigSet(t, d, p) ==
    /\ MayLock
    /\ \/ List = NoItem /\ Dies /\ Death
       \/ /\ List # NoItem /\ d \in Serials(List)
          /\ Changed(t, D_CONFDVRLIST_STR,
                     ReplaceAt(List, Index(List, d), [serial |-> d, param |-> p]),
                     FALSE, Say(d, p))
       \/ /\ List # NoItem /\ d \notin Serials(List)
          /\ Changed(t, D_CONFDVRLIST_STR, List, FALSE, Nothing)

\* HkDvrListConfigDel: nothing is deleted from behind the end of the list.
HkDvrListConfigDel(t, d) ==
    /\ MayLock
    /\ \/ List = NoItem /\ Dies /\ Death
       \/ /\ List # NoItem /\ d \in Serials(List)
          /\ Changed(t, D_CONFDVRLIST_STR, RemoveAt(List, Index(List, d)),
                     FALSE, Say(d, NoParam))
       \/ /\ List # NoItem /\ d \notin Serials(List)
          /\ Changed(t, D_CONFDVRLIST_STR, List, FALSE, Nothing)

\* HkDeviceAlarmConfigGet: levels that are not there are set to the default.
HkDeviceAlarmConfigGet(t) ==
    /\ MayLock
    /\ ConfigManageGet(D_CONFDEVVICEALARMLEAVE_STR) = NoItem
    /\ Changed(t, D_CONFDEVVICEALARMLEAVE_STR, FirstLevel, FALSE, Nothing)

\* HkDeviceAlarmConfigSet: levels that are not there cannot be set, although
\* HKsdkDeviceAlarmSet answers KEY_TRUE.
HkDeviceAlarmConfigSet(t, lev) ==
    /\ MayLock
    /\ ConfigManageGet(D_CONFDEVVICEALARMLEAVE_STR) # NoItem
    /\ Changed(t, D_CONFDEVVICEALARMLEAVE_STR, lev, FALSE,
               Say(D_CONFDEVVICEALARMLEAVE_STR, lev))

\* The servers are started after HksdkApiInit.
Request(t) ==
    /\ pc[Main] = "idle" /\ t # Main /\ pc[t] = "idle"
    /\ calls < MaxCalls
    /\ calls' = calls + 1
    /\ \/ \E d \in Dvrs, p \in Params : \/ HkDvrListConfigAdd(t, d, p)
                                        \/ HkDvrListConfigSet(t, d, p)
       \/ \E d \in Dvrs : HkDvrListConfigDel(t, d)
       \/ HkDeviceAlarmConfigGet(t)
       \/ \E lev \in Levels : HkDeviceAlarmConfigSet(t, lev)

\* The main thread adds HomeDvr, or cannot log into it.
HksdkApiInit ==
    /\ pc[Main] = "boot"
    /\ \/ /\ HkDvrListConfigAdd(Main, HomeDvr, HomeParam)
       \/ /\ pc' = [pc EXCEPT ![Main] = "idle"]
          /\ UNCHANGED <<confVars, call, deaths, histVars>>
    /\ UNCHANGED calls

\* ConfigManageSet of the changed copy, in two steps.
StoreBegins(t) ==
    /\ pc[t] = "set"
    /\ SetBegins(t, call[t].key, call[t].value)
    /\ pc' = [pc EXCEPT ![t] = "write"]
    /\ UNCHANGED <<call, calls, deaths, histVars>>

StoreEnds(t) ==
    /\ pc[t] = "write"
    /\ SetEnds(t)
    /\ pc' = [pc EXCEPT ![t] = "idle"]
    /\ call' = [call EXCEPT ![t] = NoCall]
    /\ says' = Updated(says, call[t].said)
    /\ UNCHANGED <<calls, deaths, mishap, lost>>

AssertFails(t) == pc[t] = "set" /\ OpenFails /\ Death /\ UNCHANGED calls

Crash == Dies /\ Death /\ UNCHANGED calls

Restart ==
    /\ ConfigManageInit
    /\ pc' = [pc EXCEPT ![Main] = "boot"]
    /\ UNCHANGED <<call, calls, deaths, histVars>>

Next ==
    \/ \E t \in Threads : Request(t) \/ StoreBegins(t) \/ StoreEnds(t) \/ AssertFails(t)
    \/ HksdkApiInit
    \/ Crash
    \/ Restart

Spec == Init /\ [][Next]_vars
-----------------------------------------------------------------------------
(***************************************************************************)
(* No DVR is in the stored list twice, however calls mix: a call appends   *)
(* an entry to a list in which it has not found the DVR, and what it       *)
(* stores is that list and not one that has changed since.                 *)
(***************************************************************************)
SerialsUnique ==
    /\ TypeOK
    /\ List # NoItem => Cardinality(Serials(List)) = Len(List)

\* The value v of the item k is what s says of it.
Told(k, v, s) ==
    IF k = D_CONFDVRLIST_STR
    THEN \A d \in Dvrs : s[d] = IF v # NoItem /\ d \in Serials(v)
                                THEN v[Index(v, d)].param ELSE NoParam
    ELSE s[D_CONFDEVVICEALARMLEAVE_STR] # NoItem => v = s[D_CONFDEVVICEALARMLEAVE_STR]

(***************************************************************************)
(* The stored list is what the calls that returned KEY_TRUE say it is,     *)
(* over deaths and starts, with two exceptions: two calls were changing    *)
(* the list at the same time, and one of the changes is lost; or a call    *)
(* found its DVR in the part of the array that it had not filled.  The     *)
(* levels that were set stay, unless calls mixed: a first reading that     *)
(* found none may store the default over levels that were set meanwhile.   *)
(***************************************************************************)
StoredAsCalled ==
    up /\ confMutex = NoThread => \A k \in DvrItems \ mishap : Told(k, root[k], says)

(***************************************************************************)
(* Nothing but a death while the file is not whole takes the list away,    *)
(* and a list that was lost never comes back.  HkDvrListConfigDefault could*)
(* make a new one, but only HkDvrListConfigGet calls it, which nobody      *)
(* calls; so each start that can log into HomeDvr ends the process again.  *)
(***************************************************************************)
ListNeverReturns == up => (List = NoItem <=> lost)
=============================================================================
