------------------------------- MODULE UsrManage -------------------------------
(***************************************************************************)
(* Modules/UsrManage/usrmanage.c: the users of the server.  They are kept  *)
(* twice: in a list in memory that every request is checked against, and   *)
(* in a table of the data base from which the list is loaded at the start. *)
(*                                                                         *)
(* A call looks the user up, changes the block that it found and stores    *)
(* the change.  The list, each block and the data base have a mutex each,  *)
(* and a call holds one at a time, so the calls of several threads mix.    *)
(* The process may die at any moment.  Calls that only read the list are   *)
(* not actions; Authentication is an operator that properties use.         *)
(***************************************************************************)
EXTENDS Integers, Sequences, FiniteSets, SequencesExt

CONSTANTS
    Names,         \* user names
    DefaultUsrs,   \* the users that MysqlInitDefaultUsr puts into a new table
    Passwords,     \* passwords
    FirstPassword, \* the password of the default users
    Customs,       \* values of customname
    NoCustom,      \* the empty customname
    Levels,        \* the levels that requests name
    Workers,       \* the threads that serve requests
    MaxCalls,      \* bound: calls
    MaxCrashes     \* bound: deaths of the process

NoBlock == 0   \* NULL, where a block is looked for
Nobody == 0    \* no thread has the mutex
ENUM_USRLEVEL_Invalid == 0
ENUM_USRLEVEL_ROOT == 4

\* FunAddUser, the one caller of AddUsr, never asks for level 0.
ASSUME UsrAssumption ==
    /\ DefaultUsrs \subseteq Names /\ DefaultUsrs # {} /\ IsFiniteSet(Names)
    /\ FirstPassword \in Passwords /\ NoCustom \in Customs
    /\ Levels \subseteq ENUM_USRLEVEL_Invalid + 1 .. ENUM_USRLEVEL_ROOT
    /\ ENUM_USRLEVEL_ROOT \in Levels
    /\ Nobody \notin Workers
    /\ MaxCalls \in Nat /\ MaxCrashes \in Nat

NoPass == ""
Blocks == 1 .. Cardinality(Names) + MaxCalls

\* Ids count from 1000000; those of the default users lie below that.
Ids == -Cardinality(Names) .. MaxCalls

Rows == [passWord : Passwords, userLevel : Levels, usrID : Ids, customname : Customs]
NoRow == [passWord |-> NoPass, userLevel |-> ENUM_USRLEVEL_Invalid, usrID |-> 0,
          customname |-> NoCustom]

\* UsrInfo_T.  countrycode is kept and stored like customname, so it is left out.
UsrInfo(name, row) ==
    [usrname |-> name, passWord |-> row.passWord, userLevel |-> row.userLevel,
     usrID |-> row.usrID, customname |-> row.customname]
UsrInfos == [usrname : Names, passWord : Passwords, userLevel : Levels, usrID : Ids,
             customname : Customs]
NoInfo == UsrInfo("", NoRow)

RowOf(usr) == [passWord |-> usr.passWord, userLevel |-> usr.userLevel,
               usrID |-> usr.usrID, customname |-> usr.customname]

\* The variables of a call.  on: the users it works on; info: the block it has
\* found; usr: the UsrInfo_T it was given or has copied; old: the password it
\* compares or puts back; level: the level it puts back.
NoCall == [on |-> {}, info |-> NoBlock, usr |-> NoInfo, old |-> NoPass,
           level |-> ENUM_USRLEVEL_Invalid]

VARIABLES
    table,      \* the rows of the table, by their primary key UsrName
    up,         \* the process runs
    list,       \* the blocks in listHead, first one first
    usrInfo,    \* what the blocks hold
    usrMutex,   \* the thread that holds the mutex of a block, or Nobody
    lastId,     \* the static variable i of CreateUsrid
    pc,         \* what a thread does next
    local,      \* the variables of the call a thread is in
    calls,      \* calls so far
    crashes,    \* deaths of the process so far
    disturbed,  \* history: users that two calls worked on at a time, or for whom
                \*          a statement failed, since the process was started
    acked,      \* history: the password that a call which returned KEY_TRUE has
                \*          left a user with, until the next call for the user
    idRisk      \* history: an id may be there twice, since it was taken while
                \*          another thread had one that was not in the list yet,
                \*          or no more but still in the table, or since a default
                \*          user was renamed, who is put back at the next start

usrListVars == <<list, usrInfo, usrMutex>>
usrHistVars == <<disturbed, acked, idRisk>>
usrVars == <<table, up, usrListVars, lastId, pc, local, calls, crashes, usrHistVars>>

Labels == {"idle", "createid", "add", "addcb", "password", "memcpy", "restore",
           "compose", "setcb", "bind", "bindcb", "del", "delcb"}

InList == {list[k] : k \in DOMAIN list}

UsrTypeOK ==
    /\ table \in [Names -> Rows \cup {NoRow}]
    /\ up \in BOOLEAN
    /\ InList \subseteq Blocks
    /\ DOMAIN usrInfo = Blocks /\ \A b \in InList : usrInfo[b] \in UsrInfos
    /\ usrMutex \in [Blocks -> Workers \cup {Nobody}]
    /\ lastId \in 0 .. MaxCalls
    /\ pc \in [Workers -> Labels]
    /\ \A t \in Workers : /\ local[t].on \subseteq Names
                          /\ local[t].info \in Blocks \cup {NoBlock}
                          /\ local[t].usr \in UsrInfos \cup {NoInfo}
                          /\ local[t].old \in Passwords \cup {NoPass}
                          /\ local[t].level \in Levels \cup {ENUM_USRLEVEL_Invalid}
    /\ calls \in 0 .. MaxCalls
    /\ crashes \in 0 .. MaxCrashes
    /\ disturbed \subseteq Names
    /\ acked \in [Names -> Passwords \cup {NoPass}]
    /\ idRisk \in BOOLEAN

\* MySqlInit: the default users that are not in the table are inserted.
WithDefaults(stored, n) ==
    IF n \in DefaultUsrs /\ stored[n] = NoRow
    THEN [passWord |-> FirstPassword, userLevel |-> ENUM_USRLEVEL_ROOT,
          usrID |-> -(CHOOSE k \in DOMAIN SetToSeq(DefaultUsrs) :
                        SetToSeq(DefaultUsrs)[k] = n),
          customname |-> NoCustom]
    ELSE stored[n]

\* InitUsrList: a block for each row that has a valid level.
Loaded(stored) ==
    LET rows == SetToSeq({n \in Names : stored[n].userLevel > ENUM_USRLEVEL_Invalid})
    IN  [list |-> [k \in DOMAIN rows |-> k],
         usrInfo |-> [b \in Blocks |-> IF b \in DOMAIN rows
                                       THEN UsrInfo(rows[b], stored[rows[b]])
                                       ELSE NoInfo]]

UsrInit ==
    /\ table = [n \in Names |-> WithDefaults([m \in Names |-> NoRow], n)]
    /\ up = TRUE
    /\ list = Loaded(table).list
    /\ usrInfo = Loaded(table).usrInfo
    /\ usrMutex = [b \in Blocks |-> Nobody]
    /\ lastId = 0
    /\ pc = [t \in Workers |-> "idle"]
    /\ local = [t \in Workers |-> NoCall]
    /\ calls = 0
    /\ crashes = 0
    /\ disturbed = {}
    /\ acked = [n \in Names |-> NoPass]
    /\ idRisk = FALSE
-----------------------------------------------------------------------------
(***************************************************************************)
(* HandleManageGetHandleByStr and ...ByInt: the first block that matches.  *)
(***************************************************************************)
GetHandleByStr(usrname) ==
    LET found == {k \in DOMAIN list : usrInfo[list[k]].usrname = usrname}
    IN  IF found = {} THEN NoBlock ELSE list[CHOOSE k \in found : \A l \in found : k <= l]

GetHandleByInt(usrID) == {b \in InList : usrInfo[b].usrID = usrID}

Authentication(usrname, password) ==
    LET b == GetHandleByStr(usrname)
    IN  IF b # NoBlock /\ usrInfo[b].passWord = password
        THEN usrInfo[b].userLevel ELSE ENUM_USRLEVEL_Invalid

\* A thread begins a call for the users in on.
Begin(t, label, on, info, usr, old, level) ==
    /\ up
    /\ pc[t] = "idle"
    /\ calls < MaxCalls
    /\ calls' = calls + 1
    /\ pc' = [pc EXCEPT ![t] = label]
    /\ local' = [local EXCEPT ![t] = [on |-> on, info |-> info, usr |-> usr,
                                          old |-> old, level |-> level]]
    /\ LET others == {local[u].on : u \in Workers} \cup {disturbed}
       IN  disturbed' = disturbed \cup UNION {on \cup o : o \in {x \in others : x \cap on # {}}}
    /\ acked' = [n \in Names |-> IF n \in on THEN NoPass ELSE acked[n]]

\* The call goes on with what it has copied.
Continue(t, label, usr) ==
    /\ pc' = [pc EXCEPT ![t] = label]
    /\ local' = [local EXCEPT ![t].usr = usr]

\* The call returns KEY_FALSE before it has changed anything.
Refuse(t) ==
    /\ pc' = [pc EXCEPT ![t] = "idle"]
    /\ local' = [local EXCEPT ![t] = NoCall]
    /\ UNCHANGED <<disturbed, acked>>

\* The statement failed, and so does the call.
ReturnError(t) ==
    /\ pc' = [pc EXCEPT ![t] = "idle"]
    /\ local' = [local EXCEPT ![t] = NoCall]
    /\ disturbed' = disturbed \cup local[t].on
    /\ UNCHANGED acked

\* It returns KEY_TRUE, for the user it has stored.
ReturnTrue(t) ==
    /\ pc' = [pc EXCEPT ![t] = "idle"]
    /\ local' = [local EXCEPT ![t] = NoCall]
    /\ acked' = [acked EXCEPT ![local[t].usr.usrname] =
                    IF local[t].on \cap disturbed = {} THEN local[t].usr.passWord ELSE @]
    /\ UNCHANGED disturbed
-----------------------------------------------------------------------------
(***************************************************************************)
(* AddUsr, for a caller whose level is at least that of the new user.      *)
(* JsonMapUsrInfoPares leaves customname empty.                            *)
(***************************************************************************)
AddUsr(t, usrname, passWord, userLevel) ==
    /\ GetHandleByStr(usrname) = NoBlock
    /\ Begin(t, "createid", {usrname}, NoBlock,
             [usrname |-> usrname, passWord |-> passWord, userLevel |-> userLevel,
              usrID |-> 0, customname |-> NoCustom],
             NoPass, ENUM_USRLEVEL_Invalid)
    /\ UNCHANGED <<table, up, usrListVars, lastId, crashes, idRisk>>

\* malloc: a block that was freed while another call has its address, or the
\* first of the others, which are alike.
Malloc(t, usr) ==
    LET held == {local[u].info : u \in Workers}
        free == Blocks \ (InList \cup {local[u].info : u \in {v \in Workers : pc[v] = "add"}})
    IN  \E b \in free :
            /\ b \in held \/ \A c \in free \ held : b <= c
            /\ usrInfo' = [usrInfo EXCEPT ![b] = usr]
            /\ usrMutex' = [usrMutex EXCEPT ![b] = Nobody]
            /\ local' = [local EXCEPT ![t].info = b, ![t].usr = usr]

\* Mutant: the ids in the list are not looked at.
Mut_CreateUsrid(t) ==
    /\ pc[t] = "createid"
    /\ lastId' = lastId + 1
    /\ Malloc(t, [local[t].usr EXCEPT !.usrID = lastId])
    /\ pc' = [pc EXCEPT ![t] = "add"]
    /\ UNCHANGED <<table, up, list, calls, crashes, usrHistVars>>

\* The first id from lastId on that is not in the list.
CreateUsrid(t) ==
    /\ pc[t] = "createid"
    /\ lastId' = CHOOSE k \in lastId .. MaxCalls :
                    /\ GetHandleByInt(k) = {}
                    /\ \A l \in lastId .. k - 1 : GetHandleByInt(l) # {}
    /\ Malloc(t, [local[t].usr EXCEPT !.usrID = lastId'])
    /\ pc' = [pc EXCEPT ![t] = "add"]
    /\ idRisk' = (idRisk \/ \E u \in Workers : pc[u] \in {"add", "delcb"})
    /\ UNCHANGED <<table, up, list, calls, crashes, disturbed, acked>>

\* HandleManageAddHandle, which appends.
AddHandle(t) ==
    /\ pc[t] = "add"
    /\ list' = Append(list, local[t].info)
    /\ pc' = [pc EXCEPT ![t] = "addcb"]
    /\ UNCHANGED <<table, up, usrInfo, usrMutex, lastId, local, calls, crashes, usrHistVars>>

\* Mutant: what the statement returned is not passed on.
Mut_MySqlCtrlAddUsrInfo(t) ==
    LET usr == usrInfo[local[t].info]
    IN  /\ pc[t] = "addcb"
        /\ \/ table' = [table EXCEPT ![usr.usrname] = RowOf(usr)]
           \/ UNCHANGED table
        /\ ReturnTrue(t)
        /\ UNCHANGED <<up, usrListVars, lastId, calls, crashes, idRisk>>

(***************************************************************************)
(* addUsrcb, that is MySqlCtrlAddUsrInfo, with what the block holds now.   *)
(* It fails when there is a row with that name, and may fail anyway; the   *)
(* block stays in the list.                                                *)
(***************************************************************************)
MySqlCtrlAddUsrInfo(t) ==
    LET usr == usrInfo[local[t].info]
    IN  /\ pc[t] = "addcb"
        /\ \/ /\ table[usr.usrname] = NoRow
              /\ table' = [table EXCEPT ![usr.usrname] = RowOf(usr)]
              /\ ReturnTrue(t)
           \/ /\ UNCHANGED table
              /\ ReturnError(t)
        /\ UNCHANGED <<up, usrListVars, lastId, calls, crashes, idRisk>>
-----------------------------------------------------------------------------
(***************************************************************************)
(* ModifyPassword, whose caller is the user, and ResetPassword.  For a     *)
(* user that is not in the list ModifyPassword locks a mutex at NULL, and  *)
(* the process dies.                                                       *)
(***************************************************************************)
ModifyPassword(t, usrname, oldPassword, newPassword) ==
    LET b == GetHandleByStr(usrname)
    IN  /\ b # NoBlock
        /\ Begin(t, "password", {usrname}, b, [usrInfo[b] EXCEPT !.passWord = newPassword],
                 oldPassword, ENUM_USRLEVEL_Invalid)
        /\ UNCHANGED <<table, up, usrListVars, lastId, crashes, idRisk>>

ResetPassword(t, usrname, password) ==
    LET b == GetHandleByStr(usrname)
    IN  /\ b # NoBlock
        /\ Begin(t, "password", {usrname}, b, [usrInfo[b] EXCEPT !.passWord = password],
                 NoPass, ENUM_USRLEVEL_Invalid)
        /\ UNCHANGED <<table, up, usrListVars, lastId, crashes, idRisk>>

\* Under the mutex of the block: compare, write, and copy the whole block.
WritePassword(t) ==
    LET b == local[t].info
        new == [usrInfo[b] EXCEPT !.passWord = local[t].usr.passWord]
    IN  /\ pc[t] = "password"
        /\ usrMutex[b] = Nobody
        /\ \/ /\ local[t].old \in {NoPass, usrInfo[b].passWord}
              /\ usrInfo' = [usrInfo EXCEPT ![b] = new]
              /\ Continue(t, "setcb", new)
              /\ UNCHANGED <<disturbed, acked>>
           \/ /\ local[t].old \notin {NoPass, usrInfo[b].passWord}
              /\ Refuse(t)
              /\ UNCHANGED usrInfo
        /\ UNCHANGED <<table, up, list, usrMutex, lastId, calls, crashes, idRisk>>
-----------------------------------------------------------------------------
(***************************************************************************)
(* ModifyUsrInfo, whose caller is the user and has read its UsrInfo_T.  It *)
(* saves password and level of the block before it takes the mutex, copies *)
(* all that it was given over the block, and puts the two back.            *)
(***************************************************************************)
ModifyUsrInfo(t, usrname, passWord, userLevel, customname) ==
    LET b == GetHandleByStr(usrname)
    IN  /\ b # NoBlock
        /\ userLevel <= usrInfo[b].userLevel
        /\ Begin(t, "memcpy", {usrname}, b,
                 [usrInfo[b] EXCEPT !.passWord = passWord, !.userLevel = userLevel,
                                    !.customname = customname],
                 usrInfo[b].passWord, usrInfo[b].userLevel)
        /\ UNCHANGED <<table, up, usrListVars, lastId, crashes, idRisk>>

Memcpy(t) ==
    LET b == local[t].info
    IN  /\ pc[t] = "memcpy"
        /\ usrMutex[b] = Nobody
        /\ usrMutex' = [usrMutex EXCEPT ![b] = t]
        /\ usrInfo' = [usrInfo EXCEPT ![b] = local[t].usr]
        /\ pc' = [pc EXCEPT ![t] = "restore"]
        /\ UNCHANGED <<table, up, list, lastId, local, calls, crashes, usrHistVars>>

Restore(t) ==
    LET b == local[t].info
    IN  /\ pc[t] = "restore"
        /\ usrInfo' = [usrInfo EXCEPT ![b].userLevel = local[t].level,
                                      ![b].passWord = local[t].old]
        /\ usrMutex' = [usrMutex EXCEPT ![b] = Nobody]
        /\ pc' = [pc EXCEPT ![t] = "compose"]
        /\ UNCHANGED <<table, up, list, lastId, local, calls, crashes, usrHistVars>>

\* setUsrInfocb gets the block itself: the statement is put together from what
\* it holds now, before the mutex of the data base is taken.
Compose(t) ==
    /\ pc[t] = "compose"
    /\ Continue(t, "setcb", usrInfo[local[t].info])
    /\ UNCHANGED <<table, up, usrListVars, lastId, calls, crashes, usrHistVars>>

\* Mutant: the statement sets the custom name only.
Mut_SetUsrInfo(row, usr) == [row EXCEPT !.customname = usr.customname]

SetUsrInfo(row, usr) == [row EXCEPT !.passWord = usr.passWord,
                                    !.customname = usr.customname]

\* An update of a row that does not exist succeeds.
MySqlCtrlSetUsrInfo(t) ==
    LET usr == local[t].usr
    IN  /\ pc[t] = "setcb"
        /\ \/ /\ table' = [n \in Names |-> IF n = usr.usrname /\ table[n] # NoRow
                                           THEN SetUsrInfo(table[n], usr) ELSE table[n]]
              /\ ReturnTrue(t)
           \/ /\ UNCHANGED table
              /\ ReturnError(t)
        /\ UNCHANGED <<up, usrListVars, lastId, calls, crashes, idRisk>>
-----------------------------------------------------------------------------
(***************************************************************************)
(* ModifyUsrBindInfo gives a user another name.                            *)
(***************************************************************************)
ModifyUsrBindInfo(t, oldusrname, usrname) ==
    LET b == GetHandleByStr(oldusrname)
    IN  /\ b # NoBlock
        /\ Begin(t, "bind", {oldusrname, usrname}, b, [usrInfo[b] EXCEPT !.usrname = usrname],
                 NoPass, ENUM_USRLEVEL_Invalid)
        /\ UNCHANGED <<table, up, usrListVars, lastId, crashes, idRisk>>

Bind(t) ==
    LET b == local[t].info
        new == [usrInfo[b] EXCEPT !.usrname = local[t].usr.usrname]
    IN  /\ pc[t] = "bind"
        /\ usrMutex[b] = Nobody
        /\ usrInfo' = [usrInfo EXCEPT ![b] = new]
        /\ Continue(t, "bindcb", new)
        /\ UNCHANGED <<table, up, list, usrMutex, lastId, calls, crashes, disturbed, acked,
                       idRisk>>

(***************************************************************************)
(* The rows with the user's id get the new name.  The primary key lets     *)
(* that happen for one row at most, and only if no other has the name.     *)
(***************************************************************************)
MySqlCtrlModifyUsrBindInfo(t) ==
    LET usr == local[t].usr
        rows == {n \in Names : table[n] # NoRow /\ table[n].usrID = usr.usrID}
        old == CHOOSE n \in rows : TRUE
    IN  /\ pc[t] = "bindcb"
        /\ \/ /\ rows = {}
              /\ UNCHANGED <<table, idRisk>>
              /\ ReturnTrue(t)
           \/ /\ Cardinality(rows) = 1
              /\ usr.usrname # old => table[usr.usrname] = NoRow
              /\ table' = [n \in Names |-> IF n = usr.usrname THEN table[old]
                                           ELSE IF n = old THEN NoRow ELSE table[n]]
              /\ idRisk' = (idRisk \/ old \in DefaultUsrs \ {usr.usrname})
              /\ ReturnTrue(t)
           \/ /\ UNCHANGED <<table, idRisk>>
              /\ ReturnError(t)
        /\ UNCHANGED <<up, usrListVars, lastId, calls, crashes>>
-----------------------------------------------------------------------------
(***************************************************************************)
(* The process dies; threads, list and locks are gone, the table stays.    *)
(***************************************************************************)
Die ==
    /\ up
    /\ crashes < MaxCrashes
    /\ crashes' = crashes + 1
    /\ up' = FALSE
    /\ list' = <<>>
    /\ usrInfo' = [b \in Blocks |-> NoInfo]
    /\ usrMutex' = [b \in Blocks |-> Nobody]
    /\ lastId' = 0
    /\ pc' = [t \in Workers |-> "idle"]
    /\ local' = [t \in Workers |-> NoCall]
    /\ disturbed' = {}

Crash ==
    /\ Die
    /\ UNCHANGED <<table, calls, acked, idRisk>>

\* It is started again: MySqlInit, then UsrManageInit.
UsrManageInit ==
    /\ ~up
    /\ up' = TRUE
    /\ table' = [n \in Names |-> WithDefaults(table, n)]
    /\ list' = Loaded(table').list
    /\ usrInfo' = Loaded(table').usrInfo
    /\ UNCHANGED <<usrMutex, lastId, pc, local, calls, crashes, usrHistVars>>

ModifyPasswordOfNobody(usrname) ==
    /\ calls < MaxCalls
    /\ calls' = calls + 1
    /\ GetHandleByStr(usrname) = NoBlock
    /\ Die
    /\ UNCHANGED <<table, acked, idRisk>>

(***************************************************************************)
(* DelUsr, by a caller whose level is at least the user's: the block is    *)
(* taken off the list and freed; MyFree sets info to NULL, and delUsrcb,   *)
(* which gets the address of a member of *info, reads from there.  When    *)
(* another thread was first, DelUsr frees the block once more, and returns *)
(* if the process survives that.                                           *)
(***************************************************************************)
DelUsr(t, usrname) ==
    LET b == GetHandleByStr(usrname)
    IN  /\ b # NoBlock
        /\ Begin(t, "del", {usrname}, b, usrInfo[b], NoPass, ENUM_USRLEVEL_Invalid)
        /\ UNCHANGED <<table, up, usrListVars, lastId, crashes, idRisk>>

DelHandle(t) ==
    LET b == local[t].info
    IN  /\ pc[t] = "del"
        /\ \/ /\ b \in InList
              /\ list' = RemoveFirst(list, b)
              /\ pc' = [pc EXCEPT ![t] = "delcb"]
              /\ UNCHANGED <<local, disturbed, acked>>
           \/ /\ b \notin InList
              /\ Refuse(t)
              /\ UNCHANGED list
        /\ UNCHANGED <<table, up, usrInfo, usrMutex, lastId, calls, crashes, idRisk>>

MySqlCtrlDelUsrInfo(t) ==
    /\ pc[t] = "delcb"
    /\ Die
    /\ UNCHANGED <<table, calls, acked, idRisk>>
-----------------------------------------------------------------------------
\* The steps of a call that has begun.
Step(t) ==
    \/ CreateUsrid(t) \/ AddHandle(t) \/ MySqlCtrlAddUsrInfo(t)
    \/ WritePassword(t) \/ Memcpy(t) \/ Restore(t) \/ Compose(t) \/ MySqlCtrlSetUsrInfo(t)
    \/ Bind(t) \/ MySqlCtrlModifyUsrBindInfo(t)
    \/ DelHandle(t) \/ MySqlCtrlDelUsrInfo(t)

UsrNext ==
    \/ \E t \in Workers, n \in Names :
        \/ \E p \in Passwords, l \in Levels : AddUsr(t, n, p, l)
        \/ \E p, q \in Passwords : ModifyPassword(t, n, p, q)
        \/ \E p \in Passwords : ResetPassword(t, n, p)
        \/ \E p \in Passwords, l \in Levels, c \in Customs \ {NoCustom} :
            ModifyUsrInfo(t, n, p, l, c)
        \/ \E m \in Names : ModifyUsrBindInfo(t, n, m)
        \/ DelUsr(t, n)
    \/ \E t \in Workers : Step(t)
    \/ \E n \in Names : ModifyPasswordOfNobody(n)
    \/ Crash
    \/ UsrManageInit

UsrSpec == UsrInit /\ [][UsrNext]_usrVars
-----------------------------------------------------------------------------
\* No call for user n is in progress, and none has gone wrong.
Quiet(n) == n \notin disturbed /\ \A t \in Workers : n \notin local[t].on

(***************************************************************************)
(* List and table say the same of a user whenever no call for the user is  *)
(* in progress, whatever goes on for others and wherever the process has   *)
(* died before.  Excepted are users for whom calls overlapped or a         *)
(* statement failed, and the time after an id may have been given twice.   *)
(***************************************************************************)
ListMatchesTable ==
    /\ UsrTypeOK
    /\ up /\ ~idRisk =>
        \A n \in Names :
            Quiet(n) =>
                {usrInfo[b] : b \in {c \in InList : usrInfo[c].usrname = n}}
                    = {UsrInfo(n, r) : r \in {table[n]} \ {NoRow}}

(***************************************************************************)
(* What a call has confirmed with KEY_TRUE survives the death of the       *)
(* process: the row is there with the password, and the user can log in    *)
(* with it once the server is up.                                          *)
(***************************************************************************)
AcknowledgedIsStored ==
    ~idRisk =>
        \A n \in Names :
            acked[n] # NoPass =>
                /\ table[n].passWord = acked[n]
                /\ up => Authentication(n, acked[n]) = table[n].userLevel

(***************************************************************************)
(* The ids of users are unique, as the comment in AddUsr says:             *)
(* CreateUsrid gives no id twice, also after restarts and failed inserts,  *)
(* unless another thread has an id that it has not put into the list yet,  *)
(* or is in DelUsr and has taken it off the list but not out of the table, *)
(* or a default user was renamed.                                          *)
(***************************************************************************)
IdsUnique ==
    ~idRisk =>
        /\ \A b, c \in InList : usrInfo[b].usrID = usrInfo[c].usrID => b = c
        /\ \A n, m \in Names :
            table[n] # NoRow /\ table[m] # NoRow /\ table[n].usrID = table[m].usrID => n = m
=============================================================================
