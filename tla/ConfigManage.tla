----------------------------- MODULE ConfigManage -----------------------------
(***************************************************************************)
(* ExtLibs/Config/configmanage.c: the configuration of all modules is one  *)
(* JSON object, kept in memory and in one file.  Each change writes the    *)
(* whole object over the file, which is emptied first.                     *)
(*                                                                         *)
(* DvrListConf has the calls of a module that keeps its settings here.     *)
(***************************************************************************)
CONSTANTS
    Keys,      \* names of items (confName)
    Values,    \* the JSON values an item may be
    NoItem,    \* cJSON_GetObjectItem returns NULL
    FirstDoc,  \* the conf.config that the server is shipped with
    Broken,    \* a file with a part of an object, which cJSON_Parse refuses
    Threads,   \* threads that use the configuration
    NoThread   \* nobody holds the mutex

Docs == [Keys -> Values \cup {NoItem}]
Empty == [k \in Keys |-> NoItem]

ASSUME ConfAssumption ==
    /\ FirstDoc \in Docs
    /\ Broken \notin Docs
    /\ NoThread \notin Threads

VARIABLES
    root,      \* GetConfHandle()->root
    confMutex, \* the thread that holds the mutex
    file,      \* what the file D_CONFPATH_STR holds
    up         \* the process runs

confVars == <<root, confMutex, file, up>>

ConfTypeOK ==
    /\ root \in Docs
    /\ confMutex \in Threads \cup {NoThread}
    /\ file \in Docs \cup {Broken}
    /\ up \in BOOLEAN

ConfInit ==
    /\ root = FirstDoc
    /\ confMutex = NoThread
    /\ file = FirstDoc
    /\ up = TRUE

\* ConfigManageGet: a copy of the item, made under the mutex.
ConfigManageGet(k) == root[k]
MayLock == up /\ confMutex = NoThread

(***************************************************************************)
(* ConfigManageSet: it takes the mutex and puts the item into the object;  *)
(* WirteConf opens the file with "w+", which empties it.                   *)
(***************************************************************************)
SetBegins(t, k, v) ==
    /\ MayLock
    /\ confMutex' = t
    /\ root' = [root EXCEPT ![k] = v]
    /\ file' = Broken
    /\ UNCHANGED up

(***************************************************************************)
(* The object is written and the mutex released.  Nobody looks at what     *)
(* fwrite and fclose return, so a file that holds a part of the object     *)
(* (the disk is full) is a success as well.                                *)
(***************************************************************************)
SetEnds(t) ==
    /\ confMutex = t
    /\ confMutex' = NoThread
    /\ file' \in {root, Broken}
    /\ UNCHANGED <<root, up>>

\* The memory of the process is gone, the file stays as it is.
Dies ==
    /\ up
    /\ up' = FALSE
    /\ root' = Empty
    /\ confMutex' = NoThread
    /\ UNCHANGED file

\* ConfigManageSet: the file cannot be opened, and assert(0) ends the process.
OpenFails == MayLock /\ Dies

\* A bug: a file that is broken is taken for the one that was shipped.
Mut_ConfigManageInit ==
    /\ ~up
    /\ up' = TRUE
    /\ root' = IF file = Broken THEN FirstDoc ELSE file
    /\ UNCHANGED <<confMutex, file>>

\* ConfigManageInit: a file that is missing or not an object counts as empty.
ConfigManageInit ==
    /\ ~up
    /\ up' = TRUE
    /\ root' = IF file = Broken THEN Empty ELSE file
    /\ UNCHANGED <<confMutex, file>>

ConfNext ==
    \/ \E t \in Threads : \/ \E k \in Keys, v \in Values : SetBegins(t, k, v)
                          \/ SetEnds(t)
    \/ OpenFails
    \/ Dies
    \/ ConfigManageInit

ConfSpec == ConfInit /\ [][ConfNext]_confVars
-----------------------------------------------------------------------------
(***************************************************************************)
(* The object in memory is the one on file except while the file is not    *)
(* whole; it is not whole when a thread is writing, so nobody is about to  *)
(* write over a whole file with an object that it has read before.         *)
(***************************************************************************)
ConfInv ==
    /\ ConfTypeOK
    /\ confMutex # NoThread => up /\ file = Broken
    /\ up /\ file # Broken => root = file
    /\ ~up => root = Empty

(***************************************************************************)
(* The configuration is a ConfStore: whatever the threads do, and whenever *)
(* the process dies, the items that a start finds are exactly the last     *)
(* ones or, if the last write had not ended well, none at all.             *)
(***************************************************************************)
Store == INSTANCE ConfStore WITH
    items <- IF up THEN root ELSE IF file = Broken THEN Empty ELSE file,
    safe <- file # Broken,
    alive <- up

IsConfStore == Store!Spec
=============================================================================
