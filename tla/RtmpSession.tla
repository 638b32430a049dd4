------------------------------ MODULE RtmpSession ------------------------------
(***************************************************************************)
(* App/Rtmp/rtmpstart.c: every camera that the DVR module (HkSdkManage)    *)
(* brings on line gets an entry in a table of sessions and a thread,       *)
(* RtmpProc, that registers as a reader of the camera's media queue and    *)
(* pushes the frames to an RTMP server.  When the camera is taken off, the *)
(* entry is marked, and the thread is expected to notice and to clean up.  *)
(*                                                                         *)
(* The table has no lock, so each access to it that matters is a step of   *)
(* its own.  Of the media queues (MediaQueue) only what sessions share is  *)
(* kept: which queues exist and which of their read pointers are in use.   *)
(* A read pointer is modelled by the thread that registered it.  librtmp   *)
(* is left out: a connection is made or is not, a push succeeds or fails.  *)
(***************************************************************************)
EXTENDS Integers, FiniteSets

CONSTANTS
    RTMP_USR_NUM,    \* entries of the table
    QUEUE_CHN_MAX,   \* media queues, of which number 0 is never given out
    QUEUE_USE_MAX,   \* read pointers of a queue
    SerialNumbers,   \* the DVRs
    FirstDvr,        \* the DVR that HksdkApiInit adds before RtmpInit
    NumChannels,     \* the cameras of each DVR are numbered from 1
    Threads,         \* bound: threads that can run at a time, numbered from 1
    MaxAdds,         \* bound: cameras added after RtmpInit
    MaxConf          \* bound: changes of the server configuration

ASSUME SessionAssumption ==
    /\ RTMP_USR_NUM \in Nat /\ QUEUE_CHN_MAX \in Nat /\ QUEUE_USE_MAX \in Nat \ {0}
    /\ NumChannels \in Nat /\ MaxAdds \in Nat /\ MaxConf \in Nat
    /\ FirstDvr \in SerialNumbers /\ "" \notin SerialNumbers
    /\ NumChannels <= RTMP_USR_NUM /\ NumChannels < QUEUE_CHN_MAX
    /\ 1 .. NumChannels \subseteq Threads /\ Threads \subseteq Nat \ {0}

Entries == 0 .. RTMP_USR_NUM - 1
Queues == 1 .. QUEUE_CHN_MAX - 1
ReadSlots == 0 .. QUEUE_USE_MAX - 1
Channels == 1 .. NumChannels
Cameras == SerialNumbers \X Channels

VARIABLES
    rtmpUser,   \* fd->rtmpUser[]
    started,    \* RtmpInit has run
    adds,       \* cameras added after RtmpInit
    camera,     \* what the DVR module does with each camera, and its queue
    adding,     \* the entry addCameraCallBack is filling, RTMP_USR_NUM: none
    enabled,    \* the media queues that exist
    pRead,      \* the threads behind the read pointers of a queue, 0: NULL
    conf,       \* number of the server configuration
    announcing, \* RtmpSetSerconfig has not marked the entries yet
    pc,         \* RtmpProc: what a thread does next
    chn,        \* RtmpProc: channel
    i,          \* RtmpProc: i
    queueID,    \* RtmpProc: mediaHandle.queueID
    registerID, \* RtmpProc: mediaHandle.registerID
    used,       \* history: the configuration a thread has connected with
    stale,      \* history: threads whose queue was destroyed behind them
    clash,      \* history: two entries had the same channel number
    trespass    \* history: a stale thread cleared a read pointer

tableVars == <<rtmpUser, adding, clash>>
bootVars == <<started, adds>>
queueVars == <<enabled, pRead, trespass>>
threadVars == <<pc, chn, i, queueID, registerID, used, stale>>
confVars == <<conf, announcing>>
vars == <<tableVars, bootVars, camera, queueVars, confVars, threadVars>>

Stats == {"DISCONNECT", "CONNECTED", "NEEDRECONNECT"}

Labels == {"none", "find", "while", "connect", "regist", "connected", "read",
           "clean", "cleanSerial", "unregist"}

TypeOK ==
    /\ rtmpUser \in [Entries -> [channel : Channels \cup {-1},
                                 queueid : Queues \cup {-1, 0},
                                 enable : {0, 1},
                                 stat : Stats,
                                 serial : SerialNumbers \cup {""}]]
    /\ started \in BOOLEAN
    /\ adds \in 0 .. MaxAdds
    /\ camera \in [Cameras -> [phase : {"off", "queue", "entry", "on", "del"},
                               queue : Queues \cup {0}]]
    /\ adding \in Entries \cup {RTMP_USR_NUM}
    /\ enabled \subseteq Queues
    /\ pRead \in [Queues -> [ReadSlots -> Threads \cup {0}]]
    /\ conf \in 0 .. MaxConf
    /\ announcing \in BOOLEAN
    /\ pc \in [Threads -> Labels]
    /\ chn \in [Threads -> Channels \cup {-1}]
    /\ i \in [Threads -> 0 .. RTMP_USR_NUM]
    /\ queueID \in [Threads -> Queues \cup {-1, 0}]
    /\ registerID \in [Threads -> ReadSlots]
    /\ used \in [Threads -> 0 .. MaxConf]
    /\ stale \subseteq Threads
    /\ clash \in BOOLEAN
    /\ trespass \in BOOLEAN

Unused == [channel |-> -1, queueid |-> -1, enable |-> 0,
           stat |-> "DISCONNECT", serial |-> ""]

\* The entry of a camera that is on line.
Session(serial, channel, queueid) ==
    [channel |-> channel, queueid |-> queueid, enable |-> 1,
     stat |-> "DISCONNECT", serial |-> serial]

\* HksdkApiInit has added the cameras of the first DVR, which got the first
\* queues; nobody was there to be called back.
Init ==
    /\ rtmpUser = [e \in Entries |-> Unused]
    /\ started = FALSE
    /\ adds = 0
    /\ camera = [c \in Cameras |->
                    IF c[1] = FirstDvr THEN [phase |-> "on", queue |-> c[2]]
                    ELSE [phase |-> "off", queue |-> 0]]
    /\ adding = RTMP_USR_NUM
    /\ enabled = Channels
    /\ pRead = [q \in Queues |-> [s \in ReadSlots |-> 0]]
    /\ conf = 0
    /\ announcing = FALSE
    /\ pc = [t \in Threads |-> "none"]
    /\ chn = [t \in Threads |-> -1]
    /\ i = [t \in Threads |-> 0]
    /\ queueID = [t \in Threads |-> 0]
    /\ registerID = [t \in Threads |-> 0]
    /\ used = [t \in Threads |-> 0]
    /\ stale = {}
    /\ clash = FALSE
    /\ trespass = FALSE

(***************************************************************************)
(* RtmpInit: RtmpParamInit gives camera j of the DVR entry j and a thread. *)
(***************************************************************************)
RtmpInit ==
    /\ ~started
    /\ started' = TRUE
    /\ rtmpUser' = [e \in Entries |->
                       IF e + 1 \in Channels
                       THEN Session(FirstDvr, e + 1, camera[<<FirstDvr, e + 1>>].queue)
                       ELSE Unused]
    /\ pc' = [t \in Threads |-> IF t \in Channels THEN "find" ELSE "none"]
    /\ chn' = [t \in Threads |-> IF t \in Channels THEN t ELSE -1]
    /\ UNCHANGED <<adds, camera, adding, queueVars, confVars, i, queueID, registerID,
                   used, stale, clash>>
-----------------------------------------------------------------------------
\* What GetQueueID chooses from.
FreeQueues == Queues \ enabled

(***************************************************************************)
(* A camera comes on line: HksdkDeviceAdd creates its queue and calls back *)
(* addCameraCallBack.  Callbacks exclude each other: HandleManagePostLoop  *)
(* runs them under its mutex.                                              *)
(***************************************************************************)
CreateQueue(c) ==
    /\ started
    /\ camera[c].phase = "off"
    /\ adds < MaxAdds
    /\ adds' = adds + 1
    /\ \E q \in FreeQueues :
        /\ \A o \in FreeQueues : q <= o
        /\ camera' = [camera EXCEPT ![c] = [phase |-> "queue", queue |-> q]]
        /\ enabled' = enabled \cup {q}
        /\ pRead' = [pRead EXCEPT ![q] = [s \in ReadSlots |-> 0]]
    /\ UNCHANGED <<tableVars, started, trespass, confVars, threadVars>>

\* Mutant: an entry is taken as soon as its channel is -1.
Mut_FreeEntry(e) == rtmpUser[e].channel = -1

FreeEntry(e) == rtmpUser[e].channel = -1 /\ rtmpUser[e].serial = ""

\* The first free entry is claimed by its channel number.  When the table is
\* full the camera stays without a session.
addCameraCallBack(c) ==
    /\ camera[c].phase = "queue"
    /\ adding = RTMP_USR_NUM
    /\ \/ \E e \in Entries :
            /\ FreeEntry(e)
            /\ \A f \in Entries : FreeEntry(f) => e <= f
            /\ rtmpUser' = [rtmpUser EXCEPT ![e].channel = c[2]]
            /\ adding' = e
            /\ clash' = (clash \/ \E f \in Entries : rtmpUser[f].channel = c[2])
            /\ camera' = [camera EXCEPT ![c].phase = "entry"]
       \/ /\ \A e \in Entries : ~FreeEntry(e)
          /\ camera' = [camera EXCEPT ![c].phase = "on"]
          /\ UNCHANGED tableVars
    /\ UNCHANGED <<bootVars, queueVars, confVars, threadVars>>

\* The rest of the entry, and the thread.
AddedCamera(c) ==
    /\ camera[c].phase = "entry"
    /\ camera' = [camera EXCEPT ![c].phase = "on"]
    /\ rtmpUser' = [rtmpUser EXCEPT ![adding] = Session(c[1], @.channel, camera[c].queue)]
    /\ adding' = RTMP_USR_NUM
    /\ \E t \in Threads :
        /\ pc[t] = "none"
        /\ pc' = [pc EXCEPT ![t] = "find"]
        /\ chn' = [chn EXCEPT ![t] = rtmpUser[adding].channel]
    /\ UNCHANGED <<bootVars, queueVars, confVars, i, queueID, registerID, used,
                   stale, clash>>

\* Only the first entry of the camera is overwritten, with enable 0 and, for
\* what delCameraCallBack does not set, zeros.
SetRtmpUserPram(c) ==
    LET own == {e \in Entries : rtmpUser[e].channel = c[2] /\ rtmpUser[e].serial = c[1]}
    IN  [e \in Entries |->
            IF e \in own /\ \A f \in own : e <= f
            THEN [channel |-> c[2], queueid |-> 0, enable |-> 0,
                  stat |-> "DISCONNECT", serial |-> c[1]]
            ELSE rtmpUser[e]]

(***************************************************************************)
(* A camera is taken off: HksdkDeviceDel calls back delCameraCallBack and  *)
(* destroys the queue, whether or not it still has readers.                *)
(***************************************************************************)
delCameraCallBack(c) ==
    /\ camera[c].phase = "on"
    /\ started
    /\ adding = RTMP_USR_NUM
    /\ rtmpUser' = SetRtmpUserPram(c)
    /\ camera' = [camera EXCEPT ![c].phase = "del"]
    /\ UNCHANGED <<adding, clash, bootVars, queueVars, confVars, threadVars>>

DisdroyQueue(c) ==
    /\ camera[c].phase = "del"
    /\ camera' = [camera EXCEPT ![c] = [phase |-> "off", queue |-> 0]]
    /\ LET q == camera[c].queue
       IN  /\ enabled' = enabled \ {q}
           /\ pRead' = [pRead EXCEPT ![q] = [s \in ReadSlots |-> 0]]
           /\ stale' = stale \cup {t \in Threads : queueID[t] = q}
    /\ UNCHANGED <<tableVars, bootVars, trespass, confVars, pc, chn, i, queueID,
                   registerID, used>>
-----------------------------------------------------------------------------
(***************************************************************************)
(* The configuration of the server changes: it is saved, then every entry  *)
(* is marked.  RtmpDeInit ends all sessions.                               *)
(***************************************************************************)
RtmpSetSerconfig ==
    /\ started
    /\ conf < MaxConf
    /\ ~announcing
    /\ conf' = conf + 1
    /\ announcing' = TRUE
    /\ UNCHANGED <<tableVars, bootVars, camera, queueVars, threadVars>>

RtmpSetSerconfigMarks ==
    /\ announcing
    /\ announcing' = FALSE
    /\ rtmpUser' = [e \in Entries |-> [rtmpUser[e] EXCEPT !.stat = "NEEDRECONNECT"]]
    /\ UNCHANGED <<adding, clash, bootVars, camera, queueVars, conf, threadVars>>

RtmpDeInit ==
    /\ started
    /\ rtmpUser' = [e \in Entries |-> [rtmpUser[e] EXCEPT !.enable = 0]]
    /\ UNCHANGED <<adding, clash, bootVars, camera, queueVars, confVars, threadVars>>
-----------------------------------------------------------------------------
(***************************************************************************)
(* RtmpProc.                                                               *)
(***************************************************************************)
Goto(t, label) == pc' = [pc EXCEPT ![t] = label]

\* The thread returns, and its variables are gone.
Return(t) ==
    /\ Goto(t, "none")
    /\ chn' = [chn EXCEPT ![t] = -1]
    /\ i' = [i EXCEPT ![t] = 0]
    /\ queueID' = [queueID EXCEPT ![t] = 0]
    /\ registerID' = [registerID EXCEPT ![t] = 0]
    /\ used' = [used EXCEPT ![t] = 0]
    /\ stale' = stale \ {t}

\* The thread looks for its entry by the channel number alone.
Find(t) ==
    /\ pc[t] = "find"
    /\ LET found == {e \in Entries : rtmpUser[e].channel = chn[t]}
       IN  i' = [i EXCEPT ![t] = IF found = {} THEN RTMP_USR_NUM
                                 ELSE CHOOSE e \in found : \A f \in found : e <= f]
    /\ Goto(t, "while")
    /\ UNCHANGED <<tableVars, bootVars, camera, queueVars, confVars, chn, queueID,
                   registerID, used, stale>>

\* "while(1 == enable)", and the configuration for the URL.  What a thread
\* does that found no entry is undefined; it is left where it is.
While(t) ==
    /\ pc[t] = "while"
    /\ i[t] \in Entries
    /\ IF rtmpUser[i[t]].enable = 1
       THEN /\ used' = [used EXCEPT ![t] = conf]
            /\ Goto(t, "connect")
       ELSE /\ Goto(t, "clean")
            /\ UNCHANGED used
    /\ UNCHANGED <<tableVars, bootVars, camera, queueVars, confVars, chn, i, queueID,
                   registerID, stale>>

\* RtmpConnect and SendMetaPacket; after a failure of one of them the loop
\* starts again.
Connect(t) ==
    /\ pc[t] = "connect"
    /\ Goto(t, "regist")
    /\ UNCHANGED <<tableVars, bootVars, camera, queueVars, confVars, chn, i, queueID,
                   registerID, used, stale>>

\* Mutant: a thread that cannot connect returns.
Mut_ConnectFails(t) ==
    /\ pc[t] = "connect"
    /\ Return(t)
    /\ UNCHANGED <<tableVars, bootVars, camera, queueVars, confVars>>

ConnectFails(t) ==
    /\ pc[t] = "connect"
    /\ Goto(t, "while")
    /\ UNCHANGED <<tableVars, bootVars, camera, queueVars, confVars, chn, i, queueID,
                   registerID, used, stale>>

\* Mutant: the first read pointer is taken, whether it is free or not.
Mut_FreeReadSlot(q, s) == q \in enabled /\ s = 0

\* The read pointer that a reader of queue q gets, if the queue is enabled.
FreeReadSlot(q, s) ==
    /\ q \in enabled
    /\ pRead[q][s] = 0
    /\ \A r \in ReadSlots : pRead[q][r] = 0 => s <= r

(***************************************************************************)
(* MediaQueueRegistReadHandle with the queue that the entry names now.     *)
(* When there is no such queue, or no read pointer is free, the thread     *)
(* returns on the spot.                                                    *)
(***************************************************************************)
Regist(t) ==
    /\ pc[t] = "regist"
    /\ LET q == rtmpUser[i[t]].queueid
       IN  \/ \E s \in ReadSlots :
                /\ FreeReadSlot(q, s)
                /\ pRead' = [pRead EXCEPT ![q][s] = t]
                /\ queueID' = [queueID EXCEPT ![t] = q]
                /\ registerID' = [registerID EXCEPT ![t] = s]
                /\ stale' = stale \ {t}
                /\ Goto(t, "connected")
                /\ UNCHANGED <<chn, i, used>>
           \/ /\ \A s \in ReadSlots : ~FreeReadSlot(q, s)
              /\ Return(t)
              /\ UNCHANGED pRead
    /\ UNCHANGED <<tableVars, bootVars, camera, enabled, trespass, confVars>>

\* "stat = RTMP_CONNECTED", whatever it was.
Connected(t) ==
    /\ pc[t] = "connected"
    /\ rtmpUser' = [rtmpUser EXCEPT ![i[t]].stat = "CONNECTED"]
    /\ Goto(t, "read")
    /\ UNCHANGED <<adding, clash, bootVars, camera, queueVars, confVars, chn, i, queueID,
                   registerID, used, stale>>

\* Mutant: only the status is looked at.
Mut_Streaming(t) == rtmpUser[i[t]].stat = "CONNECTED"

Streaming(t) == rtmpUser[i[t]].stat = "CONNECTED" /\ rtmpUser[i[t]].enable = 1

\* The inner loop ends; a frame that is read and pushed changes nothing here.
StopReading(t) ==
    /\ pc[t] = "read"
    /\ ~Streaming(t)
    /\ Goto(t, "while")
    /\ UNCHANGED <<tableVars, bootVars, camera, queueVars, confVars, chn, i, queueID,
                   registerID, used, stale>>

\* PushVideoData fails for a frame the thread has read.
PushFails(t) ==
    /\ pc[t] = "read"
    /\ Streaming(t)
    /\ queueID[t] \in enabled
    /\ pRead[queueID[t]][registerID[t]] # 0
    /\ rtmpUser' = [rtmpUser EXCEPT ![i[t]].stat = "DISCONNECT"]
    /\ UNCHANGED <<adding, clash, bootVars, camera, queueVars, confVars, threadVars>>

\* The end of the thread: the entry is given back, its serial number last.
Clean(t) ==
    /\ pc[t] = "clean"
    /\ rtmpUser' = [rtmpUser EXCEPT ![i[t]].channel = -1,
                                    ![i[t]].queueid = -1,
                                    ![i[t]].stat = "DISCONNECT"]
    /\ Goto(t, "cleanSerial")
    /\ UNCHANGED <<adding, clash, bootVars, camera, queueVars, confVars, chn, i, queueID,
                   registerID, used, stale>>

CleanSerial(t) ==
    /\ pc[t] = "cleanSerial"
    /\ rtmpUser' = [rtmpUser EXCEPT ![i[t]].serial = ""]
    /\ Goto(t, "unregist")
    /\ UNCHANGED <<adding, clash, bootVars, camera, queueVars, confVars, chn, i, queueID,
                   registerID, used, stale>>

\* MediaQueueUnRegistReadHandle; queue 0 stands for a thread that never had one.
UnRegist(t) ==
    /\ pc[t] = "unregist"
    /\ \/ /\ queueID[t] \in Queues
          /\ pRead' = [pRead EXCEPT ![queueID[t]][registerID[t]] = 0]
          /\ trespass' = (trespass \/ (t \in stale /\ pRead[queueID[t]][registerID[t]] # 0))
       \/ /\ queueID[t] \notin Queues
          /\ UNCHANGED <<pRead, trespass>>
    /\ Return(t)
    /\ UNCHANGED <<tableVars, bootVars, camera, enabled, confVars>>

RtmpProc(t) ==
    \/ Find(t) \/ While(t) \/ Connect(t) \/ Regist(t) \/ Connected(t)
    \/ StopReading(t) \/ Clean(t) \/ CleanSerial(t) \/ UnRegist(t)
-----------------------------------------------------------------------------
Next ==
    \/ RtmpInit
    \/ \E c \in Cameras : \/ CreateQueue(c) \/ addCameraCallBack(c) \/ AddedCamera(c)
                          \/ delCameraCallBack(c) \/ DisdroyQueue(c)
    \/ RtmpSetSerconfig
    \/ RtmpSetSerconfigMarks
    \/ RtmpDeInit
    \/ \E t \in Threads : RtmpProc(t) \/ ConnectFails(t) \/ PushFails(t)

Spec == Init /\ [][Next]_vars

(***************************************************************************)
(* A thread goes on as long as it can, and a server that can be reached    *)
(* again and again is connected to in the end.                             *)
(***************************************************************************)
FairSpec ==
    /\ Spec
    /\ WF_vars(RtmpInit)
    /\ WF_vars(RtmpSetSerconfigMarks)
    /\ \A t \in Threads : WF_vars(RtmpProc(t)) /\ SF_vars(Connect(t))
-----------------------------------------------------------------------------
\* The labels between the search for an entry and the end of its clean-up.
Working(t) == pc[t] \notin {"none", "find", "unregist"}

(***************************************************************************)
(* As long as no camera was added while an entry with its channel number   *)
(* was still there, the search of RtmpProc finds an entry, no two threads  *)
(* work on one entry, and a thread that has not begun to clean up works on *)
(* the entry of its own channel.  A new camera never gets an entry that a  *)
(* thread is still clearing.                                               *)
(***************************************************************************)
EntriesNotShared ==
    /\ TypeOK
    /\ ~clash =>
        \A t \in Threads :
            Working(t) =>
                /\ i[t] \in Entries
                /\ \A u \in Threads \ {t} : Working(u) => i[u] # i[t]
                /\ i[t] # adding
                /\ pc[t] # "cleanSerial" => rtmpUser[i[t]].channel = chn[t]

(***************************************************************************)
(* The read pointer that a streaming thread uses is its own, until its     *)
(* queue is destroyed, or until a thread that outlived its queue takes     *)
(* back a read pointer of the queue that got the same number.              *)
(***************************************************************************)
ReadersOwnTheirSlot ==
    ~trespass =>
        \A t \in Threads :
            pc[t] \in {"connected", "read"} /\ t \notin stale =>
                pRead[queueID[t]][registerID[t]] = t

(***************************************************************************)
(* An entry in use has a thread that serves it, or is about to find it.  A *)
(* thread that could not register returns without giving its entry back:   *)
(* such an entry has no queue any more, since the camera was removed while *)
(* the thread was connecting, or one whose read pointers are all taken, by *)
(* earlier connections of the same session.                                *)
(***************************************************************************)
EntriesServed ==
    ~clash /\ ~trespass =>
        \A e \in Entries \ {adding} :
            LET q == rtmpUser[e].queueid
            IN  \/ rtmpUser[e].channel = -1
                \/ \E t \in Threads : \/ Working(t) /\ i[t] = e
                                      \/ pc[t] = "find" /\ chn[t] = rtmpUser[e].channel
                \/ q \notin enabled
                \/ /\ \A s \in ReadSlots : pRead[q][s] # 0
                   /\ Cardinality({pRead[q][s] : s \in ReadSlots}) = 1

(***************************************************************************)
(* A session that was switched off by delCameraCallBack or RtmpDeInit      *)
(* comes to its end, also when it is waiting for a server or for frames.   *)
(***************************************************************************)
SessionsEnd ==
    \A t \in Threads :
        Working(t) /\ i[t] \in Entries /\ rtmpUser[i[t]].enable = 0
            ~> pc[t] = "none" \/ clash

(***************************************************************************)
(* RTMP_NEEDRECONNECT is there for changed parameters: a session that      *)
(* streams with an old configuration connects with the new one or ends.    *)
(***************************************************************************)
Reconnects ==
    \A t \in Threads :
        pc[t] = "read" /\ used[t] # conf ~> used[t] = conf \/ pc[t] = "none"
=============================================================================
