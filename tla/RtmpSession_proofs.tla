-------------------------- MODULE RtmpSession_proofs --------------------------
(***************************************************************************)
(* The table of RTMP sessions and the read pointers of their threads, for  *)
(* every size of the table, number of queues, read pointers, DVRs and      *)
(* threads.                                                                *)
(***************************************************************************)
EXTENDS RtmpSession, FiniteSetTheorems, WellFoundedInduction, TLAPS

-----------------------------------------------------------------------------
(***************************************************************************)
(* Searches of the code take the first of several candidates.              *)
(***************************************************************************)

\* The least element, for a well-founded relation that contains <.
LEMMA LeastByRelation ==
    ASSUME NEW S, NEW R, S \subseteq Nat, S # {},
           IsWellFoundedOn(R, Nat),
           \A x, y \in Nat : y < x => <<y, x>> \in R
    PROVE  \E x \in S : \A y \in S : x <= y
<1>1. PICK x \in S : \A y \in S : ~(<<y, x>> \in R)
  BY WFMin, Zenon
<1>2. \A y \in S : ~(y < x)
  BY <1>1, Zenon
<1>3. \A y \in S : x <= y
  BY <1>2, SMT
<1> QED
  BY <1>3, Zenon

\* Every non-empty set of naturals has a least element.
LEMMA FirstExists ==
    ASSUME NEW S, S \subseteq Nat, S # {}
    PROVE  \E x \in S : \A y \in S : x <= y
<1>1. \A x, y \in Nat : y < x => <<y, x>> \in OpToRel(<, Nat)
  BY Zenon DEF OpToRel
<1> QED
  BY <1>1, LeastByRelation, NatLessThanWellFounded, Zenon

LEMMA EntriesNat ==
    Entries \subseteq Nat /\ RTMP_USR_NUM \notin Entries /\ RTMP_USR_NUM \in 0 .. RTMP_USR_NUM
    /\ Entries \subseteq 0 .. RTMP_USR_NUM
<1>1. RTMP_USR_NUM \in Nat
  BY SessionAssumption
<1> QED
  BY <1>1 DEF Entries

\* What Find computes for a thread: an entry of the channel, if there is one.
LEMMA FindFinds ==
    ASSUME NEW t \in Threads, TypeOK, Find(t)
    PROVE  /\ i' = [i EXCEPT ![t] = i'[t]]
           /\ i'[t] \in 0 .. RTMP_USR_NUM
           /\ (\E e \in Entries : rtmpUser[e].channel = chn[t]) =>
                 i'[t] \in Entries /\ rtmpUser[i'[t]].channel = chn[t]
<1> DEFINE found == {e \in Entries : rtmpUser[e].channel = chn[t]}
           first == CHOOSE e \in found : \A f \in found : e <= f
<1>1. i' = [i EXCEPT ![t] = IF found = {} THEN RTMP_USR_NUM ELSE first]
  BY DEF Find
<1>2. i'[t] = IF found = {} THEN RTMP_USR_NUM ELSE first
  BY <1>1 DEF TypeOK
<1>3. i' = [i EXCEPT ![t] = i'[t]]
  BY <1>1, <1>2
<1>4. found # {} => first \in found
  <2> SUFFICES ASSUME found # {} PROVE first \in found
    OBVIOUS
  <2>1. found \subseteq Nat
    BY EntriesNat
  <2>2. \E e \in found : \A f \in found : e <= f
    BY <2>1, FirstExists
  <2> QED
    BY <2>2
<1> HIDE DEF first
<1> QED
  BY <1>2, <1>3, <1>4, EntriesNat
-----------------------------------------------------------------------------
\* Threads that have an entry of their own channel to find, or to work on.
Holding(t) == pc[t] = "find" \/ (Working(t) /\ pc[t] # "cleanSerial")

\* Entries that are in use and completely filled in.
Filled(e) == e # adding /\ rtmpUser[e].channel # -1

\* The labels at which the loop of RtmpProc uses its entry.
InLoop == {"connect", "regist", "connected", "read", "clean", "cleanSerial"}

Indexed == \A t \in Threads : pc[t] \in InLoop => i[t] \in Entries

(***************************************************************************)
(* Before RtmpInit nothing but the cameras of the first DVR is there.      *)
(***************************************************************************)
Boot ==
    ~started =>
        /\ \A t \in Threads : pc[t] = "none"
        /\ \A e \in Entries : rtmpUser[e] = Unused
        /\ \A c \in Cameras :
              /\ c[1] = FirstDvr => camera[c].phase = "on" /\ camera[c].queue = c[2]
              /\ c[1] # FirstDvr => camera[c].phase = "off"
        /\ adding = RTMP_USR_NUM
        /\ ~announcing
        /\ \A q \in Queues : \A s \in ReadSlots : pRead[q][s] = 0

(***************************************************************************)
(* Callbacks exclude each other: one camera at most is in the middle of    *)
(* addCameraCallBack, and the entry it fills is then the one it claimed.   *)
(***************************************************************************)
OneAdding ==
    \A c \in Cameras :
        camera[c].phase = "entry" =>
            /\ adding \in Entries
            /\ ~clash => rtmpUser[adding].channel = c[2]
            /\ \A d \in Cameras : camera[d].phase = "entry" => d = c

\* Every camera that is not off line has a queue to itself.
CamerasOwnQueues ==
    \A c \in Cameras :
        camera[c].phase # "off" =>
            /\ camera[c].queue \in enabled
            /\ \A d \in Cameras \ {c} :
                  camera[d].phase # "off" => camera[d].queue # camera[c].queue

(***************************************************************************)
(* The table without a clash: channel numbers are unique, an entry can be  *)
(* claimed only when its last thread has given it back, and every thread   *)
(* that has not begun to clean up has a channel of its own with its entry. *)
(***************************************************************************)
ChannelsUnique ==
    \A e, f \in Entries :
        e # f /\ rtmpUser[e].channel # -1 => rtmpUser[e].channel # rtmpUser[f].channel

Claimed == adding \in Entries => rtmpUser[adding].channel # -1

FilledNamed == \A e \in Entries : Filled(e) => rtmpUser[e].serial # ""

FindersFind ==
    \A t \in Threads :
        pc[t] = "find" =>
            /\ chn[t] # -1
            /\ \E e \in Entries : Filled(e) /\ rtmpUser[e].channel = chn[t]

WorkersHold ==
    \A t \in Threads :
        Working(t) =>
            /\ i[t] \in Entries
            /\ i[t] # adding
            /\ pc[t] # "cleanSerial" => /\ rtmpUser[i[t]].channel = chn[t]
                                        /\ chn[t] # -1
            /\ pc[t] = "cleanSerial" => /\ rtmpUser[i[t]].channel = -1
                                        /\ rtmpUser[i[t]].serial # ""

ChannelsApart ==
    \A t, u \in Threads : t # u /\ Holding(t) /\ Holding(u) => chn[t] # chn[u]

EntriesApart ==
    \A t, u \in Threads : t # u /\ Working(t) /\ Working(u) => i[t] # i[u]

Table ==
    /\ ChannelsUnique /\ Claimed /\ FilledNamed
    /\ FindersFind /\ WorkersHold /\ ChannelsApart /\ EntriesApart

(***************************************************************************)
(* The handle of a thread whose queue still exists is a read pointer that  *)
(* belongs to the thread, whatever the thread does.                        *)
(***************************************************************************)
HandlesOwned ==
    \A t \in Threads :
        /\ pc[t] \in {"connected", "read"} => queueID[t] \in Queues
        /\ ~trespass /\ t \notin stale /\ queueID[t] \in Queues =>
              /\ queueID[t] \in enabled
              /\ pRead[queueID[t]][registerID[t]] = t

RtmpInv ==
    /\ TypeOK
    /\ Indexed
    /\ Boot
    /\ OneAdding
    /\ CamerasOwnQueues
    /\ ~clash => Table
    /\ HandlesOwned

\* The camera of an entry.
CameraOf(e) == <<rtmpUser[e].serial, rtmpUser[e].channel>>

\* Entries with a queue.
Live(e) == Filled(e) /\ rtmpUser[e].queueid \in Queues

\* The entry of thread t, and the entry it is about to find.
WorksOn(t, e) == Working(t) /\ i[t] = e
Finds(t, e) == pc[t] = "find" /\ chn[t] = rtmpUser[e].channel

\* An entry that names a queue is the entry of a camera on line with this queue.
EntriesNameQueues ==
    \A e \in Entries :
        Live(e) => /\ camera[CameraOf(e)].phase = "on"
                   /\ camera[CameraOf(e)].queue = rtmpUser[e].queueid

\* The queue of a camera that has no session yet has no readers.
NewQueuesUnread ==
    \A c \in Cameras :
        camera[c].phase \in {"queue", "entry"} =>
            \A s \in ReadSlots : pRead[camera[c].queue][s] = 0

(***************************************************************************)
(* The readers of the queue of an entry are the thread that works on it,   *)
(* or, when this thread has returned because no read pointer was left, the *)
(* thread that did; and nobody else holds a handle of this queue.          *)
(***************************************************************************)
EntryServed(e) ==
    LET q == rtmpUser[e].queueid
    IN  /\ \A t \in Threads : WorksOn(t, e) => \A s \in ReadSlots : pRead[q][s] \in {0, t}
        /\ \A t \in Threads : Finds(t, e) => \A s \in ReadSlots : pRead[q][s] = 0
        /\ \A t \in Threads : t \notin stale /\ queueID[t] = q => WorksOn(t, e)
        /\ \/ \E t \in Threads : WorksOn(t, e) \/ Finds(t, e)
           \/ \E t \in Threads : \A s \in ReadSlots : pRead[q][s] = t

ServedInv ==
    /\ ~clash => EntriesNameQueues
    /\ ~clash /\ ~trespass =>
          NewQueuesUnread /\ \A e \in Entries : Live(e) => EntryServed(e)
-----------------------------------------------------------------------------
(***************************************************************************)
(* Type correctness.                                                       *)
(***************************************************************************)

LEMMA ConstFacts ==
    /\ -1 \notin Channels /\ -1 \notin Queues /\ 0 \notin Queues
    /\ 0 \in ReadSlots /\ 0 \in 0 .. MaxAdds /\ 0 \in 0 .. MaxConf /\ 0 \in 0 .. RTMP_USR_NUM
    /\ 0 \notin Threads /\ Channels \subseteq Threads /\ Channels \subseteq Queues
    /\ FirstDvr \in SerialNumbers /\ "" \notin SerialNumbers
    /\ \A n \in Channels : n - 1 \in Entries
    /\ Channels \subseteq Nat /\ Queues \subseteq Nat /\ ReadSlots \subseteq Nat
<1>1. NumChannels \in Nat /\ QUEUE_CHN_MAX \in Nat /\ QUEUE_USE_MAX \in Nat \ {0}
      /\ MaxAdds \in Nat /\ MaxConf \in Nat /\ RTMP_USR_NUM \in Nat
  BY SessionAssumption
<1>2. NumChannels <= RTMP_USR_NUM /\ NumChannels < QUEUE_CHN_MAX
  BY SessionAssumption
<1>3. 1 .. NumChannels \subseteq Threads /\ Threads \subseteq Nat \ {0}
  BY SessionAssumption
<1>4. FirstDvr \in SerialNumbers /\ "" \notin SerialNumbers
  BY SessionAssumption
<1>5. -1 \notin Channels /\ -1 \notin Queues /\ 0 \notin Queues
  BY <1>1 DEF Channels, Queues
<1>6. 0 \in ReadSlots /\ 0 \in 0 .. MaxAdds /\ 0 \in 0 .. MaxConf /\ 0 \in 0 .. RTMP_USR_NUM
  BY <1>1 DEF ReadSlots
<1>7. 0 \notin Threads /\ Channels \subseteq Threads
  BY <1>3 DEF Channels
<1>8. Channels \subseteq Queues /\ \A n \in Channels : n - 1 \in Entries
  BY <1>1, <1>2 DEF Channels, Queues, Entries
<1>9. Channels \subseteq Nat /\ Queues \subseteq Nat /\ ReadSlots \subseteq Nat
  BY <1>1 DEF Channels, Queues, ReadSlots
<1> QED
  BY <1>4, <1>5, <1>6, <1>7, <1>8, <1>9

LEMMA TypeInit == Init => TypeOK
<1> SUFFICES ASSUME Init PROVE TypeOK
  OBVIOUS
<1>1. rtmpUser \in [Entries -> [channel : Channels \cup {-1},
                                 queueid : Queues \cup {-1, 0},
                                 enable : {0, 1},
                                 stat : Stats,
                                 serial : SerialNumbers \cup {""}]]
  BY DEF Init, Unused, Stats
<1>2. camera \in [Cameras -> [phase : {"off", "queue", "entry", "on", "del"},
                               queue : Queues \cup {0}]]
  <2>1. \A c \in Cameras : c[2] \in Queues
    BY ConstFacts DEF Cameras
  <2> QED
    BY <2>1 DEF Init
<1>3. adding \in Entries \cup {RTMP_USR_NUM} /\ enabled \subseteq Queues
  BY ConstFacts DEF Init
<1>4. pRead \in [Queues -> [ReadSlots -> Threads \cup {0}]]
  BY DEF Init
<1>5. /\ started \in BOOLEAN /\ announcing \in BOOLEAN /\ clash \in BOOLEAN
      /\ trespass \in BOOLEAN /\ stale \subseteq Threads
  BY DEF Init
<1>6. /\ adds \in 0 .. MaxAdds /\ conf \in 0 .. MaxConf
      /\ pc \in [Threads -> Labels] /\ chn \in [Threads -> Channels \cup {-1}]
      /\ i \in [Threads -> 0 .. RTMP_USR_NUM] /\ queueID \in [Threads -> Queues \cup {-1, 0}]
      /\ registerID \in [Threads -> ReadSlots] /\ used \in [Threads -> 0 .. MaxConf]
  BY ConstFacts DEF Init, Labels
<1> QED
  BY <1>1, <1>2, <1>3, <1>4, <1>5, <1>6 DEF TypeOK

\* The type of a table entry.
EntryType == [channel : Channels \cup {-1}, queueid : Queues \cup {-1, 0},
              enable : {0, 1}, stat : Stats, serial : SerialNumbers \cup {""}]

CameraType == [phase : {"off", "queue", "entry", "on", "del"}, queue : Queues \cup {0}]

\* A thread that returns leaves its variables well typed.
LEMMA TypeReturn ==
    ASSUME TypeOK, NEW t \in Threads, Return(t)
    PROVE  /\ pc' \in [Threads -> Labels]
           /\ chn' \in [Threads -> Channels \cup {-1}]
           /\ i' \in [Threads -> 0 .. RTMP_USR_NUM]
           /\ queueID' \in [Threads -> Queues \cup {-1, 0}]
           /\ registerID' \in [Threads -> ReadSlots]
           /\ used' \in [Threads -> 0 .. MaxConf]
           /\ stale' \subseteq Threads
  BY ConstFacts DEF TypeOK, Return, Goto, Labels

\* The three assignments of Clean to the entry.
LEMMA CleanEffect ==
    ASSUME NEW t \in Threads, i[t] \in Entries, rtmpUser \in [Entries -> EntryType], Clean(t)
    PROVE  /\ rtmpUser' \in [Entries -> EntryType]
           /\ rtmpUser'[i[t]].channel = -1 /\ rtmpUser'[i[t]].queueid = -1
           /\ rtmpUser'[i[t]].serial = rtmpUser[i[t]].serial
           /\ \A f \in Entries \ {i[t]} : rtmpUser'[f] = rtmpUser[f]
<1>1. rtmpUser' = [rtmpUser EXCEPT ![i[t]].channel = -1, ![i[t]].queueid = -1,
                                   ![i[t]].stat = "DISCONNECT"]
  BY DEF Clean
<1>2. \A f \in Entries \ {i[t]} : rtmpUser'[f] = rtmpUser[f]
  BY <1>1
<1>3. rtmpUser'[i[t]] = [[[rtmpUser[i[t]] EXCEPT !.channel = -1] EXCEPT !.queueid = -1]
                            EXCEPT !.stat = "DISCONNECT"]
  BY <1>1
<1>4. DOMAIN rtmpUser' = Entries /\ rtmpUser' = [f \in Entries |-> rtmpUser'[f]]
  BY <1>1
<1>5. rtmpUser[i[t]] \in EntryType
  OBVIOUS
<1>6. /\ rtmpUser'[i[t]] \in EntryType
      /\ rtmpUser'[i[t]].channel = -1 /\ rtmpUser'[i[t]].queueid = -1
      /\ rtmpUser'[i[t]].serial = rtmpUser[i[t]].serial
  BY <1>3, <1>5 DEF EntryType, Stats
<1> QED
  BY <1>2, <1>4, <1>6

LEMMA TypeStep ==
    ASSUME RtmpInv, [Next]_vars
    PROVE  TypeOK'
<1> USE DEF tableVars, bootVars, queueVars, threadVars, confVars
<1>0. TypeOK
  BY DEF RtmpInv
<1>u. rtmpUser \in [Entries -> EntryType]
  BY <1>0 DEF TypeOK, EntryType
<1>c. camera \in [Cameras -> CameraType]
  BY <1>0 DEF TypeOK, CameraType
<1>r. pRead \in [Queues -> [ReadSlots -> Threads \cup {0}]]
  BY <1>0 DEF TypeOK
<1>p. pc \in [Threads -> Labels]
  BY <1>0 DEF TypeOK
<1>1. CASE RtmpInit
  <2>1. rtmpUser' \in [Entries -> EntryType]
    <3>1. \A e \in Entries : e + 1 \in Channels => <<FirstDvr, e + 1>> \in Cameras
      BY ConstFacts DEF Cameras
    <3>2. \A e \in Entries : e + 1 \in Channels => camera[<<FirstDvr, e + 1>>].queue \in Queues \cup {0}
      BY <1>0, <3>1 DEF TypeOK
    <3> QED
      BY <1>1, <3>2, ConstFacts DEF RtmpInit, Session, Unused, Stats, EntryType
  <2>2. pc' \in [Threads -> Labels] /\ chn' \in [Threads -> Channels \cup {-1}]
        /\ started' \in BOOLEAN
    BY <1>1 DEF RtmpInit, Labels
  <2> QED
    BY <1>0, <1>1, <2>1, <2>2 DEF TypeOK, RtmpInit, EntryType
<1>2. ASSUME NEW c \in Cameras, CreateQueue(c) PROVE TypeOK'
  <2>1. PICK q \in Queues :
            /\ camera' = [camera EXCEPT ![c] = [phase |-> "queue", queue |-> q]]
            /\ enabled' = enabled \cup {q}
            /\ pRead' = [pRead EXCEPT ![q] = [s \in ReadSlots |-> 0]]
    BY <1>2 DEF CreateQueue, FreeQueues
  <2>2. camera' \in [Cameras -> CameraType]
    BY <1>c, <2>1 DEF CameraType
  <2>3. enabled' \subseteq Queues /\ pRead' \in [Queues -> [ReadSlots -> Threads \cup {0}]]
    BY <1>0, <2>1 DEF TypeOK
  <2>4. adds' \in 0 .. MaxAdds
    <3>1. MaxAdds \in Nat
      BY SessionAssumption
    <3>2. adds \in 0 .. MaxAdds /\ adds < MaxAdds /\ adds' = adds + 1
      BY <1>0, <1>2 DEF TypeOK, CreateQueue
    <3> QED
      BY <3>1, <3>2
  <2> QED
    BY <1>0, <1>2, <2>2, <2>3, <2>4 DEF TypeOK, CreateQueue, CameraType
<1>3. ASSUME NEW c \in Cameras, addCameraCallBack(c) PROVE TypeOK'
  <2>1. camera' \in [Cameras -> CameraType]
    <3>1. \/ camera' = [camera EXCEPT ![c].phase = "entry"]
          \/ camera' = [camera EXCEPT ![c].phase = "on"]
      BY <1>3 DEF addCameraCallBack
    <3> QED
      BY <1>c, <3>1 DEF CameraType
  <2>2. /\ rtmpUser' \in [Entries -> EntryType]
        /\ adding' \in Entries \cup {RTMP_USR_NUM}
        /\ clash' \in BOOLEAN
    <3>1. c[2] \in Channels
      BY DEF Cameras
    <3>2. \/ UNCHANGED <<rtmpUser, adding, clash>>
          \/ \E e \in Entries :
                /\ rtmpUser' = [rtmpUser EXCEPT ![e].channel = c[2]]
                /\ adding' = e
      BY <1>3 DEF addCameraCallBack
    <3>3. clash' \in BOOLEAN /\ adding \in Entries \cup {RTMP_USR_NUM}
      BY <1>0, <1>3 DEF TypeOK, addCameraCallBack
    <3>4. ASSUME NEW e \in Entries, rtmpUser' = [rtmpUser EXCEPT ![e].channel = c[2]]
          PROVE  rtmpUser' \in [Entries -> EntryType]
      BY <1>u, <3>1, <3>4 DEF EntryType
    <3> QED
      BY <1>u, <3>3, <3>2, <3>4
  <2> QED
    BY <1>0, <1>3, <2>1, <2>2 DEF TypeOK, addCameraCallBack, EntryType, CameraType
<1>4. ASSUME NEW c \in Cameras, AddedCamera(c) PROVE TypeOK'
  <2>1. adding \in Entries
    BY <1>4 DEF RtmpInv, OneAdding, AddedCamera
  <2>2. camera' \in [Cameras -> CameraType]
    <3>1. camera' = [camera EXCEPT ![c].phase = "on"]
      BY <1>4 DEF AddedCamera
    <3> QED
      BY <1>c, <3>1 DEF CameraType
  <2>3. rtmpUser' \in [Entries -> EntryType]
    <3>1. c[1] \in SerialNumbers /\ camera[c].queue \in Queues \cup {0}
      BY <1>0 DEF Cameras, TypeOK
    <3> QED
      BY <1>0, <1>4, <2>1, <3>1 DEF TypeOK, AddedCamera, EntryType, Session, Stats
  <2>4. pc' \in [Threads -> Labels] /\ chn' \in [Threads -> Channels \cup {-1}]
    BY <1>0, <1>4, <2>1 DEF TypeOK, AddedCamera, Labels
  <2> QED
    BY <1>0, <1>4, <2>2, <2>3, <2>4 DEF TypeOK, AddedCamera, EntryType, CameraType
<1>5. ASSUME NEW c \in Cameras, delCameraCallBack(c) PROVE TypeOK'
  <2>1. camera' \in [Cameras -> CameraType]
    BY <1>c, <1>5 DEF CameraType, delCameraCallBack
  <2>2. rtmpUser' \in [Entries -> EntryType]
    <3>1. c[1] \in SerialNumbers /\ c[2] \in Channels
      BY DEF Cameras
    <3> QED
      BY <1>0, <1>5, <3>1 DEF TypeOK, delCameraCallBack, SetRtmpUserPram, EntryType, Stats
  <2> QED
    BY <1>0, <1>5, <2>1, <2>2 DEF TypeOK, delCameraCallBack, EntryType, CameraType
<1>6. ASSUME NEW c \in Cameras, DisdroyQueue(c) PROVE TypeOK'
  <2>1. camera' \in [Cameras -> CameraType]
    BY <1>c, <1>6 DEF CameraType, DisdroyQueue
  <2>2. enabled' \subseteq Queues /\ pRead' \in [Queues -> [ReadSlots -> Threads \cup {0}]]
        /\ stale' \subseteq Threads
    BY <1>0, <1>6 DEF TypeOK, DisdroyQueue
  <2> QED
    BY <1>0, <1>6, <2>1, <2>2 DEF TypeOK, DisdroyQueue, CameraType
<1>7. CASE RtmpSetSerconfig
  <2>1. conf' \in 0 .. MaxConf
    <3>1. MaxConf \in Nat
      BY SessionAssumption
    <3>2. conf \in 0 .. MaxConf /\ conf < MaxConf /\ conf' = conf + 1
      BY <1>0, <1>7 DEF TypeOK, RtmpSetSerconfig
    <3> QED
      BY <3>1, <3>2
  <2> QED
    BY <1>0, <1>7, <2>1 DEF TypeOK, RtmpSetSerconfig
<1>8. CASE RtmpSetSerconfigMarks
  <2>1. rtmpUser' \in [Entries -> EntryType]
    BY <1>u, <1>8 DEF RtmpSetSerconfigMarks, EntryType, Stats
  <2> QED
    BY <1>0, <1>8, <2>1 DEF TypeOK, RtmpSetSerconfigMarks, EntryType
<1>9. CASE RtmpDeInit
  <2>1. rtmpUser' \in [Entries -> EntryType]
    BY <1>u, <1>9 DEF RtmpDeInit, EntryType, Stats
  <2> QED
    BY <1>0, <1>9, <2>1 DEF TypeOK, RtmpDeInit, EntryType
<1>10. ASSUME NEW t \in Threads, Find(t) PROVE TypeOK'
  <2>1. i' \in [Threads -> 0 .. RTMP_USR_NUM]
    BY <1>0, <1>10, FindFinds DEF TypeOK
  <2>2. pc' \in [Threads -> Labels]
    BY <1>0, <1>10 DEF TypeOK, Find, Goto, Labels
  <2> QED
    BY <1>0, <1>10, <2>1, <2>2 DEF TypeOK, Find
<1>11. ASSUME NEW t \in Threads, While(t) PROVE TypeOK'
  <2>1. pc' \in [Threads -> Labels] /\ used' \in [Threads -> 0 .. MaxConf]
    <3>1. \/ used' = [used EXCEPT ![t] = conf] /\ pc' = [pc EXCEPT ![t] = "connect"]
          \/ used' = used /\ pc' = [pc EXCEPT ![t] = "clean"]
      BY <1>11 DEF While, Goto
    <3>2. used \in [Threads -> 0 .. MaxConf] /\ conf \in 0 .. MaxConf
      BY <1>0 DEF TypeOK
    <3> QED
      BY <1>p, <3>1, <3>2 DEF Labels
  <2> QED
    BY <1>0, <1>11, <2>1 DEF TypeOK, While
<1>12. ASSUME NEW t \in Threads, Connect(t) \/ ConnectFails(t) \/ StopReading(t) PROVE TypeOK'
  <2>1. pc' \in [Threads -> Labels]
    BY <1>0, <1>12 DEF TypeOK, Connect, ConnectFails, StopReading, Goto, Labels
  <2> QED
    BY <1>0, <1>12, <2>1 DEF TypeOK, Connect, ConnectFails, StopReading
<1>13. ASSUME NEW t \in Threads, Regist(t) PROVE TypeOK'
  <2> DEFINE q == rtmpUser[i[t]].queueid
  <2>1. CASE \E s \in ReadSlots :
                /\ FreeReadSlot(q, s)
                /\ pRead' = [pRead EXCEPT ![q][s] = t]
                /\ queueID' = [queueID EXCEPT ![t] = q]
                /\ registerID' = [registerID EXCEPT ![t] = s]
                /\ stale' = stale \ {t}
                /\ Goto(t, "connected")
                /\ UNCHANGED <<chn, i, used>>
    <3>1. q \in Queues
      BY <1>0, <2>1 DEF FreeReadSlot, TypeOK
    <3> HIDE DEF q
    <3>2. /\ pRead' \in [Queues -> [ReadSlots -> Threads \cup {0}]]
          /\ queueID' \in [Threads -> Queues \cup {-1, 0}]
          /\ registerID' \in [Threads -> ReadSlots]
          /\ stale' \subseteq Threads
          /\ pc' \in [Threads -> Labels]
      <4>1. PICK s \in ReadSlots :
                /\ pRead' = [pRead EXCEPT ![q][s] = t]
                /\ queueID' = [queueID EXCEPT ![t] = q]
                /\ registerID' = [registerID EXCEPT ![t] = s]
                /\ stale' = stale \ {t}
                /\ pc' = [pc EXCEPT ![t] = "connected"]
        BY <2>1 DEF Goto
      <4>2. pRead' \in [Queues -> [ReadSlots -> Threads \cup {0}]]
        BY <1>r, <3>1, <4>1
      <4>3. pc' \in [Threads -> Labels]
        BY <1>p, <4>1 DEF Labels
      <4> QED
        BY <1>0, <3>1, <4>1, <4>2, <4>3 DEF TypeOK
    <3> QED
      BY <1>0, <1>13, <2>1, <3>2 DEF TypeOK, Regist
  <2>2. CASE Return(t) /\ UNCHANGED pRead
    BY <1>0, <1>13, <2>2, TypeReturn DEF TypeOK, Regist
  <2> QED
    BY <1>13, <2>1, <2>2 DEF Regist
<1>14. ASSUME NEW t \in Threads, Connected(t) \/ Clean(t) \/ CleanSerial(t) PROVE TypeOK'
  <2>1. i[t] \in Entries
    BY <1>14 DEF RtmpInv, Indexed, InLoop, Connected, Clean, CleanSerial
  <2>2. rtmpUser' \in [Entries -> EntryType]
    <3>1. CASE Clean(t)
      BY <1>u, <2>1, <3>1, CleanEffect
    <3>2. CASE Connected(t)
      BY <1>u, <2>1, <3>2 DEF Connected, EntryType, Stats
    <3>3. CASE CleanSerial(t)
      BY <1>u, <2>1, <3>3 DEF CleanSerial, EntryType, Stats
    <3> QED
      BY <1>14, <3>1, <3>2, <3>3
  <2>3. pc' \in [Threads -> Labels]
    BY <1>0, <1>14 DEF TypeOK, Connected, Clean, CleanSerial, Goto, Labels
  <2> QED
    BY <1>0, <1>14, <2>2, <2>3 DEF TypeOK, Connected, Clean, CleanSerial, EntryType
<1>15. ASSUME NEW t \in Threads, PushFails(t) PROVE TypeOK'
  <2>1. i[t] \in Entries
    BY <1>15 DEF RtmpInv, Indexed, InLoop, PushFails
  <2>2. rtmpUser' \in [Entries -> EntryType]
    <3>1. rtmpUser' = [rtmpUser EXCEPT ![i[t]].stat = "DISCONNECT"]
      BY <1>15 DEF PushFails
    <3> QED
      BY <1>u, <2>1, <3>1 DEF EntryType, Stats
  <2> QED
    BY <1>0, <1>15, <2>2 DEF TypeOK, PushFails, EntryType
<1>16. ASSUME NEW t \in Threads, UnRegist(t) PROVE TypeOK'
  <2>1. pRead' \in [Queues -> [ReadSlots -> Threads \cup {0}]] /\ trespass' \in BOOLEAN
    <3>1. \/ pRead' = [pRead EXCEPT ![queueID[t]][registerID[t]] = 0] /\ queueID[t] \in Queues
          \/ pRead' = pRead
      BY <1>16 DEF UnRegist
    <3>2. pRead' \in [Queues -> [ReadSlots -> Threads \cup {0}]]
      BY <1>r, <3>1
    <3>3. trespass' \in BOOLEAN
      BY <1>0, <1>16 DEF TypeOK, UnRegist
    <3> QED
      BY <3>2, <3>3
  <2>2. Return(t)
    BY <1>16 DEF UnRegist
  <2> QED
    BY <1>0, <1>16, <2>1, <2>2, TypeReturn DEF TypeOK, UnRegist
<1>17. CASE UNCHANGED vars
  BY <1>0, <1>17 DEF TypeOK, vars
<1> QED
  BY <1>1, <1>2, <1>3, <1>4, <1>5, <1>6, <1>7, <1>8, <1>9, <1>10, <1>11, <1>12, <1>13,
     <1>14, <1>15, <1>16, <1>17 DEF Next, RtmpProc
-----------------------------------------------------------------------------
(***************************************************************************)
(* Steps that claim or give back no entry and let no thread begin.         *)
(***************************************************************************)
Quiet ==
    /\ \A e \in Entries : /\ rtmpUser'[e].channel = rtmpUser[e].channel
                          /\ rtmpUser'[e].serial = rtmpUser[e].serial
    /\ adding' = adding /\ clash' = clash
    /\ \A t \in Threads :
          /\ pc'[t] = "find" => pc[t] = "find" /\ chn'[t] = chn[t]
          /\ Working(t)' => /\ Working(t) /\ i'[t] = i[t] /\ chn'[t] = chn[t]
                            /\ pc'[t] = "cleanSerial" <=> pc[t] = "cleanSerial"

QuietActions ==
    \/ \E c \in Cameras : \/ CreateQueue(c) \/ delCameraCallBack(c) \/ DisdroyQueue(c)
                          \/ /\ addCameraCallBack(c)
                             /\ UNCHANGED tableVars
    \/ RtmpSetSerconfig \/ RtmpSetSerconfigMarks \/ RtmpDeInit
    \/ \E t \in Threads : \/ While(t) \/ Connect(t) \/ ConnectFails(t) \/ Regist(t)
                          \/ Connected(t) \/ StopReading(t) \/ PushFails(t) \/ UnRegist(t)
    \/ UNCHANGED vars

LEMMA QuietSteps ==
    ASSUME RtmpInv, QuietActions
    PROVE  Quiet
<1> USE DEF tableVars, bootVars, queueVars, threadVars, confVars
<1>t. TypeOK
  BY DEF RtmpInv
<1>u. rtmpUser \in [Entries -> EntryType]
  BY <1>t DEF TypeOK, EntryType
<1>p. pc \in [Threads -> Labels]
  BY <1>t DEF TypeOK
<1>1. CASE \E c \in Cameras : CreateQueue(c) \/ DisdroyQueue(c)
                              \/ (addCameraCallBack(c) /\ UNCHANGED tableVars)
  <2>1. UNCHANGED <<rtmpUser, adding, clash, pc, chn, i>>
    BY <1>1 DEF CreateQueue, DisdroyQueue, addCameraCallBack
  <2> QED
    BY <2>1 DEF Quiet, Working
<1>2. CASE \E c \in Cameras : delCameraCallBack(c)
  <2>1. PICK c \in Cameras : delCameraCallBack(c)
    BY <1>2
  <2>2. UNCHANGED <<adding, clash, pc, chn, i>> /\ rtmpUser' = SetRtmpUserPram(c)
    BY <2>1 DEF delCameraCallBack
  <2>3. \A e \in Entries : /\ rtmpUser'[e].channel = rtmpUser[e].channel
                           /\ rtmpUser'[e].serial = rtmpUser[e].serial
    BY <2>2 DEF SetRtmpUserPram
  <2> QED
    BY <2>2, <2>3 DEF Quiet, Working
<1>3. CASE RtmpSetSerconfig \/ RtmpSetSerconfigMarks \/ RtmpDeInit
  <2>1. UNCHANGED <<adding, clash, pc, chn, i>>
    BY <1>3 DEF RtmpSetSerconfig, RtmpSetSerconfigMarks, RtmpDeInit
  <2>2. \A e \in Entries : /\ rtmpUser'[e].channel = rtmpUser[e].channel
                           /\ rtmpUser'[e].serial = rtmpUser[e].serial
    BY <1>u, <1>3 DEF RtmpSetSerconfig, RtmpSetSerconfigMarks, RtmpDeInit, EntryType
  <2> QED
    BY <2>1, <2>2 DEF Quiet, Working
<1>4. ASSUME NEW t \in Threads, While(t) \/ Connect(t) \/ ConnectFails(t) \/ StopReading(t)
      PROVE  Quiet
  <2>1. UNCHANGED <<rtmpUser, adding, clash, chn, i>>
    BY <1>4 DEF While, Connect, ConnectFails, StopReading
  <2>2. /\ pc[t] \in {"while", "connect", "read"}
        /\ \E l \in {"connect", "clean", "regist", "while"} : pc' = [pc EXCEPT ![t] = l]
    BY <1>4 DEF While, Connect, ConnectFails, StopReading, Goto
  <2> QED
    BY <1>p, <2>1, <2>2 DEF Quiet, Working
<1>5. ASSUME NEW t \in Threads, Regist(t) PROVE Quiet
  <2>1. UNCHANGED <<rtmpUser, adding, clash>> /\ pc[t] = "regist"
    BY <1>5 DEF Regist
  <2>2. CASE Goto(t, "connected") /\ UNCHANGED <<chn, i>>
    BY <1>p, <2>1, <2>2 DEF Quiet, Working, Goto
  <2>3. CASE Return(t)
    <3>1. \A u \in Threads \ {t} : pc'[u] = pc[u] /\ chn'[u] = chn[u] /\ i'[u] = i[u]
      BY <1>t, <2>3 DEF Return, Goto, TypeOK
    <3>2. pc'[t] = "none"
      BY <1>p, <2>3 DEF Return, Goto
    <3> QED
      BY <2>1, <3>1, <3>2 DEF Quiet, Working
  <2> QED
    BY <1>5, <2>2, <2>3 DEF Regist
<1>6. ASSUME NEW t \in Threads, Connected(t) \/ PushFails(t) PROVE Quiet
  <2>1. UNCHANGED <<adding, clash, chn, i>>
    BY <1>6 DEF Connected, PushFails
  <2>2. \A e \in Entries : /\ rtmpUser'[e].channel = rtmpUser[e].channel
                           /\ rtmpUser'[e].serial = rtmpUser[e].serial
    <3>1. \E v \in Stats : rtmpUser' = [rtmpUser EXCEPT ![i[t]].stat = v]
      BY <1>6 DEF Connected, PushFails, Stats
    <3>2. ASSUME NEW v \in Stats, rtmpUser' = [rtmpUser EXCEPT ![i[t]].stat = v],
                 NEW e \in Entries
          PROVE  /\ rtmpUser'[e].channel = rtmpUser[e].channel
                 /\ rtmpUser'[e].serial = rtmpUser[e].serial
      BY <1>u, <3>2 DEF EntryType
    <3> QED
      BY <3>1, <3>2
  <2>3. pc' = pc \/ (pc[t] = "connected" /\ pc' = [pc EXCEPT ![t] = "read"])
    BY <1>6 DEF Connected, PushFails, Goto
  <2> QED
    BY <1>p, <2>1, <2>2, <2>3 DEF Quiet, Working
<1>7. ASSUME NEW t \in Threads, UnRegist(t) PROVE Quiet
  <2>1. UNCHANGED <<rtmpUser, adding, clash>> /\ Return(t)
    BY <1>7 DEF UnRegist
  <2>2. \A u \in Threads \ {t} : pc'[u] = pc[u] /\ chn'[u] = chn[u] /\ i'[u] = i[u]
    BY <1>t, <2>1 DEF Return, Goto, TypeOK
  <2>3. pc'[t] = "none"
    BY <1>p, <2>1 DEF Return, Goto
  <2> QED
    BY <2>1, <2>2, <2>3 DEF Quiet, Working
<1>8. CASE UNCHANGED vars
  BY <1>8 DEF vars, Quiet, Working
<1> QED
  BY <1>1, <1>2, <1>3, <1>4, <1>5, <1>6, <1>7, <1>8 DEF QuietActions

\* Such a step leaves the table as it is.
LEMMA TableQuiet ==
    ASSUME Table, Quiet
    PROVE  Table'
<1>1. \A e \in Entries : Filled(e)' <=> Filled(e)
  BY DEF Quiet, Filled
<1>2. \A t \in Threads : Holding(t)' => Holding(t) /\ chn'[t] = chn[t]
  BY DEF Quiet, Holding
<1>3. ChannelsUnique'
  BY DEF Quiet, Table, ChannelsUnique
<1>4. Claimed'
  BY DEF Quiet, Table, Claimed
<1>5. FilledNamed'
  BY <1>1 DEF Quiet, Table, FilledNamed
<1>6. FindersFind'
  BY <1>1 DEF Quiet, Table, FindersFind
<1>7. WorkersHold'
  BY DEF Quiet, Table, WorkersHold
<1>8. ChannelsApart'
  BY <1>2 DEF Table, ChannelsApart
<1>9. EntriesApart'
  BY DEF Quiet, Table, EntriesApart
<1> QED
  BY <1>3, <1>4, <1>5, <1>6, <1>7, <1>8, <1>9 DEF Table
-----------------------------------------------------------------------------
(***************************************************************************)
(* The steps that do change who has which entry.                           *)
(***************************************************************************)

\* The table that RtmpInit sets up: entry e for channel e + 1.
LEMMA RtmpInitEffect ==
    ASSUME RtmpInv, RtmpInit
    PROVE  /\ \A e \in Entries :
                 /\ e + 1 \in Channels =>
                       /\ rtmpUser'[e].channel = e + 1
                       /\ rtmpUser'[e].serial = FirstDvr
                       /\ rtmpUser'[e].queueid = e + 1
                 /\ e + 1 \notin Channels => rtmpUser'[e].channel = -1
           /\ \A t \in Threads : /\ t \in Channels => pc'[t] = "find" /\ chn'[t] = t
                                 /\ t \notin Channels => pc'[t] = "none"
           /\ adding' = RTMP_USR_NUM
<1>1. \A e \in Entries : e + 1 \in Channels => camera[<<FirstDvr, e + 1>>].queue = e + 1
  <2> SUFFICES ASSUME NEW e \in Entries, e + 1 \in Channels
               PROVE  camera[<<FirstDvr, e + 1>>].queue = e + 1
    OBVIOUS
  <2> DEFINE c == <<FirstDvr, e + 1>>
  <2>1. c \in Cameras /\ c[1] = FirstDvr /\ c[2] = e + 1
    BY ConstFacts DEF Cameras
  <2>2. camera[c].queue = c[2]
    BY <2>1 DEF RtmpInv, Boot, RtmpInit
  <2> QED
    BY <2>1, <2>2
<1>2. rtmpUser' = [e \in Entries |->
                       IF e + 1 \in Channels
                       THEN Session(FirstDvr, e + 1, camera[<<FirstDvr, e + 1>>].queue)
                       ELSE Unused]
  BY DEF RtmpInit
<1>3. adding = RTMP_USR_NUM /\ adding' = adding
  BY DEF RtmpInit, RtmpInv, Boot
<1>4. \A t \in Threads : /\ t \in Channels => pc'[t] = "find" /\ chn'[t] = t
                         /\ t \notin Channels => pc'[t] = "none"
  BY DEF RtmpInit
<1> QED
  BY <1>1, <1>2, <1>3, <1>4 DEF Session, Unused

LEMMA TableRtmpInit ==
    ASSUME RtmpInv, RtmpInit
    PROVE  Table'
<1>0. /\ adding' = RTMP_USR_NUM /\ RTMP_USR_NUM \notin Entries
      /\ \A e \in Entries : /\ e \in Nat
                            /\ e + 1 \in Channels => rtmpUser'[e].channel = e + 1
                            /\ e + 1 \notin Channels => rtmpUser'[e].channel = -1
  BY RtmpInitEffect, EntriesNat
<1>1. \A e \in Entries : Filled(e)' <=> e + 1 \in Channels
  <2> SUFFICES ASSUME NEW e \in Entries PROVE Filled(e)' <=> e + 1 \in Channels
    OBVIOUS
  <2>1. e # adding' /\ e \in Nat
    BY <1>0
  <2>2. rtmpUser'[e].channel # -1 <=> e + 1 \in Channels
    BY <1>0
  <2> QED
    BY <2>1, <2>2 DEF Filled
<1>2. ChannelsUnique'
  BY <1>0 DEF ChannelsUnique
<1>3. Claimed' /\ FilledNamed'
  BY <1>1, RtmpInitEffect, ConstFacts, EntriesNat DEF Claimed, FilledNamed
<1>4. FindersFind'
  <2> SUFFICES ASSUME NEW t \in Threads, pc'[t] = "find"
               PROVE  /\ chn'[t] # -1
                      /\ \E e \in Entries : Filled(e)' /\ rtmpUser'[e].channel = chn'[t]
    BY DEF FindersFind
  <2>1. t \in Channels /\ chn'[t] = t /\ t \in Nat /\ t - 1 \in Entries
    BY RtmpInitEffect, ConstFacts
  <2>2. (t - 1) + 1 = t
    BY <2>1
  <2>3. Filled(t - 1)' /\ rtmpUser'[t - 1].channel = chn'[t]
    BY <2>1, <2>2, <1>1, RtmpInitEffect
  <2> QED
    BY <2>1, <2>3, ConstFacts
<1>5. \A t \in Threads : ~Working(t)' /\ (Holding(t)' => chn'[t] = t)
  BY RtmpInitEffect DEF Working, Holding
<1> QED
  BY <1>2, <1>3, <1>4, <1>5 DEF Table, WorkersHold, ChannelsApart, EntriesApart

\* A camera claims a free entry, and no entry has its channel yet.
LEMMA TableClaim ==
    ASSUME RtmpInv, Table, NEW c \in Cameras, NEW e \in Entries, FreeEntry(e),
           rtmpUser' = [rtmpUser EXCEPT ![e].channel = c[2]], adding' = e,
           adding = RTMP_USR_NUM,
           \A f \in Entries : rtmpUser[f].channel # c[2],
           UNCHANGED threadVars
    PROVE  Table'
<1>1. rtmpUser \in [Entries -> EntryType]
  BY DEF RtmpInv, TypeOK, EntryType
<1>2. /\ \A f \in Entries \ {e} : rtmpUser'[f] = rtmpUser[f]
      /\ rtmpUser'[e].channel = c[2] /\ rtmpUser[e].channel = -1 /\ rtmpUser[e].serial = ""
  BY <1>1 DEF EntryType, FreeEntry
<1>3. c[2] # -1
  BY ConstFacts DEF Cameras
<1>4. UNCHANGED <<pc, chn, i>>
  BY DEF threadVars
<1>5. \A t \in Threads : (Working(t)' <=> Working(t)) /\ (Holding(t)' <=> Holding(t))
  BY <1>4 DEF Working, Holding
<1>6. \A f \in Entries : Filled(f)' <=> Filled(f)
  BY <1>2, EntriesNat DEF Filled
<1>7. ChannelsUnique'
  <2> SUFFICES ASSUME NEW f \in Entries, NEW g \in Entries, f # g,
                      rtmpUser'[f].channel # -1
               PROVE  rtmpUser'[f].channel # rtmpUser'[g].channel
    BY DEF ChannelsUnique
  <2>1. CASE f # e /\ g # e
    <3>1. rtmpUser'[f] = rtmpUser[f] /\ rtmpUser'[g] = rtmpUser[g]
      BY <2>1, <1>2
    <3>2. rtmpUser[f].channel # -1 => rtmpUser[f].channel # rtmpUser[g].channel
      BY DEF Table, ChannelsUnique
    <3> QED
      BY <3>1, <3>2
  <2>2. CASE f = e \/ g = e
    BY <2>2, <1>2
  <2> QED
    BY <2>1, <2>2
<1>8. Claimed' /\ FilledNamed'
  BY <1>2, <1>3, <1>6 DEF Table, Claimed, FilledNamed, Filled
<1>9. FindersFind'
  <2> SUFFICES ASSUME NEW t \in Threads, pc[t] = "find"
               PROVE  /\ chn[t] # -1
                      /\ \E f \in Entries : Filled(f)' /\ rtmpUser'[f].channel = chn[t]
    BY <1>4 DEF FindersFind
  <2>1. PICK f \in Entries : Filled(f) /\ rtmpUser[f].channel = chn[t] /\ chn[t] # -1
    BY DEF Table, FindersFind
  <2> QED
    BY <1>2, <1>6, <2>1 DEF Filled
<1>10. WorkersHold'
  <2> SUFFICES ASSUME NEW t \in Threads, Working(t)
               PROVE  /\ i[t] \in Entries
                      /\ i[t] # e
                      /\ pc[t] # "cleanSerial" => /\ rtmpUser'[i[t]].channel = chn[t]
                                                  /\ chn[t] # -1
                      /\ pc[t] = "cleanSerial" => /\ rtmpUser'[i[t]].channel = -1
                                                  /\ rtmpUser'[i[t]].serial # ""
    BY <1>4, <1>5 DEF WorkersHold
  <2>1. /\ i[t] \in Entries
        /\ pc[t] # "cleanSerial" => /\ rtmpUser[i[t]].channel = chn[t]
                                    /\ chn[t] # -1
        /\ pc[t] = "cleanSerial" => /\ rtmpUser[i[t]].channel = -1
                                    /\ rtmpUser[i[t]].serial # ""
    BY DEF Table, WorkersHold
  <2>2. i[t] # e
    BY <2>1, <1>2
  <2> QED
    BY <2>1, <2>2, <1>2
<1>11. ChannelsApart' /\ EntriesApart'
  BY <1>4, <1>5 DEF Table, ChannelsApart, EntriesApart
<1> QED
  BY <1>7, <1>8, <1>9, <1>10, <1>11 DEF Table

\* The entry is filled in, and its thread begins.
LEMMA TableAdded ==
    ASSUME RtmpInv, Table, NEW c \in Cameras, AddedCamera(c)
    PROVE  Table'
<1>1. rtmpUser \in [Entries -> EntryType] /\ pc \in [Threads -> Labels]
      /\ chn \in [Threads -> Channels \cup {-1}] /\ camera \in [Cameras -> CameraType]
  BY DEF RtmpInv, TypeOK, EntryType, CameraType
<1>2. adding \in Entries /\ adding # RTMP_USR_NUM
  BY EntriesNat DEF RtmpInv, OneAdding, AddedCamera
<1>3. /\ \A f \in Entries \ {adding} : rtmpUser'[f] = rtmpUser[f]
      /\ rtmpUser'[adding].channel = rtmpUser[adding].channel
      /\ rtmpUser'[adding].serial = c[1]
      /\ adding' = RTMP_USR_NUM
  <2>1. rtmpUser' = [rtmpUser EXCEPT ![adding] =
                        Session(c[1], rtmpUser[adding].channel, camera[c].queue)]
    BY DEF AddedCamera
  <2>2. adding' = RTMP_USR_NUM
    BY DEF AddedCamera
  <2> QED
    BY <1>1, <1>2, <2>1, <2>2 DEF Session
<1>4. c[1] # ""
  BY ConstFacts DEF Cameras
<1>5. PICK t \in Threads : /\ pc[t] = "none"
                           /\ pc' = [pc EXCEPT ![t] = "find"]
                           /\ chn' = [chn EXCEPT ![t] = rtmpUser[adding].channel]
  BY DEF AddedCamera
<1>6. /\ pc'[t] = "find" /\ chn'[t] = rtmpUser[adding].channel
      /\ \A u \in Threads \ {t} : pc'[u] = pc[u] /\ chn'[u] = chn[u]
      /\ i' = i
  BY <1>1, <1>5 DEF AddedCamera
<1>7. /\ \A u \in Threads \ {t} : (Working(u)' <=> Working(u)) /\ (Holding(u)' <=> Holding(u))
      /\ ~Working(t)' /\ ~Working(t)
  BY <1>5, <1>6 DEF Working, Holding
<1>8. rtmpUser[adding].channel # -1
  BY <1>2 DEF Table, Claimed
<1>9. \A f \in Entries : Filled(f)' <=> Filled(f) \/ f = adding
  BY <1>3, <1>8, EntriesNat DEF Filled
<1>10. ChannelsUnique'
  BY <1>3 DEF Table, ChannelsUnique
<1>11. Claimed' /\ FilledNamed'
  BY <1>3, <1>4, <1>9, EntriesNat DEF Table, Claimed, FilledNamed, Filled
<1>12. FindersFind'
  <2> SUFFICES ASSUME NEW u \in Threads, pc'[u] = "find"
               PROVE  /\ chn'[u] # -1
                      /\ \E f \in Entries : Filled(f)' /\ rtmpUser'[f].channel = chn'[u]
    BY DEF FindersFind
  <2>1. CASE u = t
    BY <2>1, <1>2, <1>3, <1>6, <1>8, <1>9
  <2>2. CASE u # t
    <3>1. pc[u] = "find" /\ chn'[u] = chn[u]
      BY <2>2, <1>6
    <3>2. PICK f \in Entries : Filled(f) /\ rtmpUser[f].channel = chn[u] /\ chn[u] # -1
      BY <3>1 DEF Table, FindersFind
    <3> QED
      BY <3>1, <3>2, <1>3, <1>9
  <2> QED
    BY <2>1, <2>2
<1>13. WorkersHold'
  <2> SUFFICES ASSUME NEW u \in Threads, Working(u), u # t
               PROVE  /\ i[u] \in Entries
                      /\ i[u] # RTMP_USR_NUM
                      /\ pc[u] # "cleanSerial" => /\ rtmpUser'[i[u]].channel = chn[u]
                                                  /\ chn[u] # -1
                      /\ pc[u] = "cleanSerial" => /\ rtmpUser'[i[u]].channel = -1
                                                  /\ rtmpUser'[i[u]].serial # ""
    BY <1>3, <1>6, <1>7 DEF WorkersHold
  <2> QED
    BY <1>3, EntriesNat DEF Table, WorkersHold
<1>14. ChannelsApart'
  <2>1. ASSUME NEW u \in Threads, u # t, Holding(u) PROVE chn[u] # rtmpUser[adding].channel
    <3>1. \E f \in Entries : f # adding /\ rtmpUser[f].channel = chn[u] /\ chn[u] # -1
      BY <2>1 DEF Holding, Table, FindersFind, WorkersHold, Filled
    <3> QED
      BY <3>1, <1>2 DEF Table, ChannelsUnique
  <2> QED
    BY <2>1, <1>6, <1>7 DEF Table, ChannelsApart
<1>15. EntriesApart'
  BY <1>6, <1>7 DEF Table, EntriesApart
<1> QED
  BY <1>10, <1>11, <1>12, <1>13, <1>14, <1>15 DEF Table

\* The search finds the entry of the thread's channel.
LEMMA TableFind ==
    ASSUME RtmpInv, Table, NEW t \in Threads, Find(t)
    PROVE  Table'
<1>1. TypeOK /\ pc \in [Threads -> Labels] /\ i \in [Threads -> 0 .. RTMP_USR_NUM]
  BY DEF RtmpInv, TypeOK
<1>2. UNCHANGED <<rtmpUser, adding, chn>> /\ pc[t] = "find" /\ pc' = [pc EXCEPT ![t] = "while"]
  BY DEF Find, Goto, tableVars
<1>3. PICK e \in Entries : Filled(e) /\ rtmpUser[e].channel = chn[t] /\ chn[t] # -1
  BY <1>2 DEF Table, FindersFind
<1>4. /\ i'[t] \in Entries /\ rtmpUser[i'[t]].channel = chn[t]
      /\ \A u \in Threads \ {t} : i'[u] = i[u]
  BY <1>1, <1>3, FindFinds
<1>5. i'[t] = e
  BY <1>3, <1>4 DEF Table, ChannelsUnique
<1>6. pc'[t] = "while" /\ \A u \in Threads \ {t} : pc'[u] = pc[u]
  BY <1>1, <1>2
<1>7. /\ \A u \in Threads : Holding(u)' <=> Holding(u)
      /\ \A u \in Threads \ {t} : Working(u)' <=> Working(u)
  BY <1>2, <1>6 DEF Holding, Working
<1>8. \A f \in Entries : Filled(f)' <=> Filled(f)
  BY <1>2 DEF Filled
<1>9. ChannelsUnique' /\ Claimed' /\ FilledNamed'
  BY <1>2, <1>8 DEF Table, ChannelsUnique, Claimed, FilledNamed
<1>10. FindersFind'
  BY <1>2, <1>6, <1>8 DEF Table, FindersFind
<1>11. WorkersHold'
  <2> SUFFICES ASSUME NEW u \in Threads, Working(u)'
               PROVE  /\ i'[u] \in Entries
                      /\ i'[u] # adding
                      /\ pc'[u] # "cleanSerial" => /\ rtmpUser[i'[u]].channel = chn[u]
                                                   /\ chn[u] # -1
                      /\ pc'[u] = "cleanSerial" => /\ rtmpUser[i'[u]].channel = -1
                                                   /\ rtmpUser[i'[u]].serial # ""
    BY <1>2 DEF WorkersHold
  <2>1. CASE u = t
    BY <2>1, <1>3, <1>5, <1>6 DEF Filled
  <2>2. CASE u # t
    BY <2>2, <1>4, <1>6, <1>7 DEF Table, WorkersHold
  <2> QED
    BY <2>1, <2>2
<1>12. ChannelsApart'
  BY <1>2, <1>7 DEF Table, ChannelsApart
<1>13. EntriesApart'
  <2>1. ASSUME NEW u \in Threads, u # t, Working(u) PROVE i[u] # e
    <3>1. CASE pc[u] = "cleanSerial"
      BY <2>1, <3>1, <1>3 DEF Table, WorkersHold
    <3>2. CASE pc[u] # "cleanSerial"
      <4>1. Holding(u) /\ Holding(t)
        BY <2>1, <3>2, <1>2 DEF Holding
      <4>2. chn[u] # chn[t]
        BY <2>1, <4>1 DEF Table, ChannelsApart
      <4> QED
        BY <2>1, <3>2, <4>2, <1>3 DEF Table, WorkersHold
    <3> QED
      BY <3>1, <3>2
  <2> QED
    BY <2>1, <1>4, <1>5, <1>7 DEF Table, EntriesApart
<1> QED
  BY <1>9, <1>10, <1>11, <1>12, <1>13 DEF Table

\* The entry is given back in two steps.
LEMMA TableClean ==
    ASSUME RtmpInv, Table, NEW t \in Threads, Clean(t)
    PROVE  Table'
<1>1. rtmpUser \in [Entries -> EntryType] /\ pc \in [Threads -> Labels]
  BY DEF RtmpInv, TypeOK, EntryType
<1>2. UNCHANGED <<adding, chn, i>> /\ pc[t] = "clean" /\ pc' = [pc EXCEPT ![t] = "cleanSerial"]
  BY DEF Clean, Goto
<1>3. pc'[t] = "cleanSerial" /\ \A u \in Threads \ {t} : pc'[u] = pc[u]
  BY <1>1, <1>2
<1>4. /\ \A u \in Threads : Working(u)' <=> Working(u)
      /\ \A u \in Threads \ {t} : Holding(u)' <=> Holding(u)
      /\ Working(t) /\ Holding(t) /\ ~Holding(t)'
  BY <1>2, <1>3 DEF Holding, Working
<1>5. i[t] \in Entries /\ i[t] # adding /\ rtmpUser[i[t]].channel = chn[t] /\ chn[t] # -1
  BY <1>2, <1>4 DEF Table, WorkersHold
<1>6. /\ rtmpUser'[i[t]].channel = -1
      /\ rtmpUser'[i[t]].serial = rtmpUser[i[t]].serial
      /\ \A f \in Entries \ {i[t]} : rtmpUser'[f] = rtmpUser[f]
  BY <1>1, <1>5, CleanEffect
<1>7. Filled(i[t]) /\ rtmpUser[i[t]].serial # ""
  BY <1>5 DEF Filled, Table, FilledNamed
<1>8. \A f \in Entries : Filled(f)' <=> Filled(f) /\ f # i[t]
  BY <1>2, <1>6 DEF Filled
<1>9. ChannelsUnique'
  <2> SUFFICES ASSUME NEW f \in Entries, NEW g \in Entries, f # g,
                      rtmpUser'[f].channel # -1
               PROVE  rtmpUser'[f].channel # rtmpUser'[g].channel
    BY DEF ChannelsUnique
  <2>1. f # i[t] /\ rtmpUser'[f] = rtmpUser[f]
    BY <1>6
  <2>2. rtmpUser[f].channel # rtmpUser[g].channel
    BY <2>1 DEF Table, ChannelsUnique
  <2> QED
    BY <2>1, <2>2, <1>6
<1>10. Claimed' /\ FilledNamed'
  BY <1>2, <1>5, <1>6, <1>8 DEF Table, Claimed, FilledNamed
<1>11. FindersFind'
  <2> SUFFICES ASSUME NEW u \in Threads, pc'[u] = "find"
               PROVE  /\ chn[u] # -1
                      /\ \E f \in Entries : Filled(f)' /\ rtmpUser'[f].channel = chn[u]
    BY <1>2 DEF FindersFind
  <2>1. u # t /\ pc[u] = "find" /\ Holding(u)
    BY <1>3 DEF Holding
  <2>2. PICK f \in Entries : Filled(f) /\ rtmpUser[f].channel = chn[u] /\ chn[u] # -1
    BY <2>1 DEF Table, FindersFind
  <2>3. chn[u] # chn[t]
    BY <2>1, <1>4 DEF Table, ChannelsApart
  <2>4. f # i[t]
    BY <2>2, <2>3, <1>5
  <2> QED
    BY <2>2, <2>4, <1>6, <1>8
<1>12. WorkersHold'
  <2> SUFFICES ASSUME NEW u \in Threads, Working(u)
               PROVE  /\ i[u] \in Entries
                      /\ i[u] # adding
                      /\ pc'[u] # "cleanSerial" => /\ rtmpUser'[i[u]].channel = chn[u]
                                                   /\ chn[u] # -1
                      /\ pc'[u] = "cleanSerial" => /\ rtmpUser'[i[u]].channel = -1
                                                   /\ rtmpUser'[i[u]].serial # ""
    BY <1>2, <1>4 DEF WorkersHold
  <2>1. CASE u = t
    BY <2>1, <1>3, <1>5, <1>6, <1>7
  <2>2. CASE u # t
    <3>1. i[u] # i[t]
      BY <2>2, <1>4 DEF Table, EntriesApart
    <3> QED
      BY <2>2, <3>1, <1>3, <1>6 DEF Table, WorkersHold
  <2> QED
    BY <2>1, <2>2
<1>13. ChannelsApart' /\ EntriesApart'
  BY <1>2, <1>4 DEF Table, ChannelsApart, EntriesApart
<1> QED
  BY <1>9, <1>10, <1>11, <1>12, <1>13 DEF Table

LEMMA TableCleanSerial ==
    ASSUME RtmpInv, Table, NEW t \in Threads, CleanSerial(t)
    PROVE  Table'
<1>1. rtmpUser \in [Entries -> EntryType] /\ pc \in [Threads -> Labels]
  BY DEF RtmpInv, TypeOK, EntryType
<1>2. UNCHANGED <<adding, chn, i>> /\ pc[t] = "cleanSerial" /\ pc' = [pc EXCEPT ![t] = "unregist"]
      /\ rtmpUser' = [rtmpUser EXCEPT ![i[t]].serial = ""]
  BY DEF CleanSerial, Goto
<1>3. pc'[t] = "unregist" /\ \A u \in Threads \ {t} : pc'[u] = pc[u]
  BY <1>1, <1>2
<1>4. /\ \A u \in Threads \ {t} : Working(u)' <=> Working(u)
      /\ \A u \in Threads : Holding(u)' <=> Holding(u)
      /\ Working(t) /\ ~Working(t)'
  BY <1>2, <1>3 DEF Holding, Working
<1>5. i[t] \in Entries /\ i[t] # adding /\ rtmpUser[i[t]].channel = -1
  BY <1>2, <1>4 DEF Table, WorkersHold
<1>6. /\ \A f \in Entries : rtmpUser'[f].channel = rtmpUser[f].channel
      /\ \A f \in Entries \ {i[t]} : rtmpUser'[f] = rtmpUser[f]
  BY <1>1, <1>2, <1>5 DEF EntryType
<1>7. \A f \in Entries : (Filled(f)' <=> Filled(f)) /\ (Filled(f) => f # i[t])
  BY <1>2, <1>5, <1>6 DEF Filled
<1>8. ChannelsUnique' /\ Claimed'
  <2>1. adding' = adding
    BY <1>2
  <2> QED
    BY <2>1, <1>6 DEF Table, ChannelsUnique, Claimed
<1>9. FilledNamed'
  BY <1>6, <1>7 DEF Table, FilledNamed
<1>10. FindersFind'
  BY <1>2, <1>3, <1>6, <1>7 DEF Table, FindersFind
<1>11. WorkersHold'
  <2> SUFFICES ASSUME NEW u \in Threads, Working(u), u # t
               PROVE  /\ i[u] \in Entries
                      /\ i[u] # adding
                      /\ pc[u] # "cleanSerial" => /\ rtmpUser'[i[u]].channel = chn[u]
                                                  /\ chn[u] # -1
                      /\ pc[u] = "cleanSerial" => /\ rtmpUser'[i[u]].channel = -1
                                                  /\ rtmpUser'[i[u]].serial # ""
    BY <1>2, <1>3, <1>4 DEF WorkersHold
  <2>1. i[u] # i[t]
    BY <1>4 DEF Table, EntriesApart
  <2> QED
    BY <2>1, <1>6 DEF Table, WorkersHold
<1>12. ChannelsApart' /\ EntriesApart'
  BY <1>2, <1>4 DEF Table, ChannelsApart, EntriesApart
<1> QED
  BY <1>8, <1>9, <1>10, <1>11, <1>12 DEF Table

\* Every step that is not one of these is quiet.
LEMMA StepKinds ==
    ASSUME [Next]_vars
    PROVE  \/ RtmpInit
           \/ \E c \in Cameras : AddedCamera(c)
           \/ \E c \in Cameras : addCameraCallBack(c) /\ ~UNCHANGED tableVars
           \/ \E t \in Threads : Find(t) \/ Clean(t) \/ CleanSerial(t)
           \/ QuietActions
  BY DEF Next, RtmpProc, QuietActions

LEMMA TableStep ==
    ASSUME RtmpInv, [Next]_vars, ~clash'
    PROVE  Table'
<1> USE DEF tableVars
<1>1. CASE RtmpInit
  BY <1>1, TableRtmpInit
<1>2. ASSUME NEW c \in Cameras, AddedCamera(c) PROVE Table'
  BY <1>2, TableAdded DEF AddedCamera, RtmpInv
<1>3. ASSUME NEW c \in Cameras, addCameraCallBack(c), ~UNCHANGED tableVars PROVE Table'
  <2>1. PICK e \in Entries :
            /\ FreeEntry(e)
            /\ rtmpUser' = [rtmpUser EXCEPT ![e].channel = c[2]]
            /\ adding' = e
            /\ clash' = (clash \/ \E f \in Entries : rtmpUser[f].channel = c[2])
    BY <1>3 DEF addCameraCallBack
  <2>2. ~clash /\ \A f \in Entries : rtmpUser[f].channel # c[2]
    BY <2>1
  <2>3. adding = RTMP_USR_NUM /\ UNCHANGED threadVars
    BY <1>3 DEF addCameraCallBack
  <2> QED
    BY <2>1, <2>2, <2>3, TableClaim DEF RtmpInv
<1>4. ASSUME NEW t \in Threads, Find(t) \/ Clean(t) \/ CleanSerial(t) PROVE Table'
  <2>1. Table
    BY <1>4 DEF Find, Clean, CleanSerial, RtmpInv
  <2> QED
    BY <1>4, <2>1, TableFind, TableClean, TableCleanSerial
<1>5. CASE QuietActions
  <2>1. Quiet
    BY <1>5, QuietSteps
  <2>2. Table
    BY <2>1 DEF Quiet, RtmpInv
  <2> QED
    BY <2>1, <2>2, TableQuiet
<1> QED
  BY <1>1, <1>2, <1>3, <1>4, <1>5, StepKinds
-----------------------------------------------------------------------------
(***************************************************************************)
(* The other parts of the invariant.                                       *)
(***************************************************************************)
LEMMA IndexedStep ==
    ASSUME RtmpInv, [Next]_vars
    PROVE  Indexed'
<1> USE DEF tableVars, bootVars, queueVars, threadVars, confVars
<1>t. TypeOK /\ Indexed /\ pc \in [Threads -> Labels] /\ i \in [Threads -> 0 .. RTMP_USR_NUM]
  BY DEF RtmpInv, TypeOK, Indexed
<1>1. CASE UNCHANGED <<pc, i>>
  BY <1>t, <1>1 DEF Indexed
<1>2. CASE RtmpInit
  BY <1>2 DEF Indexed, RtmpInit, InLoop
<1>3. ASSUME NEW c \in Cameras, AddedCamera(c) PROVE Indexed'
  BY <1>t, <1>3 DEF Indexed, AddedCamera, InLoop
<1>4. ASSUME NEW t \in Threads, Find(t) PROVE Indexed'
  <2>1. pc' = [pc EXCEPT ![t] = "while"] /\ \A u \in Threads \ {t} : i'[u] = i[u]
    BY <1>t, <1>4, FindFinds DEF Find, Goto
  <2> QED
    BY <1>t, <2>1 DEF Indexed, InLoop
<1>5. ASSUME NEW t \in Threads, While(t) PROVE Indexed'
  BY <1>t, <1>5 DEF Indexed, While, Goto
<1>6. ASSUME NEW t \in Threads, Connect(t) \/ ConnectFails(t) \/ Connected(t) \/ StopReading(t)
                                \/ Clean(t) \/ CleanSerial(t)
      PROVE  Indexed'
  <2>1. /\ i' = i /\ pc[t] \in InLoop
        /\ \E l \in Labels : pc' = [pc EXCEPT ![t] = l]
    BY <1>6 DEF Connect, ConnectFails, Connected, StopReading, Clean, CleanSerial, Goto, InLoop,
                Labels
  <2> QED
    BY <1>t, <2>1 DEF Indexed
<1>7. ASSUME NEW t \in Threads, Return(t) PROVE Indexed'
  BY <1>t, <1>7 DEF Indexed, Return, Goto, InLoop
<1>8. ASSUME NEW t \in Threads, Regist(t) PROVE Indexed'
  <2>1. CASE Goto(t, "connected") /\ UNCHANGED <<chn, i, used>>
    BY <1>t, <1>8, <2>1 DEF Indexed, InLoop, Goto, Regist
  <2> QED
    BY <1>7, <1>8, <2>1 DEF Regist
<1>9. ASSUME NEW t \in Threads, UnRegist(t) PROVE Indexed'
  BY <1>7, <1>9 DEF UnRegist
<1>10. ASSUME NEW c \in Cameras, CreateQueue(c) \/ addCameraCallBack(c) \/ delCameraCallBack(c)
                                 \/ DisdroyQueue(c)
       PROVE  UNCHANGED <<pc, i>>
  BY <1>10 DEF CreateQueue, addCameraCallBack, delCameraCallBack, DisdroyQueue
<1>11. ASSUME RtmpSetSerconfig \/ RtmpSetSerconfigMarks \/ RtmpDeInit \/ UNCHANGED vars
              \/ \E t \in Threads : PushFails(t)
       PROVE  UNCHANGED <<pc, i>>
  BY <1>11 DEF RtmpSetSerconfig, RtmpSetSerconfigMarks, RtmpDeInit, vars, PushFails
<1> QED
  BY <1>1, <1>2, <1>3, <1>4, <1>5, <1>6, <1>8, <1>9, <1>10, <1>11 DEF Next, RtmpProc

\* Before RtmpInit no other step is possible.
LEMMA BootStep ==
    ASSUME RtmpInv, [Next]_vars
    PROVE  Boot'
<1> USE DEF tableVars, bootVars, queueVars, threadVars, confVars
<1>1. CASE started'
  BY <1>1 DEF Boot
<1>2. CASE ~started'
  <2>1. ~started
    BY <1>2 DEF Next, vars, RtmpInit, CreateQueue, addCameraCallBack, AddedCamera,
                delCameraCallBack, DisdroyQueue, RtmpSetSerconfig, RtmpSetSerconfigMarks,
                RtmpDeInit, RtmpProc, Find, While, Connect, Regist, Connected, StopReading,
                Clean, CleanSerial, UnRegist, ConnectFails, PushFails
  <2>2. /\ \A t \in Threads : pc[t] = "none"
        /\ \A c \in Cameras : camera[c].phase \in {"on", "off"}
    BY <2>1 DEF RtmpInv, Boot
  <2>3. CASE UNCHANGED <<started, pc, rtmpUser, camera, adding, announcing, pRead>>
    <3>1. Boot
      BY DEF RtmpInv
    <3> QED
      BY <2>3, <3>1 DEF Boot
  <2>4. ~RtmpInit
    BY <1>2 DEF RtmpInit
  <2>5. ASSUME NEW c \in Cameras
        PROVE  ~(CreateQueue(c) \/ addCameraCallBack(c) \/ AddedCamera(c)
                 \/ delCameraCallBack(c) \/ DisdroyQueue(c))
    BY <2>1, <2>2 DEF CreateQueue, addCameraCallBack, AddedCamera, delCameraCallBack, DisdroyQueue
  <2>6. ASSUME NEW t \in Threads
        PROVE  ~(RtmpProc(t) \/ ConnectFails(t) \/ PushFails(t))
    BY <2>2 DEF RtmpProc, Find, While, Connect, Regist, Connected, StopReading, Clean,
                CleanSerial, UnRegist, ConnectFails, PushFails
  <2>7. ASSUME RtmpSetSerconfigMarks PROVE Boot'
    <3>1. announcing
      BY <2>7 DEF RtmpSetSerconfigMarks
    <3> QED
      BY <2>1, <3>1 DEF RtmpInv, Boot
  <2> QED
    BY <2>1, <2>3, <2>4, <2>5, <2>6, <2>7 DEF Next, vars, RtmpSetSerconfig, RtmpDeInit
<1> QED
  BY <1>1, <1>2

\* Only addCameraCallBack brings a camera into the phase "entry".
LEMMA OneAddingStep ==
    ASSUME RtmpInv, [Next]_vars
    PROVE  OneAdding'
<1> USE DEF tableVars, bootVars, queueVars, threadVars, confVars
<1>t. TypeOK /\ camera \in [Cameras -> CameraType] /\ rtmpUser \in [Entries -> EntryType]
      /\ OneAdding
  BY DEF RtmpInv, TypeOK, CameraType, EntryType
<1>2. ASSUME NEW c \in Cameras, addCameraCallBack(c), ~UNCHANGED tableVars PROVE OneAdding'
  <2>1. PICK e \in Entries :
            /\ rtmpUser' = [rtmpUser EXCEPT ![e].channel = c[2]]
            /\ adding' = e
            /\ camera' = [camera EXCEPT ![c].phase = "entry"]
    BY <1>2 DEF addCameraCallBack
  <2>2. adding = RTMP_USR_NUM
    BY <1>2 DEF addCameraCallBack
  <2>3. \A d \in Cameras : camera[d].phase # "entry"
    BY <1>t, <2>2, EntriesNat DEF OneAdding
  <2>4. \A d \in Cameras : camera'[d].phase = "entry" => d = c
    BY <1>t, <2>1, <2>3 DEF CameraType
  <2>5. rtmpUser'[e].channel = c[2]
    BY <1>t, <2>1 DEF EntryType
  <2> QED
    BY <2>1, <2>4, <2>5 DEF OneAdding
<1>3. ASSUME NEW c \in Cameras, AddedCamera(c) PROVE OneAdding'
  <2>1. camera[c].phase = "entry" /\ camera' = [camera EXCEPT ![c].phase = "on"]
    BY <1>3 DEF AddedCamera
  <2>2. \A d \in Cameras : camera[d].phase = "entry" => d = c
    BY <1>t, <2>1 DEF OneAdding
  <2>3. \A d \in Cameras : camera'[d].phase # "entry"
    BY <1>t, <2>1, <2>2 DEF CameraType
  <2> QED
    BY <2>3 DEF OneAdding
<1>4. CASE RtmpInit
  <2>1. \A c \in Cameras : camera'[c].phase # "entry"
    <3>1. \A c \in Cameras : camera[c].phase \in {"on", "off"}
      BY <1>4 DEF RtmpInv, Boot, RtmpInit
    <3> QED
      BY <1>4, <3>1 DEF RtmpInit
  <2> QED
    BY <2>1 DEF OneAdding
<1>5. ASSUME NEW t \in Threads, Find(t) PROVE OneAdding'
  BY <1>t, <1>5 DEF OneAdding, Find
<1>6. ASSUME NEW t \in Threads, Clean(t) PROVE OneAdding'
  <2>1. camera' = camera /\ adding' = adding /\ clash' = clash /\ pc[t] = "clean"
    BY <1>6 DEF Clean
  <2>2. i[t] \in Entries
    BY <2>1 DEF RtmpInv, Indexed, InLoop
  <2>3. ~clash => i[t] # adding
    BY <2>1 DEF RtmpInv, Table, WorkersHold, Working
  <2>4. \A e \in Entries \ {i[t]} : rtmpUser'[e] = rtmpUser[e]
    BY <1>t, <1>6, <2>2, CleanEffect
  <2> QED
    BY <1>t, <2>1, <2>3, <2>4 DEF OneAdding
<1>7. ASSUME NEW t \in Threads, CleanSerial(t) PROVE OneAdding'
  <2>1. camera' = camera /\ adding' = adding /\ clash' = clash
    BY <1>7 DEF CleanSerial
  <2>2. \A e \in Entries : rtmpUser'[e].channel = rtmpUser[e].channel
    <3>1. rtmpUser' = [rtmpUser EXCEPT ![i[t]].serial = ""]
      BY <1>7 DEF CleanSerial
    <3> QED
      BY <1>t, <3>1 DEF EntryType
  <2> QED
    BY <1>t, <2>1, <2>2 DEF OneAdding
<1>8. CASE QuietActions
  <2>1. Quiet
    BY <1>8, QuietSteps
  <2>2. \A c \in Cameras : camera'[c].phase = "entry" => camera[c].phase = "entry"
    <3>1. \/ camera' = camera
          \/ \E c \in Cameras : \E r \in CameraType : r.phase # "entry" /\ camera' = [camera EXCEPT ![c] = r]
      <4>1. ASSUME NEW c \in Cameras, CreateQueue(c)
            PROVE  \E r \in CameraType : r.phase # "entry" /\ camera' = [camera EXCEPT ![c] = r]
        <5>1. PICK q \in Queues : camera' = [camera EXCEPT ![c] = [phase |-> "queue", queue |-> q]]
          BY <4>1 DEF CreateQueue, FreeQueues
        <5> DEFINE r == [phase |-> "queue", queue |-> q]
        <5>2. r \in CameraType /\ r.phase # "entry"
          BY DEF CameraType
        <5> QED
          BY <5>1, <5>2
      <4>2. ASSUME NEW c \in Cameras, addCameraCallBack(c), UNCHANGED tableVars
            PROVE  \E r \in CameraType : r.phase # "entry" /\ camera' = [camera EXCEPT ![c] = r]
        <5>1. camera' = [camera EXCEPT ![c].phase = "on"]
          <6>1. ASSUME NEW e \in Entries, FreeEntry(e), adding' = e PROVE FALSE
            BY <4>2, <6>1, EntriesNat DEF addCameraCallBack
          <6> QED
            BY <4>2, <6>1 DEF addCameraCallBack
        <5> DEFINE r == [camera[c] EXCEPT !.phase = "on"]
        <5>2. r \in CameraType /\ r.phase # "entry"
          BY <1>t DEF CameraType
        <5> QED
          BY <5>1, <5>2
      <4>3. ASSUME NEW c \in Cameras, delCameraCallBack(c)
            PROVE  \E r \in CameraType : r.phase # "entry" /\ camera' = [camera EXCEPT ![c] = r]
        <5>1. camera' = [camera EXCEPT ![c].phase = "del"]
          BY <4>3 DEF delCameraCallBack
        <5> DEFINE r == [camera[c] EXCEPT !.phase = "del"]
        <5>2. r \in CameraType /\ r.phase # "entry"
          BY <1>t DEF CameraType
        <5> QED
          BY <5>1, <5>2
      <4>4. ASSUME NEW c \in Cameras, DisdroyQueue(c)
            PROVE  \E r \in CameraType : r.phase # "entry" /\ camera' = [camera EXCEPT ![c] = r]
        <5> DEFINE r == [phase |-> "off", queue |-> 0]
        <5>1. camera' = [camera EXCEPT ![c] = r]
          BY <4>4 DEF DisdroyQueue
        <5>2. r \in CameraType /\ r.phase # "entry"
          BY DEF CameraType
        <5> QED
          BY <5>1, <5>2
      <4>5. ASSUME NEW t \in Threads,
                   While(t) \/ Connect(t) \/ ConnectFails(t) \/ Regist(t)
                   \/ Connected(t) \/ StopReading(t) \/ PushFails(t) \/ UnRegist(t)
            PROVE  camera' = camera
        BY <4>5 DEF While, Connect, ConnectFails, Regist, Connected, StopReading, PushFails,
                    UnRegist
      <4>6. ASSUME RtmpSetSerconfig \/ RtmpSetSerconfigMarks \/ RtmpDeInit \/ UNCHANGED vars
            PROVE  camera' = camera
        BY <4>6 DEF RtmpSetSerconfig, RtmpSetSerconfigMarks, RtmpDeInit, vars
      <4> QED
        BY <1>8, <4>1, <4>2, <4>3, <4>4, <4>5, <4>6 DEF QuietActions
    <3> QED
      BY <1>t, <3>1
  <2> QED
    BY <1>t, <2>1, <2>2 DEF OneAdding, Quiet
<1> QED
  BY <1>2, <1>3, <1>4, <1>5, <1>6, <1>7, <1>8, StepKinds

\* A new queue is one that nobody had, and a destroyed one belonged to its camera.
LEMMA CamerasStep ==
    ASSUME RtmpInv, [Next]_vars
    PROVE  CamerasOwnQueues'
<1> USE DEF tableVars, bootVars, queueVars, threadVars, confVars
<1>t. camera \in [Cameras -> CameraType] /\ CamerasOwnQueues
  BY DEF RtmpInv, TypeOK, CameraType
<1>1. CASE UNCHANGED enabled /\ \A c \in Cameras : /\ camera'[c].queue = camera[c].queue
                                                   /\ camera[c].phase = "off" => camera'[c].phase = "off"
  BY <1>t, <1>1 DEF CamerasOwnQueues
<1>2. ASSUME NEW c \in Cameras, CreateQueue(c) PROVE CamerasOwnQueues'
  <2>1. PICK q \in Queues \ enabled :
            /\ camera' = [camera EXCEPT ![c] = [phase |-> "queue", queue |-> q]]
            /\ enabled' = enabled \cup {q}
    BY <1>2 DEF CreateQueue, FreeQueues
  <2>2. camera'[c].queue = q /\ \A d \in Cameras \ {c} : camera'[d] = camera[d]
    BY <1>t, <2>1
  <2> QED
    BY <1>t, <2>1, <2>2 DEF CamerasOwnQueues
<1>3. ASSUME NEW c \in Cameras, DisdroyQueue(c) PROVE CamerasOwnQueues'
  <2>1. /\ camera' = [camera EXCEPT ![c] = [phase |-> "off", queue |-> 0]]
        /\ enabled' = enabled \ {camera[c].queue} /\ camera[c].phase = "del"
    BY <1>3 DEF DisdroyQueue
  <2>2. camera'[c].phase = "off" /\ \A d \in Cameras \ {c} : camera'[d] = camera[d]
    BY <1>t, <2>1
  <2> QED
    BY <1>t, <2>1, <2>2 DEF CamerasOwnQueues
<1>4. ASSUME NEW c \in Cameras,
             addCameraCallBack(c) \/ AddedCamera(c) \/ delCameraCallBack(c)
      PROVE  CamerasOwnQueues'
  <2>1. /\ enabled' = enabled /\ camera[c].phase # "off"
        /\ \E l \in {"entry", "on", "del"} : camera' = [camera EXCEPT ![c].phase = l]
    BY <1>4 DEF addCameraCallBack, AddedCamera, delCameraCallBack
  <2>2. \A d \in Cameras : /\ camera'[d].queue = camera[d].queue
                           /\ camera[d].phase = "off" => camera'[d].phase = "off"
    BY <1>t, <2>1 DEF CameraType
  <2> QED
    BY <1>1, <2>1, <2>2
<1>5. CASE UNCHANGED <<camera, enabled>>
  BY <1>1, <1>5
<1>6. ASSUME NEW t \in Threads, RtmpProc(t) \/ ConnectFails(t) \/ PushFails(t)
      PROVE  UNCHANGED <<camera, enabled>>
  BY <1>6 DEF RtmpProc, Find, While, Connect, Regist, Connected, StopReading, Clean,
              CleanSerial, UnRegist, ConnectFails, PushFails
<1>7. ASSUME RtmpInit \/ RtmpSetSerconfig \/ RtmpSetSerconfigMarks \/ RtmpDeInit
             \/ UNCHANGED vars
      PROVE  UNCHANGED <<camera, enabled>>
  BY <1>7 DEF RtmpInit, RtmpSetSerconfig, RtmpSetSerconfigMarks, RtmpDeInit, vars
<1> QED
  BY <1>2, <1>3, <1>4, <1>5, <1>6, <1>7 DEF Next

(***************************************************************************)
(* Read pointers are given to who finds them free, and taken back by their *)
(* owner, or by a stale thread, which trespasses unless they are free.     *)
(***************************************************************************)
LEMMA HandlesStep ==
    ASSUME RtmpInv, [Next]_vars
    PROVE  HandlesOwned'
<1> USE DEF tableVars, bootVars, queueVars, threadVars, confVars
<1>t. /\ pRead \in [Queues -> [ReadSlots -> Threads \cup {0}]] /\ enabled \subseteq Queues
      /\ pc \in [Threads -> Labels] /\ queueID \in [Threads -> Queues \cup {-1, 0}]
      /\ registerID \in [Threads -> ReadSlots]
      /\ HandlesOwned
  BY DEF RtmpInv, TypeOK
<1>1. CASE /\ UNCHANGED <<queueID, registerID, pRead, enabled, stale, trespass>>
           /\ \A u \in Threads : pc'[u] \in {"connected", "read"} => pc[u] \in {"connected", "read"}
  BY <1>t, <1>1 DEF HandlesOwned
<1>2. ASSUME NEW c \in Cameras, CreateQueue(c) PROVE HandlesOwned'
  <2>1. PICK q \in Queues \ enabled :
            /\ enabled' = enabled \cup {q}
            /\ pRead' = [pRead EXCEPT ![q] = [s \in ReadSlots |-> 0]]
    BY <1>2 DEF CreateQueue, FreeQueues
  <2>2. UNCHANGED <<pc, queueID, registerID, stale, trespass>>
    BY <1>2 DEF CreateQueue
  <2>3. \A r \in Queues \ {q} : pRead'[r] = pRead[r]
    BY <1>t, <2>1
  <2> QED
    BY <1>t, <2>1, <2>2, <2>3 DEF HandlesOwned
<1>3. ASSUME NEW c \in Cameras, DisdroyQueue(c) PROVE HandlesOwned'
  <2> DEFINE q == camera[c].queue
  <2>1. /\ enabled' = enabled \ {q}
        /\ pRead' = [pRead EXCEPT ![q] = [s \in ReadSlots |-> 0]]
        /\ stale' = stale \cup {t \in Threads : queueID[t] = q}
        /\ UNCHANGED <<pc, queueID, registerID, trespass>>
    BY <1>3 DEF DisdroyQueue
  <2> HIDE DEF q
  <2>2. \A r \in Queues \ {q} : pRead'[r] = pRead[r]
    BY <1>t, <2>1
  <2> QED
    BY <1>t, <2>1, <2>2 DEF HandlesOwned
<1>4. ASSUME NEW t \in Threads, Return(t),
             \A u \in Threads \ {t} :
                 ~trespass' /\ u \notin stale /\ queueID[u] \in Queues
                     => ~trespass /\ pRead'[queueID[u]][registerID[u]] = pRead[queueID[u]][registerID[u]],
             enabled' = enabled
      PROVE  HandlesOwned'
  <2>1. /\ pc'[t] = "none" /\ queueID'[t] = 0 /\ stale' = stale \ {t}
        /\ \A u \in Threads \ {t} : /\ pc'[u] = pc[u] /\ queueID'[u] = queueID[u]
                                    /\ registerID'[u] = registerID[u]
    BY <1>t, <1>4 DEF Return, Goto
  <2> QED
    BY <1>t, <1>4, <2>1, ConstFacts DEF HandlesOwned
<1>5. ASSUME NEW t \in Threads, Regist(t) PROVE HandlesOwned'
  <2> DEFINE q == rtmpUser[i[t]].queueid
  <2>1. ASSUME NEW s \in ReadSlots, FreeReadSlot(q, s),
               pRead' = [pRead EXCEPT ![q][s] = t],
               queueID' = [queueID EXCEPT ![t] = q],
               registerID' = [registerID EXCEPT ![t] = s],
               stale' = stale \ {t},
               Goto(t, "connected")
        PROVE  HandlesOwned'
    <3>1. q \in enabled /\ q \in Queues /\ pRead[q][s] = 0
      BY <1>t, <2>1 DEF FreeReadSlot
    <3> HIDE DEF q
    <3>2. enabled' = enabled /\ trespass' = trespass
      BY <1>5 DEF Regist
    <3>3. /\ pRead'[q][s] = t
          /\ \A p \in Queues : \A r \in ReadSlots : p # q \/ r # s => pRead'[p][r] = pRead[p][r]
      BY <1>t, <2>1, <3>1
    <3>4. /\ pc'[t] = "connected" /\ queueID'[t] = q /\ registerID'[t] = s
          /\ \A u \in Threads \ {t} : /\ pc'[u] = pc[u] /\ queueID'[u] = queueID[u]
                                      /\ registerID'[u] = registerID[u]
      BY <1>t, <2>1 DEF Goto
    <3>5. ASSUME NEW u \in Threads \ {t}, ~trespass, u \notin stale, queueID[u] \in Queues
          PROVE  /\ queueID[u] \in enabled
                 /\ pRead'[queueID[u]][registerID[u]] = u
      <4>1. queueID[u] \in enabled /\ pRead[queueID[u]][registerID[u]] = u /\ registerID[u] \in ReadSlots
        BY <1>t, <3>5 DEF HandlesOwned
      <4>2. queueID[u] # q \/ registerID[u] # s
        BY <4>1, <3>1, ConstFacts
      <4> QED
        BY <4>1, <4>2, <3>3, <3>5
    <3>6. \A u \in Threads \ {t} : pc'[u] \in {"connected", "read"} => queueID'[u] \in Queues
      BY <1>t, <3>4 DEF HandlesOwned
    <3> QED
      BY <2>1, <3>1, <3>2, <3>3, <3>4, <3>5, <3>6 DEF HandlesOwned
  <2>2. CASE Return(t) /\ UNCHANGED pRead
    BY <1>4, <1>5, <2>2 DEF Regist
  <2> QED
    BY <1>5, <2>1, <2>2 DEF Regist
<1>6. ASSUME NEW t \in Threads, UnRegist(t) PROVE HandlesOwned'
  <2>1. Return(t) /\ enabled' = enabled
    BY <1>6 DEF UnRegist
  <2>2. CASE queueID[t] \notin Queues
    BY <1>4, <1>6, <2>1, <2>2 DEF UnRegist
  <2>3. CASE queueID[t] \in Queues
    <3>1. /\ pRead' = [pRead EXCEPT ![queueID[t]][registerID[t]] = 0]
          /\ trespass' = (trespass \/ (t \in stale /\ pRead[queueID[t]][registerID[t]] # 0))
      BY <1>6, <2>3 DEF UnRegist
    <3>2. ASSUME NEW u \in Threads \ {t}, ~trespass', u \notin stale, queueID[u] \in Queues
          PROVE  ~trespass /\ pRead'[queueID[u]][registerID[u]] = pRead[queueID[u]][registerID[u]]
      <4>1. ~trespass /\ (t \in stale => pRead[queueID[t]][registerID[t]] = 0)
        BY <3>1, <3>2
      <4>2. pRead[queueID[u]][registerID[u]] = u /\ registerID[u] \in ReadSlots
        BY <1>t, <3>2, <4>1 DEF HandlesOwned
      <4>3. pRead[queueID[t]][registerID[t]] \in {0, t} /\ registerID[t] \in ReadSlots
        BY <1>t, <2>3, <4>1 DEF HandlesOwned
      <4>4. queueID[u] # queueID[t] \/ registerID[u] # registerID[t]
        BY <4>2, <4>3, ConstFacts
      <4> QED
        BY <1>t, <2>3, <3>1, <3>2, <4>1, <4>3, <4>4
    <3> QED
      BY <1>4, <2>1, <3>2
  <2> QED
    BY <2>2, <2>3
<1>7. ASSUME NEW t \in Threads,
             Find(t) \/ While(t) \/ Connect(t) \/ ConnectFails(t) \/ Connected(t)
             \/ StopReading(t) \/ PushFails(t) \/ Clean(t) \/ CleanSerial(t)
      PROVE  HandlesOwned'
  <2>1. UNCHANGED <<queueID, registerID, pRead, enabled, stale, trespass>>
    BY <1>7 DEF Find, While, Connect, ConnectFails, Connected, StopReading, PushFails, Clean,
                CleanSerial
  <2>2. \/ pc' = pc
        \/ pc[t] = "connected" /\ pc' = [pc EXCEPT ![t] = "read"]
        \/ \E l \in Labels \ {"connected", "read"} : pc' = [pc EXCEPT ![t] = l]
    BY <1>7 DEF Find, While, Connect, ConnectFails, Connected, StopReading, PushFails, Clean,
                CleanSerial, Goto, Labels
  <2>3. \A u \in Threads : pc'[u] \in {"connected", "read"} => pc[u] \in {"connected", "read"}
    BY <1>t, <2>2
  <2> QED
    BY <1>1, <2>1, <2>3
<1>8. ASSUME NEW c \in Cameras, addCameraCallBack(c) \/ AddedCamera(c) \/ delCameraCallBack(c)
      PROVE  HandlesOwned'
  <2>1. UNCHANGED <<queueID, registerID, pRead, enabled, stale, trespass>>
    BY <1>8 DEF addCameraCallBack, AddedCamera, delCameraCallBack
  <2>2. pc' = pc \/ \E t \in Threads : pc' = [pc EXCEPT ![t] = "find"]
    BY <1>8 DEF addCameraCallBack, AddedCamera, delCameraCallBack
  <2>3. \A u \in Threads : pc'[u] \in {"connected", "read"} => pc[u] \in {"connected", "read"}
    BY <1>t, <2>2
  <2> QED
    BY <1>1, <2>1, <2>3
<1>9. CASE RtmpInit \/ RtmpSetSerconfig \/ RtmpSetSerconfigMarks \/ RtmpDeInit \/ UNCHANGED vars
  <2>1. UNCHANGED <<queueID, registerID, pRead, enabled, stale, trespass>>
    BY <1>9 DEF RtmpInit, RtmpSetSerconfig, RtmpSetSerconfigMarks, RtmpDeInit, vars
  <2>2. \A u \in Threads : pc'[u] \in {"connected", "read"} => pc[u] \in {"connected", "read"}
    BY <1>9 DEF RtmpInit, RtmpSetSerconfig, RtmpSetSerconfigMarks, RtmpDeInit, vars
  <2> QED
    BY <1>1, <2>1, <2>2
<1> QED
  BY <1>2, <1>3, <1>5, <1>6, <1>7, <1>8, <1>9 DEF Next, RtmpProc
-----------------------------------------------------------------------------
LEMMA InvInit == Init => RtmpInv
<1> SUFFICES ASSUME Init PROVE RtmpInv
  OBVIOUS
<1>1. TypeOK
  BY TypeInit
<1>2. \A t \in Threads : pc[t] = "none" /\ queueID[t] = 0
  BY DEF Init
<1>3. Indexed
  BY <1>2 DEF Indexed, InLoop
<1>4. \A c \in Cameras :
          /\ c[1] = FirstDvr => camera[c].phase = "on" /\ camera[c].queue = c[2]
          /\ c[1] # FirstDvr => camera[c].phase = "off"
  BY DEF Init
<1>5. Boot
  BY <1>2, <1>4 DEF Init, Boot
<1>6. OneAdding
  BY <1>4 DEF OneAdding
<1>7. CamerasOwnQueues
  <2> SUFFICES ASSUME NEW c \in Cameras, camera[c].phase # "off"
               PROVE  /\ camera[c].queue \in enabled
                      /\ \A d \in Cameras \ {c} :
                            camera[d].phase # "off" => camera[d].queue # camera[c].queue
    BY DEF CamerasOwnQueues
  <2>1. c[1] = FirstDvr /\ camera[c].queue = c[2] /\ c[2] \in Channels /\ c = <<c[1], c[2]>>
    BY <1>4 DEF Cameras
  <2>2. ASSUME NEW d \in Cameras, d # c, camera[d].phase # "off"
        PROVE  camera[d].queue # camera[c].queue
    <3>1. d[1] = FirstDvr /\ camera[d].queue = d[2] /\ d = <<d[1], d[2]>>
      BY <1>4, <2>2 DEF Cameras
    <3> QED
      BY <2>1, <2>2, <3>1
  <2> QED
    BY <2>1, <2>2 DEF Init
<1>8. Table
  <2>1. \A e \in Entries : rtmpUser[e].channel = -1
    BY DEF Init, Unused
  <2>2. adding \notin Entries
    BY EntriesNat DEF Init
  <2>3. \A t \in Threads : ~Working(t) /\ ~Holding(t)
    BY <1>2 DEF Working, Holding
  <2> QED
    BY <1>2, <2>1, <2>2, <2>3 DEF Table, ChannelsUnique, Claimed, FilledNamed, FindersFind,
       WorkersHold, ChannelsApart, EntriesApart, Filled
<1>9. HandlesOwned
  BY <1>2, ConstFacts DEF HandlesOwned
<1> QED
  BY <1>1, <1>3, <1>5, <1>6, <1>7, <1>8, <1>9 DEF RtmpInv

LEMMA InvStep == RtmpInv /\ [Next]_vars => RtmpInv'
<1> SUFFICES ASSUME RtmpInv, [Next]_vars PROVE RtmpInv'
  OBVIOUS
<1>1. TypeOK' /\ Indexed' /\ Boot' /\ OneAdding' /\ CamerasOwnQueues' /\ HandlesOwned'
  BY TypeStep, IndexedStep, BootStep, OneAddingStep, CamerasStep, HandlesStep
<1>2. ~clash' => Table'
  BY TableStep
<1> QED
  BY <1>1, <1>2 DEF RtmpInv

(***************************************************************************)
(* RtmpInv is an inductive invariant of the RTMP sessions.                 *)
(***************************************************************************)
THEOREM RtmpInvHolds == Spec => []RtmpInv
<1>1. Init => RtmpInv
  BY InvInit
<1>2. RtmpInv /\ [Next]_vars => RtmpInv'
  BY InvStep
<1> QED
  BY <1>1, <1>2, PTL DEF Spec

(***************************************************************************)
(* The search of RtmpProc finds an entry, no two threads work on one       *)
(* entry, and addCameraCallBack takes none that is still being cleared,    *)
(* unless a camera was added while its channel number was in the table.    *)
(***************************************************************************)
THEOREM EntriesNotSharedHolds == Spec => []EntriesNotShared
<1>1. RtmpInv => EntriesNotShared
  <2> SUFFICES ASSUME RtmpInv PROVE EntriesNotShared
    OBVIOUS
  <2>1. TypeOK
    BY DEF RtmpInv
  <2>2. ASSUME ~clash, NEW t \in Threads, Working(t)
        PROVE  /\ i[t] \in Entries
               /\ \A u \in Threads \ {t} : Working(u) => i[u] # i[t]
               /\ i[t] # adding
               /\ pc[t] # "cleanSerial" => rtmpUser[i[t]].channel = chn[t]
    <3>1. WorkersHold /\ EntriesApart
      BY <2>2 DEF RtmpInv, Table
    <3> QED
      BY <2>2, <3>1 DEF WorkersHold, EntriesApart
  <2> QED
    BY <2>1, <2>2 DEF EntriesNotShared
<1> QED
  BY <1>1, RtmpInvHolds, PTL

(***************************************************************************)
(* The read pointer a streaming thread uses is its own until its queue is  *)
(* destroyed or a thread that outlived its queue has taken one back.       *)
(***************************************************************************)
THEOREM ReadersOwnTheirSlotHolds == Spec => []ReadersOwnTheirSlot
<1>1. RtmpInv => ReadersOwnTheirSlot
  BY DEF RtmpInv, HandlesOwned, ReadersOwnTheirSlot
<1> QED
  BY <1>1, RtmpInvHolds, PTL
-----------------------------------------------------------------------------
(***************************************************************************)
(* Entries and queues.                                                     *)
(***************************************************************************)
LEMMA CameraOfLive ==
    ASSUME RtmpInv, ~clash, NEW e \in Entries, Filled(e)
    PROVE  CameraOf(e) \in Cameras /\ CameraOf(e)[1] = rtmpUser[e].serial
           /\ CameraOf(e)[2] = rtmpUser[e].channel
<1>1. rtmpUser[e] \in EntryType
  BY DEF RtmpInv, TypeOK, EntryType
<1>2. rtmpUser[e].serial # "" /\ rtmpUser[e].channel # -1
  BY DEF RtmpInv, Table, FilledNamed, Filled
<1> QED
  BY <1>1, <1>2 DEF EntryType, CameraOf, Cameras

\* The queue an entry names exists, and no other entry names it.
LEMMA QueuesOfEntries ==
    ASSUME RtmpInv, ~clash, EntriesNameQueues, NEW e \in Entries, Live(e)
    PROVE  /\ rtmpUser[e].queueid \in enabled
           /\ \A f \in Entries : f # e /\ Live(f) => rtmpUser[f].queueid # rtmpUser[e].queueid
           /\ \A c \in Cameras : camera[c].phase \notin {"on", "off"} =>
                 camera[c].queue # rtmpUser[e].queueid
<1>1. /\ CameraOf(e) \in Cameras /\ camera[CameraOf(e)].phase = "on"
      /\ camera[CameraOf(e)].queue = rtmpUser[e].queueid
      /\ CameraOf(e)[2] = rtmpUser[e].channel
  BY CameraOfLive DEF Live, EntriesNameQueues
<1>2. CamerasOwnQueues /\ ChannelsUnique
  BY DEF RtmpInv, Table
<1>3. rtmpUser[e].queueid \in enabled
  BY <1>1, <1>2 DEF CamerasOwnQueues
<1>4. ASSUME NEW f \in Entries, f # e, Live(f)
      PROVE  rtmpUser[f].queueid # rtmpUser[e].queueid
  <2>1. /\ CameraOf(f) \in Cameras /\ camera[CameraOf(f)].phase = "on"
        /\ camera[CameraOf(f)].queue = rtmpUser[f].queueid
        /\ CameraOf(f)[2] = rtmpUser[f].channel
    BY <1>4, CameraOfLive DEF Live, EntriesNameQueues
  <2>2. CameraOf(f) # CameraOf(e)
    BY <1>1, <1>2, <1>4, <2>1 DEF ChannelsUnique, Live, Filled
  <2> QED
    BY <1>1, <1>2, <2>1, <2>2 DEF CamerasOwnQueues
<1>5. \A c \in Cameras : camera[c].phase \notin {"on", "off"} =>
          camera[c].queue # rtmpUser[e].queueid
  BY <1>1, <1>2 DEF CamerasOwnQueues
<1> QED
  BY <1>3, <1>4, <1>5

\* Steps that fill no entry and leave the cameras on line alone.
LEMMA NamesKept ==
    ASSUME RtmpInv, ~clash, EntriesNameQueues,
           \A e \in Entries :
               Live(e)' => /\ Live(e) /\ rtmpUser'[e].queueid = rtmpUser[e].queueid
                           /\ rtmpUser'[e].channel = rtmpUser[e].channel
                           /\ rtmpUser'[e].serial = rtmpUser[e].serial
                           /\ camera'[CameraOf(e)] = camera[CameraOf(e)]
    PROVE  EntriesNameQueues'
<1>1. ASSUME NEW e \in Entries, Live(e)'
      PROVE  /\ camera'[CameraOf(e)'].phase = "on"
             /\ camera'[CameraOf(e)'].queue = rtmpUser'[e].queueid
  <2>1. CameraOf(e)' = CameraOf(e)
    BY <1>1 DEF CameraOf
  <2> QED
    BY <1>1, <2>1 DEF EntriesNameQueues
<1> QED
  BY <1>1 DEF EntriesNameQueues

\* Steps of the loop of RtmpProc and changes of the configuration: nothing that
\* sessions share but status and enable flags is changed.
Idle ==
    /\ UNCHANGED <<adding, clash, camera, enabled, pRead, stale, queueID, trespass, chn, i>>
    /\ \A e \in Entries : /\ rtmpUser'[e].channel = rtmpUser[e].channel
                          /\ rtmpUser'[e].serial = rtmpUser[e].serial
                          /\ rtmpUser'[e].queueid = rtmpUser[e].queueid
    /\ \A t \in Threads : /\ pc'[t] = "find" <=> pc[t] = "find"
                          /\ Working(t)' <=> Working(t)

IdleActions ==
    \/ RtmpSetSerconfig \/ RtmpSetSerconfigMarks \/ RtmpDeInit
    \/ \E t \in Threads : \/ While(t) \/ Connect(t) \/ ConnectFails(t)
                          \/ Connected(t) \/ StopReading(t) \/ PushFails(t)
    \/ UNCHANGED vars

LEMMA IdleSteps ==
    ASSUME RtmpInv, IdleActions
    PROVE  Idle
<1> USE DEF tableVars, bootVars, queueVars, threadVars, confVars
<1>u. rtmpUser \in [Entries -> EntryType] /\ pc \in [Threads -> Labels]
  BY DEF RtmpInv, TypeOK, EntryType
<1>1. CASE RtmpSetSerconfig \/ RtmpSetSerconfigMarks \/ RtmpDeInit
  <2>1. UNCHANGED <<adding, clash, camera, enabled, pRead, stale, queueID, trespass, chn, i, pc>>
    BY <1>1 DEF RtmpSetSerconfig, RtmpSetSerconfigMarks, RtmpDeInit
  <2>2. \A e \in Entries : /\ rtmpUser'[e].channel = rtmpUser[e].channel
                           /\ rtmpUser'[e].serial = rtmpUser[e].serial
                           /\ rtmpUser'[e].queueid = rtmpUser[e].queueid
    BY <1>u, <1>1 DEF RtmpSetSerconfig, RtmpSetSerconfigMarks, RtmpDeInit, EntryType
  <2> QED
    BY <2>1, <2>2 DEF Idle, Working
<1>2. ASSUME NEW t \in Threads, While(t) \/ Connect(t) \/ ConnectFails(t) \/ StopReading(t)
      PROVE  Idle
  <2>1. UNCHANGED <<rtmpUser, adding, clash, camera, enabled, pRead, stale, queueID, trespass,
                    chn, i>>
    BY <1>2 DEF While, Connect, ConnectFails, StopReading
  <2>2. /\ pc[t] \in {"while", "connect", "read"}
        /\ \E l \in {"connect", "clean", "regist", "while"} : pc' = [pc EXCEPT ![t] = l]
    BY <1>2 DEF While, Connect, ConnectFails, StopReading, Goto
  <2> QED
    BY <1>u, <2>1, <2>2 DEF Idle, Working
<1>3. ASSUME NEW t \in Threads, Connected(t) \/ PushFails(t) PROVE Idle
  <2>1. UNCHANGED <<adding, clash, camera, enabled, pRead, stale, queueID, trespass, chn, i>>
    BY <1>3 DEF Connected, PushFails
  <2>2. \A e \in Entries : /\ rtmpUser'[e].channel = rtmpUser[e].channel
                           /\ rtmpUser'[e].serial = rtmpUser[e].serial
                           /\ rtmpUser'[e].queueid = rtmpUser[e].queueid
    <3>1. \E v \in Stats : rtmpUser' = [rtmpUser EXCEPT ![i[t]].stat = v]
      BY <1>3 DEF Connected, PushFails, Stats
    <3>2. ASSUME NEW v \in Stats, rtmpUser' = [rtmpUser EXCEPT ![i[t]].stat = v],
                 NEW e \in Entries
          PROVE  /\ rtmpUser'[e].channel = rtmpUser[e].channel
                 /\ rtmpUser'[e].serial = rtmpUser[e].serial
                 /\ rtmpUser'[e].queueid = rtmpUser[e].queueid
      BY <1>u, <3>2 DEF EntryType
    <3> QED
      BY <3>1, <3>2
  <2>3. pc' = pc \/ (pc[t] = "connected" /\ pc' = [pc EXCEPT ![t] = "read"])
    BY <1>3 DEF Connected, PushFails, Goto
  <2> QED
    BY <1>u, <2>1, <2>2, <2>3 DEF Idle, Working
<1>4. CASE UNCHANGED vars
  BY <1>4 DEF vars, Idle, Working
<1> QED
  BY <1>1, <1>2, <1>3, <1>4 DEF IdleActions

\* An entry stays served when nothing that concerns it changes.
Undisturbed(e) ==
    /\ Live(e) /\ rtmpUser'[e].queueid = rtmpUser[e].queueid
    /\ \A s \in ReadSlots : pRead'[rtmpUser[e].queueid][s] = pRead[rtmpUser[e].queueid][s]
    /\ \A t \in Threads :
          /\ WorksOn(t, e) => WorksOn(t, e)'
          /\ Finds(t, e) => WorksOn(t, e)' \/ Finds(t, e)'
          /\ Finds(t, e)' => Finds(t, e)
          /\ WorksOn(t, e)' => WorksOn(t, e) \/ Finds(t, e)
          /\ t \notin stale' /\ queueID'[t] = rtmpUser[e].queueid =>
                 t \notin stale /\ queueID[t] = rtmpUser[e].queueid

LEMMA EntryKept ==
    ASSUME NEW e \in Entries, EntryServed(e), Undisturbed(e)
    PROVE  EntryServed(e)'
<1> DEFINE q == rtmpUser[e].queueid
<1>0. rtmpUser'[e].queueid = q /\ \A s \in ReadSlots : pRead'[q][s] = pRead[q][s]
  BY DEF Undisturbed
<1>1. \A t \in Threads : WorksOn(t, e)' => \A s \in ReadSlots : pRead'[q][s] \in {0, t}
  BY <1>0 DEF Undisturbed, EntryServed
<1>2. \A t \in Threads : Finds(t, e)' => \A s \in ReadSlots : pRead'[q][s] = 0
  BY <1>0 DEF Undisturbed, EntryServed
<1>3. \A t \in Threads : t \notin stale' /\ queueID'[t] = q => WorksOn(t, e)'
  BY DEF Undisturbed, EntryServed
<1>4. \/ \E t \in Threads : WorksOn(t, e)' \/ Finds(t, e)'
      \/ \E t \in Threads : \A s \in ReadSlots : pRead'[q][s] = t
  BY <1>0 DEF Undisturbed, EntryServed
<1> HIDE DEF q
<1> QED
  BY <1>0, <1>1, <1>2, <1>3, <1>4 DEF EntryServed

LEMMA ServedIdle ==
    ASSUME RtmpInv, ServedInv, Idle
    PROVE  ServedInv'
<1>1. \A e \in Entries : Live(e)' <=> Live(e)
  BY DEF Idle, Live, Filled
<1>2. ~clash' => EntriesNameQueues'
  <2> SUFFICES ASSUME ~clash' PROVE EntriesNameQueues'
    OBVIOUS
  <2>1. ~clash /\ EntriesNameQueues
    BY DEF Idle, ServedInv
  <2> QED
    BY <1>1, <2>1, NamesKept DEF Idle
<1>3. ASSUME ~clash', ~trespass'
      PROVE  NewQueuesUnread' /\ \A e \in Entries : Live(e)' => EntryServed(e)'
  <2>1. NewQueuesUnread /\ \A e \in Entries : Live(e) => EntryServed(e)
    BY <1>3 DEF Idle, ServedInv
  <2>2. NewQueuesUnread'
    BY <2>1 DEF Idle, NewQueuesUnread
  <2>3. ASSUME NEW e \in Entries, Live(e)' PROVE EntryServed(e)'
    <3>1. Undisturbed(e)
      BY <1>1, <2>3 DEF Idle, Undisturbed, WorksOn, Finds
    <3> QED
      BY <1>1, <2>1, <2>3, <3>1, EntryKept
  <2> QED
    BY <2>2, <2>3
<1> QED
  BY <1>2, <1>3 DEF ServedInv

(***************************************************************************)
(* Steps of the DVR module.                                                *)
(***************************************************************************)

\* Nobody reads the queues before RtmpInit, so no thread has a handle of one.
LEMMA UnreadHasNoHandle ==
    ASSUME RtmpInv, ~trespass, NEW q \in Queues, \A s \in ReadSlots : pRead[q][s] = 0,
           NEW t \in Threads, t \notin stale
    PROVE  queueID[t] # q
<1>1. registerID[t] \in ReadSlots
  BY DEF RtmpInv, TypeOK
<1>2. queueID[t] = q => pRead[q][registerID[t]] = t
  BY DEF RtmpInv, HandlesOwned
<1> QED
  BY <1>1, <1>2, ConstFacts

LEMMA ServedRtmpInit ==
    ASSUME RtmpInv, ServedInv, RtmpInit
    PROVE  ServedInv'
<1> USE DEF tableVars, bootVars, queueVars, threadVars, confVars
<1>1. UNCHANGED <<camera, pRead, queueID, stale, clash, trespass, adding>> /\ Boot /\ ~started
  BY DEF RtmpInit, RtmpInv
<1>2. \A c \in Cameras :
          /\ c[1] = FirstDvr => camera[c].phase = "on" /\ camera[c].queue = c[2]
          /\ c[1] # FirstDvr => camera[c].phase = "off"
  BY <1>1 DEF Boot
<1>3. ASSUME NEW e \in Entries, Live(e)'
      PROVE  /\ e + 1 \in Channels /\ rtmpUser'[e].queueid = e + 1
             /\ rtmpUser'[e].channel = e + 1 /\ rtmpUser'[e].serial = FirstDvr
  BY <1>3, RtmpInitEffect DEF Live, Filled
<1>4. EntriesNameQueues'
  <2> SUFFICES ASSUME NEW e \in Entries, Live(e)'
               PROVE  /\ camera[CameraOf(e)'].phase = "on"
                      /\ camera[CameraOf(e)'].queue = rtmpUser'[e].queueid
    BY <1>1 DEF EntriesNameQueues
  <2> DEFINE c == <<FirstDvr, e + 1>>
  <2>1. CameraOf(e)' = c
    BY <1>3 DEF CameraOf
  <2>2. c \in Cameras /\ c[1] = FirstDvr /\ c[2] = e + 1
    BY <1>3, ConstFacts DEF Cameras
  <2> HIDE DEF c
  <2> QED
    BY <1>2, <1>3, <2>1, <2>2
<1>5. NewQueuesUnread'
  BY <1>1, <1>2 DEF NewQueuesUnread
<1>6. ASSUME ~trespass', NEW e \in Entries, Live(e)' PROVE EntryServed(e)'
  <2> DEFINE q == e + 1
  <2>1. q \in Channels /\ q \in Queues /\ q \in Threads /\ rtmpUser'[e].queueid = q
        /\ rtmpUser'[e].channel = q
    BY <1>3, <1>6, ConstFacts
  <2> HIDE DEF q
  <2>2. \A s \in ReadSlots : pRead[q][s] = 0
    BY <1>1, <2>1 DEF Boot
  <2>3. \A t \in Threads : t \notin stale => queueID[t] # q
    BY <1>1, <1>6, <2>1, <2>2, UnreadHasNoHandle
  <2>4. \A t \in Threads : ~WorksOn(t, e)'
    BY RtmpInitEffect DEF WorksOn, Working
  <2>5. Finds(q, e)'
    BY <2>1, RtmpInitEffect DEF Finds
  <2> QED
    BY <1>1, <2>1, <2>2, <2>3, <2>4, <2>5 DEF EntryServed
<1> QED
  BY <1>4, <1>5, <1>6 DEF ServedInv

LEMMA ServedCreateQueue ==
    ASSUME RtmpInv, ServedInv, NEW c \in Cameras, CreateQueue(c)
    PROVE  ServedInv'
<1> USE DEF tableVars, bootVars, queueVars, threadVars, confVars
<1>t. camera \in [Cameras -> CameraType] /\ pRead \in [Queues -> [ReadSlots -> Threads \cup {0}]]
      /\ CamerasOwnQueues
  BY DEF RtmpInv, TypeOK, CameraType
<1>1. PICK q \in Queues \ enabled :
          /\ camera' = [camera EXCEPT ![c] = [phase |-> "queue", queue |-> q]]
          /\ pRead' = [pRead EXCEPT ![q] = [s \in ReadSlots |-> 0]]
  BY DEF CreateQueue, FreeQueues
<1>2. UNCHANGED <<rtmpUser, adding, clash, trespass, pc, chn, i, queueID, stale>>
      /\ camera[c].phase = "off"
  BY DEF CreateQueue
<1>3. /\ camera'[c].queue = q /\ \A d \in Cameras \ {c} : camera'[d] = camera[d]
      /\ \A s \in ReadSlots : pRead'[q][s] = 0
      /\ \A r \in Queues \ {q} : pRead'[r] = pRead[r]
  BY <1>t, <1>1
<1>4. \A e \in Entries : (Live(e)' <=> Live(e)) /\ CameraOf(e)' = CameraOf(e)
  BY <1>2 DEF Live, Filled, CameraOf
<1>5. ASSUME ~clash' PROVE ~clash /\ EntriesNameQueues
  BY <1>2, <1>5 DEF ServedInv
<1>6. ASSUME ~clash' PROVE EntriesNameQueues'
  <2>1. \A e \in Entries : Live(e) => CameraOf(e) \in Cameras \ {c}
    BY <1>2, <1>5, <1>6, CameraOfLive DEF EntriesNameQueues, Live
  <2> QED
    BY <1>2, <1>3, <1>4, <1>5, <1>6, <2>1, NamesKept
<1>7. ASSUME ~clash', ~trespass'
      PROVE  NewQueuesUnread' /\ \A e \in Entries : Live(e)' => EntryServed(e)'
  <2>1. NewQueuesUnread /\ \A e \in Entries : Live(e) => EntryServed(e)
    BY <1>2, <1>7 DEF ServedInv
  <2>2. NewQueuesUnread'
    <3>1. \A d \in Cameras \ {c} : camera[d].phase # "off" => camera[d].queue \in Queues \ {q}
      BY <1>t, <1>1 DEF CamerasOwnQueues, RtmpInv, TypeOK
    <3> QED
      BY <1>3, <2>1, <3>1 DEF NewQueuesUnread
  <2>3. ASSUME NEW e \in Entries, Live(e)' PROVE EntryServed(e)'
    <3>1. Live(e) /\ rtmpUser[e].queueid \in Queues \ {q}
      BY <1>1, <1>4, <1>5, <1>7, <2>3, QueuesOfEntries DEF Live
    <3>2. Undisturbed(e)
      BY <1>2, <1>3, <3>1 DEF Undisturbed, WorksOn, Finds, Working
    <3> QED
      BY <2>1, <3>1, <3>2, EntryKept
  <2> QED
    BY <2>2, <2>3
<1> QED
  BY <1>6, <1>7 DEF ServedInv

\* addCameraCallBack claims an entry, which is not filled in yet, or none.
LEMMA ServedClaim ==
    ASSUME RtmpInv, ServedInv, NEW c \in Cameras, addCameraCallBack(c)
    PROVE  ServedInv'
<1> USE DEF tableVars, bootVars, queueVars, threadVars, confVars
<1>t. camera \in [Cameras -> CameraType] /\ rtmpUser \in [Entries -> EntryType]
  BY DEF RtmpInv, TypeOK, CameraType, EntryType
<1>1. UNCHANGED <<pRead, trespass, pc, chn, i, queueID, stale>> /\ camera[c].phase = "queue"
      /\ adding = RTMP_USR_NUM
  BY DEF addCameraCallBack
<1>2. /\ \A d \in Cameras \ {c} : camera'[d] = camera[d]
      /\ camera'[c].queue = camera[c].queue
  <2>1. \E l \in {"entry", "on"} : camera' = [camera EXCEPT ![c].phase = l]
    BY DEF addCameraCallBack
  <2> QED
    BY <1>t, <2>1 DEF CameraType
<1>3. /\ ~clash' => ~clash
      /\ \A e \in Entries : Live(e)' => Live(e) /\ rtmpUser'[e] = rtmpUser[e]
  <2>1. CASE UNCHANGED tableVars
    BY <2>1 DEF Live, Filled
  <2>2. CASE ~UNCHANGED tableVars
    <3>1. PICK e \in Entries :
              /\ rtmpUser' = [rtmpUser EXCEPT ![e].channel = c[2]]
              /\ adding' = e
              /\ clash' = (clash \/ \E f \in Entries : rtmpUser[f].channel = c[2])
      BY <2>2 DEF addCameraCallBack
    <3>2. \A f \in Entries \ {e} : rtmpUser'[f] = rtmpUser[f]
      BY <1>t, <3>1
    <3>3. ~clash' => ~clash
      BY <3>1
    <3> QED
      BY <1>1, <3>1, <3>2, <3>3, EntriesNat DEF Live, Filled
  <2> QED
    BY <2>1, <2>2
<1>5. ASSUME ~clash' PROVE ~clash /\ EntriesNameQueues
  BY <1>3, <1>5 DEF ServedInv
<1>6. ASSUME ~clash' PROVE EntriesNameQueues'
  <2>1. \A e \in Entries : Live(e) => CameraOf(e) \in Cameras \ {c}
    BY <1>1, <1>5, <1>6, CameraOfLive DEF EntriesNameQueues, Live
  <2> QED
    BY <1>2, <1>3, <1>5, <1>6, <2>1, NamesKept
<1>7. ASSUME ~clash', ~trespass'
      PROVE  NewQueuesUnread' /\ \A e \in Entries : Live(e)' => EntryServed(e)'
  <2>1. NewQueuesUnread /\ \A e \in Entries : Live(e) => EntryServed(e)
    BY <1>1, <1>3, <1>7 DEF ServedInv
  <2>2. NewQueuesUnread'
    BY <1>1, <1>2, <2>1 DEF NewQueuesUnread
  <2>3. ASSUME NEW e \in Entries, Live(e)' PROVE EntryServed(e)'
    <3>1. Live(e) /\ rtmpUser'[e] = rtmpUser[e]
      BY <1>3, <2>3
    <3>2. Undisturbed(e)
      BY <1>1, <3>1 DEF Undisturbed, WorksOn, Finds, Working
    <3> QED
      BY <2>1, <3>1, <3>2, EntryKept
  <2> QED
    BY <2>2, <2>3
<1> QED
  BY <1>6, <1>7 DEF ServedInv

\* The new session gets a queue that nobody has read, and the thread to find it.
LEMMA ServedAdded ==
    ASSUME RtmpInv, ServedInv, NEW c \in Cameras, AddedCamera(c)
    PROVE  ServedInv'
<1> USE DEF tableVars, bootVars, queueVars, threadVars, confVars
<1>t. /\ camera \in [Cameras -> CameraType] /\ rtmpUser \in [Entries -> EntryType]
      /\ pc \in [Threads -> Labels] /\ chn \in [Threads -> Channels \cup {-1}]
  BY DEF RtmpInv, TypeOK, CameraType, EntryType
<1>1. UNCHANGED <<pRead, trespass, clash, i, queueID, stale>> /\ camera[c].phase = "entry"
      /\ adding' = RTMP_USR_NUM
  BY DEF AddedCamera
<1>2. adding \in Entries /\ (~clash => rtmpUser[adding].channel = c[2])
  BY <1>1 DEF RtmpInv, OneAdding
<1>3. /\ \A d \in Cameras \ {c} : camera'[d] = camera[d]
      /\ camera'[c].queue = camera[c].queue /\ camera'[c].phase = "on"
  <2>1. camera' = [camera EXCEPT ![c].phase = "on"]
    BY DEF AddedCamera
  <2> QED
    BY <1>t, <2>1 DEF CameraType
<1>4. /\ \A f \in Entries \ {adding} : rtmpUser'[f] = rtmpUser[f]
      /\ rtmpUser'[adding].channel = rtmpUser[adding].channel
      /\ rtmpUser'[adding].serial = c[1]
      /\ rtmpUser'[adding].queueid = camera[c].queue
  <2>1. rtmpUser' = [rtmpUser EXCEPT ![adding] =
                        Session(c[1], rtmpUser[adding].channel, camera[c].queue)]
    BY DEF AddedCamera
  <2> QED
    BY <1>t, <1>2, <2>1 DEF Session
<1>5. \A e \in Entries \ {adding} : Live(e)' => Live(e) /\ rtmpUser'[e] = rtmpUser[e]
  BY <1>4 DEF Live, Filled
<1>6. PICK t \in Threads : /\ pc[t] = "none"
                           /\ pc' = [pc EXCEPT ![t] = "find"]
                           /\ chn' = [chn EXCEPT ![t] = rtmpUser[adding].channel]
  BY DEF AddedCamera
<1>7. /\ pc'[t] = "find" /\ chn'[t] = rtmpUser[adding].channel
      /\ \A u \in Threads \ {t} : pc'[u] = pc[u] /\ chn'[u] = chn[u]
  BY <1>t, <1>6
<1>8. ASSUME ~clash' PROVE ~clash /\ EntriesNameQueues /\ Table
  BY <1>1, <1>8 DEF ServedInv, RtmpInv
<1>9. ASSUME ~clash' PROVE EntriesNameQueues'
  <2> SUFFICES ASSUME NEW e \in Entries, Live(e)'
               PROVE  /\ camera'[CameraOf(e)'].phase = "on"
                      /\ camera'[CameraOf(e)'].queue = rtmpUser'[e].queueid
    BY DEF EntriesNameQueues
  <2>1. CASE e = adding
    <3>1. CameraOf(e)' = <<c[1], c[2]>> /\ c = <<c[1], c[2]>>
      BY <1>2, <1>4, <1>8, <1>9, <2>1 DEF CameraOf, Cameras
    <3> QED
      BY <1>3, <1>4, <2>1, <3>1
  <2>2. CASE e # adding
    <3>1. Live(e) /\ rtmpUser'[e] = rtmpUser[e] /\ CameraOf(e)' = CameraOf(e)
      BY <1>5, <2>2 DEF CameraOf
    <3>2. CameraOf(e) \in Cameras \ {c}
      BY <1>1, <1>8, <1>9, <3>1, CameraOfLive DEF EntriesNameQueues, Live
    <3> QED
      BY <1>3, <1>8, <1>9, <3>1, <3>2 DEF EntriesNameQueues
  <2> QED
    BY <2>1, <2>2
<1>10. ASSUME ~clash', ~trespass'
       PROVE  NewQueuesUnread' /\ \A e \in Entries : Live(e)' => EntryServed(e)'
  <2>1. NewQueuesUnread /\ \A e \in Entries : Live(e) => EntryServed(e)
    BY <1>1, <1>10 DEF ServedInv
  <2>2. NewQueuesUnread'
    BY <1>1, <1>3, <2>1 DEF NewQueuesUnread
  <2>3. ASSUME NEW e \in Entries, Live(e)', e # adding PROVE EntryServed(e)'
    <3>1. Live(e) /\ rtmpUser'[e] = rtmpUser[e]
      BY <1>5, <2>3
    <3>2. rtmpUser[adding].channel # rtmpUser[e].channel
      BY <1>2, <1>8, <1>10, <2>3 DEF Table, ChannelsUnique, Claimed
    <3>3. /\ \A u \in Threads \ {t} : (WorksOn(u, e)' <=> WorksOn(u, e))
                                      /\ (Finds(u, e)' <=> Finds(u, e))
          /\ ~WorksOn(t, e) /\ ~WorksOn(t, e)' /\ ~Finds(t, e) /\ ~Finds(t, e)'
      BY <1>1, <1>6, <1>7, <3>1, <3>2 DEF WorksOn, Finds, Working
    <3>4. Undisturbed(e)
      BY <1>1, <3>1, <3>3 DEF Undisturbed
    <3> QED
      BY <2>1, <3>1, <3>4, EntryKept
  <2>4. ASSUME NEW e \in Entries, e = adding PROVE EntryServed(e)'
    <3> DEFINE q == camera[c].queue
    <3>1. rtmpUser'[e].queueid = q /\ rtmpUser'[e].channel = rtmpUser[adding].channel
      BY <1>4, <2>4
    <3>2. q \in Queues
      BY <1>1 DEF RtmpInv, CamerasOwnQueues, TypeOK
    <3>3. \A s \in ReadSlots : pRead[q][s] = 0
      BY <1>1, <2>1 DEF NewQueuesUnread
    <3> HIDE DEF q
    <3>4. \A u \in Threads : u \notin stale => queueID[u] # q
      BY <1>1, <1>10, <3>2, <3>3, UnreadHasNoHandle
    <3>5. Finds(t, e)'
      BY <1>7, <3>1 DEF Finds
    <3>6. \A u \in Threads : ~WorksOn(u, e)'
      <4>1. \A u \in Threads \ {t} : Working(u) => i[u] # adding
        BY <1>8, <1>10 DEF Table, WorkersHold
      <4> QED
        BY <1>1, <1>7, <2>4, <4>1 DEF WorksOn, Working
    <3> QED
      BY <1>1, <3>1, <3>3, <3>4, <3>5, <3>6 DEF EntryServed
  <2> QED
    BY <2>2, <2>3, <2>4
<1> QED
  BY <1>9, <1>10 DEF ServedInv

\* The entry of a camera that is taken off names no queue any more.
LEMMA ServedDel ==
    ASSUME RtmpInv, ServedInv, NEW c \in Cameras, delCameraCallBack(c)
    PROVE  ServedInv'
<1> USE DEF tableVars, bootVars, queueVars, threadVars, confVars
<1>t. camera \in [Cameras -> CameraType] /\ rtmpUser \in [Entries -> EntryType]
  BY DEF RtmpInv, TypeOK, CameraType, EntryType
<1>1. UNCHANGED <<adding, clash, pRead, trespass, pc, chn, i, queueID, stale>>
      /\ rtmpUser' = SetRtmpUserPram(c)
  BY DEF delCameraCallBack
<1>2. /\ \A d \in Cameras \ {c} : camera'[d] = camera[d]
      /\ camera'[c].phase = "del"
  <2>1. camera' = [camera EXCEPT ![c].phase = "del"]
    BY DEF delCameraCallBack
  <2> QED
    BY <1>t, <2>1 DEF CameraType
<1>3. ASSUME ~clash' PROVE ~clash /\ EntriesNameQueues /\ ChannelsUnique
  BY <1>1, <1>3 DEF ServedInv, RtmpInv, Table
<1>4. ASSUME ~clash', NEW e \in Entries, Live(e)'
      PROVE  /\ Live(e) /\ rtmpUser'[e] = rtmpUser[e]
             /\ CameraOf(e) \in Cameras \ {c}
  <2> DEFINE own == {f \in Entries : rtmpUser[f].channel = c[2] /\ rtmpUser[f].serial = c[1]}
  <2>1. rtmpUser'[e] = IF e \in own /\ \A f \in own : e <= f
                       THEN [channel |-> c[2], queueid |-> 0, enable |-> 0,
                             stat |-> "DISCONNECT", serial |-> c[1]]
                       ELSE rtmpUser[e]
    BY <1>1 DEF SetRtmpUserPram
  <2>2. c[2] # -1
    BY ConstFacts DEF Cameras
  <2>3. ASSUME e \in own PROVE \A f \in own : e <= f
    <3>1. \A f \in own : f = e
      BY <1>3, <1>4, <2>2, <2>3 DEF ChannelsUnique
    <3> QED
      BY <2>3, <3>1, EntriesNat
  <2>4. e \notin own
    <3>1. ASSUME e \in own PROVE FALSE
      <4>1. rtmpUser'[e] = [channel |-> c[2], queueid |-> 0, enable |-> 0,
                            stat |-> "DISCONNECT", serial |-> c[1]]
        BY <2>1, <2>3, <3>1
      <4>2. rtmpUser'[e].queueid = 0
        BY <4>1
      <4> QED
        BY <1>4, <4>2, ConstFacts DEF Live
    <3> QED
      BY <3>1
  <2>5. rtmpUser'[e] = rtmpUser[e]
    BY <2>1, <2>4
  <2>6. Live(e)
    BY <1>1, <1>4, <2>5 DEF Live, Filled
  <2>7. CameraOf(e) \in Cameras /\ CameraOf(e) # c
    BY <1>3, <1>4, <2>4, <2>6, CameraOfLive DEF Live
  <2> QED
    BY <2>5, <2>6, <2>7
<1>5. ASSUME ~clash' PROVE EntriesNameQueues'
  BY <1>2, <1>3, <1>4, <1>5, NamesKept
<1>6. ASSUME ~clash', ~trespass'
      PROVE  NewQueuesUnread' /\ \A e \in Entries : Live(e)' => EntryServed(e)'
  <2>1. NewQueuesUnread /\ \A e \in Entries : Live(e) => EntryServed(e)
    BY <1>1, <1>6 DEF ServedInv
  <2>2. NewQueuesUnread'
    BY <1>1, <1>2, <2>1 DEF NewQueuesUnread
  <2>3. ASSUME NEW e \in Entries, Live(e)' PROVE EntryServed(e)'
    <3>1. Live(e) /\ rtmpUser'[e] = rtmpUser[e]
      BY <1>4, <1>6, <2>3
    <3>2. UNCHANGED <<pRead, pc, chn, i, queueID, stale>>
      BY <1>1
    <3>3. Undisturbed(e)
      BY <3>1, <3>2 DEF Undisturbed, WorksOn, Finds, Working
    <3> QED
      BY <2>1, <3>1, <3>3, EntryKept
  <2> QED
    BY <2>2, <2>3
<1> QED
  BY <1>5, <1>6 DEF ServedInv

\* A queue is destroyed when no entry names it.
LEMMA ServedDisdroy ==
    ASSUME RtmpInv, ServedInv, NEW c \in Cameras, DisdroyQueue(c)
    PROVE  ServedInv'
<1> USE DEF tableVars, bootVars, queueVars, threadVars, confVars
<1>t. camera \in [Cameras -> CameraType] /\ pRead \in [Queues -> [ReadSlots -> Threads \cup {0}]]
  BY DEF RtmpInv, TypeOK, CameraType
<1> DEFINE q == camera[c].queue
<1>1. /\ camera' = [camera EXCEPT ![c] = [phase |-> "off", queue |-> 0]]
      /\ pRead' = [pRead EXCEPT ![q] = [s \in ReadSlots |-> 0]]
      /\ stale' = stale \cup {t \in Threads : queueID[t] = q}
      /\ UNCHANGED <<rtmpUser, adding, clash, trespass, pc, chn, i, queueID>>
      /\ camera[c].phase = "del"
  BY DEF DisdroyQueue
<1>2. q \in Queues /\ q = camera[c].queue
  BY <1>1 DEF RtmpInv, CamerasOwnQueues, TypeOK
<1> HIDE DEF q
<1>3. /\ camera'[c].phase = "off" /\ \A d \in Cameras \ {c} : camera'[d] = camera[d]
      /\ \A s \in ReadSlots : pRead'[q][s] = 0
      /\ \A r \in Queues \ {q} : pRead'[r] = pRead[r]
  BY <1>t, <1>1, <1>2
<1>4. \A e \in Entries : (Live(e)' <=> Live(e)) /\ CameraOf(e)' = CameraOf(e)
  BY <1>1 DEF Live, Filled, CameraOf
<1>5. ASSUME ~clash' PROVE ~clash /\ EntriesNameQueues
  BY <1>1, <1>5 DEF ServedInv
<1>6. ASSUME ~clash' PROVE EntriesNameQueues'
  <2>1. \A e \in Entries : Live(e) => CameraOf(e) \in Cameras \ {c}
    BY <1>1, <1>5, <1>6, CameraOfLive DEF EntriesNameQueues, Live
  <2>2. rtmpUser' = rtmpUser
    BY <1>1
  <2> QED
    BY <1>3, <1>4, <1>5, <1>6, <2>1, <2>2, NamesKept
<1>7. ASSUME ~clash', ~trespass'
      PROVE  NewQueuesUnread' /\ \A e \in Entries : Live(e)' => EntryServed(e)'
  <2>1. NewQueuesUnread /\ \A e \in Entries : Live(e) => EntryServed(e)
    BY <1>1, <1>7 DEF ServedInv
  <2>2. NewQueuesUnread'
    <3>1. \A d \in Cameras \ {c} : camera[d].phase # "off" => camera[d].queue \in Queues \ {q}
      BY <1>1, <1>2 DEF CamerasOwnQueues, RtmpInv, TypeOK
    <3> QED
      BY <1>3, <2>1, <3>1 DEF NewQueuesUnread
  <2>3. ASSUME NEW e \in Entries, Live(e)' PROVE EntryServed(e)'
    <3>1. Live(e) /\ rtmpUser[e].queueid \in Queues \ {q}
      BY <1>1, <1>2, <1>4, <1>5, <1>7, <2>3, QueuesOfEntries DEF Live
    <3>2. UNCHANGED <<rtmpUser, pc, chn, i, queueID>>
      BY <1>1
    <3>3. \A t \in Threads : t \notin stale' => t \notin stale
      BY <1>1
    <3>4. Undisturbed(e)
      BY <1>3, <3>1, <3>2, <3>3 DEF Undisturbed, WorksOn, Finds, Working
    <3> QED
      BY <2>1, <3>1, <3>4, EntryKept
  <2> QED
    BY <2>2, <2>3
<1> QED
  BY <1>6, <1>7 DEF ServedInv

(***************************************************************************)
(* Steps of RtmpProc.                                                      *)
(***************************************************************************)

\* A step of a thread that leaves cameras, the queues of the entries that stay
\* and their serving alone.
LEMMA ServedByThread ==
    ASSUME RtmpInv, ServedInv, UNCHANGED <<camera, clash>>,
           ~trespass' => ~trespass,
           \A e \in Entries :
               Live(e)' => /\ Live(e) /\ rtmpUser'[e] = rtmpUser[e]
                           /\ ~clash /\ ~trespass' => EntryServed(e)',
           ~clash /\ ~trespass' => NewQueuesUnread'
    PROVE  ServedInv'
<1>1. ASSUME ~clash' PROVE EntriesNameQueues'
  BY <1>1, NamesKept DEF ServedInv
<1> QED
  BY <1>1 DEF ServedInv

LEMMA ServedFind ==
    ASSUME RtmpInv, ServedInv, NEW t \in Threads, Find(t)
    PROVE  ServedInv'
<1> USE DEF tableVars, bootVars, queueVars, threadVars, confVars
<1>t. TypeOK /\ pc \in [Threads -> Labels] /\ i \in [Threads -> 0 .. RTMP_USR_NUM]
  BY DEF RtmpInv, TypeOK
<1>1. /\ UNCHANGED <<rtmpUser, adding, clash, camera, pRead, trespass, chn, queueID, stale>>
      /\ pc[t] = "find" /\ pc' = [pc EXCEPT ![t] = "while"]
  BY DEF Find, Goto
<1>2. pc'[t] = "while" /\ \A u \in Threads \ {t} : pc'[u] = pc[u] /\ i'[u] = i[u]
  BY <1>t, <1>1, FindFinds
<1>3. \A e \in Entries : Live(e)' <=> Live(e)
  BY <1>1 DEF Live, Filled
<1>4. ASSUME ~clash, ~trespass PROVE NewQueuesUnread'
  BY <1>1, <1>4 DEF ServedInv, NewQueuesUnread
<1>5. ASSUME ~clash, ~trespass, NEW e \in Entries, Live(e) PROVE EntryServed(e)'
  <2>1. EntryServed(e) /\ Table
    BY <1>5 DEF ServedInv, RtmpInv
  <2>2. \E f \in Entries : rtmpUser[f].channel = chn[t] /\ chn[t] # -1
    BY <1>1, <2>1 DEF Table, FindersFind
  <2>3. i'[t] \in Entries /\ rtmpUser[i'[t]].channel = chn[t] /\ chn[t] # -1
    BY <1>t, <2>2, FindFinds
  <2>4. i'[t] = e <=> rtmpUser[e].channel = chn[t]
    BY <2>1, <2>3 DEF Table, ChannelsUnique
  <2>5. /\ \A u \in Threads \ {t} : (WorksOn(u, e)' <=> WorksOn(u, e))
                                    /\ (Finds(u, e)' <=> Finds(u, e))
        /\ ~WorksOn(t, e) /\ ~Finds(t, e)' /\ (WorksOn(t, e)' <=> Finds(t, e))
    BY <1>1, <1>2, <2>4 DEF WorksOn, Finds, Working
  <2>6. Undisturbed(e)
    BY <1>1, <1>5, <2>5 DEF Undisturbed
  <2> QED
    BY <2>1, <2>6, EntryKept
<1> QED
  BY <1>1, <1>3, <1>4, <1>5, ServedByThread

LEMMA ServedClean ==
    ASSUME RtmpInv, ServedInv, NEW t \in Threads, Clean(t) \/ CleanSerial(t)
    PROVE  ServedInv'
<1> USE DEF tableVars, bootVars, queueVars, threadVars, confVars
<1>t. pc \in [Threads -> Labels] /\ rtmpUser \in [Entries -> EntryType]
  BY DEF RtmpInv, TypeOK, EntryType
<1>1. /\ UNCHANGED <<adding, clash, camera, pRead, trespass, chn, i, queueID, stale>>
      /\ pc[t] \in {"clean", "cleanSerial"}
      /\ \E l \in {"cleanSerial", "unregist"} : pc' = [pc EXCEPT ![t] = l]
  BY DEF Clean, CleanSerial, Goto
<1>2. /\ pc[t] # "find" /\ pc'[t] # "find" /\ \A u \in Threads \ {t} : pc'[u] = pc[u]
      /\ Working(t)
  BY <1>t, <1>1 DEF Working
<1>3. i[t] \in Entries
  BY <1>1 DEF RtmpInv, Indexed, InLoop
<1>4. /\ \A f \in Entries \ {i[t]} : rtmpUser'[f] = rtmpUser[f]
      /\ Clean(t) => rtmpUser'[i[t]].channel = -1
      /\ CleanSerial(t) => rtmpUser'[i[t]].channel = rtmpUser[i[t]].channel
  <2>1. CASE Clean(t)
    <3>1. ~CleanSerial(t)
      BY <2>1 DEF Clean, CleanSerial
    <3> QED
      BY <1>t, <1>3, <2>1, <3>1, CleanEffect
  <2>2. CASE CleanSerial(t)
    <3>1. ~Clean(t) /\ rtmpUser' = [rtmpUser EXCEPT ![i[t]].serial = ""]
      BY <2>2 DEF Clean, CleanSerial
    <3> QED
      BY <1>t, <1>3, <3>1 DEF EntryType
  <2> QED
    BY <2>1, <2>2
<1>5. ASSUME ~clash PROVE rtmpUser'[i[t]].channel = -1
  <2>1. WorkersHold
    BY <1>5 DEF RtmpInv, Table
  <2>2. CleanSerial(t) => rtmpUser[i[t]].channel = -1
    BY <1>2, <2>1 DEF WorkersHold, CleanSerial
  <2> QED
    BY <1>4, <2>2
<1>6. ASSUME ~clash, NEW e \in Entries, Live(e)'
      PROVE  e # i[t] /\ Live(e) /\ rtmpUser'[e] = rtmpUser[e]
  <2>1. e # i[t]
    BY <1>5, <1>6 DEF Live, Filled
  <2> QED
    BY <1>1, <1>4, <1>6, <2>1 DEF Live, Filled
<1>7. ASSUME ~clash, ~trespass, NEW e \in Entries, Live(e)' PROVE EntryServed(e)'
  <2>1. e # i[t] /\ Live(e) /\ rtmpUser'[e] = rtmpUser[e]
    BY <1>6, <1>7
  <2>2. EntryServed(e)
    BY <1>7, <2>1 DEF ServedInv
  <2>3. \A u \in Threads : (WorksOn(u, e)' <=> WorksOn(u, e)) /\ (Finds(u, e)' <=> Finds(u, e))
    BY <1>1, <1>2, <2>1 DEF WorksOn, Finds, Working
  <2>4. Undisturbed(e)
    BY <1>1, <2>1, <2>3 DEF Undisturbed
  <2> QED
    BY <2>1, <2>2, <2>4, EntryKept
<1>8. ASSUME ~clash, ~trespass PROVE NewQueuesUnread'
  BY <1>1, <1>8 DEF ServedInv, NewQueuesUnread
<1>9. CASE clash
  BY <1>1, <1>9 DEF ServedInv
<1>10. CASE ~clash
  BY <1>1, <1>6, <1>7, <1>8, <1>10, ServedByThread
<1> QED
  BY <1>9, <1>10

\* A thread that returns leaves the others as they are.
LEMMA ReturnEffect ==
    ASSUME RtmpInv, NEW t \in Threads, Return(t), UNCHANGED rtmpUser,
           NEW e \in Entries, ~WorksOn(t, e), ~Finds(t, e)
    PROVE  \A u \in Threads :
               /\ WorksOn(u, e)' <=> WorksOn(u, e)
               /\ Finds(u, e)' <=> Finds(u, e)
               /\ u \notin stale' /\ queueID'[u] \in Queues => u \notin stale /\ queueID'[u] = queueID[u]
<1>1. TypeOK
  BY DEF RtmpInv
<1>2. /\ pc'[t] = "none" /\ queueID'[t] = 0 /\ stale' = stale \ {t}
      /\ \A u \in Threads \ {t} : /\ pc'[u] = pc[u] /\ queueID'[u] = queueID[u]
                                  /\ i'[u] = i[u] /\ chn'[u] = chn[u]
  BY <1>1 DEF Return, Goto, TypeOK
<1>3. \A u \in Threads \ {t} : (WorksOn(u, e)' <=> WorksOn(u, e)) /\ (Finds(u, e)' <=> Finds(u, e))
  BY <1>2 DEF WorksOn, Finds, Working
<1>4. ~WorksOn(t, e)' /\ ~Finds(t, e)'
  BY <1>2 DEF WorksOn, Finds, Working
<1> QED
  BY <1>2, <1>3, <1>4, ConstFacts

LEMMA ServedUnRegist ==
    ASSUME RtmpInv, ServedInv, NEW t \in Threads, UnRegist(t)
    PROVE  ServedInv'
<1> USE DEF tableVars, bootVars, queueVars, threadVars, confVars
<1>t. pRead \in [Queues -> [ReadSlots -> Threads \cup {0}]] /\ registerID[t] \in ReadSlots
      /\ HandlesOwned
  BY DEF RtmpInv, TypeOK
<1>1. UNCHANGED <<rtmpUser, adding, clash, camera>> /\ pc[t] = "unregist" /\ Return(t)
      /\ (~trespass' => ~trespass)
  <2>1. UNCHANGED <<rtmpUser, adding, clash, camera>> /\ pc[t] = "unregist" /\ Return(t)
    BY DEF UnRegist
  <2>2. ~trespass' => ~trespass
    BY DEF UnRegist, RtmpInv, TypeOK
  <2> QED
    BY <2>1, <2>2
<1>2. \A q \in Queues : \A s \in ReadSlots :
          pRead'[q][s] = IF q = queueID[t] /\ s = registerID[t] THEN 0 ELSE pRead[q][s]
  <2>1. CASE queueID[t] \in Queues
    <3>1. pRead' = [pRead EXCEPT ![queueID[t]][registerID[t]] = 0]
      BY <2>1 DEF UnRegist
    <3> QED
      BY <1>t, <2>1, <3>1
  <2>2. CASE queueID[t] \notin Queues
    <3>1. pRead' = pRead
      BY <2>2 DEF UnRegist
    <3> QED
      BY <2>2, <3>1
  <2> QED
    BY <2>1, <2>2
<1>3. \A e \in Entries : Live(e)' <=> Live(e)
  BY <1>1 DEF Live, Filled
<1>4. ASSUME ~clash, ~trespass PROVE NewQueuesUnread'
  <2>1. \A c \in Cameras : camera[c].phase \in {"queue", "entry"} => camera[c].queue \in Queues
    BY DEF RtmpInv, CamerasOwnQueues, TypeOK
  <2> QED
    BY <1>1, <1>2, <1>4, <2>1 DEF ServedInv, NewQueuesUnread
<1>5. ASSUME ~clash, ~trespass', NEW e \in Entries, Live(e) PROVE EntryServed(e)'
  <2>1. EntryServed(e) /\ rtmpUser[e].queueid \in Queues
    BY <1>1, <1>5 DEF ServedInv, Live
  <2>2. ~WorksOn(t, e) /\ ~Finds(t, e)
    BY <1>1 DEF WorksOn, Finds, Working
  <2>3. \A s \in ReadSlots : pRead'[rtmpUser[e].queueid][s] = pRead[rtmpUser[e].queueid][s]
    <3>1. CASE t \in stale /\ queueID[t] \in Queues
      <4>1. pRead[queueID[t]][registerID[t]] = 0
        BY <1>5, <3>1 DEF UnRegist
      <4> QED
        BY <1>2, <2>1, <4>1
    <3>2. CASE queueID[t] \notin Queues
      BY <1>2, <2>1, <3>2
    <3>3. CASE t \notin stale
      <4>1. queueID[t] # rtmpUser[e].queueid
        BY <2>1, <2>2, <3>3 DEF EntryServed
      <4> QED
        BY <1>2, <2>1, <4>1
    <3> QED
      BY <3>1, <3>2, <3>3
  <2>4. \A u \in Threads :
            /\ WorksOn(u, e)' <=> WorksOn(u, e)
            /\ Finds(u, e)' <=> Finds(u, e)
            /\ u \notin stale' /\ queueID'[u] \in Queues => u \notin stale /\ queueID'[u] = queueID[u]
    BY <1>1, <2>2, ReturnEffect
  <2>5. Undisturbed(e)
    BY <1>1, <1>5, <2>1, <2>3, <2>4 DEF Undisturbed
  <2> QED
    BY <2>1, <2>5, EntryKept
<1> QED
  BY <1>1, <1>3, <1>4, <1>5, ServedByThread

\* A thread that registers reads the queue of its own entry; one that finds no
\* read pointer has them all.
LEMMA ServedRegist ==
    ASSUME RtmpInv, ServedInv, NEW t \in Threads, Regist(t)
    PROVE  ServedInv'
<1> USE DEF tableVars, bootVars, queueVars, threadVars, confVars
<1>t. /\ pRead \in [Queues -> [ReadSlots -> Threads \cup {0}]] /\ enabled \subseteq Queues
      /\ pc \in [Threads -> Labels] /\ queueID \in [Threads -> Queues \cup {-1, 0}]
  BY DEF RtmpInv, TypeOK
<1>1. UNCHANGED <<rtmpUser, adding, clash, camera, trespass, enabled>> /\ pc[t] = "regist"
  BY DEF Regist
<1>2. \A e \in Entries : Live(e)' <=> Live(e)
  BY <1>1 DEF Live, Filled
<1> DEFINE o == i[t]
           q == rtmpUser[o].queueid
<1>3. o \in Entries /\ Working(t)
  BY <1>1 DEF RtmpInv, Indexed, InLoop, Working
<1>4. ASSUME ~clash PROVE Filled(o) /\ rtmpUser[o].channel = chn[t]
  <2>1. WorkersHold
    BY <1>4 DEF RtmpInv, Table
  <2> QED
    BY <1>1, <1>3, <2>1 DEF WorkersHold, Filled
<1>5. ASSUME ~clash, NEW u \in Threads, u # t PROVE ~WorksOn(u, o) /\ ~Finds(u, o)
  <2>1. EntriesApart /\ ChannelsApart
    BY <1>5 DEF RtmpInv, Table
  <2>2. Holding(t)
    BY <1>1, <1>3 DEF Holding
  <2>3. ~WorksOn(u, o)
    BY <1>3, <1>5, <2>1 DEF EntriesApart, WorksOn
  <2>4. ~Finds(u, o)
    BY <1>4, <1>5, <2>1, <2>2 DEF ChannelsApart, Finds, Holding
  <2> QED
    BY <2>3, <2>4
<1>6. WorksOn(t, o) /\ \A e \in Entries : ~Finds(t, e) /\ (WorksOn(t, e) => e = o)
  BY <1>1, <1>3 DEF WorksOn, Finds
<1>7. ASSUME ~clash, q \in enabled
      PROVE  /\ Live(o)
             /\ \A e \in Entries : Live(e) /\ e # o => rtmpUser[e].queueid # q
             /\ \A c \in Cameras : camera[c].phase \in {"queue", "entry"} => camera[c].queue # q
  <2>1. Live(o)
    BY <1>t, <1>3, <1>4, <1>7 DEF Live
  <2>2. EntriesNameQueues
    BY <1>7 DEF ServedInv
  <2> QED
    BY <1>3, <1>7, <2>1, <2>2, QueuesOfEntries
<1>8. o = i[t] /\ q = rtmpUser[o].queueid
  OBVIOUS
<1> HIDE DEF o, q
<1>9. ASSUME NEW s \in ReadSlots, FreeReadSlot(q, s),
             pRead' = [pRead EXCEPT ![q][s] = t],
             queueID' = [queueID EXCEPT ![t] = q],
             stale' = stale \ {t},
             Goto(t, "connected"),
             UNCHANGED <<chn, i>>
      PROVE  ServedInv'
  <2>1. q \in enabled /\ q \in Queues
    BY <1>t, <1>9 DEF FreeReadSlot
  <2>2. /\ pRead'[q][s] = t
        /\ \A p \in Queues : \A r \in ReadSlots : p # q \/ r # s => pRead'[p][r] = pRead[p][r]
    BY <1>t, <1>9, <2>1
  <2>3. /\ pc'[t] = "connected" /\ queueID'[t] = q
        /\ \A u \in Threads \ {t} : pc'[u] = pc[u] /\ queueID'[u] = queueID[u]
    BY <1>t, <1>9 DEF Goto
  <2>4. \A e \in Entries : \A u \in Threads :
            (WorksOn(u, e)' <=> WorksOn(u, e)) /\ (Finds(u, e)' <=> Finds(u, e))
    BY <1>1, <1>9, <2>3 DEF WorksOn, Finds, Working
  <2>5. ASSUME ~clash, ~trespass PROVE NewQueuesUnread'
    <3>1. \A c \in Cameras :
              camera[c].phase \in {"queue", "entry"} => camera[c].queue \in Queues \ {q}
      BY <1>7, <2>1, <2>5 DEF RtmpInv, CamerasOwnQueues, TypeOK
    <3> QED
      BY <1>1, <2>2, <2>5, <3>1 DEF ServedInv, NewQueuesUnread
  <2>6. ASSUME ~clash, ~trespass, NEW e \in Entries, Live(e), e # o PROVE EntryServed(e)'
    <3>1. EntryServed(e) /\ rtmpUser[e].queueid \in Queues \ {q}
      BY <1>7, <2>1, <2>6 DEF ServedInv, Live
    <3>2. ~WorksOn(t, e)
      BY <1>6, <2>6
    <3>3. \A u \in Threads : u \notin stale' /\ queueID'[u] = rtmpUser[e].queueid =>
              u \notin stale /\ queueID[u] = rtmpUser[e].queueid
      BY <1>9, <2>3, <3>1
    <3>4. Undisturbed(e)
      BY <1>1, <2>2, <2>4, <2>6, <3>1, <3>3 DEF Undisturbed
    <3> QED
      BY <3>1, <3>4, EntryKept
  <2>7. ASSUME ~clash, ~trespass, NEW e \in Entries, e = o PROVE EntryServed(e)'
    <3>1. EntryServed(e) /\ Live(e)
      BY <1>3, <1>7, <2>1, <2>7 DEF ServedInv
    <3>2. \A r \in ReadSlots : pRead'[q][r] \in {0, t}
      BY <1>6, <1>8, <2>1, <2>2, <2>7, <3>1 DEF EntryServed
    <3>3. \A u \in Threads \ {t} : u \notin stale' => queueID'[u] # q
      <4>1. \A u \in Threads : u \notin stale /\ queueID[u] = q => WorksOn(u, e)
        BY <1>8, <2>7, <3>1 DEF EntryServed
      <4> QED
        BY <1>5, <1>9, <2>3, <2>7, <4>1
    <3>4. WorksOn(t, e)' /\ \A u \in Threads : (WorksOn(u, e)' => u = t) /\ ~Finds(u, e)'
      BY <1>5, <1>6, <2>4, <2>7
    <3>5. rtmpUser'[e].queueid = q
      BY <1>1, <1>8, <2>7
    <3> QED
      BY <3>2, <3>3, <3>4, <3>5 DEF EntryServed
  <2> QED
    BY <1>1, <1>2, <2>5, <2>6, <2>7, ServedByThread
<1>10. ASSUME \A s \in ReadSlots : ~FreeReadSlot(q, s), Return(t), UNCHANGED pRead
       PROVE  ServedInv'
  <2>1. ASSUME ~clash, ~trespass PROVE NewQueuesUnread'
    BY <1>1, <1>10, <2>1 DEF ServedInv, NewQueuesUnread
  <2>2. ASSUME ~clash, ~trespass, NEW e \in Entries, Live(e), e # o PROVE EntryServed(e)'
    <3>1. EntryServed(e) /\ rtmpUser[e].queueid \in Queues
      BY <2>2 DEF ServedInv, Live
    <3>2. \A u \in Threads :
              /\ WorksOn(u, e)' <=> WorksOn(u, e)
              /\ Finds(u, e)' <=> Finds(u, e)
              /\ u \notin stale' /\ queueID'[u] \in Queues =>
                     u \notin stale /\ queueID'[u] = queueID[u]
      BY <1>1, <1>6, <1>10, <2>2, ReturnEffect
    <3>3. Undisturbed(e)
      BY <1>1, <1>10, <2>2, <3>1, <3>2 DEF Undisturbed
    <3> QED
      BY <3>1, <3>3, EntryKept
  <2>3. ASSUME ~clash, ~trespass, NEW e \in Entries, Live(e), e = o PROVE EntryServed(e)'
    <3>1. EntryServed(e) /\ q \in enabled /\ q \in Queues /\ rtmpUser[e].queueid = q
      BY <1>8, <2>3, QueuesOfEntries DEF ServedInv, Live
    <3>2. \A s \in ReadSlots : pRead[q][s] # 0
      <4> DEFINE free == {s \in ReadSlots : pRead[q][s] = 0}
      <4>1. free \subseteq Nat
        BY ConstFacts
      <4>2. ASSUME free # {} PROVE FALSE
        <5>1. PICK s \in free : \A r \in free : s <= r
          BY <4>1, <4>2, FirstExists
        <5>2. FreeReadSlot(q, s)
          BY <3>1, <5>1 DEF FreeReadSlot
        <5> QED
          BY <1>10, <5>1, <5>2
      <4> QED
        BY <4>2
    <3>3. \A s \in ReadSlots : pRead'[q][s] = t
      BY <1>6, <1>10, <2>3, <3>1, <3>2 DEF EntryServed
    <3>4. /\ pc'[t] = "none" /\ queueID'[t] = 0
          /\ \A u \in Threads \ {t} : /\ pc'[u] = pc[u] /\ queueID'[u] = queueID[u]
                                      /\ i'[u] = i[u] /\ chn'[u] = chn[u]
      BY <1>10 DEF RtmpInv, TypeOK, Return, Goto
    <3>5. \A u \in Threads : ~WorksOn(u, e)' /\ ~Finds(u, e)'
      BY <1>1, <1>5, <2>3, <3>4 DEF WorksOn, Finds, Working
    <3>6. \A u \in Threads : u \notin stale' => queueID'[u] # q
      <4>1. \A u \in Threads \ {t} : u \notin stale => queueID[u] # q
        BY <1>5, <2>3, <3>1 DEF EntryServed
      <4>2. stale' = stale \ {t}
        BY <1>10 DEF Return
      <4> QED
        BY <3>1, <3>4, <4>1, <4>2, ConstFacts
    <3>7. rtmpUser'[e].queueid = q
      BY <1>1, <3>1
    <3> QED
      BY <3>3, <3>5, <3>6, <3>7 DEF EntryServed
  <2> QED
    BY <1>1, <1>2, <2>1, <2>2, <2>3, ServedByThread
<1> QED
  BY <1>8, <1>9, <1>10 DEF Regist

LEMMA ServedInit == Init => ServedInv
<1> SUFFICES ASSUME Init PROVE ServedInv
  OBVIOUS
<1>1. \A e \in Entries : ~Live(e)
  BY DEF Init, Unused, Live, Filled
<1>2. \A c \in Cameras : camera[c].phase \in {"on", "off"}
  BY DEF Init
<1> QED
  BY <1>1, <1>2 DEF ServedInv, EntriesNameQueues, NewQueuesUnread

LEMMA ServedStep == RtmpInv /\ ServedInv /\ [Next]_vars => ServedInv'
<1> SUFFICES ASSUME RtmpInv, ServedInv, [Next]_vars PROVE ServedInv'
  OBVIOUS
<1>1. ASSUME IdleActions PROVE ServedInv'
  BY <1>1, IdleSteps, ServedIdle
<1>2. ASSUME NEW c \in Cameras,
             CreateQueue(c) \/ addCameraCallBack(c) \/ AddedCamera(c)
             \/ delCameraCallBack(c) \/ DisdroyQueue(c)
      PROVE  ServedInv'
  BY <1>2, ServedCreateQueue, ServedClaim, ServedAdded, ServedDel, ServedDisdroy
<1>3. ASSUME NEW t \in Threads,
             Find(t) \/ Regist(t) \/ Clean(t) \/ CleanSerial(t) \/ UnRegist(t)
      PROVE  ServedInv'
  BY <1>3, ServedFind, ServedRegist, ServedClean, ServedUnRegist
<1>4. ASSUME RtmpInit PROVE ServedInv'
  BY <1>4, ServedRtmpInit
<1> QED
  BY <1>1, <1>2, <1>3, <1>4 DEF Next, RtmpProc, IdleActions

(***************************************************************************)
(* Every entry in use has a thread that serves it or is about to find it;  *)
(* an entry whose thread has returned has no queue any more, or its thread *)
(* returned with every read pointer of the queue in its name.              *)
(***************************************************************************)
THEOREM EntriesServedHolds == Spec => []EntriesServed
<1>1. Init => RtmpInv /\ ServedInv
  BY InvInit, ServedInit
<1>2. RtmpInv /\ ServedInv /\ [Next]_vars => (RtmpInv /\ ServedInv)'
  BY InvStep, ServedStep
<1>3. RtmpInv /\ ServedInv => EntriesServed
  <2> SUFFICES ASSUME RtmpInv, ServedInv, ~clash, ~trespass, NEW e \in Entries \ {adding}
               PROVE  \/ rtmpUser[e].channel = -1
                      \/ \E t \in Threads :
                            \/ Working(t) /\ i[t] = e
                            \/ pc[t] = "find" /\ chn[t] = rtmpUser[e].channel
                      \/ rtmpUser[e].queueid \notin enabled
                      \/ /\ \A s \in ReadSlots : pRead[rtmpUser[e].queueid][s] # 0
                         /\ Cardinality({pRead[rtmpUser[e].queueid][s] : s \in ReadSlots}) = 1
    BY DEF EntriesServed
  <2> DEFINE q == rtmpUser[e].queueid
  <2>1. SUFFICES ASSUME rtmpUser[e].channel # -1, q \in enabled,
                        ~\E t \in Threads : WorksOn(t, e) \/ Finds(t, e)
                 PROVE  /\ \A s \in ReadSlots : pRead[q][s] # 0
                        /\ Cardinality({pRead[q][s] : s \in ReadSlots}) = 1
    BY DEF WorksOn, Finds
  <2>2. Live(e)
    BY <2>1 DEF Live, Filled, RtmpInv, TypeOK
  <2>3. PICK t \in Threads : \A s \in ReadSlots : pRead[q][s] = t
    BY <2>1, <2>2 DEF ServedInv, EntryServed
  <2>4. {pRead[q][s] : s \in ReadSlots} = {t}
    BY <2>3, ConstFacts
  <2>5. Cardinality({t}) = 1
    BY FS_Singleton
  <2> QED
    BY <2>3, <2>4, <2>5, ConstFacts
<1> QED
  BY <1>1, <1>2, <1>3, PTL DEF Spec
=============================================================================
