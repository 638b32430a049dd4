------------------------------ MODULE FrameCache ------------------------------
(***************************************************************************)
(* Modules/HkSdkManage/hkManage.c: the SDK of the DVRs calls               *)
(* g_RealDataCallBack_V30 with the packs of the streams that were opened,  *)
(* and the callback puts the frames together.  The pieces of a frame are   *)
(* kept in the row of the array m_pFrameCache that belongs to the handle   *)
(* of the stream; the pack that begins the next frame makes it take them   *)
(* out, and write them to the media queue of the camera.                   *)
(*                                                                         *)
(* The rows lie one behind the other and nobody asks whether a row is      *)
(* full, so the array is modelled by its places, one number for all rows.  *)
(* Streams are told apart by a number of their own, since a handle is used *)
(* again.  The SDK calls back for one pack of a stream after the other.    *)
(* Packs of sound and the lengths of pieces are left out, except that a    *)
(* piece may be empty; the SDK's pieces fit into MAX_PACK_SIZE bytes, and  *)
(* its handles are below NET_IPC_MAX_NUM.                                  *)
(***************************************************************************)
EXTENDS Integers

CONSTANTS
    NET_IPC_MAX_NUM,  \* rows of m_pFrameCache
    MAX_FRAME_LENTH,  \* places of a row
    MaxStreams,       \* bound: streams opened
    MaxPacks          \* bound: packs of all streams

ASSUME CacheAssumption ==
    /\ NET_IPC_MAX_NUM \in Nat \ {0} /\ MAX_FRAME_LENTH \in Nat \ {0}
    /\ MaxStreams \in Nat /\ MaxPacks \in Nat

Handles == 0 .. NET_IPC_MAX_NUM - 1
Places == 0 .. NET_IPC_MAX_NUM * MAX_FRAME_LENTH - 1

\* The place of m_pFrameCache[lRealHandle][n], also where n is no index of a row.
Place(lRealHandle, n) == lRealHandle * MAX_FRAME_LENTH + n

\* What a buffer in the cache holds: a piece, by where it came from.
Piece == [handle : Handles, stream : Nat, frame : Nat, num : Nat, empty : BOOLEAN]
NULL == [handle |-> 0, stream |-> 0, frame |-> 0, num |-> 0, empty |-> TRUE]

VARIABLES
    length,     \* m_mFrameCacheLenth
    cache,      \* m_pFrameCache: the buffers
    open,       \* the handles of streams that are open
    stream,     \* the number of the last stream of a handle
    frame,      \* the frame that the SDK sends: its number in the stream
    sent,       \* and the pieces of it that the SDK has sent
    streams,    \* streams so far
    packs,      \* packs so far
    written,    \* history: the last frame that was written to a queue
    gap,        \* history: handles of which a pack was missed since a frame began
    leftover,   \* history: handles that were opened again with pieces in the row
    overflowed, \* history: handles of which the row was too short
    gone        \* the memory behind the array was written

sdkVars == <<open, stream, frame, sent, streams>>
cacheHistVars == <<gap, leftover, overflowed>>
cacheVars == <<length, cache, sdkVars, packs, written, cacheHistVars, gone>>

\* A row is safe from what was written past the end of the rows before it.
Safe(h) == \A g \in overflowed : h < g

NoFrame == [handle |-> 0, total |-> 0, parts |-> << >>, safe |-> FALSE, whole |-> FALSE]

CacheTypeOK ==
    /\ length \in [Handles -> Nat]
    /\ cache \in [Places -> Piece]
    /\ open \subseteq Handles
    /\ stream \in [Handles -> Nat]
    /\ frame \in [Handles -> Nat]
    /\ sent \in [Handles -> Nat]
    /\ streams \in Nat /\ packs \in Nat
    /\ gap \subseteq Handles /\ leftover \subseteq Handles /\ overflowed \subseteq Handles
    /\ \A h \in Handles : gone \/ Place(h, length[h]) \leq NET_IPC_MAX_NUM * MAX_FRAME_LENTH
    /\ gone \in BOOLEAN

CacheInit ==
    /\ length = [h \in Handles |-> 0]
    /\ cache = [p \in Places |-> NULL]
    /\ open = {}
    /\ stream = [h \in Handles |-> 0]
    /\ frame = [h \in Handles |-> 0]
    /\ sent = [h \in Handles |-> 0]
    /\ streams = 0
    /\ packs = 0
    /\ written = NoFrame
    /\ gap = {} /\ leftover = {} /\ overflowed = {}
    /\ gone = FALSE
-----------------------------------------------------------------------------
(***************************************************************************)
(* NET_DVR_RealPlay_V40 and NET_DVR_StopRealPlay.  The row of a handle is  *)
(* left as it is.                                                          *)
(***************************************************************************)
RealPlay(h) ==
    /\ ~gone /\ h \notin open /\ streams < MaxStreams
    /\ streams' = streams + 1
    /\ open' = open \cup {h}
    /\ stream' = [stream EXCEPT ![h] = streams + 1]
    /\ frame' = [frame EXCEPT ![h] = 0]
    /\ sent' = [sent EXCEPT ![h] = 0]
    /\ gap' = gap \ {h}
    /\ leftover' = IF length[h] > 0 THEN leftover \cup {h} ELSE leftover \ {h}
    /\ UNCHANGED <<length, cache, packs, written, overflowed, gone>>

StopRealPlay(h) ==
    /\ ~gone /\ h \in open
    /\ open' = open \ {h}
    /\ UNCHANGED <<length, cache, stream, frame, sent, streams, packs, written, cacheHistVars, gone>>

\* The SDK sends a pack with a piece, or the one that begins the next frame.
Send(h, head) ==
    /\ ~gone /\ h \in open /\ packs < MaxPacks
    /\ packs' = packs + 1
    /\ frame' = IF head THEN [frame EXCEPT ![h] = @ + 1] ELSE frame
    /\ sent' = [sent EXCEPT ![h] = IF head THEN 0 ELSE @ + 1]
    /\ UNCHANGED <<open, stream, streams>>

(***************************************************************************)
(* The callback looks for the handle in the list of DVRs.  The DVR is put  *)
(* there after all of its streams were opened, and the entry is memory of  *)
(* a function that has returned: the handle is found or not.               *)
(***************************************************************************)
NotFound(h, head) ==
    /\ Send(h, head)
    /\ gap' = gap \cup {h}
    /\ UNCHANGED <<length, cache, written, leftover, overflowed, gone>>

\* The place that GetH246FromPS is called with.
NextPlace(h) == Place(h, length[h])

\* A row that is full is not asked for, and the place is another row's.
Overflow(h) ==
    overflowed' = IF length[h] < MAX_FRAME_LENTH THEN overflowed ELSE overflowed \cup {h}

(***************************************************************************)
(* A pack with a piece.  It goes into a new buffer, or over what is in a   *)
(* buffer that is already there.                                           *)
(***************************************************************************)
PartialData(h, empty) ==
    /\ Send(h, FALSE)
    /\ NextPlace(h) \in Places
    /\ cache' = [cache EXCEPT ![NextPlace(h)] =
                    [handle |-> h, stream |-> stream[h], frame |-> frame[h],
                     num |-> sent[h] + 1, empty |-> empty]]
    /\ length' = [length EXCEPT ![h] = @ + 1]
    /\ Overflow(h)
    /\ UNCHANGED <<written, gap, leftover, gone>>

Row(h) == {Place(h, n) : n \in 0 .. length[h] - 1}

\* A bug: the buffers are copied from the last to the first.
Mut_Copied(h) == [n \in 0 .. length[h] - 1 |-> cache[Place(h, length[h] - 1 - n)]]

\* A bug: the last buffer is not copied.
Mut_CopiedShort(h) == [n \in 0 .. length[h] - 2 |-> cache[Place(h, n)]]

Copied(h) == [n \in 0 .. length[h] - 1 |-> cache[Place(h, n)]]

\* A bug: the buffers are freed, but stay in the cache.
Mut_Cleared(h) == {NextPlace(h)}

\* The places that are NULL afterwards: those whose buffer was freed, and the one
\* behind them, whose buffer GetH246FromPS forgets.
Cleared(h) == Row(h) \cup {NextPlace(h)}

Emptied(h) == [length EXCEPT ![h] = 0]

(***************************************************************************)
(* The pack that begins a frame.  The pieces are copied one after the      *)
(* other and freed, and WriteH264DataToChace writes the frame if there is  *)
(* a queue for it and anything in it.                                      *)
(***************************************************************************)
PackHead(h, queueid) ==
    /\ Send(h, TRUE)
    /\ NextPlace(h) \in Places
    /\ cache' = [p \in Places |-> IF p \in Cleared(h) THEN NULL ELSE cache[p]]
    /\ length' = Emptied(h)
    /\ written' = IF queueid >= 0 /\ \E p \in Row(h) : ~cache[p].empty
                  THEN [handle |-> h, total |-> sent[h], parts |-> Copied(h),
                        safe |-> Safe(h), whole |-> h \notin gap \cup leftover]
                  ELSE written
    /\ gap' = gap \ {h}
    /\ leftover' = leftover \ {h}
    /\ Overflow(h)
    /\ UNCHANGED gone

\* The row is the last one, and what lies behind the array is written.
PastTheArray(h, head) ==
    /\ Send(h, head)
    /\ NextPlace(h) \notin Places
    /\ gone' = TRUE
    /\ Overflow(h)
    /\ UNCHANGED <<length, cache, written, gap, leftover>>

g_RealDataCallBack_V30(h) ==
    \/ \E head \in BOOLEAN : NotFound(h, head) \/ PastTheArray(h, head)
    \/ \E empty \in BOOLEAN : PartialData(h, empty)
    \/ \E queueid \in {-1, 1} : PackHead(h, queueid)

CacheNext == \E h \in Handles : RealPlay(h) \/ StopRealPlay(h) \/ g_RealDataCallBack_V30(h)

CacheSpec == CacheInit /\ [][CacheNext]_cacheVars
-----------------------------------------------------------------------------
(***************************************************************************)
(* A row holds buffers in its first m_mFrameCacheLenth places and nowhere  *)
(* else, as long as neither its own frames nor those of rows before it     *)
(* were too long: a piece is never copied over a buffer that was made for  *)
(* another one, and none is lost without being freed.  What is too long    *)
(* does damage in the rows behind it only.                                 *)
(***************************************************************************)
RowsTidy ==
    \A h \in Handles :
        Safe(h) =>
            /\ length[h] <= MAX_FRAME_LENTH
            /\ \A n \in 0 .. MAX_FRAME_LENTH - 1 : cache[Place(h, n)] # NULL <=> n < length[h]

\* The order in which the packs of a handle come.
Earlier(a, b) ==
    \/ a.stream < b.stream
    \/ a.stream = b.stream /\ a.frame < b.frame
    \/ a.stream = b.stream /\ a.frame = b.frame /\ a.num < b.num

(***************************************************************************)
(* A frame that is written consists of pieces of its own handle, in the    *)
(* order in which they were sent and none of them twice, unless a frame    *)
(* of this row or of one before it was too long.                           *)
(***************************************************************************)
FramesInOrder ==
    written.safe =>
        \A n \in DOMAIN written.parts :
            /\ written.parts[n].handle = written.handle /\ written.parts[n].num > 0
            /\ n > 0 => Earlier(written.parts[n - 1], written.parts[n])

(***************************************************************************)
(* If no pack was missed and the row was empty when the stream was opened, *)
(* then what is written is one frame that the camera has sent, all of it.  *)
(***************************************************************************)
FramesWhole ==
    written.safe /\ written.whole =>
        /\ DOMAIN written.parts = 0 .. written.total - 1
        /\ \A n \in DOMAIN written.parts :
            /\ written.parts[n].num = n + 1
            /\ written.parts[n].stream = written.parts[0].stream
            /\ written.parts[n].frame = written.parts[0].frame
-----------------------------------------------------------------------------
\* A piece was sent before the next one of handle h will be.
Sent(q, h) ==
    \/ q.stream < stream[h]
    \/ q.stream = stream[h] /\ q.frame < frame[h]
    \/ q.stream = stream[h] /\ q.frame = frame[h] /\ q.num <= sent[h]

\* What the places in use of a row hold.
RowHolds(h) ==
    /\ \A n \in 0 .. length[h] - 1 :
        /\ cache[Place(h, n)].handle = h
        /\ cache[Place(h, n)].num > 0
        /\ Sent(cache[Place(h, n)], h)
        /\ n > 0 => Earlier(cache[Place(h, n - 1)], cache[Place(h, n)])
    /\ h \notin gap \cup leftover =>
        /\ length[h] = sent[h]
        /\ \A n \in 0 .. length[h] - 1 :
            /\ cache[Place(h, n)].stream = stream[h]
            /\ cache[Place(h, n)].frame = frame[h]
            /\ cache[Place(h, n)].num = n + 1

(***************************************************************************)
(* The rows hold pieces of their own handles in the order in which they    *)
(* were sent, and no others; without gaps, and of one frame, where no pack *)
(* was missed.  RowsTidy does not say what the buffers hold, and what      *)
(* FramesInOrder and FramesWhole say of a frame must be true of the row    *)
(* before the frame is taken out of it; together they are inductive.       *)
(***************************************************************************)
CacheInv ==
    /\ CacheTypeOK
    /\ \A h \in Handles : stream[h] <= streams
    /\ RowsTidy
    /\ \A h \in Handles : Safe(h) => RowHolds(h)
    /\ FramesInOrder
    /\ FramesWhole
=============================================================================
