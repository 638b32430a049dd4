------------------------------ MODULE MediaQueue ------------------------------
(***************************************************************************)
(* One queue of Modules/MediaQueue/mediaqueue.c: a ring buffer of raw      *)
(* bytes into which one camera writes frames and from which up to          *)
(* QUEUE_USE_MAX readers read, each through a pointer of its own.  The     *)
(* writer never waits: a reader whose data is about to be overwritten is   *)
(* moved forward to a later key frame.                                     *)
(*                                                                         *)
(* Every operation runs from MUTEX_LOCK to MUTEX_UNLOCK on the queue's     *)
(* selfMutex, so each one is a single action.  A pointer into the buffer   *)
(* is its offset from dataBuff; NULL is -1, which like the C NULL is below *)
(* every pointer into the buffer.  A read pointer may stand on the end of  *)
(* the buffer (offset Size), which is the same place as offset 0; pWrite   *)
(* never does.  A byte is a record naming the frame it belongs to and its  *)
(* place in that frame: the byte at place 0 carries the sync mark and,     *)
(* with the HeadLen - 1 bytes after it, the type and the length.           *)
(***************************************************************************)
EXTENDS Integers, FiniteSets

CONSTANTS
    Size,           \* dataBuffSize
    QUEUE_USE_MAX,  \* number of read pointers of a queue
    HeadLen,        \* sizeof(MeidaVideo_T), the longer of the frame headers
    FrameLens,      \* lengths of frames, header included
    BuffLen,        \* size of the buffer a reader passes to ReadData
    MaxFrames       \* bound: frames written to the queue in a behaviour

(***************************************************************************)
(* A frame has at least its header.  It is shorter than the buffer: the    *)
(* staging buffer of a frame is 400 KB, a queue 6 MB.                      *)
(***************************************************************************)
ASSUME QueueAssumption ==
    /\ Size \in Nat
    /\ QUEUE_USE_MAX \in Nat \ {0}
    /\ HeadLen \in Nat \ {0}
    /\ BuffLen \in Nat
    /\ MaxFrames \in Nat
    /\ FrameLens \subseteq Nat
    /\ \A len \in FrameLens : HeadLen <= len /\ len < Size

VARIABLES
    enabled,   \* handle->enabled
    pWrite,    \* handle->pWrite
    pRead,     \* handle->pRead[]
    dataBuff,  \* the Size bytes at handle->dataBuff
    frames,    \* history: number of frames written so far
    owed,      \* history: owed[s] is the frame reader s has to get next
    aborted    \* an assertion failed and the process is gone

vars == <<enabled, pWrite, pRead, dataBuff, frames, owed, aborted>>

NULL == -1

Slots == 0 .. QUEUE_USE_MAX - 1
Offsets == 0 .. Size - 1

(***************************************************************************)
(* "I" stands for every video frame that is not API_FRAME_TYPE_P, "A" for  *)
(* an audio frame.                                                         *)
(***************************************************************************)
Kinds == {"I", "P", "A"}

Byte == [id : Nat, kind : Kinds \cup {"none"}, len : Nat, off : Nat]

\* What memset leaves in a new buffer: no sync mark, no frame.
Blank == [id |-> 0, kind |-> "none", len |-> 0, off |-> 0]

TypeOK ==
    /\ enabled \in BOOLEAN
    /\ pWrite \in Offsets \cup {NULL}
    /\ pRead \in [Slots -> NULL .. Size]
    /\ dataBuff \in [Offsets -> Byte]
    /\ frames \in Nat
    /\ owed \in [Slots -> Nat]
    /\ aborted \in BOOLEAN
-----------------------------------------------------------------------------
(***************************************************************************)
(* Pointers.                                                               *)
(***************************************************************************)

\* The offset of the byte a pointer stands on.
Index(p) == IF p >= Size THEN p - Size ELSE p

\* rwlen: the bytes from p to the write pointer, none when they meet.
ReadableLen(p) == IF pWrite - p < 0 THEN Size + (pWrite - p) ELSE pWrite - p

\* A pointer moved over len bytes; it stays on the end when it meets it.
Advance(p, len) == IF p + len > Size THEN p + len - Size ELSE p + len

ByteAt(p) == dataBuff[Index(p)]

\* CopyDataOnQueue and the sync check succeed for the header at p.
HeaderAt(p) ==
    /\ ReadableLen(p) >= HeadLen
    /\ ByteAt(p).id # 0
    /\ ByteAt(p).off = 0

\* Mutant: the frame type is not looked at.
Mut_IframeAt(p) == HeaderAt(p)

IframeAt(p) == HeaderAt(p) /\ ByteAt(p).kind = "I"

(***************************************************************************)
(* The key frames FindNextIframe can reach from p: the ones that begin     *)
(* after p and before the write pointer.  The walk from header to header   *)
(* never lands on offset 0, only on the end of the buffer.                 *)
(***************************************************************************)
LaterIframes(p) ==
    {q \in 1 .. Size : IframeAt(q) /\ ReadableLen(q) < ReadableLen(p)}

\* The one of a set of such pointers that the walk meets first.
First(S) == CHOOSE q \in S : \A o \in S : ReadableLen(o) <= ReadableLen(q)

\* Mutant: the part of the write at the start of the buffer is overestimated.
Mut_Endangered(q, len) ==
    IF pWrite + len <= Size
    THEN q > pWrite /\ q <= pWrite + len
    ELSE q > pWrite \/ q <= len

(***************************************************************************)
(* Where MoveReadPoint will not leave a reader when len bytes are written. *)
(***************************************************************************)
Endangered(q, len) ==
    IF pWrite + len <= Size
    THEN q > pWrite /\ q <= pWrite + len
    ELSE q > pWrite \/ q <= pWrite + len - Size

SafeIframes(p, len) == {q \in LaterIframes(p) : ~Endangered(q, len)}

\* NULL: no key frame is left for the reader.
MoveReadPoint(p, len) ==
    IF SafeIframes(p, len) = {} THEN NULL ELSE First(SafeIframes(p, len))
-----------------------------------------------------------------------------
(***************************************************************************)
(* WriteData.                                                              *)
(***************************************************************************)

\* Mutant: the readers at the start of the buffer are forgotten.
Mut_Overrun(p, len) ==
    IF Size - pWrite >= len
    THEN p > pWrite /\ p < pWrite + len
    ELSE p > pWrite /\ p <= Size

\* The readers that a write of len bytes moves, when it fits before the end
\* of the buffer and when it continues at the start.
Overrun(p, len) ==
    IF Size - pWrite >= len
    THEN p > pWrite /\ p < pWrite + len
    ELSE \/ p > pWrite /\ p <= Size
         \/ p >= 0 /\ p <= len - (Size - pWrite)

MovedPointer(p, len) == IF Overrun(p, len) THEN MoveReadPoint(p, len) ELSE p

\* Distance of offset o from the write pointer, in write order.
WriteDistance(o) == IF o >= pWrite THEN o - pWrite ELSE o - pWrite + Size

\* Mutant: the last byte of the frame is not copied.
Mut_Written(len, kind) ==
    [o \in Offsets |->
        IF WriteDistance(o) < len - 1
        THEN [id |-> frames + 1, kind |-> kind, len |-> len,
              off |-> WriteDistance(o)]
        ELSE dataBuff[o]]

Written(len, kind) ==
    [o \in Offsets |->
        IF WriteDistance(o) < len
        THEN [id |-> frames + 1, kind |-> kind, len |-> len,
              off |-> WriteDistance(o)]
        ELSE dataBuff[o]]

(***************************************************************************)
(* WriteVideoRawData / WriteAudioRawData put the header in front of the    *)
(* data and call WriteData.  A reader for which no key frame is left       *)
(* makes MoveReadPoint fail its assertion, before anything is written.     *)
(***************************************************************************)
WriteData(len, kind) ==
    /\ ~aborted
    /\ enabled
    /\ frames < MaxFrames
    /\ \A s \in Slots : Overrun(pRead[s], len) => MoveReadPoint(pRead[s], len) # NULL
    /\ pRead' = [s \in Slots |-> MovedPointer(pRead[s], len)]
    /\ owed' = [s \in Slots |->
                  IF Overrun(pRead[s], len)
                  THEN ByteAt(MoveReadPoint(pRead[s], len)).id
                  ELSE owed[s]]
    /\ dataBuff' = Written(len, kind)
    /\ pWrite' = IF pWrite + len >= Size THEN pWrite + len - Size ELSE pWrite + len
    /\ frames' = frames + 1
    /\ UNCHANGED <<enabled, aborted>>

WriteDataAborts(len) ==
    /\ ~aborted
    /\ enabled
    /\ frames < MaxFrames
    /\ \E s \in Slots : Overrun(pRead[s], len) /\ MoveReadPoint(pRead[s], len) = NULL
    /\ aborted' = TRUE
    /\ UNCHANGED <<enabled, pWrite, pRead, dataBuff, frames, owed>>

(***************************************************************************)
(* ReadData: it gives one frame to the reader, or fails and changes        *)
(* nothing.  Copied is what arrives in the reader's buffer.                *)
(***************************************************************************)
\* Mutant: a frame that ends at the write pointer is taken for incomplete.
Mut_CanRead(s) ==
    /\ enabled
    /\ pRead[s] # NULL
    /\ HeaderAt(pRead[s])
    /\ ByteAt(pRead[s]).len <= BuffLen
    /\ ByteAt(pRead[s]).len < ReadableLen(pRead[s])

CanRead(s) ==
    /\ enabled
    /\ pRead[s] # NULL
    /\ HeaderAt(pRead[s])
    /\ ByteAt(pRead[s]).len <= BuffLen
    /\ ByteAt(pRead[s]).len <= ReadableLen(pRead[s])

Copied(s) ==
    [i \in 0 .. ByteAt(pRead[s]).len - 1 |-> ByteAt(pRead[s] + i)]

ReadData(s) ==
    /\ ~aborted
    /\ CanRead(s)
    /\ pRead' = [pRead EXCEPT ![s] = Advance(@, ByteAt(@).len)]
    /\ owed' = [owed EXCEPT ![s] = ByteAt(pRead[s]).id + 1]
    /\ UNCHANGED <<enabled, pWrite, dataBuff, frames, aborted>>
-----------------------------------------------------------------------------
(***************************************************************************)
(* The life of the queue and of its readers.                               *)
(***************************************************************************)

Init ==
    /\ enabled = FALSE
    /\ pWrite = NULL
    /\ pRead = [s \in Slots |-> NULL]
    /\ dataBuff = [o \in Offsets |-> Blank]
    /\ frames = 0
    /\ owed = [s \in Slots |-> 0]
    /\ aborted = FALSE

CreateQueue ==
    /\ ~aborted
    /\ ~enabled
    /\ Size > 0
    /\ enabled' = TRUE
    /\ pWrite' = 0
    /\ pRead' = [s \in Slots |-> NULL]
    /\ dataBuff' = [o \in Offsets |-> Blank]
    /\ UNCHANGED <<frames, owed, aborted>>

DisdroyQueue ==
    /\ ~aborted
    /\ enabled
    /\ enabled' = FALSE
    /\ pWrite' = NULL
    /\ pRead' = [s \in Slots |-> NULL]
    /\ dataBuff' = [o \in Offsets |-> Blank]
    /\ UNCHANGED <<frames, owed, aborted>>

(***************************************************************************)
(* The first free read pointer starts at the write pointer.  When there is *)
(* none, registerID is -1 and pRead[-1] is the field before pRead, pWrite, *)
(* which is assigned its own value: the call returns -1 and changes        *)
(* nothing.                                                                *)
(***************************************************************************)
FreeSlot(s) == pRead[s] = NULL /\ \A t \in Slots : pRead[t] = NULL => s <= t

\* Mutant: a new reader starts at the beginning of the buffer.
Mut_MediaQueueRegistReadHandle(s) ==
    /\ ~aborted
    /\ enabled
    /\ FreeSlot(s)
    /\ pRead' = [pRead EXCEPT ![s] = 0]
    /\ owed' = [owed EXCEPT ![s] = frames + 1]
    /\ UNCHANGED <<enabled, pWrite, dataBuff, frames, aborted>>

MediaQueueRegistReadHandle(s) ==
    /\ ~aborted
    /\ enabled
    /\ FreeSlot(s)
    /\ pRead' = [pRead EXCEPT ![s] = pWrite]
    /\ owed' = [owed EXCEPT ![s] = frames + 1]
    /\ UNCHANGED <<enabled, pWrite, dataBuff, frames, aborted>>

\* It clears the pointer whoever holds it and whether or not the queue is
\* still the one that was registered with.
MediaQueueUnRegistReadHandle(s) ==
    /\ ~aborted
    /\ pRead' = [pRead EXCEPT ![s] = NULL]
    /\ UNCHANGED <<enabled, pWrite, dataBuff, frames, owed, aborted>>

Write == \E len \in FrameLens, kind \in Kinds : WriteData(len, kind)
WriteFails == \E len \in FrameLens : WriteDataAborts(len)

Next ==
    \/ CreateQueue
    \/ DisdroyQueue
    \/ Write
    \/ WriteFails
    \/ \E s \in Slots : ReadData(s)
    \/ \E s \in Slots : MediaQueueRegistReadHandle(s)
    \/ \E s \in Slots : MediaQueueUnRegistReadHandle(s)

Spec == Init /\ [][Next]_vars

\* Reader threads poll ReadData for as long as they are connected.
FairSpec == Spec /\ \A s \in Slots : WF_vars(ReadData(s))
-----------------------------------------------------------------------------
(***************************************************************************)
(* Properties.                                                             *)
(***************************************************************************)

IsFrame(f, len) ==
    \A i \in 0 .. len - 1 : /\ f[i].id = f[0].id
                            /\ f[i].kind = f[0].kind
                            /\ f[i].len = len
                            /\ f[i].off = i

(***************************************************************************)
(* What a successful ReadData copies is one frame as WriteData got it:     *)
(* never bytes of two frames, however often the ring has wrapped and       *)
(* however far the reader has been moved.                                  *)
(***************************************************************************)
NoTornRead ==
    \A s \in Slots :
        enabled /\ CanRead(s) => IsFrame(Copied(s), ByteAt(pRead[s]).len)

(***************************************************************************)
(* A registered reader that has not caught up with the writer stands on    *)
(* the header of a whole frame that ends at or before the write pointer,   *)
(* so ReadData and FindNextIframe never fail their sync checks.            *)
(***************************************************************************)
ReadersAligned ==
    \A s \in Slots :
        enabled /\ pRead[s] # NULL /\ ReadableLen(pRead[s]) # 0 =>
            HeaderAt(pRead[s]) /\ ByteAt(pRead[s]).len <= ReadableLen(pRead[s])

(***************************************************************************)
(* A reader gets the frames in the order they were written and none twice: *)
(* the next one is the frame it is owed or a later one.                    *)
(***************************************************************************)
NoRedelivery ==
    \A s \in Slots :
        enabled /\ pRead[s] # NULL =>
            /\ owed[s] <= frames + 1
            /\ ReadableLen(pRead[s]) # 0 => owed[s] <= ByteAt(pRead[s]).id

(***************************************************************************)
(* WriteData moves a reader only onto a key frame the reader has not read, *)
(* and that frame is not touched by the write.                             *)
(***************************************************************************)
MovedToIframe ==
    [][\A s \in Slots :
         frames' # frames /\ pRead'[s] # pRead[s] =>
            /\ ByteAt(pRead'[s]).kind = "I"
            /\ ByteAt(pRead'[s]).id > owed[s]
            /\ \A i \in 0 .. ByteAt(pRead'[s]).len - 1 :
                 (ByteAt(pRead[s] + i))' = ByteAt(pRead'[s] + i)]_vars

(***************************************************************************)
(* A reader that keeps polling ReadData gets to the end of what has been   *)
(* written: it is never stuck on data it cannot read, unless it is taken   *)
(* off the queue.                                                          *)
(***************************************************************************)
ReaderDrains ==
    \A s \in Slots :
        (enabled /\ pRead[s] # NULL) ~>
            (aborted \/ pRead[s] = NULL \/ ReadableLen(pRead[s]) = 0)

(***************************************************************************)
(* The comment on MoveReadPoint: the key frame a read pointer stands on    *)
(* must not be overwritten by the write pointer.  The reader is owed the   *)
(* frame, so the frame stays until the pointer is moved.                   *)
(***************************************************************************)
IframeNotOverwritten ==
    [][\A s \in Slots :
         /\ enabled /\ enabled'
         /\ pRead[s] # NULL /\ pRead'[s] = pRead[s]
         /\ ByteAt(pRead[s]).id = owed[s] /\ ByteAt(pRead[s]).kind = "I"
         => (ByteAt(pRead[s]))' = ByteAt(pRead[s])]_vars
-----------------------------------------------------------------------------
(***************************************************************************)
(* The inductive invariant behind the properties.  Only an enabled queue   *)
(* has a write pointer.                                                    *)
(***************************************************************************)

\* How many bytes ago the byte at offset o was written, 1 .. Size.
Age(o) == IF o < pWrite THEN pWrite - o ELSE pWrite - o + Size

(***************************************************************************)
(* The assert(0) at the end of MoveReadPoint is met only by a stream with  *)
(* too few key frames: a reader that has to be moved finds one whenever a  *)
(* key frame it has not reached lies so near to the write pointer that the *)
(* write does not come round to it.                                        *)
(***************************************************************************)
MoveReadPointFindsIframe ==
    enabled =>
        \A s \in Slots, len \in FrameLens, o \in Offsets :
            /\ Overrun(pRead[s], len)
            /\ dataBuff[o].kind = "I" /\ dataBuff[o].off = 0
            /\ dataBuff[o].id > ByteAt(pRead[s]).id
            /\ Age(o) + len < Size
            => MoveReadPoint(pRead[s], len) # NULL

\* The bytes from offset o to the end of its frame.
Remaining(o) == dataBuff[o].len - dataBuff[o].off

(***************************************************************************)
(* The frame of a byte is complete from that byte on, and where it ends    *)
(* the next frame begins or the write pointer stands.                      *)
(***************************************************************************)
FramesChained ==
    \A o \in Offsets :
        dataBuff[o].id # 0 =>
            /\ dataBuff[o].id <= frames
            /\ dataBuff[o].len \in FrameLens
            /\ dataBuff[o].off < dataBuff[o].len
            /\ Remaining(o) <= Age(o)
            /\ Remaining(o) < Age(o) =>
                 /\ dataBuff[Index(o + Remaining(o))].id = dataBuff[o].id + 1
                 /\ dataBuff[Index(o + Remaining(o))].off = 0
            /\ Remaining(o) = Age(o) => dataBuff[o].id = frames

\* A frame whose first byte is in the buffer is there as a whole.
FramesWhole ==
    \A o \in Offsets :
        dataBuff[o].id # 0 /\ dataBuff[o].off = 0 =>
            \A i \in 0 .. dataBuff[o].len - 1 :
                /\ dataBuff[Index(o + i)].id = dataBuff[o].id
                /\ dataBuff[Index(o + i)].kind = dataBuff[o].kind
                /\ dataBuff[Index(o + i)].len = dataBuff[o].len
                /\ dataBuff[Index(o + i)].off = i

\* Bytes older than the first byte of a frame belong to earlier frames.
FramesOrdered ==
    \A o, older \in Offsets :
        /\ dataBuff[o].id # 0
        /\ dataBuff[o].off = 0
        /\ Age(o) < Age(older)
        => dataBuff[older].id < dataBuff[o].id

\* A reader has caught up, or stands on the first byte of a frame that is
\* not older than the one it is owed.
ReaderPlaced(s) ==
    pRead[s] # NULL =>
        /\ owed[s] <= frames + 1
        /\ ReadableLen(pRead[s]) # 0 =>
             /\ ByteAt(pRead[s]).id # 0
             /\ ByteAt(pRead[s]).off = 0
             /\ owed[s] <= ByteAt(pRead[s]).id

QueueInv ==
    /\ pWrite = NULL <=> ~enabled
    /\ enabled => /\ FramesChained
                  /\ FramesWhole
                  /\ FramesOrdered
                  /\ \A s \in Slots : ReaderPlaced(s)

(***************************************************************************)
(* All of it with the types: no pointer leaves its buffer, the bytes are a *)
(* chain of whole frames in order, and every reader stands on one of them. *)
(* No operation of the queue breaks it, which NoTornRead, NoRedelivery and *)
(* MovedToIframe follow from.                                              *)
(***************************************************************************)
IInv == TypeOK /\ QueueInv
=============================================================================
