-------------------------- MODULE MediaQueue_proofs --------------------------
(***************************************************************************)
(* Proofs about MediaQueue, for every buffer size, number of readers and   *)
(* set of frame lengths shorter than the buffer.                           *)
(***************************************************************************)
EXTENDS MediaQueue, WellFoundedInduction, TLAPS

-----------------------------------------------------------------------------
(***************************************************************************)
(* A non-empty set of naturals has a least element, and one with an upper  *)
(* bound a greatest element.  The first is derived from the well-founded   *)
(* order on the naturals.                                                  *)
(***************************************************************************)

\* The least element, for any well-founded relation that contains <.
LEMMA LeastOfRelation ==
    ASSUME NEW S, NEW R, S \subseteq Nat, S # {},
           IsWellFoundedOn(R, Nat),
           \A x, y \in Nat : y < x => <<y, x>> \in R
    PROVE  \E x \in S : \A y \in S : x <= y
<1>1. \E x \in S : \A y \in S : ~(<<y, x>> \in R)
  BY WFMin, Zenon
<1>2. PICK x \in S : \A y \in S : ~(<<y, x>> \in R)
  BY <1>1
<1>3. \A y \in S : ~(y < x)
  BY <1>2, Zenon
<1>4. \A y \in S : x <= y
  BY <1>3, SMT
<1>5. QED
  BY <1>4, Zenon

\* The relation of the library that < stands for does contain <.
LEMMA LessThanRelation == \A x, y \in Nat : y < x => <<y, x>> \in OpToRel(<, Nat)
  BY Zenon DEF OpToRel

\* Every non-empty set of naturals has a least element.
LEMMA LeastNatural ==
    ASSUME NEW S, S \subseteq Nat, S # {}
    PROVE  \E x \in S : \A y \in S : x <= y
  BY LeastOfRelation, LessThanRelation, NatLessThanWellFounded, Zenon

\* Every non-empty set of naturals below a bound has a greatest element.
LEMMA GreatestNatural ==
    ASSUME NEW S, NEW n \in Nat, S \subseteq 0 .. n, S # {}
    PROVE  \E x \in S : \A y \in S : y <= x
<1> DEFINE D == {n - x : x \in S}
<1>1. D \subseteq Nat /\ D # {}
  OBVIOUS
<1>2. PICK d \in D : \A e \in D : d <= e
  BY <1>1, LeastNatural
<1>3. PICK x \in S : d = n - x
  BY <1>2
<1>4. \A y \in S : n - x <= n - y
  BY <1>2, <1>3
<1>5. \A y \in S : y <= x
  BY <1>4
<1>6. QED
  BY <1>5
-----------------------------------------------------------------------------
(***************************************************************************)
(* Pointer arithmetic.                                                     *)
(***************************************************************************)

\* Age and distance of an offset from the write pointer make up the ring.
LEMMA AgeFacts ==
    ASSUME QueueAssumption, pWrite \in Offsets, NEW o \in Offsets
    PROVE  /\ Age(o) \in 1 .. Size
           /\ WriteDistance(o) \in 0 .. Size - 1
           /\ Age(o) = Size - WriteDistance(o)
  BY DEF QueueAssumption, Offsets, Age, WriteDistance

\* The distance from a read pointer to the write pointer is the age of the
\* byte it stands on, or nothing when it has caught up.
LEMMA ReadableFacts ==
    ASSUME QueueAssumption, pWrite \in Offsets, NEW p \in 0 .. Size
    PROVE  /\ Index(p) \in Offsets
           /\ ReadableLen(p) \in 0 .. Size - 1
           /\ ReadableLen(p) = 0 <=> Index(p) = pWrite
           /\ ReadableLen(p) # 0 => ReadableLen(p) = Age(Index(p))
  BY DEF QueueAssumption, Offsets, Age, Index, ReadableLen

\* First picks a member of every non-empty set of read pointers.
LEMMA FirstExists ==
    ASSUME QueueAssumption, pWrite \in Offsets,
           NEW S, S \subseteq 0 .. Size, S # {}
    PROVE  First(S) \in S
<1> DEFINE R == {ReadableLen(q) : q \in S}
<1>1. R \subseteq 0 .. Size /\ R # {} /\ Size \in Nat
  BY ReadableFacts DEF QueueAssumption
<1>2. PICK m \in R : \A y \in R : y <= m
  BY <1>1, GreatestNatural
<1>3. PICK q \in S : m = ReadableLen(q)
  BY <1>2
<1>4. \A o \in S : ReadableLen(o) <= ReadableLen(q)
  BY <1>2, <1>3
<1>5. \E x \in S : \A o \in S : ReadableLen(o) <= ReadableLen(x)
  BY <1>3, <1>4
<1>6. QED
  BY <1>5, Zenon DEF First

(***************************************************************************)
(* MoveReadPoint returns NULL or the header of an unread key frame that is *)
(* clear of the write.                                                     *)
(***************************************************************************)
LEMMA MoveReadPointFacts ==
    ASSUME QueueAssumption, pWrite \in Offsets,
           NEW p \in 0 .. Size, NEW len \in FrameLens,
           MoveReadPoint(p, len) # NULL
    PROVE  /\ MoveReadPoint(p, len) \in 1 .. Size
           /\ IframeAt(MoveReadPoint(p, len))
           /\ ReadableLen(MoveReadPoint(p, len)) < ReadableLen(p)
           /\ ~Endangered(MoveReadPoint(p, len), len)
<1>1. SafeIframes(p, len) \subseteq 0 .. Size
  BY DEF SafeIframes, LaterIframes
<1>2. SafeIframes(p, len) # {}
  BY DEF MoveReadPoint
<1>3. MoveReadPoint(p, len) \in SafeIframes(p, len)
  BY <1>1, <1>2, FirstExists DEF MoveReadPoint
<1>4. QED
  BY <1>3 DEF SafeIframes, LaterIframes
-----------------------------------------------------------------------------
\* What WriteData does to the buffer, in terms of ages: the new frame has the
\* youngest bytes, the bytes that stay become len older.
LEMMA WriteAges ==
    ASSUME QueueAssumption, TypeOK, pWrite \in Offsets,
           NEW len \in FrameLens, NEW kind \in Kinds, WriteData(len, kind),
           NEW o \in Offsets
    PROVE  /\ pWrite' \in Offsets
           /\ len \in 1 .. Size - 1
           /\ WriteDistance(o) < len =>
                /\ Age(o)' = len - WriteDistance(o)
                /\ dataBuff'[o] = [id |-> frames + 1, kind |-> kind,
                                   len |-> len, off |-> WriteDistance(o)]
           /\ WriteDistance(o) >= len =>
                /\ Age(o)' = Age(o) + len
                /\ dataBuff'[o] = dataBuff[o]
<1>1. len \in 1 .. Size - 1
  BY DEF QueueAssumption
<1>2. pWrite' = IF pWrite + len >= Size THEN pWrite + len - Size ELSE pWrite + len
  BY DEF WriteData
<1>3. pWrite' \in Offsets
  BY <1>1, <1>2 DEF QueueAssumption, Offsets
<1>4. WriteDistance(o) < len => Age(o)' = len - WriteDistance(o)
  BY <1>1, <1>2 DEF QueueAssumption, Offsets, Age, WriteDistance
<1>5. WriteDistance(o) >= len => Age(o)' = Age(o) + len
  BY <1>1, <1>2 DEF QueueAssumption, Offsets, Age, WriteDistance
<1>6. dataBuff' = Written(len, kind)
  BY DEF WriteData
<1>7. dataBuff'[o] = IF WriteDistance(o) < len
                     THEN [id |-> frames + 1, kind |-> kind,
                           len |-> len, off |-> WriteDistance(o)]
                     ELSE dataBuff[o]
  BY <1>6 DEF Written
<1>8. WriteDistance(o) >= len => ~(WriteDistance(o) < len)
  BY <1>1, AgeFacts
<1>9. QED
  BY <1>1, <1>3, <1>4, <1>5, <1>7, <1>8

\* Going i bytes on from an offset makes the age i less.
LEMMA AgeOfLater ==
    ASSUME QueueAssumption, pWrite \in Offsets,
           NEW o \in Offsets, NEW i \in Nat, i < Age(o)
    PROVE  /\ Index(o + i) \in Offsets
           /\ Age(Index(o + i)) = Age(o) - i
  BY DEF QueueAssumption, Offsets, Age, Index

\* The first byte of the new frame lies where the write pointer stood.
LEMMA EndOfOld ==
    ASSUME QueueAssumption, pWrite \in Offsets, NEW o \in Offsets
    PROVE  Index(o + Age(o)) = pWrite /\ WriteDistance(pWrite) = 0
  BY DEF QueueAssumption, Offsets, Age, Index, WriteDistance

LEMMA WriteKeepsChained ==
    ASSUME QueueAssumption, TypeOK, pWrite \in Offsets, FramesChained,
           NEW len \in FrameLens, NEW kind \in Kinds, WriteData(len, kind)
    PROVE  FramesChained'
<1>1. frames' = frames + 1 /\ frames \in Nat
  BY DEF WriteData, TypeOK
<1> SUFFICES ASSUME NEW o \in Offsets, dataBuff'[o].id # 0
             PROVE  /\ dataBuff'[o].id <= frames'
                    /\ dataBuff'[o].len \in FrameLens
                    /\ dataBuff'[o].off < dataBuff'[o].len
                    /\ Remaining(o)' <= Age(o)'
                    /\ Remaining(o)' < Age(o)' =>
                         /\ dataBuff'[Index(o + Remaining(o)')].id = dataBuff'[o].id + 1
                         /\ dataBuff'[Index(o + Remaining(o)')].off = 0
                    /\ Remaining(o)' = Age(o)' => dataBuff'[o].id = frames'
  BY DEF FramesChained, Index, Offsets
<1>2. CASE WriteDistance(o) < len
  <2>1. /\ dataBuff'[o] = [id |-> frames + 1, kind |-> kind,
                          len |-> len, off |-> WriteDistance(o)]
        /\ Age(o)' = len - WriteDistance(o)
        /\ WriteDistance(o) \in Nat
        /\ len \in Nat
    BY <1>2, WriteAges, AgeFacts
  <2>2. Remaining(o)' = Age(o)'
    BY <2>1 DEF Remaining
  <2>3. QED
    BY <1>1, <1>2, <2>1, <2>2
<1>3. CASE WriteDistance(o) >= len
  <2>1. dataBuff'[o] = dataBuff[o] /\ Remaining(o)' = Remaining(o) /\ Age(o)' = Age(o) + len
    BY <1>3, WriteAges DEF Remaining
  <2>2. dataBuff[o] \in Byte
    BY DEF TypeOK
  <2>3. /\ dataBuff[o].id <= frames
        /\ dataBuff[o].len \in FrameLens
        /\ dataBuff[o].off < dataBuff[o].len
        /\ Remaining(o) <= Age(o)
        /\ Remaining(o) < Age(o) =>
             /\ dataBuff[Index(o + Remaining(o))].id = dataBuff[o].id + 1
             /\ dataBuff[Index(o + Remaining(o))].off = 0
        /\ Remaining(o) = Age(o) => dataBuff[o].id = frames
    BY <2>1 DEF FramesChained
  <2>4. Remaining(o) \in Nat /\ Remaining(o) > 0
    BY <2>2, <2>3 DEF Byte, Remaining
  <2>5. CASE Remaining(o) < Age(o)
    <3> DEFINE e == Index(o + Remaining(o))
    <3>1. e \in Offsets /\ Age(e) = Age(o) - Remaining(o)
      BY <2>4, <2>5, AgeOfLater
    <3>2. WriteDistance(e) >= len
      BY <1>3, <2>4, <3>1, AgeFacts, WriteAges
    <3>3. dataBuff'[e] = dataBuff[e]
      BY <3>1, <3>2, WriteAges
    <3>4. QED
      BY <1>1, <2>1, <2>2, <2>3, <2>4, <2>5, <3>3, AgeFacts, WriteAges DEF Byte
  <2>6. CASE Remaining(o) = Age(o)
    <3>1. Index(o + Remaining(o)) = pWrite
      BY <2>6, EndOfOld
    <3>2. WriteDistance(pWrite) = 0 /\ 0 < len
      BY EndOfOld, WriteAges
    <3>3. dataBuff'[pWrite].id = frames + 1 /\ dataBuff'[pWrite].off = 0
      <4>1. dataBuff'[pWrite] = [id |-> frames + 1, kind |-> kind, len |-> len, off |-> 0]
        BY <3>2, WriteAges
      <4>2. QED
        BY <4>1
    <3>4. QED
      BY <1>1, <2>1, <2>2, <2>3, <2>4, <2>6, <3>1, <3>3, AgeFacts, WriteAges DEF Byte
  <2>7. QED
    BY <2>3, <2>4, <2>5, <2>6, AgeFacts
<1>4. QED
  BY <1>2, <1>3, AgeFacts, WriteAges DEF QueueAssumption

\* WriteData leaves whole every frame whose first byte it leaves.
LEMMA WriteKeepsWhole ==
    ASSUME QueueAssumption, TypeOK, pWrite \in Offsets, FramesChained, FramesWhole,
           NEW len \in FrameLens, NEW kind \in Kinds, WriteData(len, kind)
    PROVE  FramesWhole'
<1> SUFFICES ASSUME NEW o \in Offsets, dataBuff'[o].id # 0, dataBuff'[o].off = 0,
                    NEW i \in 0 .. dataBuff'[o].len - 1
             PROVE  /\ dataBuff'[Index(o + i)].id = dataBuff'[o].id
                    /\ dataBuff'[Index(o + i)].kind = dataBuff'[o].kind
                    /\ dataBuff'[Index(o + i)].len = dataBuff'[o].len
                    /\ dataBuff'[Index(o + i)].off = i
  BY DEF FramesWhole, Index, Offsets
<1>1. CASE WriteDistance(o) < len
  <2>1. dataBuff'[o] = [id |-> frames + 1, kind |-> kind,
                        len |-> len, off |-> WriteDistance(o)]
    BY <1>1, WriteAges
  <2>2. WriteDistance(o) = 0 /\ i \in 0 .. len - 1 /\ len \in 1 .. Size - 1
    BY <2>1, WriteAges
  <2>3. Index(o + i) \in Offsets /\ WriteDistance(Index(o + i)) = i
    BY <2>2 DEF QueueAssumption, Offsets, Index, WriteDistance
  <2>4. dataBuff'[Index(o + i)] = [id |-> frames + 1, kind |-> kind,
                                   len |-> len, off |-> i]
    BY <2>2, <2>3, WriteAges
  <2>5. QED
    BY <2>1, <2>4
<1>2. CASE WriteDistance(o) >= len
  <2>1. dataBuff'[o] = dataBuff[o]
    BY <1>2, WriteAges
  <2>2. dataBuff[o].len <= Age(o) /\ dataBuff[o] \in Byte
    BY <2>1 DEF FramesChained, Remaining, TypeOK, Byte
  <2>3. i \in Nat /\ i < Age(o)
    BY <2>1, <2>2, AgeFacts DEF Byte
  <2>4. Index(o + i) \in Offsets /\ Age(Index(o + i)) = Age(o) - i
    BY <2>3, AgeOfLater
  <2>5. WriteDistance(Index(o + i)) >= len
    BY <1>2, <2>3, <2>4, AgeFacts, WriteAges
  <2>6. dataBuff'[Index(o + i)] = dataBuff[Index(o + i)]
    BY <2>4, <2>5, WriteAges
  <2>7. QED
    BY <2>1, <2>6 DEF FramesWhole
<1>3. QED
  BY <1>1, <1>2, AgeFacts, WriteAges

\* WriteData keeps the order of the frames.
LEMMA WriteKeepsOrdered ==
    ASSUME QueueAssumption, TypeOK, pWrite \in Offsets, FramesChained, FramesOrdered,
           NEW len \in FrameLens, NEW kind \in Kinds, WriteData(len, kind)
    PROVE  FramesOrdered'
<1> SUFFICES ASSUME NEW o \in Offsets, NEW older \in Offsets,
                    dataBuff'[o].id # 0, dataBuff'[o].off = 0, Age(o)' < Age(older)'
             PROVE  dataBuff'[older].id < dataBuff'[o].id
  BY DEF FramesOrdered
<1>1. \A x \in Offsets : dataBuff[x].id \in Nat /\ dataBuff[x].id <= frames
  BY DEF TypeOK, Byte, FramesChained
<1>2. \A x \in Offsets : WriteDistance(x) >= len =>
          dataBuff'[x] = dataBuff[x] /\ Age(x)' = Age(x) + len
  BY WriteAges
<1>3. \A x \in Offsets : WriteDistance(x) < len => Age(x)' = len - WriteDistance(x)
  BY WriteAges
<1>4. \A x \in Offsets : WriteDistance(x) \in Nat /\ Age(x) \in Nat /\ len \in Nat
  BY AgeFacts DEF QueueAssumption
<1>5. CASE WriteDistance(o) < len
  <2>1. dataBuff'[o] = [id |-> frames + 1, kind |-> kind,
                        len |-> len, off |-> WriteDistance(o)]
    BY <1>5, WriteAges
  <2>2. WriteDistance(o) = 0 /\ dataBuff'[o].id = frames + 1 /\ Age(o)' = len
    BY <1>3, <1>4, <1>5, <2>1
  <2>3. WriteDistance(older) >= len
    BY <1>3, <1>4, <2>2
  <2>4. QED
    BY <1>1, <1>2, <2>2, <2>3 DEF TypeOK
<1>6. CASE WriteDistance(o) >= len
  <2>1. WriteDistance(older) >= len
    BY <1>2, <1>3, <1>4, <1>6
  <2>2. Age(o) < Age(older)
    BY <1>2, <1>4, <1>6, <2>1
  <2>3. QED
    BY <1>2, <1>6, <2>1, <2>2 DEF FramesOrdered
<1>7. QED
  BY <1>4, <1>5, <1>6

\* A reader that is not moved has caught up or keeps its byte.
LEMMA NotOverrunIsKept ==
    ASSUME QueueAssumption, pWrite \in Offsets,
           NEW p \in 0 .. Size, NEW len \in FrameLens, ~Overrun(p, len)
    PROVE  Index(p) = pWrite \/ WriteDistance(Index(p)) >= len
  BY DEF QueueAssumption, Offsets, Overrun, Index, WriteDistance

\* A pointer clear of the write keeps its byte.
LEMMA NotEndangeredIsKept ==
    ASSUME QueueAssumption, pWrite \in Offsets,
           NEW q \in 1 .. Size, NEW len \in FrameLens, ~Endangered(q, len)
    PROVE  Index(q) = pWrite \/ WriteDistance(Index(q)) >= len
  BY DEF QueueAssumption, Offsets, Endangered, Index, WriteDistance

\* WriteData leaves every reader on the first byte of a frame it may read.
LEMMA WriteKeepsReaders ==
    ASSUME QueueAssumption, TypeOK, pWrite \in Offsets, FramesChained,
           NEW len \in FrameLens, NEW kind \in Kinds, WriteData(len, kind),
           NEW s \in Slots, ReaderPlaced(s)
    PROVE  ReaderPlaced(s)'
<1> DEFINE p == pRead[s]
<1> DEFINE q == MoveReadPoint(p, len)
<1>1. /\ frames' = frames + 1 /\ frames \in Nat
      /\ owed[s] \in Nat
      /\ p \in NULL .. Size
  BY DEF WriteData, TypeOK
<1>2. pRead'[s] = MovedPointer(p, len) /\ owed'[s] = IF Overrun(p, len) THEN ByteAt(q).id ELSE owed[s]
  BY DEF WriteData
<1>3. CASE Overrun(p, len)
  <2>1. p \in 0 .. Size
    BY <1>1, <1>3 DEF Overrun, QueueAssumption, Offsets, NULL
  <2>2. q # NULL
    BY <1>3 DEF WriteData
  <2>3. /\ q \in 1 .. Size
        /\ IframeAt(q)
        /\ ~Endangered(q, len)
    BY <2>1, <2>2, MoveReadPointFacts
  <2>4. ReadableLen(q) # 0 /\ Index(q) \in Offsets /\ Index(q) # pWrite
    BY <2>3, ReadableFacts DEF IframeAt, HeaderAt, QueueAssumption
  <2>5. WriteDistance(Index(q)) >= len
    BY <2>3, <2>4, NotEndangeredIsKept
  <2>6. dataBuff'[Index(q)] = dataBuff[Index(q)]
    BY <2>4, <2>5, WriteAges
  <2>7. pRead'[s] = q /\ owed'[s] = ByteAt(q).id
    BY <1>2, <1>3 DEF MovedPointer
  <2>8. ByteAt(q).id # 0 /\ ByteAt(q).off = 0 /\ ByteAt(q).id <= frames /\ ByteAt(q).id \in Nat
    BY <2>3, <2>4 DEF IframeAt, HeaderAt, ByteAt, FramesChained, TypeOK, Byte
  <2>9. QED
    BY <1>1, <2>6, <2>7, <2>8 DEF ReaderPlaced, ByteAt, Index
<1>4. CASE ~Overrun(p, len)
  <2>1. pRead'[s] = p /\ owed'[s] = owed[s]
    BY <1>2, <1>4 DEF MovedPointer
  <2>2. CASE p = NULL
    BY <2>1, <2>2 DEF ReaderPlaced
  <2>3. CASE p # NULL /\ Index(p) = pWrite
    <3>1. WriteDistance(pWrite) = 0 /\ 0 < len /\ pWrite \in Offsets
      BY EndOfOld, WriteAges
    <3>2. dataBuff'[pWrite] = [id |-> frames + 1, kind |-> kind, len |-> len, off |-> 0]
      BY <3>1, WriteAges
    <3>3. owed[s] <= frames + 1
      BY <2>3 DEF ReaderPlaced
    <3>4. dataBuff'[Index(p)].id = frames + 1 /\ dataBuff'[Index(p)].off = 0
      BY <2>3, <3>2
    <3>5. QED
      BY <1>1, <2>1, <3>3, <3>4 DEF ReaderPlaced, ByteAt, Index
  <2>4. CASE p # NULL /\ Index(p) # pWrite
    <3>1. p \in 0 .. Size
      BY <1>1, <2>4 DEF NULL
    <3>2. WriteDistance(Index(p)) >= len /\ Index(p) \in Offsets
      BY <1>4, <2>4, <3>1, NotOverrunIsKept, ReadableFacts
    <3>3. dataBuff'[Index(p)] = dataBuff[Index(p)]
      BY <3>2, WriteAges
    <3>4. ReadableLen(p) # 0
      BY <2>4, <3>1, ReadableFacts
    <3>5. /\ owed[s] <= frames + 1
          /\ ByteAt(p).id # 0
          /\ ByteAt(p).off = 0
          /\ owed[s] <= ByteAt(p).id
      BY <2>4, <3>4 DEF ReaderPlaced
    <3>6. QED
      BY <1>1, <2>1, <3>3, <3>5 DEF ReaderPlaced, ByteAt, Index
  <2>5. QED
    BY <2>2, <2>3, <2>4
<1>5. QED
  BY <1>3, <1>4

\* WriteData keeps the types, the moved pointers included.
LEMMA WriteKeepsType ==
    ASSUME QueueAssumption, TypeOK, pWrite \in Offsets,
           NEW len \in FrameLens, NEW kind \in Kinds, WriteData(len, kind)
    PROVE  TypeOK'
<1>1. enabled' \in BOOLEAN /\ aborted' \in BOOLEAN /\ frames' \in Nat
  BY DEF WriteData, TypeOK
<1>2. pWrite' \in Offsets
  <2>1. pWrite' = IF pWrite + len >= Size THEN pWrite + len - Size ELSE pWrite + len
    BY DEF WriteData
  <2>2. QED
    BY <2>1 DEF QueueAssumption, Offsets
<1>3. ASSUME NEW s \in Slots
      PROVE  /\ MovedPointer(pRead[s], len) \in NULL .. Size
             /\ Overrun(pRead[s], len) => ByteAt(MoveReadPoint(pRead[s], len)).id \in Nat
  <2>1. pRead[s] \in NULL .. Size
    BY DEF TypeOK
  <2>2. CASE Overrun(pRead[s], len)
    <3>1. pRead[s] \in 0 .. Size
      BY <2>1, <2>2 DEF Overrun, QueueAssumption, Offsets, NULL
    <3>2. MoveReadPoint(pRead[s], len) # NULL
      BY <2>2 DEF WriteData
    <3>3. MoveReadPoint(pRead[s], len) \in 1 .. Size
      BY <3>1, <3>2, MoveReadPointFacts
    <3>4. Index(MoveReadPoint(pRead[s], len)) \in Offsets
      BY <3>3, ReadableFacts
    <3>5. QED
      BY <2>2, <3>3, <3>4 DEF MovedPointer, ByteAt, TypeOK, Byte, NULL
  <2>3. CASE ~Overrun(pRead[s], len)
    BY <2>1, <2>3 DEF MovedPointer
  <2>4. QED
    BY <2>2, <2>3
<1>4. pRead' \in [Slots -> NULL .. Size]
  BY <1>3 DEF WriteData
<1>5. owed' \in [Slots -> Nat]
  BY <1>3 DEF WriteData, TypeOK
<1>6. ASSUME NEW o \in Offsets PROVE Written(len, kind)[o] \in Byte
  <2>1. WriteDistance(o) \in Nat /\ len \in Nat /\ frames + 1 \in Nat
    BY AgeFacts DEF QueueAssumption, TypeOK
  <2>2. [id |-> frames + 1, kind |-> kind, len |-> len, off |-> WriteDistance(o)] \in Byte
    BY <2>1 DEF Byte
  <2>3. QED
    BY <2>2 DEF Written, TypeOK
<1>7. dataBuff' \in [Offsets -> Byte]
  BY <1>6 DEF WriteData, Written
<1>8. QED
  BY <1>1, <1>2, <1>4, <1>5, <1>7 DEF TypeOK

\* The pointer arithmetic of ReadData.
LEMMA AdvanceFacts ==
    ASSUME QueueAssumption, pWrite \in Offsets, NEW p \in 0 .. Size,
           NEW len \in Nat, len <= ReadableLen(p), ReadableLen(p) # 0
    PROVE  /\ Advance(p, len) \in 0 .. Size
           /\ Index(Advance(p, len)) = Index(Index(p) + len)
           /\ ReadableLen(Advance(p, len)) = ReadableLen(p) - len
  BY DEF QueueAssumption, Offsets, Advance, Index, ReadableLen

\* ReadData takes the reader to the next frame or to the write pointer.
LEMMA ReadKeepsInv ==
    ASSUME QueueAssumption, IInv, NEW s \in Slots, ReadData(s)
    PROVE  IInv'
<1> DEFINE p == pRead[s]
<1> DEFINE o == Index(p)
<1> DEFINE len == ByteAt(p).len
<1> DEFINE q == Advance(p, len)
<1>1. /\ TypeOK /\ enabled /\ pWrite \in Offsets /\ p \in 0 .. Size
      /\ FramesChained /\ \A t \in Slots : ReaderPlaced(t)
  BY DEF IInv, QueueInv, TypeOK, ReadData, CanRead, NULL
<1>2. UNCHANGED <<enabled, pWrite, dataBuff, frames, aborted>>
  BY DEF ReadData
<1>3. /\ pRead' = [pRead EXCEPT ![s] = q]
      /\ owed' = [owed EXCEPT ![s] = ByteAt(p).id + 1]
  BY DEF ReadData
<1>4. /\ ReadableLen(p) # 0 /\ ReadableLen(p) \in Nat
      /\ o \in Offsets /\ dataBuff[o] \in Byte
      /\ ReadableLen(p) = Age(o)
  BY <1>1, ReadableFacts DEF TypeOK, ReadData, CanRead, HeaderAt, QueueAssumption
<1>5. /\ ByteAt(p) = dataBuff[o]
      /\ dataBuff[o].id # 0 /\ dataBuff[o].id \in Nat
      /\ dataBuff[o].off = 0
      /\ len \in Nat /\ len <= ReadableLen(p)
      /\ Remaining(o) = len
  BY <1>4 DEF ReadData, CanRead, HeaderAt, ByteAt, Byte, Remaining
<1>6. /\ q \in 0 .. Size
      /\ Index(q) = Index(o + len)
      /\ ReadableLen(q) = ReadableLen(p) - len
  BY <1>1, <1>4, <1>5, AdvanceFacts
<1>7. TypeOK'
  BY <1>1, <1>2, <1>3, <1>5, <1>6 DEF TypeOK, NULL
<1>8. ReaderPlaced(s)'
  <2>1. dataBuff[o].id <= frames
    BY <1>1, <1>4, <1>5 DEF FramesChained
  <2>2. ReadableLen(q) # 0 =>
          dataBuff[Index(q)].id = dataBuff[o].id + 1 /\ dataBuff[Index(q)].off = 0
    BY <1>1, <1>4, <1>5, <1>6 DEF FramesChained
  <2>3. pRead'[s] = q /\ owed'[s] = dataBuff[o].id + 1
    BY <1>1, <1>3, <1>5 DEF TypeOK
  <2>4. QED
    BY <1>1, <1>2, <1>5, <2>1, <2>2, <2>3 DEF ReaderPlaced, ByteAt, Index, ReadableLen, TypeOK
<1>9. \A t \in Slots : ReaderPlaced(t)'
  <2> SUFFICES ASSUME NEW t \in Slots, t # s PROVE ReaderPlaced(t)'
    BY <1>8
  <2>1. pRead'[t] = pRead[t] /\ owed'[t] = owed[t]
    BY <1>1, <1>3 DEF TypeOK
  <2>2. QED
    BY <1>1, <1>2, <2>1 DEF ReaderPlaced, ByteAt, Index, ReadableLen
<1>10. QueueInv'
  BY <1>1, <1>2, <1>9 DEF IInv, QueueInv, FramesChained, FramesWhole, FramesOrdered,
                          Remaining, Age, Index
<1>11. QED
  BY <1>7, <1>10 DEF IInv

\* WriteData as a whole.
LEMMA WriteKeepsInv ==
    ASSUME QueueAssumption, IInv,
           NEW len \in FrameLens, NEW kind \in Kinds, WriteData(len, kind)
    PROVE  IInv'
<1>1. /\ TypeOK /\ enabled /\ pWrite \in Offsets
      /\ FramesChained /\ FramesWhole /\ FramesOrdered
      /\ \A s \in Slots : ReaderPlaced(s)
  BY DEF IInv, QueueInv, TypeOK, WriteData
<1>2. TypeOK' /\ FramesChained' /\ FramesWhole' /\ FramesOrdered'
  BY <1>1, WriteKeepsType, WriteKeepsChained, WriteKeepsWhole, WriteKeepsOrdered
<1>3. \A s \in Slots : ReaderPlaced(s)'
  BY <1>1, WriteKeepsReaders
<1>4. enabled' /\ pWrite' # NULL
  <2>1. enabled' = enabled
    BY DEF WriteData
  <2>2. pWrite' = IF pWrite + len >= Size THEN pWrite + len - Size ELSE pWrite + len
    BY DEF WriteData
  <2>3. pWrite \in Nat /\ len \in Nat /\ Size \in Nat
    BY <1>1 DEF QueueAssumption, Offsets
  <2>4. pWrite' # NULL
    BY <2>2, <2>3 DEF NULL
  <2>5. QED
    BY <1>1, <2>1, <2>4
<1>5. QED
  BY <1>2, <1>3, <1>4 DEF IInv, QueueInv

\* A queue that has just been created or destroyed holds nothing.
LEMMA BlankKeepsInv ==
    ASSUME QueueAssumption, IInv, CreateQueue \/ DisdroyQueue
    PROVE  IInv'
<1>1. /\ pRead' = [s \in Slots |-> NULL]
      /\ dataBuff' = [o \in Offsets |-> Blank]
      /\ UNCHANGED <<frames, owed, aborted>>
      /\ \/ enabled' = TRUE /\ pWrite' = 0 /\ Size > 0
         \/ enabled' = FALSE /\ pWrite' = NULL
  BY DEF CreateQueue, DisdroyQueue
<1>2. Blank \in Byte /\ Blank.id = 0
  BY DEF Blank, Byte
<1>3. TypeOK'
  <2>1. NULL \in NULL .. Size /\ (Size > 0 => 0 \in Offsets)
    BY DEF QueueAssumption, Offsets, NULL
  <2>2. pWrite' \in Offsets \cup {NULL}
    BY <1>1, <2>1
  <2>3. pRead' \in [Slots -> NULL .. Size]
    BY <1>1, <2>1
  <2>4. dataBuff' \in [Offsets -> Byte]
    BY <1>1, <1>2
  <2>5. enabled' \in BOOLEAN
    BY <1>1
  <2>6. QED
    BY <1>1, <2>2, <2>3, <2>4, <2>5 DEF IInv, TypeOK
<1>4. FramesChained' /\ FramesWhole' /\ FramesOrdered'
  BY <1>1, <1>2 DEF FramesChained, FramesWhole, FramesOrdered
<1>5. \A s \in Slots : ReaderPlaced(s)'
  BY <1>1 DEF ReaderPlaced
<1>6. pWrite' = NULL <=> ~enabled'
  BY <1>1 DEF NULL
<1>7. QED
  BY <1>3, <1>4, <1>5, <1>6 DEF IInv, QueueInv

\* Registering places one reader at the write pointer, where nothing is owed;
\* unregistering takes one away.
LEMMA RegistKeepsInv ==
    ASSUME QueueAssumption, IInv, NEW s \in Slots,
           MediaQueueRegistReadHandle(s) \/ MediaQueueUnRegistReadHandle(s)
    PROVE  IInv'
<1>1. UNCHANGED <<enabled, pWrite, dataBuff, frames, aborted>>
  BY DEF MediaQueueRegistReadHandle, MediaQueueUnRegistReadHandle
<1>2. \/ /\ enabled
         /\ pRead' = [pRead EXCEPT ![s] = pWrite]
         /\ owed' = [owed EXCEPT ![s] = frames + 1]
      \/ pRead' = [pRead EXCEPT ![s] = NULL] /\ owed' = owed
  BY DEF MediaQueueRegistReadHandle, MediaQueueUnRegistReadHandle
<1>3. TypeOK'
  BY <1>1, <1>2 DEF IInv, TypeOK, QueueAssumption, Offsets, NULL
<1>4. ASSUME enabled, NEW t \in Slots PROVE ReaderPlaced(t)'
  <2>1. pWrite \in Offsets /\ ReadableLen(pWrite) = 0 /\ ReaderPlaced(t)
    BY <1>4 DEF IInv, QueueInv, TypeOK, QueueAssumption, Offsets, ReadableLen
  <2>2. CASE t # s
    BY <1>1, <1>2, <2>1, <2>2 DEF IInv, TypeOK, ReaderPlaced, ByteAt, Index, ReadableLen
  <2>3. CASE t = s /\ pRead'[s] = NULL
    BY <2>3 DEF ReaderPlaced
  <2>4. CASE t = s /\ pRead'[s] = pWrite /\ owed'[s] = frames + 1
    BY <1>1, <2>1, <2>4 DEF IInv, TypeOK, ReaderPlaced, ReadableLen
  <2>5. QED
    BY <1>2, <2>2, <2>3, <2>4 DEF IInv, TypeOK
<1>5. QueueInv'
  BY <1>1, <1>4 DEF IInv, QueueInv, FramesChained, FramesWhole, FramesOrdered,
                    Remaining, Age, Index
<1>6. QED
  BY <1>3, <1>5 DEF IInv

(***************************************************************************)
(* The invariant is inductive: it holds when MediaQueueInit has run and    *)
(* every operation of the queue keeps it.                                  *)
(***************************************************************************)
THEOREM InvariantHolds == Spec => []IInv
<1>1. Init => IInv
  <2> SUFFICES ASSUME Init PROVE IInv
    OBVIOUS
  <2>1. Blank \in Byte
    BY DEF Blank, Byte
  <2>2. TypeOK
    <3>1. NULL \in NULL .. Size
      BY QueueAssumption DEF QueueAssumption, NULL
    <3>2. pRead \in [Slots -> NULL .. Size]
      BY <3>1 DEF Init
    <3>3. dataBuff \in [Offsets -> Byte]
      BY <2>1 DEF Init
    <3>4. QED
      BY <3>2, <3>3 DEF Init, TypeOK
  <2>3. QED
    BY <2>2 DEF Init, IInv, QueueInv
<1>2. IInv /\ [Next]_vars => IInv'
  <2> SUFFICES ASSUME IInv, [Next]_vars PROVE IInv'
    OBVIOUS
  <2>1. CASE CreateQueue \/ DisdroyQueue
    BY <2>1, BlankKeepsInv, QueueAssumption
  <2>2. CASE Write
    BY <2>2, WriteKeepsInv, QueueAssumption DEF Write
  <2>3. CASE WriteFails
    BY <2>3 DEF WriteFails, WriteDataAborts, IInv, TypeOK, QueueInv, FramesChained,
                FramesWhole, FramesOrdered, ReaderPlaced, Remaining, Age, ByteAt,
                Index, ReadableLen
  <2>4. CASE \E s \in Slots : ReadData(s)
    BY <2>4, ReadKeepsInv, QueueAssumption
  <2>5. CASE \E s \in Slots : \/ MediaQueueRegistReadHandle(s)
                              \/ MediaQueueUnRegistReadHandle(s)
    BY <2>5, RegistKeepsInv, QueueAssumption
  <2>6. CASE UNCHANGED vars
    BY <2>6 DEF vars, IInv, TypeOK, QueueInv, FramesChained, FramesWhole,
                FramesOrdered, ReaderPlaced, Remaining, Age, ByteAt, Index, ReadableLen
  <2>7. QED
    BY <2>1, <2>2, <2>3, <2>4, <2>5, <2>6 DEF Next
<1>3. QED
  BY <1>1, <1>2, PTL DEF Spec

(***************************************************************************)
(* The types of the queue's fields: no pointer ever leaves the buffer.     *)
(***************************************************************************)
THEOREM TypeCorrect == Spec => []TypeOK
  BY InvariantHolds, PTL DEF IInv

(***************************************************************************)
(* Every successful ReadData returns one frame as it was written.          *)
(***************************************************************************)
THEOREM NoTornReadHolds == Spec => []NoTornRead
<1>1. IInv => NoTornRead
  <2> SUFFICES ASSUME IInv, NEW s \in Slots, enabled, CanRead(s)
               PROVE  IsFrame(Copied(s), ByteAt(pRead[s]).len)
    BY DEF NoTornRead
  <2> DEFINE p == pRead[s]
  <2> DEFINE o == Index(p)
  <2>1. pWrite \in Offsets /\ p \in 0 .. Size /\ FramesWhole /\ FramesChained
    BY DEF IInv, QueueInv, TypeOK, CanRead, NULL
  <2>2. o \in Offsets /\ dataBuff[o] \in Byte /\ Age(o) \in Nat /\ Age(o) <= Size
    BY <2>1, ReadableFacts, AgeFacts, QueueAssumption DEF IInv, TypeOK
  <2>3. dataBuff[o].id # 0 /\ dataBuff[o].off = 0 /\ dataBuff[o].len \in FrameLens
    BY <2>1, <2>2 DEF CanRead, HeaderAt, ByteAt, FramesChained
  <2>4. dataBuff[o].len \in Nat /\ dataBuff[o].len > 0 /\ dataBuff[o].len < Size
    BY <2>3, QueueAssumption DEF QueueAssumption
  <2>5. ASSUME NEW i \in 0 .. dataBuff[o].len - 1
        PROVE  Index(p + i) = Index(o + i)
    BY <2>1, <2>4, QueueAssumption DEF Index, QueueAssumption
  <2>6. \A i \in 0 .. dataBuff[o].len - 1 :
           /\ Copied(s)[i].id = dataBuff[o].id
           /\ Copied(s)[i].kind = dataBuff[o].kind
           /\ Copied(s)[i].len = dataBuff[o].len
           /\ Copied(s)[i].off = i
    BY <2>1, <2>2, <2>3, <2>5 DEF Copied, ByteAt, FramesWhole
  <2>7. QED
    BY <2>4, <2>6 DEF IsFrame, ByteAt
<1>2. QED
  BY <1>1, InvariantHolds, PTL

(***************************************************************************)
(* Every reader with unread data stands on the header of a complete frame, *)
(* so the sync checks of ReadData and FindNextIframe do not fail.          *)
(***************************************************************************)
THEOREM ReadersAlignedHolds == Spec => []ReadersAligned
<1>1. IInv => ReadersAligned
  <2> SUFFICES ASSUME IInv, NEW s \in Slots, enabled, pRead[s] # NULL,
                      ReadableLen(pRead[s]) # 0
               PROVE  /\ HeaderAt(pRead[s])
                      /\ ByteAt(pRead[s]).len <= ReadableLen(pRead[s])
    BY DEF ReadersAligned
  <2> DEFINE p == pRead[s]
  <2> DEFINE o == Index(p)
  <2>1. pWrite \in Offsets /\ p \in 0 .. Size /\ FramesChained /\ ReaderPlaced(s)
    BY DEF IInv, QueueInv, TypeOK, NULL
  <2>2. /\ o \in Offsets /\ dataBuff[o] \in Byte
        /\ ReadableLen(p) = Age(o) /\ Age(o) \in Nat
    BY <2>1, ReadableFacts, AgeFacts, QueueAssumption DEF IInv, TypeOK
  <2>3. ByteAt(p) = dataBuff[o] /\ dataBuff[o].id # 0 /\ dataBuff[o].off = 0
    BY <2>1 DEF ReaderPlaced, ByteAt
  <2>4. dataBuff[o].len \in FrameLens /\ Remaining(o) <= Age(o)
    BY <2>1, <2>2, <2>3 DEF FramesChained
  <2>5. Remaining(o) = dataBuff[o].len /\ HeadLen <= dataBuff[o].len
        /\ HeadLen \in Nat /\ dataBuff[o].len \in Nat
    BY <2>2, <2>3, <2>4, QueueAssumption DEF Remaining, Byte, QueueAssumption
  <2>6. QED
    BY <2>2, <2>3, <2>4, <2>5 DEF HeaderAt
<1>2. QED
  BY <1>1, InvariantHolds, PTL

(***************************************************************************)
(* No reader gets a frame twice or out of order.                           *)
(***************************************************************************)
THEOREM NoRedeliveryHolds == Spec => []NoRedelivery
<1>1. IInv => NoRedelivery
  BY DEF IInv, QueueInv, ReaderPlaced, NoRedelivery
<1>2. QED
  BY <1>1, InvariantHolds, PTL

(***************************************************************************)
(* WriteData moves a reader only forward, onto a whole key frame that the  *)
(* write does not touch.                                                   *)
(***************************************************************************)
THEOREM MovedToIframeHolds == Spec => MovedToIframe
<1> DEFINE Good(s) ==
      frames' # frames /\ pRead'[s] # pRead[s] =>
         /\ ByteAt(pRead'[s]).kind = "I"
         /\ ByteAt(pRead'[s]).id > owed[s]
         /\ \A i \in 0 .. ByteAt(pRead'[s]).len - 1 :
              (ByteAt(pRead[s] + i))' = ByteAt(pRead'[s] + i)
<1>1. ASSUME IInv, [Next]_vars, NEW s \in Slots, frames' # frames, pRead'[s] # pRead[s]
      PROVE  Good(s)
  <2>1. PICK len \in FrameLens, kind \in Kinds : WriteData(len, kind)
    BY <1>1 DEF Next, vars, Write, WriteFails, WriteDataAborts, CreateQueue, DisdroyQueue,
                ReadData, MediaQueueRegistReadHandle, MediaQueueUnRegistReadHandle
  <2> DEFINE p == pRead[s]
  <2> DEFINE q == MoveReadPoint(p, len)
  <2> DEFINE o == Index(q)
  <2>2. /\ TypeOK /\ enabled /\ pWrite \in Offsets /\ p \in NULL .. Size
        /\ FramesChained /\ FramesOrdered /\ ReaderPlaced(s) /\ owed[s] \in Nat
    BY <1>1, <2>1 DEF IInv, QueueInv, TypeOK, WriteData
  <2>3. Overrun(p, len) /\ pRead'[s] = q /\ q # NULL
    BY <1>1, <2>1 DEF WriteData, MovedPointer
  <2>4. p \in 0 .. Size
    BY <2>2, <2>3, QueueAssumption DEF Overrun, QueueAssumption, Offsets, NULL
  <2>5. /\ q \in 1 .. Size
        /\ IframeAt(q)
        /\ ReadableLen(q) < ReadableLen(p)
        /\ ~Endangered(q, len)
    BY <2>2, <2>3, <2>4, MoveReadPointFacts, QueueAssumption
  <2>6. /\ o \in Offsets /\ dataBuff[o] \in Byte
        /\ ReadableLen(q) # 0 /\ ReadableLen(q) = Age(o) /\ o # pWrite
        /\ ReadableLen(p) # 0 /\ ReadableLen(p) = Age(Index(p)) /\ Index(p) \in Offsets
        /\ Age(o) \in 1 .. Size /\ Age(Index(p)) \in 1 .. Size
    BY <2>2, <2>4, <2>5, ReadableFacts, AgeFacts, QueueAssumption
       DEF IframeAt, HeaderAt, QueueAssumption, TypeOK
  <2>7. ByteAt(q) = dataBuff[o] /\ dataBuff[o].id # 0 /\ dataBuff[o].off = 0 /\ dataBuff[o].kind = "I"
    BY <2>5 DEF IframeAt, HeaderAt, ByteAt
  <2>8. dataBuff[o].id > owed[s]
    <3>1. dataBuff[Index(p)].id < dataBuff[o].id
      BY <2>2, <2>5, <2>6, <2>7 DEF FramesOrdered
    <3>2. p # NULL /\ owed[s] <= dataBuff[Index(p)].id
      BY <2>2, <2>4, <2>6 DEF ReaderPlaced, ByteAt, NULL
    <3>3. dataBuff[Index(p)].id \in Nat /\ dataBuff[o].id \in Nat
      BY <2>2, <2>6 DEF TypeOK, Byte
    <3>4. QED
      BY <2>2, <3>1, <3>2, <3>3
  <2>9. ASSUME NEW i \in 0 .. dataBuff[o].len - 1
        PROVE  dataBuff'[Index(q + i)] = dataBuff[Index(q + i)]
    <3>1. dataBuff[o].len \in FrameLens /\ dataBuff[o].len <= Age(o)
      BY <2>2, <2>6, <2>7 DEF FramesChained, Remaining, Byte
    <3>2. i \in Nat /\ i < Age(o) /\ i < Size
      BY <2>6, <2>9, <3>1, QueueAssumption DEF QueueAssumption
    <3>3. Index(q + i) = Index(o + i)
      BY <2>5, <3>2, QueueAssumption DEF Index, QueueAssumption
    <3>4. Index(o + i) \in Offsets /\ Age(Index(o + i)) = Age(o) - i
      BY <2>2, <2>6, <3>2, AgeOfLater, QueueAssumption
    <3>5. WriteDistance(o) >= len
      BY <2>2, <2>5, <2>6, NotEndangeredIsKept, QueueAssumption
    <3>6. Age(o) = Size - WriteDistance(o) /\ WriteDistance(o) \in Nat
          /\ Age(Index(o + i)) = Size - WriteDistance(Index(o + i))
          /\ WriteDistance(Index(o + i)) \in Nat
      BY <2>2, <2>6, <3>4, AgeFacts, QueueAssumption
    <3>7. WriteDistance(Index(o + i)) >= len
      BY <3>2, <3>4, <3>5, <3>6, QueueAssumption DEF QueueAssumption
    <3>8. QED
      BY <2>1, <2>2, <3>3, <3>4, <3>7, WriteAges, QueueAssumption
  <2>10. QED
    BY <2>3, <2>7, <2>8, <2>9 DEF ByteAt, Index
<1>2. IInv /\ [Next]_vars => \A s \in Slots : Good(s)
  BY <1>1
<1>3. QED
  BY <1>2, InvariantHolds, PTL DEF Spec, MovedToIframe


(***************************************************************************)
(* The pointer onto offset o that the walk of FindNextIframe can land on,  *)
(* and what the distance of o from the write pointer says of it.           *)
(***************************************************************************)
LEMMA WalkPointer ==
    ASSUME QueueAssumption, pWrite \in Offsets, NEW len \in FrameLens,
           NEW o \in Offsets, Age(o) + len < Size
    PROVE  \E q \in 1 .. Size : /\ Index(q) = o
                                /\ ReadableLen(q) = Age(o)
                                /\ ~Endangered(q, len)
<1> DEFINE q == IF o = 0 THEN Size ELSE o
<1>1. q \in 1 .. Size /\ Index(q) = o
  BY DEF QueueAssumption, Offsets, Index
<1>2. o # pWrite
  BY DEF QueueAssumption, Offsets, Age
<1>3. ReadableLen(q) = Age(o)
  BY <1>1, <1>2, ReadableFacts
<1>4. ~Endangered(q, len)
  BY DEF QueueAssumption, Offsets, Age, Endangered
<1> QED
  BY <1>1, <1>3, <1>4

\* A reader that a write moves has not caught up with the writer.
LEMMA OverrunIsBehind ==
    ASSUME QueueAssumption, pWrite \in Offsets,
           NEW p \in NULL .. Size, NEW len \in FrameLens, Overrun(p, len)
    PROVE  p \in 0 .. Size /\ ReadableLen(p) # 0
  BY DEF QueueAssumption, Offsets, Overrun, NULL, ReadableLen

\* Of two different offsets one was written before the other.
LEMMA AgesApart ==
    ASSUME QueueAssumption, pWrite \in Offsets, NEW o \in Offsets, NEW u \in Offsets,
           o # u
    PROVE  Age(o) < Age(u) \/ Age(u) < Age(o)
  BY DEF QueueAssumption, Offsets, Age

(***************************************************************************)
(* WriteData meets the assertion of MoveReadPoint only when the readers it *)
(* has to move have no later key frame clear of the write: the order of    *)
(* the frames in the ring puts such a key frame between the reader and the *)
(* write pointer, and the chain of headers leads to it.                    *)
(***************************************************************************)
THEOREM MoveReadPointFindsIframeHolds == Spec => []MoveReadPointFindsIframe
<1>1. IInv => MoveReadPointFindsIframe
  <2> SUFFICES ASSUME IInv, enabled, NEW s \in Slots, NEW len \in FrameLens, NEW o \in Offsets,
                      Overrun(pRead[s], len),
                      dataBuff[o].kind = "I", dataBuff[o].off = 0,
                      dataBuff[o].id > ByteAt(pRead[s]).id,
                      Age(o) + len < Size
               PROVE  MoveReadPoint(pRead[s], len) # NULL
    BY DEF MoveReadPointFindsIframe
  <2> DEFINE p == pRead[s]
  <2> DEFINE u == Index(p)
  <2>1. /\ TypeOK /\ pWrite \in Offsets
        /\ FramesChained /\ FramesOrdered /\ ReaderPlaced(s)
    BY DEF IInv, QueueInv, TypeOK
  <2>2. p \in 0 .. Size /\ ReadableLen(p) # 0
    <3>1. p \in NULL .. Size
      BY <2>1 DEF TypeOK
    <3> QED
      BY <2>1, <3>1, QueueAssumption, OverrunIsBehind
  <2>3. u \in Offsets /\ ReadableLen(p) = Age(u)
    BY <2>1, <2>2, QueueAssumption, ReadableFacts
  <2>4. dataBuff[u] \in Byte /\ dataBuff[o] \in Byte
    BY <2>1, <2>3 DEF TypeOK
  <2>5. dataBuff[u].id # 0 /\ dataBuff[u].off = 0 /\ dataBuff[o].id > dataBuff[u].id
    BY <2>1, <2>2 DEF ReaderPlaced, ByteAt, NULL
  <2>6. dataBuff[o].id # 0
    BY <2>4, <2>5 DEF Byte
  \* The key frame was written after the frame the reader stands on.
  <2>7. Age(o) < Age(u)
    <3>1. ~(Age(u) < Age(o))
      BY <2>1, <2>3, <2>4, <2>5 DEF FramesOrdered, Byte
    <3>2. o # u
      BY <2>4, <2>5 DEF Byte
    <3> QED
      BY <2>1, <2>3, <3>1, <3>2, QueueAssumption, AgesApart
  <2>8. Age(o) >= HeadLen
    <3>1. dataBuff[o].len \in FrameLens /\ dataBuff[o].len - 0 <= Age(o)
      BY <2>1, <2>6 DEF FramesChained, Remaining
    <3>2. Age(o) \in Nat
      BY <2>1, QueueAssumption, AgeFacts
    <3> QED
      BY <3>1, <3>2, QueueAssumption DEF QueueAssumption
  <2>9. PICK q \in 1 .. Size : Index(q) = o /\ ReadableLen(q) = Age(o) /\ ~Endangered(q, len)
    BY <2>1, QueueAssumption, WalkPointer
  <2>10. q \in SafeIframes(p, len)
    BY <2>3, <2>6, <2>7, <2>8, <2>9 DEF SafeIframes, LaterIframes, IframeAt, HeaderAt, ByteAt
  <2>11. SafeIframes(p, len) \subseteq 0 .. Size
    BY QueueAssumption DEF SafeIframes, LaterIframes, QueueAssumption
  <2>12. SafeIframes(p, len) \subseteq 1 .. Size
    BY DEF SafeIframes, LaterIframes
  <2>13. First(SafeIframes(p, len)) \in SafeIframes(p, len)
    BY <2>1, <2>10, <2>11, QueueAssumption, FirstExists
  <2> QED
    BY <2>10, <2>12, <2>13 DEF MoveReadPoint, NULL
<1>2. QED
  BY <1>1, InvariantHolds, PTL
=============================================================================
