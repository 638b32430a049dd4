-------------------------- MODULE AlarmManage_proofs --------------------------
(***************************************************************************)
(* The list of alarms, for every size of the list and of the heap, number  *)
(* of alarms and of handles.                                               *)
(***************************************************************************)
EXTENDS AlarmManage, FiniteSetTheorems, SequenceTheorems, TLAPS

\* The blocks of the list l are the ones that are in use in the heap h, each once.
Listed(h, l) ==
    /\ IsInjective(l)
    /\ ToSet(l) = {b \in Blocks : h[b] # 0}

Ordered(h, l) ==
    \A m, n \in 1 .. Len(l) : m < n => h[l[m]] < h[l[n]]

\* AlarmManageProc has a pointer to an alarm.
Busy == pc \in {"lock", "post", "del"}

\* Alarms are numbered as they are pushed.
Numbered ==
    /\ \A b \in Blocks : heap[b] <= pushed
    /\ taken <= pushed
    /\ \A e \in evicted : e <= pushed

\* An alarm that was thrown away does not wait any more.
EvictedGone == \A b \in Blocks : heap[b] \notin evicted

(***************************************************************************)
(* The alarm that was taken stands before all others, and it is gone when  *)
(* AlarmManageProc has no pointer to it.                                   *)
(***************************************************************************)
TakenFirst ==
    /\ \A b \in Blocks : heap[b] # 0 => taken <= heap[b]
    /\ ~Busy => \A b \in Blocks : heap[b] # taken \/ heap[b] = 0
    /\ Busy => alarminfo \in Blocks /\ taken \in Alarms
    /\ Busy => heap[alarminfo] = taken \/ taken \in evicted

\* The alarm that was taken has been shown to somebody, or will be.
Heard ==
    /\ pc = "del" => taken \in evicted \cup seen \cup unheard
    /\ pc = "post" => \/ taken \in evicted \cup seen \cup unheard
                      \/ \E k \in DOMAIN todo : todo[k] \notin Deaf

\* The alarms thrown away whose deletion by AlarmManageProc is over.
Paid == {e \in evicted : e < taken \/ (e = taken /\ ~Busy)}

LossBounded == Cardinality(Lost \ evicted) <= Cardinality(Paid)

AlarmInv ==
    /\ HeapConsistent
    /\ InOrder
    /\ Numbered
    /\ EvictedGone
    /\ TakenFirst
    /\ Heard
    /\ LossBounded
-----------------------------------------------------------------------------
(***************************************************************************)
(* Lists.                                                                  *)
(***************************************************************************)

\* RemoveAt takes one element out and leaves the others in their order.
LEMMA RemoveAtIs ==
    ASSUME NEW S, NEW l \in Seq(S), NEW k \in 1 .. Len(l)
    PROVE  /\ RemoveAt(l, k) \in Seq(S)
           /\ Len(RemoveAt(l, k)) = Len(l) - 1
           /\ \A j \in 1 .. Len(l) - 1 :
                  RemoveAt(l, k)[j] = IF j < k THEN l[j] ELSE l[j + 1]
<1> DEFINE a == SubSeq(l, 1, k - 1)
           b == SubSeq(l, k + 1, Len(l))
<1>1. \A j \in 1 .. Len(l) : l[j] \in S
  OBVIOUS
<1>2. Len(l) \in Nat /\ k \in Nat /\ 1 <= k /\ k <= Len(l)
  OBVIOUS
<1>3. a \in Seq(S) /\ Len(a) = k - 1 /\ \A j \in 1 .. k - 1 : a[j] = l[j]
  BY <1>1, <1>2, SubSeqProperties
<1>4. b \in Seq(S) /\ Len(b) = Len(l) - k /\ \A j \in 1 .. Len(l) - k : b[j] = l[k + j]
  BY <1>1, <1>2, SubSeqProperties
<1>5. RemoveAt(l, k) = a \o b
  BY DEF RemoveAt
<1> HIDE DEF a, b
<1>6. /\ a \o b \in Seq(S)
      /\ Len(a \o b) = Len(l) - 1
      /\ \A j \in 1 .. Len(l) - 1 : (a \o b)[j] = IF j < k THEN a[j] ELSE b[j - (k - 1)]
  <2>1. /\ a \o b \in Seq(S) /\ Len(a \o b) = Len(a) + Len(b)
        /\ \A j \in 1 .. Len(a) + Len(b) : (a \o b)[j] = IF j <= Len(a) THEN a[j] ELSE b[j - Len(a)]
    BY <1>3, <1>4, ConcatProperties
  <2>2. Len(a) + Len(b) = Len(l) - 1
    BY <1>2, <1>3, <1>4
  <2>3. \A j \in 1 .. Len(l) - 1 : j <= Len(a) <=> j < k
    BY <1>2, <1>3
  <2> QED
    BY <1>3, <2>1, <2>2, <2>3
<1>7. \A j \in 1 .. Len(l) - 1 : (a \o b)[j] = IF j < k THEN l[j] ELSE l[j + 1]
  <2> TAKE j \in 1 .. Len(l) - 1
  <2>1. CASE j < k
    BY <1>2, <1>3, <1>6, <2>1
  <2>2. CASE ~(j < k)
    <3>1. j - (k - 1) \in 1 .. Len(l) - k /\ k + (j - (k - 1)) = j + 1
      BY <1>2, <2>2
    <3> QED
      BY <1>2, <1>4, <1>6, <2>2, <3>1
  <2> QED
    BY <2>1, <2>2
<1> QED
  BY <1>5, <1>6, <1>7

\* Tail takes the first element out.
LEMMA TailIsRemoveAt ==
    ASSUME NEW S, NEW l \in Seq(S), l # << >>
    PROVE  /\ Tail(l) = RemoveAt(l, 1)
           /\ Head(l) = l[1]
           /\ 1 \in 1 .. Len(l)
<1>1. 1 \in 1 .. Len(l) /\ Head(l) = l[1]
  OBVIOUS
<1>2. /\ Tail(l) \in Seq(S) /\ Len(Tail(l)) = Len(l) - 1
      /\ \A j \in 1 .. Len(l) - 1 : Tail(l)[j] = l[j + 1]
  BY HeadTailProperties
<1>3. /\ RemoveAt(l, 1) \in Seq(S) /\ Len(RemoveAt(l, 1)) = Len(l) - 1
      /\ \A j \in 1 .. Len(l) - 1 : RemoveAt(l, 1)[j] = l[j + 1]
  BY <1>1, RemoveAtIs
<1>4. Tail(l) = RemoveAt(l, 1)
  BY <1>2, <1>3, SeqEqual
<1> QED
  BY <1>1, <1>4

\* The least element, for a well-founded relation that contains <.
LEMMA LeastByRelation ==
    ASSUME NEW S, NEW R, S \subseteq Nat, S # {},
           IsWellFoundedOn(R, Nat),
           \A x, y \in Nat : y < x => <<y, x>> \in R
    PROVE  \E x \in S : \A y \in S : x <= y
<1>1. PICK x \in S : \A y \in S : ~(<<y, x>> \in R)
  BY WFMin, Zenon
<1>2. \A y \in S : ~(y < x)
  BY <1>1, Zenon
<1>3. \A y \in S : x <= y
  BY <1>2, SMT
<1> QED
  BY <1>3, Zenon

\* Every non-empty set of naturals has a least element.
LEMMA FirstExists ==
    ASSUME NEW S, S \subseteq Nat, S # {}
    PROVE  \E x \in S : \A y \in S : x <= y
<1>1. \A x, y \in Nat : y < x => <<y, x>> \in OpToRel(<, Nat)
  BY Zenon DEF OpToRel
<1> QED
  BY <1>1, LeastByRelation, NatLessThanWellFounded, Zenon

\* The least element of a set of positions, which Min chooses.
LEMMA MinIs ==
    ASSUME NEW n \in Nat, NEW S, S \subseteq 1 .. n, S # {}
    PROVE  Min(S) \in S
<1>1. S \subseteq Nat
  OBVIOUS
<1>2. \E x \in S : \A y \in S : x <= y
  BY <1>1, FirstExists
<1> QED
  BY <1>2 DEF Min

\* RemoveFirst takes an element of the list out.
LEMMA RemoveFirstIs ==
    ASSUME NEW S, NEW l \in Seq(S), NEW e \in ToSet(l)
    PROVE  \E k \in 1 .. Len(l) : l[k] = e /\ RemoveFirst(l, e) = RemoveAt(l, k)
<1> DEFINE found == {m \in 1 .. Len(l) : l[m] = e}
<1>1. \E m \in 1 .. Len(l) : l[m] = e
  BY DEF ToSet
<1>2. found # {} /\ found \subseteq 1 .. Len(l) /\ Len(l) \in Nat
  BY <1>1
<1>3. Min(found) \in found
  BY <1>2, MinIs
<1>4. RemoveFirst(l, e) = RemoveAt(l, Min(found))
  BY <1>1, <1>2 DEF RemoveFirst, SelectInSeq
<1> QED
  BY <1>3, <1>4

\* An element that is not there is not removed.
LEMMA RemoveFirstNone ==
    ASSUME NEW S, NEW l \in Seq(S), NEW e, e \notin ToSet(l)
    PROVE  RemoveFirst(l, e) = l
  BY DEF ToSet, RemoveFirst

(***************************************************************************)
(* List and heap stay together when the k-th alarm of the list is removed  *)
(* and freed.                                                              *)
(***************************************************************************)
LEMMA RemoveKeeps ==
    ASSUME NEW h \in [Blocks -> Alarms \cup {0}], NEW l \in Seq(Blocks),
           NEW k \in 1 .. Len(l), Listed(h, l), Ordered(h, l)
    PROVE  /\ Listed([h EXCEPT ![l[k]] = 0], RemoveAt(l, k))
           /\ Ordered([h EXCEPT ![l[k]] = 0], RemoveAt(l, k))
<1> DEFINE r == RemoveAt(l, k)
           g == [h EXCEPT ![l[k]] = 0]
           from(j) == IF j < k THEN j ELSE j + 1
<1>1. /\ r \in Seq(Blocks) /\ Len(r) = Len(l) - 1
      /\ \A j \in 1 .. Len(l) - 1 : r[j] = IF j < k THEN l[j] ELSE l[j + 1]
  BY RemoveAtIs
<1>2. Len(l) \in Nat /\ k \in Nat /\ 1 <= k /\ k <= Len(l)
  OBVIOUS
<1>3. \A j \in 1 .. Len(r) : from(j) \in 1 .. Len(l) /\ r[j] = l[from(j)] /\ from(j) # k
  BY <1>1, <1>2
<1>4. \A m, n \in 1 .. Len(r) : (m < n => from(m) < from(n)) /\ (from(m) = from(n) => m = n)
  BY <1>1, <1>2
<1>5. \A j \in 1 .. Len(l) : j # k => \E m \in 1 .. Len(r) : from(m) = j
  <2> TAKE j \in 1 .. Len(l)
  <2> HAVE j # k
  <2>1. CASE j < k
    BY <1>1, <1>2, <2>1
  <2>2. CASE j > k
    <3>1. j - 1 \in 1 .. Len(r) /\ from(j - 1) = j
      BY <1>1, <1>2, <2>2
    <3> QED
      BY <3>1
  <2> QED
    BY <1>2, <2>1, <2>2
<1>6. \A m, n \in 1 .. Len(l) : l[m] = l[n] => m = n
  BY DEF Listed, IsInjective
<1>7. DOMAIN r = 1 .. Len(r) /\ DOMAIN l = 1 .. Len(l)
  BY <1>1
<1> HIDE DEF r, from
<1>8. IsInjective(r)
  BY <1>3, <1>4, <1>6, <1>7 DEF IsInjective
<1>9. \A j \in 1 .. Len(r) : r[j] # l[k] /\ r[j] \in Blocks /\ g[r[j]] = h[r[j]]
  BY <1>1, <1>3, <1>6
<1>10. l[k] \in Blocks /\ \A b \in Blocks : g[b] = IF b = l[k] THEN 0 ELSE h[b]
  OBVIOUS
<1> HIDE DEF g
<1>11. \A b \in ToSet(r) : b \in Blocks /\ g[b] # 0
  <2> TAKE b \in ToSet(r)
  <2>1. PICK j \in 1 .. Len(r) : b = r[j]
    BY <1>7 DEF ToSet
  <2>2. b = l[from(j)] /\ from(j) \in DOMAIN l
    BY <1>3, <1>7, <2>1
  <2>3. b \in ToSet(l)
    BY <2>2 DEF ToSet
  <2> QED
    BY <1>9, <2>1, <2>3 DEF Listed
<1>12. \A b \in Blocks : g[b] # 0 => b \in ToSet(r)
  <2> TAKE b \in Blocks
  <2> HAVE g[b] # 0
  <2>1. b # l[k] /\ h[b] # 0
    BY <1>10
  <2>2. b \in ToSet(l)
    BY <2>1 DEF Listed
  <2>3. PICK j \in 1 .. Len(l) : b = l[j]
    BY <1>7, <2>2 DEF ToSet
  <2>4. PICK m \in 1 .. Len(r) : from(m) = j
    BY <1>5, <2>1, <2>3
  <2>5. b = r[m] /\ m \in DOMAIN r
    BY <1>3, <1>7, <2>3, <2>4
  <2> QED
    BY <2>5 DEF ToSet
<1>13. Ordered(g, r)
  BY <1>3, <1>4, <1>9 DEF Ordered
<1> QED
  BY <1>8, <1>11, <1>12, <1>13 DEF Listed, g, r

\* ... and when an alarm later than all others is appended in a free block.
LEMMA AppendKeeps ==
    ASSUME NEW h \in [Blocks -> Alarms \cup {0}], NEW l \in Seq(Blocks),
           NEW b \in Blocks, h[b] = 0, NEW a \in Alarms,
           \A c \in Blocks : h[c] < a,
           Listed(h, l), Ordered(h, l)
    PROVE  /\ Listed([h EXCEPT ![b] = a], Append(l, b))
           /\ Ordered([h EXCEPT ![b] = a], Append(l, b))
<1> DEFINE r == Append(l, b)
           g == [h EXCEPT ![b] = a]
<1>1. /\ r \in Seq(Blocks) /\ Len(r) = Len(l) + 1 /\ Len(l) \in Nat
      /\ \A j \in 1 .. Len(l) : r[j] = l[j]
      /\ r[Len(l) + 1] = b
  BY AppendProperties
<1>2. \A c \in Blocks : g[c] = IF c = b THEN a ELSE h[c]
  OBVIOUS
<1>3. a # 0 /\ a \in Nat
  BY AlarmAssumption DEF Alarms
<1>4. \A j \in 1 .. Len(l) : l[j] # b /\ l[j] \in Blocks /\ l[j] \in ToSet(l)
  BY DEF Listed, ToSet
<1>5. DOMAIN r = 1 .. Len(l) + 1 /\ DOMAIN l = 1 .. Len(l)
  BY <1>1
<1> HIDE DEF r, g
<1>6. \A m, n \in 1 .. Len(l) : l[m] = l[n] => m = n
  BY DEF Listed, IsInjective
<1>7. IsInjective(r)
  BY <1>1, <1>4, <1>5, <1>6 DEF IsInjective
<1>8. ToSet(r) = ToSet(l) \cup {b}
  <2>1. ToSet(r) = {r[j] : j \in 1 .. Len(l) + 1} /\ ToSet(l) = {l[j] : j \in 1 .. Len(l)}
    BY <1>5 DEF ToSet
  <2> QED
    BY <1>1, <2>1
<1>9. ToSet(l) = {c \in Blocks : h[c] # 0}
  BY DEF Listed
<1>10. ToSet(r) = {c \in Blocks : g[c] # 0}
  BY <1>2, <1>3, <1>8, <1>9
<1>11. \A m, n \in 1 .. Len(l) : m < n => h[l[m]] < h[l[n]]
  BY DEF Ordered
<1>12. \A m, n \in 1 .. Len(r) : m < n => g[r[m]] < g[r[n]]
  BY <1>1, <1>2, <1>4, <1>11
<1> QED
  BY <1>7, <1>10, <1>12 DEF Listed, Ordered, r, g
-----------------------------------------------------------------------------
(***************************************************************************)
(* Counting.                                                               *)
(***************************************************************************)

\* A smaller set of losses is paid for by more alarms that were thrown away.
LEMMA FewerLost ==
    ASSUME NEW n \in Nat, NEW A, NEW B, NEW C, NEW D,
           A \subseteq B, C \subseteq D, B \subseteq 1 .. n, D \subseteq 1 .. n,
           Cardinality(B) <= Cardinality(C)
    PROVE  Cardinality(A) <= Cardinality(D)
<1>1. IsFiniteSet(1 .. n)
  BY FS_Interval
<1>2. IsFiniteSet(B) /\ IsFiniteSet(D)
  BY <1>1, FS_Subset
<1>3. Cardinality(A) <= Cardinality(B) /\ IsFiniteSet(A)
  BY <1>2, FS_Subset
<1>4. Cardinality(C) <= Cardinality(D) /\ IsFiniteSet(C)
  BY <1>2, FS_Subset
<1>5. /\ Cardinality(A) \in Nat /\ Cardinality(B) \in Nat
      /\ Cardinality(C) \in Nat /\ Cardinality(D) \in Nat
  BY <1>2, <1>3, <1>4, FS_CardinalityType
<1> QED
  BY <1>3, <1>4, <1>5

\* One more loss is paid for by one more alarm that was thrown away.
LEMMA OneMoreLost ==
    ASSUME NEW n \in Nat, NEW A, NEW B, NEW C, NEW D, NEW x, NEW y,
           A \subseteq B \cup {x}, C \cup {y} \subseteq D, y \notin C,
           B \subseteq 1 .. n, D \subseteq 1 .. n,
           Cardinality(B) <= Cardinality(C)
    PROVE  Cardinality(A) <= Cardinality(D)
<1>1. IsFiniteSet(1 .. n)
  BY FS_Interval
<1>2. IsFiniteSet(B) /\ IsFiniteSet(D) /\ C \subseteq D
  BY <1>1, FS_Subset
<1>3. IsFiniteSet(C)
  BY <1>2, FS_Subset
<1>4. IsFiniteSet(B \cup {x}) /\ IsFiniteSet(C \cup {y})
  BY <1>2, <1>3, FS_AddElement
<1>5. Cardinality(A) <= Cardinality(B \cup {x}) /\ IsFiniteSet(A)
  BY <1>4, FS_Subset
<1>6. Cardinality(C \cup {y}) <= Cardinality(D)
  BY <1>2, FS_Subset
<1>7. /\ Cardinality(A) \in Nat /\ Cardinality(B) \in Nat
      /\ Cardinality(C) \in Nat /\ Cardinality(D) \in Nat
  BY <1>2, <1>3, <1>5, FS_CardinalityType
<1>8. Cardinality(B \cup {x}) = Cardinality(B) \/ Cardinality(B \cup {x}) = Cardinality(B) + 1
  BY <1>2, FS_AddElement
<1>9. Cardinality(C \cup {y}) = Cardinality(C) + 1
  BY <1>3, FS_AddElement
<1> QED
  BY <1>5, <1>6, <1>7, <1>8, <1>9

LEMMA Typing ==
    ASSUME TypeOK
    PROVE  /\ MaxAlarms \in Nat /\ pushed \in Nat /\ pushed <= MaxAlarms /\ taken \in Nat
           /\ \A b \in Blocks : heap[b] \in Nat
           /\ \A a \in Alarms : a \in Nat /\ a # 0
           /\ evicted \subseteq 1 .. MaxAlarms /\ Lost \subseteq 1 .. MaxAlarms
           /\ Paid \subseteq 1 .. MaxAlarms
           /\ \A e \in evicted : e \in Nat /\ e # 0
<1>1. MaxAlarms \in Nat
  BY AlarmAssumption
<1>2. pushed \in Nat /\ pushed <= MaxAlarms /\ \A a \in Alarms : a \in Nat /\ a # 0
  BY <1>1 DEF TypeOK, Alarms
<1>3. taken \in Nat /\ \A b \in Blocks : heap[b] \in Nat
  BY <1>2 DEF TypeOK
<1>4. evicted \subseteq 1 .. MaxAlarms
  BY DEF TypeOK, Alarms
<1>5. Lost \subseteq 1 .. MaxAlarms
  BY <1>1, <1>2 DEF Lost
<1>6. Paid \subseteq 1 .. MaxAlarms
  BY <1>4 DEF Paid
<1>7. \A e \in evicted : e \in Nat /\ e # 0
  BY <1>4
<1> QED
  BY <1>1, <1>2, <1>3, <1>4, <1>5, <1>6, <1>7

\* In terms of Listed and Ordered.
LEMMA ListAndHeap ==
    (HeapConsistent /\ InOrder) <=>
        (TypeOK /\ Listed(heap, headlist) /\ Ordered(heap, headlist) /\ msgnum = Len(headlist))
  BY DEF HeapConsistent, InOrder, Listed, Ordered

(***************************************************************************)
(* No two blocks hold the same alarm, and the first of the list holds the  *)
(* earliest.                                                               *)
(***************************************************************************)
LEMMA AlarmsDiffer ==
    ASSUME HeapConsistent, InOrder
    PROVE  /\ \A b, c \in Blocks : heap[b] = heap[c] /\ heap[b] # 0 => b = c
           /\ headlist # << >> =>
                 /\ Head(headlist) \in Blocks /\ heap[Head(headlist)] # 0
                 /\ \A b \in Blocks : heap[b] # 0 => heap[Head(headlist)] <= heap[b]
<1>1. /\ headlist \in Seq(Blocks) /\ Len(headlist) \in Nat
      /\ DOMAIN headlist = 1 .. Len(headlist)
  BY DEF HeapConsistent, TypeOK
<1>2. \A b \in Blocks : heap[b] # 0 => \E m \in 1 .. Len(headlist) : b = headlist[m]
  BY <1>1 DEF HeapConsistent, ToSet
<1>3. \A m, n \in 1 .. Len(headlist) : m < n => heap[headlist[m]] < heap[headlist[n]]
  BY DEF InOrder
<1>4. \A b \in Blocks : heap[b] \in Nat
  BY Typing DEF HeapConsistent
<1>5. ASSUME NEW b \in Blocks, NEW c \in Blocks, heap[b] = heap[c], heap[b] # 0
      PROVE  b = c
  <2>1. PICK m \in 1 .. Len(headlist) : b = headlist[m]
    BY <1>2, <1>5
  <2>2. PICK n \in 1 .. Len(headlist) : c = headlist[n]
    BY <1>2, <1>5
  <2>3. ~(m < n) /\ ~(n < m)
    BY <1>3, <1>4, <1>5, <2>1, <2>2
  <2>4. m = n
    BY <2>3
  <2> QED
    BY <2>1, <2>2, <2>4
<1>6. ASSUME headlist # << >>
      PROVE  /\ Head(headlist) \in Blocks /\ heap[Head(headlist)] # 0
             /\ \A b \in Blocks : heap[b] # 0 => heap[Head(headlist)] <= heap[b]
  <2>1. Head(headlist) = headlist[1] /\ 1 \in 1 .. Len(headlist)
    BY <1>1, <1>6
  <2>2. headlist[1] \in ToSet(headlist)
    BY <1>1, <2>1 DEF ToSet
  <2>3. headlist[1] \in Blocks /\ heap[headlist[1]] # 0
    BY <2>2 DEF HeapConsistent
  <2>4. ASSUME NEW b \in Blocks, heap[b] # 0
        PROVE  heap[headlist[1]] <= heap[b]
    <3>1. PICK m \in 1 .. Len(headlist) : b = headlist[m]
      BY <1>2, <2>4
    <3>2. m = 1 \/ 1 < m
      OBVIOUS
    <3>3. heap[headlist[1]] \in Nat /\ heap[b] \in Nat
      BY <1>4, <2>3
    <3> QED
      BY <1>3, <2>1, <3>1, <3>2, <3>3
  <2> QED
    BY <2>1, <2>3, <2>4
<1> QED
  BY <1>5, <1>6
-----------------------------------------------------------------------------
(***************************************************************************)
(* AlarmMsgInput.                                                          *)
(***************************************************************************)

\* The alarm that is thrown away, if there is no room.
Thrown == IF Full THEN {heap[Head(headlist)]} ELSE {}

\* Making room removes just the earliest alarm.
LEMMA RoomMade ==
    ASSUME HeapConsistent, InOrder
    PROVE  /\ FreedHeap \in [Blocks -> Alarms \cup {0}]
           /\ Kept \in Seq(Blocks)
           /\ Listed(FreedHeap, Kept) /\ Ordered(FreedHeap, Kept)
           /\ MsgnumAfterInput = Len(Kept) + 1
           /\ MsgnumAfterInput \in 0 .. MAX_PUSHMSG_NUM + 1
           /\ Thrown \subseteq Alarms
           /\ \A c \in Blocks : FreedHeap[c] = IF heap[c] \in Thrown THEN 0 ELSE heap[c]
<1>1. /\ TypeOK /\ Listed(heap, headlist) /\ Ordered(heap, headlist)
      /\ msgnum = Len(headlist)
  BY ListAndHeap
<1>2. /\ heap \in [Blocks -> Alarms \cup {0}] /\ headlist \in Seq(Blocks)
      /\ msgnum \in Nat /\ msgnum <= MAX_PUSHMSG_NUM + 1 /\ MAX_PUSHMSG_NUM \in Nat
  BY <1>1, AlarmAssumption DEF TypeOK
<1>3. CASE ~Full
  BY <1>1, <1>2, <1>3 DEF Full, FreedHeap, Kept, MsgnumAfterInput, Thrown
<1>4. CASE Full
  <2>1. headlist # << >> /\ msgnum = MAX_PUSHMSG_NUM + 1
    BY <1>1, <1>2, <1>4 DEF Full
  <2>2. /\ Tail(headlist) = RemoveAt(headlist, 1) /\ Head(headlist) = headlist[1]
        /\ 1 \in 1 .. Len(headlist)
    BY <1>2, <2>1, TailIsRemoveAt
  <2>3. /\ FreedHeap = [heap EXCEPT ![headlist[1]] = 0] /\ Kept = RemoveAt(headlist, 1)
        /\ MsgnumAfterInput = msgnum /\ Thrown = {heap[Head(headlist)]}
    BY <1>2, <1>4, <2>2 DEF FreedHeap, Kept, MsgnumAfterInput, Thrown
  <2>4. Listed(FreedHeap, Kept) /\ Ordered(FreedHeap, Kept)
    BY <1>1, <1>2, <2>2, <2>3, RemoveKeeps
  <2>5. Kept \in Seq(Blocks) /\ Len(Kept) = Len(headlist) - 1
    BY <1>2, <2>2, <2>3, RemoveAtIs
  <2>6. /\ Head(headlist) \in Blocks /\ heap[Head(headlist)] # 0
        /\ \A b, c \in Blocks : heap[b] = heap[c] /\ heap[b] # 0 => b = c
    BY <2>1, AlarmsDiffer
  <2>7. FreedHeap \in [Blocks -> Alarms \cup {0}]
    BY <1>2, <2>2, <2>3, <2>6
  <2>8. Thrown \subseteq Alarms
    BY <1>2, <2>3, <2>6
  <2>9. \A c \in Blocks : FreedHeap[c] = IF c = Head(headlist) THEN 0 ELSE heap[c]
    BY <1>2, <2>2, <2>3, <2>6
  <2>10. \A c \in Blocks : heap[c] \in Thrown <=> c = Head(headlist)
    BY <2>3, <2>6
  <2> QED
    BY <1>1, <1>2, <2>1, <2>3, <2>4, <2>5, <2>7, <2>8, <2>9, <2>10
<1> QED
  BY <1>3, <1>4

\* What AlarmMsgInput does to the heap.
LEMMA InputIs ==
    ASSUME AlarmInv, AlarmMsgInput
    PROVE  /\ HeapConsistent' /\ InOrder'
           /\ pushed' = pushed + 1 /\ evicted' = evicted \cup Thrown
           /\ \E b \in Blocks : heap'[b] = pushed'
           /\ \A c \in Blocks : heap'[c] \in {0, pushed', heap[c]}
           /\ \A c \in Blocks : heap'[c] \notin Thrown
           /\ \A c \in Blocks : heap[c] # 0 /\ heap[c] \notin Thrown => heap'[c] = heap[c]
<1>1. /\ FreedHeap \in [Blocks -> Alarms \cup {0}]
      /\ Kept \in Seq(Blocks)
      /\ Listed(FreedHeap, Kept) /\ Ordered(FreedHeap, Kept)
      /\ MsgnumAfterInput = Len(Kept) + 1
      /\ MsgnumAfterInput \in 0 .. MAX_PUSHMSG_NUM + 1
      /\ Thrown \subseteq Alarms
      /\ \A c \in Blocks : FreedHeap[c] = IF heap[c] \in Thrown THEN 0 ELSE heap[c]
  BY RoomMade DEF AlarmInv
<1>2. PICK b \in Blocks : /\ FreedHeap[b] = 0
                          /\ heap' = [FreedHeap EXCEPT ![b] = pushed']
                          /\ headlist' = Append(Kept, b)
  BY DEF AlarmMsgInput
<1>3. /\ pushed < MaxAlarms /\ pushed' = pushed + 1 /\ evicted' = evicted \cup Thrown
      /\ msgnum' = MsgnumAfterInput
  BY DEF AlarmMsgInput, Thrown
<1>4. TypeOK
  BY DEF AlarmInv, HeapConsistent
<1>5. /\ pushed' \in Alarms /\ pushed' \in 0 .. MaxAlarms /\ pushed' \in Nat
      /\ \A c \in Blocks : heap[c] \in Nat /\ heap[c] < pushed'
  BY <1>3, <1>4, Typing DEF AlarmInv, Numbered, Alarms
<1>6. \A c \in Blocks : FreedHeap[c] < pushed'
  BY <1>1, <1>3, <1>4, <1>5, Typing
<1>7. /\ Listed([FreedHeap EXCEPT ![b] = pushed'], Append(Kept, b))
      /\ Ordered([FreedHeap EXCEPT ![b] = pushed'], Append(Kept, b))
  BY <1>1, <1>2, <1>5, <1>6, AppendKeeps
<1>8. Listed(heap', headlist') /\ Ordered(heap', headlist')
  BY <1>2, <1>7
<1>9. heap' \in [Blocks -> Alarms \cup {0}]
  BY <1>1, <1>2, <1>5
<1>10. headlist' \in Seq(Blocks) /\ Len(headlist') = Len(Kept) + 1
  BY <1>1, <1>2, AppendProperties
<1>11. TypeOK'
  BY <1>1, <1>3, <1>4, <1>5, <1>9, <1>10 DEF TypeOK, AlarmMsgInput, procVars
<1>12. HeapConsistent' /\ InOrder'
  BY <1>1, <1>3, <1>8, <1>10, <1>11 DEF HeapConsistent, InOrder, Listed, Ordered
<1>13. \A c \in Blocks : heap'[c] = IF c = b THEN pushed' ELSE FreedHeap[c]
  BY <1>1, <1>2
<1>14. 0 \notin Thrown /\ pushed' \notin Thrown
  <2>1. 0 \notin Alarms
    BY <1>4, Typing
  <2>2. \A x \in Thrown : \E c \in Blocks : x = heap[c]
    <3>1. Full => headlist # << >>
      BY <1>4, AlarmAssumption DEF Full, AlarmInv, HeapConsistent, TypeOK
    <3>2. Full => Head(headlist) \in Blocks
      BY <3>1, AlarmsDiffer DEF AlarmInv
    <3> QED
      BY <3>2 DEF Thrown
  <2> QED
    BY <1>1, <1>5, <2>1, <2>2
<1>15. \A c \in Blocks : heap'[c] \notin Thrown
  BY <1>1, <1>13, <1>14
<1>16. \A c \in Blocks : heap[c] # 0 /\ heap[c] \notin Thrown => heap'[c] = heap[c]
  BY <1>1, <1>2, <1>13
<1>17. \A c \in Blocks : heap'[c] \in {0, pushed', heap[c]}
  BY <1>1, <1>13
<1> QED
  BY <1>3, <1>12, <1>13, <1>15, <1>16, <1>17

\* The losses grow by no alarm that was not thrown away.
LEMMA LossKept ==
    ASSUME TypeOK, TypeOK', LossBounded,
           Lost' \ evicted' \subseteq Lost \ evicted, Paid \subseteq Paid'
    PROVE  LossBounded'
<1>1. MaxAlarms \in Nat /\ Lost \ evicted \subseteq 1 .. MaxAlarms
  BY Typing
<1>2. Paid' \subseteq 1 .. MaxAlarms
  BY DEF TypeOK, Paid, Alarms
<1> QED
  BY <1>1, <1>2, FewerLost DEF LossBounded

LEMMA InputKeeps ==
    ASSUME AlarmInv, AlarmMsgInput
    PROVE  AlarmInv'
<1>1. /\ HeapConsistent' /\ InOrder'
      /\ pushed' = pushed + 1 /\ evicted' = evicted \cup Thrown
      /\ \E b \in Blocks : heap'[b] = pushed'
      /\ \A c \in Blocks : heap'[c] \in {0, pushed', heap[c]}
      /\ \A c \in Blocks : heap'[c] \notin Thrown
      /\ \A c \in Blocks : heap[c] # 0 /\ heap[c] \notin Thrown => heap'[c] = heap[c]
  BY InputIs
<1>2. TypeOK /\ TypeOK'
  BY <1>1 DEF AlarmInv, HeapConsistent
<1>3. /\ UNCHANGED <<pc, alarminfo, todo, taken, seen, unheard>>
  BY DEF AlarmMsgInput, procVars
<1>4. /\ pushed \in Nat /\ taken \in Nat /\ \A b \in Blocks : heap[b] \in Nat
      /\ \A e \in evicted : e \in Nat /\ e # 0
      /\ \A a \in Alarms : a \in Nat /\ a # 0
  BY <1>2, Typing
<1>5. /\ \A e \in evicted' : e \in Nat /\ e # 0
  BY <1>2 DEF TypeOK, Alarms
<1>6. /\ \A b \in Blocks : heap[b] <= pushed
      /\ taken <= pushed
      /\ \A e \in evicted : e <= pushed
  BY DEF AlarmInv, Numbered
<1>7. \A x \in Thrown : \E c \in Blocks : x = heap[c]
  <2>1. Full => headlist # << >>
    BY <1>2, AlarmAssumption DEF Full, AlarmInv, HeapConsistent, TypeOK
  <2>2. Full => Head(headlist) \in Blocks
    BY <2>1, AlarmsDiffer DEF AlarmInv
  <2> QED
    BY <2>2 DEF Thrown
<1>8. Numbered'
  BY <1>1, <1>3, <1>4, <1>6, <1>7 DEF Numbered
<1>9. EvictedGone'
  BY <1>1, <1>4, <1>5, <1>6 DEF AlarmInv, EvictedGone
<1>10. Busy' <=> Busy
  BY <1>3 DEF Busy
<1>11. TakenFirst'
  <2>1. \A b \in Blocks : heap'[b] # 0 => taken' <= heap'[b]
    BY <1>1, <1>3, <1>4, <1>6 DEF AlarmInv, TakenFirst
  <2>2. ~Busy' => \A b \in Blocks : heap'[b] # taken' \/ heap'[b] = 0
    BY <1>1, <1>3, <1>4, <1>6, <1>10 DEF AlarmInv, TakenFirst
  <2>3. Busy' => alarminfo' \in Blocks /\ taken' \in Alarms
    BY <1>3, <1>10 DEF AlarmInv, TakenFirst
  <2>4. Busy' => heap'[alarminfo'] = taken' \/ taken' \in evicted'
    BY <1>1, <1>3, <1>4, <1>10 DEF AlarmInv, TakenFirst
  <2> QED
    BY <2>1, <2>2, <2>3, <2>4 DEF TakenFirst
<1>12. Heard'
  BY <1>1, <1>3 DEF AlarmInv, Heard
<1>13. Lost' \ evicted' \subseteq Lost \ evicted
  <2> SUFFICES ASSUME NEW a \in Lost', a \notin evicted'
               PROVE  a \in Lost /\ a \notin evicted
    OBVIOUS
  <2>1. a \in 1 .. pushed + 1 /\ a \notin seen \cup unheard /\ \A b \in Blocks : heap'[b] # a
    BY <1>1, <1>3 DEF Lost
  <2>2. a \in 1 .. pushed
    BY <1>1, <1>4, <2>1
  <2>3. \A b \in Blocks : heap[b] # a
    BY <1>1, <2>1, <2>2
  <2> QED
    BY <1>1, <2>1, <2>2, <2>3 DEF Lost
<1>14. Paid \subseteq Paid'
  BY <1>1, <1>3, <1>10 DEF Paid
<1>15. LossBounded'
  BY <1>2, <1>13, <1>14, LossKept DEF AlarmInv
<1> QED
  BY <1>1, <1>8, <1>9, <1>11, <1>12, <1>15 DEF AlarmInv
-----------------------------------------------------------------------------
(***************************************************************************)
(* AlarmManageProc.                                                        *)
(***************************************************************************)

\* Steps that leave list and heap alone.
LEMMA HeapUnchanged ==
    ASSUME AlarmInv, TypeOK', UNCHANGED <<heapVars, pushed, evicted>>
    PROVE  HeapConsistent' /\ InOrder' /\ EvictedGone'
  BY DEF AlarmInv, HeapConsistent, InOrder, EvictedGone, heapVars

\* ... and what AlarmManageProc has taken.
LEMMA TakenUnchanged ==
    ASSUME AlarmInv, TypeOK', UNCHANGED <<heapVars, pushed, evicted, taken, alarminfo>>,
           Busy' = Busy, seen \subseteq seen', unheard \subseteq unheard', Heard'
    PROVE  AlarmInv'
<1>1. HeapConsistent' /\ InOrder' /\ EvictedGone'
  BY HeapUnchanged
<1>2. Numbered' /\ TakenFirst'
  BY DEF AlarmInv, Numbered, TakenFirst, heapVars
<1>3. Lost' \ evicted' \subseteq Lost \ evicted
  BY DEF Lost, heapVars
<1>4. Paid \subseteq Paid'
  BY DEF Paid
<1>5. LossBounded'
  BY <1>3, <1>4, LossKept DEF AlarmInv, HeapConsistent
<1> QED
  BY <1>1, <1>2, <1>5 DEF AlarmInv

LEMMA OutKeeps ==
    ASSUME AlarmInv, AlarmMsgOut
    PROVE  AlarmInv'
<1>1. TypeOK
  BY DEF AlarmInv, HeapConsistent
<1>2. /\ Head(headlist) \in Blocks /\ heap[Head(headlist)] # 0
      /\ \A b \in Blocks : heap[b] # 0 => heap[Head(headlist)] <= heap[b]
  BY AlarmsDiffer DEF AlarmInv, AlarmMsgOut
<1>3. /\ pc = "out" /\ pc' = "lock" /\ alarminfo' = Head(headlist)
      /\ taken' = heap[Head(headlist)]
      /\ UNCHANGED <<heapVars, pushed, evicted, seen, unheard>>
  BY DEF AlarmMsgOut
<1>4. taken' \in Alarms /\ taken' \in Nat /\ taken \in Nat
  BY <1>1, <1>2, <1>3, Typing DEF TypeOK
<1>5. TypeOK'
  BY <1>1, <1>2, <1>3, <1>4 DEF TypeOK, AlarmMsgOut, heapVars
<1>6. HeapConsistent' /\ InOrder' /\ EvictedGone'
  BY <1>3, <1>5, HeapUnchanged
<1>7. ~Busy /\ Busy'
  BY <1>3 DEF Busy
<1>8. taken < taken'
  BY <1>2, <1>3, <1>4, <1>7 DEF AlarmInv, TakenFirst
<1>9. Numbered' /\ TakenFirst'
  BY <1>2, <1>3, <1>4, <1>7 DEF AlarmInv, Numbered, TakenFirst, heapVars
<1>10. Heard'
  BY <1>3 DEF Heard
<1>11. Lost' \ evicted' \subseteq Lost \ evicted
  BY <1>3 DEF Lost, heapVars
<1>12. Paid \subseteq Paid'
  <2>1. \A e \in evicted : e \in Nat
    BY <1>1, Typing
  <2> QED
    BY <1>3, <1>4, <1>8, <2>1 DEF Paid
<1>13. LossBounded'
  BY <1>1, <1>5, <1>11, <1>12, LossKept DEF AlarmInv
<1> QED
  BY <1>6, <1>9, <1>10, <1>13 DEF AlarmInv

LEMMA PostKeeps ==
    ASSUME AlarmInv, PostLoopBegins \/ AlarmPushLoopDoFunc \/ PostLoopReturns
    PROVE  AlarmInv'
<1>1. TypeOK /\ TakenFirst /\ Heard
  BY DEF AlarmInv, HeapConsistent
<1>2. CASE PostLoopBegins
  <2>1. TypeOK'
    BY <1>1, <1>2 DEF PostLoopBegins, TypeOK, heapVars, TakenFirst, Busy
  <2>2. Heard'
    <3>1. CASE ToSet(alarmCB) \subseteq Deaf
      BY <1>2, <3>1 DEF PostLoopBegins, Heard
    <3>2. CASE ~(ToSet(alarmCB) \subseteq Deaf)
      BY <1>2, <3>2 DEF PostLoopBegins, Heard, ToSet
    <3> QED
      BY <3>1, <3>2
  <2> QED
    BY <1>2, <2>1, <2>2, TakenUnchanged DEF PostLoopBegins, Busy
<1>3. CASE AlarmPushLoopDoFunc
  <2>1. /\ pc = "post" /\ todo # << >> /\ todo' = Tail(todo)
        /\ todo \in Seq(Handles) /\ taken \in Alarms /\ alarminfo \in Blocks
        /\ heap[alarminfo] = taken \/ taken \in evicted
        /\ UNCHANGED <<heapVars, pc, alarminfo, pushed, taken, evicted, unheard>>
    BY <1>1, <1>3 DEF AlarmPushLoopDoFunc, TypeOK, TakenFirst, Busy
  <2>2. /\ Tail(todo) \in Seq(Handles) /\ Len(Tail(todo)) = Len(todo) - 1
        /\ \A k \in 1 .. Len(Tail(todo)) : Tail(todo)[k] = todo[k + 1]
        /\ Len(todo) \in Nat /\ Head(todo) = todo[1]
    BY <2>1, HeadTailProperties
  <2>3. seen' \subseteq Alarms /\ seen \subseteq seen'
    BY <1>1, <1>3, <2>1 DEF AlarmPushLoopDoFunc, TypeOK
  <2>4. TypeOK'
    BY <1>1, <1>3, <2>1, <2>2, <2>3 DEF AlarmPushLoopDoFunc, TypeOK, heapVars
  <2>5. Heard'
    <3>1. CASE taken \in evicted \cup seen \cup unheard
      BY <2>1, <2>3, <3>1 DEF Heard
    <3>2. CASE taken \notin evicted \cup seen \cup unheard /\ Head(todo) \notin Deaf
      <4>1. heap[alarminfo] = taken /\ taken # 0
        BY <1>1, <2>1, <3>2, Typing
      <4>2. taken \in seen'
        BY <1>3, <3>2, <4>1 DEF AlarmPushLoopDoFunc
      <4> QED
        BY <2>1, <4>2 DEF Heard
    <3>3. CASE taken \notin evicted \cup seen \cup unheard /\ Head(todo) \in Deaf
      <4>1. PICK k \in 1 .. Len(todo) : todo[k] \notin Deaf
        BY <1>1, <2>1, <3>3 DEF Heard
      <4>2. k - 1 \in 1 .. Len(Tail(todo)) /\ Tail(todo)[k - 1] = todo[k]
        BY <2>2, <3>3, <4>1
      <4>3. DOMAIN Tail(todo) = 1 .. Len(Tail(todo))
        BY <2>2
      <4> QED
        BY <2>1, <4>1, <4>2, <4>3 DEF Heard
    <3> QED
      BY <3>1, <3>2, <3>3
  <2> QED
    BY <2>1, <2>3, <2>4, <2>5, TakenUnchanged DEF Busy
<1>4. CASE PostLoopReturns
  <2>1. TypeOK'
    BY <1>1, <1>4 DEF PostLoopReturns, TypeOK, heapVars
  <2>2. Heard'
    BY <1>1, <1>4 DEF PostLoopReturns, Heard
  <2> QED
    BY <1>4, <2>1, <2>2, TakenUnchanged DEF PostLoopReturns, Busy
<1> QED
  BY <1>2, <1>3, <1>4

(***************************************************************************)
(* AlarmMsgDel.  The alarm it removes is the one that was taken, which has *)
(* been shown, or another one in its block, after the one that was taken   *)
(* was thrown away.                                                        *)
(***************************************************************************)
LEMMA DelKeeps ==
    ASSUME AlarmInv, AlarmMsgDel
    PROVE  AlarmInv'
<1>1. TypeOK /\ TakenFirst /\ Heard /\ Numbered /\ EvictedGone
  BY DEF AlarmInv, HeapConsistent
<1>2. /\ pc = "del" /\ pc' = "out" /\ alarminfo' = NULL
      /\ UNCHANGED <<pushed, taken, evicted, seen, unheard>>
  BY DEF AlarmMsgDel
<1>3. /\ Busy /\ ~Busy' /\ alarminfo \in Blocks /\ taken \in Alarms
      /\ heap[alarminfo] = taken \/ taken \in evicted
  BY <1>1, <1>2 DEF Busy, TakenFirst
<1>4. /\ taken \in Nat /\ pushed \in Nat /\ \A b \in Blocks : heap[b] \in Nat
      /\ \A e \in evicted : e \in Nat /\ e # 0
      /\ taken # 0
  BY <1>1, <1>3, Typing
<1>5. /\ TypeOK' /\ HeapConsistent' /\ InOrder'
      /\ \A b \in Blocks : heap'[b] = IF b = alarminfo THEN 0 ELSE heap[b]
  <2>1. CASE alarminfo \in ToSet(headlist)
    <3>1. /\ Listed(heap, headlist) /\ Ordered(heap, headlist) /\ msgnum = Len(headlist)
          /\ heap \in [Blocks -> Alarms \cup {0}] /\ headlist \in Seq(Blocks)
      BY ListAndHeap DEF AlarmInv, TypeOK
    <3>2. PICK k \in 1 .. Len(headlist) :
              headlist[k] = alarminfo /\ RemoveFirst(headlist, alarminfo) = RemoveAt(headlist, k)
      BY <2>1, <3>1, RemoveFirstIs
    <3>3. /\ headlist' = RemoveAt(headlist, k) /\ heap' = [heap EXCEPT ![headlist[k]] = 0]
          /\ msgnum' = msgnum - 1
      BY <2>1, <3>2 DEF AlarmMsgDel
    <3>4. Listed(heap', headlist') /\ Ordered(heap', headlist')
      BY <3>1, <3>3, RemoveKeeps
    <3>5. headlist' \in Seq(Blocks) /\ Len(headlist') = Len(headlist) - 1
      BY <3>1, <3>3, RemoveAtIs
    <3>6. heap' \in [Blocks -> Alarms \cup {0}]
      BY <3>1, <3>3
    <3>7. msgnum' \in 0 .. MAX_PUSHMSG_NUM + 1
      <4>1. msgnum \in 0 .. MAX_PUSHMSG_NUM + 1 /\ MAX_PUSHMSG_NUM \in Nat
        BY <1>1, AlarmAssumption DEF TypeOK
      <4>2. Len(headlist) >= 1
        BY <3>1, <3>2
      <4> QED
        BY <3>1, <3>3, <4>1, <4>2
    <3>8. TypeOK'
      BY <1>1, <1>2, <3>5, <3>6, <3>7 DEF TypeOK, AlarmMsgDel
    <3>9. HeapConsistent' /\ InOrder'
      BY <3>1, <3>3, <3>4, <3>5, <3>8 DEF HeapConsistent, InOrder, Listed, Ordered
    <3>10. \A b \in Blocks : heap'[b] = IF b = alarminfo THEN 0 ELSE heap[b]
      BY <1>3, <3>1, <3>2, <3>3
    <3> QED
      BY <3>8, <3>9, <3>10
  <2>2. CASE alarminfo \notin ToSet(headlist)
    <3>1. UNCHANGED heapVars
      BY <2>2 DEF AlarmMsgDel
    <3>2. heap[alarminfo] = 0
      BY <1>3, <2>2 DEF AlarmInv, HeapConsistent
    <3>3. TypeOK'
      BY <1>1, <1>2, <3>1 DEF TypeOK, AlarmMsgDel, heapVars
    <3>4. HeapConsistent' /\ InOrder'
      BY <1>2, <3>1, <3>3, HeapUnchanged
    <3> QED
      BY <3>1, <3>2, <3>3, <3>4 DEF heapVars
  <2> QED
    BY <2>1, <2>2
<1>6. \A b, c \in Blocks : heap[b] = heap[c] /\ heap[b] # 0 => b = c
  BY AlarmsDiffer DEF AlarmInv
<1>7. EvictedGone'
  BY <1>1, <1>2, <1>4, <1>5 DEF EvictedGone
<1>8. Numbered'
  BY <1>1, <1>2, <1>4, <1>5 DEF Numbered
<1>9. \A b \in Blocks : heap'[b] # taken \/ heap'[b] = 0
  BY <1>1, <1>3, <1>5, <1>6 DEF EvictedGone
<1>10. TakenFirst'
  BY <1>1, <1>2, <1>3, <1>5, <1>9 DEF TakenFirst
<1>11. Heard'
  BY <1>2 DEF Heard
<1>12. LossBounded'
  <2>1. CASE heap[alarminfo] = taken
    <3>1. taken \in evicted \cup seen \cup unheard
      BY <1>1, <1>2 DEF Heard
    <3>2. Lost' \ evicted' \subseteq Lost \ evicted
      BY <1>2, <1>5, <2>1, <3>1 DEF Lost
    <3>3. Paid \subseteq Paid'
      BY <1>2, <1>3 DEF Paid
    <3> QED
      BY <1>1, <1>5, <3>2, <3>3, LossKept DEF AlarmInv
  <2>2. CASE heap[alarminfo] # taken
    <3>1. taken \in evicted
      BY <1>3, <2>2
    <3>2. Lost' \ evicted' \subseteq (Lost \ evicted) \cup {heap[alarminfo]}
      BY <1>2, <1>5 DEF Lost
    <3>3. taken \notin Paid /\ Paid \cup {taken} \subseteq Paid'
      BY <1>2, <1>3, <1>4, <3>1 DEF Paid
    <3>4. MaxAlarms \in Nat /\ Lost \ evicted \subseteq 1 .. MaxAlarms
      BY <1>1, Typing
    <3>5. Paid' \subseteq 1 .. MaxAlarms
      BY <1>5 DEF TypeOK, Paid, Alarms
    <3>6. Cardinality(Lost \ evicted) <= Cardinality(Paid)
      BY DEF AlarmInv, LossBounded
    <3>7. Cardinality(Lost' \ evicted') <= Cardinality(Paid')
      <4> DEFINE A == Lost' \ evicted'
                 B == Lost \ evicted
                 x == heap[alarminfo]
      <4>1. A \subseteq B \cup {x} /\ B \subseteq 1 .. MaxAlarms /\ Cardinality(B) <= Cardinality(Paid)
        BY <3>2, <3>4, <3>6
      <4> HIDE DEF A, B, x
      <4>2. Cardinality(A) <= Cardinality(Paid')
        BY <3>3, <3>4, <3>5, <4>1, OneMoreLost, Zenon
      <4> QED
        BY <4>2 DEF A
    <3> QED
      BY <3>7 DEF LossBounded
  <2> QED
    BY <2>1, <2>2
<1> QED
  BY <1>5, <1>7, <1>8, <1>10, <1>11, <1>12 DEF AlarmInv
-----------------------------------------------------------------------------
(***************************************************************************)
(* Registration, and start and end of the thread.                          *)
(***************************************************************************)

\* A list from which a handle is removed.
LEMMA RemoveFirstType ==
    ASSUME NEW S, NEW l \in Seq(S), NEW e
    PROVE  RemoveFirst(l, e) \in Seq(S)
<1>1. CASE e \in ToSet(l)
  <2>1. PICK k \in 1 .. Len(l) : RemoveFirst(l, e) = RemoveAt(l, k)
    BY <1>1, RemoveFirstIs
  <2> QED
    BY <2>1, RemoveAtIs
<1>2. CASE e \notin ToSet(l)
  BY <1>2, RemoveFirstNone
<1> QED
  BY <1>1, <1>2

LEMMA RegistrationKeeps ==
    ASSUME AlarmInv, NEW h \in Handles,
           \/ AlarmRegistHandle(h) \/ AlarmUnRegistHandle(h)
           \/ AlarmInit(h) \/ AlarmUnInit(h) \/ ProcExits
    PROVE  AlarmInv'
<1>1. TypeOK /\ Heard
  BY DEF AlarmInv, HeapConsistent
<1>2. RemoveFirst(alarmCB, h) \in Seq(Handles) /\ Append(alarmCB, h) \in Seq(Handles)
  BY <1>1, RemoveFirstType DEF TypeOK
<1>3. /\ UNCHANGED <<heapVars, pushed, evicted, taken, alarminfo, todo, seen, unheard>>
      /\ \/ UNCHANGED pc
         \/ pc \in {"none", "out"} /\ pc' \in {"none", "out"}
      /\ alarmCB' \in {alarmCB, Append(alarmCB, h), RemoveFirst(alarmCB, h)}
      /\ pPushAlarm' \in {pPushAlarm, pPushAlarm \cup {h}, pPushAlarm \ {h}}
      /\ g_innerExit' \in BOOLEAN
  BY <1>1 DEF AlarmRegistHandle, AlarmUnRegistHandle, AlarmInit, AlarmUnInit, ProcExits,
              Registered, Unregistered, TypeOK, procVars
<1>4. TypeOK'
  BY <1>1, <1>2, <1>3 DEF TypeOK, heapVars
<1>5. Heard'
  BY <1>1, <1>3 DEF Heard
<1>6. Busy' = Busy
  BY <1>3 DEF Busy
<1> QED
  BY <1>3, <1>4, <1>5, <1>6, TakenUnchanged
-----------------------------------------------------------------------------
LEMMA AlarmInvInit == Init => AlarmInv
<1> SUFFICES ASSUME Init
             PROVE  AlarmInv
  OBVIOUS
<1>1. MaxAlarms \in Nat /\ MAX_PUSHMSG_NUM \in Nat
  BY AlarmAssumption
<1>2. /\ heap = [b \in Blocks |-> 0] /\ headlist = << >> /\ msgnum = 0 /\ pc = "none"
      /\ pushed = 0 /\ taken = 0 /\ evicted = {} /\ todo = << >>
  BY DEF Init
<1>3. TypeOK
  <2>1. /\ heap \in [Blocks -> Alarms \cup {0}] /\ headlist \in Seq(Blocks)
        /\ msgnum \in 0 .. MAX_PUSHMSG_NUM + 1 /\ pushed \in 0 .. MaxAlarms
    BY <1>1, <1>2
  <2>2. alarmCB \in Seq(Handles) /\ todo \in Seq(Handles)
    BY DEF Init
  <2> QED
    BY <2>1, <2>2 DEF Init, TypeOK
<1>4. HeapConsistent /\ InOrder
  BY <1>2, <1>3 DEF HeapConsistent, InOrder, ToSet, IsInjective
<1>5. Numbered /\ EvictedGone /\ TakenFirst /\ Heard
  BY <1>2 DEF Numbered, EvictedGone, TakenFirst, Heard, Busy
<1>6. Lost \ evicted = {} /\ Paid = {}
  BY <1>2 DEF Lost, Paid
<1>7. LossBounded
  BY <1>6, FS_EmptySet DEF LossBounded
<1> QED
  BY <1>4, <1>5, <1>7 DEF AlarmInv

LEMMA AlarmInvStep == AlarmInv /\ [Next]_vars => AlarmInv'
<1> SUFFICES ASSUME AlarmInv, [Next]_vars
             PROVE  AlarmInv'
  OBVIOUS
<1>1. CASE AlarmMsgInput
  BY <1>1, InputKeeps
<1>2. CASE AlarmMsgOut
  BY <1>2, OutKeeps
<1>3. CASE PostLoopBegins \/ AlarmPushLoopDoFunc \/ PostLoopReturns
  BY <1>3, PostKeeps
<1>4. CASE AlarmMsgDel
  BY <1>4, DelKeeps
<1>5. CASE ProcExits
  <2>1. TypeOK /\ TypeOK'
    BY <1>5 DEF AlarmInv, HeapConsistent, ProcExits, TypeOK, heapVars
  <2>2. Heard' /\ Busy' = Busy
    BY <1>5 DEF ProcExits, Heard, Busy
  <2> QED
    BY <1>5, <2>1, <2>2, TakenUnchanged DEF ProcExits
<1>6. CASE \E h \in Handles : \/ AlarmRegistHandle(h) \/ AlarmUnRegistHandle(h)
                              \/ AlarmInit(h) \/ AlarmUnInit(h)
  BY <1>6, RegistrationKeeps
<1>7. CASE UNCHANGED vars
  <2>1. TypeOK'
    BY <1>7 DEF vars, AlarmInv, HeapConsistent, TypeOK
  <2>2. Heard' /\ Busy' = Busy
    BY <1>7 DEF vars, AlarmInv, Heard, Busy
  <2> QED
    BY <1>7, <2>1, <2>2, TakenUnchanged DEF vars, heapVars
<1> QED
  BY <1>1, <1>2, <1>3, <1>4, <1>5, <1>6, <1>7 DEF Next, Proc

(***************************************************************************)
(* List, heap and the pointer of AlarmManageProc stay together whatever    *)
(* AlarmMsgInput, AlarmMsgOut and AlarmMsgDel do between each other's      *)
(* steps.                                                                  *)
(***************************************************************************)
THEOREM AlarmInvHolds == Spec => []AlarmInv
  BY AlarmInvInit, AlarmInvStep, PTL DEF Spec

(***************************************************************************)
(* No block is freed while it is in the list, none is left behind, and     *)
(* msgnum counts the list (AlarmMsgInput, AlarmMsgDel).                    *)
(***************************************************************************)
THEOREM HeapConsistentHolds == Spec => []HeapConsistent
<1>1. AlarmInv => HeapConsistent
  BY DEF AlarmInv
<1> QED
  BY <1>1, AlarmInvHolds, PTL

\* Alarms wait in the order in which AlarmMsgInput got them.
THEOREM InOrderHolds == Spec => []InOrder
<1>1. AlarmInv => InOrder
  BY DEF AlarmInv
<1> QED
  BY <1>1, AlarmInvHolds, PTL

(***************************************************************************)
(* AlarmManageProc works on the alarm it took unless AlarmMsgInput threw   *)
(* it away, and each alarm thrown away costs at most one other.            *)
(***************************************************************************)
THEOREM OnlyEvictionDisturbsHolds == Spec => []OnlyEvictionDisturbs
<1>1. AlarmInv => OnlyEvictionDisturbs
  <2> SUFFICES ASSUME AlarmInv
               PROVE  OnlyEvictionDisturbs
    OBVIOUS
  <2>1. pc \in {"lock", "post", "del"} => heap[alarminfo] = taken \/ taken \in evicted
    BY DEF AlarmInv, TakenFirst, Busy
  <2>2. MaxAlarms \in Nat /\ evicted \subseteq 1 .. MaxAlarms /\ Lost \subseteq 1 .. MaxAlarms
    BY Typing DEF AlarmInv, HeapConsistent
  <2>3. Paid \subseteq evicted /\ Lost \ evicted \subseteq 1 .. MaxAlarms
    BY <2>2 DEF Paid
  <2>4. Cardinality(Lost \ evicted) <= Cardinality(evicted)
    BY <2>2, <2>3, FewerLost DEF AlarmInv, LossBounded
  <2> QED
    BY <2>1, <2>4 DEF OnlyEvictionDisturbs
<1> QED
  BY <1>1, AlarmInvHolds, PTL
=============================================================================
