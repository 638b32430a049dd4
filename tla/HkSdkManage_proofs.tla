-------------------------- MODULE HkSdkManage_proofs --------------------------
(***************************************************************************)
(* Modules/HkSdkManage and the configuration that it keeps.  First the     *)
(* configuration: its invariant, that it is a ConfStore, and what the      *)
(* calls of DvrListConf make of it, for all items, threads, DVRs and       *)
(* levels.  Then the rows of the frame cache and the frames taken out of   *)
(* them, for every number of handles and places.                           *)
(***************************************************************************)
EXTENDS DvrListConf, FrameCache, FiniteSetTheorems, SequenceTheorems, TLAPS

LEMMA EmptyIsDoc == Empty \in Docs
  BY DEF Empty, Docs

LEMMA ItemSet ==
  ASSUME NEW doc \in Docs, NEW k \in Keys, NEW v \in Values
  PROVE  [doc EXCEPT ![k] = v] \in Docs
  BY DEF Docs

\* The invariant holds at the start.
LEMMA ConfInitInv == ConfInit => ConfInv
  BY ConfAssumption DEF ConfInit, ConfInv, ConfTypeOK

\* Each step of the configuration keeps the invariant.
LEMMA ConfStepInv == ConfInv /\ [ConfNext]_confVars => ConfInv'
<1> SUFFICES ASSUME ConfInv, [ConfNext]_confVars
             PROVE  ConfInv'
  OBVIOUS
<1> USE ConfAssumption, EmptyIsDoc DEF ConfInv, ConfTypeOK
<1>1. ASSUME NEW t \in Threads, NEW k \in Keys, NEW v \in Values, SetBegins(t, k, v)
      PROVE  ConfInv'
  BY <1>1, ItemSet DEF SetBegins, MayLock
<1>2. ASSUME NEW t \in Threads, SetEnds(t)
      PROVE  ConfInv'
  BY <1>2 DEF SetEnds
<1>3. CASE Dies
  BY <1>3 DEF Dies
<1>4. CASE OpenFails
  BY <1>3, <1>4 DEF OpenFails
<1>5. CASE ConfigManageInit
  BY <1>5 DEF ConfigManageInit
<1>6. CASE UNCHANGED confVars
  BY <1>6 DEF confVars
<1> QED
  BY <1>1, <1>2, <1>3, <1>4, <1>5, <1>6 DEF ConfNext

(***************************************************************************)
(* For any items, values and threads: while the file is whole, memory and  *)
(* file agree, and a thread that writes is alone with a broken file.       *)
(***************************************************************************)
THEOREM ConfSafe == ConfSpec => []ConfInv
  BY ConfInitInv, ConfStepInv, PTL DEF ConfSpec

\* The first state of the configuration is one of the store.
LEMMA StoreInit == ConfInit => Store!Init
  BY ConfAssumption DEF ConfInit, Store!Init

(***************************************************************************)
(* What a step of the configuration is in the store: emptying the file is  *)
(* the change of the item, the end of a good write makes the items safe,   *)
(* the end of a bad one is no step at all.                                 *)
(***************************************************************************)
LEMMA StoreStep == ConfInv /\ [ConfNext]_confVars => [Store!Next]_(Store!vars)
<1> SUFFICES ASSUME ConfInv, [ConfNext]_confVars
             PROVE  [Store!Next]_(Store!vars)
  OBVIOUS
<1> USE ConfAssumption, EmptyIsDoc DEF ConfInv, ConfTypeOK, Store!vars
<1>1. ASSUME NEW t \in Threads, NEW k \in Keys, NEW v \in Values, SetBegins(t, k, v)
      PROVE  Store!Next
  <2>1. Store!Set(k, v)
    BY <1>1 DEF SetBegins, MayLock, Store!Set
  <2> QED
    BY <2>1 DEF Store!Next
<1>2. ASSUME NEW t \in Threads, SetEnds(t)
      PROVE  [Store!Next]_(Store!vars)
  <2>1. CASE file' = root
    <3>1. Store!Settle
      BY <1>2, <2>1 DEF SetEnds, Store!Settle
    <3> QED
      BY <3>1 DEF Store!Next
  <2>2. CASE file' = Broken
    BY <1>2, <2>2 DEF SetEnds
  <2> QED
    BY <1>2, <2>1, <2>2 DEF SetEnds
<1>3. ASSUME Dies
      PROVE  Store!Next
  <2>1. Store!Die
    BY <1>3 DEF Dies, Store!Die, Empty, Store!Empty
  <2> QED
    BY <2>1 DEF Store!Next
<1>4. ASSUME OpenFails
      PROVE  Store!Next
  BY <1>3, <1>4 DEF OpenFails
<1>5. ASSUME ConfigManageInit
      PROVE  Store!Next
  <2>1. Store!Start
    BY <1>5 DEF ConfigManageInit, Store!Start
  <2> QED
    BY <2>1 DEF Store!Next
<1>6. CASE UNCHANGED confVars
  BY <1>6 DEF confVars
<1> QED
  BY <1>1, <1>2, <1>3, <1>4, <1>5, <1>6 DEF ConfNext

(***************************************************************************)
(* For any items, values and threads the configuration is a ConfStore: a   *)
(* start finds the last items or none, and none only after a write that    *)
(* did not end well.                                                       *)
(***************************************************************************)
THEOREM ConfRefines == ConfSpec => IsConfStore
<1>1. ConfInv /\ [ConfNext]_confVars => [Store!Next]_(Store!vars)
  BY StoreStep
<1> QED
  BY ConfSafe, StoreInit, <1>1, PTL DEF ConfSpec, IsConfStore, Store!Spec
-----------------------------------------------------------------------------
(***************************************************************************)
(* Lists in which no DVR is twice.                                         *)
(***************************************************************************)
GoodList(l) ==
    /\ l \in Seq(Entries)
    /\ \A m, n \in DOMAIN l : l[m].serial = l[n].serial => m = n

\* A sequence without its k-th element.
LEMMA RemoveAtIs ==
    ASSUME NEW S, NEW l \in Seq(S), NEW k \in 1 .. Len(l)
    PROVE  /\ RemoveAt(l, k) \in Seq(S)
           /\ Len(RemoveAt(l, k)) = Len(l) - 1
           /\ \A j \in 1 .. Len(l) - 1 :
                  RemoveAt(l, k)[j] = IF j < k THEN l[j] ELSE l[j + 1]
<1> DEFINE a == SubSeq(l, 1, k - 1)
           b == SubSeq(l, k + 1, Len(l))
<1>1. \A j \in 1 .. Len(l) : l[j] \in S
  OBVIOUS
<1>2. Len(l) \in Nat /\ k \in Nat /\ 1 <= k /\ k <= Len(l)
  OBVIOUS
<1>3. a \in Seq(S) /\ Len(a) = k - 1 /\ \A j \in 1 .. k - 1 : a[j] = l[j]
  BY <1>1, <1>2, SubSeqProperties
<1>4. b \in Seq(S) /\ Len(b) = Len(l) - k /\ \A j \in 1 .. Len(l) - k : b[j] = l[k + j]
  BY <1>1, <1>2, SubSeqProperties
<1>5. RemoveAt(l, k) = a \o b
  BY DEF RemoveAt
<1> HIDE DEF a, b
<1>6. /\ a \o b \in Seq(S)
      /\ Len(a \o b) = Len(l) - 1
      /\ \A j \in 1 .. Len(l) - 1 : (a \o b)[j] = IF j < k THEN a[j] ELSE b[j - (k - 1)]
  <2>1. /\ a \o b \in Seq(S) /\ Len(a \o b) = Len(a) + Len(b)
        /\ \A j \in 1 .. Len(a) + Len(b) : (a \o b)[j] = IF j <= Len(a) THEN a[j] ELSE b[j - Len(a)]
    BY <1>3, <1>4, ConcatProperties
  <2>2. Len(a) + Len(b) = Len(l) - 1
    BY <1>2, <1>3, <1>4
  <2>3. \A j \in 1 .. Len(l) - 1 : j <= Len(a) <=> j < k
    BY <1>2, <1>3
  <2> QED
    BY <1>3, <2>1, <2>2, <2>3
<1>7. \A j \in 1 .. Len(l) - 1 : (a \o b)[j] = IF j < k THEN l[j] ELSE l[j + 1]
  <2> TAKE j \in 1 .. Len(l) - 1
  <2>1. CASE j < k
    BY <1>2, <1>3, <1>6, <2>1
  <2>2. CASE ~(j < k)
    <3>1. j - (k - 1) \in 1 .. Len(l) - k /\ k + (j - (k - 1)) = j + 1
      BY <1>2, <2>2
    <3> QED
      BY <1>2, <1>4, <1>6, <2>2, <3>1
  <2> QED
    BY <2>1, <2>2
<1> QED
  BY <1>5, <1>6, <1>7

LEMMA KeyFacts ==
    /\ D_CONFDVRLIST_STR \in Keys /\ D_CONFDEVVICEALARMLEAVE_STR \in Keys
    /\ D_CONFDVRLIST_STR # D_CONFDEVVICEALARMLEAVE_STR
    /\ DvrItems = {D_CONFDVRLIST_STR, D_CONFDEVVICEALARMLEAVE_STR}
  BY DvrAssumption DEF DvrItems, D_CONFDVRLIST_STR, D_CONFDEVVICEALARMLEAVE_STR

LEMMA ConstFacts ==
    /\ HomeDvr \in Dvrs /\ HomeParam \in Params /\ NoItem \notin Params
    /\ FirstLevel \in Levels /\ Levels \subseteq Values /\ NoItem \notin Values
    /\ Main \in Threads /\ NoThread \notin Threads /\ Broken \notin Docs
    /\ D_CONFDEVVICEALARMLEAVE_STR \notin Dvrs
    /\ FirstDoc \in Docs /\ FirstDoc[D_CONFDEVVICEALARMLEAVE_STR] = NoItem
  BY DvrAssumption, ConfAssumption DEF NoParam

LEMMA FirstGood == GoodList(FirstDoc[D_CONFDVRLIST_STR])
  BY DvrAssumption DEF GoodList

LEMMA GoodSize ==
    ASSUME NEW l, GoodList(l)
    PROVE  /\ Len(l) \in Nat /\ Cardinality(Serials(l)) = Len(l)
           /\ Len(l) <= Cardinality(Dvrs) /\ Cardinality(Dvrs) \in Nat
<1>1. l \in Seq(Entries) /\ Len(l) \in Nat /\ DOMAIN l = 1 .. Len(l)
  BY DEF GoodList
<1>2. Serials(l) \in SUBSET Dvrs
  <2>1. \A n \in DOMAIN l : l[n] \in Entries
    BY <1>1
  <2>2. \A n \in DOMAIN l : l[n].serial \in Dvrs
    BY <2>1 DEF Entries
  <2> QED
    BY <2>2 DEF Serials
<1> DEFINE f == [n \in 1 .. Len(l) |-> l[n].serial]
<1>3. f \in Bijection(1 .. Len(l), Serials(l))
  <2>1. f \in [1 .. Len(l) -> Serials(l)]
    BY <1>1 DEF Serials
  <2>2. \A a, b \in 1 .. Len(l) : f[a] = f[b] => a = b
    BY <1>1 DEF GoodList
  <2>3. \A x \in Serials(l) : \E a \in 1 .. Len(l) : f[a] = x
    BY <1>1 DEF Serials
  <2> QED
    BY <2>1, <2>2, <2>3 DEF Bijection, Injection, Surjection, IsInjective
<1>4. ExistsBijection(1 .. Len(l), Serials(l))
  BY <1>3 DEF ExistsBijection
<1>5. Cardinality(Serials(l)) = Len(l)
  BY <1>1, <1>4, FS_CountingElements
<1>6. IsFiniteSet(Dvrs)
  BY DvrAssumption
<1>7. Cardinality(Serials(l)) <= Cardinality(Dvrs) /\ Cardinality(Dvrs) \in Nat
  BY <1>2, <1>6, FS_Subset, FS_CardinalityType
<1> QED
  BY <1>1, <1>5, <1>7

LEMMA GoodValue ==
    ASSUME NEW l, GoodList(l)
    PROVE  l \in Values /\ l # NoItem
<1>1. Len(l) \in 0 .. Cardinality(Dvrs)
  BY GoodSize
<1>2. [1 .. Len(l) -> Entries] \subseteq Values
  BY <1>1, DvrAssumption
<1>3. l \in [1 .. Len(l) -> Entries]
  BY DEF GoodList
<1> QED
  BY <1>2, <1>3, ConstFacts

LEMMA IndexIs ==
    ASSUME NEW l, GoodList(l), NEW d \in Serials(l)
    PROVE  Index(l, d) \in DOMAIN l /\ l[Index(l, d)].serial = d
  BY DEF Index, Serials

LEMMA ToldIs ==
    ASSUME NEW l, GoodList(l), NEW s
    PROVE  Told(D_CONFDVRLIST_STR, l, s) <=>
               \A d \in Dvrs : /\ \A n \in DOMAIN l : l[n].serial = d => s[d] = l[n].param
                               /\ (\A n \in DOMAIN l : l[n].serial # d) => s[d] = NoItem
<1>1. l # NoItem
  BY GoodValue
<1>2. Told(D_CONFDVRLIST_STR, l, s) <=>
          \A d \in Dvrs : s[d] = IF d \in Serials(l) THEN l[Index(l, d)].param ELSE NoItem
  BY <1>1 DEF Told, NoParam
<1>3. ASSUME NEW d \in Dvrs
      PROVE  (s[d] = IF d \in Serials(l) THEN l[Index(l, d)].param ELSE NoItem) <=>
                 /\ \A n \in DOMAIN l : l[n].serial = d => s[d] = l[n].param
                 /\ (\A n \in DOMAIN l : l[n].serial # d) => s[d] = NoItem
  <2>1. CASE d \in Serials(l)
    <3>1. Index(l, d) \in DOMAIN l /\ l[Index(l, d)].serial = d
      BY <2>1, IndexIs
    <3>2. \A n \in DOMAIN l : l[n].serial = d => n = Index(l, d)
      BY <3>1 DEF GoodList
    <3> QED
      BY <2>1, <3>1, <3>2
  <2>2. CASE d \notin Serials(l)
    <3>1. \A n \in DOMAIN l : l[n].serial # d
      BY <2>2 DEF Serials
    <3> QED
      BY <2>2, <3>1
  <2> QED
    BY <2>1, <2>2
<1> QED
  BY <1>2, <1>3

\* What a call says replaces what was said of the same DVR.
LEMMA UpdatedIs ==
    ASSUME NEW s, NEW X, NEW v, DOMAIN s = Topics, X \in Topics
    PROVE  /\ DOMAIN Updated(s, Say(X, v)) = Topics
           /\ Updated(s, Say(X, v))[X] = v
           /\ \A y \in Topics \ {X} : Updated(s, Say(X, v))[y] = s[y]
           /\ DOMAIN Updated(s, Nothing) = Topics
           /\ \A y \in Topics : Updated(s, Nothing)[y] = s[y]
  BY DEF Updated, Say, Nothing

\* The three changes of a list: the entry of d is replaced, appended, removed.
LEMMA Replaced ==
    ASSUME NEW l, GoodList(l), NEW d \in Dvrs, d \in Serials(l), NEW p \in Params,
           NEW s, DOMAIN s = Topics
    PROVE  LET r == ReplaceAt(l, Index(l, d), [serial |-> d, param |-> p])
           IN  /\ GoodList(r)
               /\ Told(D_CONFDVRLIST_STR, l, s) => Told(D_CONFDVRLIST_STR, r, Updated(s, Say(d, p)))
<1> DEFINE k == Index(l, d)
           e == [serial |-> d, param |-> p]
           r == ReplaceAt(l, k, e)
           u == Updated(s, Say(d, p))
<1>1. k \in DOMAIN l /\ l[k].serial = d
  BY IndexIs
<1>2. e \in Entries /\ e.serial = d /\ e.param = p
  BY DEF Entries
<1> HIDE DEF k, e
<1>3. /\ r \in Seq(Entries) /\ DOMAIN r = DOMAIN l /\ r[k] = e
      /\ \A n \in DOMAIN l \ {k} : r[n] = l[n]
  BY <1>1, <1>2 DEF ReplaceAt, GoodList
<1> HIDE DEF r
<1>4. GoodList(r)
  <2>1. \A n \in DOMAIN l : r[n].serial = l[n].serial
    BY <1>1, <1>2, <1>3
  <2> QED
    BY <1>3, <2>1 DEF GoodList
<1>5. u[d] = p /\ \A y \in Dvrs \ {d} : u[y] = s[y]
  BY UpdatedIs DEF Topics
<1> HIDE DEF u
<1>6. ASSUME Told(D_CONFDVRLIST_STR, l, s) PROVE Told(D_CONFDVRLIST_STR, r, u)
  <2>1. \A x \in Dvrs : /\ \A n \in DOMAIN l : l[n].serial = x => s[x] = l[n].param
                        /\ (\A n \in DOMAIN l : l[n].serial # x) => s[x] = NoItem
    BY <1>6, ToldIs
  <2>2. ASSUME NEW x \in Dvrs
        PROVE  /\ \A n \in DOMAIN r : r[n].serial = x => u[x] = r[n].param
               /\ (\A n \in DOMAIN r : r[n].serial # x) => u[x] = NoItem
    <3>1. CASE x = d
      <4>1. \A n \in DOMAIN r : r[n].serial = d => n = k
        BY <1>1, <1>2, <1>3, <1>4 DEF GoodList
      <4> QED
        BY <1>1, <1>2, <1>3, <1>5, <3>1, <4>1
    <3>2. CASE x # d
      BY <1>1, <1>2, <1>3, <1>5, <2>1, <3>2
    <3> QED
      BY <3>1, <3>2
  <2> QED
    BY <1>4, <2>2, ToldIs
<1> QED
  BY <1>4, <1>6 DEF r, k, e, u

LEMMA Appended ==
    ASSUME NEW l, GoodList(l), NEW d \in Dvrs, d \notin Serials(l), NEW p \in Params,
           NEW s, DOMAIN s = Topics
    PROVE  LET r == Append(l, [serial |-> d, param |-> p])
           IN  /\ GoodList(r)
               /\ Told(D_CONFDVRLIST_STR, l, s) => Told(D_CONFDVRLIST_STR, r, Updated(s, Say(d, p)))
<1> DEFINE e == [serial |-> d, param |-> p]
           r == Append(l, e)
           u == Updated(s, Say(d, p))
           k == Len(l) + 1
<1>1. \A n \in DOMAIN l : l[n].serial # d
  BY DEF Serials
<1>2. e \in Entries /\ e.serial = d /\ e.param = p
  BY DEF Entries
<1> HIDE DEF e
<1>3. /\ r \in Seq(Entries) /\ DOMAIN r = DOMAIN l \cup {k} /\ r[k] = e /\ k \notin DOMAIN l
      /\ \A n \in DOMAIN l : r[n] = l[n]
  BY <1>2 DEF GoodList
<1> HIDE DEF r, k
<1>4. GoodList(r)
  BY <1>1, <1>2, <1>3 DEF GoodList
<1>5. u[d] = p /\ \A y \in Dvrs \ {d} : u[y] = s[y]
  BY UpdatedIs DEF Topics
<1> HIDE DEF u
<1>6. ASSUME Told(D_CONFDVRLIST_STR, l, s) PROVE Told(D_CONFDVRLIST_STR, r, u)
  <2>1. \A x \in Dvrs : /\ \A n \in DOMAIN l : l[n].serial = x => s[x] = l[n].param
                        /\ (\A n \in DOMAIN l : l[n].serial # x) => s[x] = NoItem
    BY <1>6, ToldIs
  <2>2. ASSUME NEW x \in Dvrs
        PROVE  /\ \A n \in DOMAIN r : r[n].serial = x => u[x] = r[n].param
               /\ (\A n \in DOMAIN r : r[n].serial # x) => u[x] = NoItem
    <3>1. CASE x = d
      BY <1>1, <1>2, <1>3, <1>5, <3>1
    <3>2. CASE x # d
      BY <1>2, <1>3, <1>5, <2>1, <3>2
    <3> QED
      BY <3>1, <3>2
  <2> QED
    BY <1>4, <2>2, ToldIs
<1> QED
  BY <1>4, <1>6 DEF r, e, u

LEMMA Removed ==
    ASSUME NEW l, GoodList(l), NEW d \in Dvrs, d \in Serials(l), NEW s, DOMAIN s = Topics
    PROVE  LET r == RemoveAt(l, Index(l, d))
           IN  /\ GoodList(r)
               /\ Told(D_CONFDVRLIST_STR, l, s) => Told(D_CONFDVRLIST_STR, r, Updated(s, Say(d, NoItem)))
<1> DEFINE k == Index(l, d)
           r == RemoveAt(l, k)
           u == Updated(s, Say(d, NoItem))
           At(j) == IF j < k THEN j ELSE j + 1
<1>1. k \in DOMAIN l /\ l[k].serial = d /\ l \in Seq(Entries)
  BY IndexIs DEF GoodList
<1>2. k \in Nat /\ Len(l) \in Nat /\ DOMAIN l = 1 .. Len(l) /\ k \in 1 .. Len(l)
  BY <1>1
<1> HIDE DEF k
<1>3. /\ r \in Seq(Entries) /\ Len(r) = Len(l) - 1
      /\ \A j \in 1 .. Len(l) - 1 : r[j] = IF j < k THEN l[j] ELSE l[j + 1]
  BY <1>1, <1>2, RemoveAtIs
<1>4. DOMAIN r = 1 .. Len(l) - 1
  BY <1>2, <1>3
<1> HIDE DEF r
<1>5. \A j \in DOMAIN r : At(j) \in DOMAIN l /\ At(j) # k /\ r[j] = l[At(j)]
  BY <1>2, <1>3, <1>4
<1>6. \A i, j \in DOMAIN r : At(i) = At(j) => i = j
  BY <1>2, <1>4
<1>7. ASSUME NEW n \in DOMAIN l, n # k PROVE \E j \in DOMAIN r : At(j) = n
  <2>1. CASE n < k
    <3>1. n \in DOMAIN r /\ At(n) = n
      BY <1>2, <1>4, <2>1
    <3> QED
      BY <3>1
  <2>2. CASE n > k
    <3>1. n - 1 \in DOMAIN r /\ At(n - 1) = n
      BY <1>2, <1>4, <2>2
    <3> QED
      BY <3>1
  <2> QED
    BY <1>2, <1>7, <2>1, <2>2
<1> HIDE DEF At
<1>8. GoodList(r)
  BY <1>3, <1>5, <1>6 DEF GoodList
<1>9. \A n \in DOMAIN l : l[n].serial = d => n = k
  BY <1>1 DEF GoodList
<1>10. u[d] = NoItem /\ \A y \in Dvrs \ {d} : u[y] = s[y]
  BY UpdatedIs DEF Topics
<1> HIDE DEF u
<1>11. ASSUME Told(D_CONFDVRLIST_STR, l, s) PROVE Told(D_CONFDVRLIST_STR, r, u)
  <2>1. \A x \in Dvrs : /\ \A n \in DOMAIN l : l[n].serial = x => s[x] = l[n].param
                        /\ (\A n \in DOMAIN l : l[n].serial # x) => s[x] = NoItem
    BY <1>11, ToldIs
  <2>2. ASSUME NEW x \in Dvrs
        PROVE  /\ \A n \in DOMAIN r : r[n].serial = x => u[x] = r[n].param
               /\ (\A n \in DOMAIN r : r[n].serial # x) => u[x] = NoItem
    <3>1. CASE x = d
      BY <1>5, <1>9, <1>10, <3>1
    <3>2. CASE x # d
      <4>1. \A n \in DOMAIN r : r[n].serial = x => u[x] = r[n].param
        BY <1>5, <1>10, <2>1, <3>2
      <4>2. (\A n \in DOMAIN r : r[n].serial # x) => \A n \in DOMAIN l : l[n].serial # x
        BY <1>1, <1>5, <1>7, <3>2
      <4> QED
        BY <1>10, <2>1, <3>2, <4>1, <4>2
    <3> QED
      BY <3>1, <3>2
  <2> QED
    BY <1>8, <2>2, ToldIs
<1> QED
  BY <1>8, <1>11 DEF r, k, u

LEMMA SameTold ==
    ASSUME NEW k \in DvrItems, NEW v, NEW s, NEW r, DOMAIN s = Topics,
           \A y \in Topics : r[y] = s[y]
    PROVE  Told(k, v, s) <=> Told(k, v, r)
  BY DEF Told, Topics

-----------------------------------------------------------------------------
(***************************************************************************)
(* The inductive invariant of the calls.  Items is what a reader finds, or *)
(* would find after a start.                                               *)
(***************************************************************************)
Items == IF up THEN root ELSE IF file = Broken THEN Empty ELSE file

Busy(t, k) == pc[t] \in {"set", "write"} /\ call[t].key = k
Writes(t, k) == pc[t] = "write" /\ call[t].key = k

Typed ==
    /\ pc \in [Threads -> {"idle", "boot", "set", "write"}]
    /\ DOMAIN call = Threads
    /\ says \in [Topics -> Params \cup Levels \cup {NoItem}]
    /\ mishap \subseteq Keys
    /\ lost \in BOOLEAN

\* A thread that writes has the mutex; a process that is dead has no threads.
Writers ==
    /\ \A t \in Threads : (pc[t] = "write") <=> (confMutex = t)
    /\ ~up => \A t \in Threads : pc[t] = "idle"

\* What a call with a changed copy may be about to store, and to say.
CallOf(k, v, said) ==
    \/ /\ k = D_CONFDVRLIST_STR /\ GoodList(v)
       /\ DOMAIN said \subseteq Dvrs /\ \A x \in DOMAIN said : said[x] \in Params \cup {NoItem}
    \/ /\ k = D_CONFDEVVICEALARMLEAVE_STR /\ v \in Levels
       /\ DOMAIN said \subseteq {D_CONFDEVVICEALARMLEAVE_STR}
       /\ \A x \in DOMAIN said : said[x] \in Levels

CallsSet ==
    \A t \in Threads : pc[t] \in {"set", "write"} =>
        /\ CallOf(call[t].key, call[t].value, call[t].said)
        /\ call[t].key = D_CONFDVRLIST_STR => ~lost
        /\ pc[t] = "write" => root[call[t].key] = call[t].value

\* A list that was lost never comes back; no other is ever missing.
ListKept ==
    /\ Items[D_CONFDVRLIST_STR] = NoItem \/ GoodList(Items[D_CONFDVRLIST_STR])
    /\ (Items[D_CONFDVRLIST_STR] = NoItem) <=> lost

\* One thread at a time changes an item, up to its first mishap.
Alone ==
    \A k \in DvrItems \ mishap : \A t, u \in Threads : Busy(t, k) /\ Busy(u, k) => t = u

\* Up to then a changed copy is what the calls say, this one included.
WillTell ==
    \A k \in DvrItems \ mishap : \A t \in Threads :
        Busy(t, k) => Told(k, call[t].value, Updated(says, call[t].said))

\* And so is the item itself, while nobody writes it.
Tells ==
    \A k \in DvrItems \ mishap :
        (\A t \in Threads : ~Writes(t, k)) => Told(k, Items[k], says)

DvrInv ==
    /\ ConfInv
    /\ Typed
    /\ Writers
    /\ CallsSet
    /\ ListKept
    /\ Alone
    /\ WillTell
    /\ Tells

-----------------------------------------------------------------------------
LEMMA DvrInit == Init => DvrInv
<1> SUFFICES ASSUME Init PROVE DvrInv
  OBVIOUS
<1> DEFINE first == FirstDoc[D_CONFDVRLIST_STR]
<1>1. /\ ConfInit /\ pc = [[t \in Threads |-> "idle"] EXCEPT ![Main] = "boot"]
      /\ call = [t \in Threads |-> NoCall] /\ mishap = {} /\ lost = FALSE
      /\ says = [d \in Topics |-> IF d \in Serials(first) THEN first[Index(first, d)].param ELSE NoItem]
  BY DEF Init
<1>2. ConfInv
  BY <1>1, ConfInitInv
<1>3. up = TRUE /\ root = FirstDoc /\ confMutex = NoThread
  BY <1>1 DEF ConfInit
<1>4. pc \in [Threads -> {"idle", "boot"}]
  BY <1>1, ConstFacts
<1>5. GoodList(first) /\ first # NoItem /\ \A n \in DOMAIN first : first[n] \in Entries
  <2>1. GoodList(first)
    BY FirstGood
  <2> QED
    BY <2>1, GoodValue DEF GoodList
<1> HIDE DEF first
<1>6. Typed
  <2>1. \A d \in Serials(first) : first[Index(first, d)].param \in Params
    <3> TAKE d \in Serials(first)
    <3>1. first[Index(first, d)] \in Entries
      BY <1>5, IndexIs
    <3> QED
      BY <3>1 DEF Entries
  <2>2. says \in [Topics -> Params \cup Levels \cup {NoItem}]
    BY <1>1, <2>1
  <2>3. pc \in [Threads -> {"idle", "boot", "set", "write"}] /\ DOMAIN call = Threads
    BY <1>1, <1>4
  <2> QED
    BY <1>1, <2>2, <2>3 DEF Typed
<1>7. \A t \in Threads : pc[t] \notin {"set", "write"}
  BY <1>4
<1>8. Writers
  BY <1>3, <1>7, ConstFacts DEF Writers
<1>9. CallsSet /\ Alone /\ WillTell
  BY <1>7 DEF CallsSet, Alone, WillTell, Busy
<1>10. Items = FirstDoc
  BY <1>3 DEF Items
<1>11. ListKept
  BY <1>1, <1>5, <1>10 DEF ListKept, first
<1>12. Tells
  <2>1. Told(D_CONFDVRLIST_STR, first, says)
    BY <1>1, <1>5 DEF Told, NoParam, Topics
  <2>2. D_CONFDEVVICEALARMLEAVE_STR \notin Serials(first)
    <3>1. \A n \in DOMAIN first : first[n].serial \in Dvrs
      BY <1>5 DEF Entries
    <3> QED
      BY <3>1, ConstFacts DEF Serials
  <2>3. says[D_CONFDEVVICEALARMLEAVE_STR] = NoItem
    BY <1>1, <2>2 DEF Topics
  <2>4. Told(D_CONFDEVVICEALARMLEAVE_STR, Items[D_CONFDEVVICEALARMLEAVE_STR], says)
    BY <2>3, KeyFacts DEF Told
  <2> QED
    BY <1>10, <2>1, <2>4, KeyFacts DEF Tells, first
<1> QED
  BY <1>2, <1>6, <1>8, <1>9, <1>11, <1>12 DEF DvrInv

\* The steps of the calls are steps of the configuration, or change none of it.
LEMMA ConfSteps == DvrInv /\ [Next]_vars => [ConfNext]_confVars
<1> SUFFICES ASSUME DvrInv, [Next]_vars PROVE [ConfNext]_confVars
  OBVIOUS
<1>1. ASSUME NEW t \in Threads, Request(t) PROVE [ConfNext]_confVars
  BY <1>1 DEF Request, HkDvrListConfigAdd, HkDvrListConfigSet, HkDvrListConfigDel,
              HkDeviceAlarmConfigGet, HkDeviceAlarmConfigSet, Changed, ConfNext
<1>2. ASSUME NEW t \in Threads, StoreBegins(t) PROVE ConfNext
  <2>1. pc[t] = "set" /\ SetBegins(t, call[t].key, call[t].value)
    BY <1>2 DEF StoreBegins
  <2>2. CallOf(call[t].key, call[t].value, call[t].said)
    BY <2>1 DEF DvrInv, CallsSet
  <2>3. call[t].key \in Keys /\ call[t].value \in Values
    BY <2>2, KeyFacts, ConstFacts, GoodValue DEF CallOf
  <2> QED
    BY <2>1, <2>3 DEF ConfNext
<1>3. ASSUME NEW t \in Threads, StoreEnds(t) PROVE ConfNext
  BY <1>3 DEF StoreEnds, ConfNext
<1>4. ASSUME NEW t \in Threads, AssertFails(t) PROVE ConfNext
  BY <1>4 DEF AssertFails, ConfNext
<1>5. CASE HksdkApiInit
  BY <1>5 DEF HksdkApiInit, HkDvrListConfigAdd, Changed, ConfNext
<1>6. CASE Crash
  BY <1>6 DEF Crash, ConfNext
<1>7. CASE Restart
  BY <1>7 DEF Restart, ConfNext
<1>8. CASE UNCHANGED vars
  BY <1>8 DEF vars
<1> QED
  BY <1>1, <1>2, <1>3, <1>4, <1>5, <1>6, <1>7, <1>8 DEF Next

\* The items stay over a death, unless the file is broken.
LEMMA DeathKeeps ==
    ASSUME DvrInv, Dies, Death, ConfInv'
    PROVE  DvrInv'
<1>1. /\ ConfInv /\ Typed /\ Writers /\ CallsSet /\ ListKept /\ Alone /\ WillTell /\ Tells
  BY DEF DvrInv
<1>2. /\ up /\ up' = FALSE /\ root' = Empty /\ confMutex' = NoThread /\ file' = file
      /\ pc' = [t \in Threads |-> "idle"] /\ call' = [t \in Threads |-> NoCall] /\ mishap' = mishap
  BY DEF Dies, Death
<1>3. Items = root /\ Items' = IF file = Broken THEN Empty ELSE file
  BY <1>2 DEF Items, Empty
<1>4. \A t \in Threads : pc'[t] = "idle"
  BY <1>2
<1>5. Typed'
  <2>1. says' \in [Topics -> Params \cup Levels \cup {NoItem}] /\ lost' \in BOOLEAN
    BY <1>1 DEF Typed, Death
  <2> QED
    BY <1>1, <1>2, <2>1 DEF Typed
<1>6. Writers'
  BY <1>2, <1>4, ConstFacts DEF Writers
<1>7. CallsSet' /\ Alone' /\ WillTell'
  BY <1>4 DEF CallsSet, Alone, WillTell, Busy
<1>8. CASE file = Broken
  <2>1. /\ says' = [d \in Topics |-> NoItem] /\ lost' = TRUE
        /\ Items'[D_CONFDVRLIST_STR] = NoItem /\ Items'[D_CONFDEVVICEALARMLEAVE_STR] = NoItem
    BY <1>3, <1>8, KeyFacts DEF Death, Empty
  <2>2. ListKept'
    BY <2>1 DEF ListKept
  <2>3. \A k \in DvrItems : Told(k, Items'[k], says')
    BY <2>1, KeyFacts DEF Told, NoParam, Topics
  <2>4. Tells'
    BY <2>3 DEF Tells
  <2> QED
    BY <1>5, <1>6, <1>7, <2>2, <2>4 DEF DvrInv
<1>9. CASE file # Broken
  <2>1. Items' = Items /\ says' = says /\ lost' = lost
    BY <1>1, <1>2, <1>3, <1>9 DEF ConfInv, Death
  <2>2. confMutex = NoThread
    BY <1>1, <1>9 DEF ConfInv
  <2>3. \A t \in Threads : pc[t] # "write"
    BY <1>1, <2>2, ConstFacts DEF Writers
  <2>4. ListKept'
    BY <1>1, <2>1 DEF ListKept
  <2>5. Tells'
    BY <1>1, <1>2, <2>1, <2>3 DEF Tells, Writes
  <2> QED
    BY <1>5, <1>6, <1>7, <2>4, <2>5 DEF DvrInv
<1> QED
  BY <1>8, <1>9

\* A call has read an item and changed its copy.
LEMMA ChangedKeeps ==
    ASSUME DvrInv, NEW t \in Threads, pc[t] \in {"idle", "boot"}, MayLock,
           NEW k \in DvrItems, NEW v, NEW stale \in BOOLEAN, NEW said,
           Changed(t, k, v, stale, said), CallOf(k, v, said),
           k = D_CONFDVRLIST_STR => Items[k] # NoItem,
           ~stale /\ Told(k, Items[k], says) => Told(k, v, Updated(says, said))
    PROVE  DvrInv'
<1>1. /\ ConfInv /\ Typed /\ Writers /\ CallsSet /\ ListKept /\ Alone /\ WillTell /\ Tells
  BY DEF DvrInv
<1> DEFINE c == [key |-> k, value |-> v, said |-> said]
<1>2. /\ pc' = [pc EXCEPT ![t] = "set"] /\ call' = [call EXCEPT ![t] = c]
      /\ mishap' = IF stale \/ Changing(k) # {} THEN mishap \cup {k} ELSE mishap
      /\ UNCHANGED <<root, confMutex, file, up, says, lost>>
  BY DEF Changed, confVars
<1>3. c.key = k /\ c.value = v /\ c.said = said
  OBVIOUS
<1> HIDE DEF c
<1>4. /\ pc'[t] = "set" /\ call'[t] = c
      /\ \A u \in Threads \ {t} : pc'[u] = pc[u] /\ call'[u] = call[u]
      /\ DOMAIN call' = Threads /\ pc' \in [Threads -> {"idle", "boot", "set", "write"}]
  BY <1>1, <1>2 DEF Typed
<1>5. up /\ confMutex = NoThread /\ \A u \in Threads : pc[u] # "write"
  BY <1>1, ConstFacts DEF MayLock, Writers
<1>6. Items' = Items
  BY <1>2 DEF Items, Empty
<1>7. ConfInv'
  BY <1>1, <1>2 DEF ConfInv, ConfTypeOK, Empty, Docs
<1>8. mishap \subseteq mishap' /\ mishap' \subseteq Keys
  BY <1>1, <1>2, KeyFacts DEF Typed
<1>9. Typed'
  BY <1>1, <1>2, <1>4, <1>8 DEF Typed
<1>10. Writers'
  BY <1>1, <1>2, <1>4, <1>5 DEF Writers
<1>11. CallsSet'
  <2>1. k = D_CONFDVRLIST_STR => ~lost
    BY <1>1 DEF ListKept
  <2> QED
    BY <1>1, <1>2, <1>3, <1>4, <2>1 DEF CallsSet
<1>12. ListKept'
  BY <1>1, <1>2, <1>6 DEF ListKept
<1>13. k \notin mishap' => ~stale /\ \A u \in Threads : ~Busy(u, k)
  BY <1>2 DEF Changing, Busy
<1>14. Alone'
  BY <1>1, <1>3, <1>4, <1>8, <1>13 DEF Alone, Busy
<1>15. k \notin mishap' => Told(k, v, Updated(says, said))
  BY <1>1, <1>5, <1>8, <1>13 DEF Tells, Writes
<1>16. WillTell'
  <2> SUFFICES ASSUME NEW i \in DvrItems \ mishap', NEW u \in Threads, Busy(u, i)'
               PROVE  Told(i, call'[u].value, Updated(says', call'[u].said))
    BY DEF WillTell
  <2>1. CASE u = t
    BY <1>2, <1>3, <1>4, <1>15, <2>1 DEF Busy
  <2>2. CASE u # t
    <3>1. Busy(u, i) /\ i \in DvrItems \ mishap
      BY <1>4, <1>8, <2>2 DEF Busy
    <3> QED
      BY <1>1, <1>2, <1>4, <2>2, <3>1 DEF WillTell
  <2> QED
    BY <2>1, <2>2
<1>17. Tells'
  BY <1>1, <1>2, <1>5, <1>6, <1>8 DEF Tells, Writes
<1> QED
  BY <1>7, <1>9, <1>10, <1>11, <1>12, <1>14, <1>16, <1>17 DEF DvrInv

\* What a thread finds when it may lock: the list is good, or there is none.
LEMMA ListIs ==
    ASSUME DvrInv, MayLock
    PROVE  /\ Items = root /\ List = root[D_CONFDVRLIST_STR] /\ DOMAIN says = Topics
           /\ List # NoItem => GoodList(List)
<1>1. Items = root
  BY DEF MayLock, Items
<1> QED
  BY <1>1 DEF List, DvrInv, ListKept, Typed

\* What calls say.
LEMMA CallFacts ==
    /\ \A l, d, p : GoodList(l) /\ d \in Dvrs /\ p \in Params \cup {NoItem} =>
           CallOf(D_CONFDVRLIST_STR, l, Say(d, p))
    /\ \A l : GoodList(l) => CallOf(D_CONFDVRLIST_STR, l, Nothing)
    /\ \A lev \in Levels : /\ CallOf(D_CONFDEVVICEALARMLEAVE_STR, lev, Nothing)
                           /\ CallOf(D_CONFDEVVICEALARMLEAVE_STR, lev, Say(D_CONFDEVVICEALARMLEAVE_STR, lev))
  BY DEF CallOf, Say, Nothing

LEMMA AddKeeps ==
    ASSUME DvrInv, ConfInv', NEW t \in Threads, pc[t] \in {"idle", "boot"},
           NEW d \in Dvrs, NEW p \in Params, HkDvrListConfigAdd(t, d, p)
    PROVE  DvrInv'
<1> DEFINE entry == [serial |-> d, param |-> p]
<1>1. MayLock
  BY DEF HkDvrListConfigAdd
<1>2. /\ Items = root /\ List = root[D_CONFDVRLIST_STR] /\ DOMAIN says = Topics
      /\ List # NoItem => GoodList(List)
  BY <1>1, ListIs
<1>3. D_CONFDVRLIST_STR \in DvrItems
  BY KeyFacts
<1>4. CASE Dies /\ Death
  BY <1>4, DeathKeeps
<1>5. CASE /\ List # NoItem /\ d \in Serials(List)
           /\ Changed(t, D_CONFDVRLIST_STR, ReplaceAt(List, Index(List, d), entry), FALSE, Say(d, p))
  <2> DEFINE r == ReplaceAt(List, Index(List, d), entry)
  <2>1. /\ GoodList(r)
        /\ Told(D_CONFDVRLIST_STR, List, says) => Told(D_CONFDVRLIST_STR, r, Updated(says, Say(d, p)))
    BY <1>2, <1>5, Replaced
  <2>2. Changed(t, D_CONFDVRLIST_STR, r, FALSE, Say(d, p))
    BY <1>5
  <2> HIDE DEF r
  <2>3. CallOf(D_CONFDVRLIST_STR, r, Say(d, p))
    BY <2>1, CallFacts
  <2> QED
    BY <1>1, <1>2, <1>3, <1>5, <2>1, <2>2, <2>3, ChangedKeeps
<1>6. CASE /\ List # NoItem /\ d \notin Serials(List)
           /\ Changed(t, D_CONFDVRLIST_STR, Append(List, entry), FALSE, Say(d, p))
  <2> DEFINE r == Append(List, entry)
  <2>1. /\ GoodList(r)
        /\ Told(D_CONFDVRLIST_STR, List, says) => Told(D_CONFDVRLIST_STR, r, Updated(says, Say(d, p)))
    BY <1>2, <1>6, Appended
  <2>2. Changed(t, D_CONFDVRLIST_STR, r, FALSE, Say(d, p))
    BY <1>6
  <2> HIDE DEF r
  <2>3. CallOf(D_CONFDVRLIST_STR, r, Say(d, p))
    BY <2>1, CallFacts
  <2> QED
    BY <1>1, <1>2, <1>3, <1>6, <2>1, <2>2, <2>3, ChangedKeeps
<1>7. CASE List # NoItem /\ Changed(t, D_CONFDVRLIST_STR, List, TRUE, Say(d, p))
  <2>1. CallOf(D_CONFDVRLIST_STR, List, Say(d, p))
    BY <1>2, <1>7, CallFacts
  <2> QED
    BY <1>1, <1>2, <1>3, <1>7, <2>1, ChangedKeeps
<1> QED
  BY <1>4, <1>5, <1>6, <1>7 DEF HkDvrListConfigAdd

\* A call that leaves the list as it was.
LEMMA UntouchedKeeps ==
    ASSUME DvrInv, MayLock, NEW t \in Threads, pc[t] = "idle", List # NoItem,
           Changed(t, D_CONFDVRLIST_STR, List, FALSE, Nothing)
    PROVE  DvrInv'
<1>1. /\ Items = root /\ List = root[D_CONFDVRLIST_STR] /\ DOMAIN says = Topics /\ GoodList(List)
  BY ListIs
<1>2. D_CONFDVRLIST_STR \in DvrItems
  BY KeyFacts
<1>3. CallOf(D_CONFDVRLIST_STR, List, Nothing)
  BY <1>1, CallFacts
<1>4. \A y \in Topics : Updated(says, Nothing)[y] = says[y]
  BY <1>1, UpdatedIs DEF Topics
<1>5. Told(D_CONFDVRLIST_STR, List, says) => Told(D_CONFDVRLIST_STR, List, Updated(says, Nothing))
  BY <1>1, <1>2, <1>4, SameTold
<1> QED
  BY <1>1, <1>2, <1>3, <1>5, ChangedKeeps

LEMMA SetKeeps ==
    ASSUME DvrInv, ConfInv', NEW t \in Threads, pc[t] = "idle",
           NEW d \in Dvrs, NEW p \in Params, HkDvrListConfigSet(t, d, p)
    PROVE  DvrInv'
<1> DEFINE entry == [serial |-> d, param |-> p]
           r == ReplaceAt(List, Index(List, d), entry)
<1>1. MayLock
  BY DEF HkDvrListConfigSet
<1>2. /\ Items = root /\ List = root[D_CONFDVRLIST_STR] /\ DOMAIN says = Topics
      /\ List # NoItem => GoodList(List)
  BY <1>1, ListIs
<1>3. D_CONFDVRLIST_STR \in DvrItems
  BY KeyFacts
<1>4. CASE Dies /\ Death
  BY <1>4, DeathKeeps
<1>5. CASE List # NoItem /\ d \in Serials(List) /\ Changed(t, D_CONFDVRLIST_STR, r, FALSE, Say(d, p))
  <2>1. /\ GoodList(r)
        /\ Told(D_CONFDVRLIST_STR, List, says) => Told(D_CONFDVRLIST_STR, r, Updated(says, Say(d, p)))
    BY <1>2, <1>5, Replaced
  <2> HIDE DEF r
  <2>2. CallOf(D_CONFDVRLIST_STR, r, Say(d, p))
    BY <2>1, CallFacts
  <2> QED
    BY <1>1, <1>2, <1>3, <1>5, <2>1, <2>2, ChangedKeeps
<1>6. CASE List # NoItem /\ Changed(t, D_CONFDVRLIST_STR, List, FALSE, Nothing)
  BY <1>1, <1>6, UntouchedKeeps
<1> QED
  BY <1>4, <1>5, <1>6 DEF HkDvrListConfigSet

LEMMA DelKeeps ==
    ASSUME DvrInv, ConfInv', NEW t \in Threads, pc[t] = "idle",
           NEW d \in Dvrs, HkDvrListConfigDel(t, d)
    PROVE  DvrInv'
<1> DEFINE r == RemoveAt(List, Index(List, d))
<1>1. MayLock
  BY DEF HkDvrListConfigDel
<1>2. /\ Items = root /\ List = root[D_CONFDVRLIST_STR] /\ DOMAIN says = Topics
      /\ List # NoItem => GoodList(List)
  BY <1>1, ListIs
<1>3. D_CONFDVRLIST_STR \in DvrItems
  BY KeyFacts
<1>4. CASE Dies /\ Death
  BY <1>4, DeathKeeps
<1>5. CASE List # NoItem /\ d \in Serials(List) /\ Changed(t, D_CONFDVRLIST_STR, r, FALSE, Say(d, NoItem))
  <2>1. /\ GoodList(r)
        /\ Told(D_CONFDVRLIST_STR, List, says) => Told(D_CONFDVRLIST_STR, r, Updated(says, Say(d, NoItem)))
    BY <1>2, <1>5, Removed
  <2> HIDE DEF r
  <2>2. CallOf(D_CONFDVRLIST_STR, r, Say(d, NoItem))
    BY <2>1, CallFacts
  <2> QED
    BY <1>1, <1>2, <1>3, <1>5, <2>1, <2>2, ChangedKeeps
<1>6. CASE List # NoItem /\ Changed(t, D_CONFDVRLIST_STR, List, FALSE, Nothing)
  BY <1>1, <1>6, UntouchedKeeps
<1> QED
  BY <1>4, <1>5, <1>6 DEF HkDvrListConfigDel, NoParam

LEMMA AlarmGetKeeps ==
    ASSUME DvrInv, NEW t \in Threads, pc[t] = "idle", HkDeviceAlarmConfigGet(t)
    PROVE  DvrInv'
<1> DEFINE k == D_CONFDEVVICEALARMLEAVE_STR
<1>1. MayLock /\ root[k] = NoItem /\ Changed(t, k, FirstLevel, FALSE, Nothing)
  BY DEF HkDeviceAlarmConfigGet, ConfigManageGet
<1>2. /\ Items = root /\ DOMAIN says = Topics
  BY <1>1, ListIs
<1>3. k \in DvrItems /\ k # D_CONFDVRLIST_STR /\ FirstLevel \in Levels
  BY KeyFacts, ConstFacts
<1>4. CallOf(k, FirstLevel, Nothing)
  BY <1>3, CallFacts
<1>5. Updated(says, Nothing)[k] = says[k]
  BY <1>2, UpdatedIs DEF Topics
<1>6. says \in [Topics -> Params \cup Levels \cup {NoItem}] /\ NoItem \notin Levels
  BY ConstFacts DEF DvrInv, Typed
<1> HIDE DEF k
<1>7. Told(k, Items[k], says) => says[k] = NoItem
  BY <1>1, <1>2, <1>3 DEF Told, k
<1>8. Told(k, Items[k], says) => Told(k, FirstLevel, Updated(says, Nothing))
  BY <1>3, <1>5, <1>7 DEF Told, k
<1> QED
  BY <1>1, <1>3, <1>4, <1>8, ChangedKeeps

LEMMA AlarmSetKeeps ==
    ASSUME DvrInv, NEW t \in Threads, pc[t] = "idle", NEW lev \in Levels,
           HkDeviceAlarmConfigSet(t, lev)
    PROVE  DvrInv'
<1> DEFINE k == D_CONFDEVVICEALARMLEAVE_STR
<1>1. MayLock /\ Changed(t, k, lev, FALSE, Say(k, lev))
  BY DEF HkDeviceAlarmConfigSet
<1>2. DOMAIN says = Topics
  BY <1>1, ListIs
<1>3. k \in DvrItems /\ k # D_CONFDVRLIST_STR
  BY KeyFacts
<1>4. CallOf(k, lev, Say(k, lev))
  BY CallFacts
<1>5. Updated(says, Say(k, lev))[k] = lev
  BY <1>2, UpdatedIs DEF Topics
<1> HIDE DEF k
<1>6. Told(k, lev, Updated(says, Say(k, lev)))
  BY <1>3, <1>5 DEF Told, k
<1> QED
  BY <1>1, <1>3, <1>4, <1>6, ChangedKeeps

LEMMA RequestKeeps ==
    ASSUME DvrInv, ConfInv', NEW t \in Threads, Request(t)
    PROVE  DvrInv'
  BY AddKeeps, SetKeeps, DelKeeps, AlarmGetKeeps, AlarmSetKeeps DEF Request

LEMMA BootKeeps ==
    ASSUME DvrInv, ConfInv', HksdkApiInit
    PROVE  DvrInv'
<1>1. pc[Main] = "boot" /\ Main \in Threads /\ HomeDvr \in Dvrs /\ HomeParam \in Params
  BY ConstFacts DEF HksdkApiInit
<1>2. CASE HkDvrListConfigAdd(Main, HomeDvr, HomeParam)
  BY <1>1, <1>2, AddKeeps
<1>3. CASE pc' = [pc EXCEPT ![Main] = "idle"] /\ UNCHANGED <<confVars, call, deaths, histVars>>
  <2>1. /\ UNCHANGED <<root, confMutex, file, up, call, says, mishap, lost>>
        /\ pc' \in [Threads -> {"idle", "boot", "set", "write"}]
        /\ pc'[Main] = "idle" /\ \A u \in Threads \ {Main} : pc'[u] = pc[u]
    BY <1>1, <1>3 DEF DvrInv, Typed, confVars, histVars
  <2>2. Items' = Items
    BY <2>1 DEF Items, Empty
  <2>3. Typed' /\ ListKept'
    BY <2>1, <2>2 DEF DvrInv, Typed, ListKept
  <2>4. Writers' /\ CallsSet'
    BY <1>1, <2>1 DEF DvrInv, Writers, CallsSet
  <2>5. Alone' /\ WillTell' /\ Tells'
    BY <1>1, <2>1, <2>2 DEF DvrInv, Alone, WillTell, Tells, Busy, Writes
  <2> QED
    BY <2>3, <2>4, <2>5 DEF DvrInv
<1> QED
  BY <1>2, <1>3 DEF HksdkApiInit
-----------------------------------------------------------------------------
LEMMA StoreBeginsKeeps ==
    ASSUME DvrInv, ConfInv', NEW t \in Threads, StoreBegins(t)
    PROVE  DvrInv'
<1>1. /\ ConfInv /\ Typed /\ Writers /\ CallsSet /\ ListKept /\ Alone /\ WillTell /\ Tells
  BY DEF DvrInv
<1> DEFINE k == call[t].key
           v == call[t].value
<1>2. /\ pc[t] = "set" /\ up /\ confMutex = NoThread /\ confMutex' = t /\ up' = up
      /\ root' = [root EXCEPT ![k] = v] /\ pc' = [pc EXCEPT ![t] = "write"]
      /\ UNCHANGED <<call, says, mishap, lost>>
  BY DEF StoreBegins, SetBegins, MayLock, histVars
<1>3. CallOf(k, v, call[t].said) /\ (k = D_CONFDVRLIST_STR => ~lost)
  BY <1>1, <1>2 DEF CallsSet
<1>4. k \in DvrItems /\ k \in Keys /\ (k = D_CONFDVRLIST_STR => GoodList(v) /\ v # NoItem)
  BY <1>3, KeyFacts, GoodValue DEF CallOf
<1> HIDE DEF k, v
<1>5. DOMAIN root = Keys
  BY <1>1 DEF ConfInv, ConfTypeOK, Docs
<1>6. root'[k] = v /\ \A i \in Keys \ {k} : root'[i] = root[i]
  BY <1>2, <1>4, <1>5
<1>7. Items' = root' /\ Items = root
  BY <1>2 DEF Items
<1>8. /\ pc'[t] = "write" /\ \A u \in Threads \ {t} : pc'[u] = pc[u]
      /\ pc' \in [Threads -> {"idle", "boot", "set", "write"}]
  BY <1>1, <1>2 DEF Typed
<1>9. \A u \in Threads : pc[u] # "write"
  BY <1>1, <1>2, ConstFacts DEF Writers
<1>10. Typed'
  BY <1>1, <1>2, <1>8 DEF Typed
<1>11. Writers'
  BY <1>2, <1>8, <1>9 DEF Writers
<1>12. CallsSet'
  BY <1>1, <1>2, <1>6, <1>8, <1>9 DEF CallsSet, k, v
<1>13. ListKept'
  BY <1>1, <1>2, <1>3, <1>4, <1>6, <1>7, KeyFacts DEF ListKept
<1>14. Alone' /\ WillTell'
  BY <1>1, <1>2, <1>8 DEF Alone, WillTell, Busy
<1>15. Tells'
  <2> SUFFICES ASSUME NEW i \in DvrItems \ mishap, \A u \in Threads : ~Writes(u, i)'
               PROVE  Told(i, Items'[i], says)
    BY <1>2 DEF Tells
  <2>1. i # k
    BY <1>2, <1>8 DEF Writes, k
  <2>2. Items'[i] = Items[i]
    BY <1>6, <1>7, <2>1, KeyFacts
  <2> QED
    BY <1>1, <1>9, <2>2 DEF Tells, Writes
<1> QED
  BY <1>10, <1>11, <1>12, <1>13, <1>14, <1>15 DEF DvrInv

LEMMA StoreEndsKeeps ==
    ASSUME DvrInv, ConfInv', NEW t \in Threads, StoreEnds(t)
    PROVE  DvrInv'
<1>1. /\ ConfInv /\ Typed /\ Writers /\ CallsSet /\ ListKept /\ Alone /\ WillTell /\ Tells
  BY DEF DvrInv
<1> DEFINE k == call[t].key
           v == call[t].value
           said == call[t].said
<1>2. /\ pc[t] = "write" /\ confMutex = t /\ confMutex' = NoThread
      /\ UNCHANGED <<root, up, mishap, lost>>
      /\ pc' = [pc EXCEPT ![t] = "idle"] /\ call' = [call EXCEPT ![t] = NoCall]
      /\ says' = Updated(says, said)
  BY DEF StoreEnds, SetEnds
<1>3. up /\ Items = root /\ Items' = root
  <2>1. up
    BY <1>1, <1>2 DEF Writers
  <2> QED
    BY <1>2, <2>1 DEF Items
<1>4. CallOf(k, v, said) /\ root[k] = v
  BY <1>1, <1>2 DEF CallsSet
<1>5. k \in DvrItems /\ \A y \in DOMAIN said : said[y] \in Params \cup Levels \cup {NoItem}
  BY <1>4, KeyFacts DEF CallOf
<1>6. \A i \in DvrItems \ mishap : Busy(t, i) => Told(i, v, Updated(says, said))
  BY <1>1 DEF WillTell
<1>7. Busy(t, k)
  BY <1>2 DEF Busy
<1>8. \A i \in DvrItems \ {k} : \A y \in Topics : y \in DOMAIN said =>
          IF i = D_CONFDVRLIST_STR THEN y \notin Dvrs ELSE y # D_CONFDEVVICEALARMLEAVE_STR
  BY <1>4, KeyFacts, ConstFacts DEF CallOf
<1> HIDE DEF k, v, said
<1>9. k = call[t].key
  BY DEF k
<1>10. says \in [Topics -> Params \cup Levels \cup {NoItem}]
  BY <1>1 DEF Typed
<1>11. /\ says' \in [Topics -> Params \cup Levels \cup {NoItem}]
       /\ \A y \in Topics : y \notin DOMAIN said => says'[y] = says[y]
  BY <1>2, <1>5, <1>10 DEF Updated
<1>12. /\ pc'[t] = "idle" /\ \A u \in Threads \ {t} : pc'[u] = pc[u] /\ call'[u] = call[u]
       /\ pc' \in [Threads -> {"idle", "boot", "set", "write"}] /\ DOMAIN call' = Threads
  BY <1>1, <1>2 DEF Typed
<1>13. \A u \in Threads \ {t} : pc[u] # "write"
  BY <1>1, <1>2 DEF Writers
<1>14. Typed'
  BY <1>1, <1>2, <1>11, <1>12 DEF Typed
<1>15. Writers'
  BY <1>1, <1>2, <1>3, <1>12, <1>13, ConstFacts DEF Writers
<1>16. CallsSet'
  BY <1>1, <1>2, <1>12, <1>13 DEF CallsSet
<1>17. ListKept'
  BY <1>1, <1>2, <1>3 DEF ListKept
<1>18. Alone'
  BY <1>1, <1>2, <1>12 DEF Alone, Busy
\* Nobody else was changing the same item, and of another item nothing was said.
<1>19. ASSUME NEW i \in DvrItems \ {k}, NEW w PROVE Told(i, w, says) <=> Told(i, w, says')
  <2>1. CASE i = D_CONFDVRLIST_STR
    <3>1. \A d \in Dvrs : d \in Topics /\ d \notin DOMAIN said
      BY <1>8, <2>1 DEF Topics
    <3>2. \A d \in Dvrs : says'[d] = says[d]
      BY <1>11, <3>1
    <3> QED
      BY <2>1, <3>2 DEF Told
  <2>2. CASE i = D_CONFDEVVICEALARMLEAVE_STR
    <3>1. i \in Topics /\ i \notin DOMAIN said
      BY <1>8, <2>2, KeyFacts DEF Topics
    <3>2. says'[i] = says[i]
      BY <1>11, <3>1
    <3> QED
      BY <2>2, <3>2, KeyFacts DEF Told
  <2> QED
    BY <2>1, <2>2, KeyFacts
<1>20. WillTell'
  <2> SUFFICES ASSUME NEW i \in DvrItems \ mishap, NEW u \in Threads, Busy(u, i)'
               PROVE  Told(i, call'[u].value, Updated(says', call'[u].said))
    BY <1>2 DEF WillTell
  <2>1. u # t /\ Busy(u, i) /\ call'[u] = call[u]
    BY <1>12 DEF Busy
  <2>2. i # k
    BY <1>1, <1>7, <2>1 DEF Alone
  <2> DEFINE s == call[u].said
  <2>3. Told(i, call[u].value, Updated(says, s))
    BY <1>1, <2>1 DEF WillTell
  <2>4. /\ DOMAIN says = Topics /\ DOMAIN says' = Topics
    BY <1>10, <1>11
  <2> HIDE DEF s
  <2>5. CASE i = D_CONFDVRLIST_STR
    <3>1. \A d \in Dvrs : d \in Topics /\ d \notin DOMAIN said
      BY <1>8, <2>2, <2>5 DEF Topics
    <3>2. \A d \in Dvrs : Updated(says', s)[d] = Updated(says, s)[d]
      BY <1>11, <2>4, <3>1 DEF Updated
    <3>3. Told(i, call[u].value, Updated(says', s))
      BY <2>3, <2>5, <3>2 DEF Told
    <3> QED
      BY <2>1, <3>3 DEF s
  <2>6. CASE i = D_CONFDEVVICEALARMLEAVE_STR
    <3>1. i \in Topics /\ i \notin DOMAIN said
      BY <1>8, <2>2, <2>6, KeyFacts DEF Topics
    <3>2. Updated(says', s)[i] = Updated(says, s)[i]
      BY <1>11, <2>4, <3>1 DEF Updated
    <3>3. Told(i, call[u].value, Updated(says', s))
      BY <2>3, <2>6, <3>2, KeyFacts DEF Told
    <3> QED
      BY <2>1, <3>3 DEF s
  <2> QED
    BY <2>5, <2>6, KeyFacts
<1>21. Tells'
  <2> SUFFICES ASSUME NEW i \in DvrItems \ mishap PROVE Told(i, Items'[i], says')
    BY <1>2 DEF Tells
  <2>1. CASE i = k
    BY <1>2, <1>3, <1>4, <1>6, <1>7, <2>1
  <2>2. CASE i # k
    <3>1. \A u \in Threads : ~Writes(u, i)
      BY <1>9, <1>13, <2>2 DEF Writes
    <3>2. Told(i, root[i], says)
      BY <1>1, <1>3, <3>1 DEF Tells
    <3> QED
      BY <1>3, <1>19, <2>2, <3>2
  <2> QED
    BY <2>1, <2>2
<1> QED
  BY <1>14, <1>15, <1>16, <1>17, <1>18, <1>20, <1>21 DEF DvrInv

LEMMA RestartKeeps ==
    ASSUME DvrInv, ConfInv', Restart
    PROVE  DvrInv'
<1>1. /\ ConfInv /\ Typed /\ Writers /\ CallsSet /\ ListKept /\ Alone /\ WillTell /\ Tells
  BY DEF DvrInv
<1>2. /\ ~up /\ up' = TRUE /\ root' = (IF file = Broken THEN Empty ELSE file)
      /\ UNCHANGED <<confMutex, file, call, says, mishap, lost>> /\ pc' = [pc EXCEPT ![Main] = "boot"]
  BY DEF Restart, ConfigManageInit, histVars
<1>3. Items' = Items
  BY <1>2 DEF Items
<1>4. \A t \in Threads : pc[t] = "idle" /\ pc'[t] \in {"idle", "boot"}
  BY <1>1, <1>2, ConstFacts DEF Writers, Typed
<1>5. confMutex = NoThread
  BY <1>1, <1>2 DEF ConfInv
<1>6. Typed'
  BY <1>1, <1>2, ConstFacts DEF Typed
<1>7. Writers'
  BY <1>2, <1>4, <1>5, ConstFacts DEF Writers
<1>8. CallsSet' /\ Alone' /\ WillTell'
  BY <1>4 DEF CallsSet, Alone, WillTell, Busy
<1>9. ListKept' /\ Tells'
  BY <1>1, <1>2, <1>3, <1>4 DEF ListKept, Tells, Writes
<1> QED
  BY <1>6, <1>7, <1>8, <1>9 DEF DvrInv

LEMMA DvrStutter == DvrInv /\ UNCHANGED vars => DvrInv'
<1> SUFFICES ASSUME DvrInv, UNCHANGED vars PROVE DvrInv'
  OBVIOUS
<1>1. UNCHANGED <<root, confMutex, file, up, pc, call, says, mishap, lost>>
  BY DEF vars, confVars, histVars
<1>2. Items' = Items
  BY <1>1 DEF Items, Empty
<1>3. ConfInv' /\ Typed' /\ Writers' /\ CallsSet'
  BY <1>1 DEF DvrInv, ConfInv, ConfTypeOK, Empty, Docs, Typed, Writers, CallsSet
<1>4. ListKept' /\ Alone' /\ WillTell' /\ Tells'
  BY <1>1, <1>2 DEF DvrInv, ListKept, Alone, WillTell, Tells, Busy, Writes
<1> QED
  BY <1>3, <1>4 DEF DvrInv

(***************************************************************************)
(* DvrInv is an inductive invariant of the calls on the configuration,     *)
(* with deaths of the process anywhere.                                    *)
(***************************************************************************)
THEOREM DvrInvHolds == Spec => []DvrInv
<1>1. DvrInv /\ [Next]_vars => DvrInv'
  <2> SUFFICES ASSUME DvrInv, Next PROVE DvrInv'
    BY DvrStutter
  <2>1. ConfInv'
    BY ConfSteps, ConfStepInv DEF DvrInv
  <2>2. ASSUME NEW t \in Threads, Request(t) PROVE DvrInv'
    BY <2>1, <2>2, RequestKeeps
  <2>3. ASSUME NEW t \in Threads, StoreBegins(t) PROVE DvrInv'
    BY <2>1, <2>3, StoreBeginsKeeps
  <2>4. ASSUME NEW t \in Threads, StoreEnds(t) PROVE DvrInv'
    BY <2>1, <2>4, StoreEndsKeeps
  <2>5. ASSUME NEW t \in Threads, AssertFails(t) PROVE DvrInv'
    BY <2>1, <2>5, DeathKeeps DEF AssertFails, OpenFails
  <2>6. CASE HksdkApiInit
    BY <2>1, <2>6, BootKeeps
  <2>7. CASE Crash
    BY <2>1, <2>7, DeathKeeps DEF Crash
  <2>8. CASE Restart
    BY <2>1, <2>8, RestartKeeps
  <2> QED
    BY <2>2, <2>3, <2>4, <2>5, <2>6, <2>7, <2>8 DEF Next
<1> QED
  BY <1>1, DvrInit, PTL DEF Spec

(***************************************************************************)
(* No DVR is in the list of the configuration twice, whatever calls of     *)
(* HkDvrListConfigAdd, Set and Del mix.                                    *)
(***************************************************************************)
THEOREM SerialsUniqueHolds == Spec => []SerialsUnique
<1>1. DvrInv => SerialsUnique
  <2> SUFFICES ASSUME DvrInv PROVE SerialsUnique
    OBVIOUS
  <2>1. ConfTypeOK /\ Typed /\ Writers /\ CallsSet /\ ListKept
    BY DEF DvrInv, ConfInv
  <2>2. \A t \in Threads : pc[t] \in {"set", "write"} => call[t].value \in Values \cup {NoItem}
    <3> SUFFICES ASSUME NEW t \in Threads, pc[t] \in {"set", "write"}
                 PROVE  call[t].value \in Values
      OBVIOUS
    <3>1. CallOf(call[t].key, call[t].value, call[t].said)
      BY <2>1 DEF CallsSet
    <3> QED
      BY <3>1, GoodValue, ConstFacts DEF CallOf
  <2>3. ~up => pc = [t \in Threads |-> "idle"]
    BY <2>1 DEF Typed, Writers
  <2>4. TypeOK
    BY <2>1, <2>2, <2>3 DEF TypeOK, Typed, Writers
  <2>5. ASSUME List # NoItem PROVE Cardinality(Serials(List)) = Len(List)
    <3>1. up
      <4>1. ~up => List = NoItem
        BY KeyFacts DEF DvrInv, ConfInv, List, Empty
      <4> QED
        BY <2>5, <4>1
    <3>2. GoodList(List)
      BY <2>1, <2>5, <3>1 DEF ListKept, Items, List
    <3> QED
      BY <3>2, GoodSize
  <2> QED
    BY <2>4, <2>5 DEF SerialsUnique
<1> QED
  BY <1>1, DvrInvHolds, PTL

(***************************************************************************)
(* What the calls that returned say is what is stored, unless two of them  *)
(* changed the item at the same time or one found its DVR in the part of   *)
(* the array that it had not filled.                                       *)
(***************************************************************************)
THEOREM StoredAsCalledHolds == Spec => []StoredAsCalled
<1>1. DvrInv => StoredAsCalled
  <2> SUFFICES ASSUME DvrInv, up, confMutex = NoThread, NEW k \in DvrItems \ mishap
               PROVE  Told(k, root[k], says)
    BY DEF StoredAsCalled
  <2>1. \A t \in Threads : ~Writes(t, k)
    BY ConstFacts DEF DvrInv, Writers, Writes
  <2>2. Items = root
    BY DEF Items
  <2> QED
    BY <2>1, <2>2 DEF DvrInv, Tells
<1> QED
  BY <1>1, DvrInvHolds, PTL

(***************************************************************************)
(* Only a death while conf.config is not whole takes the list of DVRs      *)
(* away, and then no call ever makes one again.                            *)
(***************************************************************************)
THEOREM ListNeverReturnsHolds == Spec => []ListNeverReturns
<1>1. DvrInv => ListNeverReturns
  BY DEF DvrInv, ListKept, Items, List, ListNeverReturns
<1> QED
  BY <1>1, DvrInvHolds, PTL

(***************************************************************************)
(* The calls use the configuration as it is specified, so what they see is *)
(* a ConfStore.                                                            *)
(***************************************************************************)
THEOREM DvrListUsesConf == Spec => ConfSpec /\ IsConfStore
<1>1. Init => ConfInit
  BY DEF Init
<1>2. DvrInv /\ [Next]_vars => [ConfNext]_confVars
  BY ConfSteps
<1>3. Spec => ConfSpec
  BY <1>1, <1>2, DvrInvHolds, PTL DEF Spec, ConfSpec
<1> QED
  BY <1>3, ConfRefines, PTL
-----------------------------------------------------------------------------
(* The frame cache. *)

\* The places of a row are places of the array.
LEMMA PlaceInPlaces ==
    ASSUME NEW h \in Handles, NEW n \in 0 .. MAX_FRAME_LENTH - 1
    PROVE  Place(h, n) \in Places
<1>1. h \in Nat /\ n \in Nat /\ MAX_FRAME_LENTH \in Nat /\ NET_IPC_MAX_NUM \in Nat
      /\ h + 1 <= NET_IPC_MAX_NUM
  BY CacheAssumption DEF Handles
<1> DEFINE k == NET_IPC_MAX_NUM - (h + 1)
<1>2. k \in Nat /\ NET_IPC_MAX_NUM = (h + 1) + k
  BY <1>1
<1> HIDE DEF k
<1>3. NET_IPC_MAX_NUM * MAX_FRAME_LENTH
        = h * MAX_FRAME_LENTH + MAX_FRAME_LENTH + k * MAX_FRAME_LENTH
  BY <1>1, <1>2
<1>4. k * MAX_FRAME_LENTH \in Nat /\ h * MAX_FRAME_LENTH \in Nat
  BY <1>1, <1>2
<1> QED
  BY <1>1, <1>3, <1>4 DEF Place, Places

\* The rows lie one behind the other, and what is written past the end of one
\* lies behind all rows before it.
LEMMA PlaceBelow ==
    ASSUME NEW h \in Handles, NEW g \in Handles, h < g,
           NEW n \in 0 .. MAX_FRAME_LENTH - 1, NEW m \in Nat
    PROVE  Place(h, n) < Place(g, m)
<1>1. h \in Nat /\ g \in Nat /\ n \in Nat /\ MAX_FRAME_LENTH \in Nat
  BY CacheAssumption DEF Handles
<1> DEFINE k == g - (h + 1)
<1>2. k \in Nat /\ g = (h + 1) + k
  BY <1>1
<1> HIDE DEF k
<1>3. g * MAX_FRAME_LENTH = h * MAX_FRAME_LENTH + MAX_FRAME_LENTH + k * MAX_FRAME_LENTH
  BY <1>1, <1>2
<1>4. k * MAX_FRAME_LENTH \in Nat /\ h * MAX_FRAME_LENTH \in Nat
  BY <1>1, <1>2
<1> QED
  BY <1>1, <1>3, <1>4 DEF Place

LEMMA PlaceApart ==
    ASSUME NEW h \in Handles, NEW g \in Handles, h # g,
           NEW n \in 0 .. MAX_FRAME_LENTH - 1, NEW m \in Nat,
           m < MAX_FRAME_LENTH \/ h < g
    PROVE  Place(g, m) # Place(h, n)
<1>1. h \in Nat /\ g \in Nat /\ n \in Nat /\ MAX_FRAME_LENTH \in Nat
  BY CacheAssumption DEF Handles
<1>2. Place(g, m) \in Int /\ Place(h, n) \in Int
  BY <1>1 DEF Place
<1>3. CASE h < g
  BY <1>3, <1>2, PlaceBelow
<1>4. CASE g < h
  <2>1. m \in 0 .. MAX_FRAME_LENTH - 1
    BY <1>1, <1>4
  <2>2. Place(g, m) < Place(h, n)
    BY <2>1, <1>1, <1>4, PlaceBelow
  <2> QED
    BY <2>2, <1>2
<1> QED
  BY <1>1, <1>3, <1>4

LEMMA PlaceInRow ==
    ASSUME NEW h \in Handles, NEW n \in Nat, NEW m \in Nat, Place(h, n) = Place(h, m)
    PROVE  n = m
<1>1. h * MAX_FRAME_LENTH \in Int
  BY CacheAssumption DEF Handles
<1> QED
  BY <1>1 DEF Place
-----------------------------------------------------------------------------
(***************************************************************************)
(* A callback for handle g that leaves row h safe does not touch it.       *)
(***************************************************************************)
LEMMA SafeApart ==
    ASSUME CacheTypeOK, NEW g \in Handles, NEW h \in Handles, Overflow(g), Safe(h)'
    PROVE  /\ Safe(h)
           /\ h = g => length[g] < MAX_FRAME_LENTH
           /\ h # g => \A n \in 0 .. MAX_FRAME_LENTH - 1, m \in 0 .. length[g] :
                           Place(g, m) # Place(h, n)
<1>1. overflowed \subseteq overflowed' /\ (g \in overflowed' \/ length[g] < MAX_FRAME_LENTH)
  BY DEF Overflow
<1>2. Safe(h) /\ (length[g] < MAX_FRAME_LENTH \/ h < g)
  BY <1>1 DEF Safe
<1>3. length[g] \in Nat /\ h \in Nat /\ g \in Nat /\ MAX_FRAME_LENTH \in Nat
  BY CacheAssumption DEF CacheTypeOK, Handles
<1>4. ASSUME h # g, NEW n \in 0 .. MAX_FRAME_LENTH - 1, NEW m \in 0 .. length[g]
      PROVE  Place(g, m) # Place(h, n)
  <2>1. m \in Nat /\ (m < MAX_FRAME_LENTH \/ h < g)
    BY <1>2, <1>3
  <2> QED
    BY <2>1, <1>4, PlaceApart
<1> QED
  BY <1>2, <1>3, <1>4
-----------------------------------------------------------------------------
LEMMA CacheInitInv == CacheInit => CacheInv
<1> SUFFICES ASSUME CacheInit PROVE CacheInv
  OBVIOUS
<1>1. NULL \in Piece
  BY CacheAssumption DEF NULL, Piece, Handles
<1>2. ASSUME NEW h \in Handles
      PROVE  Place(h, length[h]) <= NET_IPC_MAX_NUM * MAX_FRAME_LENTH
  <2>1. Place(h, 0) \in Places
    BY PlaceInPlaces, CacheAssumption
  <2> QED
    BY <2>1, CacheAssumption DEF CacheInit, Places
<1>3. CacheTypeOK
  BY <1>1, <1>2 DEF CacheInit, CacheTypeOK
<1>4. RowsTidy
  <2> SUFFICES ASSUME NEW h \in Handles, NEW n \in 0 .. MAX_FRAME_LENTH - 1
               PROVE  length[h] <= MAX_FRAME_LENTH /\ cache[Place(h, n)] = NULL /\ ~(n < length[h])
    BY CacheAssumption DEF RowsTidy, CacheInit
  <2> QED
    BY PlaceInPlaces, CacheAssumption DEF CacheInit
<1>5. \A h \in Handles : RowHolds(h) /\ stream[h] <= streams
  BY DEF CacheInit, RowHolds
<1>6. FramesInOrder /\ FramesWhole
  BY DEF CacheInit, NoFrame, FramesInOrder, FramesWhole
<1> QED
  BY <1>3, <1>4, <1>5, <1>6 DEF CacheInv

\* The places in use of a safe row.
LEMMA RowPlaces ==
    ASSUME CacheInv, NEW h \in Handles, Safe(h), NEW n \in 0 .. length[h] - 1
    PROVE  n \in 0 .. MAX_FRAME_LENTH - 1 /\ Place(h, n) \in Places /\ cache[Place(h, n)] \in Piece
<1>1. length[h] \in Nat /\ MAX_FRAME_LENTH \in Nat /\ length[h] <= MAX_FRAME_LENTH
  BY CacheAssumption DEF CacheInv, CacheTypeOK, RowsTidy
<1>2. n \in 0 .. MAX_FRAME_LENTH - 1
  BY <1>1
<1> QED
  BY <1>2, PlaceInPlaces DEF CacheInv, CacheTypeOK

\* Opening a stream leaves the row alone; pieces in it are left over from another.
LEMMA RealPlayInv ==
    ASSUME CacheInv, NEW g \in Handles, RealPlay(g)
    PROVE  CacheInv'
<1> USE DEF RealPlay
<1>1. CacheTypeOK'
  BY DEF CacheInv, CacheTypeOK
<1>2. \A h \in Handles : stream'[h] <= streams'
  BY DEF CacheInv, CacheTypeOK
<1>3. RowsTidy' /\ FramesInOrder' /\ FramesWhole'
  BY DEF CacheInv, RowsTidy, Safe, FramesInOrder, FramesWhole
<1>4. ASSUME NEW h \in Handles, Safe(h)'
      PROVE  RowHolds(h)'
  <2>1. RowHolds(h)
    BY <1>4 DEF CacheInv, Safe
  <2>2. CASE h # g
    BY <2>1, <2>2 DEF RowHolds, Sent, CacheInv, CacheTypeOK
  <2>3. CASE h = g
    <3>1. stream'[g] = streams + 1 /\ stream[g] <= streams /\ stream[g] \in Nat /\ streams \in Nat
      BY DEF CacheInv, CacheTypeOK
    <3>2. ASSUME NEW n \in 0 .. length[g] - 1
          PROVE  cache[Place(g, n)].stream < stream'[g]
      <4>1. cache[Place(g, n)] \in Piece
        BY <1>4, <2>3, RowPlaces DEF Safe
      <4>2. cache[Place(g, n)].stream \in Nat /\ cache[Place(g, n)].stream <= stream[g]
        BY <4>1, <3>1, <2>1, <2>3 DEF Piece, RowHolds, Sent
      <4> QED
        BY <3>1, <4>2
    <3>3. length[g] \in Nat /\ (g \notin leftover' => length[g] = 0) /\ sent'[g] = 0
      BY DEF CacheInv, CacheTypeOK
    <3> QED
      BY <2>1, <2>3, <3>2, <3>3 DEF RowHolds, Sent
  <2> QED
    BY <2>2, <2>3
<1> QED
  BY <1>1, <1>2, <1>3, <1>4 DEF CacheInv

LEMMA StopRealPlayInv ==
    ASSUME CacheInv, NEW g \in Handles, StopRealPlay(g)
    PROVE  CacheInv'
<1>1. /\ length' = length /\ cache' = cache /\ stream' = stream /\ frame' = frame
      /\ sent' = sent /\ streams' = streams /\ written' = written
      /\ gap' = gap /\ leftover' = leftover /\ overflowed' = overflowed
  BY DEF StopRealPlay, cacheHistVars
<1>2. CacheTypeOK'
  BY <1>1 DEF StopRealPlay, CacheInv, CacheTypeOK
<1>3. \A h \in Handles : stream'[h] <= streams' /\ (Safe(h)' => RowHolds(h)')
  BY <1>1 DEF CacheInv, Safe, RowHolds, Sent
<1>4. RowsTidy' /\ FramesInOrder' /\ FramesWhole'
  BY <1>1 DEF CacheInv, RowsTidy, Safe, FramesInOrder, FramesWhole
<1> QED
  BY <1>2, <1>3, <1>4 DEF CacheInv

\* The SDK goes on, and the pieces in the rows have been sent all the more.
LEMMA SentStays ==
    ASSUME CacheInv, NEW g \in Handles, NEW head \in BOOLEAN, Send(g, head),
           NEW h \in Handles, NEW q \in Piece, Sent(q, h)
    PROVE  Sent(q, h)'
<1>1. frame[h] \in Nat /\ sent[h] \in Nat /\ stream[h] \in Nat
      /\ q.stream \in Nat /\ q.frame \in Nat /\ q.num \in Nat
  BY DEF CacheInv, CacheTypeOK, Piece
<1>2. stream' = stream /\ \/ frame'[h] = frame[h] + 1
                          \/ frame'[h] = frame[h] /\ sent'[h] \in {sent[h], sent[h] + 1}
  BY DEF Send, CacheInv, CacheTypeOK
<1> QED
  BY <1>1, <1>2 DEF Sent

LEMMA NotFoundInv ==
    ASSUME CacheInv, NEW g \in Handles, NEW head \in BOOLEAN, NotFound(g, head)
    PROVE  CacheInv'
<1> USE DEF NotFound
<1>1. CacheTypeOK' /\ \A h \in Handles : stream'[h] <= streams'
  BY DEF Send, CacheInv, CacheTypeOK
<1>2. RowsTidy' /\ FramesInOrder' /\ FramesWhole'
  BY DEF CacheInv, RowsTidy, Safe, FramesInOrder, FramesWhole
<1>3. ASSUME NEW h \in Handles, Safe(h)'
      PROVE  RowHolds(h)'
  <2>1. RowHolds(h) /\ Safe(h)
    BY <1>3 DEF CacheInv, Safe
  <2>2. \A n \in 0 .. length[h] - 1 : Sent(cache[Place(h, n)], h)'
    <3> SUFFICES ASSUME NEW n \in 0 .. length[h] - 1
                 PROVE  Sent(cache[Place(h, n)], h)'
      OBVIOUS
    <3>1. cache[Place(h, n)] \in Piece /\ Sent(cache[Place(h, n)], h)
      BY <2>1, RowPlaces DEF RowHolds
    <3> QED
      BY <3>1, SentStays DEF Sent
  <2>3. h # g => sent'[h] = sent[h] /\ frame'[h] = frame[h]
    BY DEF Send, CacheInv, CacheTypeOK
  <2>4. length' = length /\ cache' = cache /\ stream' = stream /\ leftover' = leftover
        /\ g \in gap' /\ gap \subseteq gap'
    BY DEF Send
  <2> QED
    BY <2>1, <2>2, <2>3, <2>4 DEF RowHolds
<1> QED
  BY <1>1, <1>2, <1>3 DEF CacheInv

LEMMA PastTheArrayInv ==
    ASSUME CacheInv, NEW g \in Handles, NEW head \in BOOLEAN, PastTheArray(g, head)
    PROVE  CacheInv'
<1> USE DEF PastTheArray
<1>1. length[g] \in Nat /\ MAX_FRAME_LENTH \in Nat
  BY CacheAssumption DEF CacheInv, CacheTypeOK
<1>2. ~(length[g] < MAX_FRAME_LENTH)
  <2> SUFFICES ASSUME length[g] < MAX_FRAME_LENTH PROVE FALSE
    OBVIOUS
  <2>1. length[g] \in 0 .. MAX_FRAME_LENTH - 1
    BY <1>1
  <2> QED
    BY <2>1, PlaceInPlaces DEF NextPlace
<1>3. CacheTypeOK' /\ \A h \in Handles : stream'[h] <= streams'
  BY DEF Send, Overflow, CacheInv, CacheTypeOK
<1>4. ASSUME NEW h \in Handles, Safe(h)'
      PROVE  h # g /\ Safe(h)
  <2>1. CacheTypeOK /\ Overflow(g)
    BY DEF CacheInv
  <2> QED
    BY <2>1, <1>2, <1>4, SafeApart
<1>5. RowsTidy'
  BY <1>4 DEF CacheInv, RowsTidy
<1>6. ASSUME NEW h \in Handles, Safe(h)'
      PROVE  RowHolds(h)'
  <2>1. h # g /\ RowHolds(h)
    BY <1>4, <1>6 DEF CacheInv
  <2>2. stream' = stream /\ frame'[h] = frame[h] /\ sent'[h] = sent[h]
    BY <2>1 DEF Send, CacheInv, CacheTypeOK
  <2> QED
    BY <2>1, <2>2 DEF RowHolds, Sent
<1>7. FramesInOrder' /\ FramesWhole'
  BY DEF CacheInv, FramesInOrder, FramesWhole
<1> QED
  BY <1>3, <1>5, <1>6, <1>7 DEF CacheInv

(***************************************************************************)
(* A piece: it becomes the last one of its row.                            *)
(***************************************************************************)
LEMMA PartialDataInv ==
    ASSUME CacheInv, NEW g \in Handles, NEW empty \in BOOLEAN, PartialData(g, empty)
    PROVE  CacheInv'
<1> DEFINE piece == [handle |-> g, stream |-> stream[g], frame |-> frame[g],
                     num |-> sent[g] + 1, empty |-> empty]
<1>1. /\ CacheTypeOK /\ Overflow(g) /\ Send(g, FALSE)
      /\ Place(g, length[g]) \in Places
      /\ cache' = [cache EXCEPT ![Place(g, length[g])] = piece]
      /\ length' = [length EXCEPT ![g] = @ + 1]
      /\ gap' = gap /\ leftover' = leftover /\ stream' = stream /\ frame' = frame
      /\ sent' = [sent EXCEPT ![g] = @ + 1]
      /\ written' = written
  BY DEF PartialData, NextPlace, Send, CacheInv
<1>2. piece \in Piece /\ piece # NULL
  BY <1>1 DEF CacheTypeOK, Piece, NULL
<1> HIDE DEF piece
<1>3. length \in [Handles -> Nat] /\ cache \in [Places -> Piece] /\ MAX_FRAME_LENTH \in Nat
      /\ sent \in [Handles -> Nat] /\ frame \in [Handles -> Nat] /\ stream \in [Handles -> Nat]
  BY <1>1, CacheAssumption DEF CacheTypeOK
<1>4. CacheTypeOK' /\ \A h \in Handles : stream'[h] <= streams'
  <2>1. \A h \in Handles :
          gone' \/ Place(h, length'[h]) <= NET_IPC_MAX_NUM * MAX_FRAME_LENTH
    <3>1. Place(g, length[g]) + 1 <= NET_IPC_MAX_NUM * MAX_FRAME_LENTH
      BY <1>1, CacheAssumption DEF Places
    <3>2. Place(g, length'[g]) = Place(g, length[g]) + 1
      BY <1>1, <1>3, CacheAssumption DEF Place, Handles
    <3> QED
      BY <3>1, <3>2, <1>1, <1>3 DEF CacheTypeOK, PartialData
  <2> QED
    BY <1>1, <1>2, <1>3, <2>1 DEF PartialData, Send, Overflow, CacheInv, CacheTypeOK
\* The rows that stay safe: another one is not touched, and in its own there is room.
<1>5. ASSUME NEW h \in Handles, Safe(h)', h # g, NEW n \in 0 .. MAX_FRAME_LENTH - 1
      PROVE  cache'[Place(h, n)] = cache[Place(h, n)] /\ length'[h] = length[h] /\ Safe(h)
  <2>1. Safe(h) /\ Place(g, length[g]) # Place(h, n)
    BY <1>1, <1>3, <1>5, SafeApart
  <2>2. Place(h, n) \in Places
    BY PlaceInPlaces
  <2> QED
    BY <1>1, <1>3, <1>5, <2>1, <2>2
<1>6. ASSUME Safe(g)'
      PROVE  /\ Safe(g) /\ length[g] < MAX_FRAME_LENTH /\ length'[g] = length[g] + 1
             /\ cache'[Place(g, length[g])] = piece
             /\ \A n \in 0 .. MAX_FRAME_LENTH - 1 :
                    n # length[g] => cache'[Place(g, n)] = cache[Place(g, n)]
  <2>1. Safe(g) /\ length[g] < MAX_FRAME_LENTH
    BY <1>1, <1>6, SafeApart
  <2>2. ASSUME NEW n \in 0 .. MAX_FRAME_LENTH - 1, n # length[g]
        PROVE  cache'[Place(g, n)] = cache[Place(g, n)]
    <3>1. Place(g, n) # Place(g, length[g])
      BY <1>3, <2>2, PlaceInRow
    <3>2. Place(g, n) \in Places
      BY PlaceInPlaces
    <3> QED
      BY <3>1, <3>2, <1>1, <1>3
  <2> QED
    BY <1>1, <1>3, <2>1, <2>2
<1>7. RowsTidy'
  <2> SUFFICES ASSUME NEW h \in Handles, Safe(h)'
               PROVE  /\ length'[h] <= MAX_FRAME_LENTH
                      /\ \A n \in 0 .. MAX_FRAME_LENTH - 1 :
                            cache'[Place(h, n)] # NULL <=> n < length'[h]
    BY DEF RowsTidy
  <2>1. CASE h = g
    <3>1. length[g] < MAX_FRAME_LENTH /\ length'[g] = length[g] + 1 /\ Safe(g)
      BY <2>1, <1>6
    <3>2. ASSUME NEW n \in 0 .. MAX_FRAME_LENTH - 1
          PROVE  cache'[Place(g, n)] # NULL <=> n < length'[g]
      <4>1. cache[Place(g, n)] # NULL <=> n < length[g]
        BY <3>1 DEF CacheInv, RowsTidy
      <4>2. CASE n = length[g]
        BY <4>2, <3>1, <2>1, <1>2, <1>3, <1>6
      <4>3. CASE n # length[g]
        BY <4>1, <4>3, <3>1, <2>1, <1>3, <1>6
      <4> QED
        BY <4>2, <4>3
    <3> QED
      BY <2>1, <3>1, <3>2, <1>3
  <2>2. CASE h # g
    <3>1. 0 \in 0 .. MAX_FRAME_LENTH - 1
      BY CacheAssumption
    <3>2. Safe(h) /\ length'[h] = length[h]
      BY <2>2, <3>1, <1>5
    <3> QED
      BY <2>2, <3>2, <1>5 DEF CacheInv, RowsTidy
  <2> QED
    BY <2>1, <2>2
<1>8. ASSUME NEW h \in Handles, Safe(h)', h # g
      PROVE  RowHolds(h)'
  <2>1. 0 \in 0 .. MAX_FRAME_LENTH - 1
    BY CacheAssumption
  <2>2. Safe(h) /\ length'[h] = length[h] /\ RowHolds(h)
    BY <2>1, <1>5, <1>8 DEF CacheInv
  <2>3. \A n \in 0 .. length[h] - 1 : cache'[Place(h, n)] = cache[Place(h, n)]
    BY <2>2, <1>5, <1>8, RowPlaces
  <2>4. \A n \in 0 .. length[h] - 1 : n > 0 => n - 1 \in 0 .. length[h] - 1
    BY <1>3
  <2>5. sent'[h] = sent[h]
    BY <1>1, <1>3, <1>8
  <2> QED
    BY <2>2, <2>3, <2>4, <2>5, <1>1 DEF RowHolds, Sent
<1>9. ASSUME Safe(g)'
      PROVE  RowHolds(g)'
  <2>1. /\ Safe(g) /\ RowHolds(g) /\ length'[g] = length[g] + 1 /\ length[g] \in Nat
        /\ cache'[Place(g, length[g])] = piece
        /\ \A n \in 0 .. length[g] - 1 :
               cache'[Place(g, n)] = cache[Place(g, n)] /\ cache[Place(g, n)] \in Piece
    BY <1>3, <1>6, <1>9, RowPlaces DEF CacheInv
  <2>2. /\ piece.handle = g /\ piece.num = sent[g] + 1 /\ piece.stream = stream[g]
        /\ piece.frame = frame[g] /\ sent'[g] = sent[g] + 1 /\ sent[g] \in Nat
        /\ frame[g] \in Nat /\ stream[g] \in Nat
    BY <1>1, <1>3 DEF piece
  <2>3. ASSUME NEW n \in 0 .. length[g] - 1
        PROVE  Sent(cache[Place(g, n)], g)'
    <3>1. cache'[Place(g, n)] = cache[Place(g, n)] /\ cache[Place(g, n)] \in Piece
          /\ Sent(cache[Place(g, n)], g)
      BY <2>1 DEF RowHolds
    <3> QED
      BY <3>1, <2>2, <1>1 DEF Sent, Piece
  <2>4. ASSUME NEW n \in 0 .. length[g] - 1
        PROVE  Earlier(cache[Place(g, n)], piece)
    <3>1. cache[Place(g, n)] \in Piece /\ Sent(cache[Place(g, n)], g)
      BY <2>1 DEF RowHolds
    <3> QED
      BY <3>1, <2>2 DEF Sent, Earlier, Piece
  <2>5. ASSUME NEW n \in 0 .. length'[g] - 1
        PROVE  /\ cache'[Place(g, n)].handle = g
               /\ cache'[Place(g, n)].num > 0
               /\ Sent(cache[Place(g, n)], g)'
               /\ n > 0 => Earlier(cache'[Place(g, n - 1)], cache'[Place(g, n)])
    <3>1. CASE n = length[g]
      <4>1. n > 0 => n - 1 \in 0 .. length[g] - 1
        BY <3>1, <2>1
      <4>2. Sent(cache[Place(g, n)], g)'
        BY <3>1, <2>1, <2>2, <1>1 DEF Sent
      <4> QED
        BY <3>1, <4>1, <4>2, <2>1, <2>2, <2>4
    <3>2. CASE n # length[g]
      <4>1. n \in 0 .. length[g] - 1 /\ (n > 0 => n - 1 \in 0 .. length[g] - 1)
        BY <3>2, <2>1
      <4> QED
        BY <4>1, <2>1, <2>3 DEF RowHolds
    <3> QED
      BY <3>1, <3>2
  <2>6. ASSUME g \notin gap' \cup leftover'
        PROVE  /\ length'[g] = sent'[g]
               /\ \A n \in 0 .. length'[g] - 1 :
                    /\ cache'[Place(g, n)].stream = stream'[g]
                    /\ cache'[Place(g, n)].frame = frame'[g]
                    /\ cache'[Place(g, n)].num = n + 1
    <3>1. length[g] = sent[g]
      BY <2>1, <2>6, <1>1 DEF RowHolds
    <3>2. ASSUME NEW n \in 0 .. length'[g] - 1
          PROVE  /\ cache'[Place(g, n)].stream = stream'[g]
                 /\ cache'[Place(g, n)].frame = frame'[g]
                 /\ cache'[Place(g, n)].num = n + 1
      <4>1. CASE n = length[g]
        BY <4>1, <3>1, <2>1, <2>2, <1>1
      <4>2. CASE n # length[g]
        <5>1. n \in 0 .. length[g] - 1
          BY <4>2, <2>1
        <5> QED
          BY <5>1, <2>1, <2>6, <1>1 DEF RowHolds
      <4> QED
        BY <4>1, <4>2
    <3> QED
      BY <3>1, <3>2, <2>1, <2>2
  <2> QED
    BY <2>5, <2>6 DEF RowHolds
<1>10. FramesInOrder' /\ FramesWhole'
  BY <1>1 DEF CacheInv, FramesInOrder, FramesWhole
<1> QED
  BY <1>4, <1>7, <1>8, <1>9, <1>10 DEF CacheInv

(***************************************************************************)
(* The pack that begins a frame: its row is emptied.                       *)
(***************************************************************************)
LEMMA PackHeadInv ==
    ASSUME CacheInv, NEW g \in Handles, NEW queueid \in {-1, 1}, PackHead(g, queueid)
    PROVE  CacheInv'
<1>1. /\ CacheTypeOK /\ Overflow(g) /\ Send(g, TRUE)
      /\ cache' = [p \in Places |-> IF p \in Cleared(g) THEN NULL ELSE cache[p]]
      /\ length' = [length EXCEPT ![g] = 0]
      /\ gap' = gap \ {g} /\ leftover' = leftover \ {g} /\ stream' = stream
      /\ frame' = [frame EXCEPT ![g] = @ + 1]
      /\ sent' = [sent EXCEPT ![g] = 0]
  BY DEF PackHead, Emptied, Send, CacheInv
<1>2. NULL \in Piece
  BY CacheAssumption DEF NULL, Piece, Handles
<1>3. length \in [Handles -> Nat] /\ cache \in [Places -> Piece]
      /\ MAX_FRAME_LENTH \in Nat /\ MAX_FRAME_LENTH > 0
      /\ sent \in [Handles -> Nat] /\ frame \in [Handles -> Nat]
  BY <1>1, CacheAssumption DEF CacheTypeOK
<1>4. CacheTypeOK' /\ \A h \in Handles : stream'[h] <= streams'
  <2>1. Place(g, 0) <= NET_IPC_MAX_NUM * MAX_FRAME_LENTH
    <3>1. Place(g, 0) \in Places
      BY <1>3, PlaceInPlaces
    <3> QED
      BY <3>1, CacheAssumption DEF Places
  <2>2. \A h \in Handles :
          gone' \/ Place(h, length'[h]) <= NET_IPC_MAX_NUM * MAX_FRAME_LENTH
    BY <2>1, <1>1, <1>3 DEF CacheTypeOK, PackHead
  <2>3. cache' \in [Places -> Piece] /\ length' \in [Handles -> Nat]
    BY <1>1, <1>2, <1>3
  <2> QED
    BY <1>1, <1>3, <2>2, <2>3 DEF PackHead, Send, Overflow, CacheInv, CacheTypeOK
<1>5. Cleared(g) = {Place(g, m) : m \in 0 .. length[g]}
  <2>1. 0 .. length[g] = (0 .. length[g] - 1) \cup {length[g]}
    BY <1>3
  <2> QED
    BY <2>1 DEF Cleared, Row, NextPlace
<1>6. ASSUME NEW h \in Handles, Safe(h)', h # g, NEW n \in 0 .. MAX_FRAME_LENTH - 1
      PROVE  cache'[Place(h, n)] = cache[Place(h, n)] /\ length'[h] = length[h] /\ Safe(h)
  <2>1. Safe(h) /\ Place(h, n) \notin Cleared(g)
    BY <1>1, <1>5, <1>6, SafeApart
  <2>2. Place(h, n) \in Places
    BY PlaceInPlaces
  <2> QED
    BY <1>1, <1>3, <1>6, <2>1, <2>2
<1>7. RowsTidy'
  <2> SUFFICES ASSUME NEW h \in Handles, Safe(h)'
               PROVE  /\ length'[h] <= MAX_FRAME_LENTH
                      /\ \A n \in 0 .. MAX_FRAME_LENTH - 1 :
                            cache'[Place(h, n)] # NULL <=> n < length'[h]
    BY DEF RowsTidy
  <2>1. CASE h = g
    <3>1. Safe(g) /\ length'[g] = 0
      BY <2>1, <1>1, <1>3, SafeApart
    <3>2. ASSUME NEW n \in 0 .. MAX_FRAME_LENTH - 1
          PROVE  cache'[Place(g, n)] = NULL
      <4>1. Place(g, n) \in Places
        BY PlaceInPlaces
      <4>2. CASE n < length[g]
        <5>1. n \in 0 .. length[g]
          BY <4>2, <1>3
        <5> QED
          BY <5>1, <4>1, <1>1, <1>5
      <4>3. CASE ~(n < length[g])
        <5>1. cache[Place(g, n)] = NULL
          BY <4>3, <3>1 DEF CacheInv, RowsTidy
        <5> QED
          BY <5>1, <4>1, <1>1
      <4> QED
        BY <4>2, <4>3
    <3> QED
      BY <2>1, <3>1, <3>2, <1>3
  <2>2. CASE h # g
    <3>1. 0 \in 0 .. MAX_FRAME_LENTH - 1
      BY <1>3
    <3>2. Safe(h) /\ length'[h] = length[h]
      BY <2>2, <3>1, <1>6
    <3> QED
      BY <2>2, <3>2, <1>6 DEF CacheInv, RowsTidy
  <2> QED
    BY <2>1, <2>2
<1>8. ASSUME NEW h \in Handles, Safe(h)'
      PROVE  RowHolds(h)'
  <2>1. CASE h = g
    BY <2>1, <1>1, <1>3 DEF RowHolds
  <2>2. CASE h # g
    <3>1. 0 \in 0 .. MAX_FRAME_LENTH - 1
      BY <1>3
    <3>2. Safe(h) /\ length'[h] = length[h] /\ RowHolds(h)
      BY <2>2, <3>1, <1>6, <1>8 DEF CacheInv
    <3>3. \A n \in 0 .. length[h] - 1 : cache'[Place(h, n)] = cache[Place(h, n)]
      BY <2>2, <3>2, <1>6, <1>8, RowPlaces
    <3>4. \A n \in 0 .. length[h] - 1 : n > 0 => n - 1 \in 0 .. length[h] - 1
      BY <1>3
    <3>5. sent'[h] = sent[h] /\ frame'[h] = frame[h] /\ stream' = stream
          /\ (h \notin gap' \cup leftover' => h \notin gap \cup leftover)
      BY <1>1, <1>3, <2>2
    <3> QED
      BY <3>2, <3>3, <3>4, <3>5 DEF RowHolds, Sent
  <2> QED
    BY <2>1, <2>2
\* The frame that is written is the row.
<1>9. CASE written' = written
  BY <1>9, <1>4, <1>7, <1>8 DEF CacheInv, FramesInOrder, FramesWhole
<1>10. CASE written' # written
  <2>1. written' = [handle |-> g, total |-> sent[g], parts |-> Copied(g),
                    safe |-> Safe(g), whole |-> g \notin gap \cup leftover]
    BY <1>10 DEF PackHead
  <2>2. /\ written'.handle = g /\ written'.total = sent[g] /\ written'.safe = Safe(g)
        /\ written'.whole = (g \notin gap \cup leftover)
        /\ written'.parts = [n \in 0 .. length[g] - 1 |-> cache[Place(g, n)]]
    BY <2>1 DEF Copied
  <2>3. \A n \in 0 .. length[g] - 1 : n > 0 => n - 1 \in 0 .. length[g] - 1
    BY <1>3
  <2>4. Safe(g) => RowHolds(g)
    BY DEF CacheInv
  <2>5. FramesInOrder'
    <3> SUFFICES ASSUME Safe(g), NEW n \in 0 .. length[g] - 1
                 PROVE  /\ written'.parts[n].handle = g /\ written'.parts[n].num > 0
                        /\ n > 0 => Earlier(written'.parts[n - 1], written'.parts[n])
      BY <2>2 DEF FramesInOrder, Earlier
    <3> QED
      BY <2>2, <2>3, <2>4 DEF RowHolds
  <2>6. FramesWhole'
    <3> SUFFICES ASSUME Safe(g), g \notin gap \cup leftover
                 PROVE  /\ length[g] = sent[g]
                        /\ \A n \in 0 .. length[g] - 1 :
                            /\ written'.parts[n].num = n + 1
                            /\ written'.parts[n].stream = written'.parts[0].stream
                            /\ written'.parts[n].frame = written'.parts[0].frame
      BY <2>2 DEF FramesWhole
    <3>1. \A n \in 0 .. length[g] - 1 : 0 \in 0 .. length[g] - 1
      BY <1>3
    <3> QED
      BY <2>2, <2>4, <3>1 DEF RowHolds
  <2> QED
    BY <2>5, <2>6, <1>4, <1>7, <1>8 DEF CacheInv
<1> QED
  BY <1>9, <1>10
-----------------------------------------------------------------------------
(***************************************************************************)
(* The invariant of the cache holds in every state, for every number of    *)
(* handles and of places of a row (CacheAssumption is all that is assumed  *)
(* of the constants), whatever streams are opened, closed and opened again *)
(* and whichever packs the callback does not find a DVR for.               *)
(***************************************************************************)
THEOREM CacheInvHolds == CacheSpec => []CacheInv
<1>1. ASSUME CacheInv, [CacheNext]_cacheVars PROVE CacheInv'
  <2>1. CASE UNCHANGED cacheVars
    BY <2>1, <1>1 DEF cacheVars, sdkVars, cacheHistVars, CacheInv, CacheTypeOK, RowsTidy, Safe, RowHolds, Sent,
                      FramesInOrder, FramesWhole
  <2>2. CASE CacheNext
    <3>1. PICK h \in Handles : RealPlay(h) \/ StopRealPlay(h) \/ g_RealDataCallBack_V30(h)
      BY <2>2 DEF CacheNext
    <3>2. CASE g_RealDataCallBack_V30(h)
      BY <3>2, <1>1, NotFoundInv, PastTheArrayInv, PartialDataInv, PackHeadInv
         DEF g_RealDataCallBack_V30
    <3> QED
      BY <3>1, <3>2, <1>1, RealPlayInv, StopRealPlayInv
  <2> QED
    BY <1>1, <2>1, <2>2
<1> QED
  BY <1>1, CacheInitInv, PTL DEF CacheSpec

(***************************************************************************)
(* RowsTidy: m_pFrameCache holds buffers in the first m_mFrameCacheLenth   *)
(* places of a row and nowhere else, unless g_RealDataCallBack_V30 wrote   *)
(* past the end of this row or of one before it.                           *)
(***************************************************************************)
THEOREM RowsTidyHolds == CacheSpec => []RowsTidy
BY CacheInvHolds, PTL DEF CacheInv

(***************************************************************************)
(* FramesInOrder: a frame that the callback writes has the pieces of its   *)
(* own handle, in order.                                                   *)
(***************************************************************************)
THEOREM FramesInOrderHolds == CacheSpec => []FramesInOrder
BY CacheInvHolds, PTL DEF CacheInv

(***************************************************************************)
(* FramesWhole: if no pack was missed and nothing was left over of another *)
(* stream, the callback writes whole frames.                               *)
(***************************************************************************)
THEOREM FramesWholeHolds == CacheSpec => []FramesWhole
BY CacheInvHolds, PTL DEF CacheInv
=============================================================================
