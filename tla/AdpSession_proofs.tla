-------------------------- MODULE AdpSession_proofs --------------------------
(***************************************************************************)
(* Sessions of clients, for every number of threads, levels, ids, logins   *)
(* and calls.                                                              *)
(***************************************************************************)
EXTENDS AdpSession, WellFoundedInduction, SequenceTheorems, TLAPS

MakeLabels == {"load", "store", "regist"}
LoginLabels == {"load", "store", "regist", "list"}
LogoutLabels == {"unregist", "del", "free"}
CallLabels == {"fun", "find", "use", "unregist", "del", "free"}

LocalRec == [handle : Handles \cup {NULL}, who : Handles \cup {NULL}, level : Levels \cup {0},
             n : 0 .. ID_MAX - 1, id : UsrIDs, usr : Handles \cup {NULL}]

Typed ==
    /\ usrID \in 0 .. ID_MAX - 1
    /\ registHead \in Seq(Handles)
    /\ listHead \in Seq(Handles)
    /\ handleID \in [Handles -> UsrIDs]
    /\ allocated \subseteq Handles
    /\ selfMutex \in Threads \cup {NULL}
    /\ pc \in [Threads -> Labels]
    /\ local \in [Threads -> LocalRec]
    /\ granted \in [Handles -> UsrIDs]
    /\ logins \in 0 .. MaxLogins
    /\ calls \in 0 .. MaxCalls
    /\ fault \in Handles \cup {NULL}
    /\ overlapped \subseteq Handles
    /\ shared \in BOOLEAN /\ raced \in BOOLEAN /\ wrapped \in BOOLEAN

\* The mutex is held during the removal from the list.
MutexHeld == \A t \in Threads : (selfMutex = t) <=> (pc[t] = "del")

\* What the variables of a thread hold in each phase.
LocalSet ==
    \A t \in Threads :
        /\ pc[t] # "idle" => local[t].handle \in Handles
        /\ pc[t] \in MakeLabels => local[t].level \in Levels
        /\ pc[t] = "use" => local[t].usr \in Handles
        /\ pc[t] = "find" => local[t].id # NoUsrID

\* Handles are allocated in order; those of later logins are untouched.
Unborn ==
    \A h \in Handles : h > innerHandle + logins =>
        /\ h \notin allocated \cup ToSet(registHead) \cup ToSet(listHead)
        /\ handleID[h] = NoUsrID /\ granted[h] = NoUsrID
        /\ \A t \in Threads : pc[t] # "idle" => local[t].handle # h

\* The handle of a login belongs to its thread alone until it is in the list.
LoginOwn ==
    \A t \in Threads : pc[t] \in LoginLabels =>
        LET h == local[t].handle
        IN  /\ h \in allocated /\ h \notin ToSet(listHead) /\ granted[h] = NoUsrID
            /\ \A u \in Threads \ {t} : pc[u] # "idle" => local[u].handle # h
            /\ pc[t] \in MakeLabels => h \notin ToSet(registHead) /\ handleID[h] = NoUsrID
            /\ pc[t] = "list" => handleID[h] # NoUsrID

\* Two calls with one handle, one of them a logout, have been noticed.
OverlapNoticed ==
    \A t, u \in Threads :
        /\ pc[t] \in LogoutLabels /\ pc[u] \in CallLabels
        /\ t # u /\ local[t].handle = local[u].handle
        => local[t].handle \in overlapped

\* No handle is twice in a list.
InListsOnce ==
    /\ \A k, m \in DOMAIN registHead : registHead[k] = registHead[m] => k = m
    /\ \A k, m \in DOMAIN listHead : listHead[k] = listHead[m] => k = m

\* Handles in use are allocated, and so are those in the list.
CallsAllocated ==
    /\ \A t \in Threads : pc[t] \in CallLabels => local[t].handle \in allocated \cup overlapped
    /\ ToSet(listHead) \subseteq allocated
    /\ \A t \in Threads : pc[t] = "free" => local[t].handle \notin ToSet(listHead)

\* The registrations, as long as no id was given to two.
Registered ==
    /\ \A h \in Handles : h \in ToSet(registHead) <=> handleID[h] # NoUsrID
    /\ \A h, g \in Handles : handleID[h] = handleID[g] /\ handleID[h] # NoUsrID => h = g
    /\ ToSet(registHead) \subseteq allocated
    /\ \A t \in Threads : pc[t] \in {"del", "free"} => local[t].handle \notin ToSet(registHead)
    /\ \A h \in ToSet(listHead) : handleID[h] = NoUsrID =>
           \E t \in Threads : pc[t] = "del" /\ local[t].handle = h

\* A request that asks who its user is finds the registration of its own
\* handle, or none, when its session was logged out meanwhile.
Looked ==
    \A t \in Threads :
        LET h == local[t].handle
        IN  /\ pc[t] = "find" =>
                 /\ h \in overlapped \/ handleID[h] = local[t].id
                 /\ \A g \in Handles : handleID[g] = local[t].id => g = h
            /\ pc[t] = "use" => local[t].usr = h /\ (h \in overlapped \/ h \in ToSet(registHead))

\* As long as MakeUsrID runs alone and the counter has not started again, it is
\* ahead of all ids.
CounterAhead ==
    /\ ~shared
    /\ usrID >= 1
    /\ \A t, u \in Threads : InMakeUsrID(t) /\ InMakeUsrID(u) => t = u
    /\ \A t \in Threads : pc[t] = "store" => local[t].n = usrID
    /\ \A h \in Handles : handleID[h][2] <= usrID /\ granted[h][2] <= usrID
    /\ \A t \in Threads : pc[t] = "find" => local[t].id[2] <= usrID
    /\ (\E t \in Threads : pc[t] = "regist") =>
          /\ \A h \in Handles : handleID[h][2] < usrID /\ granted[h][2] < usrID
          /\ \A t \in Threads : pc[t] = "find" => local[t].id[2] < usrID
    /\ \A h, g \in Handles : handleID[h] # NoUsrID /\ granted[g] = handleID[h] => g = h

OwnersOnly ==
    \A t \in Threads :
        pc[t] \in {"fun", "find", "use", "unregist"} =>
            \/ local[t].who = local[t].handle
            \/ local[t].who = NULL /\ local[t].handle \in overlapped

AdpInv ==
    /\ Typed
    /\ MutexHeld
    /\ LocalSet
    /\ Unborn
    /\ LoginOwn
    /\ OverlapNoticed
    /\ InListsOnce
    /\ CallsAllocated
    /\ ~shared => Registered /\ Looked
    /\ raced \/ wrapped \/ (CounterAhead /\ OwnersOnly)
    /\ fault # NULL => fault \in overlapped \/ shared
-----------------------------------------------------------------------------
\* A sequence without its k-th element.
LEMMA RemoveAtIs ==
    ASSUME NEW S, NEW l \in Seq(S), NEW k \in 1 .. Len(l)
    PROVE  /\ RemoveAt(l, k) \in Seq(S)
           /\ Len(RemoveAt(l, k)) = Len(l) - 1
           /\ \A j \in 1 .. Len(l) - 1 :
                  RemoveAt(l, k)[j] = IF j < k THEN l[j] ELSE l[j + 1]
<1> DEFINE a == SubSeq(l, 1, k - 1)
           b == SubSeq(l, k + 1, Len(l))
<1>1. \A j \in 1 .. Len(l) : l[j] \in S
  OBVIOUS
<1>2. Len(l) \in Nat /\ k \in Nat /\ 1 <= k /\ k <= Len(l)
  OBVIOUS
<1>3. a \in Seq(S) /\ Len(a) = k - 1 /\ \A j \in 1 .. k - 1 : a[j] = l[j]
  BY <1>1, <1>2, SubSeqProperties
<1>4. b \in Seq(S) /\ Len(b) = Len(l) - k /\ \A j \in 1 .. Len(l) - k : b[j] = l[k + j]
  BY <1>1, <1>2, SubSeqProperties
<1>5. RemoveAt(l, k) = a \o b
  BY DEF RemoveAt
<1> HIDE DEF a, b
<1>6. /\ a \o b \in Seq(S)
      /\ Len(a \o b) = Len(l) - 1
      /\ \A j \in 1 .. Len(l) - 1 : (a \o b)[j] = IF j < k THEN a[j] ELSE b[j - (k - 1)]
  <2>1. /\ a \o b \in Seq(S) /\ Len(a \o b) = Len(a) + Len(b)
        /\ \A j \in 1 .. Len(a) + Len(b) : (a \o b)[j] = IF j <= Len(a) THEN a[j] ELSE b[j - Len(a)]
    BY <1>3, <1>4, ConcatProperties
  <2>2. Len(a) + Len(b) = Len(l) - 1
    BY <1>2, <1>3, <1>4
  <2>3. \A j \in 1 .. Len(l) - 1 : j <= Len(a) <=> j < k
    BY <1>2, <1>3
  <2> QED
    BY <1>3, <2>1, <2>2, <2>3
<1>7. \A j \in 1 .. Len(l) - 1 : (a \o b)[j] = IF j < k THEN l[j] ELSE l[j + 1]
  <2> TAKE j \in 1 .. Len(l) - 1
  <2>1. CASE j < k
    BY <1>2, <1>3, <1>6, <2>1
  <2>2. CASE ~(j < k)
    <3>1. j - (k - 1) \in 1 .. Len(l) - k /\ k + (j - (k - 1)) = j + 1
      BY <1>2, <2>2
    <3> QED
      BY <1>2, <1>4, <1>6, <2>2, <3>1
  <2> QED
    BY <2>1, <2>2
<1> QED
  BY <1>5, <1>6, <1>7

\* The least element, for a well-founded relation that contains <.
LEMMA LeastByRelation ==
    ASSUME NEW S, NEW R, S \subseteq Nat, S # {},
           IsWellFoundedOn(R, Nat),
           \A x, y \in Nat : y < x => <<y, x>> \in R
    PROVE  \E x \in S : \A y \in S : x <= y
<1>1. PICK x \in S : \A y \in S : ~(<<y, x>> \in R)
  BY WFMin, Zenon
<1>2. \A y \in S : ~(y < x)
  BY <1>1, Zenon
<1>3. \A y \in S : x <= y
  BY <1>2, SMT
<1> QED
  BY <1>3, Zenon

\* Every non-empty set of naturals has a least element.
LEMMA FirstExists ==
    ASSUME NEW S, S \subseteq Nat, S # {}
    PROVE  \E x \in S : \A y \in S : x <= y
<1>1. \A x, y \in Nat : y < x => <<y, x>> \in OpToRel(<, Nat)
  BY Zenon DEF OpToRel
<1> QED
  BY <1>1, LeastByRelation, NatLessThanWellFounded, Zenon


LEMMA ToSetIs ==
    ASSUME NEW S, NEW l \in Seq(S)
    PROVE  /\ ToSet(l) \subseteq S
           /\ \A k \in DOMAIN l : l[k] \in ToSet(l)
           /\ \A e \in ToSet(l) : \E k \in DOMAIN l : l[k] = e
  BY DEF ToSet

LEMMA ToSetAppend ==
    ASSUME NEW S, NEW l \in Seq(S), NEW e \in S, e \notin ToSet(l),
           \A k, m \in DOMAIN l : l[k] = l[m] => k = m
    PROVE  /\ Append(l, e) \in Seq(S)
           /\ ToSet(Append(l, e)) = ToSet(l) \cup {e}
           /\ \A k, m \in DOMAIN Append(l, e) : Append(l, e)[k] = Append(l, e)[m] => k = m
<1> DEFINE a == Append(l, e)
<1>1. /\ a \in Seq(S) /\ DOMAIN a = 1 .. Len(l) + 1 /\ DOMAIN l = 1 .. Len(l) /\ Len(l) \in Nat
      /\ a[Len(l) + 1] = e /\ \A k \in 1 .. Len(l) : a[k] = l[k]
  OBVIOUS
<1>2. \A k \in DOMAIN l : l[k] # e
  BY DEF ToSet
<1> HIDE DEF a
<1>3. ToSet(a) = ToSet(l) \cup {e}
  BY <1>1 DEF ToSet
<1>4. \A k, m \in DOMAIN a : a[k] = a[m] => k = m
  BY <1>1, <1>2
<1> QED
  BY <1>1, <1>3, <1>4 DEF a

\* SelectInSeq finds the first position.
LEMMA RemoveFirstIs ==
    ASSUME NEW S, NEW l \in Seq(S), NEW e \in ToSet(l),
           \A k, m \in DOMAIN l : l[k] = l[m] => k = m
    PROVE  /\ RemoveFirst(l, e) \in Seq(S)
           /\ ToSet(RemoveFirst(l, e)) = ToSet(l) \ {e}
           /\ \A k, m \in DOMAIN RemoveFirst(l, e) :
                  RemoveFirst(l, e)[k] = RemoveFirst(l, e)[m] => k = m
<1> DEFINE I == {i \in 1 .. Len(l) : l[i] = e}
<1>1. Len(l) \in Nat /\ DOMAIN l = 1 .. Len(l)
  OBVIOUS
<1>2. I # {} /\ I \subseteq Nat
  BY <1>1 DEF ToSet
<1>3. \E i \in 1 .. Len(l) : l[i] = e
  BY <1>2
<1>4. PICK p \in I : RemoveFirst(l, e) = RemoveAt(l, p)
  <2>1. \E i \in I : \A j \in I : i <= j
    BY <1>2, FirstExists
  <2>2. SelectInSeq(l, LAMBDA v : v = e) \in I
    BY <1>2, <2>1 DEF SelectInSeq, Min
  <2> QED
    BY <1>3, <2>2 DEF RemoveFirst
<1>5. p \in 1 .. Len(l) /\ l[p] = e /\ p \in Nat
  BY <1>2
<1> DEFINE r == RemoveAt(l, p)
<1>6. r \in Seq(S) /\ Len(r) = Len(l) - 1 /\ \A j \in 1 .. Len(l) - 1 : r[j] = IF j < p THEN l[j] ELSE l[j + 1]
  BY <1>5, RemoveAtIs
<1>7. DOMAIN r = 1 .. Len(l) - 1
  BY <1>6
<1> HIDE DEF r, I
<1>8. ASSUME NEW k \in DOMAIN r, NEW m \in DOMAIN r, r[k] = r[m] PROVE k = m
  <2> DEFINE At(j) == IF j < p THEN j ELSE j + 1
  <2>1. At(k) \in DOMAIN l /\ At(m) \in DOMAIN l /\ r[k] = l[At(k)] /\ r[m] = l[At(m)]
    BY <1>1, <1>5, <1>6, <1>7
  <2>2. At(k) = At(m)
    BY <1>8, <2>1
  <2> QED
    BY <1>1, <1>5, <1>7, <2>2
<1>9. \A j \in DOMAIN r : \E k \in DOMAIN l : r[j] = l[k] /\ l[k] # e
  BY <1>1, <1>5, <1>6, <1>7
<1>10. ASSUME NEW k \in DOMAIN l, l[k] # e PROVE \E j \in DOMAIN r : r[j] = l[k]
  <2>1. CASE k < p
    BY <1>1, <1>5, <1>6, <1>7, <2>1
  <2>2. CASE k > p
    <3>1. k - 1 \in DOMAIN r /\ r[k - 1] = l[k]
      BY <1>1, <1>5, <1>6, <1>7, <2>2
    <3> QED
      BY <3>1
  <2> QED
    BY <1>1, <1>5, <1>10, <2>1, <2>2
<1>11. ToSet(r) = ToSet(l) \ {e}
  BY <1>9, <1>10 DEF ToSet
<1> QED
  BY <1>4, <1>6, <1>8, <1>11 DEF r

-----------------------------------------------------------------------------
\* Constants, ids and the walks of a list.
LEMMA ConstFacts ==
    /\ NULL \notin Threads /\ NULL \notin Handles /\ Handles \subseteq Nat
    /\ Levels \subseteq Nat /\ 0 \notin Levels /\ InnerLevel \in Levels
    /\ ID_MAX \in Nat /\ ID_MAX > 1 /\ MaxLogins \in Nat /\ MaxCalls \in Nat
    /\ innerHandle = 1 /\ innerHandle \in Handles
    /\ \A h \in Nat : h \in Handles <=> (1 <= h /\ h <= 1 + MaxLogins)
  BY AdpAssumption DEF NULL, Handles, innerHandle

LEMMA IdFacts ==
    /\ NoUsrID \in UsrIDs /\ NoUsrID[2] = 0
    /\ \A i \in UsrIDs : i[2] \in Nat
    /\ \A l \in Levels, n \in 0 .. ID_MAX - 1 :
           UsrID(l, n) \in UsrIDs /\ UsrID(l, n) # NoUsrID /\ UsrID(l, n)[2] = n
<1>1. 0 \in 0 .. ID_MAX - 1 /\ 0 .. ID_MAX - 1 \subseteq Nat
  BY ConstFacts
<1> QED
  BY <1>1, ConstFacts DEF NoUsrID, UsrID, UsrIDs

\* A search ends at an element that has the id, or there is none.
LEMMA GetHandleIs ==
    ASSUME NEW l \in Seq(Handles), NEW id
    PROVE  LET h == GetHandleByInt(l, id)
           IN  \/ h = NULL /\ \A g \in ToSet(l) : handleID[g] # id
               \/ h # NULL /\ h \in ToSet(l) /\ handleID[h] = id
<1> DEFINE found == {k \in DOMAIN l : handleID[l[k]] = id}
<1>1. CASE found = {}
  <2>1. GetHandleByInt(l, id) = NULL
    BY <1>1 DEF GetHandleByInt
  <2>2. \A g \in ToSet(l) : handleID[g] # id
    BY <1>1, ToSetIs
  <2> QED
    BY <2>1, <2>2
<1>2. CASE found # {}
  <2>1. found \subseteq Nat
    OBVIOUS
  <2>2. \E k \in found : \A m \in found : k <= m
    BY <1>2, <2>1, FirstExists
  <2>3. PICK k \in found : GetHandleByInt(l, id) = l[k]
    BY <1>2, <2>2 DEF GetHandleByInt
  <2>4. l[k] \in ToSet(l) /\ l[k] \in Handles /\ handleID[l[k]] = id
    BY ToSetIs
  <2>5. l[k] # NULL
    BY <2>4, ConstFacts
  <2> QED
    BY <2>3, <2>4, <2>5
<1> QED
  BY <1>1, <1>2

LEMMA FreedIs ==
    ASSUME NEW l, NEW id, NEW g \in FreedOnWalk(l, id)
    PROVE  g \in ToSet(l) /\ g \notin allocated
  BY DEF FreedOnWalk, ToSet

LEMMA LocalFacts ==
    /\ NoLocal \in LocalRec
    /\ NoLocal.handle = NULL
    /\ \A r \in LocalRec : /\ r.handle \in Handles \cup {NULL} /\ r.who \in Handles \cup {NULL}
                           /\ r.level \in Levels \cup {0} /\ r.n \in 0 .. ID_MAX - 1
                           /\ r.id \in UsrIDs /\ r.usr \in Handles \cup {NULL}
<1>1. 0 \in 0 .. ID_MAX - 1 /\ NoUsrID \in UsrIDs
  BY ConstFacts, IdFacts
<1> QED
  BY <1>1 DEF NoLocal, LocalRec
-----------------------------------------------------------------------------
LEMMA InitHolds == Init => AdpInv
<1> SUFFICES ASSUME Init PROVE AdpInv
  OBVIOUS
<1>1. /\ usrID = 1 /\ registHead = <<innerHandle>> /\ listHead = << >>
      /\ handleID = [h \in Handles |-> IF h = innerHandle THEN UsrID(InnerLevel, 1) ELSE NoUsrID]
      /\ allocated = {innerHandle} /\ selfMutex = NULL
      /\ pc = [t \in Threads |-> "idle"] /\ local = [t \in Threads |-> NoLocal]
      /\ granted = [h \in Handles |-> NoUsrID] /\ logins = 0 /\ calls = 0
      /\ fault = NULL /\ overlapped = {} /\ shared = FALSE /\ raced = FALSE /\ wrapped = FALSE
  BY DEF Init
<1>2. 1 \in 0 .. ID_MAX - 1 /\ 0 \in 0 .. MaxLogins /\ 0 \in 0 .. MaxCalls
  BY ConstFacts
<1>3. UsrID(InnerLevel, 1) \in UsrIDs /\ UsrID(InnerLevel, 1) # NoUsrID /\ UsrID(InnerLevel, 1)[2] = 1
  BY <1>2, ConstFacts, IdFacts
<1>4. ToSet(registHead) = {innerHandle} /\ ToSet(listHead) = {}
  BY <1>1 DEF ToSet
<1>5. /\ \A t \in Threads : pc[t] = "idle"
      /\ \A h \in Handles : granted[h] = NoUsrID
      /\ \A h \in Handles : handleID[h] = IF h = innerHandle THEN UsrID(InnerLevel, 1) ELSE NoUsrID
  BY <1>1
<1>6. Typed
  <2>1. registHead \in Seq(Handles) /\ listHead \in Seq(Handles)
    BY <1>1, ConstFacts
  <2>2. handleID \in [Handles -> UsrIDs] /\ granted \in [Handles -> UsrIDs]
    BY <1>1, <1>3, IdFacts
  <2>3. pc \in [Threads -> Labels] /\ local \in [Threads -> LocalRec]
    BY <1>1, LocalFacts DEF Labels
  <2> QED
    BY <1>1, <1>2, <2>1, <2>2, <2>3, ConstFacts DEF Typed
<1>7. MutexHeld
  BY <1>1, <1>5, ConstFacts DEF MutexHeld
<1>8. LocalSet /\ LoginOwn /\ OverlapNoticed
  BY <1>5 DEF LocalSet, LoginOwn, OverlapNoticed, MakeLabels, LoginLabels, LogoutLabels, CallLabels
<1>9. Unborn
  BY <1>1, <1>4, <1>5, ConstFacts DEF Unborn
<1>10. InListsOnce
  BY <1>1 DEF InListsOnce
<1>11. CallsAllocated
  BY <1>4, <1>5 DEF CallsAllocated, CallLabels
<1>12. Registered
  <2>1. \A h \in Handles : h \in ToSet(registHead) <=> handleID[h] # NoUsrID
    BY <1>3, <1>4, <1>5
  <2>2. \A h, g \in Handles : handleID[h] = handleID[g] /\ handleID[h] # NoUsrID => h = g
    BY <1>3, <1>5
  <2> QED
    BY <1>1, <1>4, <1>5, <2>1, <2>2 DEF Registered
<1>13. Looked /\ OwnersOnly
  BY <1>5 DEF Looked, OwnersOnly
<1>14. CounterAhead
  BY <1>1, <1>3, <1>5, IdFacts, ConstFacts DEF CounterAhead, InMakeUsrID
<1> QED
  BY <1>1, <1>6, <1>7, <1>8, <1>9, <1>10, <1>11, <1>12, <1>13, <1>14 DEF AdpInv

\* A step into undefined behaviour changes nothing else.
LEMMA FaultKeeps ==
    ASSUME AdpInv, NEW h \in Handles, Fault(h), h \in overlapped \/ shared
    PROVE  AdpInv'
<1>1. /\ fault' = h /\ UNCHANGED <<usrID, registHead, listHead, handleID, allocated, selfMutex>>
      /\ UNCHANGED <<pc, local, granted, logins, calls>>
      /\ UNCHANGED <<overlapped, shared, raced, wrapped>>
  BY DEF Fault, memory, histVars
<1>2. Typed'
  BY <1>1 DEF AdpInv, Typed
<1>3. MutexHeld' /\ LocalSet' /\ OverlapNoticed' /\ InListsOnce'
  BY <1>1 DEF AdpInv, MutexHeld, LocalSet, OverlapNoticed, InListsOnce
<1>4. Unborn' /\ LoginOwn' /\ CallsAllocated'
  BY <1>1 DEF AdpInv, Unborn, LoginOwn, CallsAllocated
<1>5. (~shared => Registered /\ Looked)'
  BY <1>1 DEF AdpInv, Registered, Looked
<1>6. (raced \/ wrapped \/ (CounterAhead /\ OwnersOnly))'
  <2>1. CounterAhead => CounterAhead'
    BY <1>1 DEF CounterAhead, InMakeUsrID
  <2>2. OwnersOnly => OwnersOnly'
    BY <1>1 DEF OwnersOnly
  <2> QED
    BY <1>1, <2>1, <2>2 DEF AdpInv
<1> QED
  BY <1>1, <1>2, <1>3, <1>4, <1>5, <1>6 DEF AdpInv

\* A step of a thread that changes pc and local, for that thread only.
Moves(t, c, r) ==
    /\ pc'[t] = c /\ local'[t] = r
    /\ \A u \in Threads \ {t} : pc'[u] = pc[u] /\ local'[u] = local[u]

LEMMA MovesIs ==
    ASSUME Typed, NEW t \in Threads, NEW c \in Labels, NEW r \in LocalRec,
           pc' = [pc EXCEPT ![t] = c], local' = [local EXCEPT ![t] = r]
    PROVE  Moves(t, c, r) /\ pc' \in [Threads -> Labels] /\ local' \in [Threads -> LocalRec]
  BY DEF Moves, Typed

-----------------------------------------------------------------------------
\* Steps that change nothing but the thread's own variables.
LocalStep ==
    /\ UNCHANGED <<usrID, registHead, listHead, handleID, allocated, selfMutex>>
    /\ UNCHANGED <<granted, logins, calls, fault, overlapped, shared, raced, wrapped>>

LEMMA LocalStepIs ==
    ASSUME UNCHANGED <<memory, granted, logins, calls, fault, histVars>>
    PROVE  LocalStep
  BY DEF LocalStep, memory, histVars

\* A request returns.
LEMMA ReturnKeeps ==
    ASSUME AdpInv, NEW t \in Threads, pc[t] \in {"fun", "use"}, Return(t), LocalStep
    PROVE  AdpInv'
<1>1. /\ Typed /\ MutexHeld /\ LocalSet /\ Unborn /\ LoginOwn /\ OverlapNoticed
      /\ InListsOnce /\ CallsAllocated
      /\ (~shared => Registered /\ Looked)
      /\ (raced \/ wrapped \/ (CounterAhead /\ OwnersOnly))
  BY DEF AdpInv
<1>2. /\ UNCHANGED <<usrID, registHead, listHead, handleID, allocated, selfMutex>>
      /\ UNCHANGED <<granted, logins, calls, fault, overlapped, shared, raced, wrapped>>
  BY DEF LocalStep
<1>3. /\ pc' \in [Threads -> Labels] /\ local' \in [Threads -> LocalRec]
      /\ pc'[t] = "idle"
      /\ \A u \in Threads \ {t} : pc'[u] = pc[u] /\ local'[u] = local[u]
  BY <1>1, LocalFacts, MovesIs DEF Return, Goto, Labels, Moves
<1>4. Typed'
  BY <1>1, <1>2, <1>3 DEF Typed
<1>5. MutexHeld'
  BY <1>1, <1>2, <1>3 DEF MutexHeld
<1>6. LocalSet' /\ OverlapNoticed' /\ InListsOnce'
  BY <1>1, <1>2, <1>3 DEF LocalSet, OverlapNoticed, InListsOnce, MakeLabels, LogoutLabels, CallLabels
<1>7. Unborn'
  BY <1>1, <1>2, <1>3 DEF Unborn
<1>8. LoginOwn'
  BY <1>1, <1>2, <1>3 DEF LoginOwn, LoginLabels
<1>9. CallsAllocated'
  BY <1>1, <1>2, <1>3 DEF CallsAllocated, CallLabels
<1>10. (~shared => Registered /\ Looked)'
  <2>1. Registered => Registered'
    BY <1>2, <1>3 DEF Registered
  <2>2. Looked => Looked'
    BY <1>2, <1>3 DEF Looked
  <2> QED
    BY <1>1, <1>2, <2>1, <2>2
<1>11. (raced \/ wrapped \/ (CounterAhead /\ OwnersOnly))'
  <2>1. CounterAhead => CounterAhead'
    BY <1>2, <1>3 DEF CounterAhead, InMakeUsrID
  <2>2. OwnersOnly => OwnersOnly'
    BY <1>2, <1>3 DEF OwnersOnly
  <2> QED
    BY <1>1, <1>2, <2>1, <2>2
<1> QED
  BY <1>2, <1>4, <1>5, <1>6, <1>7, <1>8, <1>9, <1>10, <1>11 DEF AdpInv

LEMMA ReadCounterKeeps ==
    ASSUME AdpInv, NEW t \in Threads, ReadCounter(t)
    PROVE  AdpInv'
<1>1. /\ Typed /\ MutexHeld /\ LocalSet /\ Unborn /\ LoginOwn /\ OverlapNoticed
      /\ InListsOnce /\ CallsAllocated
      /\ (~shared => Registered /\ Looked)
      /\ (raced \/ wrapped \/ (CounterAhead /\ OwnersOnly))
  BY DEF AdpInv
<1>2. /\ UNCHANGED <<usrID, registHead, listHead, handleID, allocated, selfMutex>>
      /\ UNCHANGED <<granted, logins, calls, fault, overlapped, shared, raced, wrapped>>
  BY LocalStepIs DEF ReadCounter, LocalStep
<1>3. /\ pc[t] = "load" /\ local[t] \in LocalRec
      /\ pc' = [pc EXCEPT ![t] = "store"] /\ local' = [local EXCEPT ![t] = [@ EXCEPT !.n = usrID]]
  BY <1>1 DEF ReadCounter, Goto, Typed
<1> DEFINE r == [local[t] EXCEPT !.n = usrID]
<1>4. /\ r \in LocalRec /\ r.n = usrID /\ r.handle = local[t].handle /\ r.level = local[t].level
  BY <1>1, <1>3 DEF LocalRec, Typed
<1>5. local' = [local EXCEPT ![t] = r]
  BY <1>3
<1> HIDE DEF r
<1>6. /\ pc' \in [Threads -> Labels] /\ local' \in [Threads -> LocalRec]
      /\ pc'[t] = "store" /\ local'[t].n = usrID /\ local'[t].handle = local[t].handle
      /\ local'[t].level = local[t].level
      /\ \A u \in Threads \ {t} : pc'[u] = pc[u] /\ local'[u] = local[u]
  BY <1>1, <1>3, <1>4, <1>5, MovesIs DEF Labels, Moves
<1>7. Typed'
  BY <1>1, <1>2, <1>6 DEF Typed
<1>8. MutexHeld'
  BY <1>1, <1>2, <1>3, <1>6 DEF MutexHeld
<1>9. LocalSet' /\ InListsOnce'
  BY <1>1, <1>2, <1>3, <1>6 DEF LocalSet, InListsOnce, MakeLabels
<1>10. OverlapNoticed'
  BY <1>1, <1>2, <1>3, <1>6 DEF OverlapNoticed, LogoutLabels, CallLabels
<1>11. Unborn'
  BY <1>1, <1>2, <1>3, <1>6 DEF Unborn
<1>12. LoginOwn'
  BY <1>1, <1>2, <1>3, <1>6 DEF LoginOwn, LoginLabels, MakeLabels
<1>13. CallsAllocated'
  BY <1>1, <1>2, <1>6 DEF CallsAllocated, CallLabels
<1>14. (~shared => Registered /\ Looked)'
  <2>1. Registered => Registered'
    BY <1>2, <1>3, <1>6 DEF Registered
  <2>2. Looked => Looked'
    BY <1>2, <1>6 DEF Looked
  <2> QED
    BY <1>1, <1>2, <2>1, <2>2
<1>15. (raced \/ wrapped \/ (CounterAhead /\ OwnersOnly))'
  <2>1. CounterAhead => CounterAhead'
    BY <1>2, <1>3, <1>6 DEF CounterAhead, InMakeUsrID
  <2>2. OwnersOnly => OwnersOnly'
    BY <1>2, <1>6 DEF OwnersOnly
  <2> QED
    BY <1>1, <1>2, <2>1, <2>2
<1> QED
  BY <1>2, <1>7, <1>8, <1>9, <1>10, <1>11, <1>12, <1>13, <1>14, <1>15 DEF AdpInv

\* A request that asks who its user is notes the id of its handle.
LEMMA FunKeeps ==
    ASSUME AdpInv, NEW t \in Threads, fault = NULL, Fun(t)
    PROVE  AdpInv'
<1>1. /\ Typed /\ MutexHeld /\ LocalSet /\ Unborn /\ LoginOwn /\ OverlapNoticed
      /\ InListsOnce /\ CallsAllocated
      /\ (~shared => Registered /\ Looked)
      /\ (raced \/ wrapped \/ (CounterAhead /\ OwnersOnly))
  BY DEF AdpInv
<1> DEFINE h == local[t].handle
<1>2. pc[t] = "fun" /\ h \in Handles /\ local[t] \in LocalRec
  BY <1>1 DEF Fun, LocalSet, Typed
<1>3. CASE h \notin allocated /\ Fault(h)
  <2>1. h \in overlapped
    BY <1>1, <1>2, <1>3 DEF CallsAllocated, CallLabels
  <2> QED
    BY <1>2, <1>3, <2>1, FaultKeeps
<1>4. CASE Return(t) /\ UNCHANGED <<memory, granted, logins, calls, fault, histVars>>
  BY <1>2, <1>4, LocalStepIs, ReturnKeeps
<1>5. CASE /\ h \in allocated /\ handleID[h] # NoUsrID
           /\ local' = [local EXCEPT ![t].id = handleID[h]] /\ Goto(t, "find")
           /\ UNCHANGED <<memory, granted, logins, calls, fault, histVars>>
  <2>1. /\ UNCHANGED <<usrID, registHead, listHead, handleID, allocated, selfMutex>>
        /\ UNCHANGED <<granted, logins, calls, fault, overlapped, shared, raced, wrapped>>
    BY <1>5, LocalStepIs DEF LocalStep
  <2> DEFINE r == [local[t] EXCEPT !.id = handleID[h]]
  <2>2. /\ r \in LocalRec /\ r.id = handleID[h] /\ r.handle = h /\ r.who = local[t].who
    BY <1>1, <1>2 DEF LocalRec, Typed
  <2>3. local' = [local EXCEPT ![t] = r] /\ pc' = [pc EXCEPT ![t] = "find"]
    BY <1>5 DEF Goto
  <2> HIDE DEF r
  <2>4. /\ pc' \in [Threads -> Labels] /\ local' \in [Threads -> LocalRec]
        /\ pc'[t] = "find" /\ local'[t].id = handleID[h] /\ local'[t].handle = h
        /\ local'[t].who = local[t].who
        /\ \A u \in Threads \ {t} : pc'[u] = pc[u] /\ local'[u] = local[u]
    BY <1>1, <2>2, <2>3, MovesIs DEF Labels, Moves
  <2> HIDE DEF h
  <2>5. h = local[t].handle
    BY DEF h
  <2>6. Typed'
    BY <1>1, <2>1, <2>4 DEF Typed
  <2>7. MutexHeld'
    BY <1>1, <1>2, <2>1, <2>4 DEF MutexHeld
  <2>8. LocalSet' /\ InListsOnce'
    BY <1>1, <1>2, <1>5, <2>1, <2>4 DEF LocalSet, InListsOnce, MakeLabels
  <2>9. OverlapNoticed'
    BY <1>1, <1>2, <2>1, <2>4, <2>5 DEF OverlapNoticed, LogoutLabels, CallLabels
  <2>10. Unborn'
    BY <1>1, <1>2, <2>1, <2>4, <2>5 DEF Unborn
  <2>11. LoginOwn'
    BY <1>1, <1>2, <2>1, <2>4, <2>5 DEF LoginOwn, LoginLabels, MakeLabels
  <2>12. CallsAllocated'
    BY <1>1, <1>2, <2>1, <2>4, <2>5 DEF CallsAllocated, CallLabels
  <2>13. (~shared => Registered /\ Looked)'
    <3>1. Registered => Registered'
      BY <1>2, <2>1, <2>4 DEF Registered
    <3>2. Registered /\ Looked => Looked'
      BY <1>2, <1>5, <2>1, <2>4 DEF Registered, Looked
    <3> QED
      BY <1>1, <2>1, <3>1, <3>2
  <2>14. (raced \/ wrapped \/ (CounterAhead /\ OwnersOnly))'
    <3>1. CounterAhead => CounterAhead'
      BY <1>2, <2>1, <2>4 DEF CounterAhead, InMakeUsrID
    <3>2. OwnersOnly => OwnersOnly'
      BY <1>2, <2>1, <2>4, <2>5 DEF OwnersOnly
    <3> QED
      BY <1>1, <2>1, <3>1, <3>2
  <2> QED
    BY <2>1, <2>6, <2>7, <2>8, <2>9, <2>10, <2>11, <2>12, <2>13, <2>14 DEF AdpInv
<1> QED
  BY <1>3, <1>4, <1>5 DEF Fun

\* The registration that a request finds is the one of its own handle.
LEMMA GetUsrRegistInfoKeeps ==
    ASSUME AdpInv, NEW t \in Threads, fault = NULL, GetUsrRegistInfo(t)
    PROVE  AdpInv'
<1>1. /\ Typed /\ MutexHeld /\ LocalSet /\ Unborn /\ LoginOwn /\ OverlapNoticed
      /\ InListsOnce /\ CallsAllocated
      /\ (~shared => Registered /\ Looked)
      /\ (raced \/ wrapped \/ (CounterAhead /\ OwnersOnly))
  BY DEF AdpInv
<1> DEFINE h == local[t].handle
           id == local[t].id
           usr == GetHandleByInt(registHead, id)
<1>2. pc[t] = "find" /\ h \in Handles /\ local[t] \in LocalRec /\ id # NoUsrID
  BY <1>1 DEF GetUsrRegistInfo, LocalSet, Typed
<1>3. registHead \in Seq(Handles) /\ ToSet(registHead) \subseteq Handles
  BY <1>1, ToSetIs DEF Typed
<1>4. \/ usr = NULL /\ \A g \in ToSet(registHead) : handleID[g] # id
      \/ usr # NULL /\ usr \in ToSet(registHead) /\ handleID[usr] = id
  BY <1>3, GetHandleIs
<1> HIDE DEF usr
<1>5. ASSUME NEW g \in FreedOnWalk(registHead, id), Fault(g) PROVE AdpInv'
  <2>1. g \in ToSet(registHead) /\ g \notin allocated
    BY FreedIs
  <2>2. shared
    BY <1>1, <2>1 DEF Registered
  <2> QED
    BY <1>3, <1>5, <2>1, <2>2, FaultKeeps
<1>6. CASE usr = NULL /\ Fault(h)
  <2>1. h \in overlapped \/ shared
    BY <1>1, <1>2, <1>4, <1>6 DEF Registered, Looked
  <2> QED
    BY <1>2, <1>6, <2>1, FaultKeeps
<1>7. CASE /\ usr # NULL /\ local' = [local EXCEPT ![t].usr = usr] /\ Goto(t, "use")
           /\ UNCHANGED <<memory, granted, logins, calls, fault, histVars>>
  <2>1. /\ UNCHANGED <<usrID, registHead, listHead, handleID, allocated, selfMutex>>
        /\ UNCHANGED <<granted, logins, calls, fault, overlapped, shared, raced, wrapped>>
    BY <1>7, LocalStepIs DEF LocalStep
  <2>2. usr \in Handles /\ usr \in ToSet(registHead) /\ handleID[usr] = id
    BY <1>3, <1>4, <1>7
  <2> DEFINE r == [local[t] EXCEPT !.usr = usr]
  <2>3. /\ r \in LocalRec /\ r.usr = usr /\ r.handle = h /\ r.who = local[t].who
    BY <1>1, <1>2, <2>2 DEF LocalRec, Typed
  <2>4. local' = [local EXCEPT ![t] = r] /\ pc' = [pc EXCEPT ![t] = "use"]
    BY <1>7 DEF Goto
  <2> HIDE DEF r
  <2>5. /\ pc' \in [Threads -> Labels] /\ local' \in [Threads -> LocalRec]
        /\ pc'[t] = "use" /\ local'[t].usr = usr /\ local'[t].handle = h
        /\ local'[t].who = local[t].who
        /\ \A u \in Threads \ {t} : pc'[u] = pc[u] /\ local'[u] = local[u]
    BY <1>1, <2>3, <2>4, MovesIs DEF Labels, Moves
  <2> HIDE DEF h, id
  <2>6. h = local[t].handle /\ id = local[t].id
    BY DEF h, id
  <2>7. Typed'
    BY <1>1, <2>1, <2>5 DEF Typed
  <2>8. MutexHeld'
    BY <1>1, <1>2, <2>1, <2>5 DEF MutexHeld
  <2>9. LocalSet' /\ InListsOnce'
    BY <1>1, <1>2, <2>1, <2>2, <2>5 DEF LocalSet, InListsOnce, MakeLabels
  <2>10. OverlapNoticed'
    BY <1>1, <1>2, <2>1, <2>5, <2>6 DEF OverlapNoticed, LogoutLabels, CallLabels
  <2>11. Unborn'
    BY <1>1, <1>2, <2>1, <2>5, <2>6 DEF Unborn
  <2>12. LoginOwn'
    BY <1>1, <1>2, <2>1, <2>5, <2>6 DEF LoginOwn, LoginLabels, MakeLabels
  <2>13. CallsAllocated'
    BY <1>1, <1>2, <2>1, <2>5, <2>6 DEF CallsAllocated, CallLabels
  <2>14. (~shared => Registered /\ Looked)'
    <3>1. Registered => Registered'
      BY <1>2, <2>1, <2>5 DEF Registered
    <3>2. Registered /\ Looked => Looked'
      BY <1>2, <2>1, <2>2, <2>5, <2>6 DEF Registered, Looked
    <3> QED
      BY <1>1, <2>1, <3>1, <3>2
  <2>15. (raced \/ wrapped \/ (CounterAhead /\ OwnersOnly))'
    <3>1. CounterAhead => CounterAhead'
      BY <1>2, <2>1, <2>5 DEF CounterAhead, InMakeUsrID
    <3>2. OwnersOnly => OwnersOnly'
      BY <1>2, <2>1, <2>5, <2>6 DEF OwnersOnly
    <3> QED
      BY <1>1, <2>1, <3>1, <3>2
  <2> QED
    BY <2>1, <2>7, <2>8, <2>9, <2>10, <2>11, <2>12, <2>13, <2>14, <2>15 DEF AdpInv
<1> QED
  BY <1>5, <1>6, <1>7 DEF GetUsrRegistInfo, usr

LEMMA UseRegistInfoKeeps ==
    ASSUME AdpInv, NEW t \in Threads, fault = NULL, UseRegistInfo(t)
    PROVE  AdpInv'
<1>1. Typed /\ LocalSet /\ (~shared => Registered /\ Looked)
  BY DEF AdpInv
<1>2. pc[t] = "use" /\ local[t].usr \in Handles
  BY <1>1 DEF UseRegistInfo, LocalSet
<1>3. CASE local[t].usr \notin ToSet(registHead) /\ Fault(local[t].usr)
  <2>1. local[t].usr \in overlapped \/ shared
    BY <1>1, <1>2, <1>3 DEF Looked
  <2> QED
    BY <1>2, <1>3, <2>1, FaultKeeps
<1>4. CASE Return(t) /\ UNCHANGED <<memory, granted, logins, calls, fault, histVars>>
  BY <1>2, <1>4, LocalStepIs, ReturnKeeps
<1> QED
  BY <1>3, <1>4 DEF UseRegistInfo

-----------------------------------------------------------------------------
\* A login: the handle is new, and the thread is alone in MakeUsrID or raced.
LEMMA FunLoginKeeps ==
    ASSUME AdpInv, NEW t \in Threads, NEW level \in Levels, FunLogin(t, level)
    PROVE  AdpInv'
<1>1. /\ Typed /\ MutexHeld /\ LocalSet /\ Unborn /\ LoginOwn /\ OverlapNoticed
      /\ InListsOnce /\ CallsAllocated
      /\ (~shared => Registered /\ Looked)
      /\ (raced \/ wrapped \/ (CounterAhead /\ OwnersOnly))
  BY DEF AdpInv
<1> DEFINE h == innerHandle + (logins + 1)
<1>2. /\ pc[t] = "idle" /\ logins < MaxLogins /\ logins' = logins + 1
      /\ allocated' = allocated \cup {h}
      /\ local' = [local EXCEPT ![t] = [NoLocal EXCEPT !.handle = h, !.level = level]]
      /\ pc' = [pc EXCEPT ![t] = "load"]
      /\ raced' = (raced \/ \E u \in Threads : InMakeUsrID(u))
      /\ UNCHANGED <<usrID, registHead, listHead, handleID, selfMutex, granted, calls,
                     fault, overlapped, shared, wrapped>>
  BY DEF FunLogin, Goto
<1>3. /\ h \in Handles /\ h > innerHandle + logins /\ logins' \in 0 .. MaxLogins
      /\ logins \in Nat /\ innerHandle = 1
  <2>1. logins \in 0 .. MaxLogins
    BY <1>1 DEF Typed
  <2>2. MaxLogins \in Nat /\ innerHandle = 1
    BY ConstFacts
  <2>3. h \in Nat /\ 1 <= h /\ h <= 1 + MaxLogins /\ h > innerHandle + logins /\ logins \in Nat
    BY <1>2, <2>1, <2>2
  <2> QED
    BY <1>2, <2>1, <2>2, <2>3, ConstFacts
<1> DEFINE r == [NoLocal EXCEPT !.handle = h, !.level = level]
<1>4. r \in LocalRec /\ r.handle = h /\ r.level = level
  <2>1. r.handle = h /\ r.level = level
    BY DEF NoLocal
  <2>2. r \in LocalRec
    BY <1>3, LocalFacts DEF LocalRec
  <2> QED
    BY <2>1, <2>2
<1>5. local' = [local EXCEPT ![t] = r]
  BY <1>2
<1> HIDE DEF r
<1>6. /\ pc' \in [Threads -> Labels] /\ local' \in [Threads -> LocalRec]
      /\ pc'[t] = "load" /\ local'[t].handle = h /\ local'[t].level = level
      /\ \A u \in Threads \ {t} : pc'[u] = pc[u] /\ local'[u] = local[u]
  BY <1>1, <1>2, <1>4, <1>5, MovesIs DEF Labels, Moves
<1>7. \A g \in Handles : g > innerHandle + logins' => g > innerHandle + logins /\ g # h
  BY <1>2, <1>3, ConstFacts
<1>8. /\ h \notin allocated /\ h \notin ToSet(registHead) /\ h \notin ToSet(listHead)
      /\ handleID[h] = NoUsrID /\ granted[h] = NoUsrID
      /\ \A u \in Threads : pc[u] # "idle" => local[u].handle # h
  BY <1>1, <1>3 DEF Unborn
<1> HIDE DEF h
<1>9. Typed'
  <2>1. raced' \in BOOLEAN /\ allocated' \subseteq Handles
    BY <1>1, <1>2, <1>3 DEF Typed
  <2> QED
    BY <1>1, <1>2, <1>3, <1>6, <2>1 DEF Typed
<1>10. MutexHeld'
  BY <1>1, <1>2, <1>6 DEF MutexHeld
<1>11. LocalSet' /\ InListsOnce'
  BY <1>1, <1>2, <1>3, <1>6 DEF LocalSet, InListsOnce, MakeLabels
<1>12. OverlapNoticed'
  BY <1>1, <1>2, <1>6 DEF OverlapNoticed, LogoutLabels, CallLabels
<1>13. Unborn'
  BY <1>1, <1>2, <1>6, <1>7 DEF Unborn
<1>14. LoginOwn'
  BY <1>1, <1>2, <1>6, <1>8 DEF LoginOwn, LoginLabels, MakeLabels
<1>15. CallsAllocated'
  BY <1>1, <1>2, <1>6 DEF CallsAllocated, CallLabels
<1>16. (~shared => Registered /\ Looked)'
  <2>1. Registered => Registered'
    BY <1>2, <1>6 DEF Registered
  <2>2. Looked => Looked'
    BY <1>2, <1>6 DEF Looked
  <2> QED
    BY <1>1, <1>2, <2>1, <2>2
<1>17. (raced \/ wrapped \/ (CounterAhead /\ OwnersOnly))'
  <2>1. CounterAhead /\ ~raced' => CounterAhead'
    <3> SUFFICES ASSUME CounterAhead, ~raced' PROVE CounterAhead'
      OBVIOUS
    <3>1. \A u \in Threads : ~InMakeUsrID(u)
      BY <1>2
    <3>2. \A u \in Threads \ {t} : pc'[u] \notin {"load", "store", "regist"}
      BY <1>6, <3>1 DEF InMakeUsrID
    <3> QED
      BY <1>2, <1>6, <3>2 DEF CounterAhead, InMakeUsrID
  <2>2. OwnersOnly => OwnersOnly'
    BY <1>2, <1>6 DEF OwnersOnly
  <2> QED
    BY <1>1, <1>2, <2>1, <2>2
<1> QED
  BY <1>1, <1>2, <1>9, <1>10, <1>11, <1>12, <1>13, <1>14, <1>15, <1>16, <1>17 DEF AdpInv

\* The counter moves ahead of all ids, unless it starts again.
LEMMA WriteCounterKeeps ==
    ASSUME AdpInv, NEW t \in Threads, fault = NULL, WriteCounter(t)
    PROVE  AdpInv'
<1>1. /\ Typed /\ MutexHeld /\ LocalSet /\ Unborn /\ LoginOwn /\ OverlapNoticed
      /\ InListsOnce /\ CallsAllocated
      /\ (~shared => Registered /\ Looked)
      /\ (raced \/ wrapped \/ (CounterAhead /\ OwnersOnly))
  BY DEF AdpInv
<1> DEFINE n == (local[t].n + 1) % ID_MAX
<1>2. pc[t] = "store"
  BY DEF WriteCounter
<1>3. ASSUME NEW g \in FreedOnWalk(registHead, UsrID(0, n)), Fault(g) PROVE AdpInv'
  <2>1. g \in ToSet(registHead) /\ g \notin allocated
    BY FreedIs
  <2>2. shared
    BY <1>1, <2>1 DEF Registered
  <2>3. g \in Handles
    BY <1>1, <2>1, ToSetIs DEF Typed
  <2> QED
    BY <1>3, <2>2, <2>3, FaultKeeps
<1>4. CASE /\ usrID' = n /\ wrapped' = (wrapped \/ n = 0) /\ Goto(t, "regist")
           /\ UNCHANGED <<registHead, listHead, handleID, allocated, selfMutex, local,
                          granted, logins, calls, fault, overlapped, shared, raced>>
  <2>1. local[t].n \in Nat /\ local[t].n + 1 <= ID_MAX /\ local[t].n \in 0 .. ID_MAX - 1
    <3>1. local[t] \in LocalRec
      BY <1>1 DEF Typed
    <3>2. local[t].n \in 0 .. ID_MAX - 1
      BY <3>1, LocalFacts
    <3> QED
      BY <3>2, ConstFacts
  <2>2. n \in 0 .. ID_MAX - 1 /\ (n # 0 => n = local[t].n + 1)
    <3> DEFINE x == local[t].n
    <3>1. x \in Nat /\ ID_MAX \in Nat /\ ID_MAX > 1 /\ x + 1 <= ID_MAX
      BY <2>1, ConstFacts
    <3> HIDE DEF x
    <3>2. CASE x + 1 < ID_MAX
      <4>1. (x + 1) % ID_MAX = x + 1
        BY <3>1, <3>2
      <4> QED
        BY <3>1, <3>2, <4>1 DEF x
    <3>3. CASE x + 1 = ID_MAX
      <4>1. (x + 1) % ID_MAX = 0
        BY <3>1, <3>3
      <4> QED
        BY <3>1, <3>3, <4>1 DEF x
    <3> QED
      BY <3>1, <3>2, <3>3
  <2>3. usrID' = n /\ wrapped' = (wrapped \/ n = 0) /\ pc' = [pc EXCEPT ![t] = "regist"]
    BY <1>4 DEF Goto
  <2> HIDE DEF n
  <2>4. /\ pc' \in [Threads -> Labels] /\ pc'[t] = "regist"
        /\ \A u \in Threads \ {t} : pc'[u] = pc[u]
    BY <1>1, <2>3 DEF Labels, Typed
  <2>5. /\ UNCHANGED <<registHead, listHead, handleID, allocated, selfMutex, local>>
        /\ UNCHANGED <<granted, logins, calls, fault, overlapped, shared, raced>>
    BY <1>4
  <2>6. Typed'
    BY <1>1, <2>2, <2>3, <2>4, <2>5 DEF Typed
  <2>7. MutexHeld'
    BY <1>1, <1>2, <2>4, <2>5 DEF MutexHeld
  <2>8. LocalSet' /\ InListsOnce'
    BY <1>1, <1>2, <2>4, <2>5 DEF LocalSet, InListsOnce, MakeLabels
  <2>9. OverlapNoticed'
    BY <1>1, <1>2, <2>4, <2>5 DEF OverlapNoticed, LogoutLabels, CallLabels
  <2>10. Unborn'
    BY <1>1, <1>2, <2>4, <2>5 DEF Unborn
  <2>11. LoginOwn'
    BY <1>1, <1>2, <2>4, <2>5 DEF LoginOwn, LoginLabels, MakeLabels
  <2>12. CallsAllocated'
    BY <1>1, <1>2, <2>4, <2>5 DEF CallsAllocated, CallLabels
  <2>13. (~shared => Registered /\ Looked)'
    <3>1. Registered => Registered'
      BY <1>2, <2>4, <2>5 DEF Registered
    <3>2. Looked => Looked'
      BY <1>2, <2>4, <2>5 DEF Looked
    <3> QED
      BY <1>1, <2>5, <3>1, <3>2
  <2>14. (raced \/ wrapped \/ (CounterAhead /\ OwnersOnly))'
    <3>1. CounterAhead /\ ~wrapped' => CounterAhead'
      <4> SUFFICES ASSUME CounterAhead, ~wrapped' PROVE CounterAhead'
        OBVIOUS
      <4>1. usrID' = usrID + 1 /\ usrID \in Nat
        BY <1>1, <1>2, <2>1, <2>2, <2>3, ConstFacts DEF CounterAhead, Typed
      <4>2. \A h \in Handles : handleID[h][2] \in Nat /\ granted[h][2] \in Nat
        BY <1>1, IdFacts DEF Typed
      <4>3. \A u \in Threads : local[u].id[2] \in Nat
        BY <1>1, IdFacts, LocalFacts DEF Typed
      <4>4. \A h \in Handles : handleID'[h][2] < usrID' /\ granted'[h][2] < usrID'
        BY <2>5, <4>1, <4>2 DEF CounterAhead
      <4>5. \A u \in Threads : pc'[u] = "find" => local'[u].id[2] < usrID'
        BY <2>4, <2>5, <4>1, <4>3 DEF CounterAhead
      <4>6. \A u \in Threads \ {t} : pc'[u] \notin {"load", "store", "regist"}
        BY <1>2, <2>4 DEF CounterAhead, InMakeUsrID
      <4>7. /\ \A h \in Handles : handleID'[h][2] <= usrID' /\ granted'[h][2] <= usrID'
            /\ \A u \in Threads : pc'[u] = "find" => local'[u].id[2] <= usrID'
            /\ usrID' >= 1
        BY <2>5, <4>1, <4>2, <4>3, <4>4, <4>5
      <4> QED
        BY <2>4, <2>5, <4>4, <4>5, <4>6, <4>7 DEF CounterAhead, InMakeUsrID
    <3>2. OwnersOnly => OwnersOnly'
      BY <1>2, <2>4, <2>5 DEF OwnersOnly
    <3> QED
      BY <1>1, <2>3, <2>5, <3>1, <3>2
  <2> QED
    BY <1>1, <2>3, <2>5, <2>6, <2>7, <2>8, <2>9, <2>10, <2>11, <2>12, <2>13, <2>14 DEF AdpInv
<1> QED
  BY <1>3, <1>4 DEF WriteCounter

\* The handle gets its id, which is nobody's as long as the counter is ahead.
LEMMA AdpRegistHandleKeeps ==
    ASSUME AdpInv, NEW t \in Threads, AdpRegistHandle(t)
    PROVE  AdpInv'
<1>1. /\ Typed /\ MutexHeld /\ LocalSet /\ Unborn /\ LoginOwn /\ OverlapNoticed
      /\ InListsOnce /\ CallsAllocated
      /\ (~shared => Registered /\ Looked)
      /\ (raced \/ wrapped \/ (CounterAhead /\ OwnersOnly))
  BY DEF AdpInv
<1> DEFINE h == local[t].handle
           id == UsrID(local[t].level, usrID)
<1>2. /\ pc[t] = "regist" /\ handleID' = [handleID EXCEPT ![h] = id]
      /\ registHead' = Append(registHead, h)
      /\ shared' = (\/ shared
                    \/ \E g \in ToSet(registHead) : handleID[g] = id
                    \/ \E u \in Threads : pc[u] = "find" /\ local[u].id = id)
      /\ pc' = [pc EXCEPT ![t] = "list"]
      /\ UNCHANGED <<usrID, listHead, allocated, selfMutex, local, granted, logins,
                     calls, fault, overlapped, raced, wrapped>>
  BY DEF AdpRegistHandle, Goto
<1>3. h \in Handles /\ id \in UsrIDs /\ id # NoUsrID /\ id[2] = usrID
  <2>1. local[t].level \in Levels /\ usrID \in 0 .. ID_MAX - 1 /\ h \in Handles
    BY <1>1, <1>2 DEF LocalSet, MakeLabels, Typed
  <2> QED
    BY <2>1, IdFacts
<1>4. /\ h \in allocated /\ h \notin ToSet(listHead) /\ granted[h] = NoUsrID
      /\ \A u \in Threads \ {t} : pc[u] # "idle" => local[u].handle # h
      /\ h \notin ToSet(registHead) /\ handleID[h] = NoUsrID
  BY <1>1, <1>2 DEF LoginOwn, LoginLabels, MakeLabels
<1>5. ~(h > innerHandle + logins)
  BY <1>1, <1>2, <1>3 DEF Unborn
<1>6. /\ registHead' \in Seq(Handles) /\ ToSet(registHead') = ToSet(registHead) \cup {h}
      /\ \A k, m \in DOMAIN registHead' : registHead'[k] = registHead'[m] => k = m
  <2>1. registHead \in Seq(Handles) /\ \A k, m \in DOMAIN registHead : registHead[k] = registHead[m] => k = m
    BY <1>1 DEF Typed, InListsOnce
  <2> QED
    BY <1>2, <1>3, <1>4, <2>1, ToSetAppend
<1>7. /\ pc' \in [Threads -> Labels] /\ pc'[t] = "list"
      /\ \A u \in Threads \ {t} : pc'[u] = pc[u]
  BY <1>1, <1>2 DEF Labels, Typed
<1>8. /\ handleID' \in [Handles -> UsrIDs] /\ handleID'[h] = id
      /\ \A g \in Handles \ {h} : handleID'[g] = handleID[g]
  BY <1>1, <1>2, <1>3 DEF Typed
<1>9. /\ UNCHANGED <<usrID, listHead, allocated, selfMutex, local, granted, logins>>
      /\ UNCHANGED <<calls, fault, overlapped, raced, wrapped>>
  BY <1>2
<1> HIDE DEF h, id
<1>10. h = local[t].handle
  BY DEF h
<1>11. Typed'
  <2>1. shared' \in BOOLEAN
    BY <1>1, <1>2 DEF Typed
  <2> QED
    BY <1>1, <1>6, <1>7, <1>8, <1>9, <2>1 DEF Typed
<1>12. MutexHeld'
  BY <1>1, <1>2, <1>7, <1>9 DEF MutexHeld
<1>13. LocalSet' /\ InListsOnce'
  BY <1>1, <1>2, <1>6, <1>7, <1>9 DEF LocalSet, InListsOnce, MakeLabels
<1>14. OverlapNoticed'
  BY <1>1, <1>2, <1>7, <1>9 DEF OverlapNoticed, LogoutLabels, CallLabels
<1>15. Unborn'
  BY <1>1, <1>2, <1>5, <1>6, <1>7, <1>8, <1>9 DEF Unborn
<1>16. LoginOwn'
  <2> SUFFICES ASSUME NEW u \in Threads, pc'[u] \in LoginLabels
               PROVE  LET g == local'[u].handle
                      IN  /\ g \in allocated' /\ g \notin ToSet(listHead') /\ granted'[g] = NoUsrID
                          /\ \A v \in Threads \ {u} : pc'[v] # "idle" => local'[v].handle # g
                          /\ pc'[u] \in MakeLabels => g \notin ToSet(registHead') /\ handleID'[g] = NoUsrID
                          /\ pc'[u] = "list" => handleID'[g] # NoUsrID
    BY DEF LoginOwn
  <2>1. CASE u = t
    BY <1>3, <1>4, <1>7, <1>8, <1>9, <1>10, <2>1 DEF MakeLabels
  <2>2. CASE u # t
    <3>1. pc[u] \in LoginLabels /\ local[u].handle # h /\ local[u].handle \in Handles
      BY <1>1, <1>4, <1>7, <2>2 DEF LoginLabels, LocalSet
    <3> QED
      BY <1>1, <1>2, <1>6, <1>7, <1>8, <1>9, <2>2, <3>1 DEF LoginOwn
  <2> QED
    BY <2>1, <2>2
<1>17. CallsAllocated'
  BY <1>1, <1>2, <1>7, <1>9 DEF CallsAllocated, CallLabels
<1>18. (~shared => Registered /\ Looked)'
  <2> SUFFICES ASSUME ~shared' PROVE Registered' /\ Looked'
    OBVIOUS
  <2>1. /\ Registered /\ Looked /\ \A g \in ToSet(registHead) : handleID[g] # id
        /\ \A u \in Threads : pc[u] = "find" => local[u].id # id
    BY <1>1, <1>2
  <2>2. \A g \in Handles \ {h} : handleID[g] # id
    BY <1>3, <2>1 DEF Registered
  <2>3. ASSUME NEW g \in Handles PROVE g \in ToSet(registHead') <=> handleID'[g] # NoUsrID
    <3>1. CASE g = h
      BY <1>3, <1>6, <1>8, <3>1
    <3>2. CASE g # h
      <4>1. g \in ToSet(registHead) <=> handleID[g] # NoUsrID
        BY <2>1 DEF Registered
      <4> QED
        BY <1>6, <1>8, <3>2, <4>1
    <3> QED
      BY <3>1, <3>2
  <2>4. \A f, g \in Handles : handleID'[f] = handleID'[g] /\ handleID'[f] # NoUsrID => f = g
    BY <1>8, <2>1, <2>2 DEF Registered
  <2>5. ToSet(registHead') \subseteq allocated'
    BY <1>4, <1>6, <1>9, <2>1 DEF Registered
  <2>6. \A u \in Threads : pc'[u] \in {"del", "free"} => local'[u].handle \notin ToSet(registHead')
    BY <1>4, <1>6, <1>7, <1>9, <2>1 DEF Registered
  <2>7. \A g \in ToSet(listHead') : handleID'[g] = NoUsrID =>
            \E u \in Threads : pc'[u] = "del" /\ local'[u].handle = g
    <3> SUFFICES ASSUME NEW g \in ToSet(listHead), handleID'[g] = NoUsrID
                 PROVE  \E u \in Threads : pc'[u] = "del" /\ local'[u].handle = g
      BY <1>9
    <3>1. g \in Handles /\ g # h
      BY <1>1, <1>4, ToSetIs DEF Typed
    <3>2. PICK u \in Threads : pc[u] = "del" /\ local[u].handle = g
      BY <1>8, <2>1, <3>1 DEF Registered
    <3>3. pc'[u] = "del" /\ local'[u].handle = g
      BY <1>2, <1>7, <1>9, <3>2
    <3> QED
      BY <3>3
  <2>8. Looked'
    <3> SUFFICES ASSUME NEW u \in Threads, pc'[u] \in {"find", "use"}
                 PROVE  LET g == local'[u].handle
                        IN  /\ pc'[u] = "find" =>
                                 /\ g \in overlapped' \/ handleID'[g] = local'[u].id
                                 /\ \A f \in Handles : handleID'[f] = local'[u].id => f = g
                            /\ pc'[u] = "use" => /\ local'[u].usr = g
                                                 /\ g \in overlapped' \/ g \in ToSet(registHead')
      BY DEF Looked
    <3>1. u # t /\ pc[u] = pc'[u] /\ local[u].handle # h /\ local[u].handle \in Handles
      BY <1>1, <1>4, <1>7 DEF LocalSet
    <3>2. CASE pc[u] = "find"
      <4>1. local[u].id # id
        BY <2>1, <3>2
      <4> QED
        BY <1>8, <1>9, <2>1, <3>1, <3>2, <4>1 DEF Looked
    <3>3. CASE pc[u] = "use"
      BY <1>6, <1>9, <2>1, <3>1, <3>3 DEF Looked
    <3> QED
      BY <3>1, <3>2, <3>3
  <2> QED
    BY <2>3, <2>4, <2>5, <2>6, <2>7, <2>8 DEF Registered
<1>19. (raced \/ wrapped \/ (CounterAhead /\ OwnersOnly))'
  <2>1. CounterAhead => CounterAhead'
    <3> SUFFICES ASSUME CounterAhead PROVE CounterAhead'
      OBVIOUS
    <3>1. /\ \A g \in Handles : handleID[g][2] < usrID /\ granted[g][2] < usrID
          /\ \A u \in Threads : pc[u] = "find" => local[u].id[2] < usrID
      BY <1>2 DEF CounterAhead
    <3>2. usrID \in Nat
      BY <1>1, ConstFacts DEF Typed
    <3>3. \A g \in Handles : handleID[g] # id /\ granted[g] # id
      BY <1>3, <3>1, <3>2
    <3>4. ~shared'
      <4>1. \A g \in ToSet(registHead) : g \in Handles
        BY <1>1, ToSetIs DEF Typed
      <4>2. \A u \in Threads : pc[u] = "find" => local[u].id # id
        BY <1>3, <3>1, <3>2
      <4> QED
        BY <1>2, <3>3, <4>1, <4>2 DEF CounterAhead
    <3>5. \A u \in Threads : pc'[u] \notin {"load", "store", "regist"}
      BY <1>2, <1>7 DEF CounterAhead, InMakeUsrID
    <3>6. \A g \in Handles : handleID'[g][2] <= usrID' /\ granted'[g][2] <= usrID'
      BY <1>3, <1>8, <1>9, <3>1, <3>2 DEF CounterAhead
    <3>7. \A u \in Threads : pc'[u] = "find" => local'[u].id[2] <= usrID'
      BY <1>7, <1>9 DEF CounterAhead
    <3>8. \A f, g \in Handles : handleID'[f] # NoUsrID /\ granted'[g] = handleID'[f] => g = f
      BY <1>8, <1>9, <3>3 DEF CounterAhead
    <3>9. usrID' >= 1
      BY <1>9 DEF CounterAhead
    <3> QED
      BY <3>4, <3>5, <3>6, <3>7, <3>8, <3>9 DEF CounterAhead, InMakeUsrID
  <2>2. OwnersOnly => OwnersOnly'
    BY <1>2, <1>7, <1>9 DEF OwnersOnly
  <2> QED
    BY <1>1, <1>9, <2>1, <2>2
<1> QED
  <2>1. (fault # NULL => fault \in overlapped \/ shared)'
    BY <1>2, <1>9 DEF AdpInv
  <2> QED
    BY <2>1, <1>11, <1>12, <1>13, <1>14, <1>15, <1>16, <1>17, <1>18, <1>19 DEF AdpInv

\* The handle of a login goes into the list.
LEMMA AddToListKeeps ==
    ASSUME AdpInv, NEW t \in Threads, AddToList(t)
    PROVE  AdpInv'
<1>1. /\ Typed /\ MutexHeld /\ LocalSet /\ Unborn /\ LoginOwn /\ OverlapNoticed
      /\ InListsOnce /\ CallsAllocated
      /\ (~shared => Registered /\ Looked)
      /\ (raced \/ wrapped \/ (CounterAhead /\ OwnersOnly))
  BY DEF AdpInv
<1> DEFINE h == local[t].handle
<1>2. /\ pc[t] = "list" /\ listHead' = Append(listHead, h)
      /\ granted' = [granted EXCEPT ![h] = handleID[h]]
      /\ local' = [local EXCEPT ![t] = NoLocal] /\ pc' = [pc EXCEPT ![t] = "idle"]
      /\ UNCHANGED <<usrID, registHead, handleID, allocated, selfMutex, logins, calls, fault>>
      /\ UNCHANGED <<overlapped, shared, raced, wrapped>>
  BY DEF AddToList, Goto, histVars
<1>3. h \in Handles /\ handleID[h] # NoUsrID /\ handleID[h] \in UsrIDs
  BY <1>1, <1>2 DEF LocalSet, LoginOwn, LoginLabels, Typed
<1>4. /\ h \in allocated /\ h \notin ToSet(listHead) /\ granted[h] = NoUsrID
      /\ \A u \in Threads \ {t} : pc[u] # "idle" => local[u].handle # h
  BY <1>1, <1>2 DEF LoginOwn, LoginLabels
<1>5. ~(h > innerHandle + logins)
  BY <1>1, <1>2, <1>3 DEF Unborn
<1>6. /\ listHead' \in Seq(Handles) /\ ToSet(listHead') = ToSet(listHead) \cup {h}
      /\ \A k, m \in DOMAIN listHead' : listHead'[k] = listHead'[m] => k = m
  <2>1. listHead \in Seq(Handles) /\ \A k, m \in DOMAIN listHead : listHead[k] = listHead[m] => k = m
    BY <1>1 DEF Typed, InListsOnce
  <2> QED
    BY <1>2, <1>3, <1>4, <2>1, ToSetAppend
<1>7. /\ pc' \in [Threads -> Labels] /\ local' \in [Threads -> LocalRec]
      /\ pc'[t] = "idle"
      /\ \A u \in Threads \ {t} : pc'[u] = pc[u] /\ local'[u] = local[u]
  BY <1>1, <1>2, LocalFacts, MovesIs DEF Labels, Moves
<1>8. /\ granted' \in [Handles -> UsrIDs] /\ granted'[h] = handleID[h]
      /\ \A g \in Handles \ {h} : granted'[g] = granted[g]
  BY <1>1, <1>2, <1>3 DEF Typed
<1>9. /\ UNCHANGED <<usrID, registHead, handleID, allocated, selfMutex, logins, calls, fault>>
      /\ UNCHANGED <<overlapped, shared, raced, wrapped>>
  BY <1>2
<1> HIDE DEF h
<1>10. Typed'
  BY <1>1, <1>6, <1>7, <1>8, <1>9 DEF Typed
<1>11. MutexHeld'
  BY <1>1, <1>2, <1>7, <1>9 DEF MutexHeld
<1>12. LocalSet' /\ InListsOnce'
  BY <1>1, <1>6, <1>7, <1>9 DEF LocalSet, InListsOnce, MakeLabels
<1>13. OverlapNoticed'
  BY <1>1, <1>7, <1>9 DEF OverlapNoticed, LogoutLabels, CallLabels
<1>14. Unborn'
  BY <1>1, <1>5, <1>6, <1>7, <1>8, <1>9 DEF Unborn
<1>15. LoginOwn'
  <2> SUFFICES ASSUME NEW u \in Threads, pc'[u] \in LoginLabels
               PROVE  LET g == local'[u].handle
                      IN  /\ g \in allocated' /\ g \notin ToSet(listHead') /\ granted'[g] = NoUsrID
                          /\ \A v \in Threads \ {u} : pc'[v] # "idle" => local'[v].handle # g
                          /\ pc'[u] \in MakeLabels => g \notin ToSet(registHead') /\ handleID'[g] = NoUsrID
                          /\ pc'[u] = "list" => handleID'[g] # NoUsrID
    BY DEF LoginOwn
  <2>1. u # t /\ pc[u] = pc'[u] /\ pc[u] \in LoginLabels /\ local'[u] = local[u]
    BY <1>7 DEF LoginLabels
  <2>2. local[u].handle # h /\ local[u].handle \in Handles
    BY <1>1, <1>4, <2>1 DEF LoginLabels, LocalSet
  <2> QED
    BY <1>1, <1>6, <1>7, <1>8, <1>9, <2>1, <2>2 DEF LoginOwn
<1>16. CallsAllocated'
  BY <1>1, <1>4, <1>6, <1>7, <1>9 DEF CallsAllocated, CallLabels
<1>17. (~shared => Registered /\ Looked)'
  <2>1. Registered => Registered'
    <3> SUFFICES ASSUME Registered PROVE Registered'
      OBVIOUS
    <3>1. \A g \in ToSet(listHead') : handleID'[g] = NoUsrID =>
              \E u \in Threads : pc'[u] = "del" /\ local'[u].handle = g
      <4> SUFFICES ASSUME NEW g \in ToSet(listHead'), handleID'[g] = NoUsrID
                   PROVE  \E u \in Threads : pc'[u] = "del" /\ local'[u].handle = g
        OBVIOUS
      <4>1. g \in ToSet(listHead)
        BY <1>3, <1>6, <1>9
      <4>2. PICK u \in Threads : pc[u] = "del" /\ local[u].handle = g
        BY <1>9, <4>1 DEF Registered
      <4>3. pc'[u] = "del" /\ local'[u].handle = g
        BY <1>2, <1>7, <4>2
      <4> QED
        BY <4>3
    <3> QED
      BY <1>7, <1>9, <3>1 DEF Registered
  <2>2. Looked => Looked'
    BY <1>7, <1>9 DEF Looked
  <2> QED
    BY <1>1, <1>9, <2>1, <2>2
<1>18. (raced \/ wrapped \/ (CounterAhead /\ OwnersOnly))'
  <2>1. CounterAhead => CounterAhead'
    <3> SUFFICES ASSUME CounterAhead PROVE CounterAhead'
      OBVIOUS
    <3>1. Registered
      BY <1>1 DEF CounterAhead
    <3>2. \A f, g \in Handles : handleID'[f] # NoUsrID /\ granted'[g] = handleID'[f] => g = f
      BY <1>3, <1>8, <1>9, <3>1 DEF CounterAhead, Registered
    <3>3. \A g \in Handles : handleID'[g][2] <= usrID' /\ granted'[g][2] <= usrID'
      BY <1>3, <1>8, <1>9 DEF CounterAhead
    <3>4. (\E u \in Threads : pc'[u] = "regist") =>
              /\ \A g \in Handles : handleID'[g][2] < usrID' /\ granted'[g][2] < usrID'
              /\ \A u \in Threads : pc'[u] = "find" => local'[u].id[2] < usrID'
      <4> SUFFICES ASSUME NEW u \in Threads, pc'[u] = "regist"
                   PROVE  /\ \A g \in Handles : handleID'[g][2] < usrID' /\ granted'[g][2] < usrID'
                          /\ \A v \in Threads : pc'[v] = "find" => local'[v].id[2] < usrID'
        OBVIOUS
      <4>1. pc[u] = "regist"
        BY <1>7
      <4> QED
        BY <1>3, <1>7, <1>8, <1>9, <4>1 DEF CounterAhead
    <3>5. /\ \A u, v \in Threads : InMakeUsrID(u)' /\ InMakeUsrID(v)' => u = v
          /\ \A u \in Threads : pc'[u] = "store" => local'[u].n = usrID'
          /\ \A u \in Threads : pc'[u] = "find" => local'[u].id[2] <= usrID'
          /\ ~shared' /\ usrID' >= 1
      BY <1>7, <1>9 DEF CounterAhead, InMakeUsrID
    <3> QED
      BY <3>2, <3>3, <3>4, <3>5 DEF CounterAhead
  <2>2. OwnersOnly => OwnersOnly'
    BY <1>7, <1>9 DEF OwnersOnly
  <2> QED
    BY <1>1, <1>9, <2>1, <2>2
<1> QED
  BY <1>1, <1>9, <1>10, <1>11, <1>12, <1>13, <1>14, <1>15, <1>16, <1>17, <1>18 DEF AdpInv

-----------------------------------------------------------------------------
\* A call: the handle is in the list.
LEMMA JsonSwitchKeeps ==
    ASSUME AdpInv, NEW t \in Threads, NEW who \in Handles \cup {NULL},
           NEW next \in {"fun", "unregist"}, JsonSwitch(t, who, next)
    PROVE  AdpInv'
<1>1. /\ Typed /\ MutexHeld /\ LocalSet /\ Unborn /\ LoginOwn /\ OverlapNoticed
      /\ InListsOnce /\ CallsAllocated
      /\ (~shared => Registered /\ Looked)
      /\ (raced \/ wrapped \/ (CounterAhead /\ OwnersOnly))
  BY DEF AdpInv
<1> DEFINE id == IF who = NULL THEN NoUsrID ELSE granted[who]
           h == GetHandleByInt(listHead, id)
<1>2. /\ pc[t] = "idle" /\ (who # NULL => id # NoUsrID) /\ h # NULL
      /\ calls < MaxCalls /\ calls' = calls + 1
      /\ local' = [local EXCEPT ![t] = [NoLocal EXCEPT !.handle = h, !.who = who]]
      /\ pc' = [pc EXCEPT ![t] = next]
      /\ overlapped' = IF \E u \in Calling(h) : next = "unregist" \/ pc[u] \in {"unregist", "del", "free"}
                       THEN overlapped \cup {h} ELSE overlapped
      /\ UNCHANGED <<usrID, registHead, listHead, handleID, allocated, selfMutex>>
      /\ UNCHANGED <<granted, logins, fault, shared, raced, wrapped>>
  BY DEF JsonSwitch, Goto, memory
<1>3. h \in ToSet(listHead) /\ h \in Handles /\ handleID[h] = id
  <2>1. listHead \in Seq(Handles)
    BY <1>1 DEF Typed
  <2> HIDE DEF id
  <2>2. h \in ToSet(listHead) /\ handleID[h] = id
    BY <1>2, <2>1, GetHandleIs
  <2> QED
    BY <2>1, <2>2, ToSetIs
<1> HIDE DEF h
<1>4. calls' \in 0 .. MaxCalls
  BY <1>1, <1>2, ConstFacts DEF Typed
<1> DEFINE r == [NoLocal EXCEPT !.handle = h, !.who = who]
<1>5. r \in LocalRec /\ r.handle = h /\ r.who = who
  <2>1. r.handle = h /\ r.who = who
    BY DEF NoLocal
  <2>2. r \in LocalRec
    BY <1>3, LocalFacts DEF LocalRec
  <2> QED
    BY <2>1, <2>2
<1>6. local' = [local EXCEPT ![t] = r]
  BY <1>2
<1> HIDE DEF r
<1>7. /\ pc' \in [Threads -> Labels] /\ local' \in [Threads -> LocalRec]
      /\ pc'[t] = next /\ local'[t].handle = h /\ local'[t].who = who
      /\ \A u \in Threads \ {t} : pc'[u] = pc[u] /\ local'[u] = local[u]
  <2>1. next \in Labels
    BY DEF Labels
  <2> QED
    BY <1>1, <1>2, <1>5, <1>6, <2>1, MovesIs DEF Moves
<1>8. /\ overlapped \subseteq overlapped' /\ overlapped' \subseteq Handles
      /\ \A u \in Threads : pc[u] \in CallLabels /\ local[u].handle = h
             /\ (next = "unregist" \/ pc[u] \in LogoutLabels) => h \in overlapped'
  BY <1>1, <1>2, <1>3 DEF Typed, Calling, CallLabels, LogoutLabels
<1>9. ~(h > innerHandle + logins)
  BY <1>1, <1>3 DEF Unborn
<1>10. /\ UNCHANGED <<usrID, registHead, listHead, handleID, allocated, selfMutex>>
       /\ UNCHANGED <<granted, logins, fault, shared, raced, wrapped>>
  BY <1>2
<1>11. Typed'
  BY <1>1, <1>4, <1>7, <1>8, <1>10 DEF Typed
<1>12. MutexHeld'
  BY <1>1, <1>2, <1>7, <1>10 DEF MutexHeld
<1>13. LocalSet' /\ InListsOnce'
  BY <1>1, <1>3, <1>7, <1>10 DEF LocalSet, InListsOnce, MakeLabels
<1>14. OverlapNoticed'
  <2> SUFFICES ASSUME NEW u \in Threads, NEW v \in Threads, pc'[u] \in LogoutLabels,
                      pc'[v] \in CallLabels, u # v, local'[u].handle = local'[v].handle
               PROVE  local'[u].handle \in overlapped'
    BY DEF OverlapNoticed
  <2>1. CASE u = t
    BY <1>7, <1>8, <2>1 DEF LogoutLabels
  <2>2. CASE v = t
    BY <1>7, <1>8, <2>2 DEF LogoutLabels, CallLabels
  <2>3. CASE u # t /\ v # t
    BY <1>1, <1>7, <1>8, <2>3 DEF OverlapNoticed
  <2> QED
    BY <2>1, <2>2, <2>3
<1>15. Unborn'
  BY <1>1, <1>7, <1>9, <1>10 DEF Unborn
<1>16. LoginOwn'
  <2> SUFFICES ASSUME NEW u \in Threads, pc'[u] \in LoginLabels
               PROVE  LET g == local'[u].handle
                      IN  /\ g \in allocated' /\ g \notin ToSet(listHead') /\ granted'[g] = NoUsrID
                          /\ \A v \in Threads \ {u} : pc'[v] # "idle" => local'[v].handle # g
                          /\ pc'[u] \in MakeLabels => g \notin ToSet(registHead') /\ handleID'[g] = NoUsrID
                          /\ pc'[u] = "list" => handleID'[g] # NoUsrID
    BY DEF LoginOwn
  <2>1. u # t /\ pc[u] = pc'[u] /\ pc[u] \in LoginLabels /\ local'[u] = local[u]
    BY <1>7 DEF LoginLabels
  <2>2. local[u].handle # h
    BY <1>1, <1>3, <2>1 DEF LoginOwn
  <2> QED
    BY <1>1, <1>7, <1>10, <2>1, <2>2 DEF LoginOwn
<1>17. CallsAllocated'
  <2>1. h \in allocated
    BY <1>1, <1>3 DEF CallsAllocated
  <2> QED
    BY <1>1, <1>7, <1>8, <1>10, <2>1 DEF CallsAllocated
<1>18. (~shared => Registered /\ Looked)'
  <2>1. Registered => Registered'
    <3> SUFFICES ASSUME Registered PROVE Registered'
      OBVIOUS
    <3>1. \A g \in ToSet(listHead') : handleID'[g] = NoUsrID =>
              \E u \in Threads : pc'[u] = "del" /\ local'[u].handle = g
      BY <1>2, <1>7, <1>10 DEF Registered
    <3> QED
      BY <1>7, <1>10, <3>1 DEF Registered
  <2>2. Looked => Looked'
    BY <1>7, <1>8, <1>10 DEF Looked
  <2> QED
    BY <1>1, <1>10, <2>1, <2>2
<1>19. (raced \/ wrapped \/ (CounterAhead /\ OwnersOnly))'
  <2> SUFFICES ASSUME CounterAhead, OwnersOnly PROVE CounterAhead' /\ OwnersOnly'
    BY <1>1, <1>10
  <2>1. CounterAhead'
    BY <1>2, <1>7, <1>10 DEF CounterAhead, InMakeUsrID
  <2>2. who = h \/ (who = NULL /\ h \in overlapped')
    <3>1. CASE who = NULL
      <4>1. handleID[h] = NoUsrID /\ Registered
        BY <1>1, <1>3, <3>1 DEF CounterAhead
      <4>2. PICK u \in Threads : pc[u] = "del" /\ local[u].handle = h
        BY <1>3, <4>1 DEF Registered
      <4> QED
        BY <1>8, <3>1, <4>2 DEF CallLabels, LogoutLabels
    <3>2. CASE who # NULL
      <4>1. who \in Handles /\ handleID[h] = granted[who] /\ handleID[h] # NoUsrID
        BY <1>2, <1>3, <3>2
      <4> QED
        BY <1>3, <4>1 DEF CounterAhead
    <3> QED
      BY <3>1, <3>2
  <2>3. OwnersOnly'
    BY <1>7, <1>8, <2>2 DEF OwnersOnly
  <2> QED
    BY <2>1, <2>3
<1> QED
  <2>1. (fault # NULL => fault \in overlapped \/ shared)'
    BY <1>8, <1>10 DEF AdpInv
  <2> QED
    BY <2>1, <1>11, <1>12, <1>13, <1>14, <1>15, <1>16, <1>17, <1>18, <1>19 DEF AdpInv

\* FunLoginOut: the handle is taken off the list, by the only thread at "del".
LEMMA DelHandleKeeps ==
    ASSUME AdpInv, NEW t \in Threads, DelHandle(t)
    PROVE  AdpInv'
<1>1. /\ Typed /\ MutexHeld /\ LocalSet /\ Unborn /\ LoginOwn /\ OverlapNoticed
      /\ InListsOnce /\ CallsAllocated
      /\ (~shared => Registered /\ Looked)
      /\ (raced \/ wrapped \/ (CounterAhead /\ OwnersOnly))
  BY DEF AdpInv
<1> DEFINE h == local[t].handle
<1>2. /\ pc[t] = "del" /\ selfMutex' = NULL
      /\ UNCHANGED <<usrID, registHead, handleID, allocated, granted, logins, calls, fault>>
      /\ UNCHANGED <<overlapped, shared, raced, wrapped>>
  BY DEF DelHandle, histVars
<1>3. h \in Handles /\ selfMutex = t /\ \A u \in Threads \ {t} : pc[u] # "del"
  BY <1>1, <1>2 DEF LocalSet, MutexHeld
<1>4. /\ listHead' \in Seq(Handles) /\ ToSet(listHead') = ToSet(listHead) \ {h}
      /\ \A k, m \in DOMAIN listHead' : listHead'[k] = listHead'[m] => k = m
  <2>1. listHead \in Seq(Handles) /\ \A k, m \in DOMAIN listHead : listHead[k] = listHead[m] => k = m
    BY <1>1 DEF Typed, InListsOnce
  <2>2. CASE h \in ToSet(listHead)
    <3>1. listHead' = RemoveFirst(listHead, h)
      BY <2>2 DEF DelHandle
    <3> QED
      BY <2>1, <2>2, <3>1, RemoveFirstIs
  <2>3. CASE h \notin ToSet(listHead)
    <3>1. listHead' = listHead
      BY <2>3 DEF DelHandle
    <3> QED
      BY <2>1, <2>3, <3>1
  <2> QED
    BY <2>2, <2>3
<1>5. /\ pc' \in [Threads -> Labels] /\ local' \in [Threads -> LocalRec]
      /\ pc'[t] \in {"idle", "free"} /\ (pc'[t] = "free" => local'[t] = local[t])
      /\ \A u \in Threads \ {t} : pc'[u] = pc[u] /\ local'[u] = local[u]
  <2>1. CASE pc' = [pc EXCEPT ![t] = "free"] /\ local' = local
    BY <1>1, <2>1 DEF Typed, Labels
  <2>2. CASE pc' = [pc EXCEPT ![t] = "idle"] /\ local' = [local EXCEPT ![t] = NoLocal]
    BY <1>1, <2>2, LocalFacts DEF Typed, Labels
  <2> QED
    BY <2>1, <2>2 DEF DelHandle, Return, Goto
<1> HIDE DEF h
<1>6. h = local[t].handle
  BY DEF h
<1>7. Typed'
  BY <1>1, <1>2, <1>4, <1>5 DEF Typed
<1>8. MutexHeld'
  BY <1>2, <1>3, <1>5, ConstFacts DEF MutexHeld
<1>9. LocalSet' /\ InListsOnce'
  BY <1>1, <1>2, <1>4, <1>5 DEF LocalSet, InListsOnce, MakeLabels
<1>10. OverlapNoticed'
  BY <1>1, <1>2, <1>5 DEF OverlapNoticed, LogoutLabels, CallLabels
<1>11. Unborn'
  BY <1>1, <1>2, <1>4, <1>5 DEF Unborn
<1>12. LoginOwn'
  BY <1>1, <1>2, <1>4, <1>5 DEF LoginOwn, LoginLabels, MakeLabels
<1>13. CallsAllocated'
  BY <1>1, <1>2, <1>4, <1>5, <1>6 DEF CallsAllocated, CallLabels
<1>14. (~shared => Registered /\ Looked)'
  <2>1. Registered => Registered'
    <3> SUFFICES ASSUME Registered PROVE Registered'
      OBVIOUS
    <3>1. \A g \in ToSet(listHead') : handleID'[g] = NoUsrID =>
              \E u \in Threads : pc'[u] = "del" /\ local'[u].handle = g
      BY <1>2, <1>4, <1>5, <1>6 DEF Registered
    <3>2. \A u \in Threads : pc'[u] \in {"del", "free"} => local'[u].handle \notin ToSet(registHead')
      BY <1>2, <1>5 DEF Registered
    <3> QED
      BY <1>2, <3>1, <3>2 DEF Registered
  <2>2. Looked => Looked'
    BY <1>2, <1>5 DEF Looked
  <2> QED
    BY <1>1, <1>2, <2>1, <2>2
<1>15. (raced \/ wrapped \/ (CounterAhead /\ OwnersOnly))'
  <2>1. CounterAhead => CounterAhead'
    BY <1>2, <1>5 DEF CounterAhead, InMakeUsrID
  <2>2. OwnersOnly => OwnersOnly'
    BY <1>2, <1>5 DEF OwnersOnly
  <2> QED
    BY <1>1, <1>2, <2>1, <2>2
<1> QED
  BY <1>1, <1>2, <1>7, <1>8, <1>9, <1>10, <1>11, <1>12, <1>13, <1>14, <1>15 DEF AdpInv

\* FunLoginOut: who still has the handle has been noticed.
LEMMA FreeHandleKeeps ==
    ASSUME AdpInv, NEW t \in Threads, FreeHandle(t)
    PROVE  AdpInv'
<1>1. /\ Typed /\ MutexHeld /\ LocalSet /\ Unborn /\ LoginOwn /\ OverlapNoticed
      /\ InListsOnce /\ CallsAllocated
      /\ (~shared => Registered /\ Looked)
      /\ (raced \/ wrapped \/ (CounterAhead /\ OwnersOnly))
  BY DEF AdpInv
<1> DEFINE h == local[t].handle
<1>2. /\ pc[t] = "free" /\ allocated' = allocated \ {h}
      /\ UNCHANGED <<usrID, registHead, listHead, handleID, selfMutex, granted, logins, calls, fault>>
      /\ UNCHANGED <<overlapped, shared, raced, wrapped>>
  BY DEF FreeHandle, histVars
<1>3. /\ pc' \in [Threads -> Labels] /\ local' \in [Threads -> LocalRec]
      /\ pc'[t] = "idle"
      /\ \A u \in Threads \ {t} : pc'[u] = pc[u] /\ local'[u] = local[u]
  BY <1>1, LocalFacts, MovesIs DEF FreeHandle, Return, Goto, Labels, Moves
<1>4. /\ h \notin ToSet(listHead)
      /\ \A u \in Threads \ {t} : pc[u] \in CallLabels /\ local[u].handle = h => h \in overlapped
      /\ \A u \in Threads \ {t} : pc[u] \in LoginLabels => local[u].handle # h
  BY <1>1, <1>2 DEF CallsAllocated, OverlapNoticed, LogoutLabels, LoginOwn
<1> HIDE DEF h
<1>5. h = local[t].handle
  BY DEF h
<1>6. Typed'
  BY <1>1, <1>2, <1>3 DEF Typed
<1>7. MutexHeld'
  BY <1>1, <1>2, <1>3 DEF MutexHeld
<1>8. LocalSet' /\ InListsOnce'
  BY <1>1, <1>2, <1>3 DEF LocalSet, InListsOnce, MakeLabels
<1>9. OverlapNoticed'
  BY <1>1, <1>2, <1>3 DEF OverlapNoticed, LogoutLabels, CallLabels
<1>10. Unborn'
  BY <1>1, <1>2, <1>3 DEF Unborn
<1>11. LoginOwn'
  BY <1>1, <1>2, <1>3, <1>4 DEF LoginOwn, LoginLabels, MakeLabels
<1>12. CallsAllocated'
  BY <1>1, <1>2, <1>3, <1>4 DEF CallsAllocated, CallLabels
<1>13. (~shared => Registered /\ Looked)'
  <2>1. Registered => Registered'
    <3> SUFFICES ASSUME Registered PROVE Registered'
      OBVIOUS
    <3>1. ToSet(registHead') \subseteq allocated'
      BY <1>2, <1>5 DEF Registered
    <3>2. \A g \in ToSet(listHead') : handleID'[g] = NoUsrID =>
              \E u \in Threads : pc'[u] = "del" /\ local'[u].handle = g
      BY <1>2, <1>3 DEF Registered
    <3> QED
      BY <1>2, <1>3, <3>1, <3>2 DEF Registered
  <2>2. Looked => Looked'
    BY <1>2, <1>3 DEF Looked
  <2> QED
    BY <1>1, <1>2, <2>1, <2>2
<1>14. (raced \/ wrapped \/ (CounterAhead /\ OwnersOnly))'
  <2>1. CounterAhead => CounterAhead'
    BY <1>2, <1>3 DEF CounterAhead, InMakeUsrID
  <2>2. OwnersOnly => OwnersOnly'
    BY <1>2, <1>3 DEF OwnersOnly
  <2> QED
    BY <1>1, <1>2, <2>1, <2>2
<1> QED
  BY <1>1, <1>2, <1>6, <1>7, <1>8, <1>9, <1>10, <1>11, <1>12, <1>13, <1>14 DEF AdpInv

\* FunLoginOut: the registration that is removed is the one of the handle.
LEMMA AdpUnRegistHandleKeeps ==
    ASSUME AdpInv, NEW t \in Threads, fault = NULL, AdpUnRegistHandle(t)
    PROVE  AdpInv'
<1>1. /\ Typed /\ MutexHeld /\ LocalSet /\ Unborn /\ LoginOwn /\ OverlapNoticed
      /\ InListsOnce /\ CallsAllocated
      /\ (~shared => Registered /\ Looked)
      /\ (raced \/ wrapped \/ (CounterAhead /\ OwnersOnly))
  BY DEF AdpInv
<1> DEFINE h == local[t].handle
           usr == GetHandleByInt(registHead, handleID[h])
<1>2. pc[t] = "unregist" /\ selfMutex = NULL /\ h \in Handles
  BY <1>1 DEF AdpUnRegistHandle, LocalSet
<1>3. /\ registHead \in Seq(Handles) /\ ToSet(registHead) \subseteq Handles
      /\ \A k, m \in DOMAIN registHead : registHead[k] = registHead[m] => k = m
  BY <1>1, ToSetIs DEF Typed, InListsOnce
<1>4. \/ usr = NULL /\ \A g \in ToSet(registHead) : handleID[g] # handleID[h]
      \/ usr # NULL /\ usr \in ToSet(registHead) /\ handleID[usr] = handleID[h]
  BY <1>3, GetHandleIs
<1> HIDE DEF usr
<1>5. CASE h \notin allocated /\ Fault(h)
  <2>1. h \in overlapped
    BY <1>1, <1>2, <1>5 DEF CallsAllocated, CallLabels
  <2> QED
    BY <1>2, <1>5, <2>1, FaultKeeps
<1>6. ASSUME NEW g \in FreedOnWalk(registHead, handleID[h]), Fault(g) PROVE AdpInv'
  <2>1. g \in ToSet(registHead) /\ g \notin allocated
    BY FreedIs
  <2>2. shared
    BY <1>1, <2>1 DEF Registered
  <2> QED
    BY <1>3, <1>6, <2>1, <2>2, FaultKeeps
<1>7. CASE /\ selfMutex' = t
           /\ IF usr = NULL
              THEN UNCHANGED <<registHead, handleID>>
              ELSE /\ registHead' = RemoveFirst(registHead, usr)
                   /\ handleID' = [handleID EXCEPT ![h] = NoUsrID]
           /\ Goto(t, "del")
           /\ UNCHANGED <<usrID, listHead, allocated, local, granted, logins, calls,
                          fault, histVars>>
  <2>1. /\ selfMutex' = t /\ UNCHANGED <<usrID, listHead, allocated, local, granted, logins, calls>>
        /\ UNCHANGED <<fault, overlapped, shared, raced, wrapped>>
        /\ pc' = [pc EXCEPT ![t] = "del"]
    BY <1>7 DEF histVars, Goto
  <2>2. /\ pc' \in [Threads -> Labels] /\ pc'[t] = "del"
        /\ \A u \in Threads \ {t} : pc'[u] = pc[u]
    BY <1>1, <2>1 DEF Labels, Typed
  <2>3. /\ registHead' \in Seq(Handles) /\ ToSet(registHead') \subseteq ToSet(registHead)
        /\ \A k, m \in DOMAIN registHead' : registHead'[k] = registHead'[m] => k = m
        /\ usr = NULL => UNCHANGED <<registHead, handleID>>
        /\ usr # NULL => ToSet(registHead') = ToSet(registHead) \ {usr}
    <3>1. CASE usr = NULL
      BY <1>3, <1>7, <3>1
    <3>2. CASE usr # NULL
      <4>1. usr \in ToSet(registHead) /\ registHead' = RemoveFirst(registHead, usr)
        BY <1>4, <1>7, <3>2
      <4> QED
        BY <1>3, <3>2, <4>1, RemoveFirstIs
    <3> QED
      BY <3>1, <3>2
  <2>4. /\ handleID' \in [Handles -> UsrIDs] /\ \A g \in Handles \ {h} : handleID'[g] = handleID[g]
        /\ handleID'[h] = NoUsrID \/ (usr = NULL /\ handleID'[h] = handleID[h])
        /\ usr # NULL => handleID'[h] = NoUsrID
    <3>1. CASE usr = NULL
      BY <1>1, <1>7, <3>1 DEF Typed
    <3>2. CASE usr # NULL
      BY <1>1, <1>2, <1>7, <3>2, IdFacts DEF Typed
    <3> QED
      BY <3>1, <3>2
  <2>5. ~(h > innerHandle + logins)
    BY <1>1, <1>2 DEF Unborn
  <2> HIDE DEF h
  <2>6. h = local[t].handle
    BY DEF h
  <2>7. Typed'
    BY <1>1, <2>1, <2>2, <2>3, <2>4 DEF Typed
  <2>8. MutexHeld'
    BY <1>1, <1>2, <2>1, <2>2, ConstFacts DEF MutexHeld
  <2>9. LocalSet' /\ InListsOnce'
    BY <1>1, <1>2, <2>1, <2>2, <2>3 DEF LocalSet, InListsOnce, MakeLabels
  <2>10. OverlapNoticed'
    BY <1>1, <1>2, <2>1, <2>2 DEF OverlapNoticed, LogoutLabels, CallLabels
  <2>11. Unborn'
    BY <1>1, <1>2, <2>1, <2>2, <2>3, <2>4, <2>5 DEF Unborn
  <2>12. LoginOwn'
    <3> SUFFICES ASSUME NEW u \in Threads, pc'[u] \in LoginLabels
                 PROVE  LET g == local'[u].handle
                        IN  /\ g \in allocated' /\ g \notin ToSet(listHead') /\ granted'[g] = NoUsrID
                            /\ \A v \in Threads \ {u} : pc'[v] # "idle" => local'[v].handle # g
                            /\ pc'[u] \in MakeLabels => g \notin ToSet(registHead') /\ handleID'[g] = NoUsrID
                            /\ pc'[u] = "list" => handleID'[g] # NoUsrID
      BY DEF LoginOwn
    <3>1. u # t /\ pc[u] = pc'[u] /\ pc[u] \in LoginLabels
      BY <2>2 DEF LoginLabels
    <3>2. local[u].handle # h /\ local[u].handle \in Handles
      BY <1>1, <1>2, <2>6, <3>1 DEF LoginOwn, LoginLabels, LocalSet
    <3> QED
      BY <1>1, <1>2, <2>1, <2>2, <2>3, <2>4, <3>1, <3>2 DEF LoginOwn
  <2>13. CallsAllocated'
    BY <1>1, <1>2, <2>1, <2>2 DEF CallsAllocated, CallLabels
  <2>14. ASSUME ~shared'
         PROVE  Registered' /\ Looked'
    <3>1. Registered /\ Looked
      BY <1>1, <2>1, <2>14
    <3>2. ToSet(registHead') = ToSet(registHead) \ {h} /\ handleID'[h] = NoUsrID
      <4>1. CASE usr = NULL
        <5>1. h \notin ToSet(registHead)
          BY <1>4, <4>1
        <5>2. handleID[h] = NoUsrID
          BY <1>2, <3>1, <5>1 DEF Registered
        <5> QED
          BY <2>3, <2>4, <4>1, <5>1, <5>2
      <4>2. CASE usr # NULL
        <5>1. usr \in ToSet(registHead) /\ handleID[usr] = handleID[h] /\ usr \in Handles
          BY <1>3, <1>4, <4>2
        <5>2. usr = h
          BY <1>2, <3>1, <5>1 DEF Registered
        <5> QED
          BY <2>3, <2>4, <4>2, <5>2
      <4> QED
        BY <4>1, <4>2
    <3>3. \A u \in Threads \ {t} : pc[u] \in CallLabels /\ local[u].handle = h => h \in overlapped
      BY <1>1, <1>2, <2>6 DEF OverlapNoticed, LogoutLabels
    <3>4. \A g \in Handles : g \in ToSet(registHead') <=> handleID'[g] # NoUsrID
      BY <2>4, <3>1, <3>2 DEF Registered
    <3>5. \A f, g \in Handles : handleID'[f] = handleID'[g] /\ handleID'[f] # NoUsrID => f = g
      BY <2>4, <3>1, <3>2 DEF Registered
    <3>6. /\ ToSet(registHead') \subseteq allocated'
          /\ \A u \in Threads : pc'[u] \in {"del", "free"} => local'[u].handle \notin ToSet(registHead')
      BY <2>1, <2>2, <2>6, <3>1, <3>2 DEF Registered
    <3>7. \A g \in ToSet(listHead') : handleID'[g] = NoUsrID =>
              \E u \in Threads : pc'[u] = "del" /\ local'[u].handle = g
      <4> SUFFICES ASSUME NEW g \in ToSet(listHead), handleID'[g] = NoUsrID
                   PROVE  \E u \in Threads : pc'[u] = "del" /\ local'[u].handle = g
        BY <2>1
      <4>1. CASE g = h
        BY <2>1, <2>2, <2>6, <4>1
      <4>2. CASE g # h
        <5>1. g \in Handles
          BY <1>1, ToSetIs DEF Typed
        <5>2. PICK u \in Threads : pc[u] = "del" /\ local[u].handle = g
          BY <2>4, <3>1, <4>2, <5>1 DEF Registered
        <5>3. pc'[u] = "del" /\ local'[u].handle = g
          BY <1>2, <2>1, <2>2, <5>2
        <5> QED
          BY <5>3
      <4> QED
        BY <4>1, <4>2
    <3>8. Looked'
      <4> SUFFICES ASSUME NEW u \in Threads, pc'[u] \in {"find", "use"}
                   PROVE  LET g == local'[u].handle
                          IN  /\ pc'[u] = "find" =>
                                   /\ g \in overlapped' \/ handleID'[g] = local'[u].id
                                   /\ \A f \in Handles : handleID'[f] = local'[u].id => f = g
                              /\ pc'[u] = "use" => /\ local'[u].usr = g
                                                   /\ g \in overlapped' \/ g \in ToSet(registHead')
        BY DEF Looked
      <4>1. /\ u # t /\ pc[u] = pc'[u] /\ local[u].handle \in Handles
            /\ local[u].handle = h => h \in overlapped
        BY <1>1, <2>2, <3>3 DEF LocalSet, CallLabels
      <4>2. CASE pc[u] = "find"
        <5>1. local[u].id # NoUsrID
          BY <1>1, <4>2 DEF LocalSet
        <5> QED
          BY <2>1, <2>4, <3>1, <3>2, <4>1, <4>2, <5>1 DEF Looked
      <4>3. CASE pc[u] = "use"
        BY <2>1, <3>1, <3>2, <4>1, <4>3 DEF Looked
      <4> QED
        BY <4>1, <4>2, <4>3
    <3> QED
      BY <3>4, <3>5, <3>6, <3>7, <3>8 DEF Registered
  <2>15. (raced \/ wrapped \/ (CounterAhead /\ OwnersOnly))'
    <3>1. CounterAhead => CounterAhead'
      <4> SUFFICES ASSUME CounterAhead PROVE CounterAhead'
        OBVIOUS
      <4>0. usrID \in Nat
        BY <1>1, ConstFacts DEF Typed
      <4>1. \A g \in Handles : handleID'[g] = handleID[g] \/ handleID'[g] = NoUsrID
        BY <2>4
      <4>2. \A g \in Handles : handleID'[g][2] <= usrID' /\ granted'[g][2] <= usrID'
        <5>1. NoUsrID[2] = 0 /\ usrID >= 1
          BY IdFacts DEF CounterAhead
        <5>2. NoUsrID[2] <= usrID
          BY <4>0, <5>1
        <5>3. \A g \in Handles : handleID[g][2] <= usrID /\ granted[g][2] <= usrID
          BY DEF CounterAhead
        <5> QED
          BY <2>1, <4>1, <5>2, <5>3
      <4>3. (\E u \in Threads : pc'[u] = "regist") =>
                /\ \A g \in Handles : handleID'[g][2] < usrID' /\ granted'[g][2] < usrID'
                /\ \A u \in Threads : pc'[u] = "find" => local'[u].id[2] < usrID'
        <5> SUFFICES ASSUME NEW u \in Threads, pc'[u] = "regist"
                     PROVE  /\ \A g \in Handles : handleID'[g][2] < usrID' /\ granted'[g][2] < usrID'
                            /\ \A v \in Threads : pc'[v] = "find" => local'[v].id[2] < usrID'
          OBVIOUS
        <5>1. pc[u] = "regist"
          BY <2>2
        <5> QED
          <6>1. NoUsrID[2] = 0 /\ usrID >= 1
            BY IdFacts DEF CounterAhead
          <6>2. NoUsrID[2] < usrID
            BY <4>0, <6>1
          <6>3. /\ \A g \in Handles : handleID[g][2] < usrID /\ granted[g][2] < usrID
                /\ \A v \in Threads : pc[v] = "find" => local[v].id[2] < usrID
            BY <5>1 DEF CounterAhead
          <6> QED
            BY <2>1, <2>2, <4>1, <6>2, <6>3
      <4>4. \A f, g \in Handles : handleID'[f] # NoUsrID /\ granted'[g] = handleID'[f] => g = f
        BY <2>1, <4>1 DEF CounterAhead
      <4>5. /\ \A u, v \in Threads : InMakeUsrID(u)' /\ InMakeUsrID(v)' => u = v
            /\ \A u \in Threads : pc'[u] = "store" => local'[u].n = usrID'
            /\ \A u \in Threads : pc'[u] = "find" => local'[u].id[2] <= usrID'
            /\ ~shared' /\ usrID' >= 1
        BY <2>1, <2>2 DEF CounterAhead, InMakeUsrID
      <4> QED
        BY <4>2, <4>3, <4>4, <4>5 DEF CounterAhead
    <3>2. OwnersOnly => OwnersOnly'
      BY <1>2, <2>1, <2>2 DEF OwnersOnly
    <3> QED
      BY <1>1, <2>1, <3>1, <3>2
  <2> QED
    BY <2>1, <2>7, <2>8, <2>9, <2>10, <2>11, <2>12, <2>13, <2>14, <2>15 DEF AdpInv
<1> QED
  BY <1>5, <1>6, <1>7 DEF AdpUnRegistHandle, usr
-----------------------------------------------------------------------------
LEMMA StutterKeeps == AdpInv /\ UNCHANGED vars => AdpInv'
<1> SUFFICES ASSUME AdpInv, UNCHANGED vars PROVE AdpInv'
  OBVIOUS
<1>1. /\ UNCHANGED <<usrID, registHead, listHead, handleID, allocated, selfMutex>>
      /\ UNCHANGED <<pc, local, granted, logins, calls, fault>>
      /\ UNCHANGED <<overlapped, shared, raced, wrapped>>
  BY DEF vars, memory, histVars
<1>2. Typed'
  BY <1>1 DEF AdpInv, Typed
<1>3. MutexHeld' /\ LocalSet' /\ OverlapNoticed' /\ InListsOnce'
  BY <1>1 DEF AdpInv, MutexHeld, LocalSet, OverlapNoticed, InListsOnce
<1>4. Unborn' /\ LoginOwn' /\ CallsAllocated'
  BY <1>1 DEF AdpInv, Unborn, LoginOwn, CallsAllocated
<1>5. (~shared => Registered /\ Looked)'
  BY <1>1 DEF AdpInv, Registered, Looked
<1>6. (raced \/ wrapped \/ (CounterAhead /\ OwnersOnly))'
  <2>1. CounterAhead => CounterAhead'
    BY <1>1 DEF CounterAhead, InMakeUsrID
  <2>2. OwnersOnly => OwnersOnly'
    BY <1>1 DEF OwnersOnly
  <2> QED
    BY <1>1, <2>1, <2>2 DEF AdpInv
<1> QED
  BY <1>1, <1>2, <1>3, <1>4, <1>5, <1>6 DEF AdpInv

(***************************************************************************)
(* AdpInv is an inductive invariant: login, request and logout, by any     *)
(* number of threads, keep it.                                             *)
(***************************************************************************)
THEOREM AdpInvHolds == Spec => []AdpInv
<1>1. AdpInv /\ [Next]_vars => AdpInv'
  <2> SUFFICES ASSUME AdpInv, Next PROVE AdpInv'
    BY StutterKeeps
  <2>1. fault = NULL
    BY DEF Next
  <2>2. PICK t \in Threads :
          \/ \E level \in Levels : FunLogin(t, level)
          \/ ReadCounter(t) \/ WriteCounter(t) \/ AdpRegistHandle(t) \/ AddToList(t)
          \/ \E who \in Handles \cup {NULL}, next \in {"fun", "unregist"} :
                 JsonSwitch(t, who, next)
          \/ Fun(t) \/ GetUsrRegistInfo(t) \/ UseRegistInfo(t)
          \/ AdpUnRegistHandle(t) \/ DelHandle(t) \/ FreeHandle(t)
    BY DEF Next
  <2>3. ASSUME NEW level \in Levels, FunLogin(t, level) PROVE AdpInv'
    BY <2>3, FunLoginKeeps
  <2>4. CASE ReadCounter(t)
    BY <2>4, ReadCounterKeeps
  <2>5. CASE WriteCounter(t)
    BY <2>1, <2>5, WriteCounterKeeps
  <2>6. CASE AdpRegistHandle(t)
    BY <2>6, AdpRegistHandleKeeps
  <2>7. CASE AddToList(t)
    BY <2>7, AddToListKeeps
  <2>8. ASSUME NEW who \in Handles \cup {NULL}, NEW next \in {"fun", "unregist"},
               JsonSwitch(t, who, next)
        PROVE  AdpInv'
    BY <2>8, JsonSwitchKeeps
  <2>9. CASE Fun(t)
    BY <2>1, <2>9, FunKeeps
  <2>10. CASE GetUsrRegistInfo(t)
    BY <2>1, <2>10, GetUsrRegistInfoKeeps
  <2>11. CASE UseRegistInfo(t)
    BY <2>1, <2>11, UseRegistInfoKeeps
  <2>12. CASE AdpUnRegistHandle(t)
    BY <2>1, <2>12, AdpUnRegistHandleKeeps
  <2>13. CASE DelHandle(t)
    BY <2>13, DelHandleKeeps
  <2>14. CASE FreeHandle(t)
    BY <2>14, FreeHandleKeeps
  <2> QED
    BY <2>2, <2>3, <2>4, <2>5, <2>6, <2>7, <2>8, <2>9, <2>10, <2>11, <2>12, <2>13, <2>14
<1> QED
  BY <1>1, InitHolds, PTL DEF Spec

(***************************************************************************)
(* Freed memory, or a registration that is gone, is used only of a session *)
(* that was logged out during another call of its own, or after an id was  *)
(* given out twice; and that needs two logins at once in MakeUsrID, or its *)
(* counter to have started again.                                          *)
(***************************************************************************)
THEOREM FaultsOnlyOnOverlapHolds == Spec => []FaultsOnlyOnOverlap
<1>1. AdpInv => FaultsOnlyOnOverlap
  BY DEF AdpInv, CounterAhead, FaultsOnlyOnOverlap
<1> QED
  BY <1>1, AdpInvHolds, PTL

(***************************************************************************)
(* JsonSwitch runs a request with the handle of the session whose client   *)
(* sent it, and AdpAPI with the registration of that handle.               *)
(***************************************************************************)
THEOREM RunsAsOwnerHolds == Spec => []RunsAsOwner
<1>1. AdpInv => RunsAsOwner
  BY DEF AdpInv, OwnersOnly, Looked, RunsAsOwner
<1> QED
  BY <1>1, AdpInvHolds, PTL

(***************************************************************************)
(* The list of JsonAPI holds no freed handle; as long as ids differ,       *)
(* neither does the one of Adp, and each session in the list is registered *)
(* until its logout has reset it.                                          *)
(***************************************************************************)
THEOREM RegisteredIsAllocatedHolds == Spec => []RegisteredIsAllocated
<1>1. AdpInv => TypeOK
  <2> SUFFICES ASSUME AdpInv PROVE TypeOK
    OBVIOUS
  <2>1. ToSet(registHead) \subseteq Handles /\ ToSet(listHead) \subseteq Handles
    BY ToSetIs DEF AdpInv, Typed
  <2> QED
    BY <2>1 DEF AdpInv, Typed, MutexHeld, TypeOK
<1>2. AdpInv => RegisteredIsAllocated
  <2> SUFFICES ASSUME AdpInv PROVE RegisteredIsAllocated
    OBVIOUS
  <2>1. ToSet(listHead) \subseteq Handles
    BY ToSetIs DEF AdpInv, Typed
  <2> QED
    BY <1>1, <2>1 DEF AdpInv, CallsAllocated, Registered, RegisteredIsAllocated
<1> QED
  BY <1>2, AdpInvHolds, PTL
=============================================================================
